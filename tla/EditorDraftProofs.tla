--------------------------- MODULE EditorDraftProofs ---------------------------
(***************************************************************************)
(* What TLAPS proves of EditorDraft, for any number of openings, documents *)
(* and queued operations.                                                  *)
(***************************************************************************)
EXTENDS EditorDraft, SequenceTheorems, TLAPS

-----------------------------------------------------------------------------
(* Queues.  What matters of a queue is which operations are in it and which  *)
(* come after which others.                                                  *)

\* Some element of s is in A.
Has(s, A) == \E i \in DOMAIN s : s[i] \in A

\* Every element of A has one of B somewhere behind it.
Followed(s, A, B) ==
    \A i \in DOMAIN s : s[i] \in A => \E j \in DOMAIN s : i < j /\ s[j] \in B

\* No element of B is anywhere behind one of A.
NeverAfter(s, A, B) ==
    \A i, j \in DOMAIN s : i < j /\ s[i] \in A => s[j] \notin B

LEMMA AppendHas ==
    ASSUME NEW S, NEW s \in Seq(S), NEW o \in S, NEW A
    PROVE  Has(Append(s, o), A) <=> Has(s, A) \/ o \in A
<1>1. /\ Len(s) \in Nat /\ DOMAIN s = 1..Len(s) /\ DOMAIN Append(s, o) = 1..Len(s) + 1
      /\ \A i \in 1..Len(s) : Append(s, o)[i] = s[i]
      /\ Append(s, o)[Len(s) + 1] = o
  BY AppendProperties, LenProperties
<1>2. /\ \A i \in 1..Len(s) + 1 : i # Len(s) + 1 => i \in 1..Len(s)
      /\ \A i \in 1..Len(s) : i \in 1..Len(s) + 1
      /\ Len(s) + 1 \in 1..Len(s) + 1
  BY <1>1
<1>3. QED
  BY <1>1, <1>2 DEF Has

LEMMA AppendFollowed ==
    ASSUME NEW S, NEW s \in Seq(S), NEW o \in S, NEW A, NEW B, o \notin A,
           Followed(s, A, B) \/ o \in B
    PROVE  Followed(Append(s, o), A, B)
<1>1. /\ Len(s) \in Nat /\ DOMAIN s = 1..Len(s) /\ DOMAIN Append(s, o) = 1..Len(s) + 1
      /\ \A i \in 1..Len(s) : Append(s, o)[i] = s[i]
      /\ Append(s, o)[Len(s) + 1] = o
  BY AppendProperties, LenProperties
<1>2. /\ \A i \in 1..Len(s) + 1 : i # Len(s) + 1 => i \in 1..Len(s) /\ i < Len(s) + 1
      /\ \A i \in 1..Len(s) : i \in 1..Len(s) + 1
      /\ Len(s) + 1 \in 1..Len(s) + 1
  BY <1>1
<1>3. CASE Followed(s, A, B)
  BY <1>1, <1>2, <1>3 DEF Followed
<1>4. CASE o \in B
  BY <1>1, <1>2, <1>4 DEF Followed
<1>5. QED
  BY <1>3, <1>4

LEMMA AppendNeverAfter ==
    ASSUME NEW S, NEW s \in Seq(S), NEW o \in S, NEW A, NEW B, NeverAfter(s, A, B),
           o \notin B \/ ~Has(s, A)
    PROVE  NeverAfter(Append(s, o), A, B)
<1>1. /\ Len(s) \in Nat /\ DOMAIN s = 1..Len(s) /\ DOMAIN Append(s, o) = 1..Len(s) + 1
      /\ \A i \in 1..Len(s) : Append(s, o)[i] = s[i]
      /\ Append(s, o)[Len(s) + 1] = o
  BY AppendProperties, LenProperties
<1>2. /\ \A i \in 1..Len(s) + 1 : i # Len(s) + 1 => i \in 1..Len(s)
      /\ \A i, j \in 1..Len(s) + 1 : i < j => i \in 1..Len(s)
  BY <1>1
<1>3. QED
  BY <1>1, <1>2 DEF NeverAfter, Has

(* The head of a queue is taken. *)
LEMMA TailFacts ==
    ASSUME NEW S, NEW s \in Seq(S), s # <<>>
    PROVE  /\ Tail(s) \in Seq(S) /\ Head(s) \in S
           /\ \A A : Has(s, A) <=> Head(s) \in A \/ Has(Tail(s), A)
           /\ \A A, B : Followed(s, A, B) =>
                  Followed(Tail(s), A, B) /\ (Head(s) \in A => Has(Tail(s), B))
           /\ \A A, B : NeverAfter(s, A, B) =>
                  NeverAfter(Tail(s), A, B) /\ (Head(s) \in A => ~Has(Tail(s), B))
<1>1. /\ Tail(s) \in Seq(S) /\ Head(s) \in S /\ Head(s) = s[1] /\ Len(s) \in Nat \ {0}
      /\ Len(Tail(s)) = Len(s) - 1 /\ \A i \in 1..Len(Tail(s)) : Tail(s)[i] = s[i + 1]
      /\ DOMAIN s = 1..Len(s) /\ DOMAIN Tail(s) = 1..Len(s) - 1
  BY HeadTailProperties, LenProperties, EmptySeq
<1>2. ASSUME NEW i \in 1..Len(s), i # 1 PROVE i - 1 \in 1..Len(s) - 1 /\ Tail(s)[i - 1] = s[i] /\ 1 < i
  <2>1. i - 1 \in 1..Len(s) - 1 /\ (i - 1) + 1 = i /\ 1 < i
    BY <1>1, <1>2
  <2>2. QED
    BY <1>1, <2>1
<1>3. \A i \in 1..Len(s) - 1 : i + 1 \in 1..Len(s) /\ i + 1 # 1 /\ 1 < i + 1 /\ Tail(s)[i] = s[i + 1]
  BY <1>1
<1>4. 1 \in 1..Len(s)
  BY <1>1
<1>5. ASSUME NEW A PROVE Has(s, A) <=> Head(s) \in A \/ Has(Tail(s), A)
  BY <1>1, <1>2, <1>3, <1>4 DEF Has
<1>6. ASSUME NEW A, NEW B, Followed(s, A, B)
      PROVE  Followed(Tail(s), A, B) /\ (Head(s) \in A => Has(Tail(s), B))
  <2>1. ASSUME NEW i \in 1..Len(s) - 1, Tail(s)[i] \in A
        PROVE  \E j \in 1..Len(s) - 1 : i < j /\ Tail(s)[j] \in B
    <3>1. PICK j \in 1..Len(s) : i + 1 < j /\ s[j] \in B
      BY <1>1, <1>3, <1>6, <2>1 DEF Followed
    <3>2. j # 1 /\ i < j - 1
      BY <1>1, <3>1
    <3>3. QED
      BY <1>2, <3>1, <3>2
  <2>2. Head(s) \in A => Has(Tail(s), B)
    <3>1. SUFFICES ASSUME s[1] \in A PROVE \E j \in 1..Len(s) - 1 : Tail(s)[j] \in B
      BY <1>1 DEF Has
    <3>2. PICK j \in 1..Len(s) : 1 < j /\ s[j] \in B
      BY <1>1, <1>4, <1>6, <3>1 DEF Followed
    <3>3. j # 1
      BY <3>2
    <3>4. QED
      BY <1>2, <3>2, <3>3
  <2>3. QED
    BY <1>1, <2>1, <2>2 DEF Followed
<1>7. ASSUME NEW A, NEW B, NeverAfter(s, A, B)
      PROVE  NeverAfter(Tail(s), A, B) /\ (Head(s) \in A => ~Has(Tail(s), B))
  <2>1. ASSUME NEW i \in 1..Len(s) - 1, NEW j \in 1..Len(s) - 1, i < j, Tail(s)[i] \in A
        PROVE  Tail(s)[j] \notin B
    <3>1. i + 1 < j + 1
      BY <2>1
    <3>2. QED
      BY <1>1, <1>3, <1>7, <2>1, <3>1 DEF NeverAfter
  <2>2. Head(s) \in A => ~Has(Tail(s), B)
    BY <1>1, <1>3, <1>4, <1>7 DEF NeverAfter, Has
  <2>3. QED
    BY <1>1, <2>1, <2>2 DEF NeverAfter
<1>8. QED
  BY <1>1, <1>5, <1>6, <1>7

LEMMA EmptyFacts ==
    /\ \A A : ~Has(<<>>, A)
    /\ \A A, B : Followed(<<>>, A, B) /\ NeverAfter(<<>>, A, B)
BY DEF Has, Followed, NeverAfter

-----------------------------------------------------------------------------
(* Types. *)

Entries == [ver : Versions, doc : Docs]

Phases == {"away", "gate", "open", "refused", "left", "crashed"}
Pages ==
    [phase : Phases, answer : {Unread, None} \union Records,
     media : {"pending", "with", "without", "error"}, choice : {"none", "server", "draft"},
     doc : Docs, on : Versions, first : 0..MaxWords, body : BOOLEAN, dirty : BOOLEAN,
     timer : BOOLEAN, retired : BOOLEAN,
     status : {"idle", "saving", "saved", "failed", "unsupported"}, conflict : BOOLEAN,
     again : BOOLEAN, typed : BOOLEAN]
Saves ==
    [stage : {"none", "sent", "applied", "refused", "closing"}, doc : Docs, expect : Versions,
     on : Versions, overwrite : BOOLEAN]

Puts(e)    == {o \in [op : {"put"}, by : {e}, record : Records] : o.record.by = e}
Reads(e)   == [op : {"read"}, by : {e}]
Deletes(e) == [op : {"delete"}, by : {e}, upto : 0..MaxEditors]
AllPuts    == UNION {Puts(e) : e \in Editors}
AllDeletes == UNION {Deletes(e) : e \in Editors}
Operations == AllPuts \union AllDeletes \union UNION {Reads(e) : e \in Editors}

\* What an operation is, by its fields.
LEMMA OperationFacts ==
    ASSUME NEW o \in Operations
    PROVE  /\ o.op \in {"read", "put", "delete"} /\ o.by \in Editors
           /\ o.op = "put" <=> o \in AllPuts
           /\ o.op = "delete" <=> o \in AllDeletes
           /\ \A e \in Editors : /\ o \in Puts(e) <=> o.op = "put" /\ o.by = e
                                 /\ o \in Reads(e) <=> o.op = "read" /\ o.by = e
                                 /\ o \in Deletes(e) <=> o.op = "delete" /\ o.by = e
           /\ o.op = "put" => o.record \in Records /\ o.record.by = o.by
           /\ o.op = "delete" => o.upto \in 0..MaxEditors
<1>1. CASE o \in AllPuts
  BY <1>1 DEF AllPuts, AllDeletes, Puts, Reads, Deletes
<1>2. CASE o \in AllDeletes
  BY <1>2 DEF AllPuts, AllDeletes, Puts, Reads, Deletes
<1>3. CASE \E e \in Editors : o \in Reads(e)
  BY <1>3 DEF AllPuts, AllDeletes, Puts, Reads, Deletes
<1>4. QED
  BY <1>1, <1>2, <1>3 DEF Operations

LEMMA OperationsMade ==
    ASSUME NEW e \in Editors
    PROVE  /\ Read(e) \in Operations /\ Read(e).op = "read" /\ Read(e).by = e
           /\ \A u \in 0..MaxEditors : /\ Delete(e, u) \in Operations /\ Delete(e, u).op = "delete"
                                       /\ Delete(e, u).by = e /\ Delete(e, u).upto = u
<1>1. Read(e) \in Reads(e) /\ Read(e).op = "read" /\ Read(e).by = e
  BY DEF Read, Reads
<1>2. \A u \in 0..MaxEditors : /\ Delete(e, u) \in Deletes(e) /\ Delete(e, u).op = "delete"
                               /\ Delete(e, u).by = e /\ Delete(e, u).upto = u
  BY DEF Delete, Deletes
<1>3. QED
  BY <1>1, <1>2 DEF Operations, AllDeletes

LEMMA AppendOne ==
    ASSUME NEW S, NEW s \in Seq(S), NEW o \in S
    PROVE  s \o <<o>> = Append(s, o) /\ s \o <<>> = s /\ Append(s, o) \in Seq(S)
BY AppendIsConcat, ConcatEmptySeq, AppendProperties

-----------------------------------------------------------------------------
(* Rendering.  Of a page it changes the phase, what the form opens on, and an *)
(* answer that will not be offered.                                           *)

SameFields(p, r) ==
    /\ r.media = p.media /\ r.choice = p.choice /\ r.status = p.status
    /\ r.timer = p.timer /\ r.retired = p.retired /\ r.conflict = p.conflict
    /\ r.again = p.again /\ r.typed = p.typed

SameForm(p, r) == r.doc = p.doc /\ r.on = p.on /\ r.dirty = p.dirty

\* Form r has been opened from page p.
OpenedForm(p, q, r) ==
    /\ p.phase = "gate" /\ r.phase = "open" /\ q \in Entries /\ Editable(q.doc)
    /\ p.again \/ p.choice # "none" \/ RecoveryPhase(p, q) = "clear"
    /\ \/ r.dirty
       \/ r.dirty = p.dirty /\ ~(p.choice = "draft" /\ RecoveryPhase(p, q) = "offer")

LEMMA RehydratedTyped ==
    ASSUME NEW p \in Pages, p.answer \notin {Unread, None}
    PROVE  p.answer \in Records /\ Recovered(p) \in Docs
<1>1. p.answer \in Records
  BY DEF Pages
<1>2. p.answer.doc \in Docs
  BY <1>1 DEF Records
<1>3. QED
  BY <1>1, <1>2 DEF Recovered, Rehydrated, Docs, Embeds

LEMMA OpenedFacts ==
    ASSUME NEW p \in Pages, NEW q \in Entries, p.phase = "gate", Editable(q.doc),
           p.again \/ p.choice # "none" \/ RecoveryPhase(p, q) = "clear"
    PROVE  /\ Opened(p, q) \in Pages /\ Opened(p, q).answer = p.answer
           /\ SameFields(p, Opened(p, q)) /\ OpenedForm(p, q, Opened(p, q))
<1>1. CASE p.choice = "draft" /\ RecoveryPhase(p, q) = "offer"
  <2>1. p.answer \notin {Unread, None}
    BY <1>1 DEF RecoveryPhase
  <2>2. Recovered(p) \in Docs /\ p.answer \in Records
    BY <2>1, RehydratedTyped
  <2>3. PICK n \in Versions : n = IF p.answer.base # q.ver THEN q.ver ELSE p.answer.on
    BY <2>2 DEF Records, Entries
  <2>4. Opened(p, q) = [p EXCEPT !.phase = "open", !.body = TRUE, !.dirty = TRUE,
                            !.doc = Recovered(p), !.on = n]
    BY <1>1, <2>3 DEF Opened
  <2>5. Opened(p, q) \in Pages /\ Opened(p, q).answer = p.answer
    BY <2>2, <2>4 DEF Pages, Phases
  <2>6. SameFields(p, Opened(p, q))
    BY <2>4 DEF Pages, SameFields
  <2>7. Opened(p, q).phase = "open" /\ Opened(p, q).dirty
    BY <2>4 DEF Pages
  <2>8. QED
    BY <2>5, <2>6, <2>7 DEF OpenedForm
<1>2. CASE ~(p.choice = "draft" /\ RecoveryPhase(p, q) = "offer")
  <2>1. Opened(p, q) = [p EXCEPT !.phase = "open", !.doc = q.doc, !.first = q.doc.words,
                                 !.on = q.ver]
    BY <1>2 DEF Opened
  <2>2. Opened(p, q) \in Pages /\ Opened(p, q).answer = p.answer
    BY <2>1 DEF Pages, Phases, Entries, Docs
  <2>3. SameFields(p, Opened(p, q))
    BY <2>1 DEF Pages, SameFields
  <2>4. Opened(p, q).phase = "open" /\ Opened(p, q).dirty = p.dirty
    BY <2>1 DEF Pages
  <2>5. QED
    BY <1>2, <2>2, <2>3, <2>4 DEF OpenedForm
<1>3. QED
  BY <1>1, <1>2

LEMMA RenderedFacts ==
    ASSUME NEW p \in Pages, NEW q \in Entries \union {None}, NEW r, r = Rendered(p, q)
    PROVE  /\ r \in Pages /\ SameFields(p, r)
           /\ r.answer = IF Obsolete(p, q) THEN None ELSE p.answer
           /\ \/ r.phase = p.phase /\ SameForm(p, r)
                 /\ (p.phase = "gate" /\ q # None =>
                       ~p.again /\ p.choice = "none" /\ RecoveryPhase(p, q) # "clear")
              \/ r.phase = "refused" /\ p.phase \in {"gate", "open"} /\ SameForm(p, r)
              \/ OpenedForm(p, q, r)
<1>1. PICK b : b = IF Refusing(p, q) THEN [p EXCEPT !.phase = "refused"]
                   ELSE IF /\ p.phase = "gate" /\ q # None
                           /\ p.again \/ p.choice # "none" \/ RecoveryPhase(p, q) = "clear"
                        THEN Opened(p, q) ELSE p
  OBVIOUS
<1>2. r = IF Obsolete(p, q) THEN [b EXCEPT !.answer = None] ELSE b
  BY <1>1 DEF Rendered
<1>3. /\ b \in Pages /\ SameFields(p, b) /\ b.answer = p.answer
      /\ \/ b.phase = p.phase /\ SameForm(p, b)
            /\ (p.phase = "gate" /\ q # None =>
                  ~p.again /\ p.choice = "none" /\ RecoveryPhase(p, q) # "clear")
         \/ b.phase = "refused" /\ p.phase \in {"gate", "open"} /\ SameForm(p, b)
         \/ OpenedForm(p, q, b)
  <2>1. CASE Refusing(p, q)
    <3>1. b = [p EXCEPT !.phase = "refused"]
      BY <1>1, <2>1
    <3>2. b \in Pages /\ b.phase = "refused" /\ b.answer = p.answer
      BY <3>1 DEF Pages, Phases
    <3>3. SameFields(p, b)
      BY <3>1 DEF Pages, SameFields
    <3>4. SameForm(p, b)
      BY <3>1 DEF Pages, SameForm
    <3>5. QED
      BY <2>1, <3>2, <3>3, <3>4 DEF Refusing
  <2>2. CASE /\ ~Refusing(p, q) /\ p.phase = "gate" /\ q # None
             /\ p.again \/ p.choice # "none" \/ RecoveryPhase(p, q) = "clear"
    <3>1. b = Opened(p, q) /\ q \in Entries /\ Editable(q.doc)
      BY <1>1, <2>2 DEF Refusing
    <3>2. QED
      BY <2>2, <3>1, OpenedFacts
  <2>3. CASE /\ ~Refusing(p, q)
             /\ ~(/\ p.phase = "gate" /\ q # None
                  /\ p.again \/ p.choice # "none" \/ RecoveryPhase(p, q) = "clear")
    <3>1. b = p
      BY <1>1, <2>3
    <3>2. SameFields(p, b) /\ SameForm(p, b)
      BY <3>1 DEF SameFields, SameForm
    <3>3. QED
      BY <2>3, <3>1, <3>2
  <2>4. QED
    BY <2>1, <2>2, <2>3
<1>4. CASE ~Obsolete(p, q)
  BY <1>2, <1>3, <1>4
<1>5. CASE Obsolete(p, q)
  <2>1. r = [b EXCEPT !.answer = None]
    BY <1>2, <1>5
  <2>2. r \in Pages /\ r.answer = None /\ r.phase = b.phase
    BY <1>3, <2>1 DEF Pages
  <2>3. SameFields(b, r)
    BY <1>3, <2>1 DEF Pages, SameFields
  <2>4. SameForm(b, r)
    BY <1>3, <2>1 DEF Pages, SameForm
  <2>5. SameFields(p, r)
    BY <1>3, <2>3 DEF SameFields
  <2>6. SameForm(p, b) => SameForm(p, r)
    BY <2>4 DEF SameForm
  <2>7. OpenedForm(p, q, b) => OpenedForm(p, q, r)
    BY <2>2, <2>4 DEF OpenedForm, SameForm
  <2>8. QED
    BY <1>3, <1>5, <2>2, <2>5, <2>6, <2>7
<1>6. QED
  BY <1>4, <1>5

\* What a rendering adds to the queue.
LEMMA RenderOpsFacts ==
    ASSUME NEW p \in Pages, NEW q \in Entries \union {None}, NEW e \in Editors,
           NEW s \in Seq(Operations)
    PROVE  \/ ~Obsolete(p, q) /\ s \o RenderOps(e, p, q) = s
           \/ /\ Obsolete(p, q) /\ p.answer \in Records
              /\ \E u \in 0..MaxEditors : /\ u \in {0, p.answer.by}
                                          /\ s \o RenderOps(e, p, q) = Append(s, Delete(e, u))
<1>1. CASE ~Obsolete(p, q)
  BY <1>1, ConcatEmptySeq DEF RenderOps
<1>2. CASE Obsolete(p, q)
  <2>1. p.answer \in Records
    BY <1>2 DEF Obsolete, Pages
  <2>2. p.answer.by \in 0..MaxEditors /\ 0 \in 0..MaxEditors
    BY <2>1, EditorAssumption DEF Records, Editors
  <2>3. PICK u \in 0..MaxEditors :
            u \in {0, p.answer.by} /\ u = IF p.answer.doc = q.doc THEN p.answer.by ELSE 0
    BY <2>2
  <2>4. RenderOps(e, p, q) = <<Delete(e, u)>>
    BY <1>2, <2>3 DEF RenderOps
  <2>5. Delete(e, u) \in Operations
    BY OperationsMade
  <2>6. QED
    BY <1>2, <2>1, <2>3, <2>4, <2>5, AppendOne
<1>3. QED
  BY <1>1, <1>2

-----------------------------------------------------------------------------
(* The type invariant.  It says of the pages also that at most one is there, *)
(* and that a form stands on a loaded entry: what is written of it carries   *)
(* the version the query holds.                                              *)

TypesInv ==
    /\ server \in Entries /\ words \in 0..MaxWords
    /\ query \in Entries \union {None} /\ record \in Records \union {None}
    /\ taken \in BOOLEAN /\ failed \in BOOLEAN /\ held \subseteq 0..MaxWords

QueueType == ops \in Seq(Operations)
PageType == page \in [Editors -> Pages]
SaveType == save \in [Editors -> Saves]

OnePage ==
    \A e, f \in Editors : e < f /\ page[f].phase # "away" => page[e].phase \in {"left", "crashed"}
OnLoaded == \A e \in Editors : page[e].phase = "open" => query # None
NotYet == \A e \in Editors : page[e].phase \in {"away", "gate"} => save[e].stage = "none"

TypeInv == TypesInv /\ QueueType /\ PageType /\ SaveType /\ OnePage /\ OnLoaded /\ NotYet

Others(e) == \A f \in Editors \ {e} : page'[f] = page[f]

\* Of the other forms the words of those that are gone may be forgotten.
Beside(e) ==
    \A f \in Editors \ {e} :
        page'[f] = page[f] \/ (page[f].phase = "left" /\ page'[f] = Gone(page[f]))

LEMMA ClosedTyped ==
    /\ Closed \in Pages /\ Closed.phase = "away"
    /\ NoSave \in Saves /\ NoSave.stage = "none"
    /\ [NoSave EXCEPT !.stage = "closing"] \in Saves
    /\ [NoSave EXCEPT !.stage = "closing"].stage = "closing"
    /\ Closed.doc \in Docs
<1>1. /\ 0 \in Versions /\ 0 \in 0..MaxWords
  BY EditorAssumption DEF Versions
<1>2. Closed.doc \in Docs
  BY <1>1 DEF Closed, Docs, Embeds
<1>3. Closed \in Pages /\ Closed.phase = "away"
  BY <1>1, <1>2 DEF Closed, Pages, Phases
<1>4. NoSave \in Saves /\ NoSave.stage = "none"
  BY <1>1, <1>2 DEF NoSave, Saves
<1>5. QED
  BY <1>2, <1>3, <1>4 DEF Saves

LEMMA GoneFacts ==
    ASSUME NEW p \in Pages
    PROVE  /\ Gone(p) \in Pages /\ Gone(p).phase = "left" /\ Gone(p).retired = p.retired
           /\ Gone(p).answer = Unread /\ Gone(p).dirty = FALSE /\ Gone(p).again = FALSE
           /\ Gone(p).typed = FALSE /\ Gone(p).timer = FALSE
BY ClosedTyped DEF Gone, Closed, Pages, Phases

\* What is not forgotten of them.
LEMMA BesideFacts ==
    ASSUME TypeInv, NEW e \in Editors, Others(e) \/ Beside(e), NEW f \in Editors \ {e}
    PROVE  /\ page'[f].phase = page[f].phase /\ page'[f].retired = page[f].retired
           /\ page'[f] = page[f] \/ (page'[f].phase = "left" /\ page'[f].answer = Unread)
<1>1. page[f] \in Pages
  BY DEF TypeInv, PageType
<1>2. CASE page'[f] = page[f]
  BY <1>2
<1>3. CASE page[f].phase = "left" /\ page'[f] = Gone(page[f])
  BY <1>1, <1>3, GoneFacts
<1>4. QED
  BY <1>2, <1>3 DEF Others, Beside

\* What is left of a form that is gone.
LEMMA LeftFacts ==
    ASSUME NEW p \in Pages
    PROVE  /\ Left(p) \in Pages /\ Left(p).phase = "left" /\ Left(p).retired = p.retired
           /\ Left(p).typed = (p.typed /\ p.dirty /\ ~p.retired)
           /\ p.typed /\ p.dirty /\ ~p.retired => Left(p).doc = p.doc /\ Left(p).timer = p.timer
           /\ ~(p.typed /\ p.dirty /\ ~p.retired) => ~Left(p).timer
           /\ Left(p).answer = Unread /\ ~Left(p).dirty /\ ~Left(p).again
<1>1. /\ Gone(p) \in Pages /\ Gone(p).phase = "left" /\ Gone(p).retired = p.retired
      /\ Gone(p).answer = Unread /\ Gone(p).dirty = FALSE /\ Gone(p).again = FALSE
      /\ Gone(p).typed = FALSE /\ Gone(p).timer = FALSE
  BY GoneFacts
<1>2. CASE p.typed /\ p.dirty /\ ~p.retired
  <2>1. Left(p) = [Gone(p) EXCEPT !.doc = p.doc, !.typed = TRUE, !.timer = p.timer]
    BY <1>2 DEF Left
  <2>2. /\ Left(p) \in Pages /\ Left(p).phase = "left" /\ Left(p).retired = p.retired
        /\ Left(p).typed = TRUE /\ Left(p).doc = p.doc /\ Left(p).timer = p.timer
        /\ Left(p).answer = Unread /\ Left(p).dirty = FALSE /\ Left(p).again = FALSE
    BY <1>1, <2>1 DEF Pages
  <2>3. QED
    BY <1>2, <2>2
<1>3. CASE ~(p.typed /\ p.dirty /\ ~p.retired)
  <2>1. Left(p) = Gone(p)
    BY <1>3 DEF Left
  <2>2. QED
    BY <1>1, <1>3, <2>1
<1>4. QED
  BY <1>2, <1>3

-----------------------------------------------------------------------------
(* What each action does to the pages and to the queue.                      *)

\* The page e becomes x.
LEMMA OnePageChanges ==
    ASSUME TypeInv, NEW e \in Editors, NEW x \in Pages, page' = [page EXCEPT ![e] = x]
    PROVE  page' \in [Editors -> Pages] /\ page'[e] = x /\ Others(e)
BY DEF TypeInv, PageType, Others

\* Page e is rendered from p, over the queue s.
Renders(e, p, s) ==
    /\ p \in Pages /\ s \in Seq(Operations)
    /\ page'[e] \in Pages /\ SameFields(p, page'[e])
    /\ page'[e].answer = IF Obsolete(p, query') THEN None ELSE p.answer
    /\ \/ page'[e].phase = p.phase /\ SameForm(p, page'[e])
          /\ (p.phase = "gate" /\ query' # None =>
                ~p.again /\ p.choice = "none" /\ RecoveryPhase(p, query') # "clear")
       \/ page'[e].phase = "refused" /\ p.phase \in {"gate", "open"} /\ SameForm(p, page'[e])
       \/ OpenedForm(p, query', page'[e])
    /\ \/ ~Obsolete(p, query') /\ ops' = s
       \/ /\ Obsolete(p, query') /\ p.answer \in Records
          /\ \E u \in 0..MaxEditors : u \in {0, p.answer.by} /\ ops' = Append(s, Delete(e, u))

LEMMA RendersMade ==
    ASSUME NEW e \in Editors, NEW p \in Pages, NEW s \in Seq(Operations),
           query' \in Entries \union {None},
           page'[e] = Rendered(p, query'), ops' = s \o RenderOps(e, p, query')
    PROVE  Renders(e, p, s)
<1>1. PICK q \in Entries \union {None} : q = query'
  OBVIOUS
<1>2. PICK r : r = Rendered(p, q)
  OBVIOUS
<1>3. /\ r \in Pages /\ SameFields(p, r)
      /\ r.answer = IF Obsolete(p, q) THEN None ELSE p.answer
      /\ \/ r.phase = p.phase /\ SameForm(p, r)
            /\ (p.phase = "gate" /\ q # None =>
                  ~p.again /\ p.choice = "none" /\ RecoveryPhase(p, q) # "clear")
         \/ r.phase = "refused" /\ p.phase \in {"gate", "open"} /\ SameForm(p, r)
         \/ OpenedForm(p, q, r)
  BY <1>2, RenderedFacts
<1>4. \/ ~Obsolete(p, q) /\ s \o RenderOps(e, p, q) = s
      \/ /\ Obsolete(p, q) /\ p.answer \in Records
         /\ \E u \in 0..MaxEditors : /\ u \in {0, p.answer.by}
                                     /\ s \o RenderOps(e, p, q) = Append(s, Delete(e, u))
  BY RenderOpsFacts
<1>5. page'[e] = r
  BY <1>1, <1>2
<1>6. ops' = s \o RenderOps(e, p, q)
  BY <1>1
<1>7. QED
  BY <1>1, <1>3, <1>4, <1>5, <1>6 DEF Renders

\* p is page r with another answer, another state of its media or another choice.
Continues(r, p) ==
    /\ p.phase = r.phase /\ p.status = r.status /\ p.timer = r.timer /\ p.retired = r.retired
    /\ p.conflict = r.conflict /\ p.again = r.again /\ p.typed = r.typed
    /\ SameForm(r, p)

\* A page that is there is rendered again.
Rerenders(e) ==
    /\ page' \in [Editors -> Pages] /\ Others(e) /\ page[e].phase \in {"gate", "open"}
    /\ query' \in Entries \union {None} /\ (page[e].phase = "open" => query' # None)
    /\ \E p \in Pages, s \in Seq(Operations) :
        /\ Renders(e, p, s) /\ Continues(page[e], p)
        /\ \/ /\ p.answer = page[e].answer /\ s = ops
              /\ \/ p.choice = page[e].choice
                 \/ p.choice = "draft" /\ page[e].phase = "gate" /\ query' # None
                    /\ RecoveryPhase(p, query') = "offer"
           \/ /\ p.answer = None /\ page[e].phase = "gate" /\ query' # None
              /\ page[e].answer \in Records /\ p.choice = "server"
              /\ s = Append(ops, Delete(e, page[e].answer.by))

LEMMA RefetchFacts ==
    ASSUME TypeInv, NEW e \in Editors, Refetch(e)
    PROVE  Rerenders(e) /\ query' \in Entries
<1>1. page[e] \in Pages /\ ops \in Seq(Operations) /\ page[e].phase \in {"gate", "open"}
  BY DEF TypeInv, PageType, QueueType, Refetch, Mounted
<1>2. /\ query' \in Entries /\ query' # None
      /\ page' = [page EXCEPT ![e] = Rendered(page[e], query')]
      /\ ops' = ops \o RenderOps(e, page[e], query')
  BY AbsenceAssumption DEF Refetch, Render, TypeInv, TypesInv, Entries
<1>3. page'[e] = Rendered(page[e], query')
  BY <1>2 DEF TypeInv, PageType
<1>4. Renders(e, page[e], ops)
  BY <1>1, <1>2, <1>3, RendersMade
<1>5. page' \in [Editors -> Pages] /\ Others(e)
  <2>1. page'[e] \in Pages
    BY <1>4 DEF Renders
  <2>2. QED
    BY <1>2, <1>3, <2>1, OnePageChanges
<1>6. Continues(page[e], page[e])
  BY DEF Continues, SameForm
<1>7. QED
  BY <1>1, <1>2, <1>4, <1>5, <1>6 DEF Rerenders

LEMMA MediaFacts ==
    ASSUME TypeInv, NEW e \in Editors, MediaAnswers(e)
    PROVE  Rerenders(e)
<1>1. /\ page[e] \in Pages /\ ops \in Seq(Operations) /\ page[e].phase = "gate"
      /\ query' \in Entries \union {None}
  BY DEF TypeInv, TypesInv, PageType, QueueType, MediaAnswers
<1>2. PICK m \in {"with", "without", "error", "pending"} :
          Render(e, [page[e] EXCEPT !.media = m], query)
  BY DEF MediaAnswers
<1>3. PICK p : p = [page[e] EXCEPT !.media = m]
  OBVIOUS
<1>4. p \in Pages /\ p.answer = page[e].answer /\ p.choice = page[e].choice
  BY <1>1, <1>3 DEF Pages
<1>5. Continues(page[e], p)
  BY <1>1, <1>3 DEF Pages, Continues, SameForm
<1>6. /\ page' = [page EXCEPT ![e] = Rendered(p, query')]
      /\ ops' = ops \o RenderOps(e, p, query')
  BY <1>2, <1>3 DEF Render, MediaAnswers
<1>7. page'[e] = Rendered(p, query')
  BY <1>6 DEF TypeInv, PageType
<1>8. Renders(e, p, ops)
  BY <1>1, <1>4, <1>6, <1>7, RendersMade
<1>9. page' \in [Editors -> Pages] /\ Others(e)
  <2>1. page'[e] \in Pages
    BY <1>8 DEF Renders
  <2>2. QED
    BY <1>6, <1>7, <2>1, OnePageChanges
<1>10. QED
  BY <1>1, <1>4, <1>5, <1>8, <1>9 DEF Rerenders

LEMMA RecoverFacts ==
    ASSUME TypeInv, NEW e \in Editors, Recover(e)
    PROVE  Rerenders(e)
<1>1. /\ page[e] \in Pages /\ ops \in Seq(Operations) /\ page[e].phase = "gate"
      /\ query' \in Entries /\ query' # None /\ query' = query
  BY DEF TypeInv, TypesInv, PageType, QueueType, Recover
<1>2. PICK p : p = [page[e] EXCEPT !.choice = "draft"]
  OBVIOUS
<1>3. p \in Pages /\ p.answer = page[e].answer /\ p.media = page[e].media /\ p.choice = "draft"
  BY <1>1, <1>2 DEF Pages
<1>4. Continues(page[e], p)
  BY <1>1, <1>2 DEF Pages, Continues, SameForm
<1>5. RecoveryPhase(p, query') = "offer"
  <2>1. RecoveryPhase(page[e], query) = "offer"
    BY DEF Recover
  <2>2. QED
    BY <1>1, <1>3, <2>1 DEF RecoveryPhase, SameAsServer, Recovered
<1>6. /\ page' = [page EXCEPT ![e] = Rendered(p, query')]
      /\ ops' = ops \o RenderOps(e, p, query')
  BY <1>1, <1>2 DEF Render, Recover
<1>7. page'[e] = Rendered(p, query')
  BY <1>6 DEF TypeInv, PageType
<1>8. Renders(e, p, ops)
  BY <1>1, <1>3, <1>6, <1>7, RendersMade
<1>9. page' \in [Editors -> Pages] /\ Others(e)
  <2>1. page'[e] \in Pages
    BY <1>8 DEF Renders
  <2>2. QED
    BY <1>6, <1>7, <2>1, OnePageChanges
<1>10. QED
  BY <1>1, <1>3, <1>4, <1>5, <1>8, <1>9 DEF Rerenders

LEMMA DiscardFacts ==
    ASSUME TypeInv, NEW e \in Editors, DiscardDraft(e)
    PROVE  Rerenders(e)
<1>1. /\ page[e] \in Pages /\ ops \in Seq(Operations) /\ page[e].phase = "gate"
      /\ query' \in Entries /\ query' # None /\ query' = query
  BY DEF TypeInv, TypesInv, PageType, QueueType, DiscardDraft
<1>2. page[e].answer \in Records
  BY <1>1 DEF DiscardDraft, RecoveryPhase, Pages
<1>3. PICK u \in 0..MaxEditors : u = page[e].answer.by
  BY <1>2, EditorAssumption DEF Records, Editors
<1>4. PICK p : p = [page[e] EXCEPT !.choice = "server", !.answer = None]
  OBVIOUS
<1>5. p \in Pages /\ p.answer = None /\ p.choice = "server"
  BY <1>1, <1>4 DEF Pages
<1>6. Continues(page[e], p)
  BY <1>1, <1>4 DEF Pages, Continues, SameForm
<1>7. PICK s : s = Append(ops, Delete(e, u))
  OBVIOUS
<1>8. s \in Seq(Operations)
  BY <1>1, <1>7, OperationsMade, AppendProperties
<1>9. RenderOps(e, p, query') = <<>>
  BY <1>5 DEF RenderOps, Obsolete
<1>10. /\ page' = [page EXCEPT ![e] = Rendered(p, query')]
       /\ ops' = s
  BY <1>1, <1>3, <1>4, <1>7 DEF DiscardDraft
<1>11. ops' = s \o RenderOps(e, p, query')
  BY <1>8, <1>9, <1>10, ConcatEmptySeq
<1>12. page'[e] = Rendered(p, query')
  BY <1>10 DEF TypeInv, PageType
<1>13. Renders(e, p, s)
  BY <1>1, <1>5, <1>8, <1>11, <1>12, RendersMade
<1>14. page' \in [Editors -> Pages] /\ Others(e)
  <2>1. page'[e] \in Pages
    BY <1>13 DEF Renders
  <2>2. QED
    BY <1>10, <1>12, <2>1, OnePageChanges
<1>15. QED
  BY <1>1, <1>2, <1>3, <1>5, <1>6, <1>7, <1>8, <1>13, <1>14 DEF Rerenders

\* The answer found reaches page e, or it is not taken.
Answers(e, found) ==
    \/ /\ page' \in [Editors -> Pages] /\ Others(e) /\ page[e].phase = "gate" /\ Enabled(query)
       /\ \E p \in Pages : /\ Renders(e, p, Tail(ops)) /\ Continues(page[e], p)
                           /\ p.answer = found /\ p.choice = page[e].choice
    \/ ~(page[e].phase = "gate" /\ Enabled(query)) /\ page' = page /\ ops' = Tail(ops)

LEMMA AnsweredFacts ==
    ASSUME TypeInv, NEW e \in Editors, NEW found \in Records \union {None}, ops # <<>>,
           query' = query, Answered(e, found)
    PROVE  Answers(e, found)
<1>1. CASE ~(page[e].phase = "gate" /\ Enabled(query))
  BY <1>1 DEF Answered, Answers
<1>2. CASE page[e].phase = "gate" /\ Enabled(query)
  <2>1. /\ page[e] \in Pages /\ Tail(ops) \in Seq(Operations)
        /\ query' \in Entries \union {None}
    BY TailFacts DEF TypeInv, TypesInv, PageType, QueueType
  <2>2. PICK p : p = [page[e] EXCEPT !.answer = found]
    OBVIOUS
  <2>3. p \in Pages /\ p.answer = found /\ p.choice = page[e].choice
    BY <2>1, <2>2 DEF Pages
  <2>4. Continues(page[e], p)
    BY <2>1, <2>2 DEF Pages, Continues, SameForm
  <2>5. /\ page' = [page EXCEPT ![e] = Rendered(p, query')]
        /\ ops' = Tail(ops) \o RenderOps(e, p, query')
    BY <1>2, <2>2 DEF Answered
  <2>6. page'[e] = Rendered(p, query')
    BY <2>5 DEF TypeInv, PageType
  <2>7. Renders(e, p, Tail(ops))
    BY <2>1, <2>3, <2>5, <2>6, RendersMade
  <2>8. page' \in [Editors -> Pages] /\ Others(e)
    <3>1. page'[e] \in Pages
      BY <2>7 DEF Renders
    <3>2. QED
      BY <2>5, <2>6, <3>1, OnePageChanges
  <2>9. QED
    BY <1>2, <2>3, <2>4, <2>7, <2>8 DEF Answers
<1>3. QED
  BY <1>1, <1>2

\* The page the gate begins with.
GatePage == [Closed EXCEPT !.phase = "gate"]

LEMMA GateFacts ==
    /\ GatePage \in Pages /\ GatePage.phase = "gate" /\ GatePage.answer = Unread
    /\ GatePage.choice = "none" /\ GatePage.status = "idle"
    /\ GatePage.timer = FALSE /\ GatePage.retired = FALSE /\ GatePage.conflict = FALSE
    /\ GatePage.again = FALSE /\ GatePage.typed = FALSE /\ GatePage.dirty = FALSE
BY ClosedTyped DEF GatePage, Closed, Pages, Phases

LEMMA OpenFacts ==
    ASSUME TypeInv, NEW e \in Editors, Open(e)
    PROVE  /\ page' \in [Editors -> Pages] /\ Beside(e) /\ page[e].phase = "away"
           /\ \A f \in Editors : f < e => page[f].phase \in {"left", "crashed"}
           /\ Renders(e, GatePage, ops') /\ query' = query
           /\ ops' = IF Enabled(query) THEN Append(ops, Read(e)) ELSE ops
<1>1. /\ ops \in Seq(Operations) /\ query' \in Entries \union {None} /\ query' = query
      /\ page[e].phase = "away" /\ ops' = IF Enabled(query) THEN Append(ops, Read(e)) ELSE ops
  BY DEF TypeInv, TypesInv, QueueType, Open
<1>2. ops' \in Seq(Operations)
  BY <1>1, OperationsMade, AppendProperties
<1>3. page' = [f \in Editors |-> IF f = e THEN Rendered(GatePage, query')
                                 ELSE IF page[f].phase = "left" THEN Gone(page[f]) ELSE page[f]]
  BY <1>1 DEF Open, GatePage
<1>4. page'[e] = Rendered(GatePage, query')
  BY <1>3
<1>5. ops' = ops' \o RenderOps(e, GatePage, query')
  <2>1. RenderOps(e, GatePage, query') = <<>>
    BY GateFacts DEF RenderOps, Obsolete
  <2>2. QED
    BY <1>2, <2>1, ConcatEmptySeq
<1>6. PICK s \in Seq(Operations) : s = ops'
  BY <1>2
<1>7. Renders(e, GatePage, s)
  BY <1>1, <1>4, <1>5, <1>6, GateFacts, RendersMade
<1>8. page' \in [Editors -> Pages] /\ Beside(e)
  <2>1. page'[e] \in Pages
    BY <1>7 DEF Renders
  <2>2. ASSUME NEW f \in Editors PROVE page[f] \in Pages /\ Gone(page[f]) \in Pages
    BY GoneFacts DEF TypeInv, PageType
  <2>3. QED
    BY <1>3, <1>4, <2>1, <2>2 DEF Beside
<1>9. \A f \in Editors : f < e => page[f].phase \in {"left", "crashed"}
  BY EditorAssumption DEF Open, Editors
<1>10. QED
  BY <1>1, <1>6, <1>7, <1>8, <1>9

\* The gate of a form that is put up again.
AgainPage(r) ==
    [Closed EXCEPT !.phase = "gate", !.again = TRUE, !.answer = r.answer, !.media = r.media,
                   !.choice = r.choice]

LEMMA AgainFacts ==
    ASSUME NEW r \in Pages
    PROVE  /\ AgainPage(r) \in Pages /\ AgainPage(r).phase = "gate" /\ AgainPage(r).again = TRUE
           /\ AgainPage(r).answer = r.answer /\ AgainPage(r).status = "idle"
           /\ AgainPage(r).choice = r.choice
           /\ AgainPage(r).timer = FALSE /\ AgainPage(r).retired = FALSE
           /\ AgainPage(r).typed = FALSE /\ AgainPage(r).dirty = FALSE
<1>1. AgainPage(r) \in Pages
  <2>1. PICK c \in Pages : c = Closed
    BY ClosedTyped
  <2>2. AgainPage(r) = [c EXCEPT !.phase = "gate", !.again = TRUE, !.answer = r.answer,
                                 !.media = r.media, !.choice = r.choice]
    BY <2>1 DEF AgainPage
  <2>3. QED
    BY <2>2 DEF Pages, Phases
<1>2. /\ AgainPage(r).phase = "gate" /\ AgainPage(r).again = TRUE
      /\ AgainPage(r).answer = r.answer /\ AgainPage(r).status = "idle"
      /\ AgainPage(r).choice = r.choice
  BY DEF AgainPage, Closed
<1>3. /\ AgainPage(r).timer = FALSE /\ AgainPage(r).retired = FALSE
      /\ AgainPage(r).typed = FALSE /\ AgainPage(r).dirty = FALSE
  BY DEF AgainPage, Closed
<1>4. QED
  BY <1>1, <1>2, <1>3

\* The form of d goes away and its place is taken by that of e.
LEMMA ReopenFacts ==
    ASSUME TypeInv, NEW e \in Editors, Reopen(e)
    PROVE  /\ page' \in [Editors -> Pages] /\ page[e].phase = "away"
           /\ e - 1 \in Editors /\ page[e - 1].phase = "open"
           /\ page'[e - 1] = Gone(page[e - 1])
           /\ \A f \in Editors \ {e, e - 1} : page'[f] = page[f]
           /\ Renders(e, AgainPage(page[e - 1]), ops)
           /\ query' \in Entries /\ query' # None
<1>1. /\ ops \in Seq(Operations) /\ query' \in Entries /\ query' # None /\ query' = server
      /\ page[e].phase = "away" /\ page[e - 1].phase = "open" /\ e > 1
  BY AbsenceAssumption DEF TypeInv, TypesInv, QueueType, Reopen, Entries
<1>2. PICK d \in Editors : d = e - 1 /\ d # e
  BY <1>1, EditorAssumption DEF Editors
<1>3. page[d] \in Pages /\ page \in [Editors -> Pages]
  BY DEF TypeInv, PageType
<1>4. PICK p : p = AgainPage(page[d])
  OBVIOUS
<1>5. p \in Pages
  BY <1>3, <1>4, AgainFacts
<1>6. /\ page' = [page EXCEPT ![d] = Gone(page[d]), ![e] = Rendered(p, query')]
      /\ ops' = ops \o RenderOps(e, p, query')
  BY <1>1, <1>2, <1>3, <1>4 DEF Reopen, AgainPage
<1>7. /\ page'[e] = Rendered(p, query') /\ page'[d] = Gone(page[d])
      /\ \A f \in Editors \ {e, d} : page'[f] = page[f]
  BY <1>2, <1>3, <1>6
<1>8. Renders(e, p, ops)
  BY <1>1, <1>5, <1>6, <1>7, RendersMade
<1>9. page' \in [Editors -> Pages]
  <2>1. page'[e] \in Pages /\ Gone(page[d]) \in Pages
    BY <1>3, <1>8, GoneFacts DEF Renders
  <2>2. QED
    BY <1>3, <1>6, <1>7, <2>1
<1>10. QED
  BY <1>1, <1>2, <1>4, <1>7, <1>8, <1>9

\* Everything of a page but its document, its timer, its latch and its status.
SameView(p, r) ==
    /\ r.phase = p.phase /\ r.answer = p.answer /\ r.choice = p.choice /\ r.again = p.again

\* The form is written in: an edit, or one that takes the others back.
Edits(e) == Edit(e) \/ EditUndone(e)

LEMMA EditFacts ==
    ASSUME TypeInv, NEW e \in Editors, Edits(e)
    PROVE  /\ page' \in [Editors -> Pages] /\ Others(e) /\ page[e].phase = "open"
           /\ SameView(page[e], page'[e]) /\ page'[e].status = page[e].status
           /\ page'[e].typed /\ ~page'[e].retired /\ page'[e].timer
           /\ words' \in 0..MaxWords /\ save[e].stage = "none"
           /\ UNCHANGED <<server, query, record, ops, save, taken, failed, held>>
<1>1. /\ page[e] \in Pages /\ words \in 0..MaxWords
      /\ page[e].doc.words \in 0..MaxWords /\ page[e].doc.embed \in Embeds
      /\ page[e].doc \in Docs /\ page[e].first \in 0..MaxWords
  BY DEF TypeInv, TypesInv, PageType, Pages, Docs
<1>2. words' \in 0..MaxWords /\ (Edit(e) => words + 1 \in 0..MaxWords)
  <2>1. CASE Edit(e)
    <3>1. words < MaxWords /\ words' = words + 1
      BY <2>1 DEF Edit
    <3>2. QED
      BY <1>1, <3>1, EditorAssumption
  <2>2. CASE EditUndone(e) /\ ~Edit(e)
    BY <1>1, <2>2 DEF EditUndone
  <2>3. QED
    BY <2>1, <2>2 DEF Edits
<1>3. \E p \in Pages : SameView(page[e], p) /\ p.status = page[e].status /\ Edited(e, p)
  <2>1. CASE \E embed \in Changes \union {page[e].doc.embed} :
               Edited(e, [page[e] EXCEPT !.doc = [words |-> words + 1, embed |-> embed],
                                         !.body = TRUE, !.first = 0, !.dirty = TRUE]) /\ Edit(e)
    <3>1. PICK embed \in Changes \union {page[e].doc.embed} :
               Edited(e, [page[e] EXCEPT !.doc = [words |-> words + 1, embed |-> embed],
                                         !.body = TRUE, !.first = 0, !.dirty = TRUE])
      BY <2>1
    <3>2. PICK d \in Docs : d = [words |-> words + 1, embed |-> embed]
      BY <1>1, <1>2, <2>1, EditorAssumption DEF Docs
    <3>3. PICK p : p = [page[e] EXCEPT !.doc = d, !.body = TRUE, !.first = 0, !.dirty = TRUE]
      OBVIOUS
    <3>4. p \in Pages /\ SameView(page[e], p) /\ p.status = page[e].status
      <4>1. 0 \in 0..MaxWords
        BY EditorAssumption
      <4>2. QED
        BY <1>1, <3>3, <4>1 DEF Pages, SameView
    <3>5. QED
      BY <3>1, <3>2, <3>3, <3>4
  <2>2. CASE Edited(e, [page[e] EXCEPT !.doc.words = words + 1, !.dirty = TRUE]) /\ Edit(e)
    <3>1. PICK d : d = [page[e].doc EXCEPT !.words = words + 1]
      OBVIOUS
    <3>2. d \in Docs
      BY <1>1, <1>2, <2>2, <3>1 DEF Docs
    <3>3. PICK p : p = [page[e] EXCEPT !.doc = d, !.dirty = TRUE]
      OBVIOUS
    <3>4. p \in Pages /\ SameView(page[e], p) /\ p.status = page[e].status
      BY <1>1, <3>2, <3>3 DEF Pages, SameView
    <3>5. p = [page[e] EXCEPT !.doc.words = words + 1, !.dirty = TRUE]
      BY <1>1, <3>1, <3>3 DEF Pages
    <3>6. QED
      BY <2>2, <3>4, <3>5
  <2>3. CASE Edited(e, [page[e] EXCEPT !.doc.words = page[e].first, !.dirty = FALSE])
    <3>1. PICK d : d = [page[e].doc EXCEPT !.words = page[e].first]
      OBVIOUS
    <3>2. d \in Docs
      BY <1>1, <3>1 DEF Docs
    <3>3. PICK p : p = [page[e] EXCEPT !.doc = d, !.dirty = FALSE]
      OBVIOUS
    <3>4. p \in Pages /\ SameView(page[e], p) /\ p.status = page[e].status
      BY <1>1, <3>2, <3>3 DEF Pages, SameView
    <3>5. p = [page[e] EXCEPT !.doc.words = page[e].first, !.dirty = FALSE]
      BY <1>1, <3>1, <3>3 DEF Pages
    <3>6. QED
      BY <2>3, <3>4, <3>5
  <2>4. QED
    BY <2>1, <2>2, <2>3 DEF Edits, Edit, EditUndone
<1>4. PICK p \in Pages : /\ SameView(page[e], p) /\ p.status = page[e].status
                         /\ Edited(e, p)
  BY <1>3
<1>5. PICK x : x = [p EXCEPT !.typed = TRUE, !.retired = FALSE, !.timer = TRUE]
  OBVIOUS
<1>6. x \in Pages /\ x.status = page[e].status
  BY <1>4, <1>5 DEF Pages
<1>7. x.typed = TRUE /\ x.retired = FALSE /\ x.timer = TRUE
  BY <1>5 DEF Pages
<1>8. SameView(page[e], x)
  BY <1>4, <1>5 DEF Pages, SameView
<1>9. page' = [page EXCEPT ![e] = x]
  BY <1>4, <1>5 DEF Edited
<1>10. page' \in [Editors -> Pages] /\ page'[e] = x /\ Others(e)
  BY <1>6, <1>9, OnePageChanges
<1>11. /\ page[e].phase = "open" /\ save[e].stage = "none"
       /\ UNCHANGED <<server, query, record, ops, save, taken, failed, held>>
  BY <1>4 DEF Edited
<1>12. QED
  BY <1>2, <1>6, <1>7, <1>8, <1>10, <1>11

\* A flush of form e.
Flushes(e) ==
    /\ page' \in [Editors -> Pages] /\ Others(e) /\ page[e].phase = "open"
    /\ SameView(page[e], page'[e]) /\ SameForm(page[e], page'[e])
    /\ page'[e].retired = page[e].retired /\ page'[e].typed = page[e].typed
    /\ page'[e].timer = FALSE
    /\ \/ /\ Writes(page[e]) /\ Storable(page[e].doc) /\ page'[e].status = "saving"
          /\ \E o \in Puts(e) : o.record.doc = page[e].doc /\ ops' = Append(ops, o)
       \/ /\ Writes(page[e]) /\ ~Storable(page[e].doc) /\ page'[e].status = "unsupported"
          /\ ops' = ops
       \/ ~Writes(page[e]) /\ page'[e].status = page[e].status /\ ops' = ops

LEMMA FlushFacts ==
    ASSUME TypeInv, NEW e \in Editors, page[e].phase = "open", Flushed(e)
    PROVE  Flushes(e)
<1>1. /\ page[e] \in Pages /\ ops \in Seq(Operations) /\ query \in Entries
  BY DEF TypeInv, TypesInv, PageType, QueueType, OnLoaded
<1>2. PICK b : b = [page[e] EXCEPT !.timer = FALSE]
  OBVIOUS
<1>3. PICK x : x = Written(b)
  OBVIOUS
<1>4. b \in Pages /\ b.timer = FALSE /\ b.status = page[e].status /\ b.doc = page[e].doc
  BY <1>1, <1>2 DEF Pages
<1>5. SameView(page[e], b)
  BY <1>1, <1>2 DEF Pages, SameView
<1>6. SameForm(page[e], b) /\ b.retired = page[e].retired /\ b.typed = page[e].typed
  BY <1>1, <1>2 DEF Pages, SameForm
<1>7. Writes(b) <=> Writes(page[e])
  BY <1>5, <1>6 DEF Writes, SameView, SameForm
<1>8. /\ x \in Pages /\ x.timer = FALSE
      /\ x.status = IF ~Writes(page[e]) THEN page[e].status
                    ELSE IF Storable(page[e].doc) THEN "saving" ELSE "unsupported"
  <2>1. CASE Writes(b)
    <3>1. PICK t : t = IF Storable(b.doc) THEN "saving" ELSE "unsupported"
      OBVIOUS
    <3>2. x = [b EXCEPT !.status = t]
      BY <1>3, <2>1, <3>1 DEF Written
    <3>3. x \in Pages /\ x.timer = FALSE /\ x.status = t
      BY <1>4, <3>1, <3>2 DEF Pages
    <3>4. QED
      BY <1>4, <1>7, <2>1, <3>1, <3>3
  <2>2. CASE ~Writes(b)
    BY <1>3, <1>4, <1>7, <2>2 DEF Written
  <2>3. QED
    BY <2>1, <2>2
<1>9. SameView(b, x) /\ SameForm(b, x) /\ x.retired = b.retired /\ x.typed = b.typed
  <2>1. PICK t : t = IF Storable(b.doc) THEN "saving" ELSE "unsupported"
    OBVIOUS
  <2>2. x = b \/ x = [b EXCEPT !.status = t]
    BY <1>3, <2>1 DEF Written
  <2>3. SameView(b, x)
    BY <1>4, <2>2 DEF Pages, SameView
  <2>4. SameForm(b, x) /\ x.retired = b.retired /\ x.typed = b.typed
    BY <1>4, <2>2 DEF Pages, SameForm
  <2>5. QED
    BY <2>3, <2>4
<1>10. page' = [page EXCEPT ![e] = x]
  BY <1>2, <1>3 DEF Flushed, TypeInv, PageType
<1>11. page' \in [Editors -> Pages] /\ page'[e] = x /\ Others(e)
  BY <1>8, <1>10, OnePageChanges
<1>12. SameView(page[e], x)
  BY <1>5, <1>9 DEF SameView
<1>13. SameForm(page[e], x)
  BY <1>6, <1>9 DEF SameForm
<1>14. ops' = ops \o PutOps(e, page[e], query)
  BY DEF Flushed
<1>15. CASE Writes(page[e]) /\ Storable(page[e].doc)
  <2>1. PICK r : r = [doc |-> page[e].doc, base |-> query.ver, by |-> e, on |-> page[e].on]
    OBVIOUS
  <2>2. r \in Records /\ r.by = e /\ r.doc = page[e].doc
    BY <1>1, <2>1 DEF Records, Pages, Entries
  <2>3. PICK o : o = [op |-> "put", by |-> e, record |-> r]
    OBVIOUS
  <2>4. o \in Puts(e) /\ o.record = r
    BY <2>2, <2>3 DEF Puts
  <2>5. o \in Operations
    BY <2>4 DEF Operations, AllPuts
  <2>6. PutOps(e, page[e], query) = <<o>>
    BY <1>15, <2>1, <2>3 DEF PutOps
  <2>7. ops' = Append(ops, o)
    BY <1>1, <1>14, <2>5, <2>6, AppendOne
  <2>8. QED
    BY <1>6, <1>8, <1>9, <1>11, <1>12, <1>13, <1>15, <2>2, <2>4, <2>7 DEF Flushes
<1>16. CASE ~(Writes(page[e]) /\ Storable(page[e].doc))
  <2>1. ops' = ops
    BY <1>1, <1>14, <1>16, ConcatEmptySeq DEF PutOps
  <2>2. QED
    BY <1>6, <1>8, <1>9, <1>11, <1>12, <1>13, <1>16, <2>1 DEF Flushes
<1>17. QED
  BY <1>15, <1>16

\* remove() latches the page and stops its timer.
LEMMA RemovedFacts ==
    ASSUME NEW p \in Pages
    PROVE  /\ Removed(p) \in Pages /\ Removed(p).retired = TRUE /\ Removed(p).timer = FALSE
           /\ SameView(p, Removed(p)) /\ SameForm(p, Removed(p))
           /\ Removed(p).status = p.status /\ Removed(p).typed = p.typed
<1>1. Removed(p) \in Pages /\ Removed(p).retired = TRUE /\ Removed(p).timer = FALSE
  BY DEF Removed, Pages
<1>2. SameView(p, Removed(p))
  BY DEF Removed, Pages, SameView
<1>3. SameForm(p, Removed(p))
  BY DEF Removed, Pages, SameForm
<1>4. Removed(p).status = p.status /\ Removed(p).typed = p.typed
  BY DEF Removed, Pages
<1>5. QED
  BY <1>1, <1>2, <1>3, <1>4

\* Page e has gone, or had gone before.
GoneFrom(e, p) ==
    /\ page' \in [Editors -> Pages] /\ Others(e) /\ page'[e] = Left(p)

LEMMA LeaveFacts ==
    ASSUME TypeInv, NEW e \in Editors, Leave(e)
    PROVE  /\ GoneFrom(e, page[e]) /\ page[e].phase \in {"gate", "open", "refused"}
           /\ save' \in [Editors -> Saves]
           /\ \A f \in Editors \ {e} : save'[f] = save[f]
           /\ save'[e] = IF save[e].stage = "closing" THEN NoSave ELSE save[e]
<1>1. page[e] \in Pages /\ save \in [Editors -> Saves]
  BY DEF TypeInv, PageType, SaveType
<1>2. page' = [page EXCEPT ![e] = Left(page[e])]
  BY DEF Leave
<1>3. GoneFrom(e, page[e])
  BY <1>1, <1>2, LeftFacts, OnePageChanges DEF GoneFrom
<1>4. PICK x : x = IF save[e].stage = "closing" THEN NoSave ELSE save[e]
  OBVIOUS
<1>5. x \in Saves
  BY <1>1, <1>4, ClosedTyped
<1>6. save' = [save EXCEPT ![e] = x]
  BY <1>4 DEF Leave
<1>7. QED
  BY <1>1, <1>3, <1>4, <1>5, <1>6 DEF Leave

LEMMA CancelFacts ==
    ASSUME TypeInv, NEW e \in Editors, Cancel(e)
    PROVE  /\ GoneFrom(e, Removed(page[e])) /\ page[e].phase = "open"
           /\ page'[e].phase = "left" /\ page'[e].retired /\ page'[e].timer = FALSE
           /\ page'[e].answer = Unread
           /\ ops' = Append(ops, Delete(e, e)) /\ save[e].stage = "none"
<1>1. page[e] \in Pages
  BY DEF TypeInv, PageType
<1>2. page' = [page EXCEPT ![e] = Left(Removed(page[e]))]
  BY DEF Cancel
<1>3. GoneFrom(e, Removed(page[e]))
  BY <1>1, <1>2, RemovedFacts, LeftFacts, OnePageChanges DEF GoneFrom
<1>4. /\ page'[e].phase = "left" /\ page'[e].retired /\ page'[e].timer = FALSE
      /\ page'[e].answer = Unread
  <2>1. /\ Removed(page[e]) \in Pages /\ Removed(page[e]).retired = TRUE
    BY <1>1, RemovedFacts
  <2>2. /\ Left(Removed(page[e])) \in Pages
        /\ Left(Removed(page[e])).phase = "left" /\ Left(Removed(page[e])).retired = TRUE
        /\ ~Left(Removed(page[e])).timer /\ Left(Removed(page[e])).answer = Unread
    BY <2>1, LeftFacts
  <2>3. Left(Removed(page[e])).timer = FALSE
    BY <2>2 DEF Pages
  <2>4. QED
    BY <1>3, <2>2, <2>3 DEF GoneFrom
<1>5. QED
  BY <1>3, <1>4 DEF Cancel

LEMMA CrashFacts ==
    ASSUME TypeInv, NEW e \in Editors, Crash(e)
    PROVE  /\ page' \in [Editors -> Pages] /\ Others(e)
           /\ page[e].phase \in {"gate", "open", "refused"}
           /\ page'[e] = [Closed EXCEPT !.phase = "crashed"]
           /\ page'[e].phase = "crashed" /\ page'[e].retired = FALSE /\ page'[e].timer = FALSE
           /\ page'[e].typed = FALSE /\ page'[e].answer = Unread
           /\ query' = None /\ ops' = <<>> /\ save' = [f \in Editors |-> NoSave]
<1>1. PICK x : x = [Closed EXCEPT !.phase = "crashed"]
  OBVIOUS
<1>2. /\ x \in Pages /\ x.phase = "crashed" /\ x.retired = FALSE /\ x.timer = FALSE
      /\ x.typed = FALSE /\ x.answer = Unread
  BY <1>1, ClosedTyped DEF Closed, Pages, Phases
<1>3. page' = [page EXCEPT ![e] = x]
  BY <1>1 DEF Crash
<1>4. page' \in [Editors -> Pages] /\ page'[e] = x /\ Others(e)
  BY <1>2, <1>3, OnePageChanges
<1>5. QED
  BY <1>1, <1>2, <1>4 DEF Crash

LEMMA SaveFacts ==
    ASSUME TypeInv, NEW e \in Editors, Save(e) \/ ServerDecides(e)
    PROVE  /\ save' \in [Editors -> Saves]
           /\ \A f \in Editors \ {e} : save'[f] = save[f]
           /\ save'[e].stage \in {"sent", "applied", "refused"}
           /\ (save[e].stage = "none" /\ page[e].phase = "open") \/ save[e].stage = "sent"
           /\ server' \in Entries /\ held \subseteq held' /\ held' \subseteq 0..MaxWords
<1>1. /\ save \in [Editors -> Saves] /\ page[e] \in Pages /\ server \in Entries
      /\ query \in Entries \union {None} /\ held \subseteq 0..MaxWords
  BY DEF TypeInv, TypesInv, PageType, SaveType
<1>2. CASE Save(e)
  <2>1. PICK overwrite \in BOOLEAN :
            save' = [save EXCEPT ![e] = [stage |-> "sent", doc |-> page[e].doc,
                        expect |-> query.ver, on |-> page[e].on, overwrite |-> overwrite]]
    BY <1>2 DEF Save
  <2>2. query.ver \in Versions
    BY <1>1, <1>2 DEF Save, TypeInv, OnLoaded, Entries
  <2>3. PICK x : x = [stage |-> "sent", doc |-> page[e].doc,
                      expect |-> query.ver, on |-> page[e].on, overwrite |-> overwrite]
    OBVIOUS
  <2>4. x \in Saves /\ x.stage = "sent"
    BY <1>1, <2>2, <2>3 DEF Saves, Pages
  <2>5. save' = [save EXCEPT ![e] = x]
    BY <2>1, <2>3
  <2>6. QED
    BY <1>1, <1>2, <2>4, <2>5 DEF Save
<1>3. CASE ServerDecides(e)
  <2>1. /\ save[e] \in Saves /\ save[e].stage = "sent"
    BY <1>1, <1>3 DEF ServerDecides
  <2>2. CASE /\ server.ver < MaxWords
             /\ server' = [ver |-> server.ver + 1, doc |-> save[e].doc]
             /\ held' = held \union {save[e].doc.words}
             /\ save' = [save EXCEPT ![e] = [NoSave EXCEPT !.stage = "applied"]]
    <3>1. server' \in Entries /\ save[e].doc.words \in 0..MaxWords
      BY <1>1, <2>1, <2>2, EditorAssumption DEF Entries, Versions, Saves, Docs
    <3>2. PICK x : x = [NoSave EXCEPT !.stage = "applied"]
      OBVIOUS
    <3>3. x \in Saves /\ x.stage = "applied"
      BY <3>2, ClosedTyped DEF Saves
    <3>4. save' = [save EXCEPT ![e] = x]
      BY <1>1, <2>2, <3>2
    <3>5. QED
      BY <1>1, <2>1, <2>2, <3>1, <3>3, <3>4
  <2>3. CASE save' = [save EXCEPT ![e] = [NoSave EXCEPT !.stage = "refused"]] /\ server' = server /\ held' = held
    <3>1. PICK x : x = [NoSave EXCEPT !.stage = "refused"]
      OBVIOUS
    <3>2. x \in Saves /\ x.stage = "refused"
      BY <3>1, ClosedTyped DEF Saves
    <3>3. save' = [save EXCEPT ![e] = x]
      BY <1>1, <2>3, <3>1
    <3>4. QED
      BY <1>1, <2>1, <2>3, <3>2, <3>3
  <2>4. QED
    BY <1>3, <2>2, <2>3 DEF ServerDecides
<1>4. QED
  BY <1>2, <1>3

\* A save has succeeded: the page is latched, whether its form is still there or not.
LEMMA SucceedsFacts ==
    ASSUME TypeInv, NEW e \in Editors, SaveSucceeds(e)
    PROVE  /\ page' \in [Editors -> Pages] /\ Others(e)
           /\ page[e].phase \notin {"away", "gate"} /\ page'[e].retired /\ page'[e].timer = FALSE
           /\ \/ /\ page[e].phase = "open" /\ SameView(page[e], page'[e])
                 /\ SameForm(page[e], page'[e]) /\ page'[e].typed = page[e].typed
                 /\ page'[e].status = page[e].status /\ save'[e].stage = "closing"
              \/ /\ page[e].phase # "open" /\ page'[e].phase = "left"
                 /\ page'[e].answer = Unread /\ save'[e].stage = "none"
           /\ ops' = Append(ops, Delete(e, e))
           /\ save' \in [Editors -> Saves] /\ \A f \in Editors \ {e} : save'[f] = save[f]
<1>1. page[e] \in Pages /\ save \in [Editors -> Saves] /\ save[e].stage = "applied"
  BY DEF TypeInv, PageType, SaveType, SaveSucceeds
<1>2. page[e].phase \notin {"away", "gate"} /\ ops' = Append(ops, Delete(e, e))
  BY <1>1 DEF TypeInv, NotYet, SaveSucceeds
<1>3. /\ Removed(page[e]) \in Pages /\ Removed(page[e]).retired = TRUE
      /\ Removed(page[e]).timer = FALSE
      /\ SameView(page[e], Removed(page[e])) /\ SameForm(page[e], Removed(page[e]))
      /\ Removed(page[e]).status = page[e].status /\ Removed(page[e]).typed = page[e].typed
  BY <1>1, RemovedFacts
<1>4. CASE page[e].phase = "open"
  <2>1. page' = [page EXCEPT ![e] = Removed(page[e])]
    BY <1>4 DEF SaveSucceeds
  <2>2. save' = [save EXCEPT ![e] = [NoSave EXCEPT !.stage = "closing"]]
    BY <1>4 DEF SaveSucceeds
  <2>3. page' \in [Editors -> Pages] /\ page'[e] = Removed(page[e]) /\ Others(e)
    BY <1>3, <2>1, OnePageChanges
  <2>4. /\ save' \in [Editors -> Saves] /\ \A f \in Editors \ {e} : save'[f] = save[f]
        /\ save'[e].stage = "closing"
    BY <1>1, <2>2, ClosedTyped
  <2>5. QED
    BY <1>2, <1>3, <1>4, <2>3, <2>4
<1>5. CASE page[e].phase # "open"
  <2>1. page' = [page EXCEPT ![e] = Left(Removed(page[e]))]
    BY <1>5 DEF SaveSucceeds
  <2>2. save' = [save EXCEPT ![e] = NoSave]
    BY <1>5 DEF SaveSucceeds
  <2>3. /\ Left(Removed(page[e])) \in Pages
        /\ Left(Removed(page[e])).phase = "left" /\ Left(Removed(page[e])).retired = TRUE
        /\ ~Left(Removed(page[e])).timer /\ Left(Removed(page[e])).answer = Unread
    BY <1>3, LeftFacts
  <2>4. Left(Removed(page[e])).timer = FALSE
    BY <2>3 DEF Pages
  <2>5. page' \in [Editors -> Pages] /\ page'[e] = Left(Removed(page[e])) /\ Others(e)
    BY <2>1, <2>3, OnePageChanges
  <2>6. /\ save' \in [Editors -> Saves] /\ \A f \in Editors \ {e} : save'[f] = save[f]
        /\ save'[e].stage = "none"
    BY <1>1, <2>2, ClosedTyped
  <2>7. QED
    BY <1>2, <1>5, <2>3, <2>4, <2>5, <2>6
<1>6. QED
  BY <1>4, <1>5

\* All of a page that the outcome of an operation leaves as it is.
OnlyStatus(p, r) ==
    /\ SameView(p, r) /\ SameForm(p, r)
    /\ r.timer = p.timer /\ r.retired = p.retired /\ r.typed = p.typed

LEMMA FailsFacts ==
    ASSUME TypeInv, NEW e \in Editors, SaveFails(e)
    PROVE  /\ page' \in [Editors -> Pages] /\ Others(e)
           /\ OnlyStatus(page[e], page'[e]) /\ page'[e].status = page[e].status
           /\ save' \in [Editors -> Saves] /\ \A f \in Editors \ {e} : save'[f] = save[f]
           /\ save'[e].stage = "none" /\ save[e].stage \in {"sent", "applied", "refused"}
<1>1. page[e] \in Pages /\ save \in [Editors -> Saves]
  BY DEF TypeInv, PageType, SaveType
<1>2. PICK b \in BOOLEAN : b = (page[e].phase = "open" /\ save[e].stage = "refused")
  OBVIOUS
<1>3. PICK x : x = [page[e] EXCEPT !.conflict = b]
  OBVIOUS
<1>4. x \in Pages /\ x.status = page[e].status
  BY <1>1, <1>3 DEF Pages
<1>5. SameView(page[e], x)
  BY <1>1, <1>3 DEF Pages, SameView
<1>6. SameForm(page[e], x)
  BY <1>1, <1>3 DEF Pages, SameForm
<1>7. x.timer = page[e].timer /\ x.retired = page[e].retired /\ x.typed = page[e].typed
  BY <1>1, <1>3 DEF Pages
<1>8. page' = [page EXCEPT ![e] = x]
  BY <1>2, <1>3 DEF SaveFails, TypeInv, PageType
<1>9. page' \in [Editors -> Pages] /\ page'[e] = x /\ Others(e)
  BY <1>4, <1>8, OnePageChanges
<1>10. save' = [save EXCEPT ![e] = NoSave] /\ save[e].stage \in {"sent", "applied", "refused"}
  BY DEF SaveFails
<1>11. /\ save' \in [Editors -> Saves] /\ \A f \in Editors \ {e} : save'[f] = save[f]
       /\ save'[e].stage = "none"
  BY <1>1, <1>10, ClosedTyped
<1>12. QED
  BY <1>4, <1>5, <1>6, <1>7, <1>9, <1>10, <1>11 DEF OnlyStatus

\* Form e shows a status, if it is there.
Shows(e, status) ==
    /\ page' \in [Editors -> Pages] /\ Others(e) /\ OnlyStatus(page[e], page'[e])
    /\ page'[e].status = IF page[e].phase = "open" THEN status ELSE page[e].status

LEMMA ShownFacts ==
    ASSUME TypeInv, NEW e \in Editors, NEW status \in {"idle", "saved", "failed"},
           Shown(e, status)
    PROVE  Shows(e, status)
<1>1. page[e] \in Pages
  BY DEF TypeInv, PageType
<1>2. PICK t : t = IF page[e].phase = "open" THEN status ELSE page[e].status
  OBVIOUS
<1>3. PICK x : x = [page[e] EXCEPT !.status = t]
  OBVIOUS
<1>4. x \in Pages /\ x.status = t
  BY <1>1, <1>2, <1>3 DEF Pages
<1>5. SameView(page[e], x)
  BY <1>1, <1>3 DEF Pages, SameView
<1>6. SameForm(page[e], x)
  BY <1>1, <1>3 DEF Pages, SameForm
<1>7. x.timer = page[e].timer /\ x.retired = page[e].retired /\ x.typed = page[e].typed
  BY <1>1, <1>3 DEF Pages
<1>8. page' = [page EXCEPT ![e] = x]
  BY <1>2, <1>3 DEF Shown, TypeInv, PageType
<1>9. page' \in [Editors -> Pages] /\ page'[e] = x /\ Others(e)
  BY <1>4, <1>8, OnePageChanges
<1>10. QED
  BY <1>2, <1>4, <1>5, <1>6, <1>7, <1>9 DEF OnlyStatus, Shows

\* IndexedDB runs the operation o.
Runs(o) ==
    \/ /\ o.op = "read" /\ Answers(o.by, record)
       /\ record' = record /\ taken' = taken /\ failed' = failed
    \/ /\ o.op = "put" /\ Shows(o.by, "saved") /\ ops' = Tail(ops)
       /\ record' = o.record /\ taken' = FALSE /\ failed' = FALSE
    \/ /\ o.op = "delete" /\ ops' = Tail(ops)
       /\ IF o.upto = o.by THEN Shows(o.by, "idle") ELSE page' = page
       /\ record' = None /\ failed' = failed
       /\ taken' = (taken \/ (record # None /\ record.by > o.upto))

\* It fails at o.
Fails(o) ==
    /\ record' = record /\ taken' = taken /\ failed' = TRUE
    /\ \/ o.op = "read" /\ Answers(o.by, None)
       \/ o.op = "put" /\ Shows(o.by, "failed") /\ ops' = Tail(ops)
       \/ o.op = "delete" /\ page' = page /\ ops' = Tail(ops)

LEMMA StorageFacts ==
    ASSUME TypeInv, StorageRuns \/ StorageFails
    PROVE  /\ ops # <<>> /\ Head(ops) \in Operations
           /\ Runs(Head(ops)) \/ Fails(Head(ops))
           /\ UNCHANGED <<server, words, query, save, held>>
<1>1. ops # <<>> /\ ops \in Seq(Operations)
  BY DEF TypeInv, QueueType, StorageRuns, StorageFails
<1>2. PICK o : o = Head(ops)
  OBVIOUS
<1>3. o \in Operations /\ o.by \in Editors
  BY <1>1, <1>2, TailFacts, OperationFacts
<1>4. UNCHANGED <<server, words, query, save, held>> /\ query' = query
  BY DEF StorageRuns, StorageFails
<1>5. record \in Records \union {None}
  BY DEF TypeInv, TypesInv
<1>6. CASE StorageRuns
  <2>1. CASE o.op = "read" /\ Answered(o.by, record) /\ UNCHANGED <<record, taken, failed>>
    <3>1. Answers(o.by, record)
      BY <1>1, <1>3, <1>4, <1>5, <2>1, AnsweredFacts
    <3>2. QED
      BY <1>1, <1>2, <1>3, <1>4, <2>1, <3>1 DEF Runs
  <2>2. CASE /\ o.op = "put" /\ record' = o.record /\ taken' = FALSE /\ failed' = FALSE
             /\ Shown(o.by, "saved") /\ ops' = Tail(ops)
    <3>1. Shows(o.by, "saved")
      BY <1>3, <2>2, ShownFacts
    <3>2. QED
      BY <1>1, <1>2, <1>3, <1>4, <2>2, <3>1 DEF Runs
  <2>3. CASE /\ o.op = "delete" /\ record' = None /\ UNCHANGED failed
             /\ taken' = (taken \/ (record # None /\ record.by > o.upto))
             /\ ops' = Tail(ops)
             /\ IF o.upto = o.by THEN Shown(o.by, "idle") ELSE UNCHANGED page
    <3>1. IF o.upto = o.by THEN Shows(o.by, "idle") ELSE page' = page
      BY <1>3, <2>3, ShownFacts
    <3>2. QED
      BY <1>1, <1>2, <1>3, <1>4, <2>3, <3>1 DEF Runs
  <2>4. QED
    BY <1>2, <1>6, <2>1, <2>2, <2>3 DEF StorageRuns
<1>7. CASE StorageFails
  <2>0. record' = record /\ taken' = taken /\ failed' = TRUE
    BY <1>7 DEF StorageFails
  <2>1. CASE o.op = "read" /\ Answered(o.by, None)
    <3>1. Answers(o.by, None)
      BY <1>1, <1>3, <1>4, <2>1, AnsweredFacts
    <3>2. QED
      BY <1>1, <1>2, <1>3, <1>4, <2>0, <2>1, <3>1 DEF Fails
  <2>2. CASE o.op = "put" /\ Shown(o.by, "failed") /\ ops' = Tail(ops)
    <3>1. Shows(o.by, "failed")
      BY <1>3, <2>2, ShownFacts
    <3>2. QED
      BY <1>1, <1>2, <1>3, <1>4, <2>0, <2>2, <3>1 DEF Fails
  <2>3. CASE o.op = "delete" /\ ops' = Tail(ops) /\ UNCHANGED page
    BY <1>1, <1>2, <1>3, <1>4, <2>0, <2>3 DEF Fails
  <2>4. QED
    BY <1>2, <1>7, <2>1, <2>2, <2>3 DEF StorageFails
<1>8. QED
  BY <1>6, <1>7

-----------------------------------------------------------------------------
(* Type correctness. *)

LEMMA NoneIsNoEntry == None \notin Entries
BY AbsenceAssumption DEF Entries

\* What a rendering leaves: a page that is there, over a queue of operations.
LEMMA RendersSummary ==
    ASSUME NEW e \in Editors, NEW p, NEW s, Renders(e, p, s)
    PROVE  /\ page'[e] \in Pages /\ ops' \in Seq(Operations)
           /\ page'[e].status = p.status /\ page'[e].timer = p.timer
           /\ page'[e].retired = p.retired /\ page'[e].typed = p.typed
           /\ p.phase \in {"gate", "open"} =>
                \/ page'[e].phase = p.phase
                \/ page'[e].phase = "refused"
                \/ p.phase = "gate" /\ page'[e].phase = "open" /\ query' \in Entries
           /\ page'[e].phase \in {p.phase, "refused"} => SameForm(p, page'[e])
           /\ \/ ops' = s
              \/ /\ p.answer \in Records /\ p.answer.by \in 0..MaxEditors
                 /\ \E u \in 0..MaxEditors : u \in {0, p.answer.by} /\ ops' = Append(s, Delete(e, u))
<1>1. p.answer \in Records => p.answer.by \in 0..MaxEditors
  BY EditorAssumption DEF Records, Editors
<1>2. /\ ops' \in Seq(Operations)
      /\ \/ ops' = s
         \/ /\ p.answer \in Records
            /\ \E u \in 0..MaxEditors : u \in {0, p.answer.by} /\ ops' = Append(s, Delete(e, u))
  BY OperationsMade, AppendProperties DEF Renders
<1>3. /\ page'[e] \in Pages /\ SameFields(p, page'[e])
      /\ \/ page'[e].phase = p.phase /\ SameForm(p, page'[e])
         \/ page'[e].phase = "refused" /\ p.phase \in {"gate", "open"} /\ SameForm(p, page'[e])
         \/ OpenedForm(p, query', page'[e])
  BY DEF Renders
<1>4. QED
  BY <1>1, <1>2, <1>3 DEF SameFields, OpenedForm

LEMMA OnePageKept ==
    ASSUME TypeInv, NEW e \in Editors, Others(e),
           page[e].phase = "away" => page'[e].phase = "away",
           page[e].phase \in {"left", "crashed"} => page'[e].phase \in {"left", "crashed"}
    PROVE  OnePage'
BY EditorAssumption DEF TypeInv, OnePage, Others, Editors

\* The parts of the invariant a change of one page can disturb.
LEMMA PageTypesKept ==
    ASSUME TypeInv, NEW e \in Editors, page' \in [Editors -> Pages], Others(e),
           page[e].phase = "away" => page'[e].phase = "away",
           page[e].phase \in {"left", "crashed"} => page'[e].phase \in {"left", "crashed"},
           page'[e].phase = "open" => query' # None,
           query' = query \/ query' # None,
           \A f \in Editors \ {e} : save'[f] = save[f] \/ save'[f].stage = "none",
           page'[e].phase \in {"away", "gate"} => save'[e].stage = "none"
    PROVE  PageType' /\ OnePage' /\ OnLoaded' /\ NotYet'
<1>1. OnePage'
  BY OnePageKept
<1>2. OnLoaded'
  BY DEF TypeInv, OnLoaded, Others
<1>3. NotYet'
  BY DEF TypeInv, NotYet, Others
<1>4. QED
  BY <1>1, <1>2, <1>3 DEF PageType

LEMMA RerendersTyped ==
    ASSUME TypeInv, NEW e \in Editors, Rerenders(e), query' = query \/ query' \in Entries,
           save' = save
    PROVE  QueueType' /\ PageType' /\ OnePage' /\ OnLoaded' /\ NotYet'
<1>1. PICK p \in Pages, s \in Seq(Operations) : Renders(e, p, s) /\ Continues(page[e], p)
  BY DEF Rerenders
<1>2. /\ page' \in [Editors -> Pages] /\ Others(e) /\ page[e].phase \in {"gate", "open"}
      /\ page[e].phase = "open" => query' # None
  BY DEF Rerenders
<1>3. p.phase = page[e].phase
  BY <1>1 DEF Continues
<1>4. /\ ops' \in Seq(Operations)
      /\ \/ page'[e].phase = p.phase
         \/ page'[e].phase = "refused"
         \/ p.phase = "gate" /\ page'[e].phase = "open" /\ query' \in Entries
  BY <1>1, <1>2, <1>3, RendersSummary
<1>5. page'[e].phase = "open" => query' # None
  BY <1>2, <1>3, <1>4, NoneIsNoEntry
<1>6. page'[e].phase \in {"away", "gate"} => save'[e].stage = "none"
  BY <1>2, <1>3, <1>4 DEF TypeInv, NotYet
<1>7. page'[e].phase \notin {"away", "left", "crashed"}
  BY <1>2, <1>3, <1>4
<1>8. query' = query \/ query' # None
  BY NoneIsNoEntry
<1>9. PageType' /\ OnePage' /\ OnLoaded' /\ NotYet'
  BY <1>2, <1>5, <1>6, <1>7, <1>8, PageTypesKept
<1>10. QED
  BY <1>4, <1>9 DEF QueueType

LEMMA AnswersTyped ==
    ASSUME TypeInv, NEW e \in Editors, NEW found, Answers(e, found), ops # <<>>,
           query' = query, save' = save
    PROVE  QueueType' /\ PageType' /\ OnePage' /\ OnLoaded' /\ NotYet'
<1>1. CASE page' = page /\ ops' = Tail(ops)
  BY <1>1, TailFacts DEF TypeInv, QueueType, PageType, OnePage, OnLoaded, NotYet
<1>2. CASE /\ page' \in [Editors -> Pages] /\ Others(e) /\ page[e].phase = "gate"
           /\ \E p \in Pages : Renders(e, p, Tail(ops)) /\ Continues(page[e], p)
  <2>1. PICK p \in Pages : Renders(e, p, Tail(ops)) /\ Continues(page[e], p)
    BY <1>2
  <2>2. p.phase = "gate"
    BY <1>2, <2>1 DEF Continues
  <2>3. /\ ops' \in Seq(Operations)
        /\ \/ page'[e].phase = "gate"
           \/ page'[e].phase = "refused"
           \/ page'[e].phase = "open" /\ query' \in Entries
    BY <2>1, <2>2, RendersSummary
  <2>4. page'[e].phase = "open" => query' # None
    BY <2>3, NoneIsNoEntry
  <2>5. page'[e].phase \in {"away", "gate"} => save'[e].stage = "none"
    BY <1>2, <2>3 DEF TypeInv, NotYet
  <2>6. PageType' /\ OnePage' /\ OnLoaded' /\ NotYet'
    BY <1>2, <2>3, <2>4, <2>5, PageTypesKept
  <2>7. QED
    BY <2>3, <2>6 DEF QueueType
<1>3. QED
  BY <1>1, <1>2 DEF Answers

\* A page whose phase stays.
LEMMA PhaseStays ==
    ASSUME TypeInv, NEW e \in Editors, page' \in [Editors -> Pages], Others(e),
           page'[e].phase = page[e].phase, query' = query,
           \A f \in Editors \ {e} : save'[f] = save[f],
           save'[e] = save[e] \/ page[e].phase \notin {"away", "gate"} \/ save'[e].stage = "none"
    PROVE  PageType' /\ OnePage' /\ OnLoaded' /\ NotYet'
<1>1. page'[e].phase \in {"away", "gate"} => save'[e].stage = "none"
  BY DEF TypeInv, NotYet
<1>2. page'[e].phase = "open" => query' # None
  BY DEF TypeInv, OnLoaded
<1>3. QED
  BY <1>1, <1>2, PageTypesKept

LEMMA TypeInit == Init => TypeInv
<1>1. SUFFICES ASSUME Init PROVE TypeInv
  OBVIOUS
<1>2. PICK embed \in Beginnings : server = [ver |-> 0, doc |-> [words |-> 0, embed |-> embed]]
  BY <1>1 DEF Init
<1>3. server \in Entries
  BY <1>2, EditorAssumption DEF Entries, Versions, Docs
<1>4. TypesInv
  <2>1. words \in 0..MaxWords /\ held \subseteq 0..MaxWords
    BY <1>1, EditorAssumption DEF Init
  <2>2. taken \in BOOLEAN /\ failed \in BOOLEAN /\ query = None /\ record = None
    BY <1>1 DEF Init
  <2>3. QED
    BY <1>3, <2>1, <2>2 DEF TypesInv
<1>5. QueueType
  BY <1>1, EmptySeq DEF QueueType, Init
<1>6. PageType /\ \A e \in Editors : page[e].phase = "away"
  BY <1>1, ClosedTyped DEF PageType, Init
<1>7. SaveType /\ \A e \in Editors : save[e].stage = "none"
  BY <1>1, ClosedTyped DEF SaveType, Init
<1>8. QED
  BY <1>4, <1>5, <1>6, <1>7 DEF TypeInv, OnePage, OnLoaded, NotYet

LEMMA TypeNext == TypeInv /\ [Next]_vars => TypeInv'
<1>1. SUFFICES ASSUME TypeInv, [Next]_vars PROVE TypeInv'
  OBVIOUS
<1>2. /\ TypesInv /\ ops \in Seq(Operations) /\ page \in [Editors -> Pages]
      /\ save \in [Editors -> Saves]
  BY <1>1 DEF TypeInv, QueueType, PageType, SaveType
<1>3. ASSUME NEW e \in Editors, Open(e) PROVE TypeInv'
  <2>1. /\ page' \in [Editors -> Pages] /\ Beside(e) /\ page[e].phase = "away"
        /\ \A f \in Editors : f < e => page[f].phase \in {"left", "crashed"}
        /\ Renders(e, GatePage, ops') /\ query' = query
    BY <1>1, <1>3, OpenFacts
  <2>2. /\ ops' \in Seq(Operations)
        /\ \/ page'[e].phase \in {"gate", "refused"}
           \/ page'[e].phase = "open" /\ query' \in Entries
    BY <2>1, RendersSummary, GateFacts
  <2>3. save' = save /\ save[e].stage = "none"
    BY <1>1, <1>3, <2>1 DEF Open, TypeInv, NotYet
  <2>4. OnePage'
    BY <1>1, <2>1, <2>2, BesideFacts, EditorAssumption DEF TypeInv, OnePage, Editors
  <2>5. OnLoaded'
    BY <1>1, <2>1, <2>2, BesideFacts, NoneIsNoEntry DEF TypeInv, OnLoaded
  <2>6. NotYet'
    BY <1>1, <2>1, <2>3, BesideFacts DEF TypeInv, NotYet
  <2>7. TypesInv' /\ SaveType'
    BY <1>2, <1>3 DEF Open, TypesInv, SaveType
  <2>8. QED
    BY <2>1, <2>2, <2>4, <2>5, <2>6, <2>7 DEF TypeInv, QueueType, PageType
<1>4. ASSUME NEW e \in Editors, Refetch(e) PROVE TypeInv'
  <2>1. Rerenders(e) /\ query' \in Entries /\ save' = save
    BY <1>1, <1>4, RefetchFacts DEF Refetch
  <2>2. TypesInv' /\ SaveType'
    BY <1>2, <1>4, <2>1 DEF Refetch, TypesInv, SaveType
  <2>3. QED
    BY <1>1, <2>1, <2>2, RerendersTyped DEF TypeInv
<1>5. ASSUME NEW e \in Editors, Reopen(e) PROVE TypeInv'
  <2>1. PICK d : d = e - 1
    OBVIOUS
  <2>2. /\ page' \in [Editors -> Pages] /\ page[e].phase = "away"
        /\ d \in Editors /\ page[d].phase = "open"
        /\ page'[d] = Gone(page[d])
        /\ \A f \in Editors \ {e, d} : page'[f] = page[f]
        /\ Renders(e, AgainPage(page[d]), ops)
        /\ query' \in Entries /\ query' # None
    BY <1>1, <1>5, <2>1, ReopenFacts
  <2>3. page'[d].phase = "left" /\ AgainPage(page[d]).phase = "gate"
    <3>1. page[d] \in Pages
      BY <1>2, <2>2
    <3>2. QED
      BY <2>2, <3>1, GoneFacts, AgainFacts
  <2>4. /\ ops' \in Seq(Operations)
        /\ page'[e].phase \in {"gate", "refused", "open"}
    BY <2>2, <2>3, RendersSummary
  <2>5. save' = save /\ save[e].stage = "none"
    BY <1>1, <1>5, <2>2 DEF Reopen, TypeInv, NotYet
  <2>6. OnePage'
    <3>1. SUFFICES ASSUME NEW f \in Editors, NEW g \in Editors, f < g, page'[g].phase # "away"
                   PROVE  page'[f].phase \in {"left", "crashed"}
      BY DEF OnePage
    <3>2. \A h \in Editors : h < d => page[h].phase \in {"left", "crashed"}
      BY <1>1, <2>2 DEF TypeInv, OnePage
    <3>3. \A h \in Editors : d < h => page[h].phase = "away"
      BY <1>1, <2>2 DEF TypeInv, OnePage
    <3>4. g <= e
      BY <2>1, <2>2, <3>1, <3>3, EditorAssumption DEF Editors
    <3>5. f = d \/ f < d
      BY <2>1, <3>1, <3>4, EditorAssumption DEF Editors
    <3>6. QED
      BY <2>1, <2>2, <2>3, <3>2, <3>5, EditorAssumption DEF Editors
  <2>7. OnLoaded'
    BY <2>2 DEF OnLoaded
  <2>8. NotYet'
    BY <1>1, <2>2, <2>3, <2>5 DEF TypeInv, NotYet
  <2>9. TypesInv' /\ SaveType'
    BY <1>2, <1>5, <2>2 DEF Reopen, TypesInv, SaveType
  <2>10. QED
    BY <2>2, <2>4, <2>6, <2>7, <2>8, <2>9 DEF TypeInv, QueueType, PageType
<1>6. ASSUME NEW e \in Editors, MediaAnswers(e) \/ Recover(e) \/ DiscardDraft(e) PROVE TypeInv'
  <2>1. Rerenders(e)
    BY <1>1, <1>6, MediaFacts, RecoverFacts, DiscardFacts
  <2>2. /\ UNCHANGED <<server, words, record, taken, failed, held>>
        /\ query' = query /\ save' = save
    BY <1>6 DEF MediaAnswers, Recover, DiscardDraft
  <2>3. TypesInv' /\ SaveType'
    BY <1>2, <2>2 DEF TypesInv, SaveType
  <2>4. QED
    BY <1>1, <2>1, <2>2, <2>3, RerendersTyped DEF TypeInv
<1>7. ASSUME NEW e \in Editors, Edits(e) PROVE TypeInv'
  <2>1. /\ page' \in [Editors -> Pages] /\ Others(e) /\ page[e].phase = "open"
        /\ page'[e].phase = page[e].phase /\ words' \in 0..MaxWords
    BY <1>1, <1>7, EditFacts DEF SameView
  <2>2. /\ UNCHANGED <<server, record, taken, failed, held>>
        /\ query' = query /\ save' = save /\ ops' = ops
    BY <1>1, <1>7, EditFacts
  <2>3. TypesInv' /\ SaveType' /\ QueueType'
    BY <1>2, <2>1, <2>2 DEF TypesInv, SaveType, QueueType
  <2>4. QED
    BY <1>1, <2>1, <2>2, <2>3, PhaseStays DEF TypeInv
<1>8. ASSUME NEW e \in Editors, TimerFires(e) \/ Hide(e) PROVE TypeInv'
  <2>1. page[e].phase = "open" /\ Flushed(e)
    BY <1>8 DEF TimerFires, Hide
  <2>2. Flushes(e)
    BY <1>1, <2>1, FlushFacts
  <2>3. ops' \in Seq(Operations)
    <3>1. \A o \in Puts(e) : Append(ops, o) \in Seq(Operations)
      BY <1>2, AppendProperties DEF Operations, AllPuts
    <3>2. QED
      BY <1>2, <2>2, <3>1 DEF Flushes
  <2>4. /\ UNCHANGED <<server, words, record, taken, failed, held>>
        /\ query' = query /\ save' = save
    BY <2>1 DEF Flushed
  <2>5. TypesInv' /\ SaveType' /\ QueueType'
    BY <1>2, <2>3, <2>4 DEF TypesInv, SaveType, QueueType
  <2>6. page' \in [Editors -> Pages] /\ Others(e) /\ page'[e].phase = page[e].phase
    BY <2>2 DEF Flushes, SameView
  <2>7. QED
    BY <1>1, <2>4, <2>5, <2>6, PhaseStays DEF TypeInv
<1>9. ASSUME NEW e \in Editors, Leave(e) \/ Cancel(e) PROVE TypeInv'
  <2>1. /\ page' \in [Editors -> Pages] /\ Others(e) /\ page'[e].phase = "left"
        /\ page[e].phase \in {"gate", "open", "refused"}
    <3>1. CASE Leave(e)
      <4>1. GoneFrom(e, page[e]) /\ page[e].phase \in {"gate", "open", "refused"}
        BY <1>1, <3>1, LeaveFacts
      <4>2. Left(page[e]).phase = "left"
        BY <1>2, LeftFacts
      <4>3. QED
        BY <4>1, <4>2 DEF GoneFrom
    <3>2. CASE Cancel(e)
      BY <1>1, <3>2, CancelFacts DEF GoneFrom
    <3>3. QED
      BY <1>9, <3>1, <3>2
  <2>2. /\ UNCHANGED <<server, words, record, taken, failed, held>>
        /\ query' = query
    BY <1>9 DEF Leave, Cancel
  <2>3. save' \in [Editors -> Saves] /\ \A f \in Editors \ {e} : save'[f] = save[f]
    BY <1>1, <1>2, <1>9, LeaveFacts DEF Cancel
  <2>4. ops' \in Seq(Operations)
    <3>1. Delete(e, e) \in Operations
      BY OperationsMade, EditorAssumption DEF Editors
    <3>2. ops' = ops \/ ops' = Append(ops, Delete(e, e))
      BY <1>9 DEF Leave, Cancel
    <3>3. QED
      BY <1>2, <3>1, <3>2, AppendProperties
  <2>5. TypesInv' /\ SaveType' /\ QueueType'
    BY <1>2, <2>2, <2>3, <2>4 DEF TypesInv, SaveType, QueueType
  <2>6. PageType' /\ OnePage' /\ OnLoaded' /\ NotYet'
    BY <1>1, <2>1, <2>2, <2>3, PageTypesKept
  <2>7. QED
    BY <2>5, <2>6 DEF TypeInv
<1>10. ASSUME NEW e \in Editors, Crash(e) PROVE TypeInv'
  <2>1. /\ page' \in [Editors -> Pages] /\ Others(e)
        /\ page[e].phase \in {"gate", "open", "refused"}
        /\ page'[e].phase = "crashed"
        /\ query' = None /\ ops' = <<>> /\ save' = [f \in Editors |-> NoSave]
    BY <1>1, <1>10, CrashFacts
  <2>2. TypesInv'
    BY <1>2, <1>10, <2>1 DEF Crash, TypesInv
  <2>3. SaveType' /\ NotYet'
    BY <2>1, ClosedTyped DEF SaveType, NotYet
  <2>4. OnePage'
    BY <1>1, <2>1, OnePageKept
  <2>5. OnLoaded'
    BY <1>1, <2>1, EditorAssumption DEF TypeInv, OnePage, OnLoaded, Others, Editors
  <2>6. QED
    BY <2>1, <2>2, <2>3, <2>4, <2>5, EmptySeq DEF TypeInv, QueueType, PageType
<1>11. ASSUME NEW e \in Editors, Save(e) \/ ServerDecides(e) PROVE TypeInv'
  <2>1. /\ save' \in [Editors -> Saves]
        /\ \A f \in Editors \ {e} : save'[f] = save[f]
        /\ (save[e].stage = "none" /\ page[e].phase = "open") \/ save[e].stage = "sent"
        /\ server' \in Entries /\ held' \subseteq 0..MaxWords
    BY <1>1, <1>11, SaveFacts
  <2>2. UNCHANGED <<words, query, record, ops, page, taken, failed>>
    BY <1>11 DEF Save, ServerDecides
  <2>3. TypesInv' /\ SaveType' /\ QueueType' /\ PageType' /\ OnePage' /\ OnLoaded'
    BY <1>1, <1>2, <2>1, <2>2
       DEF TypesInv, SaveType, QueueType, PageType, TypeInv, OnePage, OnLoaded
  <2>4. NotYet'
    BY <1>1, <2>1, <2>2 DEF TypeInv, NotYet
  <2>5. QED
    BY <2>3, <2>4 DEF TypeInv
<1>12. ASSUME NEW e \in Editors, SaveSucceeds(e) PROVE TypeInv'
  <2>1. /\ page' \in [Editors -> Pages] /\ Others(e)
        /\ page[e].phase \notin {"away", "gate"}
        /\ \/ page'[e].phase = page[e].phase
           \/ page[e].phase # "open" /\ page'[e].phase = "left"
        /\ ops' = Append(ops, Delete(e, e))
        /\ save' \in [Editors -> Saves] /\ \A f \in Editors \ {e} : save'[f] = save[f]
    <3>1. SameView(page[e], page'[e]) => page'[e].phase = page[e].phase
      BY DEF SameView
    <3>2. QED
      BY <1>1, <1>12, <3>1, SucceedsFacts
  <2>2. UNCHANGED <<server, words, record, taken, failed, held>> /\ query' = query
    BY <1>12 DEF SaveSucceeds
  <2>3. ops' \in Seq(Operations)
    BY <1>2, <2>1, OperationsMade, AppendProperties, EditorAssumption DEF Editors
  <2>4. TypesInv' /\ SaveType' /\ QueueType'
    BY <1>2, <2>1, <2>2, <2>3 DEF TypesInv, SaveType, QueueType
  <2>5. page'[e].phase = "open" => query' # None
    BY <1>1, <2>1, <2>2 DEF TypeInv, OnLoaded
  <2>6. PageType' /\ OnePage' /\ OnLoaded' /\ NotYet'
    BY <1>1, <2>1, <2>2, <2>5, PageTypesKept
  <2>7. QED
    BY <2>4, <2>6 DEF TypeInv
<1>13. ASSUME NEW e \in Editors, SaveFails(e) PROVE TypeInv'
  <2>1. /\ page' \in [Editors -> Pages] /\ Others(e) /\ page'[e].phase = page[e].phase
        /\ save' \in [Editors -> Saves] /\ \A f \in Editors \ {e} : save'[f] = save[f]
        /\ save'[e].stage = "none"
    BY <1>1, <1>13, FailsFacts DEF OnlyStatus, SameView
  <2>2. UNCHANGED <<server, words, record, ops, taken, failed, held>> /\ query' = query
    BY <1>13 DEF SaveFails
  <2>3. TypesInv' /\ SaveType' /\ QueueType'
    BY <1>2, <2>1, <2>2 DEF TypesInv, SaveType, QueueType
  <2>4. QED
    BY <1>1, <2>1, <2>2, <2>3, PhaseStays DEF TypeInv
<1>14. CASE SavedElsewhere
  <2>1. PICK embed \in Embeds :
            server' = [ver |-> server.ver + 1, doc |-> [words |-> words + 1, embed |-> embed]]
    BY <1>2, <1>14 DEF SavedElsewhere, TypesInv, Entries, Docs, Embeds
  <2>2. server' \in Entries /\ words' \in 0..MaxWords /\ held' \subseteq 0..MaxWords
    BY <1>2, <1>14, <2>1, EditorAssumption DEF SavedElsewhere, TypesInv, Entries, Docs, Versions
  <2>3. UNCHANGED <<query, record, ops, page, save, taken, failed>>
    BY <1>14 DEF SavedElsewhere
  <2>4. QED
    BY <1>1, <2>2, <2>3
       DEF TypeInv, TypesInv, QueueType, PageType, SaveType, OnePage, OnLoaded, NotYet
<1>15. CASE StorageRuns \/ StorageFails
  <2>1. /\ ops # <<>> /\ Head(ops) \in Operations
        /\ Runs(Head(ops)) \/ Fails(Head(ops))
        /\ UNCHANGED <<server, words, held>> /\ query' = query /\ save' = save
    BY <1>1, <1>15, StorageFacts
  <2>2. PICK o \in Operations : o = Head(ops)
    BY <2>1
  <2>3. /\ o.by \in Editors /\ (o.op = "put" => o.record \in Records)
        /\ Tail(ops) \in Seq(Operations)
    BY <1>2, <2>1, OperationFacts, TailFacts
  <2>4. TypesInv' /\ SaveType'
    <3>1. record' \in Records \union {None} /\ taken' \in BOOLEAN /\ failed' \in BOOLEAN
      BY <1>2, <2>1, <2>2, <2>3 DEF Runs, Fails, TypesInv
    <3>2. QED
      BY <1>2, <2>1, <3>1 DEF TypesInv, SaveType
  <2>5. QueueType' /\ PageType' /\ OnePage' /\ OnLoaded' /\ NotYet'
    <3>1. CASE \E found : Answers(o.by, found)
      BY <1>1, <2>1, <2>3, <3>1, AnswersTyped
    <3>2. CASE ops' = Tail(ops) /\ page' = page
      BY <1>1, <2>1, <2>3, <3>2
         DEF TypeInv, QueueType, PageType, OnePage, OnLoaded, NotYet
    <3>3. CASE ops' = Tail(ops) /\ \E status : Shows(o.by, status)
      <4>1. page' \in [Editors -> Pages] /\ Others(o.by) /\ page'[o.by].phase = page[o.by].phase
        BY <3>3 DEF Shows, OnlyStatus, SameView
      <4>2. PageType' /\ OnePage' /\ OnLoaded' /\ NotYet'
        BY <1>1, <2>1, <2>3, <4>1, PhaseStays
      <4>3. QED
        BY <2>3, <3>3, <4>2 DEF QueueType
    <3>4. QED
      BY <2>1, <2>2, <3>1, <3>2, <3>3 DEF Runs, Fails
  <2>6. QED
    BY <2>4, <2>5 DEF TypeInv
<1>16. CASE UNCHANGED vars
  BY <1>1, <1>16
     DEF vars, TypeInv, TypesInv, QueueType, PageType, SaveType, OnePage, OnLoaded, NotYet
<1>17. QED
  BY <1>1, <1>3, <1>4, <1>5, <1>6, <1>7, <1>8, <1>9, <1>10, <1>11, <1>12, <1>13, <1>14, <1>15,
     <1>16 DEF Next, Edits

(* The entry, the stored record, the queue, the pages and the saves have     *)
(* their types: what a form writes carries a version of the entry.           *)
THEOREM DraftTypeCorrect == Spec => []TypeOK
<1>1. TypeInv => TypeOK
  <2>1. SUFFICES ASSUME TypeInv PROVE TypeOK
    OBVIOUS
  <2>2. /\ server \in [ver : Versions, doc : Docs] /\ words \in 0..MaxWords
        /\ query = None \/ query \in [ver : Versions, doc : Docs]
        /\ record = None \/ record \in Records
        /\ taken \in BOOLEAN /\ failed \in BOOLEAN /\ held \subseteq 0..MaxWords
    BY <2>1 DEF TypeInv, TypesInv, Entries
  <2>3. ASSUME NEW i \in DOMAIN ops
        PROVE  /\ ops[i].op \in {"read", "put", "delete"}
               /\ ops[i].op = "put" => ops[i].record \in Records
    <3>1. ops[i] \in Operations
      BY <2>1, ElementOfSeq, LenProperties DEF TypeInv, QueueType
    <3>2. QED
      BY <3>1, OperationFacts
  <2>4. ASSUME NEW e \in Editors PROVE page[e] \in Pages /\ save[e] \in Saves
    BY <2>1 DEF TypeInv, PageType, SaveType
  <2>5. QED
    BY <2>2, <2>3, <2>4 DEF TypeOK, Pages, Phases, Saves
<1>2. QED
  BY <1>1, TypeInit, TypeNext, PTL DEF Spec

-----------------------------------------------------------------------------
(* A form that says it is saving has a write on its way.  The status is that *)
(* of a form only from its first flush on: the gate shows none.              *)

IdleGate == \A e \in Editors : page[e].phase \in {"away", "gate"} => page[e].status = "idle"
SavingHasPut ==
    \A e \in Editors : page[e].phase = "open" /\ page[e].status = "saving" => Has(ops, Puts(e))
SavingInv == IdleGate /\ SavingHasPut

LEMMA SavingInit == Init => SavingInv
BY DEF Init, SavingInv, IdleGate, SavingHasPut, Closed

LEMMA ReadIsNoPut ==
    ASSUME NEW o \in Operations, o.op # "put", NEW e \in Editors
    PROVE  o \notin Puts(e)
BY OperationFacts

LEMMA DeleteIsNoPut ==
    ASSUME NEW e \in Editors, NEW u \in 0..MaxEditors, NEW f \in Editors
    PROVE  Delete(e, u) \notin Puts(f) /\ Delete(e, u) \notin AllPuts /\ Delete(e, u) \in Operations
BY OperationsMade, OperationFacts

\* The puts of a queue that is rendered over.
LEMMA RendersPuts ==
    ASSUME NEW e \in Editors, NEW p, NEW s \in Seq(Operations), Renders(e, p, s),
           NEW f \in Editors
    PROVE  Has(ops', Puts(f)) <=> Has(s, Puts(f))
<1>1. \/ ops' = s
      \/ \E u \in 0..MaxEditors : ops' = Append(s, Delete(e, u))
  BY RendersSummary
<1>2. ASSUME NEW u \in 0..MaxEditors
      PROVE  Has(Append(s, Delete(e, u)), Puts(f)) <=> Has(s, Puts(f))
  <2>1. Delete(e, u) \notin Puts(f) /\ Delete(e, u) \in Operations
    BY DeleteIsNoPut
  <2>2. QED
    BY <2>1, AppendHas
<1>3. QED
  BY <1>1, <1>2

LEMMA TailPuts ==
    ASSUME ops \in Seq(Operations), ops # <<>>, NEW e \in Editors
    PROVE  Has(ops, Puts(e)) <=> (Head(ops).op = "put" /\ Head(ops).by = e) \/ Has(Tail(ops), Puts(e))
<1>1. Head(ops) \in Operations /\ Tail(ops) \in Seq(Operations)
  BY TailFacts
<1>2. Head(ops) \in Puts(e) <=> Head(ops).op = "put" /\ Head(ops).by = e
  BY <1>1, OperationFacts
<1>3. QED
  BY <1>2, TailFacts

\* Only page e changes, and no put that another page waits for is taken away.
LEMMA SavingKept ==
    ASSUME TypeInv, SavingInv, NEW e \in Editors, Others(e) \/ Beside(e),
           page'[e].phase \in {"away", "gate"} => page'[e].status = "idle",
           page'[e].phase = "open" /\ page'[e].status = "saving" => Has(ops', Puts(e)),
           \A f \in Editors \ {e} : Has(ops, Puts(f)) => Has(ops', Puts(f))
    PROVE  SavingInv'
<1>1. IdleGate'
  BY BesideFacts DEF SavingInv, IdleGate
<1>2. SavingHasPut'
  <2>1. SUFFICES ASSUME NEW f \in Editors, page'[f].phase = "open", page'[f].status = "saving"
                 PROVE  Has(ops', Puts(f))
    BY DEF SavingHasPut
  <2>2. CASE f = e
    BY <2>1, <2>2
  <2>3. CASE f # e
    BY <2>1, <2>3, BesideFacts DEF SavingInv, SavingHasPut
  <2>4. QED
    BY <2>2, <2>3
<1>3. QED
  BY <1>1, <1>2 DEF SavingInv

LEMMA RerendersSaving ==
    ASSUME TypeInv, SavingInv, NEW e \in Editors, Rerenders(e)
    PROVE  SavingInv'
<1>1. PICK p \in Pages, s \in Seq(Operations) :
          /\ Renders(e, p, s) /\ Continues(page[e], p)
          /\ s = ops \/ /\ page[e].answer \in Records
                        /\ s = Append(ops, Delete(e, page[e].answer.by))
  BY DEF Rerenders
<1>2. /\ page[e].phase \in {"gate", "open"} /\ p.phase = page[e].phase
      /\ p.status = page[e].status /\ Others(e)
  BY <1>1 DEF Rerenders, Continues
<1>3. /\ page'[e].status = p.status
      /\ \/ page'[e].phase = p.phase
         \/ page'[e].phase = "refused"
         \/ p.phase = "gate" /\ page'[e].phase = "open"
  BY <1>1, <1>2, RendersSummary
<1>4. ops \in Seq(Operations)
  BY DEF TypeInv, QueueType
<1>5. ASSUME NEW f \in Editors PROVE Has(ops', Puts(f)) <=> Has(ops, Puts(f))
  <2>1. Has(ops', Puts(f)) <=> Has(s, Puts(f))
    BY <1>1, RendersPuts
  <2>2. CASE s = ops
    BY <2>1, <2>2
  <2>3. CASE page[e].answer \in Records /\ s = Append(ops, Delete(e, page[e].answer.by))
    <3>1. page[e].answer.by \in 0..MaxEditors
      BY <2>3, EditorAssumption DEF Records, Editors
    <3>2. Delete(e, page[e].answer.by) \notin Puts(f) /\ Delete(e, page[e].answer.by) \in Operations
      BY <3>1, DeleteIsNoPut
    <3>3. QED
      BY <1>4, <2>1, <2>3, <3>2, AppendHas
  <2>4. QED
    BY <1>1, <2>2, <2>3
<1>6. p.phase = "gate" => page'[e].status = "idle"
  BY <1>2, <1>3 DEF SavingInv, IdleGate
<1>7. page'[e].phase \in {"away", "gate"} => page'[e].status = "idle"
  BY <1>2, <1>3, <1>6
<1>8. page'[e].phase = "open" /\ page'[e].status = "saving" => Has(ops', Puts(e))
  BY <1>2, <1>3, <1>5, <1>6 DEF SavingInv, SavingHasPut
<1>9. QED
  BY <1>2, <1>5, <1>7, <1>8, SavingKept

LEMMA SavingNext == TypeInv /\ SavingInv /\ [Next]_vars => SavingInv'
<1>1. SUFFICES ASSUME TypeInv, SavingInv, [Next]_vars PROVE SavingInv'
  OBVIOUS
<1>2. ops \in Seq(Operations) /\ page \in [Editors -> Pages]
  BY <1>1 DEF TypeInv, QueueType, PageType
<1>3. ASSUME NEW e \in Editors, Open(e) PROVE SavingInv'
  <2>1. /\ Beside(e) /\ Renders(e, GatePage, ops')
        /\ ops' = IF Enabled(query) THEN Append(ops, Read(e)) ELSE ops
    BY <1>1, <1>3, OpenFacts
  <2>2. page'[e].status = "idle"
    BY <2>1, RendersSummary, GateFacts
  <2>3. ASSUME NEW f \in Editors PROVE Has(ops, Puts(f)) => Has(ops', Puts(f))
    <3>1. Read(e) \in Operations
      BY OperationsMade
    <3>2. QED
      BY <1>2, <2>1, <3>1, AppendHas
  <2>4. QED
    BY <1>1, <2>1, <2>2, <2>3, SavingKept
<1>4. ASSUME NEW e \in Editors, Refetch(e) \/ MediaAnswers(e) \/ Recover(e) \/ DiscardDraft(e)
      PROVE  SavingInv'
  BY <1>1, <1>4, RefetchFacts, MediaFacts, RecoverFacts, DiscardFacts, RerendersSaving
<1>5. ASSUME NEW e \in Editors, Reopen(e) PROVE SavingInv'
  <2>1. PICK d \in Editors :
            /\ page[d] \in Pages /\ page'[d] = Gone(page[d])
            /\ \A f \in Editors \ {e, d} : page'[f] = page[f]
            /\ Renders(e, AgainPage(page[d]), ops)
    <3>1. e - 1 \in Editors /\ page[e - 1] \in Pages
      BY <1>1, <1>2, <1>5, ReopenFacts
    <3>2. QED
      BY <1>1, <1>5, <3>1, ReopenFacts
  <2>2. page'[d].phase = "left"
    BY <2>1, GoneFacts
  <2>3. page'[e].status = "idle"
    <3>1. AgainPage(page[d]).status = "idle"
      BY <2>1, AgainFacts
    <3>2. QED
      BY <2>1, <3>1, RendersSummary
  <2>4. \A f \in Editors : Has(ops', Puts(f)) <=> Has(ops, Puts(f))
    BY <1>2, <2>1, RendersPuts
  <2>5. IdleGate'
    BY <1>1, <2>1, <2>2, <2>3 DEF SavingInv, IdleGate
  <2>6. SavingHasPut'
    <3>1. SUFFICES ASSUME NEW f \in Editors, page'[f].phase = "open", page'[f].status = "saving"
                   PROVE  Has(ops', Puts(f))
      BY DEF SavingHasPut
    <3>2. f # d /\ f # e
      BY <2>2, <2>3, <3>1
    <3>3. QED
      BY <1>1, <2>1, <2>4, <3>1, <3>2 DEF SavingInv, SavingHasPut
  <2>7. QED
    BY <2>5, <2>6 DEF SavingInv
<1>6. ASSUME NEW e \in Editors, Edits(e) PROVE SavingInv'
  <2>1. /\ Others(e) /\ page[e].phase = "open" /\ page'[e].phase = "open"
        /\ page'[e].status = page[e].status /\ ops' = ops
    <3>1. SameView(page[e], page'[e]) => page'[e].phase = page[e].phase
      BY DEF SameView
    <3>2. ops' = ops
      BY <1>1, <1>6, EditFacts
    <3>3. QED
      BY <1>1, <1>6, <3>1, <3>2, EditFacts
  <2>2. QED
    BY <1>1, <2>1, SavingKept DEF SavingInv, SavingHasPut
<1>7. ASSUME NEW e \in Editors, TimerFires(e) \/ Hide(e) PROVE SavingInv'
  <2>1. Flushes(e)
    BY <1>1, <1>7, FlushFacts DEF TimerFires, Hide
  <2>2. Others(e) /\ page[e].phase = "open" /\ page'[e].phase = "open"
    BY <2>1 DEF Flushes, SameView
  <2>3. CASE page'[e].status = "saving" /\ \E o \in Puts(e) : ops' = Append(ops, o)
    <3>1. PICK o \in Puts(e) : ops' = Append(ops, o)
      BY <2>3
    <3>2. o \in Operations
      BY <3>1 DEF Operations, AllPuts
    <3>3. \A f \in Editors : Has(ops', Puts(f)) <=> Has(ops, Puts(f)) \/ o \in Puts(f)
      BY <1>2, <3>1, <3>2, AppendHas
    <3>4. QED
      BY <1>1, <2>2, <3>1, <3>3, SavingKept
  <2>4. CASE page'[e].status \in {"unsupported", page[e].status} /\ ops' = ops
    BY <1>1, <2>2, <2>4, SavingKept DEF SavingInv, SavingHasPut
  <2>5. QED
    BY <2>1, <2>3, <2>4 DEF Flushes
<1>8. ASSUME NEW e \in Editors, Leave(e) PROVE SavingInv'
  <2>1. Others(e) /\ page'[e].phase = "left" /\ ops' = ops
    <3>1. GoneFrom(e, page[e]) /\ Left(page[e]).phase = "left"
      BY <1>1, <1>2, <1>8, LeaveFacts, LeftFacts
    <3>2. QED
      BY <1>8, <3>1 DEF GoneFrom, Leave
  <2>2. QED
    BY <1>1, <2>1, SavingKept
<1>9. ASSUME NEW e \in Editors, ops' = Append(ops, Delete(e, e)), Others(e),
             \/ page'[e].phase = "left"
             \/ page[e].phase = "open" /\ page'[e].phase = "open" /\ page'[e].status = page[e].status
      PROVE  SavingInv'
  <2>1. e \in 0..MaxEditors
    BY EditorAssumption DEF Editors
  <2>2. ASSUME NEW f \in Editors PROVE Has(ops', Puts(f)) <=> Has(ops, Puts(f))
    <3>1. Delete(e, e) \notin Puts(f) /\ Delete(e, e) \in Operations
      BY <2>1, DeleteIsNoPut
    <3>2. QED
      BY <1>2, <1>9, <3>1, AppendHas
  <2>3. QED
    BY <1>1, <1>9, <2>2, SavingKept DEF SavingInv, SavingHasPut
<1>10. ASSUME NEW e \in Editors, Cancel(e) PROVE SavingInv'
  BY <1>1, <1>9, <1>10, CancelFacts DEF GoneFrom
<1>11. ASSUME NEW e \in Editors, SaveSucceeds(e) PROVE SavingInv'
  BY <1>1, <1>9, <1>11, SucceedsFacts DEF SameView
<1>12. ASSUME NEW e \in Editors, Crash(e) PROVE SavingInv'
  <2>1. /\ Others(e) /\ page'[e].phase = "crashed" /\ page[e].phase \in {"gate", "open", "refused"}
    BY <1>1, <1>12, CrashFacts
  <2>2. \A f \in Editors : page'[f].phase # "open"
    BY <1>1, <2>1, EditorAssumption DEF TypeInv, OnePage, Others, Editors
  <2>3. QED
    BY <1>1, <2>1, <2>2 DEF SavingInv, IdleGate, SavingHasPut, Others
<1>13. ASSUME NEW e \in Editors, Save(e) \/ ServerDecides(e) PROVE SavingInv'
  <2>1. page' = page /\ ops' = ops
    BY <1>13 DEF Save, ServerDecides
  <2>2. QED
    BY <1>1, <2>1 DEF SavingInv, IdleGate, SavingHasPut
<1>14. ASSUME NEW e \in Editors, SaveFails(e) PROVE SavingInv'
  <2>1. /\ Others(e) /\ page'[e].phase = page[e].phase /\ page'[e].status = page[e].status
        /\ ops' = ops
    <3>1. OnlyStatus(page[e], page'[e]) => page'[e].phase = page[e].phase
      BY DEF OnlyStatus, SameView
    <3>2. ops' = ops
      BY <1>14 DEF SaveFails
    <3>3. QED
      BY <1>1, <1>14, <3>1, <3>2, FailsFacts
  <2>2. QED
    BY <1>1, <2>1, SavingKept DEF SavingInv, IdleGate, SavingHasPut
<1>15. CASE SavedElsewhere
  <2>1. page' = page /\ ops' = ops
    BY <1>15 DEF SavedElsewhere
  <2>2. QED
    BY <1>1, <2>1 DEF SavingInv, IdleGate, SavingHasPut
<1>16. CASE StorageRuns \/ StorageFails
  <2>1. PICK o \in Operations : ops # <<>> /\ o = Head(ops) /\ (Runs(o) \/ Fails(o))
    BY <1>1, <1>16, StorageFacts
  <2>2. o.by \in Editors /\ Tail(ops) \in Seq(Operations) /\ o.op \in {"read", "put", "delete"}
    BY <1>2, <2>1, OperationFacts, TailFacts
  <2>3. \A f \in Editors :
            Has(ops, Puts(f)) <=> (o.op = "put" /\ o.by = f) \/ Has(Tail(ops), Puts(f))
    BY <1>2, <2>1, TailPuts
  <2>4. CASE o.op = "read" /\ \E found : Answers(o.by, found)
    <3>1. CASE page' = page /\ ops' = Tail(ops)
      BY <1>1, <2>3, <2>4, <3>1 DEF SavingInv, IdleGate, SavingHasPut
    <3>2. CASE /\ Others(o.by) /\ page[o.by].phase = "gate"
               /\ \E p \in Pages : Renders(o.by, p, Tail(ops)) /\ Continues(page[o.by], p)
      <4>1. PICK p \in Pages : Renders(o.by, p, Tail(ops)) /\ Continues(page[o.by], p)
        BY <3>2
      <4>2. p.status = page[o.by].status
        BY <4>1 DEF Continues
      <4>3. page'[o.by].status = p.status
        BY <2>2, <4>1, RendersSummary
      <4>4. page'[o.by].status = "idle"
        BY <1>1, <2>2, <3>2, <4>2, <4>3 DEF SavingInv, IdleGate
      <4>5. \A f \in Editors : Has(ops', Puts(f)) <=> Has(Tail(ops), Puts(f))
        BY <2>2, <4>1, RendersPuts
      <4>6. QED
        BY <1>1, <2>2, <2>3, <2>4, <3>2, <4>4, <4>5, SavingKept
    <3>3. QED
      BY <2>4, <3>1, <3>2 DEF Answers
  <2>5. CASE o.op = "put" /\ ops' = Tail(ops) /\ \E t \in {"saved", "failed"} : Shows(o.by, t)
    <3>1. PICK t \in {"saved", "failed"} : Shows(o.by, t)
      BY <2>5
    <3>2. /\ Others(o.by) /\ page'[o.by].phase = page[o.by].phase
          /\ page'[o.by].status = IF page[o.by].phase = "open" THEN t ELSE page[o.by].status
      BY <3>1 DEF Shows, OnlyStatus, SameView
    <3>3. QED
      BY <1>1, <2>2, <2>3, <2>5, <3>2, SavingKept DEF SavingInv, IdleGate
  <2>6. CASE o.op = "delete" /\ ops' = Tail(ops) /\ (page' = page \/ Shows(o.by, "idle"))
    <3>1. CASE page' = page
      BY <1>1, <2>3, <2>6, <3>1 DEF SavingInv, IdleGate, SavingHasPut
    <3>2. CASE Shows(o.by, "idle")
      <4>1. /\ Others(o.by) /\ page'[o.by].phase = page[o.by].phase
            /\ page'[o.by].status = IF page[o.by].phase = "open" THEN "idle" ELSE page[o.by].status
        BY <3>2 DEF Shows, OnlyStatus, SameView
      <4>2. QED
        BY <1>1, <2>2, <2>3, <2>6, <4>1, SavingKept DEF SavingInv, IdleGate
    <3>3. QED
      BY <2>6, <3>1, <3>2
  <2>7. QED
    BY <2>1, <2>2, <2>4, <2>5, <2>6 DEF Runs, Fails
<1>17. CASE UNCHANGED vars
  <2>1. page' = page /\ ops' = ops
    BY <1>17 DEF vars
  <2>2. QED
    BY <1>1, <2>1 DEF SavingInv, IdleGate, SavingHasPut
<1>18. QED
  BY <1>1, <1>3, <1>4, <1>5, <1>6, <1>7, <1>8, <1>10, <1>11, <1>12, <1>13, <1>14, <1>15, <1>16,
     <1>17 DEF Next, Edits

(* The page never goes on saying that it saves: a form with that status has  *)
(* a write of its own in the queue of IndexedDB, whose outcome replaces it.  *)
THEOREM SavingHasWrite == Spec => []SavingIsUnderWay
<1>1. TypeInv /\ SavingInv => SavingIsUnderWay
  <2>1. SUFFICES ASSUME TypeInv, SavingInv, NEW e \in Editors, page[e].phase = "open",
                        page[e].status = "saving"
                 PROVE  \E i \in DOMAIN ops : ops[i].op = "put" /\ ops[i].by = e
    BY DEF SavingIsUnderWay
  <2>2. PICK i \in DOMAIN ops : ops[i] \in Puts(e)
    BY <2>1 DEF SavingInv, SavingHasPut, Has
  <2>3. QED
    BY <2>2 DEF Puts
<1>2. QED
  BY <1>1, TypeInit, TypeNext, SavingInit, SavingNext, PTL DEF Spec

-----------------------------------------------------------------------------
(* What was removed stays gone.  While the latch of a page is set no write   *)
(* of it joins the queue, and every one that is there has a deletion behind  *)
(* it; one of them is still to come, or the record is not of this page.      *)

RetractedIn(s, e, r, lost) ==
    /\ Followed(s, Puts(e), Deletes(e))
    /\ lost \/ Has(s, Deletes(e)) \/ r = None \/ r.by # e

RetiredInv == \A e \in Editors : page[e].retired => RetractedIn(ops, e, record, failed)

LEMMA RetiredInit == Init => RetiredInv
BY DEF Init, RetiredInv, Closed

LEMMA RetractedAppend ==
    ASSUME NEW s \in Seq(Operations), NEW o \in Operations, NEW e \in Editors, NEW r, NEW lost,
           o \notin Puts(e), RetractedIn(s, e, r, lost) \/ o \in Deletes(e)
    PROVE  RetractedIn(Append(s, o), e, r, lost)
<1>1. Followed(Append(s, o), Puts(e), Deletes(e))
  BY AppendFollowed DEF RetractedIn
<1>2. Has(Append(s, o), Deletes(e)) <=> Has(s, Deletes(e)) \/ o \in Deletes(e)
  BY AppendHas
<1>3. QED
  BY <1>1, <1>2 DEF RetractedIn

LEMMA DeleteRetracts ==
    ASSUME NEW s \in Seq(Operations), NEW e \in Editors, NEW u \in 0..MaxEditors,
           NEW f \in Editors, NEW r, NEW lost, RetractedIn(s, f, r, lost) \/ f = e
    PROVE  RetractedIn(Append(s, Delete(e, u)), f, r, lost)
<1>1. Delete(e, u) \notin Puts(f) /\ Delete(e, u) \in Operations
  BY DeleteIsNoPut
<1>2. Delete(e, u) \in Deletes(e)
  BY <1>1, OperationsMade, OperationFacts
<1>3. QED
  BY <1>1, <1>2, RetractedAppend

LEMMA RendersRetracts ==
    ASSUME NEW e \in Editors, NEW p, NEW s \in Seq(Operations), Renders(e, p, s),
           NEW f \in Editors, NEW r, NEW lost, RetractedIn(s, f, r, lost)
    PROVE  RetractedIn(ops', f, r, lost)
<1>1. \/ ops' = s
      \/ \E u \in 0..MaxEditors : ops' = Append(s, Delete(e, u))
  BY RendersSummary
<1>2. QED
  BY <1>1, DeleteRetracts

\* The head of the queue has run, or has failed.
LEMMA TailRetracts ==
    ASSUME TypeInv, ops # <<>>, NEW o, o = Head(ops), Runs(o) \/ Fails(o), NEW e \in Editors,
           RetractedIn(ops, e, record, failed)
    PROVE  RetractedIn(Tail(ops), e, record', failed')
<1>1. ops \in Seq(Operations) /\ o \in Operations /\ o.by \in Editors
  BY TailFacts, OperationFacts DEF TypeInv, QueueType
<1>2. /\ Followed(Tail(ops), Puts(e), Deletes(e))
      /\ o \in Puts(e) => Has(Tail(ops), Deletes(e))
      /\ Has(ops, Deletes(e)) <=> o \in Deletes(e) \/ Has(Tail(ops), Deletes(e))
  BY <1>1, TailFacts DEF RetractedIn
<1>3. CASE Runs(o) /\ o.op = "read"
  <2>1. o \notin Deletes(e) /\ record' = record /\ failed' = failed
    BY <1>1, <1>3, OperationFacts DEF Runs
  <2>2. QED
    BY <1>2, <2>1 DEF RetractedIn
<1>4. CASE Runs(o) /\ o.op = "put"
  <2>1. record' = o.record /\ o.record.by = o.by /\ (o.by = e => o \in Puts(e))
    BY <1>1, <1>4, OperationFacts DEF Runs
  <2>2. QED
    BY <1>2, <2>1 DEF RetractedIn
<1>5. CASE Runs(o) /\ o.op = "delete"
  <2>1. record' = None
    BY <1>5 DEF Runs
  <2>2. QED
    BY <1>2, <2>1 DEF RetractedIn
<1>6. CASE Fails(o)
  <2>1. failed' = TRUE
    BY <1>6 DEF Fails
  <2>2. QED
    BY <1>2, <2>1 DEF RetractedIn
<1>7. QED
  BY <1>1, <1>3, <1>4, <1>5, <1>6, OperationFacts

\* Only page e changes.
LEMMA RetiredKept ==
    ASSUME TypeInv, RetiredInv, NEW e \in Editors, Others(e) \/ Beside(e),
           page'[e].retired => RetractedIn(ops', e, record', failed'),
           \A f \in Editors \ {e} :
               RetractedIn(ops, f, record, failed) => RetractedIn(ops', f, record', failed')
    PROVE  RetiredInv'
<1>1. SUFFICES ASSUME NEW f \in Editors, page'[f].retired
               PROVE  RetractedIn(ops', f, record', failed')
  BY DEF RetiredInv
<1>2. CASE f = e
  BY <1>1, <1>2
<1>3. CASE f # e
  BY <1>1, <1>3, BesideFacts DEF RetiredInv
<1>4. QED
  BY <1>2, <1>3

LEMMA RerendersRetired ==
    ASSUME TypeInv, RetiredInv, NEW e \in Editors, Rerenders(e),
           record' = record, failed' = failed
    PROVE  RetiredInv'
<1>1. PICK p \in Pages, s \in Seq(Operations) :
          /\ Renders(e, p, s) /\ Continues(page[e], p)
          /\ s = ops \/ /\ page[e].answer \in Records
                        /\ s = Append(ops, Delete(e, page[e].answer.by))
  BY DEF Rerenders
<1>2. Others(e) /\ p.retired = page[e].retired /\ page'[e].retired = p.retired
  BY <1>1, RendersSummary DEF Rerenders, Continues
<1>3. ops \in Seq(Operations)
  BY DEF TypeInv, QueueType
<1>4. ASSUME NEW f \in Editors, RetractedIn(ops, f, record, failed)
      PROVE  RetractedIn(ops', f, record', failed')
  <2>1. RetractedIn(s, f, record, failed)
    <3>1. CASE s = ops
      BY <1>4, <3>1
    <3>2. CASE page[e].answer \in Records /\ s = Append(ops, Delete(e, page[e].answer.by))
      <4>1. page[e].answer.by \in 0..MaxEditors
        BY <3>2, EditorAssumption DEF Records, Editors
      <4>2. QED
        BY <1>3, <1>4, <3>2, <4>1, DeleteRetracts
    <3>3. QED
      BY <1>1, <3>1, <3>2
  <2>2. RetractedIn(ops', f, record, failed)
    BY <1>1, <2>1, RendersRetracts
  <2>3. QED
    BY <2>2
<1>5. page'[e].retired => RetractedIn(ops', e, record', failed')
  BY <1>2, <1>4 DEF RetiredInv
<1>6. QED
  BY <1>2, <1>4, <1>5, RetiredKept

LEMMA RetiredNext == TypeInv /\ RetiredInv /\ [Next]_vars => RetiredInv'
<1>1. SUFFICES ASSUME TypeInv, RetiredInv, [Next]_vars PROVE RetiredInv'
  OBVIOUS
<1>2. ops \in Seq(Operations) /\ page \in [Editors -> Pages]
  BY <1>1 DEF TypeInv, QueueType, PageType
<1>3. ASSUME NEW e \in Editors, Open(e) PROVE RetiredInv'
  <2>1. /\ Beside(e) /\ Renders(e, GatePage, ops')
        /\ ops' = IF Enabled(query) THEN Append(ops, Read(e)) ELSE ops
    BY <1>1, <1>3, OpenFacts
  <2>2. page'[e].retired = FALSE
    BY <2>1, RendersSummary, GateFacts
  <2>3. record' = record /\ failed' = failed
    BY <1>3 DEF Open
  <2>4. ASSUME NEW f \in Editors, RetractedIn(ops, f, record, failed)
        PROVE  RetractedIn(ops', f, record', failed')
    <3>1. Read(e) \in Operations /\ Read(e) \notin Puts(f)
      BY OperationsMade, OperationFacts
    <3>2. RetractedIn(Append(ops, Read(e)), f, record, failed)
      BY <1>2, <2>4, <3>1, RetractedAppend
    <3>3. QED
      BY <2>1, <2>3, <2>4, <3>2
  <2>5. QED
    BY <1>1, <2>1, <2>2, <2>4, RetiredKept
<1>4. ASSUME NEW e \in Editors, Refetch(e) \/ MediaAnswers(e) \/ Recover(e) \/ DiscardDraft(e)
      PROVE  RetiredInv'
  <2>1. Rerenders(e)
    BY <1>1, <1>4, RefetchFacts, MediaFacts, RecoverFacts, DiscardFacts
  <2>2. record' = record /\ failed' = failed
    BY <1>4 DEF Refetch, MediaAnswers, Recover, DiscardDraft
  <2>3. QED
    BY <1>1, <2>1, <2>2, RerendersRetired
<1>5. ASSUME NEW e \in Editors, Reopen(e) PROVE RetiredInv'
  <2>1. PICK d \in Editors :
            /\ page[d] \in Pages /\ page'[d] = Gone(page[d])
            /\ \A f \in Editors \ {e, d} : page'[f] = page[f]
            /\ Renders(e, AgainPage(page[d]), ops)
    <3>1. e - 1 \in Editors /\ page[e - 1] \in Pages
      BY <1>1, <1>2, <1>5, ReopenFacts
    <3>2. QED
      BY <1>1, <1>5, <3>1, ReopenFacts
  <2>2. page'[d].retired = page[d].retired
    BY <2>1, GoneFacts
  <2>3. page'[e].retired = FALSE
    <3>1. AgainPage(page[d]).retired = FALSE
      BY <2>1, AgainFacts
    <3>2. QED
      BY <2>1, <3>1, RendersSummary
  <2>4. record' = record /\ failed' = failed
    BY <1>5 DEF Reopen
  <2>5. ASSUME NEW f \in Editors, RetractedIn(ops, f, record, failed)
        PROVE  RetractedIn(ops', f, record', failed')
    <3>1. RetractedIn(ops', f, record, failed)
      BY <1>2, <2>1, <2>5, RendersRetracts
    <3>2. QED
      BY <2>4, <3>1
  <2>6. ASSUME NEW f \in Editors, page'[f].retired PROVE RetractedIn(ops', f, record', failed')
    <3>1. page[f].retired
      BY <2>1, <2>2, <2>3, <2>6
    <3>2. QED
      BY <1>1, <2>5, <3>1 DEF RetiredInv
  <2>7. QED
    BY <2>6 DEF RetiredInv
<1>6. ASSUME NEW e \in Editors, Edits(e) PROVE RetiredInv'
  <2>1. Others(e) /\ ~page'[e].retired
    BY <1>1, <1>6, EditFacts
  <2>2. ops' = ops /\ record' = record /\ failed' = failed
    BY <1>1, <1>6, EditFacts
  <2>3. QED
    BY <1>1, <2>1, <2>2, RetiredKept
<1>7. ASSUME NEW e \in Editors, TimerFires(e) \/ Hide(e) PROVE RetiredInv'
  <2>1. Flushes(e)
    BY <1>1, <1>7, FlushFacts DEF TimerFires, Hide
  <2>2. record' = record /\ failed' = failed
    BY <1>7 DEF TimerFires, Hide, Flushed
  <2>3. Others(e) /\ page'[e].retired = page[e].retired
    BY <2>1 DEF Flushes
  <2>4. CASE ~page[e].retired /\ \E o \in Puts(e) : ops' = Append(ops, o)
    <3>1. PICK o \in Puts(e) : ops' = Append(ops, o)
      BY <2>4
    <3>2. o \in Operations /\ \A f \in Editors \ {e} : o \notin Puts(f)
      BY DEF Operations, AllPuts, Puts
    <3>3. ASSUME NEW f \in Editors \ {e}, RetractedIn(ops, f, record, failed)
          PROVE  RetractedIn(ops', f, record', failed')
      <4>1. RetractedIn(Append(ops, o), f, record, failed)
        BY <1>2, <3>2, <3>3, RetractedAppend
      <4>2. QED
        BY <2>2, <3>1, <4>1
    <3>4. QED
      BY <1>1, <2>3, <2>4, <3>3, RetiredKept
  <2>5. CASE ops' = ops
    BY <1>1, <2>2, <2>3, <2>5 DEF RetiredInv, Others
  <2>6. QED
    BY <2>1, <2>4, <2>5 DEF Flushes, Writes
<1>8. ASSUME NEW e \in Editors, Leave(e) PROVE RetiredInv'
  <2>1. Others(e) /\ page'[e].retired = page[e].retired
    <3>1. GoneFrom(e, page[e]) /\ Left(page[e]).retired = page[e].retired
      BY <1>1, <1>2, <1>8, LeaveFacts, LeftFacts
    <3>2. QED
      BY <3>1 DEF GoneFrom
  <2>2. ops' = ops /\ record' = record /\ failed' = failed
    BY <1>8 DEF Leave
  <2>3. QED
    BY <1>1, <2>1, <2>2 DEF RetiredInv, Others
<1>9. ASSUME NEW e \in Editors, ops' = Append(ops, Delete(e, e)), Others(e),
             record' = record, failed' = failed
      PROVE  RetiredInv'
  <2>1. e \in 0..MaxEditors
    BY EditorAssumption DEF Editors
  <2>2. ASSUME NEW f \in Editors, RetractedIn(ops, f, record, failed) \/ f = e
        PROVE  RetractedIn(ops', f, record', failed')
    <3>1. RetractedIn(Append(ops, Delete(e, e)), f, record, failed)
      BY <1>2, <2>1, <2>2, DeleteRetracts
    <3>2. QED
      BY <1>9, <3>1
  <2>3. QED
    BY <1>1, <1>9, <2>2, RetiredKept
<1>10. ASSUME NEW e \in Editors, Cancel(e) PROVE RetiredInv'
  <2>1. ops' = Append(ops, Delete(e, e)) /\ Others(e)
    BY <1>1, <1>10, CancelFacts DEF GoneFrom
  <2>2. record' = record /\ failed' = failed
    BY <1>10 DEF Cancel
  <2>3. QED
    BY <1>9, <2>1, <2>2
<1>11. ASSUME NEW e \in Editors, SaveSucceeds(e) PROVE RetiredInv'
  <2>1. ops' = Append(ops, Delete(e, e)) /\ Others(e)
    BY <1>1, <1>11, SucceedsFacts
  <2>2. record' = record /\ failed' = failed
    BY <1>11 DEF SaveSucceeds
  <2>3. QED
    BY <1>9, <2>1, <2>2
<1>12. ASSUME NEW e \in Editors, Crash(e) PROVE RetiredInv'
  <2>1. Others(e) /\ page'[e].retired = FALSE /\ ops' = <<>>
    BY <1>1, <1>12, CrashFacts
  <2>2. record' = record /\ failed' = (failed \/ ops # <<>>)
    BY <1>12 DEF Crash
  <2>3. ASSUME NEW f \in Editors, RetractedIn(ops, f, record, failed)
        PROVE  RetractedIn(ops', f, record', failed')
    <3>1. Has(ops, Deletes(f)) => ops # <<>>
      BY EmptyFacts
    <3>2. Followed(ops', Puts(f), Deletes(f))
      BY <2>1, EmptyFacts
    <3>3. QED
      BY <2>2, <2>3, <3>1, <3>2 DEF RetractedIn
  <2>4. QED
    BY <1>1, <2>1, <2>3, RetiredKept
<1>13. ASSUME NEW e \in Editors, Save(e) \/ ServerDecides(e) PROVE RetiredInv'
  <2>1. page' = page /\ ops' = ops /\ record' = record /\ failed' = failed
    BY <1>13 DEF Save, ServerDecides
  <2>2. QED
    BY <1>1, <2>1 DEF RetiredInv
<1>14. ASSUME NEW e \in Editors, SaveFails(e) PROVE RetiredInv'
  <2>1. Others(e) /\ page'[e].retired = page[e].retired
    BY <1>1, <1>14, FailsFacts DEF OnlyStatus
  <2>2. ops' = ops /\ record' = record /\ failed' = failed
    BY <1>14 DEF SaveFails
  <2>3. QED
    BY <1>1, <2>1, <2>2 DEF RetiredInv, Others
<1>15. CASE SavedElsewhere
  <2>1. page' = page /\ ops' = ops /\ record' = record /\ failed' = failed
    BY <1>15 DEF SavedElsewhere
  <2>2. QED
    BY <1>1, <2>1 DEF RetiredInv
<1>16. CASE StorageRuns \/ StorageFails
  <2>1. PICK o \in Operations : ops # <<>> /\ o = Head(ops) /\ (Runs(o) \/ Fails(o))
    BY <1>1, <1>16, StorageFacts
  <2>2. o.by \in Editors /\ Tail(ops) \in Seq(Operations)
    BY <1>2, <2>1, OperationFacts, TailFacts
  <2>3. \A f \in Editors :
            RetractedIn(ops, f, record, failed) => RetractedIn(Tail(ops), f, record', failed')
    BY <1>1, <2>1, TailRetracts
  <2>4. CASE /\ Others(o.by)
             /\ \E p \in Pages : Renders(o.by, p, Tail(ops)) /\ Continues(page[o.by], p)
    <3>1. PICK p \in Pages : /\ Renders(o.by, p, Tail(ops)) /\ Continues(page[o.by], p)
                             /\ Others(o.by)
      BY <2>4
    <3>2. page'[o.by].retired = page[o.by].retired
      BY <2>2, <3>1, RendersSummary DEF Continues
    <3>3. ASSUME NEW f \in Editors, RetractedIn(ops, f, record, failed)
          PROVE  RetractedIn(ops', f, record', failed')
      BY <2>2, <2>3, <3>1, <3>3, RendersRetracts
    <3>4. QED
      BY <1>1, <2>2, <3>1, <3>2, <3>3 DEF RetiredInv, Others
  <2>5. CASE ops' = Tail(ops) /\ (page' = page \/ \E t : Shows(o.by, t))
    <3>1. \A f \in Editors : page'[f].retired = page[f].retired
      BY <2>2, <2>5 DEF Shows, OnlyStatus, Others
    <3>2. QED
      BY <1>1, <2>3, <2>5, <3>1 DEF RetiredInv
  <2>6. QED
    <3>1. CASE \E found : Answers(o.by, found)
      BY <2>4, <2>5, <3>1 DEF Answers
    <3>2. QED
      BY <2>1, <2>5, <3>1 DEF Runs, Fails
<1>17. CASE UNCHANGED vars
  <2>1. page' = page /\ ops' = ops /\ record' = record /\ failed' = failed
    BY <1>17 DEF vars
  <2>2. QED
    BY <1>1, <2>1 DEF RetiredInv
<1>18. QED
  BY <1>1, <1>3, <1>4, <1>5, <1>6, <1>7, <1>8, <1>10, <1>11, <1>12, <1>13, <1>14, <1>15, <1>16,
     <1>17 DEF Next, Edits

(* A draft that was saved or cancelled does not come back: no write of its   *)
(* page passes the latch, and those that did before run ahead of a deletion. *)
THEOREM RemovedIsGone == Spec => []RemovedStaysGone
<1>1. TypeInv /\ RetiredInv => RemovedStaysGone
  <2>1. SUFFICES ASSUME TypeInv, RetiredInv, NEW e \in Editors, page[e].retired,
                        ~Queued(e), ~failed
                 PROVE  record = None \/ record.by # e
    BY DEF RemovedStaysGone
  <2>2. ~Has(ops, Deletes(e))
    BY <2>1 DEF Queued, Has, Deletes
  <2>3. QED
    BY <2>1, <2>2 DEF RetiredInv, RetractedIn
<1>2. QED
  BY <1>1, TypeInit, TypeNext, RetiredInit, RetiredNext, PTL DEF Spec

-----------------------------------------------------------------------------
(* What the last two results rest on: how far a page has come, whose         *)
(* operations and whose record there can be, and that writes keep the order  *)
(* of their pages.                                                            *)

\* An operation of a page that has got there.  A deletion decides about its own page
\* only once that is past the gate.
OpOk(o) ==
    /\ page[o.by].phase # "away"
    /\ o.op = "put" => page[o.by].phase # "gate"
    /\ o.op = "delete" => o.upto <= o.by /\ (page[o.by].phase = "gate" => o.upto < o.by)

OpsInv == \A o \in ToSet(ops) : OpOk(o)
RecordInv == record # None => page[record.by].phase \notin {"away", "gate"}
OrderInv == \A f, g \in Editors : g < f => NeverAfter(ops, Puts(f), Puts(g))

FormInv(e) ==
    /\ page[e].phase = "gate"
         => ~page[e].typed /\ ~page[e].retired /\ ~page[e].again /\ page[e].choice = "none"
    /\ page[e].phase = "open" /\ page[e].retired => save[e].stage = "closing"
    /\ page[e].answer \in Records => page[e].answer.by < e
FormsInv == \A e \in Editors : FormInv(e)

AuxInv == FormsInv /\ OpsInv /\ RecordInv /\ OrderInv

LEMMA ToSetFacts ==
    ASSUME NEW S, NEW s \in Seq(S)
    PROVE  /\ ToSet(s) \subseteq S
           /\ \A o \in S : ToSet(Append(s, o)) = ToSet(s) \union {o}
           /\ s # <<>> => ToSet(s) = {Head(s)} \union ToSet(Tail(s))
           /\ \A A : Has(s, A) <=> \E o \in ToSet(s) : o \in A
<1>1. Len(s) \in Nat /\ DOMAIN s = 1..Len(s) /\ \A i \in 1..Len(s) : s[i] \in S
  BY LenProperties, ElementOfSeq
<1>2. ToSet(s) \subseteq S
  BY <1>1 DEF ToSet
<1>3. ASSUME NEW o \in S PROVE ToSet(Append(s, o)) = ToSet(s) \union {o}
  <2>1. /\ DOMAIN Append(s, o) = 1..Len(s) + 1
        /\ \A i \in 1..Len(s) : Append(s, o)[i] = s[i]
        /\ Append(s, o)[Len(s) + 1] = o
    BY AppendProperties, LenProperties
  <2>2. /\ \A i \in 1..Len(s) + 1 : i # Len(s) + 1 => i \in 1..Len(s)
        /\ \A i \in 1..Len(s) : i \in 1..Len(s) + 1
        /\ Len(s) + 1 \in 1..Len(s) + 1
    BY <1>1
  <2>3. ASSUME NEW x PROVE x \in ToSet(Append(s, o)) <=> x \in ToSet(s) \union {o}
    BY <1>1, <2>1, <2>2 DEF ToSet
  <2>4. QED
    BY <2>3
<1>4. ASSUME s # <<>> PROVE ToSet(s) = {Head(s)} \union ToSet(Tail(s))
  <2>1. /\ Head(s) = s[1] /\ Len(s) \in Nat \ {0}
        /\ \A i \in 1..Len(s) - 1 : Tail(s)[i] = s[i + 1]
        /\ DOMAIN Tail(s) = 1..Len(s) - 1
    BY <1>4, HeadTailProperties, LenProperties, EmptySeq
  <2>2. ASSUME NEW i \in 1..Len(s), i # 1 PROVE i - 1 \in 1..Len(s) - 1 /\ Tail(s)[i - 1] = s[i]
    <3>1. i - 1 \in 1..Len(s) - 1 /\ (i - 1) + 1 = i
      BY <2>1, <2>2
    <3>2. QED
      BY <2>1, <3>1
  <2>3. 1 \in 1..Len(s) /\ \A i \in 1..Len(s) - 1 : i + 1 \in 1..Len(s)
    BY <2>1
  <2>4. ASSUME NEW x \in ToSet(s) PROVE x \in {Head(s)} \union ToSet(Tail(s))
    <3>1. PICK i \in 1..Len(s) : x = s[i]
      BY <1>1, <2>4 DEF ToSet
    <3>2. CASE i = 1
      BY <2>1, <3>1, <3>2
    <3>3. CASE i # 1
      BY <2>1, <2>2, <3>1, <3>3 DEF ToSet
    <3>4. QED
      BY <3>2, <3>3
  <2>5. ASSUME NEW x \in {Head(s)} \union ToSet(Tail(s)) PROVE x \in ToSet(s)
    BY <1>1, <2>1, <2>3, <2>5 DEF ToSet
  <2>6. QED
    BY <2>4, <2>5
<1>5. \A A : Has(s, A) <=> \E o \in ToSet(s) : o \in A
  BY DEF Has, ToSet
<1>6. QED
  BY <1>2, <1>3, <1>4, <1>5

\* At most one deletion of page e, of what earlier pages wrote, is added to s.
Adds(s, e) ==
    \/ ops' = s
    \/ \E u \in 0..MaxEditors : u < e /\ ops' = Append(s, Delete(e, u))

LEMMA AddsFacts ==
    ASSUME NEW e \in Editors, NEW s \in Seq(Operations), Adds(s, e)
    PROVE  /\ ops' \in Seq(Operations)
           /\ \A f \in Editors : Has(ops', Puts(f)) <=> Has(s, Puts(f))
           /\ \A A \in SUBSET AllPuts : \A B : Followed(s, A, B) => Followed(ops', A, B)
           /\ \A A, B : B \subseteq AllPuts /\ NeverAfter(s, A, B) => NeverAfter(ops', A, B)
           /\ \A o \in ToSet(ops') :
                o \in ToSet(s) \/ (o \in Operations /\ o.op = "delete" /\ o.by = e /\ o.upto < e)
<1>1. CASE ops' = s
  BY <1>1
<1>2. ASSUME NEW u \in 0..MaxEditors, u < e, ops' = Append(s, Delete(e, u))
      PROVE  /\ ops' \in Seq(Operations)
             /\ \A f \in Editors : Has(ops', Puts(f)) <=> Has(s, Puts(f))
             /\ \A A \in SUBSET AllPuts : \A B : Followed(s, A, B) => Followed(ops', A, B)
             /\ \A A, B : B \subseteq AllPuts /\ NeverAfter(s, A, B) => NeverAfter(ops', A, B)
             /\ \A o \in ToSet(ops') :
                  o \in ToSet(s) \/ (o \in Operations /\ o.op = "delete" /\ o.by = e /\ o.upto < e)
  <2>1. PICK d \in Operations : d = Delete(e, u) /\ d.op = "delete" /\ d.by = e /\ d.upto = u
    BY OperationsMade
  <2>2. d \notin AllPuts /\ \A f \in Editors : d \notin Puts(f)
    BY <2>1, OperationFacts
  <2>3. ops' = Append(s, d)
    BY <1>2, <2>1
  <2>4. ops' \in Seq(Operations)
    BY <2>3, AppendProperties
  <2>5. ASSUME NEW f \in Editors PROVE Has(ops', Puts(f)) <=> Has(s, Puts(f))
    BY <2>2, <2>3, AppendHas
  <2>6. ASSUME NEW A \in SUBSET AllPuts, NEW B, Followed(s, A, B) PROVE Followed(ops', A, B)
    <3>1. d \notin A
      BY <2>2
    <3>2. QED
      BY <2>3, <2>6, <3>1, AppendFollowed
  <2>7. ASSUME NEW A, NEW B, B \subseteq AllPuts, NeverAfter(s, A, B) PROVE NeverAfter(ops', A, B)
    <3>1. d \notin B
      BY <2>2, <2>7
    <3>2. QED
      BY <2>3, <2>7, <3>1, AppendNeverAfter
  <2>8. \A o \in ToSet(ops') :
            o \in ToSet(s) \/ (o \in Operations /\ o.op = "delete" /\ o.by = e /\ o.upto < e)
    BY <1>2, <2>1, <2>3, ToSetFacts
  <2>9. QED
    BY <2>4, <2>5, <2>6, <2>7, <2>8
<1>3. QED
  BY <1>1, <1>2 DEF Adds

LEMMA RendersAdds ==
    ASSUME NEW e \in Editors, NEW p, NEW s, Renders(e, p, s), p.answer \in Records => p.answer.by < e
    PROVE  Adds(s, e)
<1>1. \/ ops' = s
      \/ /\ p.answer \in Records
         /\ \E u \in 0..MaxEditors : u \in {0, p.answer.by} /\ ops' = Append(s, Delete(e, u))
  BY RendersSummary
<1>2. 0 < e
  BY EditorAssumption DEF Editors
<1>3. QED
  BY <1>1, <1>2 DEF Adds

LEMMA AuxInit == Init => AuxInv
<1>1. SUFFICES ASSUME Init PROVE AuxInv
  OBVIOUS
<1>2. ops = <<>> /\ record = None
  BY <1>1 DEF Init
<1>3. OpsInv
  BY <1>2 DEF OpsInv, ToSet
<1>4. RecordInv /\ OrderInv
  BY <1>2, EmptyFacts DEF RecordInv, OrderInv
<1>5. FormsInv
  <2>1. /\ Closed.phase = "away" /\ Closed.timer = FALSE /\ Closed.answer = Unread
    BY DEF Closed
  <2>2. \A e \in Editors : page[e] = Closed
    BY <1>1 DEF Init
  <2>3. QED
    BY <2>1, <2>2, AbsenceAssumption DEF FormsInv, FormInv
<1>6. QED
  BY <1>3, <1>4, <1>5 DEF AuxInv

\* No page goes back before the gate, or to it.
Forward ==
    \A e \in Editors :
        /\ page[e].phase # "away" => page'[e].phase # "away"
        /\ page'[e].phase = "gate" => page[e].phase \in {"away", "gate"}

LEMMA ForwardOne ==
    ASSUME TypeInv, NEW e \in Editors, Others(e) \/ Beside(e),
           page[e].phase # "away" => page'[e].phase # "away",
           page'[e].phase = "gate" => page[e].phase \in {"away", "gate"}
    PROVE  Forward
BY BesideFacts DEF Forward

\* Operations and records stay those of pages that have got there.
LEMMA OpsKept ==
    ASSUME TypeInv, OpsInv, Forward, \A o \in ToSet(ops') : o \in ToSet(ops) \/ OpOk(o)'
    PROVE  OpsInv'
<1>1. SUFFICES ASSUME NEW o \in ToSet(ops) PROVE OpOk(o)'
  BY DEF OpsInv
<1>2. o.by \in Editors
  BY ToSetFacts, OperationFacts DEF TypeInv, QueueType
<1>3. OpOk(o)
  BY DEF OpsInv
<1>4. QED
  BY <1>2, <1>3 DEF OpOk, Forward

LEMMA RecordKept ==
    ASSUME TypeInv, RecordInv, Forward, record' = record \/ record' = None
    PROVE  RecordInv'
<1>1. record # None => record.by \in Editors
  BY DEF TypeInv, TypesInv, Records
<1>2. QED
  BY <1>1 DEF RecordInv, Forward

LEMMA OrderAdds ==
    ASSUME NEW e \in Editors, NEW s \in Seq(Operations), Adds(s, e),
           \A f, g \in Editors : g < f => NeverAfter(s, Puts(f), Puts(g))
    PROVE  OrderInv'
<1>1. SUFFICES ASSUME NEW f \in Editors, NEW g \in Editors, g < f
               PROVE  NeverAfter(ops', Puts(f), Puts(g))
  BY DEF OrderInv
<1>2. Puts(g) \subseteq AllPuts
  BY DEF AllPuts
<1>3. QED
  BY <1>1, <1>2, AddsFacts

\* The operations Adds makes.
LEMMA OpsAdds ==
    ASSUME TypeInv, OpsInv, NEW e \in Editors, NEW s \in Seq(Operations), Adds(s, e),
           ToSet(s) \subseteq ToSet(ops), page'[e].phase # "away", Forward
    PROVE  OpsInv'
<1>1. \A o \in ToSet(ops') :
          o \in ToSet(s) \/ (o \in Operations /\ o.op = "delete" /\ o.by = e /\ o.upto < e)
  BY AddsFacts
<1>2. ASSUME NEW o \in ToSet(ops'), o \in Operations, o.op = "delete", o.by = e, o.upto < e
      PROVE  OpOk(o)'
  <2>1. o.upto <= e
    BY <1>2, OperationFacts, EditorAssumption DEF Editors
  <2>2. QED
    BY <1>2, <2>1 DEF OpOk
<1>3. QED
  BY <1>1, <1>2, OpsKept

\* The forms, when only page e changes and nothing is written.
LEMMA FormsKept ==
    ASSUME TypeInv, FormsInv, NEW e \in Editors, Others(e) \/ Beside(e), FormInv(e)',
           \A f \in Editors \ {e} : save'[f] = save[f] /\ (Has(ops', Puts(f)) => Has(ops, Puts(f)))
    PROVE  FormsInv'
<1>1. SUFFICES ASSUME NEW f \in Editors \ {e} PROVE FormInv(f)'
  BY DEF FormsInv
<1>2. /\ page'[f] = page[f] \/ (page'[f].phase = "left" /\ page'[f].answer = Unread)
      /\ FormInv(f)
  BY BesideFacts DEF FormsInv
<1>3. QED
  BY <1>2, AbsenceAssumption DEF FormInv

\* A page that has not got past the gate has nothing queued.
LEMMA NothingQueued ==
    ASSUME TypeInv, AuxInv, NEW e \in Editors
    PROVE  /\ page[e].phase \in {"away", "gate"} => ~Has(ops, Puts(e))
           /\ page[e].phase = "away" => ~Has(ops, Reads(e))
<1>1. ops \in Seq(Operations)
  BY DEF TypeInv, QueueType
<1>2. ASSUME Has(ops, Puts(e)) PROVE page[e].phase \notin {"away", "gate"}
  <2>1. PICK o \in ToSet(ops) : o \in Puts(e)
    BY <1>1, <1>2, ToSetFacts
  <2>2. o.op = "put" /\ o.by = e
    BY <2>1 DEF Puts
  <2>3. QED
    BY <2>1, <2>2 DEF AuxInv, OpsInv, OpOk
<1>3. ASSUME Has(ops, Reads(e)) PROVE page[e].phase # "away"
  <2>1. PICK o \in ToSet(ops) : o \in Reads(e)
    BY <1>1, <1>3, ToSetFacts
  <2>2. o.op = "read" /\ o.by = e
    BY <2>1 DEF Reads
  <2>3. QED
    BY <2>1, <2>2 DEF AuxInv, OpsInv, OpOk
<1>4. QED
  BY <1>2, <1>3

\* A rendered page has what FormInv says of it, if the page it is rendered from had.
LEMMA RendersForm ==
    ASSUME NEW e \in Editors, NEW p, NEW s \in Seq(Operations), Renders(e, p, s),
           p.phase \in {"gate", "open"},
           p.phase = "gate" => ~p.typed /\ ~p.retired /\ ~Has(s, Puts(e)),
           p.phase = "gate" /\ query' = None => ~p.again /\ p.choice = "none",
           p.phase = "open" /\ p.retired => save'[e].stage = "closing",
           p.answer \in Records => p.answer.by < e
    PROVE  FormInv(e)' /\ Adds(s, e)
<1>1. Adds(s, e)
  BY RendersAdds
<1>2. Has(ops', Puts(e)) <=> Has(s, Puts(e))
  BY <1>1, AddsFacts
<1>3. /\ p \in Pages /\ page'[e] \in Pages
      /\ page'[e].timer = p.timer /\ page'[e].retired = p.retired /\ page'[e].typed = p.typed
      /\ page'[e].again = p.again /\ page'[e].choice = p.choice
      /\ page'[e].answer \in {None, p.answer}
  BY DEF Renders, SameFields
<1>4. page'[e].answer \in Records => page'[e].answer.by < e
  BY <1>3, AbsenceAssumption
<1>5. /\ page'[e].phase = "gate" =>
           ~page'[e].typed /\ ~page'[e].retired /\ ~page'[e].again /\ page'[e].choice = "none"
      /\ page'[e].phase = "open" /\ page'[e].retired => save'[e].stage = "closing"
  <2>1. CASE page'[e].phase = p.phase /\ SameForm(p, page'[e])
             /\ (p.phase = "gate" /\ query' # None =>
                   ~p.again /\ p.choice = "none" /\ RecoveryPhase(p, query') # "clear")
    BY <1>3, <2>1
  <2>2. CASE page'[e].phase = "refused" /\ SameForm(p, page'[e])
    BY <1>3, <2>2 DEF SameForm
  <2>3. CASE OpenedForm(p, query', page'[e])
    <3>1. p.phase = "gate" /\ page'[e].phase = "open"
      BY <2>3 DEF OpenedForm
    <3>2. QED
      BY <1>3, <3>1
  <2>4. QED
    BY <2>1, <2>2, <2>3 DEF Renders
<1>6. QED
  BY <1>1, <1>4, <1>5 DEF FormInv

LEMMA RerendersAux ==
    ASSUME TypeInv, AuxInv, NEW e \in Editors, Rerenders(e), record' = record, save' = save,
           query' = query \/ query' \in Entries
    PROVE  AuxInv' /\ Adds(ops, e)
<1>1. /\ page' \in [Editors -> Pages] /\ Others(e) /\ page[e].phase \in {"gate", "open"}
      /\ ops \in Seq(Operations) /\ page[e] \in Pages
  BY DEF Rerenders, TypeInv, QueueType, PageType
<1>2. PICK p \in Pages, s \in Seq(Operations) :
        /\ Renders(e, p, s) /\ Continues(page[e], p)
        /\ \/ /\ p.answer = page[e].answer /\ s = ops
              /\ \/ p.choice = page[e].choice
                 \/ p.choice = "draft" /\ page[e].phase = "gate" /\ query' # None
                    /\ RecoveryPhase(p, query') = "offer"
           \/ /\ p.answer = None /\ page[e].phase = "gate" /\ query' # None
              /\ page[e].answer \in Records /\ p.choice = "server"
              /\ s = Append(ops, Delete(e, page[e].answer.by))
  BY DEF Rerenders
<1>3. FormInv(e)
  BY DEF AuxInv, FormsInv
<1>4. /\ p.phase = page[e].phase /\ p.timer = page[e].timer /\ p.retired = page[e].retired
      /\ p.again = page[e].again /\ p.typed = page[e].typed /\ p.dirty = page[e].dirty
      /\ p.doc = page[e].doc
  BY <1>2 DEF Continues, SameForm
<1>5. page[e].phase = "gate" => ~Has(ops, Puts(e))
  BY NothingQueued
<1>6. ASSUME s # ops PROVE FormInv(e)' /\ Adds(ops, e)
  <2>1. /\ p.answer = None /\ page[e].answer \in Records /\ page[e].phase = "gate"
        /\ s = Append(ops, Delete(e, page[e].answer.by)) /\ query' # None
    BY <1>2, <1>6
  <2>2. /\ page[e].answer.by \in 0..MaxEditors /\ page[e].answer.by < e
    BY <1>3, <2>1, EditorAssumption DEF FormInv, Records, Editors
  <2>3. ~Has(s, Puts(e))
    <3>1. /\ Delete(e, page[e].answer.by) \notin Puts(e)
          /\ Delete(e, page[e].answer.by) \in Operations
      BY <2>2, DeleteIsNoPut
    <3>2. QED
      BY <1>1, <1>5, <2>1, <3>1, AppendHas
  <2>4. p.answer \notin Records
    BY <2>1, AbsenceAssumption
  <2>5. FormInv(e)' /\ Adds(s, e)
    BY <1>1, <1>2, <1>3, <1>4, <2>1, <2>3, <2>4, RendersForm DEF FormInv
  <2>6. ops' = s
    BY <1>2, <2>4, RendersSummary
  <2>7. Adds(ops, e)
    BY <2>1, <2>2, <2>6 DEF Adds
  <2>8. QED
    BY <2>5, <2>7
<1>7. ASSUME s = ops PROVE FormInv(e)' /\ Adds(ops, e)
  <2>1. p.answer = page[e].answer \/ p.answer = None
    BY <1>2
  <2>2. p.answer \in Records => p.answer.by < e
    BY <1>3, <2>1, AbsenceAssumption DEF FormInv
  <2>3. query' = None => p.choice = page[e].choice
    BY <1>2
  <2>4. QED
    BY <1>1, <1>2, <1>3, <1>4, <1>5, <1>7, <2>2, <2>3, RendersForm DEF FormInv
<1>8. FormInv(e)' /\ Adds(ops, e)
  BY <1>6, <1>7

<1>9. page'[e].phase \in {"gate", "open", "refused"} /\ (page'[e].phase = "gate" => page[e].phase = "gate")
  BY <1>1, <1>2, <1>4, RendersSummary
<1>10. Forward
  BY <1>1, <1>9, ForwardOne
<1>11. OpsInv'
  BY <1>1, <1>8, <1>9, <1>10, OpsAdds DEF AuxInv
<1>12. RecordInv'
  BY <1>10, RecordKept DEF AuxInv
<1>13. OrderInv'
  BY <1>1, <1>8, OrderAdds DEF AuxInv, OrderInv
<1>14. FormsInv'
  BY <1>1, <1>8, AddsFacts, FormsKept DEF AuxInv
<1>15. QED
  BY <1>8, <1>11, <1>12, <1>13, <1>14 DEF AuxInv

\* The head of the queue is taken.
LEMMA TailKeeps ==
    ASSUME TypeInv, AuxInv, ops # <<>>
    PROVE  /\ Tail(ops) \in Seq(Operations) /\ ToSet(Tail(ops)) \subseteq ToSet(ops)
           /\ \A f \in Editors : Has(Tail(ops), Puts(f)) => Has(ops, Puts(f))
           /\ \A f, g \in Editors : g < f => NeverAfter(Tail(ops), Puts(f), Puts(g))
           /\ Head(ops) \in Operations /\ Head(ops).by \in Editors /\ OpOk(Head(ops))
<1>1. ops \in Seq(Operations)
  BY DEF TypeInv, QueueType
<1>2. Tail(ops) \in Seq(Operations) /\ ToSet(ops) = {Head(ops)} \union ToSet(Tail(ops))
  BY <1>1, TailFacts, ToSetFacts
<1>3. \A f \in Editors : Has(Tail(ops), Puts(f)) => Has(ops, Puts(f))
  BY <1>1, TailFacts
<1>4. \A f, g \in Editors : g < f => NeverAfter(Tail(ops), Puts(f), Puts(g))
  BY <1>1, TailFacts DEF AuxInv, OrderInv
<1>5. Head(ops) \in Operations /\ Head(ops).by \in Editors
  BY <1>1, TailFacts, OperationFacts
<1>6. OpOk(Head(ops))
  BY <1>2 DEF AuxInv, OpsInv
<1>7. QED
  BY <1>2, <1>3, <1>4, <1>5, <1>6

\* What is stored is of an earlier page, as long as this one is at the gate.
LEMMA RecordBefore ==
    ASSUME TypeInv, AuxInv, NEW e \in Editors, page[e].phase = "gate", record \in Records
    PROVE  record.by < e
<1>1. record.by \in Editors /\ record # None
  BY AbsenceAssumption DEF Records
<1>2. page[record.by].phase \notin {"away", "gate"}
  BY <1>1 DEF AuxInv, RecordInv
<1>3. ~(e < record.by)
  BY <1>1, <1>2 DEF TypeInv, OnePage
<1>4. record.by # e
  BY <1>2
<1>5. QED
  BY <1>1, <1>3, <1>4, EditorAssumption DEF Editors

LEMMA AnswersAux ==
    ASSUME TypeInv, AuxInv, NEW e \in Editors, NEW found \in {record, None}, Answers(e, found),
           ops # <<>>, query' = query, save' = save, record' = record
    PROVE  AuxInv' /\ Adds(Tail(ops), e)
<1>1. /\ Tail(ops) \in Seq(Operations) /\ ToSet(Tail(ops)) \subseteq ToSet(ops)
      /\ \A f \in Editors : Has(Tail(ops), Puts(f)) => Has(ops, Puts(f))
      /\ \A f, g \in Editors : g < f => NeverAfter(Tail(ops), Puts(f), Puts(g))
  BY TailKeeps
<1>2. ASSUME page' = page, ops' = Tail(ops) PROVE AuxInv' /\ Adds(Tail(ops), e)
  <2>1. Adds(Tail(ops), e) /\ Forward
    BY <1>2 DEF Adds, Forward
  <2>2. OpsInv' /\ RecordInv' /\ OrderInv'
    BY <1>1, <1>2, <2>1, OpsKept, RecordKept DEF AuxInv, OrderInv
  <2>3. FormsInv'
    BY <1>1, <1>2 DEF AuxInv, FormsInv, FormInv
  <2>4. QED
    BY <2>1, <2>2, <2>3 DEF AuxInv
<1>3. ASSUME Others(e), page[e].phase = "gate", NEW p \in Pages, Renders(e, p, Tail(ops)),
             Continues(page[e], p), p.answer = found, p.choice = page[e].choice
      PROVE  AuxInv' /\ Adds(Tail(ops), e)
  <2>1. FormInv(e)
    BY DEF AuxInv, FormsInv
  <2>2. /\ p.phase = page[e].phase /\ p.timer = page[e].timer /\ p.retired = page[e].retired
        /\ p.again = page[e].again /\ p.typed = page[e].typed /\ p.dirty = page[e].dirty
    BY <1>3 DEF Continues, SameForm
  <2>3. ~Has(Tail(ops), Puts(e))
    BY <1>1, <1>3, NothingQueued
  <2>4. p.answer \in Records => p.answer.by < e
    BY <1>3, RecordBefore, AbsenceAssumption
  <2>5. FormInv(e)' /\ Adds(Tail(ops), e)
    BY <1>1, <1>3, <2>1, <2>2, <2>3, <2>4, RendersForm DEF FormInv
  <2>6. page'[e].phase \in {"gate", "open", "refused"}
    BY <1>3, <2>2, RendersSummary
  <2>7. Forward
    BY <1>3, <2>6, ForwardOne
  <2>8. OpsInv'
    BY <1>1, <2>5, <2>6, <2>7, OpsAdds DEF AuxInv
  <2>9. RecordInv'
    BY <2>7, RecordKept DEF AuxInv
  <2>10. OrderInv'
    BY <1>1, <2>5, OrderAdds
  <2>11. FormsInv'
    BY <1>1, <1>3, <2>5, AddsFacts, FormsKept DEF AuxInv
  <2>12. QED
    BY <2>5, <2>8, <2>9, <2>10, <2>11 DEF AuxInv
<1>4. QED
  BY <1>2, <1>3 DEF Answers

LEMMA ReopenAux ==
    ASSUME TypeInv, AuxInv, NEW e \in Editors, Reopen(e)
    PROVE  AuxInv' /\ Adds(ops, e)
<1>1. PICK d : d = e - 1
  OBVIOUS
<1>2. /\ page' \in [Editors -> Pages] /\ page[e].phase = "away"
      /\ d \in Editors /\ page[d].phase = "open"
      /\ page'[d] = Gone(page[d])
      /\ \A f \in Editors \ {e, d} : page'[f] = page[f]
      /\ Renders(e, AgainPage(page[d]), ops)
      /\ query' \in Entries /\ query' # None
  BY <1>1, ReopenFacts
<1>3. d < e /\ d # e /\ page[d] \in Pages /\ ops \in Seq(Operations)
  BY <1>1, <1>2, EditorAssumption DEF Editors, TypeInv, PageType, QueueType
<1>4. PICK p : p = AgainPage(page[d])
  OBVIOUS
<1>5. /\ p \in Pages /\ p.phase = "gate" /\ p.answer = page[d].answer
      /\ p.timer = FALSE /\ p.retired = FALSE /\ p.typed = FALSE
  BY <1>3, <1>4, AgainFacts
<1>6. p.answer \in Records => p.answer.by < e
  <2>1. p.answer \in Records => p.answer.by < d /\ p.answer.by \in Editors
    BY <1>2, <1>5 DEF AuxInv, FormsInv, FormInv, Records
  <2>2. QED
    BY <1>1, <1>2, <2>1, EditorAssumption DEF Editors
<1>7. ~Has(ops, Puts(e))
  BY <1>2, NothingQueued
<1>8. FormInv(e)' /\ Adds(ops, e)
  BY <1>2, <1>3, <1>4, <1>5, <1>6, <1>7, RendersForm
<1>9. page'[d].phase = "left" /\ page'[d].answer = Unread
  BY <1>2, <1>3, GoneFacts
<1>10. page'[e].phase \in {"gate", "open", "refused"}
  BY <1>2, <1>4, <1>5, RendersSummary
<1>11. Forward
  BY <1>2, <1>9, <1>10 DEF Forward
<1>12. record' = record /\ save' = save
  BY DEF Reopen
<1>13. OpsInv'
  BY <1>3, <1>8, <1>10, <1>11, OpsAdds DEF AuxInv
<1>14. RecordInv'
  BY <1>11, <1>12, RecordKept DEF AuxInv
<1>15. OrderInv'
  BY <1>3, <1>8, OrderAdds DEF AuxInv, OrderInv
<1>16. FormsInv'
  <2>1. FormInv(d)'
    BY <1>9, AbsenceAssumption DEF FormInv
  <2>2. ASSUME NEW f \in Editors \ {d, e} PROVE FormInv(f)'
    <3>1. page'[f] = page[f] /\ FormInv(f)
      BY <1>2 DEF AuxInv, FormsInv
    <3>2. Has(ops', Puts(f)) => Has(ops, Puts(f))
      BY <1>3, <1>8, AddsFacts
    <3>3. QED
      BY <1>12, <3>1, <3>2 DEF FormInv
  <2>3. QED
    BY <1>8, <2>1, <2>2 DEF FormsInv
<1>17. QED
  BY <1>8, <1>13, <1>14, <1>15, <1>16 DEF AuxInv

\* Page e has gone for good and the queue is as it was or ends with a deletion of e.
LEMMA GoneAux ==
    ASSUME TypeInv, AuxInv, NEW e \in Editors, Others(e), page'[e].phase = "left",
           page'[e].answer = Unread, page[e].phase \notin {"away"},
           page[e].phase = "gate" => ops' = ops,
           ops' = ops \/ ops' = Append(ops, Delete(e, e)), record' = record,
           \A f \in Editors \ {e} : save'[f] = save[f]
    PROVE  AuxInv'
<1>1. ops \in Seq(Operations) /\ e \in 0..MaxEditors
  BY EditorAssumption DEF TypeInv, QueueType, Editors
<1>2. Forward
  BY ForwardOne
<1>3. FormInv(e)'
  BY AbsenceAssumption DEF FormInv
<1>4. PICK d \in Operations : d = Delete(e, e) /\ d.op = "delete" /\ d.by = e /\ d.upto = e
  BY <1>1, OperationsMade
<1>5. d \notin AllPuts /\ \A f \in Editors : d \notin Puts(f)
  BY <1>4, OperationFacts
<1>6. /\ \A o \in ToSet(ops') : o \in ToSet(ops) \/ OpOk(o)'
      /\ \A f \in Editors : Has(ops', Puts(f)) => Has(ops, Puts(f))
  <2>1. CASE ops' = ops
    BY <2>1
  <2>2. CASE ops' = Append(ops, d) /\ page'[e].phase # "gate"
    <3>1. e <= e
      BY EditorAssumption DEF Editors
    <3>2. OpOk(d)'
      BY <1>4, <2>2, <3>1 DEF OpOk
    <3>3. QED
      BY <1>1, <1>5, <2>2, <3>2, ToSetFacts, AppendHas
  <2>3. QED
    BY <1>4, <2>1, <2>2
<1>7. OrderInv'
  <2>1. ASSUME NEW f \in Editors, NEW g \in Editors, g < f PROVE NeverAfter(ops', Puts(f), Puts(g))
    <3>1. NeverAfter(ops, Puts(f), Puts(g))
      BY <2>1 DEF AuxInv, OrderInv
    <3>2. NeverAfter(Append(ops, d), Puts(f), Puts(g))
      BY <1>1, <1>5, <3>1, AppendNeverAfter
    <3>3. QED
      BY <1>4, <3>1, <3>2
  <2>2. QED
    BY <2>1 DEF OrderInv
<1>8. OpsInv' /\ RecordInv' /\ FormsInv'
  BY <1>2, <1>3, <1>6, OpsKept, RecordKept, FormsKept DEF AuxInv
<1>9. QED
  BY <1>7, <1>8 DEF AuxInv

\* A page that shows the outcome of an operation of its own, which has been taken.
LEMMA ShowsAux ==
    ASSUME TypeInv, AuxInv, NEW e \in Editors, page' = page \/ \E t : Shows(e, t),
           save' = save, ops # <<>>, ops' = Tail(ops),
           \/ record' = record \/ record' = None
           \/ Head(ops).op = "put" /\ record' = Head(ops).record
    PROVE  AuxInv'
<1>1. /\ Tail(ops) \in Seq(Operations) /\ ToSet(Tail(ops)) \subseteq ToSet(ops)
      /\ \A f \in Editors : Has(Tail(ops), Puts(f)) => Has(ops, Puts(f))
      /\ \A f, g \in Editors : g < f => NeverAfter(Tail(ops), Puts(f), Puts(g))
      /\ Head(ops) \in Operations /\ Head(ops).by \in Editors /\ OpOk(Head(ops))
  BY TailKeeps
<1>2. \A f \in Editors : SameView(page[f], page'[f]) /\ SameForm(page[f], page'[f])
        /\ page'[f].timer = page[f].timer /\ page'[f].retired = page[f].retired
        /\ page'[f].typed = page[f].typed
  BY DEF Shows, OnlyStatus, Others, SameView, SameForm
<1>3. Forward
  BY <1>2 DEF Forward, SameView
<1>4. OpsInv'
  BY <1>1, <1>3, OpsKept DEF AuxInv
<1>5. RecordInv'
  <2>1. CASE record' = record \/ record' = None
    BY <1>3, <2>1, RecordKept DEF AuxInv
  <2>2. CASE Head(ops).op = "put" /\ record' = Head(ops).record
    <3>1. record'.by = Head(ops).by
      BY <1>1, <2>2, OperationFacts
    <3>2. page[Head(ops).by].phase \notin {"away", "gate"}
      BY <1>1, <2>2 DEF OpOk
    <3>3. QED
      BY <1>1, <1>3, <3>1, <3>2 DEF RecordInv, Forward
  <2>3. QED
    BY <2>1, <2>2
<1>6. OrderInv'
  BY <1>1 DEF OrderInv
<1>7. FormsInv'
  <2>1. SUFFICES ASSUME NEW f \in Editors PROVE FormInv(f)'
    BY DEF FormsInv
  <2>2. FormInv(f)
    BY DEF AuxInv, FormsInv
  <2>3. QED
    BY <1>1, <1>2, <2>2 DEF FormInv, SameView, SameForm
<1>8. QED
  BY <1>4, <1>5, <1>6, <1>7 DEF AuxInv

LEMMA FlushAux ==
    ASSUME TypeInv, AuxInv, NEW e \in Editors, Flushes(e), record' = record, save' = save
    PROVE  AuxInv'
<1>1. /\ ops \in Seq(Operations) /\ Others(e) /\ page[e].phase = "open" /\ page'[e].phase = "open"
      /\ page'[e].answer = page[e].answer /\ page'[e].doc = page[e].doc
      /\ page'[e].dirty = page[e].dirty /\ page'[e].retired = page[e].retired
      /\ page'[e].timer = FALSE
  BY DEF Flushes, SameView, SameForm, TypeInv, QueueType
<1>2. Forward
  BY <1>1, ForwardOne
<1>3. RecordInv'
  BY <1>2, RecordKept DEF AuxInv
<1>4. FormInv(e)
  BY DEF AuxInv, FormsInv
<1>5. CASE ops' = ops
  <2>1. FormInv(e)'
    BY <1>1, <1>4, <1>5 DEF FormInv
  <2>2. OpsInv' /\ OrderInv' /\ FormsInv'
    BY <1>1, <1>2, <1>5, <2>1, OpsKept, FormsKept DEF AuxInv, OrderInv
  <2>3. QED
    BY <1>3, <2>2 DEF AuxInv
<1>6. CASE Storable(page[e].doc) /\ \E o \in Puts(e) : ops' = Append(ops, o)
  <2>1. PICK o \in Puts(e) : ops' = Append(ops, o)
    BY <1>6
  <2>2. o \in Operations /\ o.op = "put" /\ o.by = e /\ \A f \in Editors \ {e} : o \notin Puts(f)
    BY DEF Operations, AllPuts, Puts
  <2>3. OpsInv'
    <3>1. OpOk(o)'
      BY <1>1, <2>2 DEF OpOk
    <3>2. \A x \in ToSet(ops') : x \in ToSet(ops) \/ x = o
      BY <1>1, <2>1, <2>2, ToSetFacts
    <3>3. QED
      BY <1>2, <3>1, <3>2, OpsKept DEF AuxInv
  <2>4. OrderInv'
    <3>1. SUFFICES ASSUME NEW f \in Editors, NEW g \in Editors, g < f
                   PROVE  NeverAfter(ops', Puts(f), Puts(g))
      BY DEF OrderInv
    <3>2. NeverAfter(ops, Puts(f), Puts(g))
      BY <3>1 DEF AuxInv, OrderInv
    <3>3. CASE g # e
      BY <1>1, <2>1, <2>2, <3>2, <3>3, AppendNeverAfter
    <3>4. CASE g = e
      <4>1. page[f].phase = "away"
        BY <1>1, <3>1, <3>4 DEF TypeInv, OnePage
      <4>2. ~Has(ops, Puts(f))
        BY <4>1, NothingQueued
      <4>3. QED
        BY <1>1, <2>1, <2>2, <3>2, <4>2, AppendNeverAfter
    <3>5. QED
      BY <3>3, <3>4
  <2>5. FormInv(e)'
    BY <1>1, <1>4, <1>6 DEF FormInv
  <2>6. \A f \in Editors \ {e} : Has(ops', Puts(f)) => Has(ops, Puts(f))
    BY <1>1, <2>1, <2>2, AppendHas
  <2>7. FormsInv'
    BY <1>1, <2>5, <2>6, FormsKept DEF AuxInv
  <2>8. QED
    BY <1>3, <2>3, <2>4, <2>7 DEF AuxInv
<1>7. QED
  BY <1>5, <1>6 DEF Flushes

LEMMA AuxNext == TypeInv /\ AuxInv /\ [Next]_vars => AuxInv'
<1>1. SUFFICES ASSUME TypeInv, AuxInv, [Next]_vars PROVE AuxInv'
  OBVIOUS
<1>2. /\ ops \in Seq(Operations) /\ page \in [Editors -> Pages]
      /\ FormsInv /\ OpsInv /\ RecordInv /\ OrderInv
  BY <1>1 DEF TypeInv, QueueType, PageType, AuxInv
<1>3. ASSUME NEW e \in Editors, Open(e) PROVE AuxInv'
  <2>1. /\ Beside(e) /\ page[e].phase = "away" /\ Renders(e, GatePage, ops')
        /\ ops' = IF Enabled(query) THEN Append(ops, Read(e)) ELSE ops
    BY <1>1, <1>3, OpenFacts
  <2>2. save' = save /\ record' = record
    BY <1>3 DEF Open
  <2>3. PICK o \in Operations : o = Read(e) /\ o.op = "read" /\ o.by = e
    BY OperationsMade
  <2>4. ops' \in Seq(Operations) /\ page'[e].phase \in {"gate", "open", "refused"}
    BY <2>1, RendersSummary, GateFacts
  <2>5. PICK s \in Seq(Operations) : s = ops'
    BY <2>4
  <2>6. Forward
    BY <1>1, <2>1, <2>4, ForwardOne
  <2>7. \A f \in Editors : o \notin Puts(f)
    BY <2>3, OperationFacts
  <2>8. \A f \in Editors : Has(ops', Puts(f)) => Has(ops, Puts(f))
    BY <1>2, <2>1, <2>3, <2>7, AppendHas
  <2>9. FormInv(e)'
    <3>1. ~Has(s, Puts(e))
      BY <1>1, <2>1, <2>5, <2>8, NothingQueued
    <3>2. Renders(e, GatePage, s)
      BY <2>1, <2>5
    <3>3. GatePage.answer \notin Records
      BY GateFacts, AbsenceAssumption
    <3>4. QED
      BY <3>1, <3>2, <3>3, GateFacts, RendersForm
  <2>10. OpsInv'
    <3>1. \A x \in ToSet(ops') : x \in ToSet(ops) \/ x = o
      BY <1>2, <2>1, <2>3, ToSetFacts
    <3>2. OpOk(o)'
      BY <2>3, <2>4 DEF OpOk
    <3>3. QED
      BY <1>1, <1>2, <2>6, <3>1, <3>2, OpsKept
  <2>11. OrderInv'
    <3>1. SUFFICES ASSUME NEW f \in Editors, NEW g \in Editors, g < f
                   PROVE  NeverAfter(ops', Puts(f), Puts(g))
      BY DEF OrderInv
    <3>2. NeverAfter(ops, Puts(f), Puts(g))
      BY <1>2, <3>1 DEF OrderInv
    <3>3. NeverAfter(Append(ops, o), Puts(f), Puts(g))
      BY <1>2, <2>7, <3>2, AppendNeverAfter
    <3>4. QED
      BY <2>1, <2>3, <3>2, <3>3
  <2>12. RecordInv' /\ FormsInv'
    BY <1>1, <1>2, <2>1, <2>2, <2>6, <2>8, <2>9, RecordKept, FormsKept
  <2>13. QED
    BY <2>10, <2>11, <2>12 DEF AuxInv
<1>4. ASSUME NEW e \in Editors, Refetch(e) \/ MediaAnswers(e) \/ Recover(e) \/ DiscardDraft(e)
      PROVE  AuxInv'
  <2>1. Rerenders(e)
    BY <1>1, <1>4, RefetchFacts, MediaFacts, RecoverFacts, DiscardFacts
  <2>2. query' = query \/ query' \in Entries
    BY <1>1, <1>4, RefetchFacts DEF MediaAnswers, Recover, DiscardDraft
  <2>3. record' = record /\ save' = save
    BY <1>4 DEF Refetch, MediaAnswers, Recover, DiscardDraft
  <2>4. QED
    BY <1>1, <2>1, <2>2, <2>3, RerendersAux
<1>5. ASSUME NEW e \in Editors, Reopen(e) PROVE AuxInv'
  BY <1>1, <1>5, ReopenAux
<1>6. ASSUME NEW e \in Editors, Edits(e) PROVE AuxInv'
  <2>1. /\ Others(e) /\ page[e].phase = "open" /\ SameView(page[e], page'[e])
        /\ ~page'[e].retired
    BY <1>1, <1>6, EditFacts
  <2>2. record' = record /\ save' = save /\ ops' = ops
    BY <1>1, <1>6, EditFacts
  <2>3. page'[e].phase = "open" /\ page'[e].answer = page[e].answer
    BY <2>1 DEF SameView
  <2>4. Forward
    BY <1>1, <2>1, <2>3, ForwardOne
  <2>5. FormInv(e)'
    <3>1. FormInv(e)
      BY <1>2 DEF FormsInv
    <3>2. QED
      BY <2>1, <2>2, <2>3, <3>1 DEF FormInv
  <2>6. OpsInv' /\ RecordInv' /\ OrderInv' /\ FormsInv'
    BY <1>1, <1>2, <2>1, <2>2, <2>4, <2>5, OpsKept, RecordKept, FormsKept DEF OrderInv
  <2>7. QED
    BY <2>6 DEF AuxInv
<1>7. ASSUME NEW e \in Editors, TimerFires(e) \/ Hide(e) PROVE AuxInv'
  <2>1. Flushes(e)
    BY <1>1, <1>7, FlushFacts DEF TimerFires, Hide
  <2>2. record' = record /\ save' = save
    BY <1>7 DEF TimerFires, Hide, Flushed
  <2>3. QED
    BY <1>1, <2>1, <2>2, FlushAux
<1>8. ASSUME NEW e \in Editors, Leave(e) PROVE AuxInv'
  <2>1. /\ GoneFrom(e, page[e]) /\ page[e].phase \in {"gate", "open", "refused"}
        /\ \A f \in Editors \ {e} : save'[f] = save[f]
    BY <1>1, <1>8, LeaveFacts
  <2>2. page'[e].phase = "left" /\ page'[e].answer = Unread
    BY <1>2, <2>1, LeftFacts DEF GoneFrom
  <2>3. record' = record /\ ops' = ops
    BY <1>8 DEF Leave
  <2>4. QED
    BY <1>1, <2>1, <2>2, <2>3, GoneAux DEF GoneFrom
<1>9. ASSUME NEW e \in Editors, Cancel(e) PROVE AuxInv'
  <2>1. /\ GoneFrom(e, Removed(page[e])) /\ page[e].phase = "open"
        /\ page'[e].phase = "left" /\ page'[e].answer = Unread
        /\ ops' = Append(ops, Delete(e, e))
    BY <1>1, <1>9, CancelFacts
  <2>2. record' = record /\ save' = save
    BY <1>9 DEF Cancel
  <2>3. QED
    BY <1>1, <2>1, <2>2, GoneAux DEF GoneFrom
<1>10. ASSUME NEW e \in Editors, SaveSucceeds(e) PROVE AuxInv'
  <2>1. /\ Others(e) /\ page[e].phase \notin {"away", "gate"}
        /\ ops' = Append(ops, Delete(e, e)) /\ \A f \in Editors \ {e} : save'[f] = save[f]
        /\ page'[e].timer = FALSE
    BY <1>1, <1>10, SucceedsFacts
  <2>2. record' = record
    BY <1>10 DEF SaveSucceeds
  <2>3. CASE page'[e].phase = "left" /\ page'[e].answer = Unread
    BY <1>1, <2>1, <2>2, <2>3, GoneAux
  <2>4. CASE /\ page[e].phase = "open" /\ SameView(page[e], page'[e])
             /\ SameForm(page[e], page'[e]) /\ save'[e].stage = "closing"
    <3>1. /\ page'[e].phase = "open" /\ page'[e].answer = page[e].answer
          /\ page'[e].doc = page[e].doc
      BY <2>4 DEF SameView, SameForm
    <3>2. Forward
      BY <1>1, <2>1, <2>4, <3>1, ForwardOne
    <3>3. e \in 0..MaxEditors /\ e <= e
      BY EditorAssumption DEF Editors
    <3>4. PICK d \in Operations : d = Delete(e, e) /\ d.op = "delete" /\ d.by = e /\ d.upto = e
      BY <3>3, OperationsMade
    <3>5. \A f \in Editors : d \notin Puts(f)
      BY <3>4, OperationFacts
    <3>6. \A f \in Editors : Has(ops', Puts(f)) => Has(ops, Puts(f))
      BY <1>2, <2>1, <3>4, <3>5, AppendHas
    <3>7. OpsInv'
      <4>1. \A x \in ToSet(ops') : x \in ToSet(ops) \/ x = d
        BY <1>2, <2>1, <3>4, ToSetFacts
      <4>2. OpOk(d)'
        BY <3>1, <3>3, <3>4 DEF OpOk
      <4>3. QED
        BY <1>1, <1>2, <3>2, <4>1, <4>2, OpsKept
    <3>8. OrderInv'
      <4>1. SUFFICES ASSUME NEW f \in Editors, NEW g \in Editors, g < f
                     PROVE  NeverAfter(ops', Puts(f), Puts(g))
        BY DEF OrderInv
      <4>2. NeverAfter(ops, Puts(f), Puts(g))
        BY <1>2, <4>1 DEF OrderInv
      <4>3. QED
        BY <1>2, <2>1, <3>4, <3>5, <4>2, AppendNeverAfter
    <3>9. FormInv(e)'
      <4>1. FormInv(e)
        BY <1>2 DEF FormsInv
      <4>2. QED
        BY <2>1, <2>4, <3>1, <3>6, <4>1 DEF FormInv
    <3>10. RecordInv' /\ FormsInv'
      BY <1>1, <1>2, <2>1, <2>2, <3>2, <3>6, <3>9, RecordKept, FormsKept
    <3>11. QED
      BY <3>7, <3>8, <3>10 DEF AuxInv
  <2>5. QED
    BY <1>1, <1>10, <2>3, <2>4, SucceedsFacts
<1>11. ASSUME NEW e \in Editors, Crash(e) PROVE AuxInv'
  <2>1. /\ Others(e) /\ page[e].phase \in {"gate", "open", "refused"}
        /\ page'[e].phase = "crashed" /\ page'[e].timer = FALSE /\ page'[e].answer = Unread
        /\ ops' = <<>>
    BY <1>1, <1>11, CrashFacts
  <2>2. Forward
    BY <1>1, <2>1, ForwardOne
  <2>3. RecordInv'
    BY <1>1, <1>2, <1>11, <2>2, RecordKept DEF Crash
  <2>4. OrderInv'
    BY <2>1, EmptyFacts DEF OrderInv
  <2>5. OpsInv'
    BY <2>1 DEF OpsInv, ToSet
  <2>6. FormsInv'
    <3>1. \A f \in Editors : page'[f].phase # "open"
      BY <1>1, <2>1, EditorAssumption DEF TypeInv, OnePage, Others, Editors
    <3>2. \A f \in Editors \ {e} : page'[f] = page[f] /\ FormInv(f)
      BY <1>2, <2>1 DEF Others, FormsInv
    <3>3. QED
      BY <2>1, <3>1, <3>2, AbsenceAssumption DEF FormsInv, FormInv
  <2>7. QED
    BY <2>3, <2>4, <2>5, <2>6 DEF AuxInv
<1>12. ASSUME NEW e \in Editors, Save(e) \/ ServerDecides(e) PROVE AuxInv'
  <2>1. /\ \A f \in Editors \ {e} : save'[f] = save[f]
        /\ save[e].stage \in {"none", "sent"}
    BY <1>1, <1>12, SaveFacts
  <2>2. page' = page /\ ops' = ops /\ record' = record
    BY <1>12 DEF Save, ServerDecides
  <2>3. OpsInv' /\ RecordInv' /\ OrderInv'
    BY <1>2, <2>2 DEF OpsInv, OpOk, RecordInv, OrderInv
  <2>4. FormsInv'
    <3>1. \A f \in Editors : FormInv(f)
      BY <1>2 DEF FormsInv
    <3>2. QED
      BY <2>1, <2>2, <3>1 DEF FormsInv, FormInv
  <2>5. QED
    BY <2>3, <2>4 DEF AuxInv
<1>13. ASSUME NEW e \in Editors, SaveFails(e) PROVE AuxInv'
  <2>1. /\ Others(e) /\ OnlyStatus(page[e], page'[e])
        /\ \A f \in Editors \ {e} : save'[f] = save[f]
        /\ save[e].stage # "closing"
    BY <1>1, <1>13, FailsFacts
  <2>2. ops' = ops /\ record' = record
    BY <1>13 DEF SaveFails
  <2>3. Forward
    BY <1>1, <2>1, ForwardOne DEF OnlyStatus, SameView
  <2>4. FormInv(e)'
    <3>1. FormInv(e)
      BY <1>2 DEF FormsInv
    <3>2. QED
      BY <2>1, <2>2, <3>1 DEF FormInv, OnlyStatus, SameView, SameForm
  <2>5. OpsInv' /\ RecordInv' /\ OrderInv' /\ FormsInv'
    BY <1>1, <1>2, <2>1, <2>2, <2>3, <2>4, OpsKept, RecordKept, FormsKept DEF OrderInv
  <2>6. QED
    BY <2>5 DEF AuxInv
<1>14. CASE SavedElsewhere
  <2>1. page' = page /\ ops' = ops /\ record' = record /\ save' = save
    BY <1>14 DEF SavedElsewhere
  <2>2. QED
    BY <1>2, <2>1 DEF AuxInv, OpsInv, OpOk, RecordInv, OrderInv, FormsInv, FormInv
<1>15. CASE StorageRuns \/ StorageFails
  <2>1. PICK o \in Operations : ops # <<>> /\ o = Head(ops) /\ (Runs(o) \/ Fails(o))
    BY <1>1, <1>15, StorageFacts
  <2>2. o.by \in Editors /\ query' = query /\ save' = save
    BY <1>1, <1>15, <2>1, StorageFacts, OperationFacts
  <2>3. CASE record' = record /\ \E found \in {record, None} : Answers(o.by, found)
    BY <1>1, <2>1, <2>2, <2>3, AnswersAux
  <2>4. CASE /\ ops' = Tail(ops) /\ (page' = page \/ \E t : Shows(o.by, t))
             /\ \/ record' = record \/ record' = None
                \/ o.op = "put" /\ record' = o.record
    BY <1>1, <2>1, <2>2, <2>4, ShowsAux
  <2>5. QED
    BY <2>1, <2>3, <2>4 DEF Runs, Fails
<1>16. CASE UNCHANGED vars
  <2>1. page' = page /\ ops' = ops /\ record' = record /\ save' = save
    BY <1>16 DEF vars
  <2>2. QED
    BY <1>2, <2>1 DEF AuxInv, OpsInv, OpOk, RecordInv, OrderInv, FormsInv, FormInv
<1>17. QED
  BY <1>1, <1>3, <1>4, <1>5, <1>6, <1>7, <1>8, <1>9, <1>10, <1>11, <1>12, <1>13, <1>14, <1>15,
     <1>16 DEF Next, Edits

-----------------------------------------------------------------------------
(* What is shown as saved is stored, and what was typed outlives its form.    *)
(* Of the last form: no deletion that is queued decides about what it wrote;  *)
(* behind every write of it with other words there is a further one; and when *)
(* none is left, the record has its words.                                    *)

Latest(e) ==
    /\ page[e].phase \in {"open", "refused", "left"}
    /\ \A f \in Editors : e < f => page[f].phase = "away"
Holds(e) == record # None /\ record.by = e /\ record.doc = page[e].doc
ShownSaved(e) == page[e].phase = "open" /\ page[e].status = "saved"

\* A document that is to be kept, and its last write has been taken.
Kept(e) ==
    /\ Storable(page[e].doc) /\ ~page[e].timer
    /\ IF page[e].phase = "left" THEN page[e].typed ELSE page[e].dirty

\* Writes of e with words other than those of its form.
Stale(e) == {o \in Puts(e) : o.record.doc # page[e].doc}

Undecided(e) == \A o \in ToSet(ops) : o.op = "delete" => o.upto < e
StoredForm(e) ==
    /\ Undecided(e)
    /\ Kept(e) =>
         /\ Followed(ops, Stale(e), Puts(e))
         /\ (ShownSaved(e) \/ page[e].typed) /\ ~Has(ops, Puts(e)) =>
              /\ ~Has(ops, AllPuts)
              /\ ShownSaved(e) \/ ~failed => taken \/ Holds(e)

StoredInv == \A e \in Editors : Latest(e) /\ ~page[e].retired => StoredForm(e)

LEMMA StoredInit == Init => StoredInv
<1>1. Closed.phase = "away"
  BY DEF Closed
<1>2. Init => \A e \in Editors : page[e].phase = "away"
  BY <1>1 DEF Init
<1>3. QED
  BY <1>2 DEF StoredInv, Latest

\* The last form is the one that is there, or the last that was.
LEMMA StoredOne ==
    ASSUME TypeInv, NEW e \in Editors, Others(e) \/ Beside(e), page'[e].phase # "away",
           page[e].phase \notin {"left", "crashed"},
           Latest(e)' /\ ~page'[e].retired => StoredForm(e)'
    PROVE  StoredInv'
<1>1. SUFFICES ASSUME NEW f \in Editors, f # e, Latest(f)' PROVE FALSE
  BY DEF StoredInv
<1>2. ~(f < e)
  BY <1>1 DEF Latest
<1>3. e < f
  BY <1>1, <1>2, EditorAssumption DEF Editors
<1>4. page[f].phase = "away" /\ page'[f].phase = page[f].phase
  BY <1>1, <1>3, BesideFacts DEF TypeInv, OnePage
<1>5. QED
  BY <1>1, <1>4 DEF Latest

LEMMA EarlierDeletes ==
    ASSUME TypeInv, AuxInv, NEW e \in Editors, page[e].phase \in {"away", "gate"}
    PROVE  Undecided(e)
<1>1. SUFFICES ASSUME NEW o \in ToSet(ops), o.op = "delete" PROVE o.upto < e
  BY DEF Undecided
<1>2. o \in Operations
  BY ToSetFacts DEF TypeInv, QueueType
<1>3. o.by \in Editors /\ o.upto \in 0..MaxEditors
  BY <1>1, <1>2, OperationFacts
<1>4. /\ page[o.by].phase # "away" /\ o.upto <= o.by
      /\ page[o.by].phase = "gate" => o.upto < o.by
  BY <1>1 DEF AuxInv, OpsInv, OpOk
<1>5. ~(e < o.by)
  BY <1>3, <1>4 DEF TypeInv, OnePage
<1>6. o.by = e => o.upto < o.by
  BY <1>4
<1>7. QED
  BY <1>3, <1>4, <1>5, <1>6, EditorAssumption DEF Editors

\* A form nobody has typed in yet.
LEMMA StoredFresh ==
    ASSUME NEW e \in Editors, Undecided(e)', ~Has(ops', Puts(e)),
           page'[e].status # "saved", ~page'[e].typed
    PROVE  StoredForm(e)'
<1>1. Followed(ops', Stale(e)', Puts(e))
  BY DEF Followed, Stale, Has
<1>2. ~ShownSaved(e)'
  BY DEF ShownSaved
<1>3. QED
  BY <1>1, <1>2 DEF StoredForm

\* The form is what it was and so are the writes in the queue.
LEMMA StoredCarries ==
    ASSUME NEW e \in Editors, StoredForm(e), Undecided(e)', page'[e].doc = page[e].doc,
           Kept(e)' => Kept(e), ShownSaved(e)' => ShownSaved(e),
           page'[e].typed => page[e].typed,
           Followed(ops, Stale(e), Puts(e)) => Followed(ops', Stale(e), Puts(e)),
           Has(ops, Puts(e)) => Has(ops', Puts(e)), Has(ops', AllPuts) => Has(ops, AllPuts),
           ~failed' => ~failed, taken \/ Holds(e) => taken' \/ Holds(e)'
    PROVE  StoredForm(e)'
<1>1. Stale(e)' = Stale(e)
  BY DEF Stale
<1>2. QED
  BY <1>1 DEF StoredForm

LEMMA SomePut == \A s : Has(s, AllPuts) <=> \E e \in Editors : Has(s, Puts(e))
BY DEF Has, AllPuts

LEMMA UndecidedAdds ==
    ASSUME NEW e \in Editors, NEW s \in Seq(Operations), Adds(s, e),
           \A o \in ToSet(s) : o.op = "delete" => o.upto < e
    PROVE  Undecided(e)'
<1>1. \A o \in ToSet(ops') :
          o \in ToSet(s) \/ (o \in Operations /\ o.op = "delete" /\ o.by = e /\ o.upto < e)
  BY AddsFacts
<1>2. QED
  BY <1>1 DEF Undecided

LEMMA RerendersStored ==
    ASSUME TypeInv, AuxInv, SavingInv, StoredInv, NEW e \in Editors, Rerenders(e), Adds(ops, e),
           record' = record, taken' = taken, failed' = failed
    PROVE  StoredInv'
<1>1. /\ page' \in [Editors -> Pages] /\ Others(e) /\ page[e].phase \in {"gate", "open"}
      /\ ops \in Seq(Operations) /\ FormInv(e)
  BY DEF Rerenders, TypeInv, QueueType, AuxInv, FormsInv
<1>2. PICK p \in Pages, s \in Seq(Operations) : Renders(e, p, s) /\ Continues(page[e], p)
  BY DEF Rerenders
<1>3. /\ p.phase = page[e].phase /\ p.timer = page[e].timer /\ p.retired = page[e].retired
      /\ p.typed = page[e].typed /\ p.doc = page[e].doc /\ p.status = page[e].status
      /\ p.dirty = page[e].dirty
  BY <1>2 DEF Continues, SameForm
<1>4. /\ page'[e].status = p.status /\ page'[e].timer = p.timer
      /\ page'[e].retired = p.retired /\ page'[e].typed = p.typed
      /\ page'[e].phase \in {p.phase, "refused"} => SameForm(p, page'[e])
      /\ \/ page'[e].phase = p.phase
         \/ page'[e].phase = "refused"
         \/ p.phase = "gate" /\ page'[e].phase = "open"
  BY <1>1, <1>2, <1>3, RendersSummary
<1>5. page'[e].phase # "away"
  BY <1>1, <1>3, <1>4
<1>6. \A f \in Editors : Has(ops', Puts(f)) <=> Has(ops, Puts(f))
  BY <1>1, AddsFacts
<1>7. ASSUME page[e].phase = "gate" PROVE StoredForm(e)'
  <2>1. Undecided(e) /\ ~Has(ops, Puts(e))
    BY <1>7, EarlierDeletes, NothingQueued
  <2>2. Undecided(e)'
    BY <1>1, <2>1, UndecidedAdds DEF Undecided
  <2>3. page'[e].status # "saved"
    BY <1>3, <1>4, <1>7 DEF SavingInv, IdleGate
  <2>4. ~page'[e].typed
    BY <1>1, <1>3, <1>4, <1>7 DEF FormInv
  <2>5. QED
    BY <1>6, <2>1, <2>2, <2>3, <2>4, StoredFresh
<1>8. ASSUME page[e].phase = "open", ~page'[e].retired PROVE StoredForm(e)'
  <2>1. Latest(e)
    BY <1>1, <1>8 DEF Latest, TypeInv, OnePage
  <2>2. StoredForm(e)
    BY <1>3, <1>4, <1>8, <2>1 DEF StoredInv
  <2>3. Undecided(e)'
    BY <1>1, <2>2, UndecidedAdds DEF StoredForm, Undecided
  <2>4. /\ page'[e].phase \in {"open", "refused"} /\ page'[e].doc = page[e].doc
        /\ page'[e].dirty = page[e].dirty
    BY <1>3, <1>4, <1>8 DEF SameForm
  <2>5. Followed(ops, Stale(e), Puts(e)) => Followed(ops', Stale(e), Puts(e))
    <3>1. Stale(e) \in SUBSET AllPuts
      BY DEF Stale, AllPuts
    <3>2. QED
      BY <1>1, <3>1, AddsFacts
  <2>6. Has(ops', AllPuts) => Has(ops, AllPuts)
    BY <1>6, SomePut
  <2>7. (ShownSaved(e)' => ShownSaved(e)) /\ (Kept(e)' => Kept(e)) /\ (Holds(e) => Holds(e)')
    BY <1>3, <1>4, <1>8, <2>4 DEF ShownSaved, Kept, Holds
  <2>8. QED
    BY <1>3, <1>4, <1>6, <1>8, <2>2, <2>3, <2>4, <2>5, <2>6, <2>7, StoredCarries
<1>9. QED
  BY <1>1, <1>5, <1>7, <1>8, StoredOne

\* The last write of the last form is the last of all.
LEMMA NoLaterPuts ==
    ASSUME TypeInv, AuxInv, NEW e \in Editors, Latest(e), ops # <<>>, Head(ops) \in Puts(e),
           ~Has(Tail(ops), Puts(e))
    PROVE  ~Has(Tail(ops), AllPuts)
<1>1. SUFFICES ASSUME NEW g \in Editors, Has(Tail(ops), Puts(g)) PROVE FALSE
  BY SomePut
<1>2. ops \in Seq(Operations) /\ Has(ops, Puts(g)) /\ g # e
  BY <1>1, TailKeeps DEF TypeInv, QueueType
<1>3. page[g].phase # "away"
  BY <1>2, NothingQueued
<1>4. g < e
  BY <1>2, <1>3, EditorAssumption DEF Latest, Editors
<1>5. NeverAfter(ops, Puts(e), Puts(g))
  BY <1>4 DEF AuxInv, OrderInv
<1>6. QED
  BY <1>1, <1>2, <1>5, TailFacts

\* A write runs, or fails.
LEMMA PutStored ==
    ASSUME TypeInv, AuxInv, StoredInv, ops # <<>>, NEW o, o = Head(ops), o.op = "put",
           NEW t \in {"saved", "failed"}, Shows(o.by, t), ops' = Tail(ops),
           \/ t = "saved" /\ record' = o.record
           \/ t = "failed" /\ failed' = TRUE /\ record' = record /\ taken' = taken
    PROVE  StoredInv'
<1>1. /\ ops \in Seq(Operations) /\ o \in Operations /\ o.by \in Editors /\ o \in Puts(o.by)
      /\ Tail(ops) \in Seq(Operations) /\ ToSet(Tail(ops)) \subseteq ToSet(ops)
      /\ o.record \in Records /\ o.record.by = o.by
  BY TailKeeps, OperationFacts DEF TypeInv, QueueType
<1>2. \A f \in Editors :
        /\ page'[f].phase = page[f].phase /\ page'[f].doc = page[f].doc
        /\ page'[f].timer = page[f].timer /\ page'[f].retired = page[f].retired
        /\ page'[f].typed = page[f].typed /\ page'[f].dirty = page[f].dirty
        /\ f # o.by => page'[f].status = page[f].status
  BY DEF Shows, OnlyStatus, Others, SameView, SameForm
<1>3. page'[o.by].status = IF page[o.by].phase = "open" THEN t ELSE page[o.by].status
  BY DEF Shows
<1>4. SUFFICES ASSUME NEW e \in Editors, Latest(e)', ~page'[e].retired PROVE StoredForm(e)'
  BY DEF StoredInv
<1>5. Latest(e) /\ StoredForm(e)
  BY <1>2, <1>4 DEF StoredInv, Latest
<1>6. Undecided(e)'
  BY <1>1, <1>5 DEF StoredForm, Undecided
<1>7. Stale(e)' = Stale(e)
  BY <1>2 DEF Stale
<1>8. ASSUME Kept(e)'
      PROVE  /\ Followed(ops', Stale(e)', Puts(e))
             /\ (ShownSaved(e)' \/ page'[e].typed) /\ ~Has(ops', Puts(e)) =>
                  /\ ~Has(ops', AllPuts)
                  /\ ShownSaved(e)' \/ ~failed' => taken' \/ Holds(e)'
  <2>1. /\ Followed(ops, Stale(e), Puts(e))
        /\ (ShownSaved(e) \/ page[e].typed) /\ ~Has(ops, Puts(e))
             => ~Has(ops, AllPuts) /\ (ShownSaved(e) \/ ~failed => taken \/ Holds(e))
    BY <1>2, <1>5, <1>8 DEF StoredForm, Kept
  <2>2. /\ Followed(Tail(ops), Stale(e), Puts(e))
        /\ o \in Stale(e) => Has(Tail(ops), Puts(e))
    BY <1>1, <2>1, TailFacts
  <2>3. CASE o.by = e
    <3>1. SUFFICES ASSUME ~Has(Tail(ops), Puts(e))
                   PROVE  ~Has(Tail(ops), AllPuts) /\ (ShownSaved(e)' \/ ~failed' => Holds(e)')
      BY <1>7, <2>2
    <3>2. ~Has(Tail(ops), AllPuts)
      BY <1>1, <1>5, <2>3, <3>1, NoLaterPuts
    <3>3. CASE record' = o.record
      <4>1. o.record.doc = page[e].doc
        BY <1>1, <2>2, <2>3, <3>1 DEF Stale
      <4>2. o.record # None
        BY <1>1, AbsenceAssumption
      <4>3. QED
        BY <1>1, <1>2, <2>3, <3>2, <3>3, <4>1, <4>2 DEF Holds
    <3>4. CASE t = "failed" /\ failed' = TRUE
      <4>1. ~ShownSaved(e)'
        BY <1>2, <1>3, <2>3, <3>4 DEF ShownSaved
      <4>2. QED
        BY <3>2, <3>4, <4>1
    <3>5. QED
      BY <3>3, <3>4
  <2>4. CASE o.by # e
    <3>1. (ShownSaved(e)' => ShownSaved(e)) /\ (page'[e].typed => page[e].typed)
      BY <1>2, <2>4 DEF ShownSaved
    <3>2. o \notin Puts(e)
      BY <1>1, <2>4, OperationFacts
    <3>3. Has(ops, Puts(e)) => Has(Tail(ops), Puts(e))
      BY <1>1, <3>2, TailFacts
    <3>4. Has(ops, AllPuts)
      BY <1>1, TailFacts, SomePut
    <3>5. QED
      BY <1>7, <2>1, <2>2, <3>1, <3>3, <3>4
  <2>5. QED
    BY <2>3, <2>4
<1>9. QED
  BY <1>6, <1>8 DEF StoredForm

\* A deletion runs, or fails.
LEMMA DeleteStored ==
    ASSUME TypeInv, AuxInv, StoredInv, ops # <<>>, NEW o, o = Head(ops), o.op = "delete",
           page' = page \/ Shows(o.by, "idle"), ops' = Tail(ops),
           \/ /\ failed' = failed /\ taken' = (taken \/ (record # None /\ record.by > o.upto))
           \/ failed' = TRUE /\ record' = record /\ taken' = taken
    PROVE  StoredInv'
<1>1. /\ ops \in Seq(Operations) /\ o \in Operations /\ o.by \in Editors
      /\ o.upto \in 0..MaxEditors /\ o \in ToSet(ops)
      /\ Tail(ops) \in Seq(Operations) /\ ToSet(Tail(ops)) \subseteq ToSet(ops)
  BY TailKeeps, OperationFacts, ToSetFacts DEF TypeInv, QueueType
<1>2. \A f \in Editors :
        /\ page'[f].phase = page[f].phase /\ page'[f].doc = page[f].doc
        /\ page'[f].timer = page[f].timer /\ page'[f].retired = page[f].retired
        /\ page'[f].typed = page[f].typed /\ page'[f].dirty = page[f].dirty
        /\ page'[f].phase = "open" /\ page'[f].status = "saved" => page[f].status = "saved"
  BY DEF Shows, OnlyStatus, Others, SameView, SameForm
<1>3. SUFFICES ASSUME NEW e \in Editors, Latest(e)', ~page'[e].retired PROVE StoredForm(e)'
  BY DEF StoredInv
<1>4. Latest(e) /\ StoredForm(e)
  BY <1>2, <1>3 DEF StoredInv, Latest
<1>5. Undecided(e)' /\ o.upto < e
  BY <1>1, <1>4 DEF StoredForm, Undecided
<1>6. (ShownSaved(e)' => ShownSaved(e)) /\ (Kept(e)' => Kept(e))
  BY <1>2 DEF ShownSaved, Kept
<1>7. o \notin Puts(e) /\ o \notin AllPuts
  BY <1>1, OperationFacts
<1>8. /\ Followed(ops, Stale(e), Puts(e)) => Followed(ops', Stale(e), Puts(e))
      /\ Has(ops, Puts(e)) => Has(ops', Puts(e))
      /\ Has(ops', AllPuts) => Has(ops, AllPuts)
  BY <1>1, <1>7, TailFacts
<1>9. taken \/ Holds(e) => taken' \/ Holds(e)'
  <2>1. CASE taken' = (taken \/ (record # None /\ record.by > o.upto))
    <3>1. Holds(e) => record # None /\ record.by > o.upto
      BY <1>1, <1>5, EditorAssumption DEF Holds, Editors
    <3>2. QED
      BY <2>1, <3>1
  <2>2. CASE record' = record /\ taken' = taken
    BY <1>2, <2>2 DEF Holds
  <2>3. QED
    BY <2>1, <2>2
<1>10. ~failed' => ~failed
  OBVIOUS
<1>11. QED
  BY <1>2, <1>4, <1>5, <1>6, <1>8, <1>9, <1>10, StoredCarries

\* A read is answered.
LEMMA ReadStored ==
    ASSUME TypeInv, AuxInv, SavingInv, StoredInv, ops # <<>>, Head(ops).op = "read",
           NEW found \in {record, None}, Answers(Head(ops).by, found),
           query' = query, save' = save,
           record' = record, taken' = taken, failed' = failed \/ failed' = TRUE
    PROVE  StoredInv'
<1>1. PICK o \in Operations : o = Head(ops) /\ o.by \in Editors
  BY TailKeeps
<1>2. /\ ops \in Seq(Operations) /\ Tail(ops) \in Seq(Operations)
      /\ ToSet(Tail(ops)) \subseteq ToSet(ops)
      /\ \A f \in Editors : Has(Tail(ops), Puts(f)) => Has(ops, Puts(f))
  BY TailKeeps DEF TypeInv, QueueType
<1>3. Adds(Tail(ops), o.by)
  BY <1>1, AnswersAux
<1>4. o \notin AllPuts /\ \A f \in Editors : o \notin Puts(f)
  BY <1>1, OperationFacts
<1>5. ASSUME page' = page, ops' = Tail(ops) PROVE StoredInv'
  <2>1. SUFFICES ASSUME NEW e \in Editors, Latest(e), ~page[e].retired PROVE StoredForm(e)'
    BY <1>5 DEF StoredInv, Latest
  <2>2. StoredForm(e)
    BY <2>1 DEF StoredInv
  <2>3. Undecided(e)'
    BY <1>2, <1>5, <2>2 DEF StoredForm, Undecided
  <2>4. /\ Followed(ops, Stale(e), Puts(e)) => Followed(ops', Stale(e), Puts(e))
        /\ Has(ops, Puts(e)) => Has(ops', Puts(e))
        /\ Has(ops', AllPuts) => Has(ops, AllPuts)
    BY <1>1, <1>2, <1>4, <1>5, TailFacts
  <2>5. (ShownSaved(e)' => ShownSaved(e)) /\ (Kept(e)' => Kept(e)) /\ (Holds(e) => Holds(e)')
    BY <1>5 DEF ShownSaved, Kept, Holds
  <2>6. QED
    BY <1>5, <2>2, <2>3, <2>4, <2>5, StoredCarries
<1>6. ASSUME Others(o.by), page[o.by].phase = "gate", NEW p \in Pages,
             Renders(o.by, p, Tail(ops)), Continues(page[o.by], p)
      PROVE  StoredInv'
  <2>1. /\ p.phase = "gate" /\ p.status = page[o.by].status /\ p.typed = page[o.by].typed
    BY <1>6 DEF Continues
  <2>2. /\ page'[o.by].status = p.status /\ page'[o.by].typed = p.typed
        /\ page'[o.by].phase \in {"gate", "open", "refused"}
    BY <1>1, <1>6, <2>1, RendersSummary
  <2>3. page'[o.by].status # "saved" /\ ~page'[o.by].typed
    BY <1>1, <1>6, <2>1, <2>2 DEF SavingInv, IdleGate, AuxInv, FormsInv, FormInv
  <2>4. Undecided(o.by) /\ ~Has(ops, Puts(o.by))
    BY <1>1, <1>6, EarlierDeletes, NothingQueued
  <2>5. Undecided(o.by)'
    BY <1>1, <1>2, <1>3, <2>4, UndecidedAdds DEF Undecided
  <2>6. ~Has(ops', Puts(o.by))
    BY <1>1, <1>2, <1>3, <2>4, AddsFacts
  <2>7. StoredForm(o.by)'
    BY <1>1, <2>3, <2>5, <2>6, StoredFresh
  <2>8. QED
    BY <1>1, <1>6, <2>2, <2>7, StoredOne
<1>7. QED
  BY <1>1, <1>5, <1>6 DEF Answers

LEMMA OpenStored ==
    ASSUME TypeInv, AuxInv, NEW e \in Editors, Open(e)
    PROVE  StoredInv'
<1>1. /\ Beside(e) /\ page[e].phase = "away" /\ Renders(e, GatePage, ops')
      /\ ops' = IF Enabled(query) THEN Append(ops, Read(e)) ELSE ops
  BY OpenFacts
<1>2. /\ page'[e].phase \in {"gate", "open", "refused"}
      /\ page'[e].status = "idle" /\ page'[e].typed = FALSE
  BY <1>1, RendersSummary, GateFacts
<1>3. PICK o \in Operations : o = Read(e) /\ o.op = "read" /\ o.by = e
  BY OperationsMade
<1>4. o \notin Puts(e) /\ ops \in Seq(Operations)
  BY <1>3, OperationFacts DEF TypeInv, QueueType
<1>5. Undecided(e) /\ ~Has(ops, Puts(e))
  BY <1>1, EarlierDeletes, NothingQueued
<1>6. ~Has(ops', Puts(e))
  BY <1>1, <1>3, <1>4, <1>5, AppendHas
<1>7. Undecided(e)'
  <2>1. \A x \in ToSet(ops') : x \in ToSet(ops) \/ x = o
    BY <1>1, <1>3, <1>4, ToSetFacts
  <2>2. QED
    BY <1>3, <1>5, <2>1 DEF Undecided
<1>8. StoredForm(e)'
  BY <1>2, <1>6, <1>7, StoredFresh
<1>9. QED
  BY <1>1, <1>2, <1>8, StoredOne

LEMMA ReopenStored ==
    ASSUME TypeInv, AuxInv, NEW e \in Editors, Reopen(e)
    PROVE  StoredInv'
<1>1. PICK d : d = e - 1
  OBVIOUS
<1>2. /\ page[e].phase = "away" /\ d \in Editors /\ page[d] \in Pages
      /\ \A f \in Editors \ {e, d} : page'[f] = page[f]
      /\ Renders(e, AgainPage(page[d]), ops)
      /\ ops \in Seq(Operations)
  BY <1>1, ReopenFacts DEF TypeInv, PageType, QueueType
<1>3. PICK p : p = AgainPage(page[d])
  OBVIOUS
<1>4. p.phase = "gate" /\ p.status = "idle" /\ p.typed = FALSE
  BY <1>2, <1>3, AgainFacts
<1>5. /\ page'[e].phase \in {"gate", "open", "refused"}
      /\ page'[e].status = "idle" /\ page'[e].typed = FALSE
  BY <1>2, <1>3, <1>4, RendersSummary
<1>6. Adds(ops, e)
  BY ReopenAux
<1>7. Undecided(e) /\ ~Has(ops, Puts(e))
  BY <1>2, EarlierDeletes, NothingQueued
<1>8. Undecided(e)' /\ ~Has(ops', Puts(e))
  BY <1>2, <1>6, <1>7, UndecidedAdds, AddsFacts DEF Undecided
<1>9. StoredForm(e)'
  BY <1>5, <1>8, StoredFresh
<1>10. ASSUME NEW f \in Editors, f # e, Latest(f)' PROVE FALSE
  <2>1. e < f
    BY <1>5, <1>10, EditorAssumption DEF Latest, Editors
  <2>2. f # d
    BY <1>1, <2>1, EditorAssumption DEF Editors
  <2>3. page'[f] = page[f]
    BY <1>2, <1>10, <2>2
  <2>4. page[f].phase = "away"
    BY <1>2, <2>1 DEF TypeInv, OnePage
  <2>5. QED
    BY <1>10, <2>3, <2>4 DEF Latest
<1>11. QED
  BY <1>9, <1>10 DEF StoredInv

LEMMA FlushStored ==
    ASSUME TypeInv, AuxInv, StoredInv, NEW e \in Editors, Flushes(e),
           record' = record, taken' = taken, failed' = failed
    PROVE  StoredInv'
<1>1. /\ ops \in Seq(Operations) /\ Others(e) /\ page[e].phase = "open" /\ page'[e].phase = "open"
      /\ page'[e].doc = page[e].doc /\ page'[e].retired = page[e].retired
      /\ page'[e].typed = page[e].typed /\ page'[e].timer = FALSE
      /\ page'[e].dirty = page[e].dirty /\ FormInv(e)
  BY DEF Flushes, SameView, SameForm, TypeInv, QueueType, AuxInv, FormsInv
<1>2. SUFFICES ASSUME Latest(e)', ~page'[e].retired PROVE StoredForm(e)'
  BY <1>1, StoredOne
<1>3. Latest(e)
  BY <1>1 DEF Latest, TypeInv, OnePage
<1>4. StoredForm(e)
  BY <1>1, <1>2, <1>3 DEF StoredInv
<1>5. Stale(e)' = Stale(e)
  BY <1>1 DEF Stale
<1>6. CASE \E o \in Puts(e) : o.record.doc = page[e].doc /\ ops' = Append(ops, o)
  <2>1. PICK o \in Puts(e) : o.record.doc = page[e].doc /\ ops' = Append(ops, o)
    BY <1>6
  <2>2. o \in Operations /\ o.op = "put"
    BY DEF Operations, AllPuts, Puts
  <2>3. Undecided(e)'
    <3>1. \A x \in ToSet(ops') : x \in ToSet(ops) \/ x = o
      BY <1>1, <2>1, <2>2, ToSetFacts
    <3>2. QED
      BY <1>4, <2>2, <3>1 DEF StoredForm, Undecided
  <2>4. Followed(ops', Stale(e), Puts(e))
    <3>1. o \notin Stale(e)
      BY <2>1 DEF Stale
    <3>2. QED
      BY <1>1, <2>1, <2>2, <3>1, AppendFollowed
  <2>5. Has(ops', Puts(e))
    BY <1>1, <2>1, <2>2, AppendHas
  <2>6. QED
    BY <1>5, <2>3, <2>4, <2>5 DEF StoredForm
<1>7. CASE /\ Writes(page[e]) /\ ~Storable(page[e].doc) /\ page'[e].status = "unsupported"
           /\ ops' = ops
  <2>1. ~Kept(e)'
    BY <1>1, <1>7 DEF Kept
  <2>2. Undecided(e)'
    BY <1>4, <1>7 DEF StoredForm, Undecided
  <2>3. QED
    BY <2>1, <2>2 DEF StoredForm
<1>8. CASE ~Writes(page[e]) /\ page'[e].status = page[e].status /\ ops' = ops
  <2>1. ~Kept(e)'
    BY <1>1, <1>2, <1>8 DEF Writes, Kept
  <2>2. Undecided(e)'
    BY <1>4, <1>8 DEF StoredForm, Undecided
  <2>3. QED
    BY <2>1, <2>2 DEF StoredForm
<1>9. QED
  BY <1>6, <1>7, <1>8 DEF Flushes

LEMMA LeaveStored ==
    ASSUME TypeInv, AuxInv, StoredInv, NEW e \in Editors, Leave(e)
    PROVE  StoredInv'
<1>1. /\ page' \in [Editors -> Pages] /\ Others(e) /\ page'[e] = Left(page[e])
      /\ page[e].phase \in {"gate", "open", "refused"} /\ page[e] \in Pages /\ FormInv(e)
  BY LeaveFacts DEF GoneFrom, TypeInv, PageType, AuxInv, FormsInv
<1>2. ops' = ops /\ record' = record /\ taken' = taken /\ failed' = failed
  BY DEF Leave
<1>3. /\ page'[e].phase = "left" /\ page'[e].retired = page[e].retired
      /\ page'[e].typed = (page[e].typed /\ page[e].dirty /\ ~page[e].retired)
      /\ page[e].typed /\ page[e].dirty /\ ~page[e].retired
           => page'[e].doc = page[e].doc /\ page'[e].timer = page[e].timer
  BY <1>1, LeftFacts
<1>4. SUFFICES ASSUME ~page'[e].retired PROVE StoredForm(e)'
  BY <1>1, <1>3, StoredOne
<1>5. Undecided(e)'
  <2>1. CASE page[e].phase = "gate"
    BY <1>2, <2>1, EarlierDeletes DEF Undecided
  <2>2. CASE page[e].phase \in {"open", "refused"}
    <3>1. Latest(e)
      BY <2>2 DEF Latest, TypeInv, OnePage
    <3>2. StoredForm(e)
      BY <1>3, <1>4, <3>1 DEF StoredInv
    <3>3. QED
      BY <1>2, <3>2 DEF StoredForm, Undecided
  <2>3. QED
    BY <1>1, <2>1, <2>2
<1>6. CASE ~page[e].typed \/ ~page[e].dirty
  BY <1>3, <1>5, <1>6 DEF StoredForm, Kept
<1>7. CASE page[e].typed /\ page[e].dirty
  <2>1. page[e].phase \in {"open", "refused"}
    BY <1>1, <1>7 DEF FormInv
  <2>2. Latest(e)
    BY <2>1 DEF Latest, TypeInv, OnePage
  <2>3. StoredForm(e)
    BY <1>3, <1>4, <2>2 DEF StoredInv
  <2>4. page'[e].doc = page[e].doc /\ page'[e].timer = page[e].timer
    BY <1>3, <1>4, <1>7
  <2>5. (ShownSaved(e)' => ShownSaved(e)) /\ (Kept(e)' => Kept(e)) /\ (Holds(e) => Holds(e)')
    BY <1>2, <1>3, <1>7, <2>1, <2>4 DEF ShownSaved, Kept, Holds
  <2>6. QED
    BY <1>2, <1>3, <1>5, <1>7, <2>1, <2>3, <2>4, <2>5, StoredCarries
<1>8. QED
  BY <1>6, <1>7

LEMMA SucceedsStored ==
    ASSUME TypeInv, AuxInv, StoredInv, NEW d \in Editors, SaveSucceeds(d)
    PROVE  StoredInv'
<1>1. /\ Others(d) /\ page[d].phase \notin {"away", "gate"} /\ page'[d].retired
      /\ page'[d].phase # "away" /\ ops' = Append(ops, Delete(d, d))
      /\ ops \in Seq(Operations) /\ d \in 0..MaxEditors
  <2>1. SameView(page[d], page'[d]) => page'[d].phase = page[d].phase
    BY DEF SameView
  <2>2. ops \in Seq(Operations)
    BY DEF TypeInv, QueueType
  <2>3. d \in 0..MaxEditors
    BY EditorAssumption DEF Editors
  <2>4. QED
    BY <2>1, <2>2, <2>3, SucceedsFacts
<1>2. record' = record /\ taken' = taken /\ failed' = failed
  BY DEF SaveSucceeds
<1>3. SUFFICES ASSUME NEW e \in Editors, Latest(e)', ~page'[e].retired PROVE StoredForm(e)'
  BY DEF StoredInv
<1>4. e # d /\ page'[e] = page[e]
  BY <1>1, <1>3 DEF Others
<1>5. d < e
  BY <1>1, <1>3, <1>4, EditorAssumption DEF Latest, Editors
<1>6. Latest(e)
  BY <1>1, <1>3, <1>4, <1>5, EditorAssumption DEF Latest, Others, Editors
<1>7. StoredForm(e)
  BY <1>3, <1>4, <1>6 DEF StoredInv
<1>8. Undecided(e)'
  <2>1. PICK o \in Operations : o = Delete(d, d) /\ o.upto = d
    BY <1>1, OperationsMade
  <2>2. \A x \in ToSet(ops') : x \in ToSet(ops) \/ x = o
    BY <1>1, <2>1, ToSetFacts
  <2>3. QED
    BY <1>5, <1>7, <2>1, <2>2 DEF StoredForm, Undecided
<1>9. /\ Followed(ops, Stale(e), Puts(e)) => Followed(ops', Stale(e), Puts(e))
      /\ Has(ops, Puts(e)) => Has(ops', Puts(e))
      /\ Has(ops', AllPuts) => Has(ops, AllPuts)
  <2>1. Delete(d, d) \in Operations /\ Delete(d, d) \notin Puts(e) /\ Delete(d, d) \notin AllPuts
    BY <1>1, DeleteIsNoPut
  <2>2. Delete(d, d) \notin Stale(e)
    BY <2>1 DEF Stale
  <2>3. QED
    BY <1>1, <2>1, <2>2, AppendFollowed, AppendHas
<1>10. (ShownSaved(e)' => ShownSaved(e)) /\ (Kept(e)' => Kept(e)) /\ (Holds(e) => Holds(e)')
  BY <1>2, <1>4 DEF ShownSaved, Kept, Holds
<1>11. /\ page'[e].doc = page[e].doc /\ page'[e].phase = page[e].phase
       /\ page'[e].typed = page[e].typed
  BY <1>4
<1>12. taken \/ Holds(e) => taken' \/ Holds(e)'
  BY <1>2, <1>10
<1>13. QED
  BY <1>2, <1>3, <1>7, <1>8, <1>9, <1>10, <1>11, <1>12, StoredCarries

LEMMA StoredNext == TypeInv /\ AuxInv /\ SavingInv /\ StoredInv /\ [Next]_vars => StoredInv'
<1>1. SUFFICES ASSUME TypeInv, AuxInv, SavingInv, StoredInv, [Next]_vars PROVE StoredInv'
  OBVIOUS
<1>2. ASSUME NEW e \in Editors, Open(e) PROVE StoredInv'
  BY <1>1, <1>2, OpenStored
<1>3. ASSUME NEW e \in Editors, Refetch(e) \/ MediaAnswers(e) \/ Recover(e) \/ DiscardDraft(e)
      PROVE  StoredInv'
  <2>1. Rerenders(e)
    BY <1>1, <1>3, RefetchFacts, MediaFacts, RecoverFacts, DiscardFacts
  <2>2. query' = query \/ query' \in Entries
    BY <1>1, <1>3, RefetchFacts DEF MediaAnswers, Recover, DiscardDraft
  <2>3. record' = record /\ save' = save /\ taken' = taken /\ failed' = failed
    BY <1>3 DEF Refetch, MediaAnswers, Recover, DiscardDraft
  <2>4. Adds(ops, e)
    BY <1>1, <2>1, <2>2, <2>3, RerendersAux
  <2>5. QED
    BY <1>1, <2>1, <2>3, <2>4, RerendersStored
<1>4. ASSUME NEW e \in Editors, Reopen(e) PROVE StoredInv'
  BY <1>1, <1>4, ReopenStored
<1>5. ASSUME NEW e \in Editors, Edits(e) PROVE StoredInv'
  <2>1. /\ Others(e) /\ page[e].phase = "open" /\ page'[e].phase = "open" /\ page'[e].timer
        /\ save[e].stage = "none"
    <3>1. SameView(page[e], page'[e]) => page'[e].phase = page[e].phase
      BY DEF SameView
    <3>2. QED
      BY <1>1, <1>5, <3>1, EditFacts
  <2>2. ~page[e].retired
    BY <1>1, <2>1 DEF AuxInv, FormsInv, FormInv
  <2>3. Latest(e)
    BY <1>1, <2>1 DEF Latest, TypeInv, OnePage
  <2>4. Undecided(e)
    BY <1>1, <2>2, <2>3 DEF StoredInv, StoredForm
  <2>5. ops' = ops
    BY <1>1, <1>5, EditFacts
  <2>6. StoredForm(e)'
    BY <2>1, <2>4, <2>5 DEF StoredForm, Undecided, Kept
  <2>7. QED
    BY <1>1, <2>1, <2>6, StoredOne
<1>6. ASSUME NEW e \in Editors, TimerFires(e) \/ Hide(e) PROVE StoredInv'
  <2>1. Flushes(e)
    BY <1>1, <1>6, FlushFacts DEF TimerFires, Hide
  <2>2. record' = record /\ taken' = taken /\ failed' = failed
    BY <1>6 DEF TimerFires, Hide, Flushed
  <2>3. QED
    BY <1>1, <2>1, <2>2, FlushStored
<1>7. ASSUME NEW e \in Editors, Leave(e) PROVE StoredInv'
  BY <1>1, <1>7, LeaveStored
<1>8. ASSUME NEW e \in Editors, Cancel(e) PROVE StoredInv'
  <2>1. /\ Others(e) /\ page[e].phase = "open" /\ page'[e].phase = "left" /\ page'[e].retired
    BY <1>1, <1>8, CancelFacts DEF GoneFrom
  <2>2. QED
    BY <1>1, <2>1, StoredOne
<1>9. ASSUME NEW e \in Editors, Crash(e) PROVE StoredInv'
  <2>1. /\ Others(e) /\ page[e].phase \in {"gate", "open", "refused"}
        /\ page'[e].phase = "crashed"
    BY <1>1, <1>9, CrashFacts
  <2>2. ~Latest(e)'
    BY <2>1 DEF Latest
  <2>3. QED
    BY <1>1, <2>1, <2>2, StoredOne
<1>10. ASSUME NEW e \in Editors, SaveSucceeds(e) PROVE StoredInv'
  BY <1>1, <1>10, SucceedsStored
<1>11. ASSUME NEW e \in Editors, SaveFails(e) PROVE StoredInv'
  <2>1. /\ Others(e) /\ OnlyStatus(page[e], page'[e]) /\ page'[e].status = page[e].status
    BY <1>1, <1>11, FailsFacts
  <2>2. \A f \in Editors :
          /\ page'[f].phase = page[f].phase /\ page'[f].doc = page[f].doc
          /\ page'[f].timer = page[f].timer /\ page'[f].retired = page[f].retired
          /\ page'[f].typed = page[f].typed /\ page'[f].status = page[f].status
          /\ page'[f].dirty = page[f].dirty
    BY <2>1 DEF Others, OnlyStatus, SameView, SameForm
  <2>3. ops' = ops /\ record' = record /\ taken' = taken /\ failed' = failed
    BY <1>11 DEF SaveFails
  <2>4. QED
    BY <1>1, <2>2, <2>3
       DEF StoredInv, StoredForm, Latest, Undecided, Stale, ShownSaved, Kept, Holds
<1>12. ASSUME page' = page, ops' = ops, record' = record, taken' = taken, failed' = failed
       PROVE  StoredInv'
  BY <1>1, <1>12 DEF StoredInv, StoredForm, Latest, Undecided, Stale, ShownSaved, Kept, Holds
<1>13. ASSUME NEW e \in Editors, Save(e) \/ ServerDecides(e) PROVE StoredInv'
  BY <1>12, <1>13 DEF Save, ServerDecides
<1>14. CASE SavedElsewhere
  BY <1>12, <1>14 DEF SavedElsewhere
<1>15. CASE StorageRuns \/ StorageFails
  <2>1. PICK o : /\ ops # <<>> /\ o = Head(ops) /\ (Runs(o) \/ Fails(o))
                 /\ query' = query /\ save' = save
    BY <1>1, <1>15, StorageFacts
  <2>2. CASE o.op = "read"
    <3>1. PICK found \in {record, None} : Answers(o.by, found)
      BY <2>1, <2>2 DEF Runs, Fails
    <3>2. record' = record /\ taken' = taken /\ (failed' = failed \/ failed' = TRUE)
      BY <2>1, <2>2 DEF Runs, Fails
    <3>3. QED
      BY <1>1, <2>1, <2>2, <3>1, <3>2, ReadStored
  <2>3. CASE o.op = "put"
    BY <1>1, <2>1, <2>3, PutStored DEF Runs, Fails
  <2>4. CASE o.op = "delete"
    BY <1>1, <2>1, <2>4, DeleteStored DEF Runs, Fails
  <2>5. QED
    BY <2>1, <2>2, <2>3, <2>4 DEF Runs, Fails
<1>16. CASE UNCHANGED vars
  BY <1>12, <1>16 DEF vars
<1>17. QED
  BY <1>1, <1>2, <1>3, <1>4, <1>5, <1>6, <1>7, <1>8, <1>9, <1>10, <1>11, <1>13, <1>14, <1>15,
     <1>16 DEF Next, Edits

LEMMA DraftInv == Spec => [](TypeInv /\ AuxInv /\ SavingInv /\ StoredInv)
BY TypeInit, TypeNext, AuxInit, AuxNext, SavingInit, SavingNext, StoredInit, StoredNext, PTL
   DEF Spec

(* Under "saved locally" the record is the document on screen, unless a      *)
(* deletion nobody decided took it: each write carries the words of its      *)
(* moment, the last one those of the form.                                    *)
THEOREM SavedMeansStored == Spec => []SavedIsStored
<1>1. TypeInv /\ StoredInv => SavedIsStored
  <2>1. SUFFICES ASSUME TypeInv, StoredInv, NEW e \in Editors,
                        page[e].phase = "open", page[e].dirty, page[e].status = "saved",
                        Storable(page[e].doc), ~page[e].timer, ~page[e].retired, ~Queued(e), ~taken
                 PROVE  record # None /\ record.doc = page[e].doc
    BY DEF SavedIsStored
  <2>2. Latest(e)
    BY <2>1 DEF Latest, TypeInv, OnePage
  <2>3. ~Has(ops, Puts(e))
    BY <2>1 DEF Queued, Has, Puts
  <2>4. QED
    BY <2>1, <2>2, <2>3 DEF StoredInv, StoredForm, Kept, ShownSaved, Holds
<1>2. QED
  BY <1>1, DraftInv, PTL

(* Words that a write has taken outlive their form: they are on the device   *)
(* although the write was still queued, the next form read before it, or the *)
(* entry has moved on.                                                        *)
THEOREM LeftMeansStored == Spec => []LeftIsStored
<1>1. TypeInv /\ StoredInv => LeftIsStored
  <2>1. SUFFICES ASSUME TypeInv, StoredInv, NEW e \in Editors, LastWords(e), ~page[e].timer
                 PROVE  AreStored(e)
    BY DEF LeftIsStored
  <2>2. Latest(e)
    BY <2>1, EditorAssumption DEF LastWords, Latest, Editors
  <2>3. ~Has(ops, Puts(e))
    BY <2>1 DEF LastWords, Queued, Has, Puts
  <2>4. Holds(e)
    BY <2>1, <2>2, <2>3 DEF StoredInv, StoredForm, LastWords, Kept
  <2>5. QED
    BY <2>4 DEF Holds, AreStored
<1>2. QED
  BY <1>1, DraftInv, PTL

-----------------------------------------------------------------------------
(* A form that is not asked about a draft has none to be asked about.  What   *)
(* the gate has read stays true, for no write is behind its read and none is  *)
(* added before the form is edited; what it decides to erase is erased.       *)

Settled(e) ==
    /\ ~page[e].again
    /\ \/ page[e].phase = "gate" /\ page[e].answer = None
       \/ page[e].phase = "open" /\ ~page[e].dirty /\ ~page[e].typed

\* After the queue s, over the record r, there is no record, unless an operation fails.
Erased(s, r, lost) ==
    /\ Followed(s, AllPuts, AllDeletes)
    /\ lost \/ r = None \/ Has(s, AllDeletes)

OfferForm(e) ==
    /\ page[e].phase = "gate" => NeverAfter(ops, Reads(e), AllPuts)
    /\ Settled(e) => Erased(ops, record, failed)

OfferInv == \A e \in Editors : OfferForm(e)

LEMMA OfferInit == Init => OfferInv
<1>1. Closed.phase = "away"
  BY DEF Closed
<1>2. Init => \A e \in Editors : page[e].phase = "away"
  BY <1>1 DEF Init
<1>3. QED
  BY <1>2 DEF OfferInv, OfferForm, Settled

\* Pages other than the one that is there have no form and no gate.
LEMMA OnlyForm ==
    ASSUME TypeInv, NEW e \in Editors, Others(e), page[e].phase \notin {"away", "left", "crashed"}
    PROVE  \A f \in Editors \ {e} : page'[f].phase \notin {"gate", "open"}
<1>1. SUFFICES ASSUME NEW f \in Editors \ {e} PROVE page[f].phase \notin {"gate", "open"}
  BY DEF Others
<1>2. f < e \/ e < f
  BY <1>1, EditorAssumption DEF Editors
<1>3. CASE f < e
  BY <1>1, <1>3 DEF TypeInv, OnePage
<1>4. CASE e < f
  BY <1>1, <1>4 DEF TypeInv, OnePage
<1>5. QED
  BY <1>2, <1>3, <1>4

LEMMA OfferOne ==
    ASSUME NEW e \in Editors, OfferForm(e)',
           \A f \in Editors \ {e} : page'[f].phase \notin {"gate", "open"}
    PROVE  OfferInv'
BY DEF OfferInv, OfferForm, Settled

\* A deletion at the end erases whatever came before it.
LEMMA DeleteErases ==
    ASSUME NEW s \in Seq(Operations), NEW e \in Editors, NEW u \in 0..MaxEditors,
           NEW r, NEW lost \in BOOLEAN
    PROVE  /\ Erased(Append(s, Delete(e, u)), r, lost)
           /\ \A f \in Editors : NeverAfter(s, Reads(f), AllPuts)
                => NeverAfter(Append(s, Delete(e, u)), Reads(f), AllPuts)
<1>1. PICK o \in Operations : o = Delete(e, u) /\ o.op = "delete"
  BY OperationsMade
<1>2. o \in AllDeletes /\ o \notin AllPuts
  BY <1>1, OperationFacts
<1>3. Followed(Append(s, o), AllPuts, AllDeletes)
  BY <1>1, <1>2, AppendFollowed
<1>4. Has(Append(s, o), AllDeletes)
  BY <1>1, <1>2, AppendHas
<1>5. \A f \in Editors : NeverAfter(s, Reads(f), AllPuts)
        => NeverAfter(Append(s, o), Reads(f), AllPuts)
  BY <1>1, <1>2, AppendNeverAfter
<1>6. QED
  BY <1>1, <1>3, <1>4, <1>5 DEF Erased

\* The first operation leaves the queue.
LEMMA TailErases ==
    ASSUME NEW s \in Seq(Operations), s # <<>>, NEW r, NEW lost \in BOOLEAN, Erased(s, r, lost)
    PROVE  /\ Head(s).op = "put"
                => \A x : \A l \in BOOLEAN : Erased(Tail(s), x, l)
           /\ Head(s).op = "delete"
                => Erased(Tail(s), None, lost) /\ Erased(Tail(s), r, TRUE)
           /\ Head(s).op = "read"
                => Erased(Tail(s), r, lost) /\ Erased(Tail(s), r, TRUE)
<1>1. Head(s) \in Operations
  BY TailFacts
<1>2. /\ Followed(Tail(s), AllPuts, AllDeletes)
      /\ Head(s) \in AllPuts => Has(Tail(s), AllDeletes)
      /\ Has(s, AllDeletes) <=> Head(s) \in AllDeletes \/ Has(Tail(s), AllDeletes)
  BY TailFacts DEF Erased
<1>3. /\ Head(s).op = "put" <=> Head(s) \in AllPuts
      /\ Head(s).op = "delete" <=> Head(s) \in AllDeletes
  BY <1>1, OperationFacts
<1>4. CASE Head(s).op = "put"
  BY <1>2, <1>3, <1>4 DEF Erased
<1>5. CASE Head(s).op = "delete"
  BY <1>2, <1>5 DEF Erased
<1>6. CASE Head(s).op = "read"
  BY <1>2, <1>3, <1>6 DEF Erased
<1>7. QED
  BY <1>4, <1>5, <1>6

\* A page rendered from p: the form opens unasked only if p knew of no draft, or its
\* draft is obsolete.
LEMMA RendersOffer ==
    ASSUME NEW e \in Editors, NEW p, NEW s, Renders(e, p, s), p.phase \in {"gate", "open"},
           NEW r, NEW lost \in BOOLEAN, r = record', lost = failed',
           p.phase = "gate" => NeverAfter(s, Reads(e), AllPuts),
           /\ ~p.again
           /\ \/ p.phase = "gate" /\ p.answer = None
              \/ p.phase = "open" /\ ~p.dirty /\ ~p.typed
           => Erased(s, r, lost),
           p.phase = "gate" /\ ~p.again
             => \/ p.choice = "none"
                \/ p.choice = "draft" /\ RecoveryPhase(p, query') = "offer"
                \/ Erased(s, r, lost)
    PROVE  OfferForm(e)'
<1>1. /\ s \in Seq(Operations) /\ p \in Pages /\ page'[e].again = p.again
      /\ page'[e].typed = p.typed
  BY DEF Renders, SameFields
<1>2. /\ page'[e].answer = IF Obsolete(p, query') THEN None ELSE p.answer
      /\ \/ page'[e].phase = p.phase /\ page'[e].dirty = p.dirty
         \/ page'[e].phase = "refused"
         \/ OpenedForm(p, query', page'[e])
      /\ \/ ~Obsolete(p, query') /\ ops' = s
         \/ Obsolete(p, query') /\ \E u \in 0..MaxEditors : ops' = Append(s, Delete(e, u))
  BY DEF Renders, SameForm
<1>3. page'[e].phase = "gate" => p.phase = "gate"
  BY <1>2 DEF OpenedForm
<1>4. CASE Obsolete(p, query')
  <2>1. PICK u \in 0..MaxEditors : ops' = Append(s, Delete(e, u))
    BY <1>2, <1>4
  <2>2. /\ Erased(Append(s, Delete(e, u)), r, lost)
        /\ NeverAfter(s, Reads(e), AllPuts) => NeverAfter(Append(s, Delete(e, u)), Reads(e), AllPuts)
    BY <1>1, DeleteErases
  <2>3. QED
    BY <1>3, <2>1, <2>2 DEF OfferForm
<1>5. CASE ~Obsolete(p, query')
  <2>1. ops' = s /\ page'[e].answer = p.answer
    BY <1>2, <1>5
  <2>2. ASSUME Settled(e)' PROVE Erased(s, r, lost)
    <3>1. ~p.again /\ page'[e].phase # "refused"
      BY <1>1, <2>2 DEF Settled
    <3>2. CASE page'[e].phase = p.phase /\ page'[e].dirty = p.dirty
      BY <1>1, <2>1, <2>2, <3>1, <3>2 DEF Settled
    <3>3. CASE OpenedForm(p, query', page'[e])
      <4>1. ~page'[e].dirty
        BY <2>2, <3>3 DEF Settled, OpenedForm
      <4>2. /\ p.phase = "gate" /\ Editable(query'.doc) /\ query' \in Entries
            /\ p.choice # "none" \/ RecoveryPhase(p, query') = "clear"
            /\ ~(p.choice = "draft" /\ RecoveryPhase(p, query') = "offer")
        BY <3>1, <3>3, <4>1 DEF OpenedForm
      <4>3. CASE p.choice = "none"
        <5>1. RecoveryPhase(p, query') = "clear" /\ Enabled(query')
          BY <4>2, <4>3 DEF Enabled
        <5>2. p.answer \in {Unread, None}
          BY <1>5, <5>1 DEF Obsolete
        <5>3. p.answer # Unread
          BY <5>1 DEF RecoveryPhase
        <5>4. QED
          BY <3>1, <4>2, <5>2, <5>3
      <4>4. CASE p.choice # "none"
        BY <3>1, <4>2, <4>4
      <4>5. QED
        BY <4>3, <4>4
    <3>4. QED
      BY <1>2, <3>1, <3>2, <3>3
  <2>3. QED
    BY <1>3, <2>1, <2>2 DEF OfferForm
<1>6. QED
  BY <1>4, <1>5

LEMMA RerendersOffer ==
    ASSUME TypeInv, AuxInv, OfferInv, NEW e \in Editors, Rerenders(e),
           record' = record, failed' = failed
    PROVE  OfferInv'
<1>1. /\ Others(e) /\ page[e].phase \in {"gate", "open"} /\ FormInv(e) /\ OfferForm(e)
      /\ ops \in Seq(Operations) /\ failed \in BOOLEAN
  BY DEF Rerenders, AuxInv, FormsInv, OfferInv, TypeInv, TypesInv, QueueType
<1>2. PICK p \in Pages, s \in Seq(Operations) :
        /\ Renders(e, p, s) /\ Continues(page[e], p)
        /\ \/ /\ p.answer = page[e].answer /\ s = ops
              /\ \/ p.choice = page[e].choice
                 \/ p.choice = "draft" /\ page[e].phase = "gate" /\ query' # None
                    /\ RecoveryPhase(p, query') = "offer"
           \/ /\ p.answer = None /\ page[e].phase = "gate" /\ query' # None
              /\ page[e].answer \in Records /\ p.choice = "server"
              /\ s = Append(ops, Delete(e, page[e].answer.by))
  BY DEF Rerenders
<1>3. /\ p.phase = page[e].phase /\ p.again = page[e].again /\ p.dirty = page[e].dirty
      /\ p.typed = page[e].typed
  BY <1>2 DEF Continues, SameForm
<1>4. CASE p.answer = page[e].answer /\ s = ops
  <2>1. p.phase = "gate"
          => p.choice = "none" \/ (p.choice = "draft" /\ RecoveryPhase(p, query') = "offer")
    BY <1>1, <1>2, <1>3, <1>4 DEF FormInv
  <2>2. /\ p.phase = "gate" => NeverAfter(s, Reads(e), AllPuts)
        /\ /\ ~p.again
           /\ \/ p.phase = "gate" /\ p.answer = None
              \/ p.phase = "open" /\ ~p.dirty /\ ~p.typed
           => Erased(s, record, failed)
    BY <1>1, <1>3, <1>4 DEF OfferForm, Settled
  <2>3. OfferForm(e)'
    BY <1>1, <1>2, <1>3, <2>1, <2>2, RendersOffer
  <2>4. QED
    BY <1>1, <2>3, OnlyForm, OfferOne
<1>5. CASE /\ page[e].phase = "gate" /\ page[e].answer \in Records
           /\ s = Append(ops, Delete(e, page[e].answer.by))
  <2>1. PICK u \in 0..MaxEditors : u = page[e].answer.by
    BY <1>5, EditorAssumption DEF Records, Editors
  <2>2. /\ NeverAfter(ops, Reads(e), AllPuts) => NeverAfter(s, Reads(e), AllPuts)
        /\ Erased(s, record, failed)
    BY <1>1, <1>5, <2>1, DeleteErases
  <2>3. NeverAfter(s, Reads(e), AllPuts)
    BY <1>1, <1>5, <2>2 DEF OfferForm
  <2>4. OfferForm(e)'
    BY <1>1, <1>2, <1>3, <2>2, <2>3, RendersOffer
  <2>5. QED
    BY <1>1, <2>4, OnlyForm, OfferOne
<1>6. QED
  BY <1>2, <1>4, <1>5

LEMMA OpenOffer ==
    ASSUME TypeInv, AuxInv, NEW e \in Editors, Open(e)
    PROVE  OfferInv'
<1>1. /\ Beside(e) /\ page[e].phase = "away" /\ Renders(e, GatePage, ops')
      /\ ops' = IF Enabled(query) THEN Append(ops, Read(e)) ELSE ops
      /\ \A f \in Editors : f < e => page[f].phase \in {"left", "crashed"}
      /\ ops \in Seq(Operations) /\ failed' \in BOOLEAN
  BY OpenFacts DEF TypeInv, TypesInv, QueueType, Open
<1>2. ~Has(ops, Reads(e))
  BY <1>1, NothingQueued
<1>3. PICK o \in Operations : o = Read(e) /\ o.op = "read"
  BY OperationsMade
<1>4. o \notin AllPuts
  BY <1>3, OperationFacts
<1>5. NeverAfter(ops, Reads(e), AllPuts)
  BY <1>2 DEF Has, NeverAfter
<1>6. NeverAfter(ops', Reads(e), AllPuts)
  BY <1>1, <1>3, <1>4, <1>5, AppendNeverAfter
<1>7. OfferForm(e)'
  <2>1. GatePage.answer # None
    BY GateFacts, AbsenceAssumption
  <2>2. QED
    BY <1>1, <1>6, <2>1, GateFacts, RendersOffer
<1>8. \A f \in Editors \ {e} : page'[f].phase \notin {"gate", "open"}
  <2>1. SUFFICES ASSUME NEW f \in Editors \ {e} PROVE page[f].phase \notin {"gate", "open"}
    BY <1>1, BesideFacts
  <2>2. f < e \/ e < f
    BY <2>1, EditorAssumption DEF Editors
  <2>3. CASE f < e
    BY <1>1, <2>1, <2>3
  <2>4. CASE e < f
    BY <1>1, <2>1, <2>4 DEF TypeInv, OnePage
  <2>5. QED
    BY <2>2, <2>3, <2>4
<1>9. QED
  BY <1>7, <1>8, OfferOne

LEMMA ReopenOffer ==
    ASSUME TypeInv, AuxInv, NEW e \in Editors, Reopen(e)
    PROVE  OfferInv'
<1>1. PICK d : d = e - 1
  OBVIOUS
<1>2. /\ page[e].phase = "away" /\ d \in Editors /\ page[d] \in Pages /\ page[d].phase = "open"
      /\ page'[d] = Gone(page[d]) /\ \A f \in Editors \ {e, d} : page'[f] = page[f]
      /\ Renders(e, AgainPage(page[d]), ops) /\ failed' \in BOOLEAN
  BY <1>1, ReopenFacts DEF TypeInv, TypesInv, PageType, Reopen
<1>3. PICK p : p = AgainPage(page[d])
  OBVIOUS
<1>4. p.phase = "gate" /\ p.again
  BY <1>2, <1>3, AgainFacts
<1>5. NeverAfter(ops, Reads(e), AllPuts)
  BY <1>2, NothingQueued DEF Has, NeverAfter
<1>6. OfferForm(e)'
  BY <1>2, <1>3, <1>4, <1>5, RendersOffer
<1>7. \A f \in Editors \ {e} : page'[f].phase \notin {"gate", "open"}
  <2>1. page'[d].phase = "left"
    BY <1>2, GoneFacts
  <2>2. ASSUME NEW f \in Editors \ {e, d} PROVE page[f].phase \notin {"gate", "open"}
    <3>1. f < d \/ d < f
      BY <1>1, <1>2, <2>2, EditorAssumption DEF Editors
    <3>2. f < d => page[f].phase \in {"left", "crashed"}
      BY <1>2, <2>2 DEF TypeInv, OnePage
    <3>3. d < f => page[f].phase = "away"
      BY <1>2, <2>2 DEF TypeInv, OnePage
    <3>4. QED
      BY <3>1, <3>2, <3>3
  <2>3. QED
    BY <1>2, <2>1, <2>2
<1>8. QED
  BY <1>6, <1>7, OfferOne

\* Only statuses change, and the first operation of the queue is gone.
LEMMA TailOffer ==
    ASSUME TypeInv, OfferInv, ops # <<>>, ops' = Tail(ops),
           \A f \in Editors : /\ SameView(page[f], page'[f]) /\ page'[f].dirty = page[f].dirty
                              /\ page'[f].typed = page[f].typed,
           \/ Head(ops).op = "put" /\ failed' \in BOOLEAN
           \/ /\ Head(ops).op = "delete"
              /\ (record' = None /\ failed' = failed) \/ (record' = record /\ failed' = TRUE)
           \/ Head(ops).op = "read" /\ record' = record /\ (failed' = failed \/ failed' = TRUE)
    PROVE  OfferInv'
<1>1. ops \in Seq(Operations) /\ failed \in BOOLEAN
  BY DEF TypeInv, TypesInv, QueueType
<1>2. SUFFICES ASSUME NEW e \in Editors PROVE OfferForm(e)'
  BY DEF OfferInv
<1>3. OfferForm(e)
  BY <1>2 DEF OfferInv
<1>4. /\ page'[e].phase = page[e].phase /\ (Settled(e)' <=> Settled(e))
  BY <1>2 DEF SameView, Settled
<1>5. NeverAfter(ops, Reads(e), AllPuts) => NeverAfter(Tail(ops), Reads(e), AllPuts)
  BY <1>1, TailFacts
<1>6. ASSUME Erased(ops, record, failed) PROVE Erased(Tail(ops), record', failed')
  <2>1. PICK x, l : x = record' /\ l = failed'
    OBVIOUS
  <2>2. Erased(Tail(ops), x, l)
    BY <1>1, <1>6, <2>1, TailErases
  <2>3. QED
    BY <2>1, <2>2
<1>7. QED
  BY <1>3, <1>4, <1>5, <1>6 DEF OfferForm

\* A read is answered.
LEMMA ReadOffer ==
    ASSUME TypeInv, AuxInv, OfferInv, ops # <<>>, Head(ops).op = "read",
           NEW found \in {record, None}, Answers(Head(ops).by, found),
           query' = query, record' = record,
           (failed' = failed /\ found = record) \/ failed' = TRUE
    PROVE  OfferInv'
<1>1. PICK o \in Operations : o = Head(ops) /\ o.by \in Editors
  BY TailKeeps
<1>2. /\ ops \in Seq(Operations) /\ Tail(ops) \in Seq(Operations) /\ o \in Reads(o.by)
      /\ failed \in BOOLEAN /\ failed' \in BOOLEAN
  <2>1. ops \in Seq(Operations) /\ failed \in BOOLEAN
    BY DEF TypeInv, TypesInv, QueueType
  <2>2. Tail(ops) \in Seq(Operations)
    BY <2>1, TailFacts
  <2>3. o \in Reads(o.by)
    BY <1>1, OperationFacts
  <2>4. failed' \in BOOLEAN
    BY <2>1
  <2>5. QED
    BY <2>1, <2>2, <2>3, <2>4
<1>3. ASSUME page' = page, ops' = Tail(ops) PROVE OfferInv'
  <2>1. \A f \in Editors : /\ SameView(page[f], page'[f]) /\ page'[f].dirty = page[f].dirty
                           /\ page'[f].typed = page[f].typed
    BY <1>3 DEF SameView
  <2>2. QED
    BY <1>3, <2>1, TailOffer
<1>4. ASSUME Others(o.by), page[o.by].phase = "gate", NEW p \in Pages,
             Renders(o.by, p, Tail(ops)), Continues(page[o.by], p),
             p.answer = found, p.choice = page[o.by].choice
      PROVE  OfferInv'
  <2>1. p.phase = "gate" /\ p.choice = "none"
    BY <1>1, <1>4 DEF Continues, AuxInv, FormsInv, FormInv
  <2>2. NeverAfter(ops, Reads(o.by), AllPuts)
    BY <1>1, <1>4 DEF OfferInv, OfferForm
  <2>3. NeverAfter(Tail(ops), Reads(o.by), AllPuts) /\ ~Has(Tail(ops), AllPuts)
    BY <1>1, <1>2, <2>2, TailFacts
  <2>4. found = None => Erased(Tail(ops), record, failed')
    BY <2>3 DEF Erased, Followed, Has
  <2>5. OfferForm(o.by)'
    BY <1>1, <1>2, <1>4, <2>1, <2>3, <2>4, RendersOffer
  <2>6. QED
    BY <1>1, <1>4, <2>5, OnlyForm, OfferOne
<1>5. QED
  BY <1>1, <1>3, <1>4 DEF Answers

LEMMA SucceedsOffer ==
    ASSUME TypeInv, OfferInv, NEW d \in Editors, SaveSucceeds(d)
    PROVE  OfferInv'
<1>1. /\ Others(d) /\ page[d].phase \notin {"away", "gate"} /\ ops' = Append(ops, Delete(d, d))
      /\ page'[d].phase # "gate" /\ d \in 0..MaxEditors
      /\ ops \in Seq(Operations) /\ failed' \in BOOLEAN
  <2>1. SameView(page[d], page'[d]) => page'[d].phase = page[d].phase
    BY DEF SameView
  <2>2. ops \in Seq(Operations) /\ failed' \in BOOLEAN
    BY DEF TypeInv, TypesInv, QueueType, SaveSucceeds
  <2>3. d \in 0..MaxEditors
    BY EditorAssumption DEF Editors
  <2>4. QED
    BY <2>1, <2>2, <2>3, SucceedsFacts
<1>2. /\ Erased(ops', record', failed')
      /\ \A f \in Editors : NeverAfter(ops, Reads(f), AllPuts) => NeverAfter(ops', Reads(f), AllPuts)
  <2>1. PICK r, l : r = record' /\ l = failed'
    OBVIOUS
  <2>2. QED
    BY <1>1, <2>1, DeleteErases
<1>3. ASSUME NEW e \in Editors, page'[e].phase = "gate" PROVE page[e].phase = "gate"
  BY <1>1, <1>3 DEF Others
<1>4. QED
  BY <1>2, <1>3 DEF OfferInv, OfferForm

LEMMA FlushOffer ==
    ASSUME TypeInv, OfferInv, NEW e \in Editors, Flushes(e), record' = record, failed' = failed
    PROVE  OfferInv'
<1>1. /\ Others(e) /\ page[e].phase = "open" /\ SameView(page[e], page'[e])
      /\ page'[e].dirty = page[e].dirty /\ OfferForm(e)
      /\ page'[e].typed = page[e].typed
      /\ page[e].dirty \/ ops' = ops
  BY DEF Flushes, SameForm, Writes, OfferInv
<1>2. page'[e].phase = "open" /\ page'[e].again = page[e].again
  BY <1>1 DEF SameView
<1>3. OfferForm(e)'
  BY <1>1, <1>2 DEF OfferForm, Settled
<1>4. QED
  BY <1>1, <1>3, OnlyForm, OfferOne

LEMMA OfferNext == TypeInv /\ AuxInv /\ OfferInv /\ [Next]_vars => OfferInv'
<1>1. SUFFICES ASSUME TypeInv, AuxInv, OfferInv, [Next]_vars PROVE OfferInv'
  OBVIOUS
<1>2. ASSUME NEW e \in Editors, Open(e) PROVE OfferInv'
  BY <1>1, <1>2, OpenOffer
<1>3. ASSUME NEW e \in Editors, Refetch(e) \/ MediaAnswers(e) \/ Recover(e) \/ DiscardDraft(e)
      PROVE  OfferInv'
  <2>1. Rerenders(e)
    BY <1>1, <1>3, RefetchFacts, MediaFacts, RecoverFacts, DiscardFacts
  <2>2. record' = record /\ failed' = failed
    BY <1>3 DEF Refetch, MediaAnswers, Recover, DiscardDraft
  <2>3. QED
    BY <1>1, <2>1, <2>2, RerendersOffer
<1>4. ASSUME NEW e \in Editors, Reopen(e) PROVE OfferInv'
  BY <1>1, <1>4, ReopenOffer
<1>5. ASSUME NEW e \in Editors, Edits(e) PROVE OfferInv'
  <2>1. /\ Others(e) /\ page[e].phase = "open" /\ page'[e].phase = "open" /\ page'[e].typed
    <3>1. SameView(page[e], page'[e]) => page'[e].phase = page[e].phase
      BY DEF SameView
    <3>2. QED
      BY <1>1, <1>5, <3>1, EditFacts
  <2>2. OfferForm(e)'
    BY <2>1 DEF OfferForm, Settled
  <2>3. QED
    BY <1>1, <2>1, <2>2, OnlyForm, OfferOne
<1>6. ASSUME NEW e \in Editors, TimerFires(e) \/ Hide(e) PROVE OfferInv'
  <2>1. Flushes(e)
    BY <1>1, <1>6, FlushFacts DEF TimerFires, Hide
  <2>2. record' = record /\ failed' = failed
    BY <1>6 DEF TimerFires, Hide, Flushed
  <2>3. QED
    BY <1>1, <2>1, <2>2, FlushOffer
<1>7. ASSUME NEW e \in Editors, Others(e), page[e].phase \in {"gate", "open", "refused"},
             page'[e].phase \in {"left", "crashed"}
      PROVE  OfferInv'
  <2>1. OfferForm(e)'
    BY <1>7 DEF OfferForm, Settled
  <2>2. QED
    BY <1>1, <1>7, <2>1, OnlyForm, OfferOne
<1>8. ASSUME NEW e \in Editors, Leave(e) PROVE OfferInv'
  <2>1. page[e] \in Pages
    BY <1>1 DEF TypeInv, PageType
  <2>2. Left(page[e]).phase = "left"
    BY <2>1, LeftFacts
  <2>3. QED
    BY <1>1, <1>7, <1>8, <2>2, LeaveFacts DEF GoneFrom
<1>9. ASSUME NEW e \in Editors, Cancel(e) \/ Crash(e) PROVE OfferInv'
  BY <1>1, <1>7, <1>9, CancelFacts, CrashFacts DEF GoneFrom
<1>10. ASSUME NEW e \in Editors, SaveSucceeds(e) PROVE OfferInv'
  BY <1>1, <1>10, SucceedsOffer
<1>11. ASSUME NEW e \in Editors, SaveFails(e) PROVE OfferInv'
  <2>1. Others(e) /\ OnlyStatus(page[e], page'[e])
    BY <1>1, <1>11, FailsFacts
  <2>2. \A f \in Editors :
          /\ page'[f].phase = page[f].phase /\ page'[f].answer = page[f].answer
          /\ page'[f].again = page[f].again /\ page'[f].dirty = page[f].dirty
          /\ page'[f].typed = page[f].typed
    BY <2>1 DEF Others, OnlyStatus, SameView, SameForm
  <2>3. ops' = ops /\ record' = record /\ failed' = failed
    BY <1>11 DEF SaveFails
  <2>4. QED
    BY <1>1, <2>2, <2>3 DEF OfferInv, OfferForm, Settled
<1>12. ASSUME page' = page, ops' = ops, record' = record, failed' = failed PROVE OfferInv'
  BY <1>1, <1>12 DEF OfferInv, OfferForm, Settled
<1>13. ASSUME NEW e \in Editors, Save(e) \/ ServerDecides(e) PROVE OfferInv'
  BY <1>12, <1>13 DEF Save, ServerDecides
<1>14. CASE SavedElsewhere
  BY <1>12, <1>14 DEF SavedElsewhere
<1>15. CASE StorageRuns \/ StorageFails
  <2>1. PICK o : /\ ops # <<>> /\ o = Head(ops) /\ (Runs(o) \/ Fails(o))
                 /\ query' = query /\ save' = save
    BY <1>1, <1>15, StorageFacts
  <2>2. CASE o.op = "read"
    <3>1. PICK found \in {record, None} :
            /\ Answers(o.by, found) /\ record' = record
            /\ (failed' = failed /\ found = record) \/ failed' = TRUE
      BY <2>1, <2>2 DEF Runs, Fails
    <3>2. QED
      BY <1>1, <2>1, <2>2, <3>1, ReadOffer
  <2>3. CASE o.op \in {"put", "delete"}
    <3>1. ASSUME page' = page \/ (\E t : Shows(o.by, t))
          PROVE  \A f \in Editors : /\ SameView(page[f], page'[f])
                                    /\ page'[f].dirty = page[f].dirty
                                    /\ page'[f].typed = page[f].typed
      BY <3>1 DEF Shows, Others, OnlyStatus, SameView, SameForm
    <3>2. /\ page' = page \/ (\E t : Shows(o.by, t))
          /\ ops' = Tail(ops)
          /\ \/ o.op = "put" /\ failed' \in BOOLEAN
             \/ /\ o.op = "delete"
                /\ (record' = None /\ failed' = failed) \/ (record' = record /\ failed' = TRUE)
      BY <2>1, <2>3 DEF Runs, Fails
    <3>3. QED
      BY <1>1, <2>1, <3>1, <3>2, TailOffer
  <2>4. QED
    BY <2>1, <2>2, <2>3 DEF Runs, Fails
<1>16. CASE UNCHANGED vars
  BY <1>12, <1>16 DEF vars
<1>17. QED
  BY <1>1, <1>2, <1>3, <1>4, <1>5, <1>6, <1>8, <1>9, <1>10, <1>11, <1>13, <1>14, <1>15, <1>16
     DEF Next, Edits

(* The form opens unasked only where no draft is stored or all that is left   *)
(* of one is being erased, whatever was queued when its gate read the record. *)
THEOREM OffersStored == Spec => []OffersWhatIsStored
<1>1. OfferInv => OffersWhatIsStored
  <2>1. SUFFICES ASSUME OfferInv, NEW e \in Editors, page[e].phase = "open", ~page[e].dirty,
                        ~page[e].typed, ~page[e].again, ops = <<>>, ~failed
                 PROVE  record = None
    BY DEF OffersWhatIsStored
  <2>2. Settled(e)
    BY <2>1 DEF Settled
  <2>3. Erased(ops, record, failed)
    BY <2>1, <2>2 DEF OfferInv, OfferForm
  <2>4. ~Has(ops, AllDeletes)
    BY <2>1, EmptyFacts
  <2>5. QED
    BY <2>1, <2>3, <2>4 DEF Erased
<1>2. QED
  BY <1>1, OfferInit, OfferNext, TypeInit, TypeNext, AuxInit, AuxNext, PTL DEF Spec

===============================================================================
