------------------------ MODULE EntryStatisticsProofs ------------------------
(***************************************************************************)
(* What TLAPS proves of EntryStatistics, for any number of moments,        *)
(* journals, requests, days and operations:                                *)
(*   - the entry counts of the journals (CountInv);                        *)
(*   - the pass of the recalculation finds, and an increment keeps, what   *)
(*     the columns of the streak say, for every set of days;               *)
(*   - the types of the state (StreakTypes);                               *)
(*   - the streak row, however the requests interleave (StreakInv).        *)
(***************************************************************************)
EXTENDS EntryStatistics, FiniteSetTheorems, WellFoundedInduction, TLAPS

-----------------------------------------------------------------------------
(* The part of the state that the counts depend on.                         *)

Loaded == [moment : Moments, seen : Texts, want : Texts]

Types ==
    /\ entry \in [Moments -> Texts \union {None}]
    /\ journals \subseteq Journals
    /\ count \in [Journals -> Nat]
    /\ pc \in [Requests -> Places]
    /\ about \in [Requests -> About]
    /\ doomed \in [Requests -> Doomed]
    /\ agenda \in [Requests -> Agendas]
    /\ tally \in [Requests -> Tallies]
    /\ behind \subseteq Requests

(* Before its commit a request has nothing to bring up to date; behind are those *)
(* that have read what they will use.                                            *)
Uncommitted == {"idle", "update", "delete", "journal"}
Reading == {"counted", "published", "dated", "creating", "computed"}

(* What a request has loaded and has still to do, by the place it stands at. *)
Stage(r) ==
    /\ pc[r] \in Uncommitted => agenda[r] = Nothing
    /\ pc[r] \in {"counting", "counted"} => agenda[r].counts # <<>>
    /\ pc[r] \in {"published", "dated", "creating", "computed"} => agenda[r].counts = <<>>
    /\ pc[r] = "update" \/ agenda[r].next = "decide" => about[r] \in Loaded
    /\ pc[r] = "committed" => about[r].moment \in Moments /\ about[r].want \in Texts
    /\ pc[r] = "delete" => about[r].moment \in Moments /\ about[r].seen \in Texts
    /\ pc[r] = "journal" => doomed[r].journal \in Journals
    /\ r \in behind => pc[r] \in Reading

(* A request that is not behind has counted the entries there are. *)
Fresh(r) ==
    pc[r] = "counted" /\ r \notin behind =>
        tally[r].found = Cardinality(InJournal(Subject(r)))

(* The journals r will count, not with what it counted before a later change. *)
WillCount(r) ==
    IF pc[r] = "counted" /\ r \in behind THEN ToSet(Tail(agenda[r].counts))
    ELSE ToSet(agenda[r].counts)

Right(j) == count[j] = Cardinality(InJournal(j))

Accounted == \A j \in journals : j \in off \/ Right(j) \/ \E r \in Requests : j \in WillCount(r)

CountInv ==
    /\ Types
    /\ \A r \in Requests : Stage(r)
    /\ \A r \in Requests : Fresh(r)
    /\ Accounted

-----------------------------------------------------------------------------
(* Sequences of journals, agendas and texts.                                *)

LEMMA FirstAndRest ==
    ASSUME NEW s \in Seq(Journals), s # <<>>
    PROVE  /\ Head(s) \in Journals /\ Tail(s) \in Seq(Journals)
           /\ ToSet(s) = {Head(s)} \union ToSet(Tail(s))
<1>1. Head(s) \in Journals /\ Tail(s) \in Seq(Journals) /\ Len(s) \in Nat \ {0}
  OBVIOUS
<1>2. Head(s) = s[1] /\ Len(Tail(s)) = Len(s) - 1 /\ DOMAIN s = 1..Len(s)
      /\ DOMAIN Tail(s) = 1..(Len(s) - 1) /\ \A i \in 1..(Len(s) - 1) : Tail(s)[i] = s[i + 1]
  BY <1>1
<1>3. ASSUME NEW x \in ToSet(s) PROVE x \in {Head(s)} \union ToSet(Tail(s))
  <2>1. PICK i \in 1..Len(s) : x = s[i]
    BY <1>2, <1>3 DEF ToSet
  <2>2. i = 1 \/ (i - 1 \in 1..(Len(s) - 1) /\ Tail(s)[i - 1] = s[i])
    BY <1>1, <1>2
  <2>3. QED
    BY <1>2, <2>1, <2>2 DEF ToSet
<1>4. ASSUME NEW x \in {Head(s)} \union ToSet(Tail(s)) PROVE x \in ToSet(s)
  <2>1. CASE x = Head(s)
    BY <1>1, <1>2, <2>1 DEF ToSet
  <2>2. CASE x \in ToSet(Tail(s))
    <3>1. PICK i \in 1..(Len(s) - 1) : x = s[i + 1]
      BY <1>2, <2>2 DEF ToSet
    <3>2. i + 1 \in 1..Len(s)
      BY <1>1
    <3>3. QED
      BY <1>2, <3>1, <3>2 DEF ToSet
  <2>3. QED
    BY <1>4, <2>1, <2>2
<1>5. QED
  BY <1>1, <1>3, <1>4

LEMMA ShortSequences ==
    /\ <<>> \in Seq(Journals) /\ ToSet(<<>>) = {}
    /\ \A j \in Journals : <<j>> \in Seq(Journals) /\ ToSet(<<j>>) = {j}
    /\ \A i, j \in Journals : <<i, j>> \in Seq(Journals) /\ ToSet(<<i, j>>) = {i, j}
<1>1. ToSet(<<>>) = {}
  BY DEF ToSet
<1>2. ASSUME NEW j \in Journals PROVE ToSet(<<j>>) = {j}
  BY DEF ToSet
<1>3. ASSUME NEW i \in Journals, NEW j \in Journals PROVE ToSet(<<i, j>>) = {i, j}
  <2>1. DOMAIN <<i, j>> = {1, 2}
    OBVIOUS
  <2>2. QED
    BY <2>1 DEF ToSet
<1>4. QED
  BY <1>1, <1>2, <1>3

LEMMA MergedText ==
    ASSUME NEW row \in Texts, NEW loaded \in Texts, NEW new \in Texts
    PROVE  /\ Merged(row, loaded, new) \in Texts
           /\ Merged(row, loaded, new).journal =
                  IF new.journal # loaded.journal THEN new.journal ELSE row.journal
           /\ Merged(row, loaded, new).draft =
                  IF new.draft # loaded.draft THEN new.draft ELSE row.draft
<1>1. loaded # None /\ DOMAIN row = {"journal", "draft"}
  BY StatisticsAssumption DEF Texts
<1>2. Merged(row, loaded, new) =
          [journal |-> IF new.journal # loaded.journal THEN new.journal ELSE row.journal,
           draft |-> IF new.draft # loaded.draft THEN new.draft ELSE row.draft]
  BY <1>1 DEF Merged
<1>3. QED
  BY <1>2 DEF Texts

LEMMA AgendaOfUpdate ==
    ASSUME NEW old, old.journal \in Journals, NEW new, new.journal \in Journals,
           NEW row \in Texts
    PROVE  AfterUpdate(old, new, row) \in Agendas
<1>1. row.journal \in Journals
  BY DEF Texts
<1>2. QED
  BY <1>1, ShortSequences DEF AfterUpdate, Recounts, Agendas, Nothing

LEMMA AgendaOfCreate ==
    ASSUME NEW row, row.journal \in Journals, NEW a \in AfterCreate(row)
    PROVE  a \in Agendas /\ a.next # "decide"
<1>1. \/ a = [counts |-> <<>>, next |-> "none"]
      \/ a = [counts |-> <<row.journal>>, next |-> "none"]
      \/ a = [counts |-> <<row.journal>>, next |-> "bump"]
  BY DEF AfterCreate, Nothing
<1>2. \A i \in Journals : /\ [counts |-> <<i>>, next |-> "none"] \in Agendas
                          /\ [counts |-> <<i>>, next |-> "bump"] \in Agendas
  BY ShortSequences DEF Agendas
<1>3. [counts |-> <<>>, next |-> "none"] \in Agendas
  BY ShortSequences DEF Agendas
<1>4. ASSUME NEW i \in Journals, i = row.journal
      PROVE  a \in Agendas
  <2>1. CASE a = [counts |-> <<>>, next |-> "none"]
    BY <1>3, <2>1
  <2>2. CASE a = [counts |-> <<row.journal>>, next |-> "none"]
    BY <1>2, <1>4, <2>2
  <2>3. CASE a = [counts |-> <<row.journal>>, next |-> "bump"]
    BY <1>2, <1>4, <2>3
  <2>4. QED
    BY <1>1, <2>1, <2>2, <2>3
<1>5. a.next # "decide"
  BY <1>1
<1>6. QED
  BY <1>4, <1>5

LEMMA NeededIsAbout ==
    ASSUME NEW x \in About, NEW a
    PROVE  Needed(x, a) \in About /\ NoSubject \in About
BY DEF Needed, NoSubject, About

LEMMA FoundIsNumber ==
    ASSUME NEW j PROVE Cardinality(InJournal(j)) \in Nat
BY StatisticsAssumption, FS_Subset, FS_CardinalityType DEF InJournal

-----------------------------------------------------------------------------
(* What the bookkeeping of a request does.                                  *)

LEMMA GoesOn ==
    ASSUME Types, NEW r \in Requests, NEW x \in About, NEW a \in Agendas,
           a.next = "decide" => x \in Loaded, Goes(r, x, a)
    PROVE  /\ agenda' \in [Requests -> Agendas] /\ about' \in [Requests -> About]
           /\ pc' \in [Requests -> Places]
           /\ agenda'[r] = a /\ pc'[r] = (IF a = Nothing THEN "idle" ELSE "tasks")
           /\ a.next = "decide" => about'[r] \in Loaded
           /\ \A q \in Requests \ {r} : agenda'[q] = agenda[q] /\ pc'[q] = pc[q]
                                        /\ about'[q] = about[q]
<1>1. Needed(x, a) \in About
  BY NeededIsAbout
<1>2. a.next = "decide" => Needed(x, a) \in Loaded
  BY DEF Needed
<1>3. QED
  BY <1>1, <1>2 DEF Types, Goes, Places

LEMMA SubjectIsJournal ==
    ASSUME Types, NEW r \in Requests, agenda[r].counts # <<>>
    PROVE  /\ Subject(r) \in Journals /\ Subject(r) # "streak"
           /\ ToSet(agenda[r].counts) = {Subject(r)} \union ToSet(Tail(agenda[r].counts))
           /\ Tail(agenda[r].counts) \in Seq(Journals)
<1>1. agenda[r].counts \in Seq(Journals)
  BY DEF Types, Agendas
<1>2. QED
  BY <1>1, FirstAndRest, StatisticsAssumption DEF Subject

(* A request that has just counted is told when a journal changes: what it has *)
(* counted is then not what Accounted rests on.                                *)
LEMMA CommitKeeps ==
    ASSUME CountInv, NEW left, Commits(left), UNCHANGED <<count, tally>>, journals' \subseteq journals,
           \A q \in Requests :
               \/ pc'[q] = pc[q] /\ agenda'[q] = agenda[q]
               \/ pc[q] \in Uncommitted /\ pc'[q] \in {"idle", "tasks", "committed"},
           \A j \in Affected \cap journals' :
               \/ j \in left
               \/ \E q \in Requests : pc'[q] \in {"tasks", "committed"} /\ j \in ToSet(agenda'[q].counts)
    PROVE  /\ \A q \in Requests : Fresh(q)'
           /\ Accounted'
           /\ behind' \subseteq Requests
           /\ \A q \in Requests : q \in behind' =>
                  pc'[q] \in Reading
<1>1. \A q \in Requests : pc[q] = "counted" =>
          Subject(q) \in Journals /\ (Outdated(q) <=> Subject(q) \in Affected)
          /\ ToSet(agenda[q].counts) = {Subject(q)} \union ToSet(Tail(agenda[q].counts))
  BY SubjectIsJournal DEF CountInv, Stage, Outdated, Subject
<1>2. \A q \in Requests : q \in behind' => pc[q] \in Reading
  BY DEF CountInv, Stage, Commits, Outdated, Reading
<1>3. \A j \in Journals \ Affected : InJournal(j)' = InJournal(j)
  BY DEF Affected
<1>4. ASSUME NEW q \in Requests PROVE Fresh(q)'
  <2>1. SUFFICES ASSUME pc'[q] = "counted", q \notin behind'
                 PROVE  tally'[q].found = Cardinality(InJournal(Subject(q)))'
    BY DEF Fresh
  <2>2. pc[q] = "counted" /\ agenda'[q] = agenda[q] /\ q \notin behind /\ Subject(q)' = Subject(q)
    BY <2>1 DEF Commits, Subject, Uncommitted
  <2>3. Subject(q) \in Journals \ Affected
    BY <1>1, <2>1, <2>2 DEF Commits
  <2>4. Fresh(q)
    BY DEF CountInv
  <2>5. InJournal(Subject(q))' = InJournal(Subject(q))
    <3>1. InJournal(Subject(q))' = {m \in Moments : Published(m)' /\ entry'[m].journal = Subject(q)}
      BY <2>2 DEF InJournal
    <3>2. \A j \in Journals \ Affected :
              {m \in Moments : Published(m)' /\ entry'[m].journal = j} = InJournal(j)
      BY <1>3 DEF InJournal
    <3>3. QED
      BY <2>3, <3>1, <3>2
  <2>6. QED
    BY <2>1, <2>2, <2>4, <2>5 DEF Fresh
<1>5. ASSUME NEW j \in journals' PROVE j \in off' \/ Right(j)' \/ \E q \in Requests : j \in WillCount(q)'
  <2>1. CASE j \in Affected
    <3>1. CASE j \in left
      BY <2>1, <3>1 DEF Commits
    <3>2. CASE \E q \in Requests : pc'[q] \in {"tasks", "committed"} /\ j \in ToSet(agenda'[q].counts)
      BY <3>2 DEF WillCount
    <3>3. QED
      BY <2>1, <3>1, <3>2, <1>5
  <2>2. CASE j \notin Affected
    <3>0. j \in Journals /\ j \in journals
      BY <1>5 DEF CountInv, Types
    <3>1. InJournal(j)' = InJournal(j)
      BY <1>3, <2>2, <3>0
    <3>2. j \in off => j \in off'
      BY DEF Commits
    <3>3. Right(j) => Right(j)'
      BY <3>1 DEF Right
    <3>4. ASSUME NEW q \in Requests, j \in WillCount(q) PROVE j \in WillCount(q)'
      <4>1. ToSet(Nothing.counts) = {}
        BY ShortSequences DEF Nothing
      <4>2. agenda[q] # Nothing
        BY <3>4, <4>1, FirstAndRest DEF WillCount, CountInv, Stage, Nothing
      <4>3. pc'[q] = pc[q] /\ agenda'[q] = agenda[q]
        BY <4>2 DEF CountInv, Stage
      <4>4. CASE pc[q] = "counted" /\ q \notin behind /\ q \in behind'
        <5>1. j # Subject(q)
          BY <1>1, <2>2, <4>4 DEF Commits
        <5>2. QED
          BY <5>1, <1>1, <3>4, <4>3, <4>4 DEF WillCount
      <4>5. CASE ~(pc[q] = "counted" /\ q \notin behind /\ q \in behind')
        BY <3>4, <4>3, <4>5 DEF WillCount, Commits
      <4>6. QED
        BY <4>4, <4>5
    <3>5. QED
      BY <3>0, <3>2, <3>3, <3>4 DEF CountInv, Accounted
  <2>3. QED
    BY <2>1, <2>2
<1>6. \A q \in Requests : q \in behind' => pc'[q] \in Reading
  BY <1>2 DEF Reading, Uncommitted
<1>7. QED
  BY <1>4, <1>5, <1>6 DEF Accounted, Commits, CountInv, Types

(* A step of r that changes neither entries nor counts. *)
LEMMA StepKeeps ==
    ASSUME CountInv, NEW r \in Requests, UNCHANGED <<entry, journals, count>>,
           off \subseteq off' \union {"streak"},
           \A q \in Requests \ {r} : /\ pc'[q] = pc[q] /\ agenda'[q] = agenda[q]
                                     /\ tally'[q] = tally[q]
                                     /\ pc[q] = "counted" => (q \in behind' <=> q \in behind),
           \A j \in journals : j \in WillCount(r) => j \in off' \/ j \in WillCount(r)',
           Fresh(r)'
    PROVE  (\A q \in Requests : Fresh(q)') /\ Accounted'
<1>1. \A j : InJournal(j)' = InJournal(j)
  BY DEF InJournal, Published
<1>2. ASSUME NEW q \in Requests \ {r} PROVE Fresh(q)' /\ WillCount(q)' = WillCount(q)
  BY <1>1, <1>2 DEF Fresh, WillCount, Subject, CountInv
<1>3. \A j \in journals : (Right(j) => Right(j)') /\ (j \in off => j \in off')
  BY <1>1, StatisticsAssumption DEF Right, CountInv, Types
<1>4. QED
  BY <1>2, <1>3 DEF Accounted, CountInv

(* A journal changes with an entry only if the entry is counted in it before *)
(* or after, and not both.                                                   *)
LEMMA OneEntryChanges ==
    ASSUME Types, NEW m \in Moments, NEW t, entry' = [entry EXCEPT ![m] = t],
           NEW j \in Journals, j \in Affected
    PROVE  (entry[m] # None /\ ~entry[m].draft /\ entry[m].journal = j)
               # (t # None /\ ~t.draft /\ t.journal = j)
<1>1. InJournal(j)' # InJournal(j)
  BY StatisticsAssumption DEF Affected
<1>2. PICK n \in Moments : (n \in InJournal(j)') # (n \in InJournal(j))
  BY <1>1 DEF InJournal
<1>3. n = m
  BY <1>2 DEF InJournal, Published, Types
<1>4. entry'[m] = t
  BY DEF Types
<1>5. QED
  BY <1>2, <1>3, <1>4 DEF InJournal, Published

-----------------------------------------------------------------------------
(* The operations.                                                          *)

(* What is left to show of a commit: the request goes on with the journals it *)
(* has made wrong, but for those it leaves so.                                *)
LEMMA OperationKeeps ==
    ASSUME CountInv, NEW r \in Requests, NEW a \in Agendas, NEW left,
           pc[r] \in Uncommitted, pc' \in [Requests -> Places],
           pc'[r] \in {"idle", "tasks", "committed"}, pc'[r] = "idle" => a = Nothing,
           pc'[r] = "committed" => about'[r].moment \in Moments /\ about'[r].want \in Texts,
           a.next = "decide" => about'[r] \in Loaded,
           agenda' = [agenda EXCEPT ![r] = a],
           about' \in [Requests -> About], doomed' \in [Requests -> Doomed],
           \A q \in Requests \ {r} : /\ pc'[q] = pc[q] /\ about'[q] = about[q]
                                     /\ doomed'[q] = doomed[q],
           Commits(left), UNCHANGED <<count, tally>>,
           journals' \subseteq journals, entry' \in [Moments -> Texts \union {None}],
           \A j \in Affected \cap journals' : j \in left \/ j \in ToSet(a.counts)
    PROVE  CountInv'
<1>1. agenda' \in [Requests -> Agendas] /\ agenda'[r] = a
      /\ \A q \in Requests \ {r} : agenda'[q] = agenda[q]
  BY DEF CountInv, Types
<1>2. \A j \in Affected \cap journals' :
          \/ j \in left
          \/ \E q \in Requests : pc'[q] \in {"tasks", "committed"} /\ j \in ToSet(agenda'[q].counts)
  BY <1>1, ShortSequences DEF Nothing
<1>3. /\ (\A q \in Requests : Fresh(q)') /\ Accounted' /\ behind' \subseteq Requests
      /\ \A q \in Requests : q \in behind' => pc'[q] \in Reading
  BY <1>1, <1>2, CommitKeeps
<1>4. Types'
  BY <1>1, <1>3 DEF CountInv, Types
<1>5. \A q \in Requests : Stage(q)'
  <2>1. Stage(r)'
    BY <1>1, <1>3 DEF Stage, Uncommitted
  <2>2. ASSUME NEW q \in Requests \ {r} PROVE Stage(q)'
    BY <1>1, <1>3, <2>2 DEF Stage, CountInv
  <2>3. QED
    BY <2>1, <2>2
<1>6. QED
  BY <1>3, <1>4, <1>5 DEF CountInv

(* ... a request that goes on with its tasks at once. *)
LEMMA TaskedKeeps ==
    ASSUME CountInv, NEW r \in Requests, NEW a \in Agendas, NEW left,
           pc[r] \in Uncommitted, a.next # "decide", Goes(r, NoSubject, a),
           doomed' \in [Requests -> Doomed], \A q \in Requests \ {r} : doomed'[q] = doomed[q],
           Commits(left), UNCHANGED <<count, tally>>,
           journals' \subseteq journals, entry' \in [Moments -> Texts \union {None}],
           \A j \in Affected \cap journals' : j \in left \/ j \in ToSet(a.counts)
    PROVE  CountInv'
<1>1. NoSubject \in About
  BY DEF NoSubject, About
<1>2. /\ about' \in [Requests -> About] /\ pc' \in [Requests -> Places]
      /\ pc'[r] = (IF a = Nothing THEN "idle" ELSE "tasks")
      /\ \A q \in Requests \ {r} : pc'[q] = pc[q] /\ about'[q] = about[q]
  BY <1>1, GoesOn DEF CountInv
<1>3. agenda' = [agenda EXCEPT ![r] = a]
  BY DEF Goes
<1>4. QED
  BY <1>2, <1>3, OperationKeeps

(* ... and one that is to refresh its entry. *)
LEMMA CommittedKeeps ==
    ASSUME CountInv, NEW r \in Requests, NEW a \in Agendas, NEW left,
           pc[r] \in Uncommitted, pc' = [pc EXCEPT ![r] = "committed"],
           NEW x \in About, x.moment \in Moments, x.want \in Texts,
           a.next = "decide" => x \in Loaded,
           about' = [about EXCEPT ![r] = x], agenda' = [agenda EXCEPT ![r] = a],
           Commits(left), UNCHANGED <<count, tally, doomed, journals>>,
           entry' \in [Moments -> Texts \union {None}],
           \A j \in Affected \cap journals' : j \in left \/ j \in ToSet(a.counts)
    PROVE  CountInv'
<1>1. /\ pc' \in [Requests -> Places] /\ pc'[r] = "committed"
      /\ about' \in [Requests -> About] /\ about'[r] = x
      /\ \A q \in Requests \ {r} : pc'[q] = pc[q] /\ about'[q] = about[q]
  BY DEF CountInv, Types, Places
<1>2. doomed' \in [Requests -> Doomed] /\ \A q \in Requests \ {r} : doomed'[q] = doomed[q]
  BY DEF CountInv, Types
<1>3. QED
  BY <1>1, <1>2, OperationKeeps

LEMMA CreateKeeps ==
    ASSUME CountInv, NEW r \in Requests, NEW m \in Moments, NEW j \in Journals, NEW d,
           NEW draft \in BOOLEAN, Create(r, m, j, d, draft)
    PROVE  CountInv'
<1> DEFINE t == [journal |-> j, draft |-> draft]
           x == [moment |-> m, seen |-> None, want |-> t]
           a == IF draft THEN Nothing ELSE [counts |-> <<j>>, next |-> "bump"]
<1>1. /\ x \in About /\ x.moment \in Moments /\ x.want \in Texts
      /\ a \in Agendas /\ (draft \/ ToSet(a.counts) = {j}) /\ a.next # "decide"
      /\ t \in Texts /\ t.journal = j /\ t.draft = draft
  BY ShortSequences DEF About, Agendas, Nothing, Texts
<1>2. /\ pc[r] = "idle" /\ entry[m] = None /\ entry' = [entry EXCEPT ![m] = t]
      /\ pc' = [pc EXCEPT ![r] = "committed"] /\ about' = [about EXCEPT ![r] = x]
      /\ agenda' = [agenda EXCEPT ![r] = a]
      /\ Commits({}) /\ UNCHANGED <<count, tally, journals, doomed>>
  BY DEF Create, locals
<1>3. ASSUME NEW i \in Affected \cap journals' PROVE i \in ToSet(a.counts)
  <2>1. i \in Journals
    BY <1>2, <1>3 DEF CountInv, Types
  <2>2. t.journal = i /\ ~t.draft
    BY <1>2, <1>3, <2>1, OneEntryChanges DEF CountInv
  <2>3. QED
    BY <1>1, <2>2
<1>4. entry' \in [Moments -> Texts \union {None}]
  BY <1>1, <1>2 DEF CountInv, Types
<1>5. pc[r] \in Uncommitted
  BY <1>2 DEF Uncommitted
<1> HIDE DEF x, a, t
<1>6. QED
  BY <1>1, <1>2, <1>3, <1>4, <1>5, CommittedKeeps

LEMMA UpdateWriteKeeps ==
    ASSUME CountInv, NEW r \in Requests, UpdateWrite(r),
           entry[about[r].moment] # None,
           Commits(MovedMeanwhile(about[r])
                   \union (IF about[r].seen.journal = about[r].want.journal /\ about[r].want.draft
                           THEN {Merged(entry[about[r].moment], about[r].seen, about[r].want).journal}
                           ELSE {})),
           entry' = [entry EXCEPT ![about[r].moment] =
                        Merged(entry[about[r].moment], about[r].seen, about[r].want)],
           pc' = [pc EXCEPT ![r] = "committed"], about' = about,
           agenda' = [agenda EXCEPT ![r] = AfterUpdate(about[r].seen, about[r].want,
                        Merged(entry[about[r].moment], about[r].seen, about[r].want))]
    PROVE  CountInv'
<1> DEFINE x == about[r]
           m == x.moment
           row == Merged(entry[m], x.seen, x.want)
           a == AfterUpdate(x.seen, x.want, row)
           left == MovedMeanwhile(x) \union
                   (IF x.seen.journal = x.want.journal /\ x.want.draft THEN {row.journal} ELSE {})
<1>1. pc[r] = "update" /\ UNCHANGED <<count, tally, journals, doomed>>
  BY DEF UpdateWrite, locals
<1>2. x \in Loaded /\ x \in About
  BY <1>1 DEF CountInv, Stage, Types
<1>3. m \in Moments /\ x.seen \in Texts /\ x.want \in Texts /\ entry[m] \in Texts
  BY <1>2 DEF CountInv, Types, Loaded
<1>4. /\ row \in Texts
      /\ row.journal = IF x.want.journal # x.seen.journal THEN x.want.journal ELSE entry[m].journal
      /\ row.draft = IF x.want.draft # x.seen.draft THEN x.want.draft ELSE entry[m].draft
  BY <1>3, MergedText
<1>5. /\ x.seen.journal \in Journals /\ x.want.journal \in Journals /\ row.journal \in Journals
      /\ entry[m].journal \in Journals /\ row # None
      /\ x.seen.draft \in BOOLEAN /\ x.want.draft \in BOOLEAN /\ row.draft \in BOOLEAN
      /\ entry[m].draft \in BOOLEAN
  BY <1>3, <1>4, StatisticsAssumption DEF Texts
<1>6. a \in Agendas
  BY <1>4, <1>5, AgendaOfUpdate
<1>7. ASSUME NEW j \in Affected \cap journals' PROVE j \in left \/ j \in ToSet(a.counts)
  <2>1. j \in Journals
    BY <1>1, <1>7 DEF CountInv, Types
  <2>2. (~entry[m].draft /\ entry[m].journal = j) # (~row.draft /\ row.journal = j)
    <3>1. Types /\ m \in Moments /\ j \in Affected /\ entry' = [entry EXCEPT ![m] = row]
      BY <1>3, <1>7 DEF CountInv
    <3> HIDE DEF x, m, row
    <3>2. (entry[m] # None /\ ~entry[m].draft /\ entry[m].journal = j)
              # (row # None /\ ~row.draft /\ row.journal = j)
      BY <2>1, <3>1, OneEntryChanges
    <3>3. entry[m] # None /\ row # None
      BY <1>3, <1>4, StatisticsAssumption DEF Texts
    <3>4. QED
      BY <3>2, <3>3
  <2>3. entry[m].journal = j /\ j # x.seen.journal => j \in left
    BY <2>1 DEF MovedMeanwhile
  <2>4. CASE x.seen.journal # x.want.journal
    <3>1. ToSet(a.counts) = {x.seen.journal, x.want.journal}
      BY <2>4, <1>5, ShortSequences DEF AfterUpdate, Recounts
    <3>2. QED
      BY <1>4, <2>2, <2>3, <2>4, <3>1
  <2>5. CASE x.seen.journal = x.want.journal
    <3>1. row.journal = j /\ entry[m].draft # row.draft
      BY <1>4, <1>5, <2>2, <2>5
    <3>2. x.want.draft # x.seen.draft /\ row.draft = x.want.draft
      BY <1>4, <3>1
    <3>3. CASE x.want.draft
      BY <2>5, <3>1, <3>3
    <3>4. CASE ~x.want.draft
      <4>1. a.counts = <<row.journal>>
        BY <1>5, <2>5, <3>2, <3>4 DEF AfterUpdate
      <4>2. QED
        BY <1>5, <3>1, <4>1, ShortSequences
    <3>5. QED
      BY <3>3, <3>4
  <2>6. QED
    BY <2>4, <2>5
<1>8. entry' \in [Moments -> Texts \union {None}]
  BY <1>3, <1>4 DEF CountInv, Types
<1>9. /\ Commits(left) /\ agenda' = [agenda EXCEPT ![r] = a]
      /\ about' = [about EXCEPT ![r] = x] /\ x.moment \in Moments
  BY <1>3 DEF CountInv, Types
<1>10. pc[r] \in Uncommitted
  BY <1>1 DEF Uncommitted
<1> HIDE DEF x, m, row, a, left
<1>11. QED
  BY <1>1, <1>2, <1>3, <1>6, <1>7, <1>8, <1>9, <1>10, CommittedKeeps

LEMMA DeleteWriteKeeps ==
    ASSUME CountInv, NEW r \in Requests, DeleteWrite(r)
    PROVE  CountInv'
<1> DEFINE x == about[r]
           m == x.moment
           a == [counts |-> <<x.seen.journal>>, next |-> "recalc"]
<1>1. /\ pc[r] = "delete" /\ UNCHANGED <<count, tally, journals, doomed>>
      /\ entry' = [entry EXCEPT ![m] = None]
      /\ Goes(r, NoSubject, a) /\ Commits(MovedMeanwhile(x))
  BY DEF DeleteWrite, locals
<1>2. m \in Moments /\ x.seen.journal \in Journals
  BY <1>1 DEF CountInv, Stage, Texts
<1>3. a \in Agendas /\ ToSet(a.counts) = {x.seen.journal} /\ a.next # "decide"
  BY <1>2, ShortSequences DEF Agendas
<1>4. ASSUME NEW j \in Affected \cap journals'
      PROVE  j \in MovedMeanwhile(x) \/ j \in ToSet(a.counts)
  <2>1. j \in Journals
    BY <1>1, <1>4 DEF CountInv, Types
  <2>2. entry[m] # None /\ entry[m].journal = j
    BY <1>1, <1>2, <1>4, <2>1, OneEntryChanges DEF CountInv
  <2>3. QED
    BY <1>3, <2>1, <2>2 DEF MovedMeanwhile
<1>5. entry' \in [Moments -> Texts \union {None}] /\ pc[r] \in Uncommitted
      /\ doomed' \in [Requests -> Doomed]
  BY <1>1 DEF CountInv, Types, Uncommitted
<1> HIDE DEF x, m, a
<1>6. QED
  BY <1>1, <1>3, <1>4, <1>5, TaskedKeeps

LEMMA DeleteJournalKeeps ==
    ASSUME CountInv, NEW r \in Requests, DeleteJournalWrite(r)
    PROVE  CountInv'
<1> DEFINE a == [counts |-> <<>>, next |-> "recalc"]
           j == doomed[r].journal
           gone == {m \in Moments : /\ entry[m] # None
                                    /\ m \in doomed[r].entries \/ entry[m].journal = j}
           left == {entry[m].journal : m \in gone} \ {j}
<1>1. /\ pc[r] = "journal" /\ UNCHANGED <<count, tally>> /\ journals' = journals \ {j}
      /\ entry' = [m \in Moments |-> IF m \in gone THEN None ELSE entry[m]]
      /\ doomed' = [doomed EXCEPT ![r] = NoDoom]
      /\ Goes(r, NoSubject, a) /\ Commits(left)
  BY DEF DeleteJournalWrite, locals
<1>2. a \in Agendas /\ a.next # "decide" /\ pc[r] \in Uncommitted
  BY <1>1, ShortSequences DEF Agendas, Uncommitted
<1>3. /\ entry' \in [Moments -> Texts \union {None}]
      /\ doomed' \in [Requests -> Doomed] /\ \A q \in Requests \ {r} : doomed'[q] = doomed[q]
  BY <1>1 DEF CountInv, Types, Doomed, NoDoom
<1>4. ASSUME NEW i \in Affected \cap journals' PROVE i \in left
  <2>1. i \in Journals /\ i # j
    BY <1>1, <1>4 DEF CountInv, Types
  <2>2. InJournal(i)' # InJournal(i)
    BY <1>4, <2>1, StatisticsAssumption DEF Affected
  <2>3. SUFFICES ASSUME \A m \in gone : entry[m].journal # i PROVE InJournal(i)' = InJournal(i)
    BY <2>1, <2>2
  <2>4. ASSUME NEW m \in Moments PROVE (m \in InJournal(i)') <=> m \in InJournal(i)
    BY <1>1, <2>3, <2>4 DEF InJournal, Published
  <2>5. QED
    BY <2>4 DEF InJournal
<1> HIDE DEF a, left
<1>5. QED
  BY <1>1, <1>2, <1>3, <1>4, TaskedKeeps

(* update_moment and delete_moment bring nothing up to date. *)
LEMMA MomentKeeps ==
    ASSUME CountInv, NEW left, Commits(left), Affected \subseteq left,
           UNCHANGED <<journals, count, pc, about, doomed, agenda, tally>>,
           entry' \in [Moments -> Texts \union {None}]
    PROVE  CountInv'
<1>1. /\ (\A q \in Requests : Fresh(q)') /\ Accounted' /\ behind' \subseteq Requests
      /\ \A q \in Requests : q \in behind' => pc'[q] \in Reading
  BY CommitKeeps
<1>2. QED
  BY <1>1 DEF CountInv, Types, Stage

LEMMA MoveDayKeeps ==
    ASSUME CountInv, NEW m \in Moments, NEW d, MoveDay(m, d)
    PROVE  CountInv'
<1>1. /\ UNCHANGED <<entry, journals, count, pc, about, doomed, agenda, tally>> /\ Commits({"streak"})
  BY DEF MoveDay, locals
<1>2. \A j : InJournal(j)' = InJournal(j)
  BY <1>1 DEF InJournal, Published
<1>3. Affected \subseteq {"streak"}
  BY <1>2 DEF Affected
<1>4. QED
  BY <1>1, <1>3, MomentKeeps DEF CountInv, Types

LEMMA DeleteMomentKeeps ==
    ASSUME CountInv, NEW m \in Moments, DeleteMoment(m)
    PROVE  CountInv'
<1>1. /\ UNCHANGED <<journals, count, pc, about, doomed, agenda, tally>> /\ Commits(Subjects)
      /\ entry' = [entry EXCEPT ![m] = None]
  BY DEF DeleteMoment, locals
<1>2. Affected \subseteq Subjects
  BY DEF Affected, Subjects
<1>3. entry' \in [Moments -> Texts \union {None}]
  BY <1>1 DEF CountInv, Types
<1>4. QED
  BY <1>1, <1>2, <1>3, MomentKeeps

-----------------------------------------------------------------------------
(* The steps of a request that change no entry.                             *)

(* What is left to show of such a step when r goes on or ends. *)
LEMMA RequestKeeps ==
    ASSUME CountInv, NEW r \in Requests, NEW x \in About, NEW a \in Agendas,
           a.next = "decide" => x \in Loaded, Goes(r, x, a),
           UNCHANGED <<entry, journals, count, doomed>>, tally' \in [Requests -> Tallies],
           \A q \in Requests \ {r} : tally'[q] = tally[q],
           r \notin behind', behind' \subseteq Requests, off \subseteq off' \union {"streak"},
           \A q \in Requests \ {r} : q \in behind' =>
               q \in behind \/ pc[q] = "computed",
           \A q \in Requests \ {r} : q \in behind => q \in behind',
           \A j \in journals : j \in WillCount(r) => j \in off' \/ j \in ToSet(a.counts)
    PROVE  CountInv'
<1>1. /\ agenda' \in [Requests -> Agendas] /\ about' \in [Requests -> About]
      /\ pc' \in [Requests -> Places]
      /\ agenda'[r] = a /\ pc'[r] = (IF a = Nothing THEN "idle" ELSE "tasks")
      /\ a.next = "decide" => about'[r] \in Loaded
      /\ \A q \in Requests \ {r} : agenda'[q] = agenda[q] /\ pc'[q] = pc[q]
                                   /\ about'[q] = about[q]
  BY GoesOn DEF CountInv
<1>2. Fresh(r)'
  BY <1>1 DEF Fresh
<1>3. WillCount(r)' = ToSet(a.counts)
  BY <1>1 DEF WillCount
<1>4. (\A q \in Requests : Fresh(q)') /\ Accounted'
  BY <1>1, <1>2, <1>3, StepKeeps
<1>5. Types'
  BY <1>1 DEF CountInv, Types
<1>6. \A q \in Requests : Stage(q)'
  <2>1. Stage(r)'
    BY <1>1 DEF Stage, Uncommitted
  <2>2. ASSUME NEW q \in Requests \ {r} PROVE Stage(q)'
    BY <1>1, <2>2 DEF Stage, CountInv, Reading
  <2>3. QED
    BY <2>1, <2>2
<1>7. QED
  BY <1>4, <1>5, <1>6 DEF CountInv

(* r ends, and leaves what it would have counted. *)
LEMMA EndKeeps ==
    ASSUME CountInv, NEW r \in Requests, NEW lost, Ends(r, lost),
           UNCHANGED <<entry, journals, count, doomed>>, tally' \in [Requests -> Tallies],
           \A q \in Requests \ {r} : tally'[q] = tally[q],
           \A j \in journals : j \in WillCount(r) => j \in lost
    PROVE  CountInv'
<1>1. NoSubject \in About /\ Nothing \in Agendas /\ Nothing.next # "decide"
  BY ShortSequences DEF NoSubject, About, Nothing, Agendas
<1>2. Goes(r, NoSubject, Nothing) /\ off' = off \union lost /\ behind' = behind \ {r}
  BY DEF Ends, GivesUp
<1>3. behind \subseteq Requests
  BY DEF CountInv, Types
<1>4. QED
  BY <1>1, <1>2, <1>3, RequestKeeps

(* What r has left to count is in its agenda. *)
LEMMA WillCountOfAgenda ==
    ASSUME CountInv, NEW r \in Requests
    PROVE  /\ WillCount(r) \subseteq ToSet(agenda[r].counts)
           /\ agenda[r].counts = <<>> => WillCount(r) = {}
<1>1. CASE agenda[r].counts = <<>>
  BY <1>1, ShortSequences DEF WillCount, CountInv, Stage
<1>2. CASE agenda[r].counts # <<>>
  BY <1>2, SubjectIsJournal DEF WillCount, CountInv
<1>3. QED
  BY <1>1, <1>2

(* A read or a load: r moves on and nothing else changes. *)
LEMMA ReadKeeps ==
    ASSUME CountInv, NEW r \in Requests, UNCHANGED <<entry, journals, count, off, tally>>,
           behind' = behind, r \notin behind, pc[r] # "counted", pc'[r] # "counted",
           \A q \in Requests \ {r} : pc'[q] = pc[q],
           \A q \in Requests : agenda'[q] = agenda[q]
    PROVE  (\A q \in Requests : Fresh(q)') /\ Accounted'
<1>1. Fresh(r)' /\ WillCount(r)' = WillCount(r)
  BY DEF Fresh, WillCount
<1>2. QED
  BY <1>1, StepKeeps

LEMMA UpdateReadKeeps ==
    ASSUME CountInv, NEW r \in Requests, NEW m \in Moments, NEW j \in Journals,
           NEW draft \in BOOLEAN, UpdateRead(r, m, j, draft)
    PROVE  CountInv'
<1> DEFINE x == [moment |-> m, seen |-> entry[m], want |-> [journal |-> j, draft |-> draft]]
<1>1. /\ pc[r] = "idle" /\ entry[m] # None /\ pc' = [pc EXCEPT ![r] = "update"]
      /\ about' = [about EXCEPT ![r] = x]
      /\ UNCHANGED <<entry, journals, count, doomed, agenda, tally, behind, off>>
  BY DEF UpdateRead, database, locals
<1>2. x \in Loaded /\ x \in About
  BY <1>1 DEF CountInv, Types, Loaded, About, Texts
<1> HIDE DEF x
<1>3. Types' /\ r \notin behind
  BY <1>1, <1>2 DEF CountInv, Types, Stage, Places, Reading
<1>4. pc'[r] = "update" /\ about'[r] = x
      /\ \A q \in Requests \ {r} : pc'[q] = pc[q] /\ about'[q] = about[q]
  BY <1>1 DEF CountInv, Types
<1>5. \A q \in Requests : Stage(q)'
  BY <1>1, <1>2, <1>3, <1>4 DEF Stage, CountInv, Uncommitted, Nothing
<1>6. QED
  BY <1>1, <1>3, <1>4, <1>5, ReadKeeps DEF CountInv

LEMMA DeleteReadKeeps ==
    ASSUME CountInv, NEW r \in Requests, NEW m \in Moments, DeleteRead(r, m)
    PROVE  CountInv'
<1> DEFINE x == [NoSubject EXCEPT !.moment = m, !.seen = entry[m]]
<1>1. /\ pc[r] = "idle" /\ entry[m] # None /\ pc' = [pc EXCEPT ![r] = "delete"]
      /\ about' = [about EXCEPT ![r] = x]
      /\ UNCHANGED <<entry, journals, count, doomed, agenda, tally, behind, off>>
  BY DEF DeleteRead, database, locals
<1>2. x \in About /\ x.moment \in Moments /\ x.seen \in Texts
  BY <1>1 DEF CountInv, Types, About, NoSubject
<1> HIDE DEF x
<1>3. Types' /\ r \notin behind /\ agenda[r].next # "decide"
  BY <1>1, <1>2 DEF CountInv, Types, Stage, Nothing, Places, Reading, Uncommitted
<1>4. pc'[r] = "delete" /\ about'[r] = x
      /\ \A q \in Requests \ {r} : pc'[q] = pc[q] /\ about'[q] = about[q]
  BY <1>1 DEF CountInv, Types
<1>5. \A q \in Requests : Stage(q)'
  BY <1>1, <1>2, <1>3, <1>4 DEF Stage, CountInv, Uncommitted, Nothing
<1>6. QED
  BY <1>1, <1>3, <1>4, <1>5, ReadKeeps DEF CountInv

LEMMA DeleteJournalReadKeeps ==
    ASSUME CountInv, NEW r \in Requests, NEW j \in Journals, DeleteJournalRead(r, j)
    PROVE  CountInv'
<1> DEFINE x == [journal |-> j, entries |-> {m \in Moments : entry[m] # None /\ entry[m].journal = j}]
<1>1. /\ pc[r] = "idle" /\ pc' = [pc EXCEPT ![r] = "journal"]
      /\ doomed' = [doomed EXCEPT ![r] = x]
      /\ UNCHANGED <<entry, journals, count, about, agenda, tally, behind, off>>
  BY DEF DeleteJournalRead, database, locals
<1>2. x \in Doomed /\ x.journal \in Journals
  BY DEF Doomed
<1> HIDE DEF x
<1>3. Types' /\ r \notin behind /\ agenda[r].next # "decide"
  BY <1>1, <1>2 DEF CountInv, Types, Stage, Nothing, Places, Reading, Uncommitted
<1>4. /\ pc'[r] = "journal" /\ doomed'[r] = x
      /\ \A q \in Requests \ {r} : pc'[q] = pc[q] /\ doomed'[q] = doomed[q]
  BY <1>1 DEF CountInv, Types
<1>5. \A q \in Requests : Stage(q)'
  BY <1>1, <1>2, <1>3, <1>4 DEF Stage, CountInv, Uncommitted, Nothing
<1>6. QED
  BY <1>1, <1>3, <1>4, <1>5, ReadKeeps DEF CountInv

LEMMA LoadJournalKeeps ==
    ASSUME CountInv, NEW r \in Requests, LoadJournal(r)
    PROVE  CountInv'
<1>1. /\ pc[r] = "tasks" /\ agenda[r].counts # <<>> /\ pc' = [pc EXCEPT ![r] = "counting"]
      /\ tally' = [tally EXCEPT ![r].seen = count[Subject(r)]]
      /\ UNCHANGED <<entry, journals, count, about, doomed, agenda, behind, off>>
  BY DEF LoadJournal, Recounting, database
<1>2. count[Subject(r)] \in Nat /\ r \notin behind
  BY <1>1, SubjectIsJournal DEF CountInv, Types, Stage, Reading
<1>3. Types'
  BY <1>1, <1>2 DEF CountInv, Types, Tallies, Places
<1>4. \A q \in Requests : Stage(q)'
  BY <1>1, <1>2 DEF CountInv, Stage, Types, Uncommitted
<1>5. pc'[r] = "counting" /\ \A q \in Requests \ {r} : tally'[q] = tally[q] /\ pc'[q] = pc[q]
  BY <1>1 DEF CountInv, Types
<1>6. Fresh(r)' /\ WillCount(r)' = WillCount(r)
  BY <1>1, <1>5 DEF Fresh, WillCount
<1>7. (\A q \in Requests : Fresh(q)') /\ Accounted'
  BY <1>1, <1>5, <1>6, StepKeeps
<1>8. QED
  BY <1>3, <1>4, <1>7 DEF CountInv

LEMMA CountKeeps ==
    ASSUME CountInv, NEW r \in Requests, Count(r)
    PROVE  CountInv'
<1>1. /\ pc[r] = "counting" /\ agenda[r].counts # <<>> /\ pc' = [pc EXCEPT ![r] = "counted"]
      /\ tally' = [tally EXCEPT ![r].found = Cardinality(InJournal(Subject(r)))]
      /\ UNCHANGED <<entry, journals, count, about, doomed, agenda, behind, off>>
  BY DEF Count, Found, database, CountInv, Stage
<1>3. r \notin behind
  BY <1>1 DEF CountInv, Stage, Reading
<1>4. Cardinality(InJournal(Subject(r))) \in Nat
  BY FoundIsNumber
<1>5. Types'
  BY <1>1, <1>4 DEF CountInv, Types, Tallies, Places
<1>6. \A q \in Requests : Stage(q)'
  BY <1>1 DEF CountInv, Stage, Types, Uncommitted, Reading
<1>7. tally'[r].found = Cardinality(InJournal(Subject(r)))
      /\ pc'[r] = "counted" /\ \A q \in Requests \ {r} : tally'[q] = tally[q] /\ pc'[q] = pc[q]
  BY <1>1 DEF CountInv, Types, Tallies
<1>8. \A j : InJournal(j)' = InJournal(j)
  BY <1>1 DEF InJournal, Published
<1>9. Fresh(r)' /\ WillCount(r)' = WillCount(r)
  BY <1>1, <1>3, <1>7, <1>8 DEF Fresh, WillCount, Subject
<1>10. (\A q \in Requests : Fresh(q)') /\ Accounted'
  BY <1>1, <1>7, <1>9, StepKeeps
<1>11. QED
  BY <1>5, <1>6, <1>10 DEF CountInv

(* The rest of the recounts is given up. *)
LEMMA StopKeeps ==
    ASSUME CountInv, NEW r \in Requests, StopsCounting(r), pc[r] \in {"tasks", "counting", "counted"},
           UNCHANGED <<entry, journals, count, doomed>>, tally' \in [Requests -> Tallies],
           \A q \in Requests \ {r} : tally'[q] = tally[q]
    PROVE  CountInv'
<1> DEFINE x == about[r]
           a == NotCounted(agenda[r])
<1>1. /\ Goes(r, x, a) /\ behind' = behind \ {r}
      /\ off' = off \union ToSet(agenda[r].counts)
  BY DEF StopsCounting, GivesUp
<1>2. a \in Agendas /\ x \in About /\ a.next = agenda[r].next
  BY ShortSequences DEF CountInv, Types, Agendas, NotCounted
<1>3. a.next = "decide" => x \in Loaded
  BY <1>2 DEF CountInv, Stage
<1>4. \A j \in journals : j \in WillCount(r) => j \in off'
  BY <1>1, WillCountOfAgenda
<1>5. behind' \subseteq Requests /\ r \notin behind'
  BY <1>1 DEF CountInv, Types
<1> HIDE DEF x, a
<1>6. QED
  BY <1>1, <1>2, <1>3, <1>4, <1>5, RequestKeeps

(* update_entry ends or goes on, with what it makes of the entry. *)
LEMMA DecidingKeeps ==
    ASSUME CountInv, NEW r \in Requests, pc[r] = "tasks", agenda[r].next = "decide",
           NEW row \in Texts, NEW lost, Decides(r, row, lost),
           \A j \in journals : j \in WillCount(r) => j \in lost,
           UNCHANGED <<entry, journals, count, tally, doomed>>
    PROVE  CountInv'
<1> DEFINE x == about[r]
           old == [x.seen EXCEPT !.journal = row.journal]
           a == AfterUpdate(old, row, row)
<1>1. r \notin behind /\ x \in Loaded /\ x \in About
  BY DEF CountInv, Stage, Types, Reading
<1>2. tally' \in [Requests -> Tallies] /\ behind \subseteq Requests
  BY DEF CountInv, Types
<1>3. CASE Ends(r, lost \union Reverted(x, row))
  <2>1. \A j \in journals : j \in WillCount(r) => j \in lost \union Reverted(x, row)
    OBVIOUS
  <2> HIDE DEF x
  <2>2. QED
    BY <1>2, <1>3, <2>1, EndKeeps
<1>4. CASE Goes(r, x, a) /\ GivesUp(r, lost)
  <2>1. old.journal = row.journal /\ row.journal \in Journals
    BY <1>1 DEF Loaded, Texts
  <2>2. a \in Agendas
    BY <2>1, AgendaOfUpdate
  <2>3. off' = off \union lost /\ behind' = behind \ {r}
    BY <1>4 DEF GivesUp
  <2> HIDE DEF x, a
  <2>4. QED
    BY <1>1, <1>2, <1>4, <2>2, <2>3, RequestKeeps
<1>5. QED
  BY <1>3, <1>4 DEF Decides

(* r goes on about the streak, by the entry it has loaded before. *)
LEMMA KnownKeeps ==
    ASSUME CountInv, NEW r \in Requests, pc[r] = "tasks", agenda[r].next = "bump",
           pc' = [pc EXCEPT ![r] = "published"],
           agenda' = [agenda EXCEPT ![r] = NotCounted(agenda[r])],
           off' = off \union ToSet(agenda[r].counts),
           behind' = behind \/ behind' = behind \union {r},
           UNCHANGED <<entry, journals, count, tally, about, doomed>>
    PROVE  CountInv'
<1>1. /\ NotCounted(agenda[r]) \in Agendas /\ NotCounted(agenda[r]).counts = <<>>
      /\ NotCounted(agenda[r]).next = "bump"
  BY ShortSequences DEF CountInv, Types, Agendas, NotCounted
<1>2. Types'
  BY <1>1 DEF CountInv, Types, Places
<1>3. /\ pc'[r] = "published" /\ agenda'[r] = NotCounted(agenda[r])
      /\ \A q \in Requests \ {r} : pc'[q] = pc[q] /\ agenda'[q] = agenda[q]
  BY DEF CountInv, Types
<1>4. \A q \in Requests : Stage(q)'
  <2>1. Stage(r)'
    BY <1>1, <1>3 DEF Stage, Uncommitted, Reading
  <2>2. ASSUME NEW q \in Requests \ {r} PROVE Stage(q)'
    BY <1>3, <2>2 DEF Stage, CountInv
  <2>3. QED
    BY <2>1, <2>2
<1>5. Fresh(r)' /\ \A j \in journals : j \in WillCount(r) => j \in off'
  BY <1>3, WillCountOfAgenda DEF Fresh
<1>6. (\A q \in Requests : Fresh(q)') /\ Accounted'
  BY <1>3, <1>5, StepKeeps
<1>7. QED
  BY <1>2, <1>4, <1>6 DEF CountInv

LEMMA CountNothingKeeps ==
    ASSUME CountInv, NEW r \in Requests, CountNothing(r)
    PROVE  CountInv'
<1>1. pc[r] = "tasks" /\ UNCHANGED <<entry, journals, count, tally, doomed>>
  BY DEF CountNothing, Recounting, database, locals
<1>2. tally' \in [Requests -> Tallies]
  BY <1>1 DEF CountInv, Types
<1>3. CASE StopsCounting(r)
  BY <1>1, <1>2, <1>3, StopKeeps
<1>4. CASE agenda[r].next = "decide" /\ Decides(r, about[r].want, ToSet(agenda[r].counts))
  <2>1. about[r].want \in Texts
    BY <1>4 DEF CountInv, Stage, Loaded
  <2>2. \A j \in journals : j \in WillCount(r) => j \in ToSet(agenda[r].counts)
    BY WillCountOfAgenda
  <2>3. QED
    BY <1>1, <1>4, <2>1, <2>2, DecidingKeeps
<1>5. CASE /\ agenda[r].next = "bump" /\ pc' = [pc EXCEPT ![r] = "published"]
           /\ agenda' = [agenda EXCEPT ![r] = NotCounted(agenda[r])]
           /\ off' = off \union ToSet(agenda[r].counts)
           /\ behind' = behind \/ behind' = behind \union {r}
           /\ UNCHANGED about
  BY <1>1, <1>5, KnownKeeps
<1>6. QED
  BY <1>3, <1>4, <1>5 DEF CountNothing

(* What is written is right if r is not behind; otherwise the journal is off, or *)
(* nothing is written.  It is off too when nothing is written for a count that   *)
(* has changed since it was loaded.                                              *)
LEMMA WriteCountKeeps ==
    ASSUME CountInv, NEW r \in Requests, WriteCount(r)
    PROVE  CountInv'
<1> DEFINE j == Subject(r)
<1>1. /\ pc[r] = "counted" /\ agenda[r].counts # <<>>
      /\ tally' = [tally EXCEPT ![r] = NoTally] /\ UNCHANGED <<entry, journals, doomed>>
  BY DEF WriteCount, CountInv, Stage
<1>2. /\ j \in Journals /\ ToSet(agenda[r].counts) = {j} \union ToSet(Tail(agenda[r].counts))
      /\ Tail(agenda[r].counts) \in Seq(Journals)
  BY <1>1, SubjectIsJournal DEF CountInv
<1>3. /\ tally' \in [Requests -> Tallies] /\ \A q \in Requests \ {r} : tally'[q] = tally[q]
  BY <1>1 DEF CountInv, Types, Tallies, NoTally
<1>4. \A i : InJournal(i)' = InJournal(i)
  BY <1>1 DEF InJournal, Published
<1>5. CASE j \notin journals
  <2>1. StopsCounting(r) /\ UNCHANGED count
    BY <1>5 DEF WriteCount
  <2>2. QED
    BY <1>1, <1>3, <2>1, StopKeeps
<1>6. CASE j \in journals
  <2> DEFINE a == Counted(agenda[r])
  <2>1. /\ count' = IF tally[r].found # tally[r].seen
                    THEN [count EXCEPT ![j] = tally[r].found] ELSE count
        /\ Goes(r, about[r], a)
        /\ off' = IF r \in behind THEN off \union (IF count' # count THEN {j} ELSE {})
                  ELSE IF count'[j] = tally[r].found THEN off \ {j} ELSE off \union {j}
        /\ behind' = behind \ {r}
    BY <1>6 DEF WriteCount
  <2>2. a \in Agendas /\ a.next = agenda[r].next /\ a.counts = Tail(agenda[r].counts)
    BY <1>2 DEF CountInv, Types, Agendas, Counted
  <2>3. about[r] \in About /\ (a.next = "decide" => about[r] \in Loaded)
    BY <2>2 DEF CountInv, Types, Stage
  <2> HIDE DEF a
  <2>4. /\ agenda' \in [Requests -> Agendas] /\ about' \in [Requests -> About]
        /\ pc' \in [Requests -> Places]
        /\ agenda'[r] = a /\ pc'[r] = (IF a = Nothing THEN "idle" ELSE "tasks")
        /\ a.next = "decide" => about'[r] \in Loaded
        /\ \A q \in Requests \ {r} : agenda'[q] = agenda[q] /\ pc'[q] = pc[q]
                                     /\ about'[q] = about[q]
    BY <2>1, <2>2, <2>3, GoesOn DEF CountInv
  <2>5. count' \in [Journals -> Nat] /\ \A i \in Journals \ {j} : count'[i] = count[i]
    BY <1>2, <2>1 DEF CountInv, Types, Tallies
  <2>6. Types'
    BY <1>1, <1>3, <2>1, <2>4, <2>5 DEF CountInv, Types
  <2>7. \A q \in Requests : Stage(q)'
    <3>1. Stage(r)'
      BY <2>1, <2>4 DEF Stage, Uncommitted
    <3>2. ASSUME NEW q \in Requests \ {r} PROVE Stage(q)'
      BY <1>1, <2>1, <2>4, <3>2 DEF Stage, CountInv
    <3>3. QED
      BY <3>1, <3>2
  <2>8. \A q \in Requests : Fresh(q)'
    <3>1. Fresh(r)'
      BY <2>4 DEF Fresh
    <3>2. ASSUME NEW q \in Requests \ {r} PROVE Fresh(q)'
      <4>1. (q \in behind' <=> q \in behind) /\ Subject(q)' = Subject(q)
        BY <2>1, <2>4 DEF Subject
      <4>2. QED
        BY <1>3, <1>4, <2>4, <4>1 DEF Fresh, CountInv
    <3>3. QED
      BY <3>1, <3>2
  <2>9. Accounted'
    <3>1. ASSUME NEW i \in journals' PROVE i \in off' \/ Right(i)' \/ \E q \in Requests : i \in WillCount(q)'
      <4>0. i \in journals /\ i \in Journals
        BY <1>1, <3>1 DEF CountInv, Types
      <4>1. CASE i = j /\ r \notin behind
        <5>1. tally[r].found = Cardinality(InJournal(j))
          BY <1>1, <4>1 DEF CountInv, Fresh
        <5>2. count'[i] = tally[r].found => Right(i)'
          BY <1>4, <4>1, <5>1 DEF Right
        <5>3. count'[j] # tally[r].found => j \in off'
          BY <2>1, <4>1
        <5>4. QED
          BY <4>1, <5>2, <5>3
      <4>2. CASE i = j /\ r \in behind /\ count' # count
        BY <2>1, <4>2
      <4>3. CASE i # j \/ (r \in behind /\ count' = count)
        <5>1. Right(i) => Right(i)'
          BY <1>4, <2>5, <4>0, <4>3 DEF Right
        <5>2. i \in off => i \in off'
          BY <2>1, <4>3
        <5>3. i \in WillCount(r) => i \in WillCount(r)'
          BY <1>1, <1>2, <2>1, <2>2, <2>4, <4>3 DEF WillCount
        <5>4. ASSUME NEW q \in Requests \ {r}, i \in WillCount(q) PROVE i \in WillCount(q)'
          BY <2>1, <2>4, <5>4 DEF WillCount
        <5>5. QED
          <6>1. i \in off \/ Right(i) \/ \E q \in Requests : i \in WillCount(q)
            BY <4>0 DEF CountInv, Accounted
          <6>2. \A q \in Requests : i \in WillCount(q) => i \in WillCount(q)'
            BY <5>3, <5>4
          <6>3. QED
            BY <5>1, <5>2, <6>1, <6>2
      <4>4. QED
        BY <4>1, <4>2, <4>3
    <3>2. QED
      BY <3>1 DEF Accounted
  <2>10. QED
    BY <2>6, <2>7, <2>8, <2>9 DEF CountInv
<1>7. QED
  BY <1>5, <1>6

-----------------------------------------------------------------------------
(* The steps about the streak: the recounts of the request are over.        *)

(* r goes on to the next read or write about the streak. *)
LEMMA WaitKeeps ==
    ASSUME CountInv, NEW r \in Requests, NEW place \in {"published", "dated", "creating", "computed"},
           agenda[r].counts = <<>>, pc[r] \in {"tasks", "published", "dated", "creating"},
           pc' = [pc EXCEPT ![r] = place],
           UNCHANGED <<entry, journals, count, about, doomed, agenda, tally, off, behind>>
    PROVE  CountInv'
<1>1. Types'
  BY DEF CountInv, Types, Places
<1>2. pc'[r] = place /\ \A q \in Requests \ {r} : pc'[q] = pc[q]
  BY DEF CountInv, Types
<1>3. \A q \in Requests : Stage(q)'
  BY <1>2 DEF CountInv, Stage, Uncommitted, Reading
<1>4. Fresh(r)' /\ WillCount(r) = {}
  BY <1>2, WillCountOfAgenda DEF Fresh
<1>5. (\A q \in Requests : Fresh(q)') /\ Accounted'
  BY <1>2, <1>4, StepKeeps
<1>6. QED
  BY <1>1, <1>3, <1>5 DEF CountInv

LEMMA DecideKeeps ==
    ASSUME CountInv, NEW r \in Requests, Decide(r)
    PROVE  CountInv'
<1> DEFINE row == entry[about[r].moment]
<1>1. /\ pc[r] = "tasks" /\ agenda[r].counts = <<>> /\ agenda[r].next = "decide"
      /\ UNCHANGED <<entry, journals, count, tally, doomed>>
  BY DEF Decide, At, database, locals
<1>2. WillCount(r) = {} /\ about[r] \in Loaded
  BY <1>1, WillCountOfAgenda DEF CountInv, Stage
<1>3. tally' \in [Requests -> Tallies]
  BY <1>1 DEF CountInv, Types
<1>4. CASE \E lost : Ends(r, lost)
  BY <1>1, <1>2, <1>3, <1>4, EndKeeps
<1>5. CASE row # None /\ Decides(r, row, {})
  <2>1. row \in Texts
    BY <1>2, <1>5 DEF CountInv, Types, Loaded
  <2> HIDE DEF row
  <2>2. QED
    BY <1>1, <1>2, <1>5, <2>1, DecidingKeeps
<1>6. QED
  BY <1>4, <1>5 DEF Decide

LEMMA RefreshKeeps ==
    ASSUME CountInv, NEW r \in Requests, Refresh(r)
    PROVE  CountInv'
<1> DEFINE x == about[r]
           row == entry[x.moment]
           y == [x EXCEPT !.want = row]
           b == AfterUpdate(x.seen, x.want, row)
<1>1. pc[r] = "committed" /\ UNCHANGED <<entry, journals, count, tally, doomed>>
  BY DEF Refresh, database, locals
<1>2. /\ x \in About /\ x.moment \in Moments /\ x.want \in Texts /\ r \notin behind
      /\ behind \subseteq Requests
  BY <1>1 DEF CountInv, Stage, Types, Reading
<1>3. tally' \in [Requests -> Tallies]
  BY <1>1 DEF CountInv, Types
<1>4. \A j : j \in WillCount(r) => j \in Covers(agenda[r])
  BY WillCountOfAgenda DEF Covers
<1>5. CASE Ends(r, Covers(agenda[r]))
  BY <1>1, <1>3, <1>4, <1>5, EndKeeps
<1>6. ASSUME row # None, NEW a \in AfterCreate(row),
             Goes(r, x, a), GivesUp(r, Covers(agenda[r]) \ Covers(a))
      PROVE  CountInv'
  <2>1. row \in Texts /\ row.journal \in Journals
    BY <1>2, <1>6 DEF CountInv, Types, Texts
  <2>2. a \in Agendas /\ a.next # "decide"
    BY <1>6, <2>1, AgendaOfCreate
  <2>3. off' = off \union (Covers(agenda[r]) \ Covers(a)) /\ behind' = behind \ {r}
    BY <1>6 DEF GivesUp
  <2>4. \A j \in journals : j \in WillCount(r) => j \in off' \/ j \in ToSet(a.counts)
    BY <1>4, <2>3, StatisticsAssumption DEF CountInv, Types, Covers
  <2> HIDE DEF x
  <2>5. QED
    BY <1>1, <1>2, <1>3, <1>6, <2>2, <2>3, <2>4, RequestKeeps
<1>7. CASE /\ row # None /\ x.seen # None /\ Goes(r, y, b)
           /\ GivesUp(r, (Covers(agenda[r]) \ Covers(b)) \union Reverted(x, row))
  <2>1. row \in Texts /\ x.seen \in Texts
    BY <1>2, <1>7 DEF CountInv, Types, About
  <2>2. y \in About /\ y \in Loaded
    BY <1>2, <2>1 DEF About, Loaded
  <2>3. b \in Agendas
    BY <1>2, <2>1, AgendaOfUpdate DEF Texts
  <2>4. /\ off' = off \union ((Covers(agenda[r]) \ Covers(b)) \union Reverted(x, row))
        /\ behind' = behind \ {r}
    BY <1>7 DEF GivesUp
  <2>5. \A j \in journals : j \in WillCount(r) => j \in off' \/ j \in ToSet(b.counts)
    BY <1>4, <2>4, StatisticsAssumption DEF CountInv, Types, Covers
  <2> HIDE DEF x, y, b
  <2>6. QED
    BY <1>1, <1>2, <1>3, <1>7, <2>2, <2>3, <2>4, <2>5, RequestKeeps
<1>8. QED
  BY <1>5, <1>6, <1>7 DEF Refresh

LEMMA LoadEntryKeeps ==
    ASSUME CountInv, NEW r \in Requests, LoadEntry(r) \/ LoadMoment(r)
    PROVE  CountInv'
<1>1. /\ pc[r] \in {"tasks", "published"} /\ agenda[r].counts = <<>>
      /\ UNCHANGED <<entry, journals, count, tally, doomed>>
  BY DEF LoadEntry, LoadMoment, At, database, locals, CountInv, Stage
<1>2. WillCount(r) = {} /\ tally' \in [Requests -> Tallies]
  BY <1>1, WillCountOfAgenda DEF CountInv, Types
<1>3. CASE Ends(r, {})
  BY <1>1, <1>2, <1>3, EndKeeps
<1>4. CASE /\ \E place \in {"published", "dated"} : pc' = [pc EXCEPT ![r] = place]
           /\ UNCHANGED <<about, agenda, off, behind>>
  BY <1>1, <1>4, WaitKeeps
<1>5. QED
  BY <1>3, <1>4 DEF LoadEntry, LoadMoment

LEMMA LoadStreakKeeps ==
    ASSUME CountInv, NEW r \in Requests, LoadStreak(r)
    PROVE  CountInv'
<1> DEFINE a == [counts |-> <<>>, next |-> "recalc"]
<1>1. /\ pc[r] = "dated" /\ agenda[r].counts = <<>>
      /\ UNCHANGED <<entry, journals, count, tally, doomed>>
  BY DEF LoadStreak, database, CountInv, Stage
<1>2. WillCount(r) = {}
  BY <1>1, WillCountOfAgenda
<1>3. tally' \in [Requests -> Tallies] /\ behind \subseteq Requests
  BY <1>1 DEF CountInv, Types
<1>4. CASE Goes(r, NoSubject, a) /\ GivesUp(r, {})
  <2>1. a \in Agendas /\ a.next # "decide" /\ NoSubject \in About
    BY ShortSequences DEF Agendas, NoSubject, About
  <2>2. off' = off /\ behind' = behind \ {r}
    BY <1>4 DEF GivesUp
  <2> HIDE DEF a
  <2>3. QED
    BY <1>1, <1>2, <1>3, <1>4, <2>1, <2>2, RequestKeeps
<1>5. CASE /\ \E place \in {"creating", "computed"} : pc' = [pc EXCEPT ![r] = place]
           /\ UNCHANGED <<about, agenda, off, behind>>
  BY <1>1, <1>5, WaitKeeps
<1>6. QED
  BY <1>4, <1>5 DEF LoadStreak

LEMMA CreateStreakKeeps ==
    ASSUME CountInv, NEW r \in Requests, CreateStreak(r)
    PROVE  CountInv'
<1>1. pc[r] = "creating" /\ UNCHANGED <<entry, journals, count, tally, doomed>>
  BY DEF CreateStreak
<1>2. agenda[r].counts = <<>> /\ WillCount(r) = {}
  BY <1>1, WillCountOfAgenda DEF CountInv, Stage
<1>3. tally' \in [Requests -> Tallies]
  BY <1>1 DEF CountInv, Types
<1>4. CASE Ends(r, {"streak"})
  BY <1>1, <1>2, <1>3, <1>4, EndKeeps
<1>5. CASE pc' = [pc EXCEPT ![r] = "dated"] /\ UNCHANGED <<about, agenda, off, behind>>
  BY <1>1, <1>2, <1>5, WaitKeeps
<1>6. QED
  BY <1>4, <1>5 DEF CreateStreak

LEMMA ReadDaysKeeps ==
    ASSUME CountInv, NEW r \in Requests, ReadDays(r)
    PROVE  CountInv'
<1>1. /\ pc[r] = "tasks" /\ agenda[r].counts = <<>>
      /\ UNCHANGED <<entry, journals, count, tally, doomed>>
  BY DEF ReadDays, At, database
<1>2. WillCount(r) = {}
  BY <1>1, WillCountOfAgenda
<1>3. tally' \in [Requests -> Tallies]
  BY <1>1 DEF CountInv, Types
<1>4. CASE Ends(r, {})
  BY <1>1, <1>2, <1>3, <1>4, EndKeeps
<1>5. CASE pc' = [pc EXCEPT ![r] = "computed"] /\ UNCHANGED <<about, agenda, off, behind>>
  BY <1>1, <1>3, <1>5, WaitKeeps
<1>6. QED
  BY <1>4, <1>5 DEF ReadDays

LEMMA WriteStreakKeeps ==
    ASSUME CountInv, NEW r \in Requests, WriteStreak(r)
    PROVE  CountInv'
<1>1. /\ pc[r] = "computed" /\ UNCHANGED <<entry, journals, count, tally, doomed>>
      /\ Goes(r, NoSubject, Nothing)
      /\ off \subseteq off' \union {"streak"}
      /\ behind' = behind \ {r} \/ behind' = (behind \ {r}) \union Increments(r)
  BY DEF WriteStreak, GivesUp
<1>2. agenda[r].counts = <<>> /\ WillCount(r) = {}
  BY <1>1, WillCountOfAgenda DEF CountInv, Stage
<1>3. tally' \in [Requests -> Tallies] /\ behind \subseteq Requests
  BY <1>1 DEF CountInv, Types
<1>4. NoSubject \in About /\ Nothing \in Agendas /\ Nothing.next # "decide"
  BY ShortSequences DEF NoSubject, About, Nothing, Agendas
<1>5. /\ behind' \subseteq Requests /\ r \notin behind'
      /\ \A q \in Requests \ {r} : (q \in behind => q \in behind')
             /\ (q \in behind' => q \in behind \/ pc[q] = "computed")
  BY <1>1, <1>3 DEF Increments
<1>6. QED
  BY <1>1, <1>2, <1>3, <1>4, <1>5, RequestKeeps

LEMMA StepFailsKeeps ==
    ASSUME CountInv, NEW r \in Requests, StepFails(r)
    PROVE  CountInv'
<1>1. /\ pc[r] \in Places \ Uncommitted
      /\ tally' = [tally EXCEPT ![r] = NoTally] /\ UNCHANGED <<entry, journals, count, doomed>>
  BY DEF StepFails, database, Uncommitted, CountInv, Types
<1>2. tally' \in [Requests -> Tallies] /\ \A q \in Requests \ {r} : tally'[q] = tally[q]
  BY <1>1 DEF CountInv, Types, Tallies, NoTally
<1>3. CASE pc[r] # "committed" /\ agenda[r].counts # <<>> /\ StopsCounting(r)
  <2>1. pc[r] \in {"tasks", "counting", "counted"}
    BY <1>1, <1>3 DEF CountInv, Stage, Places, Uncommitted
  <2>2. QED
    BY <1>1, <1>2, <1>3, <2>1, StopKeeps
<1>4. CASE Ends(r, Covers(agenda[r]))
  <2>1. WillCount(r) \subseteq Covers(agenda[r])
    BY WillCountOfAgenda DEF Covers
  <2>2. QED
    BY <1>1, <1>2, <1>4, <2>1, EndKeeps
<1>5. QED
  BY <1>3, <1>4 DEF StepFails

LEMMA UpdateFailsKeeps ==
    ASSUME CountInv, NEW r \in Requests, pc[r] = "update", Ends(r, {}),
           UNCHANGED <<entry, journals, count, tally, doomed>>
    PROVE  CountInv'
<1>1. WillCount(r) = {}
  BY ShortSequences DEF WillCount, CountInv, Stage, Nothing, Uncommitted
<1>2. tally' \in [Requests -> Tallies]
  BY DEF CountInv, Types
<1>3. QED
  BY <1>1, <1>2, EndKeeps

-----------------------------------------------------------------------------
(* Theorem: the invariant holds, and with it CountIsRight.                  *)

LEMMA InitCounts == Init => CountInv
<1> SUFFICES ASSUME Init PROVE CountInv
  OBVIOUS
<1>1. NoSubject \in About /\ Nothing \in Agendas /\ Nothing.next = "none"
  BY ShortSequences DEF NoSubject, About, Nothing, Agendas
<1>2. Types
  BY <1>1 DEF Init, Types, Tallies, NoTally, Places, Doomed, NoDoom
<1>3. \A r \in Requests : Stage(r) /\ Fresh(r)
  BY <1>1 DEF Init, Stage, Fresh, Uncommitted
<1>4. \A j \in journals : Right(j)
  <2>1. \A j : InJournal(j) = {}
    BY DEF Init, InJournal, Published
  <2>2. QED
    BY <2>1, FS_EmptySet DEF Right, Init
<1>5. QED
  BY <1>2, <1>3, <1>4 DEF CountInv, Accounted

LEMMA NextCounts == CountInv /\ [Next]_vars => CountInv'
<1> SUFFICES ASSUME CountInv, [Next]_vars PROVE CountInv'
  OBVIOUS
<1>1. CASE UNCHANGED vars
  BY <1>1 DEF vars, CountInv, Types, Stage, Fresh, Subject, Accounted, Right, WillCount,
              InJournal, Published
<1>2. ASSUME NEW r \in Requests, RequestStep(r) PROVE CountInv'
  <2>1. CASE \E m \in Moments, j \in Journals, draft \in BOOLEAN :
                \/ \E d \in Days : Create(r, m, j, d, draft)
                \/ UpdateRead(r, m, j, draft)
    BY <2>1, CreateKeeps, UpdateReadKeeps
  <2>2. CASE (\E m \in Moments : DeleteRead(r, m)) \/ \E j \in Journals : DeleteJournalRead(r, j)
    BY <2>2, DeleteReadKeeps, DeleteJournalReadKeeps
  <2>3. CASE UpdateWrite(r)
    <3>1. CASE Ends(r, {}) /\ UNCHANGED entry
      <4>1. pc[r] = "update" /\ UNCHANGED <<journals, count, tally, doomed>>
        BY <2>3 DEF UpdateWrite, locals
      <4>2. QED
        BY <3>1, <4>1, UpdateFailsKeeps
    <3>2. CASE ~(Ends(r, {}) /\ UNCHANGED entry)
      BY <2>3, <3>2, UpdateWriteKeeps DEF UpdateWrite
    <3>3. QED
      BY <3>1, <3>2
  <2>4. CASE DeleteWrite(r) \/ DeleteJournalWrite(r) \/ Refresh(r)
    BY <2>4, DeleteWriteKeeps, DeleteJournalKeeps, RefreshKeeps
  <2>5. CASE LoadJournal(r) \/ Count(r) \/ CountNothing(r) \/ WriteCount(r)
    BY <2>5, LoadJournalKeeps, CountKeeps, CountNothingKeeps, WriteCountKeeps
  <2>6. CASE Decide(r) \/ LoadEntry(r) \/ LoadMoment(r) \/ LoadStreak(r) \/ CreateStreak(r) \/ ReadDays(r) \/ WriteStreak(r)
    BY <2>6, DecideKeeps, LoadEntryKeeps, LoadStreakKeeps, CreateStreakKeeps, ReadDaysKeeps, WriteStreakKeeps
  <2>7. CASE StepFails(r)
    BY <2>7, StepFailsKeeps
  <2>8. QED
    BY <1>2, <2>1, <2>2, <2>3, <2>4, <2>5, <2>6, <2>7 DEF RequestStep
<1>3. ASSUME NEW m \in Moments, NEW d \in Days, MoveDay(m, d) PROVE CountInv'
  BY <1>3, MoveDayKeeps
<1>4. ASSUME NEW m \in Moments, DeleteMoment(m) PROVE CountInv'
  BY <1>4, DeleteMomentKeeps
<1>5. QED
  BY <1>1, <1>2, <1>3, <1>4 DEF Next

LEMMA CountsFollow == CountInv => CountIsRight
<1> SUFFICES ASSUME CountInv, NEW j \in journals, j \notin off, Settled(j)
             PROVE  count[j] = Cardinality(InJournal(j))
  BY DEF CountIsRight
<1>1. \A r \in Requests : j \notin WillCount(r)
  BY WillCountOfAgenda DEF Settled, Covers
<1>2. QED
  BY <1>1 DEF CountInv, Accounted, Right

(* However many requests move, publish, withdraw and delete entries and journals at *)
(* the same time, the entry_count of a journal is right once they have ended, unless *)
(* a change was left without a recount (off: the cases listed at CountIsRight) and   *)
(* nobody has recounted since.                                                       *)
THEOREM CountsAreRight == Spec => []CountIsRight
<1>1. Spec => []CountInv
  BY InitCounts, NextCounts, PTL DEF Spec
<1>2. QED
  BY <1>1, CountsFollow, PTL

-----------------------------------------------------------------------------
(* Numbers and days.                                                        *)

LEMMA LeastNumber ==
    ASSUME NEW T, T \subseteq Nat, T # {}
    PROVE  \E n \in T : \A k \in T : n <= k
<1>1. PICK n \in T : \A k \in T : <<k, n>> \notin OpToRel(<, Nat)
  BY NatLessThanWellFounded, WFMin
<1>2. \A k \in T : ~(k < n)
  BY <1>1 DEF OpToRel
<1>3. QED
  BY <1>2

(* Induction over a set of numbers. *)
LEMMA AllNumbers ==
    ASSUME NEW T, 0 \in T, \A n \in Nat : n \in T => n + 1 \in T
    PROVE  Nat \subseteq T
<1>1. SUFFICES ASSUME Nat \ T # {} PROVE FALSE
  OBVIOUS
<1>2. PICK n \in Nat \ T : \A k \in Nat \ T : n <= k
  BY <1>1, LeastNumber
<1>3. n - 1 \in Nat /\ n - 1 \notin Nat \ T
  BY <1>2
<1>4. n - 1 + 1 \in T
  BY <1>3
<1>5. QED
  BY <1>2, <1>4

LEMMA LatestDay ==
    ASSUME NEW b \in Nat, NEW D \in SUBSET (1..b), D # {}
    PROVE  Max(D) \in D /\ \A d \in D : d <= Max(D)
<1> DEFINE T == {n \in Nat : \A d \in D : d <= n}
<1>1. PICK n \in T : \A k \in T : n <= k
  <2>1. b \in T
    OBVIOUS
  <2>2. QED
    BY <2>1, LeastNumber
<1>2. n \in D
  <2>1. SUFFICES ASSUME n \notin D PROVE FALSE
    OBVIOUS
  <2>2. \A d \in D : d \in Int /\ d < n
    BY <1>1, <2>1
  <2>3. n \in Nat \ {0}
    <3>1. PICK d \in D : TRUE
      OBVIOUS
    <3>2. d \in 1..b /\ d < n
      BY <2>2, <3>1
    <3>3. QED
      BY <1>1, <3>2
  <2>4. n - 1 \in T
    BY <2>2, <2>3
  <2>5. QED
    BY <1>1, <2>4
<1>3. \E x \in D : \A y \in D : x >= y
  BY <1>1, <1>2
<1>4. Max(D) \in D /\ \A y \in D : Max(D) >= y
  BY <1>3 DEF Max
<1>5. QED
  BY <1>4

-----------------------------------------------------------------------------
(* The pass of _recalculate_streak_metadata.                                *)

(* f holds the pass, from the state first, over the k days before latest. *)
IsPass(f, D, first, latest, k) ==
    f = [n \in 0..k |->
            IF n = 0 THEN first
            ELSE IF latest - n \in D THEN Extended(f[n - 1], latest - n) ELSE f[n - 1]]

LEMMA PassExists ==
    ASSUME NEW D, NEW first, NEW latest, NEW k \in Nat
    PROVE  \E f : IsPass(f, D, first, latest, k)
<1> DEFINE Value(f, n) == IF n = 0 THEN first
                          ELSE IF latest - n \in D THEN Extended(f[n - 1], latest - n) ELSE f[n - 1]
           T == {i \in Nat : \E f : f = [n \in 0..i |-> Value(f, n)]}
<1>1. 0 \in T
  <2> DEFINE f == [n \in 0..0 |-> first]
  <2>1. \A n \in 0..0 : first = Value(f, n)
    OBVIOUS
  <2>2. f = [n \in 0..0 |-> Value(f, n)]
    BY <2>1
  <2>3. QED
    BY <2>2
<1>2. ASSUME NEW i \in Nat, i \in T PROVE i + 1 \in T
  <2>1. PICK f : f = [n \in 0..i |-> Value(f, n)]
    BY <1>2
  <2> DEFINE new == IF latest - (i + 1) \in D THEN Extended(f[i], latest - (i + 1)) ELSE f[i]
             g == [n \in 0..(i + 1) |-> IF n = i + 1 THEN new ELSE f[n]]
  <2>2. \A n \in 0..i : g[n] = f[n]
    OBVIOUS
  <2>3. ASSUME NEW n \in 0..(i + 1) PROVE (IF n = i + 1 THEN new ELSE f[n]) = Value(g, n)
    <3>1. CASE n = i + 1
      <4>1. g[n - 1] = f[i] /\ n # 0
        BY <2>2, <3>1
      <4>2. QED
        BY <3>1, <4>1
    <3>2. CASE n # i + 1
      <4>1. n \in 0..i /\ (n = 0 \/ n - 1 \in 0..i)
        BY <3>2
      <4>2. f[n] = Value(f, n)
        BY <2>1, <4>1
      <4>3. Value(f, n) = Value(g, n)
        BY <2>2, <4>1
      <4>4. QED
        BY <3>2, <4>2, <4>3
    <3>3. QED
      BY <3>1, <3>2
  <2>4. g = [n \in 0..(i + 1) |-> Value(g, n)]
    BY <2>3
  <2> HIDE DEF g
  <2>5. \E h : h = [n \in 0..(i + 1) |-> Value(h, n)]
    BY <2>4
  <2>6. QED
    BY <2>5
<1> HIDE DEF T
<1>3. Nat \subseteq T
  BY <1>1, <1>2, AllNumbers
<1>4. QED
  BY <1>3 DEF T, IsPass

FirstDay(latest) == [current |-> 1, longest |-> 1, last |-> latest, start |-> latest,
                     run |-> 1, broken |-> FALSE]

LEMMA PassSteps ==
    ASSUME NEW D, Max(D) \in Nat
    PROVE  /\ Passes(D)[0] = FirstDay(Max(D))
           /\ \A n \in 1..Max(D) : Passes(D)[n] =
                  IF Max(D) - n \in D THEN Extended(Passes(D)[n - 1], Max(D) - n)
                  ELSE Passes(D)[n - 1]
<1> DEFINE latest == Max(D)
           Value(f, n) == IF n = 0 THEN FirstDay(latest)
                          ELSE IF latest - n \in D THEN Extended(f[n - 1], latest - n) ELSE f[n - 1]
<1>1. Passes(D) = CHOOSE f : f = [n \in 0..latest |-> Value(f, n)]
  BY DEF Passes, FirstDay
<1>2. \E f : f = [n \in 0..latest |-> Value(f, n)]
  <2>1. \E f : IsPass(f, D, FirstDay(latest), latest, latest)
    BY PassExists
  <2>2. QED
    BY <2>1 DEF IsPass
<1>3. Passes(D) = [n \in 0..latest |-> Value(Passes(D), n)]
  BY <1>1, <1>2
<1> HIDE DEF latest
<1>4. QED
  BY <1>3 DEF latest

(* The days from a to b are all in E. *)
Through(a, b, E) == \A x \in Int : a <= x /\ x <= b => x \in E

LEMMA ThroughIsInterval ==
    ASSUME NEW a \in Int, NEW b \in Int, NEW E
    PROVE  Through(a, b, E) <=> a..b \subseteq E
BY DEF Through

PassStates == [current : Nat, longest : Nat, last : Nat, start : Nat, run : Nat, broken : BOOLEAN]

(* What the pass has found of the days E it has been over, the latest being latest. *)
Finds(s, E, latest) ==
    /\ s \in PassStates /\ latest \in E
    /\ s.last \in E /\ \A e \in E : e >= s.last /\ e <= latest
    /\ s.run >= 1 /\ s.run <= s.longest
    /\ Through(s.last, s.last + s.run - 1, E) /\ s.last + s.run \notin E
    /\ \E e \in E : Through(e, e + s.longest - 1, E)
    /\ \A e \in E : ~Through(e, e + s.longest, E)
    /\ s.start <= latest /\ s.current = latest - s.start + 1 /\ Through(s.start, latest, E)
    /\ IF s.broken THEN s.start - 1 \notin E /\ s.start > s.last ELSE s.start = s.last

LEMMA ExtendedFields ==
    ASSUME NEW s \in PassStates, NEW d \in Nat
    PROVE  LET t == Extended(s, d)
               adjacent == s.last - d = 1
           IN  /\ t \in PassStates /\ t.last = d
               /\ adjacent => /\ t.run = s.run + 1
                              /\ t.longest = IF s.longest > s.run + 1 THEN s.longest ELSE s.run + 1
               /\ ~adjacent => t.run = 1 /\ t.longest = s.longest
               /\ t.broken = ~(adjacent /\ ~s.broken)
               /\ t.current = (IF adjacent /\ ~s.broken THEN s.current + 1 ELSE s.current)
               /\ t.start = (IF adjacent /\ ~s.broken THEN d ELSE s.start)
<1> DEFINE t == Extended(s, d)
           adjacent == s.last - d = 1
<1>1. t = [s EXCEPT !.last = d, !.broken = ~(adjacent /\ ~s.broken),
                  !.run = IF adjacent THEN @ + 1 ELSE 1,
                  !.longest = IF adjacent THEN LongerOf(@, s.run + 1) ELSE @,
                  !.current = IF adjacent /\ ~s.broken THEN @ + 1 ELSE @,
                  !.start = IF adjacent /\ ~s.broken THEN d ELSE @]
  BY DEF Extended
<1>2. t = [current |-> IF adjacent /\ ~s.broken THEN s.current + 1 ELSE s.current,
           longest |-> IF adjacent THEN LongerOf(s.longest, s.run + 1) ELSE s.longest,
           last |-> d,
           start |-> IF adjacent /\ ~s.broken THEN d ELSE s.start,
           run |-> IF adjacent THEN s.run + 1 ELSE 1,
           broken |-> ~(adjacent /\ ~s.broken)]
  BY <1>1 DEF PassStates
<1>3. LongerOf(s.longest, s.run + 1) = IF s.longest > s.run + 1 THEN s.longest ELSE s.run + 1
  BY DEF LongerOf
<1>4. s.current \in Nat /\ s.longest \in Nat /\ s.start \in Nat /\ s.run \in Nat
  BY DEF PassStates
<1>5. t \in PassStates
  BY <1>2, <1>3, <1>4 DEF PassStates
<1> HIDE DEF t
<1>6. QED
  BY <1>2, <1>3, <1>4, <1>5 DEF t

LEMMA ExtendedFinds ==
    ASSUME NEW latest \in Nat, NEW E \in SUBSET Nat, NEW s, Finds(s, E, latest),
           NEW d \in Nat, \A e \in E : d < e
    PROVE  Finds(Extended(s, d), E \union {d}, latest)
<1> DEFINE t == Extended(s, d)
           F == E \union {d}
           adjacent == s.last - d = 1
<1>1. /\ s \in PassStates /\ s.longest \in Nat /\ s.run \in Nat /\ s.last \in Nat
      /\ s.start \in Nat /\ s.current \in Nat /\ s.broken \in BOOLEAN
  BY DEF Finds, PassStates
<1>2. /\ t \in PassStates /\ t.last = d
      /\ adjacent => /\ t.run = s.run + 1
                     /\ t.longest = IF s.longest > s.run + 1 THEN s.longest ELSE s.run + 1
      /\ ~adjacent => t.run = 1 /\ t.longest = s.longest
      /\ t.broken = ~(adjacent /\ ~s.broken)
      /\ t.current = (IF adjacent /\ ~s.broken THEN s.current + 1 ELSE s.current)
      /\ t.start = (IF adjacent /\ ~s.broken THEN d ELSE s.start)
  BY <1>1, ExtendedFields
<1> HIDE DEF t
<1>3. /\ latest \in E /\ s.last \in E /\ \A e \in E : e >= s.last /\ e <= latest
      /\ s.run >= 1 /\ s.run <= s.longest
      /\ Through(s.last, s.last + s.run - 1, E) /\ s.last + s.run \notin E
      /\ \E e \in E : Through(e, e + s.longest - 1, E)
      /\ \A e \in E : ~Through(e, e + s.longest, E)
      /\ s.start <= latest /\ s.current = latest - s.start + 1 /\ Through(s.start, latest, E)
      /\ s.broken => s.start - 1 \notin E /\ s.start > s.last
      /\ ~s.broken => s.start = s.last
  BY DEF Finds
<1>4. d < s.last
  BY <1>3
<1>5. latest \in F /\ d \in F /\ \A e \in F : e >= d /\ e <= latest
  BY <1>3
<1>6. \A e \in E, n \in Nat : Through(e, e + n, F) => Through(e, e + n, E)
  BY DEF Through
<1>7. t.run >= 1 /\ t.run <= t.longest
  BY <1>1, <1>2, <1>3
<1>8. Through(d, d + t.run - 1, F) /\ d + t.run \notin F
  <2>1. CASE adjacent
    <3>1. t.run = s.run + 1 /\ s.last = d + 1
      BY <1>1, <1>2, <2>1
    <3>2. ASSUME NEW x \in Int, d <= x, x <= d + t.run - 1 PROVE x \in F
      <4>1. x = d \/ (s.last <= x /\ x <= s.last + s.run - 1)
        BY <1>1, <3>1, <3>2
      <4>2. QED
        BY <1>3, <4>1 DEF Through
    <3>3. d + t.run = s.last + s.run /\ d + t.run # d
      BY <1>1, <1>3, <3>1
    <3>4. QED
      BY <1>3, <3>2, <3>3 DEF Through
  <2>2. CASE ~adjacent
    <3>1. t.run = 1 /\ d + 1 < s.last
      BY <1>1, <1>2, <1>4, <2>2
    <3>2. d + 1 \notin F
      BY <1>1, <1>3, <3>1
    <3>3. QED
      BY <3>1, <3>2 DEF Through
  <2>3. QED
    BY <2>1, <2>2
<1>9. \E e \in F : Through(e, e + t.longest - 1, F)
  <2>1. CASE t.longest = s.longest
    BY <1>3, <2>1 DEF Through
  <2>2. CASE t.longest # s.longest
    <3>1. t.longest = t.run
      BY <1>2, <2>2
    <3>2. QED
      BY <1>8, <3>1
  <2>3. QED
    BY <2>1, <2>2
<1>10. ASSUME NEW e \in F PROVE ~Through(e, e + t.longest, F)
  <2>1. t.longest \in Nat /\ t.longest >= s.longest
    BY <1>1, <1>2
  <2>2. CASE e = d
    <3>1. d + t.run \in Int /\ d <= d + t.run /\ d + t.run <= d + t.longest
      BY <1>2, <1>7, <2>1 DEF PassStates
    <3>2. QED
      BY <1>8, <2>2, <3>1 DEF Through
  <2>3. CASE e \in E
    <3>1. SUFFICES ASSUME Through(e, e + t.longest, F) PROVE FALSE
      OBVIOUS
    <3>2. Through(e, e + t.longest, E)
      BY <1>6, <2>1, <2>3, <3>1
    <3>3. Through(e, e + s.longest, E)
      BY <1>1, <2>1, <3>2 DEF Through
    <3>4. QED
      BY <1>3, <2>3, <3>3
  <2>4. QED
    BY <2>2, <2>3
<1>11. /\ t.start <= latest /\ t.current = latest - t.start + 1 /\ Through(t.start, latest, F)
       /\ IF t.broken THEN t.start - 1 \notin F /\ t.start > d ELSE t.start = d
  <2>1. CASE adjacent /\ ~s.broken
    <3>1. s.start = d + 1 /\ t.start = d /\ t.current = s.current + 1 /\ ~t.broken
      BY <1>1, <1>2, <1>3, <2>1
    <3>2. ASSUME NEW x \in Int, d <= x, x <= latest PROVE x \in F
      <4>1. x = d \/ s.start <= x
        BY <3>1, <3>2
      <4>2. QED
        BY <1>3, <3>2, <4>1 DEF Through
    <3>3. QED
      BY <1>1, <1>3, <3>1, <3>2 DEF Through
  <2>2. CASE ~(adjacent /\ ~s.broken)
    <3>1. t.start = s.start /\ t.current = s.current /\ t.broken
      BY <1>2, <2>2
    <3>2. s.start - 1 \notin E
      BY <1>1, <1>3
    <3>3. s.start - 1 # d /\ s.start > d
      BY <1>1, <1>3, <1>4, <2>2
    <3>4. QED
      BY <1>3, <3>1, <3>2, <3>3 DEF Through
  <2>3. QED
    BY <2>1, <2>2
<1>12. Finds(t, F, latest)
  BY <1>2, <1>5, <1>7, <1>8, <1>9, <1>10, <1>11 DEF Finds
<1>13. QED
  BY <1>12 DEF t

LEMMA FirstFinds ==
    ASSUME NEW latest \in Nat
    PROVE  Finds(FirstDay(latest), {latest}, latest)
<1> DEFINE s == FirstDay(latest)
<1>1. /\ s \in PassStates /\ s.last = latest /\ s.start = latest /\ s.run = 1 /\ s.longest = 1
      /\ s.current = 1 /\ s.broken = FALSE
  BY DEF FirstDay, PassStates
<1> HIDE DEF s
<1>2. Through(latest, latest, {latest}) /\ latest + 1 \notin {latest}
  BY DEF Through
<1>3. ~Through(latest, latest + 1, {latest})
  BY <1>2 DEF Through
<1>4. latest + s.run - 1 = latest /\ latest + s.longest - 1 = latest
  BY <1>1
<1>5. Finds(s, {latest}, latest)
  BY <1>1, <1>2, <1>3, <1>4 DEF Finds
<1>6. QED
  BY <1>5 DEF s

(* After n days of the calendar the pass has found what there is in them. *)
LEMMA PassFinds ==
    ASSUME NEW b \in Nat, NEW D \in SUBSET (1..b), D # {}
    PROVE  Finds(Passes(D)[Max(D)], D, Max(D))
<1> DEFINE latest == Max(D)
           Over(n) == {d \in D : d >= latest - n}
           T == {n \in Nat : n <= latest => Finds(Passes(D)[n], Over(n), latest)}
<1>1. latest \in D /\ latest \in Nat /\ \A d \in D : d <= latest /\ d \in Nat /\ d >= 1
  <2>1. latest \in D /\ \A d \in D : d <= latest
    BY LatestDay
  <2>2. \A d \in 1..b : d \in Nat /\ d >= 1
    OBVIOUS
  <2>3. D \subseteq 1..b
    OBVIOUS
  <2>4. \A d \in D : d \in Nat /\ d >= 1
    BY <2>2, <2>3
  <2>5. QED
    BY <2>1, <2>4
<1>2. /\ Passes(D)[0] = FirstDay(latest)
      /\ \A n \in 1..latest : Passes(D)[n] =
             IF latest - n \in D THEN Extended(Passes(D)[n - 1], latest - n) ELSE Passes(D)[n - 1]
  BY <1>1, PassSteps
<1> HIDE DEF latest
<1>3. 0 \in T
  <2>1. Over(0) = {latest}
    <3>1. \A e \in D : e >= latest - 0 <=> e = latest
      BY <1>1
    <3>2. QED
      BY <1>1, <3>1
  <2>2. QED
    BY <1>1, <1>2, <2>1, FirstFinds
<1>4. ASSUME NEW n \in Nat, n \in T PROVE n + 1 \in T
  <2>1. SUFFICES ASSUME n + 1 <= latest PROVE Finds(Passes(D)[n + 1], Over(n + 1), latest)
    OBVIOUS
  <2>2. Finds(Passes(D)[n], Over(n), latest)
    BY <1>1, <1>4, <2>1
  <2> DEFINE d == latest - (n + 1)
  <2>3. d \in Nat /\ n + 1 \in 1..latest /\ n + 1 - 1 = n
    BY <1>1, <2>1
  <2>4. CASE d \in D
    <3>1. Passes(D)[n + 1] = Extended(Passes(D)[n], d)
      BY <1>2, <2>3, <2>4
    <3>2. Over(n) \in SUBSET Nat /\ \A e \in Over(n) : d < e
      <4>1. \A e \in D : e \in Nat /\ (e >= latest - n => d < e)
        BY <1>1, <1>4
      <4>2. QED
        BY <4>1
    <3>3. Over(n + 1) = Over(n) \union {d}
      <4>1. \A e \in D : e >= d <=> e >= latest - n \/ e = d
        BY <1>1, <1>4
      <4>2. QED
        BY <2>4, <4>1
    <3> HIDE DEF d, Over
    <3>4. Finds(Extended(Passes(D)[n], d), Over(n) \union {d}, latest)
      BY <1>1, <2>2, <2>3, <3>2, ExtendedFinds
    <3>5. QED
      BY <3>1, <3>3, <3>4
  <2>5. CASE d \notin D
    <3>1. Passes(D)[n + 1] = Passes(D)[n]
      BY <1>2, <2>3, <2>5
    <3>2. Over(n + 1) = Over(n)
      <4>1. \A e \in D : e >= d <=> e >= latest - n
        BY <1>1, <1>4, <2>5
      <4>2. QED
        BY <4>1
    <3>3. QED
      BY <2>2, <3>1, <3>2
  <2>6. QED
    BY <2>4, <2>5
<1>5. latest \in T
  <2> HIDE DEF T
  <2>1. QED
    BY <1>1, <1>3, <1>4, AllNumbers
<1>6. Over(latest) = D
  <2>1. \A e \in D : e >= latest - latest
    BY <1>1
  <2>2. QED
    BY <2>1
<1> HIDE DEF Over
<1>7. Finds(Passes(D)[latest], D, latest)
  BY <1>1, <1>5, <1>6
<1>8. QED
  BY <1>7 DEF latest

(* Rows of days that need not be within the bound. *)
DayRows == [current : Nat, longest : Nat, last : Nat, start : Int]

LEMMA RecalculatedDescribes ==
    ASSUME NEW b \in Nat, NEW D \in SUBSET (1..b)
    PROVE  /\ Recalculated(D) \in DayRows /\ Describes(Recalculated(D), D)
           /\ Recalculated(D).last \in D \union {NoDay}
<1>1. CASE D = {}
  BY <1>1 DEF Recalculated, NoStreak, NoDay, DayRows, Describes
<1>2. CASE D # {}
  <2> DEFINE row == Recalculated(D)
             s == Passes(D)[Max(D)]
             latest == Max(D)
  <2>1. Finds(s, D, latest)
    BY <1>2, PassFinds
  <2>2. /\ latest \in D /\ latest \in Nat
        /\ \A d \in D : d <= latest /\ d \in Nat /\ d >= 1
    <3>1. latest \in D /\ \A d \in D : d <= latest
      BY <1>2, LatestDay
    <3>2. \A d \in 1..b : d \in Nat /\ d >= 1
      OBVIOUS
    <3>3. D \subseteq 1..b
      OBVIOUS
    <3>4. \A d \in D : d \in Nat /\ d >= 1
      BY <3>2, <3>3
    <3>5. QED
      BY <3>1, <3>4
  <2>3. row = [current |-> s.current, longest |-> s.longest, last |-> latest, start |-> s.start]
    BY <1>2 DEF Recalculated
  <2> HIDE DEF s, latest
  <2>4. /\ row.current = s.current /\ row.longest = s.longest /\ row.last = latest
        /\ row.start = s.start /\ s \in PassStates
    BY <2>1, <2>3 DEF Finds
  <2>5. row \in DayRows /\ s.longest \in Nat /\ s.start \in Nat /\ s.current \in Nat
        /\ s.broken \in BOOLEAN
    BY <2>2, <2>3, <2>4 DEF DayRows, PassStates
  <2> HIDE DEF row
  <2>6. row.start..row.last \subseteq D
    BY <2>1, <2>2, <2>4, <2>5, ThroughIsInterval DEF Finds
  <2>7. row.start - 1 \notin D
    <3>1. CASE s.broken
      BY <2>1, <2>4, <3>1 DEF Finds
    <3>2. CASE ~s.broken
      <4>1. s.start = s.last /\ \A d \in D : d >= s.last
        BY <2>1, <3>2 DEF Finds
      <4>2. QED
        BY <2>4, <2>5, <4>1
    <3>3. QED
      BY <3>1, <3>2
  <2>8. \E d \in D : d..(d + row.longest - 1) \subseteq D
    <3>1. PICK d \in D : Through(d, d + s.longest - 1, D)
      BY <2>1 DEF Finds
    <3>2. d..(d + s.longest - 1) \subseteq D
      BY <2>2, <2>5, <3>1, ThroughIsInterval
    <3>3. QED
      BY <2>4, <3>2
  <2>9. ASSUME NEW d \in D PROVE ~(d..(d + row.longest) \subseteq D)
    <3>1. ~Through(d, d + s.longest, D)
      BY <2>1 DEF Finds
    <3>2. QED
      BY <2>2, <2>4, <2>5, <3>1, ThroughIsInterval
  <2>10. row.current = row.last - row.start + 1
    BY <2>1, <2>4 DEF Finds
  <2>11. Describes(row, D)
    BY <1>2, <2>2, <2>4, <2>6, <2>7, <2>8, <2>9, <2>10 DEF Describes
  <2>12. QED
    BY <2>2, <2>4, <2>5, <2>11 DEF row
<1>3. QED
  BY <1>1, <1>2

(* Only one row describes a set of days. *)
LEMMA OneDescription ==
    ASSUME NEW D \in SUBSET Nat, NEW p \in DayRows, NEW q \in DayRows,
           Describes(p, D), Describes(q, D)
    PROVE  p = q
<1>1. CASE D = {}
  BY <1>1 DEF Describes
<1>2. CASE D # {}
  <2>1. /\ p.current \in Nat /\ p.longest \in Nat /\ p.last \in Nat /\ p.start \in Int
        /\ q.current \in Nat /\ q.longest \in Nat /\ q.last \in Nat /\ q.start \in Int
    BY DEF DayRows
  <2>2. ASSUME NEW r \in {p, q}
        PROVE  /\ r.last \in D /\ \A d \in D : d <= r.last
               /\ Through(r.start, r.last, D) /\ r.start - 1 \notin D
               /\ r.current = r.last - r.start + 1
               /\ \E d \in D : Through(d, d + r.longest - 1, D)
               /\ \A d \in D : ~Through(d, d + r.longest, D)
    <3>1. Describes(r, D) /\ r.longest \in Nat /\ r.last \in Nat /\ r.start \in Int
      BY <2>1
    <3>2. r.start..r.last \subseteq D /\ \E d \in D : d..(d + r.longest - 1) \subseteq D
      BY <1>2, <3>1 DEF Describes
    <3>3. \A d \in D : ~(d..(d + r.longest) \subseteq D)
      BY <1>2, <3>1 DEF Describes
    <3>4. Through(r.start, r.last, D)
      BY <3>1, <3>2, ThroughIsInterval
    <3>5. \E d \in D : Through(d, d + r.longest - 1, D)
      <4>1. PICK d \in D : d..(d + r.longest - 1) \subseteq D
        BY <3>2
      <4>2. d \in Int /\ d + r.longest - 1 \in Int
        BY <3>1
      <4>3. QED
        BY <4>1, <4>2, ThroughIsInterval
    <3>6. ASSUME NEW d \in D PROVE ~Through(d, d + r.longest, D)
      <4>1. d \in Int /\ d + r.longest \in Int
        BY <3>1
      <4>2. QED
        BY <3>3, <4>1, ThroughIsInterval
    <3>7. QED
      BY <1>2, <3>1, <3>4, <3>5, <3>6 DEF Describes
  <2>3. p.last = q.last
    BY <2>1, <2>2
  <2>4. \A r, s \in {p, q} : ~(r.start < s.start)
    <3>1. SUFFICES ASSUME NEW r \in {p, q}, NEW s \in {p, q}, r.start < s.start PROVE FALSE
      OBVIOUS
    <3>2. /\ r.start \in Int /\ s.start \in Int /\ r.last = s.last /\ s.last \in Nat
          /\ s.current \in Nat /\ s.current = s.last - s.start + 1
      BY <2>1, <2>2, <2>3
    <3>3. s.start - 1 \in Int /\ r.start <= s.start - 1 /\ s.start - 1 <= r.last
      BY <3>1, <3>2
    <3>4. Through(r.start, r.last, D)
      BY <2>2
    <3>5. s.start - 1 \in D
      BY <3>3, <3>4 DEF Through
    <3>6. QED
      BY <2>2, <3>5
  <2>5. p.start = q.start
    BY <2>1, <2>4
  <2>6. \A r, s \in {p, q} : ~(r.longest < s.longest)
    <3>1. SUFFICES ASSUME NEW r \in {p, q}, NEW s \in {p, q}, r.longest < s.longest PROVE FALSE
      OBVIOUS
    <3>2. PICK d \in D : Through(d, d + s.longest - 1, D)
      BY <2>2
    <3>3. d \in Nat /\ r.longest \in Nat /\ s.longest \in Nat
      BY <2>1
    <3>4. Through(d, d + r.longest, D)
      BY <3>1, <3>2, <3>3 DEF Through
    <3>5. QED
      BY <2>2, <3>4
  <2>7. p.longest = q.longest
    BY <2>1, <2>6
  <2>8. p.current = q.current
    BY <2>2, <2>3, <2>5
  <2>9. QED
    BY <2>3, <2>5, <2>7, <2>8 DEF DayRows
<1>3. QED
  BY <1>1, <1>2

LEMMA BumpedRow ==
    ASSUME NEW row \in DayRows, NEW d \in Nat
    PROVE  LET new == Bumped(row, d)
               next == row.last # NoDay /\ d - row.last = 1
               current == IF next THEN row.current + 1 ELSE 1
           IN  /\ new \in DayRows
               /\ ~(row.last # NoDay /\ d - row.last = 0) =>
                     /\ new.last = d /\ new.current = current
                     /\ new.longest = IF row.longest > current THEN row.longest ELSE current
                     /\ new.start = IF next THEN row.start ELSE d
<1>1. row.current \in Nat /\ row.longest \in Nat /\ row.last \in Nat /\ row.start \in Int
  BY DEF DayRows
<1>2. QED
  BY <1>1 DEF Bumped, LongerOf, DayRows

(* What a row says, day by day. *)
Shows(row, D) ==
    /\ row.last \in D /\ \A d \in D : d <= row.last
    /\ Through(row.start, row.last, D) /\ row.start - 1 \notin D
    /\ row.current = row.last - row.start + 1
    /\ \E d \in D : Through(d, d + row.longest - 1, D)
    /\ \A d \in D : ~Through(d, d + row.longest, D)

LEMMA ShowsIsDescribes ==
    ASSUME NEW D \in SUBSET Nat, D # {}, NEW row \in DayRows
    PROVE  Describes(row, D) <=> Shows(row, D)
<1>1. row.longest \in Nat /\ row.last \in Nat /\ row.start \in Int
  BY DEF DayRows
<1>2. Through(row.start, row.last, D) <=> row.start..row.last \subseteq D
  BY <1>1, ThroughIsInterval
<1>3. ASSUME NEW d \in D
      PROVE  /\ Through(d, d + row.longest - 1, D) <=> d..(d + row.longest - 1) \subseteq D
             /\ Through(d, d + row.longest, D) <=> d..(d + row.longest) \subseteq D
  <2>1. d \in Int /\ d + row.longest - 1 \in Int /\ d + row.longest \in Int
    BY <1>1
  <2>2. QED
    BY <2>1, ThroughIsInterval
<1>4. QED
  BY <1>2, <1>3 DEF Describes, Shows

LEMMA BumpedDescribes ==
    ASSUME NEW D \in SUBSET (Nat \ {0}), NEW row \in DayRows, Describes(row, D),
           NEW d \in Nat \ {0}, row.last <= d
    PROVE  Bumped(row, d) \in DayRows /\ Describes(Bumped(row, d), D \union {d})
<1> DEFINE new == Bumped(row, d)
           F == D \union {d}
           next == row.last # NoDay /\ d - row.last = 1
           current == IF next THEN row.current + 1 ELSE 1
<1>1. /\ new \in DayRows
      /\ ~(row.last # NoDay /\ d - row.last = 0) =>
            /\ new.last = d /\ new.current = current
            /\ new.longest = IF row.longest > current THEN row.longest ELSE current
            /\ new.start = IF next THEN row.start ELSE d
  BY BumpedRow
<1>2. row.current \in Nat /\ row.longest \in Nat /\ row.last \in Nat /\ row.start \in Int
  BY DEF DayRows
<1>3. CASE row.last = d
  <2>1. new = row
    BY <1>2, <1>3 DEF Bumped, NoDay
  <2>2. D # {}
    BY <1>3 DEF Describes, NoStreak, NoDay
  <2>3. d \in D
    BY <1>3, <2>2 DEF Describes
  <2>4. F = D
    BY <2>3
  <2>5. QED
    BY <1>1, <2>1, <2>4
<1>4. CASE row.last # d
  <2>1. /\ new.last = d /\ new.current = current
        /\ new.longest = IF row.longest > current THEN row.longest ELSE current
        /\ new.start = IF next THEN row.start ELSE d
    BY <1>1, <1>2, <1>4
  <2>2. new.longest \in Nat /\ new.longest >= row.longest /\ new.longest >= current /\ current >= 1
    BY <1>2, <2>1
  <2> HIDE DEF new
  <2>3. CASE D = {}
    <3>1. row.last = 0 /\ row.longest = 0 /\ ~next
      BY <2>3 DEF Describes, NoStreak, NoDay
    <3>2. new.last = d /\ new.current = 1 /\ new.longest = 1 /\ new.start = d
      BY <2>1, <3>1
    <3>3. F = {d}
      BY <2>3
    <3>4. d + 1 \notin F /\ d - 1 \notin F
      BY <3>3
    <3>5. Through(d, d, F) /\ ~Through(d, d + 1, F)
      BY <3>3, <3>4 DEF Through
    <3>6. Shows(new, F)
      BY <3>2, <3>3, <3>4, <3>5 DEF Shows
    <3>7. F \in SUBSET Nat /\ F # {}
      OBVIOUS
    <3> HIDE DEF F
    <3>8. Describes(new, F)
      BY <1>1, <3>6, <3>7, ShowsIsDescribes
    <3>9. QED
      BY <1>1, <3>8 DEF new, F
  <2>4. CASE D # {}
    <3>1. Shows(row, D)
      <4>1. D \in SUBSET Nat
        OBVIOUS
      <4>2. QED
        BY <2>4, <4>1, ShowsIsDescribes
    <3>2. /\ row.last \in D /\ \A e \in D : e <= row.last
          /\ Through(row.start, row.last, D) /\ row.start - 1 \notin D
          /\ row.current = row.last - row.start + 1
          /\ \E e \in D : Through(e, e + row.longest - 1, D)
          /\ \A e \in D : ~Through(e, e + row.longest, D)
      BY <3>1 DEF Shows
    <3>3. row.last < d /\ row.last # NoDay /\ \A e \in D : e < d /\ e \in Nat
      BY <1>2, <1>4, <3>2 DEF NoDay
    <3>4. \A x \in D : x \in F
      OBVIOUS
    <3>5. d \in F /\ \A e \in F : e <= d /\ e \in Nat
      BY <3>3
    <3>6. row.longest >= 1
      <4>1. PICK e \in D : ~Through(e, e + row.longest, D)
        BY <3>2
      <4>2. QED
        BY <1>2, <4>1 DEF Through
    <3>7. Through(new.start, d, F) /\ new.start - 1 \notin F /\ new.current = d - new.start + 1
      <4>1. CASE next
        <5>1. new.start = row.start /\ new.current = row.current + 1 /\ d = row.last + 1
          BY <1>2, <2>1, <4>1
        <5>2. ASSUME NEW x \in Int, row.start <= x, x <= d PROVE x \in F
          <6>1. x = d \/ x <= row.last
            BY <1>2, <5>1, <5>2
          <6>2. QED
            BY <3>2, <5>2, <6>1 DEF Through
        <5>3. row.start - 1 # d
          BY <1>2, <3>2, <5>1
        <5>4. QED
          BY <1>2, <3>2, <5>1, <5>2, <5>3 DEF Through
      <4>2. CASE ~next
        <5>1. new.start = d /\ new.current = 1 /\ d - 1 > row.last
          BY <1>2, <2>1, <3>3, <4>2
        <5>2. d - 1 \notin F
          BY <1>2, <3>2, <5>1
        <5>3. QED
          BY <5>1, <5>2 DEF Through
      <4>3. QED
        BY <4>1, <4>2
    <3>8. \E e \in F : Through(e, e + new.longest - 1, F)
      <4>1. CASE new.longest = row.longest
        BY <3>2, <4>1 DEF Through
      <4>2. CASE new.longest # row.longest
        <5>1. new.longest = new.current
          BY <2>1, <4>2
        <5>2. new.start \in Int /\ new.start + new.longest - 1 = d /\ new.start <= d
          BY <1>1, <2>1, <2>2, <3>7, <5>1 DEF DayRows
        <5>3. new.start \in F
          BY <3>7, <5>2 DEF Through
        <5>4. QED
          BY <3>7, <5>2, <5>3
      <4>3. QED
        BY <4>1, <4>2
    <3>9. ASSUME NEW e \in F PROVE ~Through(e, e + new.longest, F)
      <4>1. SUFFICES ASSUME Through(e, e + new.longest, F) PROVE FALSE
        OBVIOUS
      <4>2. e \in Nat /\ e + new.longest \in Int /\ e <= e + new.longest
        BY <2>2, <3>5
      <4>3. e + new.longest \in F
        BY <4>1, <4>2 DEF Through
      <4>4. CASE e + new.longest < d
        <5>1. e \in D
          BY <2>2, <3>5, <4>2, <4>4
        <5>2. ASSUME NEW x \in Int, e <= x, x <= e + row.longest PROVE x \in D
          <6>1. x <= e + new.longest /\ x # d
            BY <1>2, <2>2, <4>2, <4>4, <5>2
          <6>2. QED
            BY <4>1, <5>2, <6>1 DEF Through
        <5>3. QED
          BY <3>2, <5>1, <5>2 DEF Through
      <4>5. CASE ~(e + new.longest < d)
        <5>1. e + new.longest = d /\ e <= d - 1
          <6>1. e + new.longest <= d
            BY <3>5, <4>3
          <6>2. new.longest >= 1
            <7>1. current \in Nat
              BY <1>2
            <7> HIDE DEF current
            <7>2. QED
              BY <2>2, <7>1
          <6>3. QED
            BY <2>2, <4>2, <4>5, <6>1, <6>2
        <5>2. d - 1 \in D
          BY <4>1, <4>2, <5>1 DEF Through
        <5>3. row.last = d - 1
          BY <1>2, <3>2, <3>3, <5>2
        <5>4. next /\ new.longest >= row.current + 1
          BY <1>2, <2>2, <3>3, <5>3
        <5>5. e < row.start
          BY <1>2, <2>2, <3>2, <4>2, <5>1, <5>3, <5>4
        <5>6. row.start - 1 \in Int /\ e <= row.start - 1 /\ row.start - 1 <= d - 1
          <6>1. row.current >= 0
            BY <1>2
          <6>2. QED
            BY <1>2, <3>2, <4>2, <5>3, <5>5, <6>1
        <5>7. row.start - 1 \in F /\ row.start - 1 # d
          BY <4>1, <5>1, <5>6 DEF Through
        <5>8. QED
          BY <3>2, <5>7
      <4>6. QED
        BY <4>4, <4>5
    <3>10. Shows(new, F)
      BY <2>1, <3>5, <3>7, <3>8, <3>9 DEF Shows
    <3>11. F \in SUBSET Nat /\ F # {}
      OBVIOUS
    <3> HIDE DEF F
    <3>12. Describes(new, F)
      BY <1>1, <3>10, <3>11, ShowsIsDescribes
    <3>13. QED
      BY <1>1, <3>12 DEF new, F
  <2>5. QED
    BY <2>3, <2>4
<1>5. QED
  BY <1>3, <1>4

(* The increment is the recalculation with one more day. *)
LEMMA BumpIsRecalculation ==
    ASSUME NEW b \in Nat, NEW D \in SUBSET (1..b), NEW d \in 1..b, Recalculated(D).last <= d
    PROVE  Bumped(Recalculated(D), d) = Recalculated(D \union {d})
<1> DEFINE row == Recalculated(D)
           F == D \union {d}
<1>1. row \in DayRows /\ Describes(row, D)
  BY RecalculatedDescribes
<1>2. F \in SUBSET (1..b)
  OBVIOUS
<1>3. Recalculated(F) \in DayRows /\ Describes(Recalculated(F), F)
  <2> HIDE DEF F
  <2>1. QED
    BY <1>2, RecalculatedDescribes
<1>4. D \in SUBSET (Nat \ {0}) /\ d \in Nat \ {0} /\ F \in SUBSET Nat
  OBVIOUS
<1>5. Bumped(row, d) \in DayRows /\ Describes(Bumped(row, d), F)
  <2> HIDE DEF row
  <2>1. row.last <= d
    BY DEF row
  <2>2. QED
    BY <1>1, <1>4, <2>1, BumpedDescribes
<1> HIDE DEF row, F
<1>6. Bumped(row, d) = Recalculated(F)
  BY <1>3, <1>4, <1>5, OneDescription
<1>7. QED
  BY <1>6 DEF row, F

(* The pass of _recalculate_streak_metadata finds what the columns say, and an    *)
(* increment of update_writing_streak is the recalculation with one more day: for  *)
(* every set of days, however long it is.                                          *)
THEOREM RecalculationIsRight ==
    \A b \in Nat : \A D \in SUBSET (1..b) :
        /\ Describes(Recalculated(D), D)
        /\ \A d \in 1..b : Recalculated(D).last <= d =>
               Bumped(Recalculated(D), d) = Recalculated(D \union {d})
BY RecalculatedDescribes, BumpIsRecalculation

LEMMA SpanAgrees == StreaksAgree
<1>1. 6 \in Nat /\ Span = 1..6
  BY DEF Span
<1>2. QED
  BY <1>1, RecalculationIsRight DEF StreaksAgree

(* The same for the span of days the runs check. *)
THEOREM StreaksAlwaysAgree == Spec => []StreaksAgree
BY SpanAgrees, PTL

-----------------------------------------------------------------------------
(* The rest of the state: the days, the row and what is planned for it.     *)

Plans == [day : {NoDay} \union Days, loaded : Rows \union {None}, new : Rows]

(* A plan belongs to the increment or the recalculation the request is at. *)
PlanStage(r) ==
    /\ agenda[r].next = "bump" => about[r].moment \in Moments
    /\ pc[r] \in {"published", "dated", "creating"} => agenda[r].next = "bump"
    /\ pc[r] \in {"dated", "creating"} => plan[r].day \in Days
    /\ pc[r] = "computed" =>
           streak # None /\ agenda[r].next = (IF plan[r].loaded = None THEN "recalc" ELSE "bump")

StreakTypes ==
    /\ day \in [Moments -> {NoDay} \union Days]
    /\ \A m \in Moments : entry[m] # None => day[m] \in Days
    /\ streak \in Rows \union {None}
    /\ plan \in [Requests -> Plans]
    /\ ops \in 0..MaxOps /\ off \subseteq Subjects
    /\ \A r \in Requests : PlanStage(r)

LEMMA RowsAreDayRows ==
    /\ Rows \subseteq DayRows /\ None \notin Rows
    /\ \A row \in DayRows : row.last \in {NoDay} \union Days => row \in Rows
<1>1. {NoDay} \union Days \subseteq Nat /\ MaxDay \in Nat
  BY StatisticsAssumption DEF NoDay, Days
<1>2. Rows \subseteq DayRows
  BY <1>1 DEF Rows, DayRows
<1>3. ASSUME NEW row \in DayRows, row.last \in {NoDay} \union Days PROVE row \in Rows
  BY <1>3 DEF Rows, DayRows
<1>4. QED
  BY <1>2, <1>3, StatisticsAssumption

LEMMA NewRows ==
    /\ NoStreak \in Rows /\ NoPlan \in Plans
    /\ \A D \in SUBSET Days : Recalculated(D) \in Rows
    /\ \A row \in Rows, d \in Days : Bumped(row, d) \in Rows
<1>1. MaxDay \in Nat /\ Days = 1..MaxDay
  BY StatisticsAssumption DEF Days
<1>2. NoStreak \in Rows
  BY DEF NoStreak, Rows, NoDay
<1>3. NoPlan \in Plans
  BY <1>2 DEF NoPlan, Plans
<1>4. ASSUME NEW D \in SUBSET Days PROVE Recalculated(D) \in Rows
  <2>1. Recalculated(D) \in DayRows /\ Recalculated(D).last \in D \union {NoDay}
    BY <1>1, RecalculatedDescribes
  <2>2. QED
    BY <2>1, RowsAreDayRows
<1>5. ASSUME NEW row \in Rows, NEW d \in Days PROVE Bumped(row, d) \in Rows
  <2>1. row \in DayRows /\ d \in Nat
    BY <1>1, RowsAreDayRows
  <2>2. Bumped(row, d) \in DayRows
    BY <2>1, BumpedRow
  <2>3. CASE row.last # NoDay /\ d - row.last = 0
    BY <2>3 DEF Bumped
  <2>4. CASE ~(row.last # NoDay /\ d - row.last = 0)
    <3>1. Bumped(row, d).last = d
      BY <2>1, <2>4, BumpedRow
    <3>2. QED
      BY <2>2, <3>1, RowsAreDayRows
  <2>5. QED
    BY <2>3, <2>4
<1>6. QED
  BY <1>2, <1>3, <1>4, <1>5

LEMMA MergedRow ==
    ASSUME NEW row \in Rows, NEW loaded \in Rows \union {None}, NEW new \in Rows
    PROVE  /\ Merged(row, loaded, new) \in Rows
           /\ loaded = None \/ row = loaded => Merged(row, loaded, new) = new
           /\ new = loaded => Merged(row, loaded, new) = row
<1> DEFINE Pick(a) == IF loaded = None \/ new[a] # loaded[a] THEN new[a] ELSE row[a]
<1>1. DOMAIN row = {"current", "longest", "last", "start"} /\ None \notin Rows
  BY RowsAreDayRows DEF Rows
<1>2. Merged(row, loaded, new) =
          [a \in {"current", "longest", "last", "start"} |-> Pick(a)]
  BY <1>1 DEF Merged
<1>3. Merged(row, loaded, new) =
          [current |-> Pick("current"), longest |-> Pick("longest"),
           last |-> Pick("last"), start |-> Pick("start")]
  BY <1>2
<1>4. /\ Pick("current") \in Nat /\ Pick("longest") \in Nat
      /\ Pick("last") \in {NoDay} \union Days /\ Pick("start") \in Int
  BY DEF Rows
<1>5. \A t \in Rows : t = [current |-> t.current, longest |-> t.longest, last |-> t.last, start |-> t.start]
  BY DEF Rows
<1>6. loaded = None \/ row = loaded =>
          /\ Pick("current") = new.current /\ Pick("longest") = new.longest
          /\ Pick("last") = new.last /\ Pick("start") = new.start
  OBVIOUS
<1>7. new = loaded => 
          /\ Pick("current") = row.current /\ Pick("longest") = row.longest
          /\ Pick("last") = row.last /\ Pick("start") = row.start
  BY <1>1
<1> HIDE DEF Pick
<1>8. Merged(row, loaded, new) \in Rows
  BY <1>3, <1>4 DEF Rows
<1>9. QED
  BY <1>3, <1>5, <1>6, <1>7, <1>8

LEMMA LoggedDaysAreDays == StreakTypes => LoggedDays \subseteq Days
BY DEF StreakTypes, LoggedDays, Published

LEMMA ListedAreJournals ==
    ASSUME NEW s \in Seq(Journals)
    PROVE  ToSet(s) \subseteq Journals
BY DEF ToSet

-----------------------------------------------------------------------------
(* Types of the whole state: the operations and steps.                      *)

(* The other requests are where they were. *)
Others(r) ==
    \A q \in Requests \ {r} : /\ pc'[q] = pc[q] /\ agenda'[q] = agenda[q]
                              /\ about'[q] = about[q] /\ plan'[q] = plan[q]

LEMMA OthersKeepPlans ==
    ASSUME CountInv, StreakTypes, NEW r \in Requests, Others(r),
           streak' = streak \/ streak' \in Rows, PlanStage(r)'
    PROVE  \A q \in Requests : PlanStage(q)'
<1>1. streak # None => streak' # None
  BY RowsAreDayRows
<1>2. ASSUME NEW q \in Requests \ {r} PROVE PlanStage(q)'
  BY <1>1, <1>2 DEF Others, PlanStage, StreakTypes
<1>3. QED
  BY <1>2

(* r goes on with an agenda, or ends. *)
LEMMA GoingKeepsTypes ==
    ASSUME CountInv, StreakTypes, NEW r \in Requests, NEW x \in About, NEW a \in Agendas,
           a.next = "decide" => x \in Loaded, a.next = "bump" => x.moment \in Moments,
           Goes(r, x, a), streak' = streak \/ streak' \in Rows,
           day' \in [Moments -> {NoDay} \union Days],
           \A m \in Moments : entry'[m] # None => day'[m] \in Days,
           plan' = plan \/ plan' = [plan EXCEPT ![r] = NoPlan],
           ops' \in 0..MaxOps, off' \subseteq Subjects
    PROVE  StreakTypes'
<1>1. /\ agenda'[r] = a /\ pc'[r] = (IF a = Nothing THEN "idle" ELSE "tasks")
      /\ \A q \in Requests \ {r} : agenda'[q] = agenda[q] /\ pc'[q] = pc[q]
                                   /\ about'[q] = about[q]
  BY GoesOn DEF CountInv
<1>2. a.next = "bump" => about'[r].moment \in Moments
  <2>1. about'[r] = Needed(x, a)
    BY DEF Goes, CountInv, Types
  <2>2. QED
    BY <2>1 DEF Needed, NoSubject, About
<1>3. PlanStage(r)'
  BY <1>1, <1>2 DEF PlanStage
<1>4. plan' \in [Requests -> Plans] /\ \A q \in Requests \ {r} : plan'[q] = plan[q]
  BY NewRows DEF StreakTypes
<1>5. \A q \in Requests : PlanStage(q)'
  <2>1. Others(r)
    BY <1>1, <1>4 DEF Others
  <2>2. QED
    BY <1>3, <2>1, OthersKeepPlans
<1>6. streak' \in Rows \union {None}
  BY DEF StreakTypes
<1>7. QED
  BY <1>4, <1>5, <1>6 DEF StreakTypes

LEMMA NoDaysChange ==
    ASSUME StreakTypes, UNCHANGED <<entry, day>>
    PROVE  /\ day' \in [Moments -> {NoDay} \union Days]
           /\ \A m \in Moments : entry'[m] # None => day'[m] \in Days
BY DEF StreakTypes

LEMMA EndingKeepsTypes ==
    ASSUME CountInv, StreakTypes, NEW r \in Requests, NEW lost \in SUBSET Subjects, Ends(r, lost),
           streak' = streak, UNCHANGED <<entry, day>>,
           plan' = plan \/ plan' = [plan EXCEPT ![r] = NoPlan], ops' \in 0..MaxOps
    PROVE  StreakTypes'
<1>1. NoSubject \in About /\ Nothing \in Agendas /\ Nothing.next = "none"
  BY ShortSequences DEF NoSubject, About, Nothing, Agendas
<1>2. Goes(r, NoSubject, Nothing) /\ off' \subseteq Subjects
  BY DEF Ends, GivesUp, StreakTypes
<1>3. QED
  BY <1>1, <1>2, NoDaysChange, GoingKeepsTypes

(* r moves to another place of the code. *)
LEMMA MovingKeepsTypes ==
    ASSUME CountInv, StreakTypes, NEW r \in Requests, NEW place \in Places, NEW p \in Plans,
           pc' = [pc EXCEPT ![r] = place],
           plan' = plan \/ plan' = [plan EXCEPT ![r] = p],
           \A q \in Requests \ {r} : about'[q] = about[q] /\ agenda'[q] = agenda[q],
           agenda'[r].next = "bump" => about'[r].moment \in Moments,
           place \in {"published", "dated", "creating"} => agenda'[r].next = "bump",
           place \in {"dated", "creating"} => plan'[r].day \in Days,
           place = "computed" => /\ streak' # None
                                 /\ agenda'[r].next = (IF plan'[r].loaded = None THEN "recalc" ELSE "bump"),
           streak' = streak \/ streak' \in Rows,
           day' \in [Moments -> {NoDay} \union Days],
           \A m \in Moments : entry'[m] # None => day'[m] \in Days,
           ops' \in 0..MaxOps, off' \subseteq Subjects
    PROVE  StreakTypes'
<1>1. pc'[r] = place /\ \A q \in Requests \ {r} : pc'[q] = pc[q]
  BY DEF CountInv, Types
<1>2. plan' \in [Requests -> Plans] /\ \A q \in Requests \ {r} : plan'[q] = plan[q]
  BY DEF StreakTypes
<1>3. PlanStage(r)'
  BY <1>1 DEF PlanStage
<1>4. \A q \in Requests : PlanStage(q)'
  <2>1. Others(r)
    BY <1>1, <1>2 DEF Others
  <2>2. QED
    BY <1>3, <2>1, OthersKeepPlans
<1>5. streak' \in Rows \union {None}
  BY DEF StreakTypes
<1>6. QED
  BY <1>2, <1>4, <1>5 DEF StreakTypes

(* ... with the agenda it has. *)
LEMMA WaitingKeepsTypes ==
    ASSUME CountInv, StreakTypes, NEW r \in Requests, NEW place \in Places, NEW p \in Plans,
           pc' = [pc EXCEPT ![r] = place],
           plan' = plan \/ plan' = [plan EXCEPT ![r] = p],
           UNCHANGED <<entry, day, about, agenda, off>>,
           place \in {"published", "dated", "creating"} => agenda[r].next = "bump",
           place \in {"dated", "creating"} => plan'[r].day \in Days,
           place = "computed" => /\ streak' # None
                                 /\ agenda[r].next = (IF plan'[r].loaded = None THEN "recalc" ELSE "bump"),
           streak' = streak \/ streak' \in Rows, ops' \in 0..MaxOps
    PROVE  StreakTypes'
<1>1. /\ agenda'[r].next = "bump" => about'[r].moment \in Moments
      /\ off' \subseteq Subjects
  BY DEF StreakTypes, PlanStage
<1>2. /\ day' \in [Moments -> {NoDay} \union Days]
      /\ \A m \in Moments : entry'[m] # None => day'[m] \in Days
  BY NoDaysChange
<1>3. QED
  BY <1>1, <1>2, MovingKeepsTypes

LEMMA BoundsAreNumbers ==
    StreakTypes /\ (ops' = ops \/ WithinBound) => ops' \in 0..MaxOps
BY StatisticsAssumption DEF StreakTypes, WithinBound

LEMMA CommitLoses ==
    ASSUME StreakTypes, NEW left, Commits(left)
    PROVE  off' \subseteq Subjects
BY DEF StreakTypes, Commits, Affected, Subjects

LEMMA CreateTypes ==
    ASSUME CountInv, StreakTypes, NEW r \in Requests, NEW m \in Moments, NEW j \in Journals,
           NEW d \in Days, NEW draft \in BOOLEAN, Create(r, m, j, d, draft)
    PROVE  StreakTypes'
<1> DEFINE t == [journal |-> j, draft |-> draft]
           x == [moment |-> m, seen |-> None, want |-> t]
<1>1. /\ pc' = [pc EXCEPT ![r] = "committed"] /\ about' = [about EXCEPT ![r] = x]
      /\ Commits({}) /\ UNCHANGED <<streak, plan>> /\ WithinBound
      /\ entry' = [entry EXCEPT ![m] = t] /\ day' = [day EXCEPT ![m] = d]
      /\ \A q \in Requests \ {r} : agenda'[q] = agenda[q]
  BY DEF Create, locals, CountInv, Types
<1>2. /\ about'[r].moment \in Moments /\ \A q \in Requests \ {r} : about'[q] = about[q]
  BY <1>1 DEF CountInv, Types
<1>3. /\ day' \in [Moments -> {NoDay} \union Days]
      /\ \A n \in Moments : entry'[n] # None => day'[n] \in Days
  BY <1>1 DEF StreakTypes, CountInv, Types
<1>4. off' \subseteq Subjects /\ ops' \in 0..MaxOps
  BY <1>1, CommitLoses, BoundsAreNumbers
<1>5. "committed" \in Places /\ NoPlan \in Plans
  BY NewRows DEF Places
<1> HIDE DEF x, t
<1>6. QED
  BY <1>1, <1>2, <1>3, <1>4, <1>5, MovingKeepsTypes

LEMMA LoadTypes ==
    ASSUME CountInv, StreakTypes, NEW r \in Requests,
           \/ \E m \in Moments, j \in Journals, draft \in BOOLEAN : UpdateRead(r, m, j, draft)
           \/ \E m \in Moments : DeleteRead(r, m)
           \/ \E j \in Journals : DeleteJournalRead(r, j)
    PROVE  StreakTypes'
<1>1. PICK place \in {"update", "delete", "journal"} :
          /\ pc[r] = "idle" /\ pc' = [pc EXCEPT ![r] = place]
          /\ \E x : about' = [about EXCEPT ![r] = x]
          /\ UNCHANGED <<entry, day, streak, agenda, plan, off>> /\ WithinBound
  <2>1. about' = about => about' = [about EXCEPT ![r] = about[r]]
    BY DEF CountInv, Types
  <2>2. QED
    BY <2>1 DEF UpdateRead, DeleteRead, DeleteJournalRead, database, locals
<1>2. agenda'[r].next # "bump" /\ off' \subseteq Subjects
  BY <1>1 DEF CountInv, Stage, Nothing, Uncommitted, StreakTypes
<1>3. \A q \in Requests \ {r} : about'[q] = about[q] /\ agenda'[q] = agenda[q]
  BY <1>1 DEF CountInv, Types
<1>4. NoPlan \in Plans /\ ops' \in 0..MaxOps /\ place \in Places
  BY <1>1, NewRows, BoundsAreNumbers DEF Places
<1>5. QED
  BY <1>1, <1>2, <1>3, <1>4, NoDaysChange, MovingKeepsTypes

LEMMA UpdateWriteTypes ==
    ASSUME CountInv, StreakTypes, NEW r \in Requests, UpdateWrite(r)
    PROVE  StreakTypes'
<1> DEFINE x == about[r]
           m == x.moment
           row == Merged(entry[m], x.seen, x.want)
           a == AfterUpdate(x.seen, x.want, row)
<1>1. pc[r] = "update" /\ UNCHANGED <<ops, day, streak, plan>>
  BY DEF UpdateWrite, locals
<1>2. x \in Loaded /\ x \in About /\ m \in Moments /\ x.seen \in Texts /\ x.want \in Texts
  BY <1>1 DEF CountInv, Stage, Types, Loaded
<1>3. CASE Ends(r, {}) /\ UNCHANGED entry
  BY <1>1, <1>3, EndingKeepsTypes, BoundsAreNumbers
<1>4. CASE \E left : /\ entry[m] # None /\ entry' = [entry EXCEPT ![m] = row]
                     /\ pc' = [pc EXCEPT ![r] = "committed"] /\ UNCHANGED about
                     /\ agenda' = [agenda EXCEPT ![r] = a] /\ Commits(left)
  <2>1. entry[m] \in Texts
    BY <1>2, <1>4 DEF CountInv, Types
  <2>2. row \in Texts
    BY <1>2, <2>1, MergedText
  <2>3. /\ "committed" \in Places /\ NoPlan \in Plans
        /\ \A q \in Requests \ {r} : about'[q] = about[q] /\ agenda'[q] = agenda[q]
    BY <1>4, NewRows DEF CountInv, Types, Places
  <2>4. \A n \in Moments : entry'[n] # None => day'[n] \in Days
    BY <1>1, <1>2, <1>4 DEF StreakTypes, CountInv, Types
  <2>5. off' \subseteq Subjects /\ ops' \in 0..MaxOps /\ day' \in [Moments -> {NoDay} \union Days]
    BY <1>1, <1>4, CommitLoses, BoundsAreNumbers DEF StreakTypes
  <2> HIDE DEF x, m, row, a
  <2>6. about'[r].moment \in Moments
    BY <1>2, <1>4 DEF m, x
  <2>7. QED
    BY <1>1, <1>4, <2>3, <2>4, <2>5, <2>6, MovingKeepsTypes
<1>5. QED
  BY <1>3, <1>4 DEF UpdateWrite

LEMMA DeleteTypes ==
    ASSUME CountInv, StreakTypes, NEW r \in Requests,
           DeleteWrite(r) \/ DeleteJournalWrite(r)
    PROVE  StreakTypes'
<1>1. PICK a, left :
          /\ a \in Agendas /\ a.next = "recalc" /\ Goes(r, NoSubject, a) /\ Commits(left)
          /\ UNCHANGED <<day, streak, plan>> /\ (ops' = ops \/ WithinBound)
          /\ \A m \in Moments : entry'[m] # None => entry[m] # None
  <2>1. CASE DeleteWrite(r)
    <3> DEFINE a == [counts |-> <<about[r].seen.journal>>, next |-> "recalc"]
    <3>1. about[r].seen.journal \in Journals
      BY <2>1 DEF DeleteWrite, CountInv, Stage, Texts
    <3>2. a \in Agendas /\ a.next = "recalc"
      BY <3>1, ShortSequences DEF Agendas
    <3>3. /\ Goes(r, NoSubject, a) /\ \E left : Commits(left)
          /\ UNCHANGED <<ops, day, streak, plan>>
          /\ \A m \in Moments : entry'[m] # None => entry[m] # None
      BY <2>1 DEF DeleteWrite, CountInv, Types, locals
    <3>4. QED
      BY <3>2, <3>3
  <2>2. CASE DeleteJournalWrite(r)
    <3> DEFINE a == [counts |-> <<>>, next |-> "recalc"]
    <3>1. a \in Agendas /\ a.next = "recalc"
      BY ShortSequences DEF Agendas
    <3>2. /\ Goes(r, NoSubject, a) /\ \E left : Commits(left)
          /\ UNCHANGED <<ops, day, streak, plan>>
          /\ \A m \in Moments : entry'[m] # None => entry[m] # None
      BY <2>2 DEF DeleteJournalWrite, locals
    <3>3. QED
      BY <3>1, <3>2
  <2>3. QED
    BY <2>1, <2>2
<1>2. NoSubject \in About
  BY DEF NoSubject, About
<1>3. /\ day' \in [Moments -> {NoDay} \union Days]
      /\ \A m \in Moments : entry'[m] # None => day'[m] \in Days
  BY <1>1 DEF StreakTypes
<1>4. off' \subseteq Subjects /\ ops' \in 0..MaxOps
  BY <1>1, CommitLoses, BoundsAreNumbers
<1>5. QED
  BY <1>1, <1>2, <1>3, <1>4, GoingKeepsTypes

LEMMA MomentTypes ==
    ASSUME CountInv, StreakTypes, NEW m \in Moments,
           DeleteMoment(m) \/ \E d \in Days : MoveDay(m, d)
    PROVE  StreakTypes'
<1>1. /\ UNCHANGED <<streak, pc, about, agenda, plan>> /\ WithinBound
      /\ \E left : Commits(left)
  BY DEF DeleteMoment, MoveDay, locals
<1>2. off' \subseteq Subjects /\ ops' \in 0..MaxOps
  BY <1>1, CommitLoses, BoundsAreNumbers
<1>3. /\ day' \in [Moments -> {NoDay} \union Days]
      /\ \A n \in Moments : entry'[n] # None => day'[n] \in Days
  BY DEF DeleteMoment, MoveDay, StreakTypes, CountInv, Types
<1>4. QED
  BY <1>1, <1>2, <1>3 DEF StreakTypes, PlanStage

LEMMA StoppingTypes ==
    ASSUME CountInv, StreakTypes, NEW r \in Requests, StopsCounting(r), UNCHANGED <<entry, day, streak>>,
           plan' = plan \/ plan' = [plan EXCEPT ![r] = NoPlan], ops' \in 0..MaxOps
    PROVE  StreakTypes'
<1> DEFINE a == NotCounted(agenda[r])
<1>1. Goes(r, about[r], a) /\ off' = off \union ToSet(agenda[r].counts)
  BY DEF StopsCounting, GivesUp
<1>2. a \in Agendas /\ a.next = agenda[r].next /\ agenda[r].counts \in Seq(Journals)
  BY ShortSequences DEF NotCounted, CountInv, Types, Agendas
<1>3. about[r] \in About /\ (a.next = "decide" => about[r] \in Loaded)
  BY <1>2 DEF CountInv, Types, Stage
<1>4. a.next = "bump" => about[r].moment \in Moments
  BY <1>2 DEF StreakTypes, PlanStage
<1>5. off' \subseteq Subjects
  BY <1>1, <1>2, ListedAreJournals DEF StreakTypes, Subjects
<1> HIDE DEF a
<1>6. QED
  BY <1>1, <1>2, <1>3, <1>4, <1>5, NoDaysChange, GoingKeepsTypes

LEMMA CountTypes ==
    ASSUME CountInv, StreakTypes, NEW r \in Requests, LoadJournal(r) \/ Count(r)
    PROVE  StreakTypes'
<1>1. PICK place \in {"counting", "counted"} :
          /\ pc' = [pc EXCEPT ![r] = place]
          /\ UNCHANGED <<ops, entry, day, streak, about, agenda, plan, off>>
  BY DEF LoadJournal, Count, database
<1>2. NoPlan \in Plans /\ ops' \in 0..MaxOps /\ place \in Places
  BY <1>1, NewRows, BoundsAreNumbers DEF Places
<1>3. QED
  BY <1>1, <1>2, WaitingKeepsTypes

LEMMA DecidingTypes ==
    ASSUME CountInv, StreakTypes, NEW r \in Requests, agenda[r].next = "decide",
           NEW row \in Texts, NEW lost \in SUBSET Subjects, Decides(r, row, lost),
           UNCHANGED <<ops, entry, day, streak, plan>>
    PROVE  StreakTypes'
<1> DEFINE x == about[r]
           old == [x.seen EXCEPT !.journal = row.journal]
           a == AfterUpdate(old, row, row)
<1>1. x \in Loaded /\ x \in About /\ x.moment \in Moments
  BY DEF CountInv, Stage, Types, Loaded
<1>2. ops' \in 0..MaxOps
  BY BoundsAreNumbers
<1>3. CASE Ends(r, lost \union Reverted(x, row))
  <2>1. (lost \union Reverted(x, row)) \in SUBSET Subjects
    BY DEF Reverted, Subjects
  <2> HIDE DEF x
  <2>2. QED
    BY <1>2, <1>3, <2>1, EndingKeepsTypes
<1>4. CASE Goes(r, x, a) /\ GivesUp(r, lost)
  <2>1. old.journal = row.journal /\ row.journal \in Journals
    BY <1>1 DEF Loaded, Texts
  <2>2. a \in Agendas
    BY <2>1, AgendaOfUpdate
  <2>3. off' \subseteq Subjects
    BY <1>4 DEF StreakTypes, GivesUp
  <2> HIDE DEF a, x
  <2>4. QED
    BY <1>1, <1>2, <1>4, <2>2, <2>3, NoDaysChange, GoingKeepsTypes
<1>5. QED
  BY <1>3, <1>4 DEF Decides

LEMMA CountNothingTypes ==
    ASSUME CountInv, StreakTypes, NEW r \in Requests, CountNothing(r)
    PROVE  StreakTypes'
<1>1. UNCHANGED <<ops, entry, day, streak, plan>>
  BY DEF CountNothing, database, locals
<1>2. ops' \in 0..MaxOps /\ NoPlan \in Plans /\ "published" \in Places
  BY <1>1, BoundsAreNumbers, NewRows DEF Places
<1>3. ToSet(agenda[r].counts) \in SUBSET Subjects
  BY ListedAreJournals DEF CountInv, Types, Agendas, Subjects
<1>4. CASE StopsCounting(r)
  BY <1>1, <1>2, <1>4, StoppingTypes
<1>5. CASE agenda[r].next = "decide" /\ Decides(r, about[r].want, ToSet(agenda[r].counts))
  <2>1. about[r].want \in Texts
    BY <1>5 DEF CountInv, Stage, Loaded
  <2>2. QED
    BY <1>1, <1>3, <1>5, <2>1, DecidingTypes
<1>6. CASE /\ agenda[r].next = "bump" /\ pc' = [pc EXCEPT ![r] = "published"]
           /\ agenda' = [agenda EXCEPT ![r] = NotCounted(agenda[r])]
           /\ off' = off \union ToSet(agenda[r].counts) /\ UNCHANGED about
  <2>1. /\ agenda'[r].next = "bump" /\ about'[r].moment \in Moments
        /\ \A q \in Requests \ {r} : about'[q] = about[q] /\ agenda'[q] = agenda[q]
    BY <1>6 DEF CountInv, Types, Agendas, NotCounted, StreakTypes, PlanStage
  <2>2. off' \subseteq Subjects
    BY <1>3, <1>6 DEF StreakTypes
  <2>3. QED
    BY <1>1, <1>2, <1>6, <2>1, <2>2, NoDaysChange, MovingKeepsTypes
<1>7. QED
  BY <1>4, <1>5, <1>6 DEF CountNothing

LEMMA WriteCountTypes ==
    ASSUME CountInv, StreakTypes, NEW r \in Requests, WriteCount(r)
    PROVE  StreakTypes'
<1> DEFINE a == Counted(agenda[r])
<1>1. pc[r] = "counted" /\ UNCHANGED <<ops, entry, day, streak, plan>> /\ agenda[r].counts # <<>>
  BY DEF WriteCount, CountInv, Stage
<1>2. ops' \in 0..MaxOps
  BY <1>1, BoundsAreNumbers
<1>3. CASE StopsCounting(r)
  BY <1>1, <1>2, <1>3, StoppingTypes
<1>4. CASE Goes(r, about[r], a) /\ off' \subseteq off \union {Subject(r)}
  <2>1. Subject(r) \in Journals /\ Tail(agenda[r].counts) \in Seq(Journals)
    BY <1>1, SubjectIsJournal DEF CountInv
  <2>2. a \in Agendas /\ a.next = agenda[r].next
    BY <2>1 DEF CountInv, Types, Agendas, Counted
  <2>3. about[r] \in About /\ (a.next = "decide" => about[r] \in Loaded)
    BY <2>2 DEF CountInv, Types, Stage
  <2>4. a.next = "bump" => about[r].moment \in Moments
    BY <2>2 DEF StreakTypes, PlanStage
  <2>5. off' \subseteq Subjects
    BY <1>4, <2>1 DEF StreakTypes, Subjects
  <2> HIDE DEF a
  <2>6. QED
    BY <1>1, <1>2, <1>4, <2>2, <2>3, <2>4, <2>5, NoDaysChange, GoingKeepsTypes
<1>5. QED
  BY <1>3, <1>4 DEF WriteCount

LEMMA DecideTypes ==
    ASSUME CountInv, StreakTypes, NEW r \in Requests, Decide(r)
    PROVE  StreakTypes'
<1> DEFINE x == about[r]
           row == entry[x.moment]
<1>1. agenda[r].next = "decide" /\ UNCHANGED <<ops, entry, day, streak, plan>>
  BY DEF Decide, At, database, locals
<1>2. x.moment \in Moments
  BY <1>1 DEF CountInv, Stage, Loaded
<1>3. ops' \in 0..MaxOps
  BY <1>1, BoundsAreNumbers
<1>4. CASE Ends(r, IF x.want.draft # x.seen.draft THEN {"streak"} ELSE {})
  <2>1. (IF x.want.draft # x.seen.draft THEN {"streak"} ELSE {}) \in SUBSET Subjects
    BY DEF Subjects
  <2>2. QED
    BY <1>1, <1>3, <1>4, <2>1, EndingKeepsTypes
<1>5. CASE row # None /\ Decides(r, row, {})
  <2>1. row \in Texts
    BY <1>2, <1>5 DEF CountInv, Types
  <2> HIDE DEF row
  <2>2. QED
    BY <1>1, <1>5, <2>1, DecidingTypes
<1>6. QED
  BY <1>4, <1>5 DEF Decide

LEMMA CoveredAreSubjects ==
    ASSUME CountInv, NEW r \in Requests
    PROVE  Covers(agenda[r]) \in SUBSET Subjects
<1>1. agenda[r].counts \in Seq(Journals)
  BY DEF CountInv, Types, Agendas
<1>2. QED
  BY <1>1, ListedAreJournals DEF Covers, Subjects

LEMMA RefreshTypes ==
    ASSUME CountInv, StreakTypes, NEW r \in Requests, Refresh(r)
    PROVE  StreakTypes'
<1> DEFINE x == about[r]
           row == entry[x.moment]
           y == [x EXCEPT !.want = row]
           b == AfterUpdate(x.seen, x.want, row)
<1>1. pc[r] = "committed" /\ UNCHANGED <<ops, entry, day, streak, plan>>
  BY DEF Refresh, database, locals
<1>2. /\ x \in About /\ x.moment \in Moments /\ x.want \in Texts
      /\ Covers(agenda[r]) \in SUBSET Subjects /\ ops' \in 0..MaxOps
  BY <1>1, CoveredAreSubjects, BoundsAreNumbers DEF CountInv, Stage, Types
<1>3. CASE Ends(r, Covers(agenda[r]))
  BY <1>1, <1>2, <1>3, EndingKeepsTypes
<1>4. ASSUME row # None, NEW a \in AfterCreate(row),
             Goes(r, x, a), GivesUp(r, Covers(agenda[r]) \ Covers(a))
      PROVE  StreakTypes'
  <2>1. row \in Texts /\ row.journal \in Journals
    BY <1>2, <1>4 DEF CountInv, Types, Texts
  <2>2. a \in Agendas /\ a.next # "decide"
    BY <1>4, <2>1, AgendaOfCreate
  <2>3. off' \subseteq Subjects
    BY <1>2, <1>4 DEF GivesUp, StreakTypes
  <2> HIDE DEF x
  <2>4. QED
    BY <1>1, <1>2, <1>4, <2>2, <2>3, NoDaysChange, GoingKeepsTypes
<1>5. CASE /\ row # None /\ x.seen # None /\ Goes(r, y, b)
           /\ GivesUp(r, (Covers(agenda[r]) \ Covers(b)) \union Reverted(x, row))
  <2>1. row \in Texts /\ x.seen \in Texts
    BY <1>2, <1>5 DEF CountInv, Types, About
  <2>2. y \in About /\ y \in Loaded /\ y.moment \in Moments
    BY <1>2, <2>1 DEF About, Loaded
  <2>3. b \in Agendas
    BY <1>2, <2>1, AgendaOfUpdate DEF Texts
  <2>4. off' \subseteq Subjects
    BY <1>2, <1>5 DEF GivesUp, StreakTypes, Reverted, Subjects
  <2> HIDE DEF x, y, b
  <2>5. QED
    BY <1>1, <1>2, <1>5, <2>2, <2>3, <2>4, NoDaysChange, GoingKeepsTypes
<1>6. QED
  BY <1>3, <1>4, <1>5 DEF Refresh

LEMMA LoadEntryTypes ==
    ASSUME CountInv, StreakTypes, NEW r \in Requests, LoadEntry(r) \/ LoadMoment(r)
    PROVE  StreakTypes'
<1> DEFINE d == day[about[r].moment]
           p == [plan[r] EXCEPT !.day = d]
<1>1. agenda[r].next = "bump" /\ UNCHANGED <<ops, entry, day, streak>>
  BY DEF LoadEntry, LoadMoment, At, database, StreakTypes, PlanStage
<1>2. /\ ops' \in 0..MaxOps /\ "published" \in Places /\ "dated" \in Places
      /\ about[r].moment \in Moments /\ plan[r] \in Plans
  BY <1>1, BoundsAreNumbers DEF Places, StreakTypes, PlanStage
<1>3. CASE Ends(r, {}) /\ UNCHANGED plan
  BY <1>1, <1>2, <1>3, EndingKeepsTypes
<1>4. CASE pc' = [pc EXCEPT ![r] = "published"] /\ UNCHANGED <<about, agenda, plan, off>>
  BY <1>1, <1>2, <1>4, WaitingKeepsTypes
<1>5. CASE /\ d # NoDay /\ plan' = [plan EXCEPT ![r].day = d]
           /\ pc' = [pc EXCEPT ![r] = "dated"] /\ UNCHANGED <<about, agenda, off>>
  <2>1. d \in Days
    BY <1>2, <1>5 DEF StreakTypes
  <2>2. p \in Plans /\ p.day = d
    BY <1>2, <2>1 DEF Plans
  <2>3. plan' = [plan EXCEPT ![r] = p] /\ plan'[r] = p
    BY <1>5 DEF StreakTypes
  <2> HIDE DEF d, p
  <2>4. QED
    BY <1>1, <1>2, <1>5, <2>1, <2>2, <2>3, WaitingKeepsTypes
<1>6. QED
  BY <1>3, <1>4, <1>5 DEF LoadEntry, LoadMoment, locals

LEMMA LoadStreakTypes ==
    ASSUME CountInv, StreakTypes, NEW r \in Requests, LoadStreak(r)
    PROVE  StreakTypes'
<1> DEFINE d == plan[r].day
           a == [counts |-> <<>>, next |-> "recalc"]
           bump == [day |-> d, loaded |-> streak, new |-> Bumped(streak, d)]
<1>1. /\ pc[r] = "dated" /\ agenda[r].next = "bump" /\ UNCHANGED <<ops, entry, day, streak>>
      /\ d \in Days
  BY DEF LoadStreak, database, StreakTypes, PlanStage
<1>2. /\ ops' \in 0..MaxOps /\ "creating" \in Places /\ "computed" \in Places
      /\ NoPlan \in Plans
  BY <1>1, BoundsAreNumbers, NewRows DEF Places
<1>3. CASE Goes(r, NoSubject, a) /\ GivesUp(r, {}) /\ plan' = [plan EXCEPT ![r] = NoPlan]
  <2>1. a \in Agendas /\ a.next = "recalc" /\ NoSubject \in About
    BY ShortSequences DEF Agendas, NoSubject, About
  <2>2. off' \subseteq Subjects
    BY <1>3 DEF StreakTypes, GivesUp
  <2> HIDE DEF a
  <2>3. QED
    BY <1>1, <1>2, <1>3, <2>1, <2>2, NoDaysChange, GoingKeepsTypes
<1>4. CASE pc' = [pc EXCEPT ![r] = "creating"] /\ UNCHANGED <<about, agenda, plan, off>>
  BY <1>1, <1>2, <1>4, WaitingKeepsTypes
<1>5. CASE /\ streak # None /\ plan' = [plan EXCEPT ![r] = bump]
           /\ pc' = [pc EXCEPT ![r] = "computed"] /\ UNCHANGED <<about, agenda, off>>
  <2>1. streak \in Rows
    BY <1>5 DEF StreakTypes
  <2>2. bump \in Plans /\ bump.loaded # None
    BY <1>1, <1>5, <2>1, NewRows DEF Plans
  <2> HIDE DEF bump, d
  <2>3. plan'[r] = bump
    BY <1>5 DEF StreakTypes
  <2>4. QED
    BY <1>1, <1>2, <1>5, <2>2, <2>3, WaitingKeepsTypes
<1>6. QED
  BY <1>3, <1>4, <1>5 DEF LoadStreak

LEMMA CreateStreakTypes ==
    ASSUME CountInv, StreakTypes, NEW r \in Requests, CreateStreak(r)
    PROVE  StreakTypes'
<1>1. pc[r] = "creating" /\ UNCHANGED <<ops, entry, day>>
  BY DEF CreateStreak
<1>2. /\ ops' \in 0..MaxOps /\ agenda[r].next = "bump" /\ plan[r].day \in Days
      /\ NoPlan \in Plans /\ NoStreak \in Rows /\ "dated" \in Places
  BY <1>1, BoundsAreNumbers, NewRows DEF StreakTypes, PlanStage, Places
<1>3. CASE Ends(r, {"streak"}) /\ plan' = [plan EXCEPT ![r] = NoPlan] /\ UNCHANGED streak
  BY <1>1, <1>2, <1>3, EndingKeepsTypes DEF Subjects
<1>4. CASE /\ streak' = NoStreak /\ pc' = [pc EXCEPT ![r] = "dated"]
           /\ UNCHANGED <<about, agenda, plan, off>>
  BY <1>1, <1>2, <1>4, WaitingKeepsTypes
<1>5. QED
  BY <1>3, <1>4 DEF CreateStreak

LEMMA ReadDaysTypes ==
    ASSUME CountInv, StreakTypes, NEW r \in Requests, ReadDays(r)
    PROVE  StreakTypes'
<1> DEFINE p == [NoPlan EXCEPT !.new = Recalculated(LoggedDays)]
<1>1. agenda[r].next = "recalc" /\ UNCHANGED <<ops, entry, day, streak>>
  BY DEF ReadDays, At, database
<1>2. ops' \in 0..MaxOps /\ "computed" \in Places
  BY <1>1, BoundsAreNumbers DEF Places
<1>3. CASE Ends(r, {}) /\ UNCHANGED plan
  BY <1>1, <1>2, <1>3, EndingKeepsTypes
<1>4. CASE /\ streak # None /\ plan' = [plan EXCEPT ![r] = p]
           /\ pc' = [pc EXCEPT ![r] = "computed"] /\ UNCHANGED <<about, agenda, off>>
  <2>1. p \in Plans /\ p.loaded = None
    BY NewRows, LoggedDaysAreDays DEF NoPlan, Plans
  <2> HIDE DEF p
  <2>2. plan'[r] = p
    BY <1>4 DEF StreakTypes
  <2>3. QED
    BY <1>1, <1>2, <1>4, <2>1, <2>2, WaitingKeepsTypes
<1>5. QED
  BY <1>3, <1>4 DEF ReadDays

LEMMA WriteStreakTypes ==
    ASSUME CountInv, StreakTypes, NEW r \in Requests, WriteStreak(r)
    PROVE  StreakTypes'
<1>1. /\ pc[r] = "computed" /\ plan' = [plan EXCEPT ![r] = NoPlan]
      /\ UNCHANGED <<ops, entry, day>> /\ Goes(r, NoSubject, Nothing)
  BY DEF WriteStreak
<1>2. streak \in Rows /\ plan[r] \in Plans
  BY <1>1 DEF StreakTypes, PlanStage
<1>3. Merged(streak, plan[r].loaded, plan[r].new) \in Rows
  BY <1>2, MergedRow DEF Plans
<1>4. streak' = streak \/ streak' \in Rows
  BY <1>3 DEF WriteStreak
<1>5. off' \subseteq Subjects
  BY DEF WriteStreak, GivesUp, StreakTypes, Subjects
<1>6. NoSubject \in About /\ Nothing \in Agendas /\ Nothing.next = "none"
  BY ShortSequences DEF NoSubject, About, Nothing, Agendas
<1>7. ops' \in 0..MaxOps
  BY <1>1, BoundsAreNumbers
<1>8. QED
  BY <1>1, <1>4, <1>5, <1>6, <1>7, NoDaysChange, GoingKeepsTypes

LEMMA StepFailsTypes ==
    ASSUME CountInv, StreakTypes, NEW r \in Requests, StepFails(r)
    PROVE  StreakTypes'
<1>1. plan' = [plan EXCEPT ![r] = NoPlan] /\ UNCHANGED <<entry, day, streak>> /\ WithinBound
  BY DEF StepFails, database
<1>2. ops' \in 0..MaxOps
  BY <1>1, BoundsAreNumbers
<1>3. Covers(agenda[r]) \in SUBSET Subjects
  BY CoveredAreSubjects
<1>4. QED
  BY <1>1, <1>2, <1>3, StoppingTypes, EndingKeepsTypes DEF StepFails

LEMMA InitTypes == Init => StreakTypes
BY NewRows, StatisticsAssumption DEF Init, StreakTypes, PlanStage, Nothing, NoSubject, NoDay

LEMMA NextTypes == CountInv /\ StreakTypes /\ [Next]_vars => StreakTypes'
<1> SUFFICES ASSUME CountInv, StreakTypes, [Next]_vars PROVE StreakTypes'
  OBVIOUS
<1>1. CASE UNCHANGED vars
  BY <1>1 DEF vars, StreakTypes, PlanStage
<1>2. ASSUME NEW r \in Requests, RequestStep(r) PROVE StreakTypes'
  <2>1. CASE \E m \in Moments, j \in Journals, draft \in BOOLEAN :
                \/ \E d \in Days : Create(r, m, j, d, draft)
                \/ UpdateRead(r, m, j, draft)
    BY <2>1, CreateTypes, LoadTypes
  <2>2. CASE (\E m \in Moments : DeleteRead(r, m)) \/ \E j \in Journals : DeleteJournalRead(r, j)
    BY <2>2, LoadTypes
  <2>3. CASE UpdateWrite(r) \/ DeleteWrite(r) \/ DeleteJournalWrite(r) \/ Refresh(r)
    BY <2>3, UpdateWriteTypes, DeleteTypes, RefreshTypes
  <2>4. CASE LoadJournal(r) \/ Count(r) \/ CountNothing(r) \/ WriteCount(r)
    BY <2>4, CountTypes, CountNothingTypes, WriteCountTypes
  <2>5. CASE Decide(r) \/ LoadEntry(r) \/ LoadMoment(r) \/ LoadStreak(r) \/ CreateStreak(r) \/ ReadDays(r) \/ WriteStreak(r)
    BY <2>5, DecideTypes, LoadEntryTypes, LoadStreakTypes, CreateStreakTypes, ReadDaysTypes, WriteStreakTypes
  <2>6. CASE StepFails(r)
    BY <2>6, StepFailsTypes
  <2>7. QED
    BY <1>2, <2>1, <2>2, <2>3, <2>4, <2>5, <2>6 DEF RequestStep
<1>3. ASSUME NEW m \in Moments, DeleteMoment(m) \/ \E d \in Days : MoveDay(m, d) PROVE StreakTypes'
  BY <1>3, MomentTypes
<1>4. QED
  BY <1>1, <1>2, <1>3 DEF Next

LEMMA TypesFollow == CountInv /\ StreakTypes => TypeOK
BY DEF CountInv, Types, StreakTypes, Plans, TypeOK

(* The variables keep their types. *)
THEOREM StatisticsTypeCorrect == Spec => []TypeOK
<1>1. Init => CountInv /\ StreakTypes
  BY InitCounts, InitTypes
<1>2. CountInv /\ StreakTypes /\ [Next]_vars => (CountInv /\ StreakTypes)'
  BY NextCounts, NextTypes
<1>3. QED
  BY <1>1, <1>2, TypesFollow, PTL DEF Spec

-----------------------------------------------------------------------------
(* What the streak depends on.                                              *)

(* Before an increment r has read nothing it uses, then it has. *)
Gathering == {"committed", "tasks", "counting", "counted"}
Planning == {"published", "dated", "creating", "computed"}

(* q will write what it read before a later change: it gives the streak up. *)
WillGiveUp(q) == q \in behind /\ pc[q] = "computed" /\ plan[q].new # plan[q].loaded

(* q will bring the row up to date with all days, or give it up. *)
Recalculates(q) ==
    \/ agenda[q].next = "recalc"
    \/ agenda[q].next = "decide" /\ ~about[q].seen.draft /\ about[q].want.draft
    \/ WillGiveUp(q)

(* r will add the day of m to what the row says, not to what it said before. *)
WillBump(r, m) ==
    /\ about[r].moment = m
    /\ \/ agenda[r].next = "decide" /\ about[r].seen.draft /\ ~about[r].want.draft
       \/ agenda[r].next = "bump" /\ (pc[r] \in Gathering \/ r \notin behind)

(* The row says D, and the other days are still to be added. *)
Says(D) == IF streak = None THEN D = {} ELSE Describes(streak, D)

Reached(D) ==
    \A m \in Moments : Published(m) => day[m] \in D \/ \E r \in Requests : WillBump(r, m)

StreakFollows ==
    \/ "streak" \in off
    \/ \E q \in Requests : Recalculates(q)
    \/ \E D \in SUBSET LoggedDays : Says(D) /\ Reached(D)

(* Without a row a recalculation does nothing: every day has an increment. *)
WithoutRow ==
    streak = None =>
        \/ "streak" \in off
        \/ \A m \in Moments : Published(m) => \E r \in Requests : WillBump(r, m)

(* What a commit about x makes of the agenda. *)
Announces(x, a) ==
    IF x.seen = None THEN a.next \in {"none", "bump"}
    ELSE \E row \in Texts : a = AfterUpdate(x.seen, x.want, row)

(* A request that is not behind has planned for the row and the days there are. *)
FreshPlan(r) ==
    r \notin behind =>
        /\ pc[r] = "committed" => Announces(about[r], agenda[r])
        /\ pc[r] \in {"published", "dated", "creating"} => Published(about[r].moment)
        /\ pc[r] \in {"dated", "creating"} => plan[r].day = day[about[r].moment]
        /\ pc[r] = "computed" /\ plan[r].loaded # None =>
               /\ streak = plan[r].loaded
               /\ plan[r].new = Bumped(streak, day[about[r].moment])
               /\ streak.last <= day[about[r].moment] /\ Published(about[r].moment)
        /\ pc[r] = "computed" /\ plan[r].loaded = None => plan[r].new = Recalculated(LoggedDays)

StreakHolds == StreakFollows /\ WithoutRow /\ \A r \in Requests : FreshPlan(r)

StreakInv == CountInv /\ StreakTypes /\ StreakHolds

-----------------------------------------------------------------------------
(* Rows and the days they say.                                              *)

LEMMA PublishedDays ==
    ASSUME CountInv, StreakTypes, NEW m \in Moments, Published(m)
    PROVE  day[m] \in Days /\ day[m] \in LoggedDays
BY DEF StreakTypes, Published, LoggedDays

LEMMA DaysAreNumbers == Days \subseteq Nat \ {0} /\ MaxDay \in Nat /\ Days = 1..MaxDay
BY StatisticsAssumption DEF Days

(* An increment that changes nothing adds a day that the row says already. *)
LEMMA QuietBump ==
    ASSUME StreakInv, NEW q \in Requests, q \notin behind, pc[q] = "computed",
           plan[q].loaded # None, plan[q].new = plan[q].loaded, NEW D \in SUBSET Days, Says(D)
    PROVE  day[about[q].moment] \in D
<1> DEFINE d == day[about[q].moment]
<1>1. /\ streak # None /\ streak \in Rows /\ Bumped(streak, d) = streak
      /\ Published(about[q].moment) /\ about[q].moment \in Moments
  BY DEF StreakInv, StreakHolds, FreshPlan, StreakTypes, PlanStage
<1>2. d \in Days /\ d \in Nat \ {0}
  BY <1>1, PublishedDays, DaysAreNumbers DEF StreakInv
<1>3. streak \in DayRows /\ streak.last \in Nat
  BY <1>1, RowsAreDayRows DEF DayRows
<1> HIDE DEF d
<1>4. streak.last = d
  <2>1. SUFFICES ASSUME streak.last # d PROVE FALSE
    OBVIOUS
  <2>2. Bumped(streak, d).last = d
    <3>1. d \in Nat /\ ~(streak.last # NoDay /\ d - streak.last = 0)
      BY <1>2, <1>3, <2>1
    <3>2. QED
      BY <1>3, <3>1, BumpedRow
  <2>3. QED
    BY <1>1, <2>1, <2>2
<1>5. Describes(streak, D)
  BY <1>1 DEF Says
<1>6. D # {}
  BY <1>2, <1>4, <1>5 DEF Describes, NoStreak, NoDay
<1>7. streak.last \in D
  BY <1>5, <1>6 DEF Describes
<1>8. QED
  BY <1>4, <1>7 DEF d

LEMMA RowStays ==
    ASSUME streak' = streak, NEW D
    PROVE  Says(D)' <=> Says(D)
BY DEF Says, Describes

-----------------------------------------------------------------------------
(* Commits of entries and moments.                                          *)

SameDay(m) == Published(m) /\ Published(m)' /\ day'[m] = day[m]

LEMMA IdleDoesNothing ==
    ASSUME CountInv, NEW q \in Requests, pc[q] \in Uncommitted
    PROVE  ~Recalculates(q) /\ ~WillGiveUp(q) /\ \A m : ~WillBump(q, m)
BY DEF CountInv, Stage, Uncommitted, Nothing, Recalculates, WillGiveUp, WillBump

(* The moment of a request that stays where it is. *)
LEMMA SameMoment ==
    ASSUME NEW q \in Requests, about'[q] = about[q], NEW m, m = about[q].moment
    PROVE  /\ Redated(about[q].moment) <=> Redated(m)
           /\ Published(about[q].moment) <=> Published(m)
           /\ Published(about[q].moment)' <=> Published(m)'
BY DEF Redated, Published

LEMMA SameDayIsNoChange ==
    ASSUME NEW m
    PROVE  /\ SameDay(m) => ~Redated(m)
           /\ ~Redated(m) /\ Published(m) => SameDay(m)
           /\ ~Redated(m) => (Published(m)' <=> Published(m))
BY DEF SameDay, Redated, Published

LEMMA CommitFollows ==
    ASSUME StreakInv, NEW left, Commits(left), UNCHANGED <<streak, plan>>,
           \A q \in Requests :
               \/ pc'[q] = pc[q] /\ agenda'[q] = agenda[q] /\ about'[q] = about[q]
               \/ /\ pc[q] \in Uncommitted /\ pc'[q] \in {"idle", "tasks", "committed"}
                  /\ pc'[q] = "committed" => Announces(about'[q], agenda'[q]),
           "streak" \in Affected =>
               \/ "streak" \in left
               \/ /\ \A m \in Moments : Published(m)' =>
                         SameDay(m) \/ \E q \in Requests : WillBump(q, m)'
                  /\ \/ \E q \in Requests : Recalculates(q)'
                     \/ \A m \in Moments : Published(m) => SameDay(m)
    PROVE  StreakHolds'
<1>1. \A q \in Requests : pc[q] \in Planning =>
          pc'[q] = pc[q] /\ agenda'[q] = agenda[q] /\ about'[q] = about[q]
  BY DEF Planning, Uncommitted
<1>2. "streak" \notin Affected =>
          \A m \in Moments : /\ Published(m)' <=> Published(m)
                             /\ Published(m) => SameDay(m)
  BY SameDayIsNoChange DEF Affected
<1>3. "streak" \notin Affected => LoggedDays' = LoggedDays
  <2>1. SUFFICES ASSUME "streak" \notin Affected PROVE LoggedDays' = LoggedDays
    OBVIOUS
  <2>2. LoggedDays' = {day'[m] : m \in {n \in Moments : Published(n)'}}
    BY DEF LoggedDays
  <2>3. {n \in Moments : Published(n)'} = {n \in Moments : Published(n)}
    BY <1>2, <2>1
  <2>4. \A m \in {n \in Moments : Published(n)} : day'[m] = day[m]
    BY <1>2, <2>1 DEF SameDay
  <2>5. QED
    BY <2>2, <2>3, <2>4 DEF LoggedDays
<1>4. ASSUME NEW q \in Requests PROVE FreshPlan(q)'
  <2>1. SUFFICES ASSUME q \notin behind', pc'[q] \in Planning PROVE FreshPlan(q)'
    <3>1. pc'[q] = "committed" => Announces(about'[q], agenda'[q]) \/ q \in behind'
      <4>1. CASE pc'[q] = pc[q] /\ agenda'[q] = agenda[q] /\ about'[q] = about[q]
        BY <4>1 DEF StreakInv, StreakHolds, FreshPlan, Commits
      <4>2. QED
        BY <4>1
    <3>2. QED
      BY <3>1 DEF FreshPlan, Planning
  <2>2. pc[q] \in Planning
    BY <2>1 DEF Planning
  <2>3. /\ pc'[q] = pc[q] /\ agenda'[q] = agenda[q] /\ about'[q] = about[q]
        /\ plan'[q] = plan[q] /\ q \notin behind /\ ~Outdated(q)
    BY <1>1, <2>1, <2>2 DEF Commits
  <2>4. FreshPlan(q)
    BY DEF StreakInv, StreakHolds
  <2>5. PICK m : m = about[q].moment
    OBVIOUS
  <2>6. /\ Redated(about[q].moment) <=> Redated(m)
        /\ Published(about[q].moment) <=> Published(m)
        /\ Published(about[q].moment)' <=> Published(m)'
    BY <2>3, <2>5, SameMoment
  <2>7. CASE pc[q] \in {"published", "dated", "creating"}
    <3>1. ~Redated(m) /\ Published(m)
      BY <2>3, <2>4, <2>6, <2>7 DEF Outdated, FreshPlan
    <3>2. Published(m)' /\ day'[m] = day[m]
      BY <3>1, SameDayIsNoChange DEF SameDay
    <3>3. QED
      BY <2>3, <2>4, <2>5, <2>6, <2>7, <3>2 DEF FreshPlan
  <2>8. CASE pc[q] = "computed"
    <3>1. "streak" \notin Affected
      BY <2>3, <2>8 DEF Outdated
    <3>2. plan[q].loaded # None => SameDay(m)
      <4>1. plan[q].loaded # None => m \in Moments /\ Published(m)
        BY <2>3, <2>4, <2>5, <2>6, <2>8 DEF StreakInv, StreakTypes, PlanStage, FreshPlan
      <4>2. QED
        BY <1>2, <3>1, <4>1
    <3>3. plan[q].loaded # None => Published(m)' /\ day'[m] = day[m]
      BY <3>2 DEF SameDay
    <3>4. Recalculated(LoggedDays)' = Recalculated(LoggedDays)
      BY <1>3, <3>1
    <3>5. QED
      BY <2>3, <2>4, <2>5, <2>6, <2>8, <3>3, <3>4 DEF FreshPlan
  <2>9. QED
    BY <2>2, <2>7, <2>8 DEF Planning
<1>5. ASSUME NEW q \in Requests
      PROVE  /\ WillGiveUp(q) => WillGiveUp(q)'
             /\ Recalculates(q) => Recalculates(q)'
  <2>1. CASE pc'[q] = pc[q] /\ agenda'[q] = agenda[q] /\ about'[q] = about[q]
    BY <2>1 DEF WillGiveUp, Recalculates, Commits
  <2>2. CASE pc[q] \in Uncommitted
    BY <2>2, IdleDoesNothing DEF StreakInv
  <2>3. QED
    BY <2>1, <2>2
<1>6. ASSUME NEW q \in Requests, NEW m, WillBump(q, m)
      PROVE  \/ WillBump(q, m)'
             \/ /\ q \notin behind /\ q \in behind' /\ pc[q] \in Planning
                /\ agenda[q].next = "bump" /\ about[q].moment = m
                /\ Redated(m) \/ pc[q] = "computed"
  <2>1. pc'[q] = pc[q] /\ agenda'[q] = agenda[q] /\ about'[q] = about[q]
    BY <1>6, IdleDoesNothing DEF StreakInv
  <2>2. q \in behind' /\ q \notin behind => Outdated(q)
    BY DEF Commits
  <2>3. CASE pc[q] \in Planning
    <3>1. Redated(about[q].moment) <=> Redated(m)
      BY <1>6, <2>1, SameMoment DEF WillBump
    <3>2. q \in behind' /\ q \notin behind => Redated(m) \/ pc[q] = "computed"
      BY <2>2, <2>3, <3>1 DEF Outdated, Planning
    <3>3. QED
      BY <1>6, <2>1, <2>3, <3>2 DEF WillBump
  <2>4. CASE pc[q] \notin Planning
    <3>1. agenda[q].next = "bump" => pc[q] \in Gathering
      BY <2>4 DEF StreakInv, CountInv, Stage, Types, Places, Nothing, Planning, Gathering,
                  Uncommitted
    <3>2. QED
      BY <1>6, <2>1, <3>1 DEF WillBump
  <2>5. QED
    BY <2>3, <2>4
<1>7. WithoutRow'
  <2>1. SUFFICES ASSUME streak' = None, "streak" \notin off', NEW m \in Moments, Published(m)'
                 PROVE  \E q \in Requests : WillBump(q, m)'
    BY DEF WithoutRow
  <2>2. streak = None /\ "streak" \notin off
    BY <2>1 DEF Commits
  <2>3. SameDay(m) \/ \E q \in Requests : WillBump(q, m)'
    BY <1>2, <2>1 DEF Commits
  <2>4. CASE SameDay(m)
    <3>1. PICK q \in Requests : WillBump(q, m)
      BY <2>2, <2>4 DEF SameDay, StreakInv, StreakHolds, WithoutRow
    <3>2. pc[q] # "computed"
      BY <2>2 DEF StreakInv, StreakTypes, PlanStage
    <3>3. ~Redated(m)
      BY <2>4, SameDayIsNoChange
    <3>4. QED
      BY <1>6, <3>1, <3>2, <3>3
  <2>5. QED
    BY <2>3, <2>4
<1>8. StreakFollows'
  <2>1. SUFFICES ASSUME "streak" \notin off', \A q \in Requests : ~Recalculates(q)'
                 PROVE  \E D \in SUBSET LoggedDays' : Says(D)' /\ Reached(D)'
    BY DEF StreakFollows
  <2>2. "streak" \notin off /\ \A q \in Requests : ~Recalculates(q)
    BY <1>5, <2>1 DEF Commits
  <2>3. PICK D \in SUBSET LoggedDays : Says(D) /\ Reached(D)
    BY <2>2 DEF StreakInv, StreakHolds, StreakFollows
  <2>4. \A m \in Moments : Published(m) => SameDay(m)
    BY <1>2, <2>1 DEF Commits
  <2>5. D \subseteq LoggedDays'
    <3>1. LoggedDays \subseteq LoggedDays'
      BY <2>4 DEF LoggedDays, SameDay
    <3>2. QED
      BY <3>1
  <2>6. Says(D)'
    BY <2>3, RowStays
  <2>7. ASSUME NEW m \in Moments, Published(m)'
        PROVE  day'[m] \in D \/ \E q \in Requests : WillBump(q, m)'
    <3>1. SameDay(m) \/ \E q \in Requests : WillBump(q, m)'
      BY <1>2, <2>1, <2>7 DEF Commits
    <3>2. CASE SameDay(m)
      <4>1. day[m] \in D \/ \E q \in Requests : WillBump(q, m)
        BY <2>3, <3>2 DEF SameDay, Reached
      <4>2. ASSUME NEW q \in Requests, WillBump(q, m) PROVE day[m] \in D \/ WillBump(q, m)'
        <5>1. SUFFICES ASSUME ~WillBump(q, m)' PROVE day[m] \in D
          OBVIOUS
        <5>2. /\ q \notin behind /\ q \in behind' /\ pc[q] = "computed"
              /\ agenda[q].next = "bump" /\ about[q].moment = m
          BY <1>6, <3>2, <4>2, <5>1, SameDayIsNoChange
        <5>3. ~WillGiveUp(q)' /\ pc'[q] = pc[q]
          BY <1>1, <2>1, <5>2 DEF Recalculates, Planning
        <5>4. plan[q].new = plan[q].loaded
          BY <5>2, <5>3 DEF WillGiveUp
        <5>5. plan[q].loaded # None
          BY <5>2, <5>4 DEF StreakInv, StreakTypes, PlanStage
        <5>6. D \in SUBSET Days
          BY LoggedDaysAreDays DEF StreakInv
        <5>7. day[about[q].moment] \in D
          BY <2>3, <5>2, <5>4, <5>5, <5>6, QuietBump
        <5>8. QED
          BY <5>2, <5>7
      <4>3. QED
        BY <3>2, <4>1, <4>2 DEF SameDay
    <3>3. QED
      BY <3>1, <3>2
  <2>8. Reached(D)'
    BY <2>7 DEF Reached
  <2>9. QED
    BY <2>5, <2>6, <2>8
<1>9. QED
  BY <1>4, <1>7, <1>8 DEF StreakHolds

(* r, which did nothing about the streak, has the agenda of its commit. *)
LEMMA CommittedFromIdle ==
    ASSUME CountInv, NEW r \in Requests, NEW x, NEW a, pc[r] \in Uncommitted, Announces(x, a),
           pc' = [pc EXCEPT ![r] = "committed"], agenda' = [agenda EXCEPT ![r] = a],
           about' = [about EXCEPT ![r] = x]
    PROVE  /\ \A q \in Requests :
                  \/ pc'[q] = pc[q] /\ agenda'[q] = agenda[q] /\ about'[q] = about[q]
                  \/ /\ pc[q] \in Uncommitted /\ pc'[q] \in {"idle", "tasks", "committed"}
                     /\ pc'[q] = "committed" => Announces(about'[q], agenda'[q])
           /\ a.next = "bump" => \A m : x.moment = m => WillBump(r, m)'
           /\ a.next = "decide" /\ x.seen.draft /\ ~x.want.draft =>
                  \A m : x.moment = m => WillBump(r, m)'
           /\ a.next = "recalc" => Recalculates(r)'
           /\ a.next = "decide" /\ ~x.seen.draft /\ x.want.draft => Recalculates(r)'
<1>1. /\ agenda'[r] = a /\ pc'[r] = "committed" /\ about'[r] = x
      /\ \A q \in Requests \ {r} : agenda'[q] = agenda[q] /\ pc'[q] = pc[q]
                                   /\ about'[q] = about[q]
  BY DEF CountInv, Types
<1>2. \A q \in Requests :
          \/ pc'[q] = pc[q] /\ agenda'[q] = agenda[q] /\ about'[q] = about[q]
          \/ /\ pc[q] \in Uncommitted /\ pc'[q] \in {"idle", "tasks", "committed"}
             /\ pc'[q] = "committed" => Announces(about'[q], agenda'[q])
  BY <1>1
<1>3. QED
  BY <1>1, <1>2 DEF WillBump, Recalculates, Gathering

LEMMA CreateFollows ==
    ASSUME StreakInv, NEW r \in Requests, NEW m \in Moments, NEW j \in Journals,
           NEW d \in Days, NEW draft \in BOOLEAN, Create(r, m, j, d, draft)
    PROVE  StreakHolds'
<1>0. PICK x, a, t : /\ t = [journal |-> j, draft |-> draft]
                     /\ x = [moment |-> m, seen |-> None, want |-> t]
                     /\ a = IF draft THEN Nothing ELSE [counts |-> <<j>>, next |-> "bump"]
  OBVIOUS
<1>1. /\ pc[r] = "idle" /\ entry[m] = None /\ entry' = [entry EXCEPT ![m] = t]
      /\ day' = [day EXCEPT ![m] = d] /\ pc' = [pc EXCEPT ![r] = "committed"]
      /\ about' = [about EXCEPT ![r] = x] /\ agenda' = [agenda EXCEPT ![r] = a]
      /\ Commits({}) /\ UNCHANGED <<streak, plan>>
  BY <1>0 DEF Create, locals
<1>2. x.moment = m /\ Announces(x, a)
  BY <1>0 DEF Announces, Nothing
<1>3. /\ entry'[m] = t /\ \A n \in Moments \ {m} : entry'[n] = entry[n] /\ day'[n] = day[n]
      /\ ~Published(m)
  BY <1>1 DEF StreakInv, CountInv, Types, StreakTypes, Published
<1>4. \A n \in Moments : Published(n) => SameDay(n)
  BY <1>3 DEF Published, SameDay
<1>5. \A n \in Moments \ {m} : Published(n)' => SameDay(n)
  BY <1>3 DEF Published, SameDay
<1>6. Published(m)' => a.next = "bump"
  BY <1>0, <1>3 DEF Published
<1>7. /\ \A q \in Requests :
             \/ pc'[q] = pc[q] /\ agenda'[q] = agenda[q] /\ about'[q] = about[q]
             \/ /\ pc[q] \in Uncommitted /\ pc'[q] \in {"idle", "tasks", "committed"}
                /\ pc'[q] = "committed" => Announces(about'[q], agenda'[q])
      /\ a.next = "bump" => WillBump(r, m)'
  <2>1. pc[r] \in Uncommitted /\ CountInv
    BY <1>1 DEF Uncommitted, StreakInv
  <2>2. a.next = "bump" => \A n : x.moment = n => WillBump(r, n)'
    BY <1>1, <1>2, <2>1, CommittedFromIdle
  <2>3. QED
    BY <1>1, <1>2, <2>1, <2>2, CommittedFromIdle
<1>8. \A n \in Moments : Published(n)' => SameDay(n) \/ \E q \in Requests : WillBump(q, n)'
  BY <1>5, <1>6, <1>7
<1>9. QED
  BY <1>1, <1>4, <1>7, <1>8, CommitFollows

LEMMA DeleteFollows ==
    ASSUME StreakInv, NEW r \in Requests, DeleteWrite(r) \/ DeleteJournalWrite(r)
    PROVE  StreakHolds'
<1>1. /\ pc[r] \in Uncommitted /\ UNCHANGED <<day, streak, plan>>
      /\ \A m \in Moments : Published(m)' => Published(m)
  BY DEF DeleteWrite, DeleteJournalWrite, locals, Published, StreakInv, CountInv, Types,
         Uncommitted
<1>2. PICK a \in Agendas : a.next = "recalc" /\ Goes(r, NoSubject, a) /\ \E left : Commits(left)
  <2>1. CASE DeleteWrite(r)
    <3>1. PICK i \in Journals : i = about[r].seen.journal
      BY <2>1 DEF DeleteWrite, StreakInv, CountInv, Stage, Texts
    <3>2. PICK a : a = [counts |-> <<i>>, next |-> "recalc"]
      OBVIOUS
    <3>3. a \in Agendas /\ a.next = "recalc"
      BY <3>2, ShortSequences DEF Agendas
    <3>4. Goes(r, NoSubject, a) /\ \E left : Commits(left)
      BY <2>1, <3>1, <3>2 DEF DeleteWrite
    <3>5. QED
      BY <3>3, <3>4
  <2>2. CASE DeleteJournalWrite(r)
    <3> DEFINE a == [counts |-> <<>>, next |-> "recalc"]
    <3>1. a \in Agendas /\ a.next = "recalc"
      BY ShortSequences DEF Agendas
    <3>2. Goes(r, NoSubject, a) /\ \E left : Commits(left)
      BY <2>2 DEF DeleteJournalWrite
    <3>3. QED
      BY <3>1, <3>2
  <2>3. QED
    BY <2>1, <2>2
<1>3. NoSubject \in About /\ CountInv
  BY DEF NoSubject, About, StreakInv
<1>4. /\ agenda'[r] = a /\ pc'[r] \in {"idle", "tasks"}
      /\ \A q \in Requests \ {r} : agenda'[q] = agenda[q] /\ pc'[q] = pc[q]
                                   /\ about'[q] = about[q]
  BY <1>2, <1>3, GoesOn DEF CountInv
<1>5. /\ \A q \in Requests :
             \/ pc'[q] = pc[q] /\ agenda'[q] = agenda[q] /\ about'[q] = about[q]
             \/ /\ pc[q] \in Uncommitted /\ pc'[q] \in {"idle", "tasks", "committed"}
                /\ pc'[q] = "committed" => Announces(about'[q], agenda'[q])
      /\ Recalculates(r)'
  BY <1>1, <1>2, <1>4 DEF Recalculates
<1>6. \A m \in Moments : Published(m)' => SameDay(m)
  BY <1>1 DEF SameDay
<1>7. QED
  BY <1>1, <1>2, <1>5, <1>6, CommitFollows

LEMMA MomentFollows ==
    ASSUME StreakInv, NEW m \in Moments, DeleteMoment(m) \/ \E d \in Days : MoveDay(m, d)
    PROVE  StreakHolds'
<1>1. PICK left : Commits(left) /\ "streak" \in left
  BY DEF DeleteMoment, MoveDay, Subjects
<1>2. UNCHANGED <<streak, plan, pc, agenda, about>>
  BY DEF DeleteMoment, MoveDay, locals
<1>3. QED
  BY <1>1, <1>2, CommitFollows

LEMMA UpdateFollows ==
    ASSUME StreakInv, NEW r \in Requests, UpdateWrite(r),
           entry[about[r].moment] # None, ~Ends(r, {}) \/ entry' # entry
    PROVE  StreakHolds'
<1>0. PICK x, m, row, a :
          /\ x = about[r] /\ m = x.moment /\ row = Merged(entry[m], x.seen, x.want)
          /\ a = AfterUpdate(x.seen, x.want, row)
  OBVIOUS
<1>1. /\ pc[r] = "update" /\ UNCHANGED <<day, streak, plan, about>>
      /\ entry[m] # None /\ entry' = [entry EXCEPT ![m] = row]
      /\ pc' = [pc EXCEPT ![r] = "committed"] /\ agenda' = [agenda EXCEPT ![r] = a]
      /\ \E left : Commits(left)
  BY <1>0 DEF UpdateWrite, locals
<1>2. /\ x \in Loaded /\ x \in About /\ m \in Moments
      /\ x.seen \in Texts /\ x.want \in Texts /\ entry[m] \in Texts
  BY <1>0, <1>1 DEF StreakInv, CountInv, Stage, Types, Loaded
<1>3. /\ row \in Texts
      /\ row.draft = IF x.want.draft # x.seen.draft THEN x.want.draft ELSE entry[m].draft
  BY <1>0, <1>2, MergedText
<1>4. /\ entry'[m] = row /\ \A n \in Moments \ {m} : entry'[n] = entry[n]
      /\ row # None
  BY <1>1, <1>2, <1>3, StatisticsAssumption DEF StreakInv, CountInv, Types, Texts
<1>5. Announces(x, a) /\ about' = [about EXCEPT ![r] = x]
  <2>1. x.seen # None
    BY <1>2, StatisticsAssumption
  <2>2. QED
    BY <1>0, <1>1, <1>2, <1>3, <2>1 DEF Announces, StreakInv, CountInv, Types
<1>6. /\ x.seen.draft \in BOOLEAN /\ x.want.draft \in BOOLEAN /\ row.draft \in BOOLEAN
      /\ entry[m].draft \in BOOLEAN
  BY <1>2, <1>3 DEF Texts
<1>7. Published(m)' <=> ~row.draft
  BY <1>4 DEF Published
<1>8. Published(m) <=> ~entry[m].draft
  BY <1>1 DEF Published
<1>9. \A n \in Moments \ {m} : /\ Published(n)' <=> Published(n)
                               /\ Published(n) => SameDay(n)
  BY <1>1, <1>4 DEF Published, SameDay
<1>10. row.draft = entry[m].draft => (Published(m) => SameDay(m))
                                     /\ (Published(m)' => SameDay(m))
  BY <1>1, <1>7, <1>8 DEF SameDay
<1>11. ASSUME row.draft # entry[m].draft, ~row.draft
       PROVE  x.seen.draft /\ ~x.want.draft /\ (a.next = "bump" \/ a.next = "decide")
  <2>1. x.seen.draft /\ ~x.want.draft
    BY <1>3, <1>6, <1>11
  <2>2. QED
    BY <1>0, <1>11, <2>1 DEF AfterUpdate
<1>12. ASSUME row.draft # entry[m].draft, row.draft
       PROVE  ~x.seen.draft /\ x.want.draft /\ (a.next = "recalc" \/ a.next = "decide")
  <2>1. ~x.seen.draft /\ x.want.draft
    BY <1>3, <1>6, <1>12
  <2>2. QED
    BY <1>0, <1>12, <2>1 DEF AfterUpdate
<1>13. x.moment = m
  BY <1>0
<1>14. /\ \A q \in Requests :
              \/ pc'[q] = pc[q] /\ agenda'[q] = agenda[q] /\ about'[q] = about[q]
              \/ /\ pc[q] \in Uncommitted /\ pc'[q] \in {"idle", "tasks", "committed"}
                 /\ pc'[q] = "committed" => Announces(about'[q], agenda'[q])
       /\ a.next = "bump" => WillBump(r, m)'
       /\ a.next = "decide" /\ x.seen.draft /\ ~x.want.draft => WillBump(r, m)'
       /\ a.next = "recalc" => Recalculates(r)'
       /\ a.next = "decide" /\ ~x.seen.draft /\ x.want.draft => Recalculates(r)'
  <2>1. pc[r] \in Uncommitted /\ CountInv
    BY <1>1 DEF Uncommitted, StreakInv
  <2>2. /\ a.next = "bump" => \A n : x.moment = n => WillBump(r, n)'
        /\ a.next = "decide" /\ x.seen.draft /\ ~x.want.draft =>
               \A n : x.moment = n => WillBump(r, n)'
    BY <1>1, <1>5, <2>1, CommittedFromIdle
  <2>3. QED
    BY <1>1, <1>5, <1>13, <2>1, <2>2, CommittedFromIdle
<1>15. \A n \in Moments : Published(n)' => SameDay(n) \/ \E q \in Requests : WillBump(q, n)'
  BY <1>7, <1>9, <1>10, <1>11, <1>14
<1>16. \/ \E q \in Requests : Recalculates(q)'
       \/ \A n \in Moments : Published(n) => SameDay(n)
  <2>1. CASE row.draft = entry[m].draft
    BY <1>9, <1>10, <2>1
  <2>2. CASE row.draft # entry[m].draft /\ row.draft
    BY <1>12, <1>14, <2>2
  <2>3. CASE row.draft # entry[m].draft /\ ~row.draft
    <3>1. ~Published(m)
      BY <1>6, <1>8, <2>3
    <3>2. QED
      BY <1>9, <3>1
  <2>4. QED
    BY <2>1, <2>2, <2>3
<1>17. QED
  BY <1>1, <1>14, <1>15, <1>16, CommitFollows

-----------------------------------------------------------------------------
(* Steps of a request that change neither entries nor the row.              *)

LEMMA QuietFollows ==
    ASSUME StreakInv, NEW r \in Requests, UNCHANGED <<entry, day, streak>>, Others(r),
           "streak" \in off => "streak" \in off',
           \A q \in Requests \ {r} :
               pc[q] \in Planning => (q \in behind' <=> q \in behind),
           Recalculates(r) => "streak" \in off' \/ Recalculates(r)',
           \A m \in Moments : WillBump(r, m) /\ Published(m) =>
               \/ "streak" \in off'
               \/ WillBump(r, m)'
               \/ streak # None /\ Recalculates(r)',
           FreshPlan(r)'
    PROVE  StreakHolds'
<1>1. /\ LoggedDays' = LoggedDays /\ \A m : Published(m)' <=> Published(m)
      /\ Recalculated(LoggedDays)' = Recalculated(LoggedDays)
  <2>1. \A m : Published(m)' <=> Published(m)
    BY DEF Published
  <2>2. LoggedDays' = LoggedDays
    BY DEF LoggedDays, Published
  <2>3. QED
    BY <2>1, <2>2
<1>2. ASSUME NEW q \in Requests \ {r}
      PROVE  /\ FreshPlan(q)' /\ (Recalculates(q)' <=> Recalculates(q))
             /\ WillGiveUp(q)' <=> WillGiveUp(q)
             /\ \A m : WillBump(q, m)' <=> WillBump(q, m)
  <2>1. /\ pc'[q] = pc[q] /\ agenda'[q] = agenda[q] /\ about'[q] = about[q] /\ plan'[q] = plan[q]
        /\ pc[q] \in Planning => (q \in behind' <=> q \in behind)
    BY DEF Others
  <2>2. FreshPlan(q)
    BY DEF StreakInv, StreakHolds
  <2>3. FreshPlan(q)'
    <3>1. pc[q] = "committed" => q \notin behind
      BY DEF StreakInv, CountInv, Stage, Reading
    <3>2. pc[q] = "committed" => Announces(about'[q], agenda'[q])
      BY <2>1, <2>2, <3>1 DEF FreshPlan
    <3>3. PICK m : m = about[q].moment
      OBVIOUS
    <3>4. Published(about[q].moment)' <=> Published(about[q].moment)
      BY <1>1, <2>1, <3>3, SameMoment
    <3>5. QED
      BY <1>1, <2>1, <2>2, <3>2, <3>4 DEF FreshPlan, Planning
  <2>4. WillGiveUp(q)' <=> WillGiveUp(q)
    BY <2>1 DEF WillGiveUp, Planning
  <2>5. Recalculates(q)' <=> Recalculates(q)
    BY <2>1, <2>4 DEF Recalculates
  <2>6. agenda[q].next = "bump" =>
            pc[q] \in Gathering \/ pc[q] \in Planning
    BY DEF StreakInv, CountInv, Stage, Types, Places, Nothing, Gathering, Planning, Uncommitted
  <2>7. \A m : WillBump(q, m)' <=> WillBump(q, m)
    BY <2>1, <2>6 DEF WillBump
  <2>8. QED
    BY <2>3, <2>4, <2>5, <2>7
<1>3. WithoutRow'
  <2>1. SUFFICES ASSUME streak' = None, "streak" \notin off', NEW m \in Moments, Published(m)'
                 PROVE  \E q \in Requests : WillBump(q, m)'
    BY DEF WithoutRow
  <2>2. \E q \in Requests : WillBump(q, m)
    BY <1>1, <2>1 DEF StreakInv, StreakHolds, WithoutRow
  <2>3. WillBump(r, m) => WillBump(r, m)'
    BY <1>1, <2>1
  <2>4. QED
    BY <1>2, <2>2, <2>3
<1>4. StreakFollows'
  <2>1. SUFFICES ASSUME "streak" \notin off', \A q \in Requests : ~Recalculates(q)'
                 PROVE  \E D \in SUBSET LoggedDays' : Says(D)' /\ Reached(D)'
    BY DEF StreakFollows
  <2>2. "streak" \notin off /\ \A q \in Requests : ~Recalculates(q)
    BY <1>2, <2>1
  <2>3. PICK D \in SUBSET LoggedDays : Says(D) /\ Reached(D)
    BY <2>2 DEF StreakInv, StreakHolds, StreakFollows
  <2>4. Says(D)'
    BY <2>3, RowStays
  <2>5. ASSUME NEW m \in Moments, Published(m)'
        PROVE  day'[m] \in D \/ \E q \in Requests : WillBump(q, m)'
    <3>1. day[m] \in D \/ \E q \in Requests : WillBump(q, m)
      BY <1>1, <2>3, <2>5 DEF Reached
    <3>2. WillBump(r, m) => WillBump(r, m)'
      BY <1>1, <2>1, <2>5
    <3>3. QED
      BY <1>2, <3>1, <3>2
  <2>6. Reached(D)'
    BY <2>5 DEF Reached
  <2>7. QED
    BY <1>1, <2>3, <2>4, <2>6
<1>5. \A q \in Requests : FreshPlan(q)'
  BY <1>2
<1>6. QED
  BY <1>3, <1>4, <1>5 DEF StreakHolds

(* r ends, or gives up what it has still to do about the streak. *)
LEMMA EndingFollows ==
    ASSUME StreakInv, NEW r \in Requests, NEW lost, Ends(r, lost), UNCHANGED <<entry, day, streak>>,
           plan' = plan \/ plan' = [plan EXCEPT ![r] = NoPlan],
           \/ "streak" \in lost
           \/ ~Recalculates(r) /\ \A m \in Moments : ~(WillBump(r, m) /\ Published(m))
    PROVE  StreakHolds'
<1>1. NoSubject \in About /\ Nothing \in Agendas /\ Nothing.next = "none"
  BY ShortSequences DEF NoSubject, About, Nothing, Agendas
<1>2. Goes(r, NoSubject, Nothing) /\ off' = off \union lost /\ behind' = behind \ {r}
  BY DEF Ends, GivesUp
<1>3. /\ pc'[r] = "idle"
      /\ \A q \in Requests \ {r} : agenda'[q] = agenda[q] /\ pc'[q] = pc[q]
                                   /\ about'[q] = about[q]
  BY <1>1, <1>2, GoesOn DEF StreakInv, CountInv
<1>4. \A q \in Requests \ {r} : plan'[q] = plan[q]
  BY DEF StreakInv, StreakTypes
<1>5. Others(r) /\ FreshPlan(r)'
  BY <1>3, <1>4 DEF Others, FreshPlan
<1>6. QED
  BY <1>2, <1>5, QuietFollows

(* r leaves all it has still to do, and so does what it leaves. *)
LEMMA AbandonFollows ==
    ASSUME StreakInv, NEW r \in Requests, Ends(r, Covers(agenda[r])),
           UNCHANGED <<entry, day, streak>>, plan' = plan \/ plan' = [plan EXCEPT ![r] = NoPlan]
    PROVE  StreakHolds'
<1>1. CASE agenda[r].next = "none"
  <2>1. pc[r] # "computed"
    BY <1>1 DEF StreakInv, StreakTypes, PlanStage
  <2>2. ~Recalculates(r) /\ \A m : ~WillBump(r, m)
    BY <1>1, <2>1 DEF Recalculates, WillGiveUp, WillBump
  <2>3. QED
    BY <2>2, EndingFollows
<1>2. CASE agenda[r].next # "none"
  <2>1. "streak" \in Covers(agenda[r])
    BY <1>2 DEF Covers
  <2>2. QED
    BY <2>1, EndingFollows
<1>3. QED
  BY <1>1, <1>2

(* r goes on with another agenda about the streak, or the same. *)
LEMMA GoingFollows ==
    ASSUME StreakInv, NEW r \in Requests, NEW x \in About, NEW a \in Agendas,
           a.next = "decide" => x \in Loaded, Goes(r, x, a), UNCHANGED <<entry, day, streak>>,
           plan' = plan \/ plan' = [plan EXCEPT ![r] = NoPlan], pc[r] # "computed",
           "streak" \in off => "streak" \in off',
           \A q \in Requests \ {r} : pc[q] \in Planning => (q \in behind' <=> q \in behind),
           \/ "streak" \in off'
           \/ agenda[r].next = "none"
           \/ /\ a.next = agenda[r].next /\ x.moment = about[r].moment
              /\ a.next = "decide" =>
                     /\ x.seen = about[r].seen
                     /\ x.seen.draft => (~about[r].want.draft => ~x.want.draft)
                     /\ ~x.seen.draft => (about[r].want.draft => x.want.draft)
           \/ a.next = "recalc" /\ streak # None
           \/ a.next = "bump" /\ x.moment = about[r].moment /\ ~Recalculates(r)
           \/ a.next = "recalc" /\ \A m \in Moments : ~(WillBump(r, m) /\ Published(m))
    PROVE  StreakHolds'
<1>1. /\ agenda'[r] = a /\ pc'[r] = (IF a = Nothing THEN "idle" ELSE "tasks")
      /\ \A q \in Requests \ {r} : agenda'[q] = agenda[q] /\ pc'[q] = pc[q]
                                   /\ about'[q] = about[q]
  BY GoesOn DEF StreakInv, CountInv
<1>2. about'[r] = Needed(x, a)
  BY DEF Goes, StreakInv, CountInv, Types
<1>3. a.next = "decide" => about'[r] = x
  BY <1>2 DEF Needed
<1>4. a.next = "bump" => about'[r].moment = x.moment /\ pc'[r] = "tasks"
  BY <1>1, <1>2 DEF Needed, NoSubject, Nothing
<1>5. Others(r) /\ FreshPlan(r)' /\ ~WillGiveUp(r)
  <2>1. \A q \in Requests \ {r} : plan'[q] = plan[q]
    BY DEF StreakInv, StreakTypes
  <2>2. QED
    BY <1>1, <2>1 DEF Others, FreshPlan, WillGiveUp
<1>6. CASE /\ a.next = agenda[r].next /\ x.moment = about[r].moment
           /\ a.next = "decide" =>
                  /\ x.seen = about[r].seen
                  /\ x.seen.draft => (~about[r].want.draft => ~x.want.draft)
                  /\ ~x.seen.draft => (about[r].want.draft => x.want.draft)
  <2>1. Recalculates(r) => Recalculates(r)'
    BY <1>1, <1>3, <1>5, <1>6 DEF Recalculates
  <2>2. \A m : WillBump(r, m) => WillBump(r, m)'
    BY <1>1, <1>3, <1>4, <1>6 DEF WillBump, Gathering
  <2>3. QED
    BY <1>5, <2>1, <2>2, QuietFollows
<1>7. CASE a.next = "recalc" /\ (streak # None \/ \A m \in Moments : ~(WillBump(r, m) /\ Published(m)))
  <2>1. Recalculates(r)'
    BY <1>1, <1>7 DEF Recalculates
  <2>2. QED
    BY <1>5, <1>7, <2>1, QuietFollows
<1>8. CASE a.next = "bump" /\ x.moment = about[r].moment /\ ~Recalculates(r)
  <2>1. \A m : WillBump(r, m) => WillBump(r, m)'
    BY <1>1, <1>4, <1>8 DEF WillBump, Gathering
  <2>2. QED
    BY <1>5, <1>8, <2>1, QuietFollows
<1>9. CASE agenda[r].next = "none"
  <2>1. ~Recalculates(r) /\ \A m : ~WillBump(r, m)
    BY <1>5, <1>9 DEF Recalculates, WillBump
  <2>2. QED
    BY <1>5, <2>1, QuietFollows
<1>10. CASE "streak" \in off'
  BY <1>5, <1>10, QuietFollows
<1>11. QED
  BY <1>6, <1>7, <1>8, <1>9, <1>10

LEMMA StoppingFollows ==
    ASSUME StreakInv, NEW r \in Requests, pc[r] # "computed", StopsCounting(r),
           UNCHANGED <<entry, day, streak>>,
           plan' = plan \/ plan' = [plan EXCEPT ![r] = NoPlan]
    PROVE  StreakHolds'
<1> DEFINE a == NotCounted(agenda[r])
<1>1. /\ Goes(r, about[r], a) /\ off' = off \union ToSet(agenda[r].counts)
      /\ behind' = behind \ {r}
  BY DEF StopsCounting, GivesUp
<1>2. a \in Agendas /\ a.next = agenda[r].next
  BY ShortSequences DEF NotCounted, StreakInv, CountInv, Types, Agendas
<1>3. about[r] \in About /\ (a.next = "decide" => about[r] \in Loaded)
  BY <1>2 DEF StreakInv, CountInv, Types, Stage
<1> HIDE DEF a
<1>4. QED
  BY <1>1, <1>2, <1>3, GoingFollows

(* r moves on with the agenda it has and what it has planned. *)
LEMMA MovingFollows ==
    ASSUME StreakInv, NEW r \in Requests,
           pc[r] \in {"idle", "tasks", "counting", "published", "dated", "creating"},
           NEW place \in Places,
           pc' = [pc EXCEPT ![r] = place], agenda' = agenda, behind' = behind, off' = off,
           \A q \in Requests \ {r} : about'[q] = about[q] /\ plan'[q] = plan[q],
           pc[r] # "idle" => about' = about,
           UNCHANGED <<entry, day, streak>>, FreshPlan(r)'
    PROVE  StreakHolds'
<1>1. pc'[r] = place /\ \A q \in Requests \ {r} : pc'[q] = pc[q]
  BY DEF StreakInv, CountInv, Types
<1>2. Others(r)
  BY <1>1 DEF Others
<1>3. ~WillGiveUp(r) /\ (pc[r] \in {"idle", "tasks", "counting"} => r \notin behind)
  BY DEF WillGiveUp, StreakInv, CountInv, Stage, Reading
<1>4. CASE pc[r] = "idle"
  <2>1. ~Recalculates(r) /\ \A m : ~WillBump(r, m)
    BY <1>4, IdleDoesNothing DEF StreakInv, Uncommitted
  <2>2. QED
    BY <1>2, <2>1, QuietFollows
<1>5. CASE pc[r] # "idle"
  <2>1. Recalculates(r) => Recalculates(r)'
    BY <1>3, <1>5 DEF Recalculates
  <2>2. \A m : WillBump(r, m) => WillBump(r, m)'
    BY <1>3, <1>5 DEF WillBump, Gathering
  <2>3. QED
    BY <1>2, <2>1, <2>2, QuietFollows
<1>6. QED
  BY <1>4, <1>5

LEMMA LoadFollows ==
    ASSUME StreakInv, NEW r \in Requests,
           \/ \E m \in Moments, j \in Journals, draft \in BOOLEAN : UpdateRead(r, m, j, draft)
           \/ \E m \in Moments : DeleteRead(r, m)
           \/ \E j \in Journals : DeleteJournalRead(r, j)
    PROVE  StreakHolds'
<1>1. PICK place \in {"update", "delete", "journal"} :
          /\ pc[r] = "idle" /\ pc' = [pc EXCEPT ![r] = place]
          /\ \E x : about' = [about EXCEPT ![r] = x]
          /\ UNCHANGED <<entry, day, streak, agenda, plan, behind, off>>
  <2>1. CASE \E j \in Journals : DeleteJournalRead(r, j)
    <3>1. about' = [about EXCEPT ![r] = about[r]]
      BY <2>1 DEF DeleteJournalRead, StreakInv, CountInv, Types
    <3>2. QED
      BY <2>1, <3>1 DEF DeleteJournalRead, database, locals
  <2>2. QED
    BY <2>1 DEF UpdateRead, DeleteRead, database, locals
<1>2. \A q \in Requests \ {r} : about'[q] = about[q]
  BY <1>1 DEF StreakInv, CountInv, Types
<1>3. FreshPlan(r)' /\ place \in Places
  BY <1>1 DEF FreshPlan, StreakInv, CountInv, Types, Places
<1>4. QED
  BY <1>1, <1>2, <1>3, MovingFollows

LEMMA CountFollows ==
    ASSUME StreakInv, NEW r \in Requests, LoadJournal(r) \/ Count(r)
    PROVE  StreakHolds'
<1>1. PICK place \in {"counting", "counted"} :
          /\ pc[r] \in {"tasks", "counting"} /\ pc' = [pc EXCEPT ![r] = place]
          /\ UNCHANGED <<entry, day, streak, about, agenda, plan, behind, off>>
  BY DEF LoadJournal, Count, Recounting, database
<1>2. FreshPlan(r)' /\ place \in Places
  BY <1>1 DEF FreshPlan, StreakInv, CountInv, Types, Places
<1>3. QED
  BY <1>1, <1>2, MovingFollows

(* What an update that moved its entry decides by row, the entry as it has it. *)
LEMMA DecidingFollows ==
    ASSUME StreakInv, NEW r \in Requests, NEW row \in Texts, NEW lost,
           pc[r] = "tasks", agenda[r].next = "decide", Decides(r, row, lost),
           UNCHANGED <<entry, day, streak, plan>>
    PROVE  StreakHolds'
<1>0. PICK x, old, a : /\ x = about[r] /\ old = [x.seen EXCEPT !.journal = row.journal]
                       /\ a = AfterUpdate(old, row, row)
  OBVIOUS
<1>1. x \in Loaded /\ x \in About /\ x.seen \in Texts /\ x.want \in Texts
  BY <1>0 DEF StreakInv, CountInv, Stage, Types, Loaded
<1>2. ~WillGiveUp(r) /\ row.draft \in BOOLEAN /\ x.seen.draft \in BOOLEAN
      /\ x.want.draft \in BOOLEAN /\ row.journal \in Journals
  BY <1>1 DEF WillGiveUp, Texts
<1>3. CASE row.draft = x.seen.draft /\ Ends(r, lost \union Reverted(x, row))
  <2>1. CASE x.want.draft # x.seen.draft
    <3>1. "streak" \in lost \union Reverted(x, row)
      BY <1>3, <2>1 DEF Reverted
    <3>2. QED
      BY <1>3, <3>1, EndingFollows
  <2>2. CASE x.want.draft = x.seen.draft
    <3>1. ~Recalculates(r) /\ \A n : ~WillBump(r, n)
      BY <1>0, <1>2, <2>2 DEF Recalculates, WillBump
    <3>2. QED
      BY <1>3, <3>1, EndingFollows
  <2>3. QED
    BY <2>1, <2>2
<1>4. CASE row.draft # x.seen.draft /\ Goes(r, x, a) /\ GivesUp(r, lost)
  <2>1. old.journal = row.journal /\ old.draft = x.seen.draft
    BY <1>0, <1>1 DEF Texts
  <2>2. a \in Agendas
    BY <1>0, <1>2, <2>1, AgendaOfUpdate
  <2>3. /\ "streak" \in off => "streak" \in off'
        /\ \A q \in Requests \ {r} : q \in behind' <=> q \in behind
    BY <1>4 DEF GivesUp
  <2>4. CASE row.draft
    <3>1. a.next = "recalc"
      BY <1>0, <1>2, <1>4, <2>1, <2>4 DEF AfterUpdate
    <3>2. \A n : ~WillBump(r, n)
      BY <1>0, <1>2, <1>4, <2>4 DEF WillBump
    <3>3. QED
      BY <1>1, <1>4, <2>2, <2>3, <3>1, <3>2, GoingFollows
  <2>5. CASE ~row.draft
    <3>1. a.next = "bump" /\ x.seen.draft
      BY <1>0, <1>2, <1>4, <2>1, <2>5 DEF AfterUpdate
    <3>2. ~Recalculates(r)
      BY <1>0, <1>2, <3>1 DEF Recalculates
    <3>3. QED
      BY <1>0, <1>1, <1>4, <2>2, <2>3, <3>1, <3>2, GoingFollows
  <2>6. QED
    BY <2>4, <2>5
<1>5. QED
  BY <1>0, <1>3, <1>4 DEF Decides

LEMMA CountNothingFollows ==
    ASSUME StreakInv, NEW r \in Requests, CountNothing(r)
    PROVE  StreakHolds'
<1>1. pc[r] = "tasks" /\ UNCHANGED <<entry, day, streak, plan>> /\ r \notin behind
  BY DEF CountNothing, Recounting, database, locals, StreakInv, CountInv, Stage, Reading
<1>2. CASE StopsCounting(r)
  BY <1>1, <1>2, StoppingFollows
<1>3. CASE /\ agenda[r].next = "decide"
           /\ Decides(r, about[r].want, ToSet(agenda[r].counts))
  <2>1. about[r].want \in Texts
    BY <1>3 DEF StreakInv, CountInv, Stage, Loaded
  <2>2. QED
    BY <1>1, <1>3, <2>1, DecidingFollows
<1>4. CASE /\ agenda[r].next = "bump" /\ pc' = [pc EXCEPT ![r] = "published"]
           /\ agenda' = [agenda EXCEPT ![r] = NotCounted(agenda[r])]
           /\ off' = off \union ToSet(agenda[r].counts)
           /\ behind' = behind \union (IF Published(about[r].moment) THEN {} ELSE {r})
           /\ UNCHANGED about
  <2>1. PICK m : m = about[r].moment
    OBVIOUS
  <2>2. /\ pc'[r] = "published" /\ about'[r] = about[r] /\ plan' = plan
        /\ agenda'[r].next = "bump" /\ (r \notin behind' => Published(m))
        /\ \A q \in Requests \ {r} : pc'[q] = pc[q] /\ agenda'[q] = agenda[q]
                                     /\ (q \in behind' <=> q \in behind)
    BY <1>1, <1>4, <2>1 DEF StreakInv, CountInv, Types, NotCounted, Agendas
  <2>3. Published(m)' <=> Published(m)
    BY <1>1 DEF Published
  <2>4. Published(about[r].moment)' <=> Published(m)'
    BY <2>1, <2>2, SameMoment
  <2>5. Others(r) /\ FreshPlan(r)'
    BY <1>4, <2>2, <2>3, <2>4 DEF Others, FreshPlan
  <2>6. ~Recalculates(r)
    BY <1>1, <1>4 DEF Recalculates, WillGiveUp
  <2>7. \A n \in Moments : WillBump(r, n) /\ Published(n) => WillBump(r, n)'
    <3>1. ASSUME NEW n \in Moments, WillBump(r, n), Published(n) PROVE WillBump(r, n)'
      <4>1. n = m
        BY <2>1, <3>1 DEF WillBump
      <4>2. r \notin behind'
        BY <1>1, <1>4, <2>1, <3>1, <4>1
      <4>3. QED
        BY <2>1, <2>2, <4>1, <4>2 DEF WillBump
    <3>2. QED
      BY <3>1
  <2>8. QED
    BY <1>1, <1>4, <2>2, <2>5, <2>6, <2>7, QuietFollows
<1>5. QED
  BY <1>2, <1>3, <1>4 DEF CountNothing

LEMMA WriteCountFollows ==
    ASSUME StreakInv, NEW r \in Requests, WriteCount(r)
    PROVE  StreakHolds'
<1> DEFINE a == Counted(agenda[r])
           j == Subject(r)
<1>1. pc[r] = "counted" /\ UNCHANGED <<entry, day, streak, plan>> /\ agenda[r].counts # <<>>
  BY DEF WriteCount, StreakInv, CountInv, Stage
<1>2. CASE StopsCounting(r)
  BY <1>1, <1>2, StoppingFollows
<1>3. CASE ~StopsCounting(r)
  <2>1. /\ j \in Journals /\ j # "streak"
        /\ Tail(agenda[r].counts) \in Seq(Journals)
    BY <1>1, SubjectIsJournal DEF StreakInv, CountInv
  <2>2. /\ Goes(r, about[r], a) /\ behind' = behind \ {r}
        /\ off' \in {off \union {j}, off \union {}, off \ {j}, off}
    BY <1>3 DEF WriteCount
  <2>3. a \in Agendas /\ a.next = agenda[r].next
    BY <2>1 DEF StreakInv, CountInv, Types, Agendas, Counted
  <2>4. about[r] \in About /\ (a.next = "decide" => about[r] \in Loaded)
    BY <2>3 DEF StreakInv, CountInv, Types, Stage
  <2>5. "streak" \in off => "streak" \in off'
    BY <2>1, <2>2
  <2> HIDE DEF a
  <2>6. QED
    BY <1>1, <2>2, <2>3, <2>4, <2>5, GoingFollows
<1>4. QED
  BY <1>2, <1>3

LEMMA DecideFollows ==
    ASSUME StreakInv, NEW r \in Requests, Decide(r)
    PROVE  StreakHolds'
<1>0. PICK x, m, row : x = about[r] /\ m = x.moment /\ row = entry[m]
  OBVIOUS
<1>1. /\ pc[r] = "tasks" /\ agenda[r].next = "decide"
      /\ UNCHANGED <<entry, day, streak, plan>>
  BY DEF Decide, At, database, locals
<1>2. x \in Loaded /\ m \in Moments /\ x.seen.draft \in BOOLEAN /\ x.want.draft \in BOOLEAN
  BY <1>0, <1>1 DEF StreakInv, CountInv, Stage, Loaded, Texts
<1>3. CASE row = None /\ Ends(r, IF x.want.draft # x.seen.draft THEN {"streak"} ELSE {})
  <2>1. CASE x.want.draft # x.seen.draft
    BY <1>1, <1>3, <2>1, EndingFollows
  <2>2. CASE x.want.draft = x.seen.draft
    <3>1. ~Recalculates(r) /\ \A n : ~WillBump(r, n)
      BY <1>0, <1>1, <1>2, <2>2 DEF Recalculates, WillGiveUp, WillBump
    <3>2. QED
      BY <1>1, <1>3, <3>1, EndingFollows
  <2>3. QED
    BY <2>1, <2>2
<1>4. CASE row # None /\ Decides(r, row, {})
  <2>1. row \in Texts
    BY <1>0, <1>2, <1>4 DEF StreakInv, CountInv, Types
  <2>2. QED
    BY <1>1, <1>4, <2>1, DecidingFollows
<1>5. QED
  BY <1>0, <1>3, <1>4 DEF Decide

(* The refresh: what others have made of the entry decides what is still to be done. *)
LEMMA RefreshFollows ==
    ASSUME StreakInv, NEW r \in Requests, Refresh(r)
    PROVE  StreakHolds'
<1>0. PICK x, row : x = about[r] /\ row = entry[x.moment]
  OBVIOUS
<1>1. pc[r] = "committed" /\ UNCHANGED <<entry, day, streak, plan>>
  BY DEF Refresh, database, locals
<1>2. /\ x \in About /\ x.moment \in Moments /\ x.want \in Texts /\ row \in Texts \union {None}
      /\ r \notin behind /\ agenda[r] \in Agendas
  BY <1>0, <1>1 DEF StreakInv, CountInv, Types, Stage, Reading
<1>3. Announces(x, agenda[r])
  BY <1>0, <1>1, <1>2 DEF StreakInv, StreakHolds, FreshPlan
<1>4. ~WillGiveUp(r)
  BY <1>1 DEF WillGiveUp
<1>5. CASE row = None /\ Ends(r, Covers(agenda[r]))
  BY <1>1, <1>5, AbandonFollows
<1>6. ASSUME NEW a \in Agendas, NEW y \in About, NEW lost, Goes(r, y, a),
             GivesUp(r, (Covers(agenda[r]) \ Covers(a)) \union lost)
      PROVE  /\ "streak" \in off => "streak" \in off'
             /\ \A q \in Requests \ {r} : q \in behind' <=> q \in behind
             /\ a.next = "none" => agenda[r].next = "none" \/ "streak" \in off'
             /\ "streak" \in lost => "streak" \in off'
  <2>1. off' = off \union (Covers(agenda[r]) \ Covers(a)) \union lost
        /\ behind' = behind \ {r}
    BY <1>6 DEF GivesUp
  <2>2. a.counts \in Seq(Journals)
    BY DEF Agendas
  <2>3. "streak" \notin ToSet(a.counts)
    BY <2>2, ListedAreJournals, StatisticsAssumption
  <2>4. /\ a.next = "none" => "streak" \notin Covers(a)
        /\ agenda[r].next # "none" => "streak" \in Covers(agenda[r])
    BY <2>3 DEF Covers
  <2>5. QED
    BY <2>1, <2>4
<1>7. CASE /\ row # None /\ x.seen = None
           /\ \E a \in AfterCreate(row) :
                 Goes(r, x, a) /\ GivesUp(r, Covers(agenda[r]) \ Covers(a))
  <2>1. PICK a \in AfterCreate(row) :
            Goes(r, x, a) /\ GivesUp(r, Covers(agenda[r]) \ Covers(a))
    BY <1>7
  <2>2. a \in Agendas /\ a.next # "decide"
    <3>1. row.journal \in Journals
      BY <1>2, <1>7 DEF Texts
    <3>2. QED
      BY <3>1, AgendaOfCreate
  <2>3. a.next \in {"none", "bump"}
    BY DEF AfterCreate, Nothing
  <2>4. agenda[r].next \in {"none", "bump"}
    BY <1>3, <1>7 DEF Announces
  <2>5. GivesUp(r, (Covers(agenda[r]) \ Covers(a)) \union {})
    BY <2>1
  <2>6. /\ "streak" \in off => "streak" \in off'
        /\ \A q \in Requests \ {r} : q \in behind' <=> q \in behind
        /\ a.next = "none" => agenda[r].next = "none" \/ "streak" \in off'
    BY <1>2, <1>6, <2>1, <2>2, <2>5
  <2>7. ~Recalculates(r)
    BY <1>4, <2>4 DEF Recalculates
  <2>8. QED
    BY <1>0, <1>1, <1>2, <2>1, <2>2, <2>3, <2>6, <2>7, GoingFollows
<1>8. CASE /\ row # None /\ x.seen # None
           /\ LET a == AfterUpdate(x.seen, x.want, row)
              IN  /\ Goes(r, [x EXCEPT !.want = row], a)
                  /\ GivesUp(r, (Covers(agenda[r]) \ Covers(a)) \union Reverted(x, row))
  <2>1. PICK a, y, lost : /\ a = AfterUpdate(x.seen, x.want, row) /\ y = [x EXCEPT !.want = row]
                          /\ lost = Reverted(x, row)
    OBVIOUS
  <2>2. /\ x.seen \in Texts /\ row \in Texts
        /\ y \in Loaded /\ y \in About /\ y.moment = x.moment /\ y.seen = x.seen /\ y.want = row
    BY <1>2, <1>8, <2>1 DEF About, Loaded
  <2>3. /\ x.seen.draft \in BOOLEAN /\ x.want.draft \in BOOLEAN /\ row.draft \in BOOLEAN
        /\ x.seen.journal \in Journals /\ x.want.journal \in Journals /\ row.journal \in Journals
    BY <1>2, <2>2 DEF Texts
  <2>4. a \in Agendas
    BY <2>1, <2>2, <2>3, AgendaOfUpdate
  <2>5. Goes(r, y, a) /\ GivesUp(r, (Covers(agenda[r]) \ Covers(a)) \union lost)
    BY <1>8, <2>1
  <2>6. /\ "streak" \in off => "streak" \in off'
        /\ \A q \in Requests \ {r} : q \in behind' <=> q \in behind
        /\ a.next = "none" => agenda[r].next = "none" \/ "streak" \in off'
        /\ "streak" \in lost => "streak" \in off'
    BY <1>6, <2>2, <2>4, <2>5
  <2>7. PICK before \in Texts : agenda[r] = AfterUpdate(x.seen, x.want, before)
    BY <1>3, <1>8 DEF Announces
  <2>8. x.want.draft # x.seen.draft /\ row.draft = x.seen.draft => "streak" \in off'
    BY <2>1, <2>6 DEF Reverted
  <2>9. CASE x.seen.journal # x.want.journal
    <3>1. a.next = "decide" /\ agenda[r].next = "decide"
      BY <2>1, <2>7, <2>9 DEF AfterUpdate
    <3>2. \/ "streak" \in off'
          \/ /\ y.seen.draft => (~x.want.draft => ~y.want.draft)
             /\ ~y.seen.draft => (x.want.draft => y.want.draft)
      BY <2>2, <2>3, <2>8
    <3>3. QED
      BY <1>0, <1>1, <2>2, <2>4, <2>5, <2>6, <3>1, <3>2, GoingFollows
  <2>10. CASE x.seen.journal = x.want.journal
    <3>1. /\ a.next \in {"none", "bump", "recalc"} /\ agenda[r].next \in {"none", "bump", "recalc"}
          /\ a.next = "bump" => x.seen.draft
          /\ agenda[r].next = "bump" => x.seen.draft
          /\ a.next = "recalc" => ~x.seen.draft
          /\ agenda[r].next = "recalc" => ~x.seen.draft
      BY <2>1, <2>7, <2>10 DEF AfterUpdate, Nothing
    <3>2. \/ "streak" \in off' \/ agenda[r].next = "none"
          \/ a.next = agenda[r].next /\ a.next # "decide"
      BY <2>6, <3>1
    <3>3. QED
      BY <1>0, <1>1, <2>2, <2>4, <2>5, <2>6, <3>2, GoingFollows
  <2>11. QED
    BY <2>9, <2>10
<1>9. QED
  BY <1>0, <1>5, <1>7, <1>8 DEF Refresh

LEMMA LoadEntryFollows ==
    ASSUME StreakInv, NEW r \in Requests, LoadEntry(r) \/ LoadMoment(r)
    PROVE  StreakHolds'
<1>0. PICK m, d : m = about[r].moment /\ d = day[m]
  OBVIOUS
<1>1. /\ pc[r] \in {"tasks", "published"} /\ agenda[r].next = "bump"
      /\ UNCHANGED <<entry, day, streak>>
  BY DEF LoadEntry, LoadMoment, At, database, StreakInv, StreakTypes, PlanStage
<1>2. m \in Moments
  BY <1>0, <1>1 DEF StreakInv, StreakTypes, PlanStage
<1>3. ~Recalculates(r) /\ \A n : WillBump(r, n) => n = m
  BY <1>0, <1>1 DEF Recalculates, WillGiveUp, WillBump
<1>4. CASE Ends(r, {}) /\ ~Published(m) /\ UNCHANGED plan
  BY <1>1, <1>3, <1>4, EndingFollows
<1>5. ASSUME NEW place \in {"published", "dated"}, pc' = [pc EXCEPT ![r] = place],
             UNCHANGED <<about, agenda, off, behind>>, r \notin behind => Published(m),
             \A q \in Requests \ {r} : plan'[q] = plan[q],
             place = "dated" => plan'[r].day = d
      PROVE  StreakHolds'
  <2>1. pc'[r] = place /\ place \in Places
    BY <1>5 DEF StreakInv, CountInv, Types, Places
  <2>2. (Published(m)' <=> Published(m)) /\ about'[r].moment = m /\ day'[m] = d
    BY <1>0, <1>1, <1>5 DEF Published
  <2>3. Published(about[r].moment)' <=> Published(m)'
    BY <1>0, <1>5, SameMoment
  <2>4. FreshPlan(r)'
    BY <1>5, <2>1, <2>2, <2>3 DEF FreshPlan
  <2>5. QED
    BY <1>1, <1>5, <2>1, <2>4, MovingFollows
<1>6. CASE LoadEntry(r)
  <2>1. UNCHANGED plan
    BY <1>6 DEF LoadEntry, locals
  <2>2. \/ Ends(r, {}) /\ ~Published(m)
        \/ /\ Published(m) /\ pc' = [pc EXCEPT ![r] = "published"]
           /\ UNCHANGED <<about, agenda, off, behind>>
    BY <1>0, <1>6 DEF LoadEntry
  <2>3. QED
    BY <1>4, <1>5, <2>1, <2>2
<1>7. CASE LoadMoment(r)
  <2>1. pc[r] = "published"
    BY <1>7 DEF LoadMoment
  <2>2. CASE Ends(r, {}) /\ d = NoDay /\ UNCHANGED plan
    <3>1. ~Published(m)
      BY <1>0, <1>2, <2>2, DaysAreNumbers DEF Published, StreakInv, StreakTypes, NoDay
    <3>2. QED
      BY <1>4, <2>2, <3>1
  <2>3. CASE /\ plan' = [plan EXCEPT ![r].day = d] /\ pc' = [pc EXCEPT ![r] = "dated"]
             /\ UNCHANGED <<about, agenda, off, behind>>
    <3>1. plan'[r].day = d /\ \A q \in Requests \ {r} : plan'[q] = plan[q]
      BY <2>3 DEF StreakInv, StreakTypes, Plans
    <3>2. r \notin behind => Published(m)
      BY <1>0, <2>1 DEF StreakInv, StreakHolds, FreshPlan
    <3>3. QED
      BY <1>5, <2>3, <3>1, <3>2
  <2>4. QED
    BY <1>0, <1>7, <2>2, <2>3 DEF LoadMoment
<1>8. QED
  BY <1>6, <1>7

LEMMA LoadStreakFollows ==
    ASSUME StreakInv, NEW r \in Requests, LoadStreak(r)
    PROVE  StreakHolds'
<1>0. PICK m, d : m = about[r].moment /\ d = plan[r].day
  OBVIOUS
<1>1. /\ pc[r] = "dated" /\ agenda[r].next = "bump" /\ UNCHANGED <<entry, day, streak>>
  BY DEF LoadStreak, database, StreakInv, StreakTypes, PlanStage
<1>2. d \in Days /\ d \in Nat \ {0} /\ (r \notin behind => Published(m) /\ d = day[m])
  BY <1>0, <1>1, DaysAreNumbers DEF StreakInv, StreakTypes, PlanStage, StreakHolds, FreshPlan
<1>3. CASE /\ streak # None /\ Goes(r, NoSubject, [counts |-> <<>>, next |-> "recalc"])
           /\ GivesUp(r, {}) /\ plan' = [plan EXCEPT ![r] = NoPlan]
  <2>1. PICK a : a = [counts |-> <<>>, next |-> "recalc"]
    OBVIOUS
  <2>2. a \in Agendas /\ a.next = "recalc" /\ NoSubject \in About
    BY <2>1, ShortSequences DEF Agendas, NoSubject, About
  <2>3. Goes(r, NoSubject, a)
    BY <1>3, <2>1
  <2>4. /\ "streak" \in off => "streak" \in off'
        /\ \A q \in Requests \ {r} : q \in behind' <=> q \in behind
    BY <1>3 DEF GivesUp
  <2>5. QED
    BY <1>1, <1>3, <2>2, <2>3, <2>4, GoingFollows
<1>4. ASSUME NEW place \in {"creating", "computed"}, NEW p \in Plans,
             plan' = [plan EXCEPT ![r] = p], pc' = [pc EXCEPT ![r] = place],
             UNCHANGED <<about, agenda, off, behind>>, p.day = d,
             place = "computed" => /\ p.loaded = streak /\ p.loaded # None
                                   /\ p.new = Bumped(streak, d) /\ streak.last <= d
      PROVE  StreakHolds'
  <2>1. plan'[r] = p /\ \A q \in Requests \ {r} : plan'[q] = plan[q]
    BY <1>4 DEF StreakInv, StreakTypes
  <2>2. pc'[r] = place /\ place \in Places
    BY <1>4 DEF StreakInv, CountInv, Types, Places
  <2>3. (Published(m)' <=> Published(m)) /\ about'[r].moment = m /\ day' = day /\ streak' = streak
    BY <1>0, <1>1, <1>4 DEF Published
  <2>4. Published(about[r].moment)' <=> Published(m)'
    BY <1>0, <1>4, SameMoment
  <2>5. FreshPlan(r)'
    BY <1>2, <1>4, <2>1, <2>2, <2>3, <2>4 DEF FreshPlan
  <2>6. QED
    BY <1>1, <1>4, <2>1, <2>2, <2>5, MovingFollows
<1>5. CASE pc' = [pc EXCEPT ![r] = "creating"] /\ UNCHANGED <<about, agenda, plan, off, behind>>
  <2>1. PICK p \in Plans : p = plan[r]
    BY DEF StreakInv, StreakTypes
  <2>2. plan' = [plan EXCEPT ![r] = p] /\ p.day = d
    BY <1>0, <1>5, <2>1 DEF StreakInv, StreakTypes
  <2>3. QED
    BY <1>4, <1>5, <2>2
<1>6. CASE /\ streak # None /\ d >= streak.last
           /\ plan' = [plan EXCEPT ![r] = [day |-> d, loaded |-> streak, new |-> Bumped(streak, d)]]
           /\ pc' = [pc EXCEPT ![r] = "computed"] /\ UNCHANGED <<about, agenda, off, behind>>
  <2>1. PICK p : p = [day |-> d, loaded |-> streak, new |-> Bumped(streak, d)]
    OBVIOUS
  <2>2. streak \in Rows
    BY <1>6 DEF StreakInv, StreakTypes
  <2>3. p \in Plans /\ p.loaded = streak /\ p.new = Bumped(streak, d) /\ p.day = d
    BY <1>2, <1>6, <2>1, <2>2, NewRows DEF Plans
  <2>4. streak.last <= d
    BY <1>2, <1>6, <2>2, DaysAreNumbers DEF Rows, NoDay
  <2>5. QED
    BY <1>4, <1>6, <2>1, <2>3, <2>4
<1>7. QED
  BY <1>0, <1>3, <1>5, <1>6 DEF LoadStreak

(* A request that stays, about entries that stay, has still planned for them. *)
LEMMA StayingIsFresh ==
    ASSUME StreakInv, NEW q \in Requests, UNCHANGED <<entry, day>>,
           pc'[q] = pc[q] /\ agenda'[q] = agenda[q] /\ about'[q] = about[q] /\ plan'[q] = plan[q],
           q \in behind => q \in behind',
           \/ streak' = streak
           \/ q \in behind'
           \/ ~(pc[q] = "computed" /\ plan[q].loaded # None)
    PROVE  FreshPlan(q)'
<1>1. FreshPlan(q)
  BY DEF StreakInv, StreakHolds
<1>2. PICK m : m = about[q].moment
  OBVIOUS
<1>3. /\ Published(about[q].moment)' <=> Published(about[q].moment)
      /\ day' = day /\ LoggedDays' = LoggedDays
  <2>1. \A n : Published(n)' <=> Published(n)
    BY DEF Published
  <2>2. LoggedDays' = LoggedDays
    BY DEF LoggedDays, Published
  <2>3. QED
    BY <1>2, <2>1, <2>2, SameMoment
<1>4. Recalculated(LoggedDays)' = Recalculated(LoggedDays)
  BY <1>3
<1>5. Announces(about[q], agenda[q]) => Announces(about'[q], agenda'[q])
  OBVIOUS
<1>6. QED
  BY <1>1, <1>3, <1>4, <1>5 DEF FreshPlan

(* Without a row a recalculation does nothing, and all days have an increment. *)
LEMMA ReadDaysFollows ==
    ASSUME StreakInv, NEW r \in Requests, ReadDays(r)
    PROVE  StreakHolds'
<1>1. pc[r] = "tasks" /\ agenda[r].next = "recalc" /\ UNCHANGED <<entry, day, streak>>
  BY DEF ReadDays, At, database
<1>2. r \notin behind /\ \A m : ~WillBump(r, m)
  BY <1>1 DEF StreakInv, CountInv, Stage, Reading, WillBump
<1>3. /\ LoggedDays' = LoggedDays /\ \A m : Published(m)' <=> Published(m)
      /\ Recalculated(LoggedDays)' = Recalculated(LoggedDays)
  <2>1. LoggedDays' = LoggedDays /\ \A m : Published(m)' <=> Published(m)
    BY <1>1 DEF LoggedDays, Published
  <2>2. QED
    BY <2>1
<1>4. CASE streak = None /\ Ends(r, {}) /\ UNCHANGED plan
  <2>1. NoSubject \in About /\ Nothing \in Agendas /\ Nothing.next = "none"
    BY ShortSequences DEF NoSubject, About, Nothing, Agendas
  <2>2. Goes(r, NoSubject, Nothing) /\ off' = off /\ behind' = behind \ {r}
    BY <1>4 DEF Ends, GivesUp
  <2>3. /\ pc'[r] = "idle"
        /\ \A q \in Requests \ {r} : agenda'[q] = agenda[q] /\ pc'[q] = pc[q]
                                     /\ about'[q] = about[q]
    BY <2>1, <2>2, GoesOn DEF StreakInv, CountInv
  <2>4. behind' = behind
    BY <1>2, <2>2
  <2>5. ASSUME NEW q \in Requests
        PROVE  /\ WillGiveUp(q) => WillGiveUp(q)' /\ Recalculates(q)'
               /\ \A m : WillBump(q, m) => WillBump(q, m)'
               /\ FreshPlan(q)'
    <3>1. CASE q = r
      BY <1>2, <2>3, <2>4, <3>1 DEF WillGiveUp, FreshPlan
    <3>2. CASE q # r
      <4>1. pc'[q] = pc[q] /\ agenda'[q] = agenda[q] /\ about'[q] = about[q] /\ plan'[q] = plan[q]
        BY <1>4, <2>3, <3>2
      <4>3. FreshPlan(q)'
        BY <1>1, <2>4, <4>1, StayingIsFresh
      <4>4. QED
        BY <2>4, <4>1, <4>3 DEF WillGiveUp, Recalculates, WillBump
    <3>3. QED
      BY <3>1, <3>2
  <2>6. WithoutRow'
    BY <1>1, <1>3, <2>2, <2>5 DEF WithoutRow, StreakInv, StreakHolds
  <2>7. StreakFollows'
    <3>1. SUFFICES ASSUME "streak" \notin off', \A q \in Requests : ~Recalculates(q)'
                   PROVE  Says({})' /\ Reached({})'
      BY DEF StreakFollows
    <3>2. Says({})'
      BY <1>1, <1>4 DEF Says
    <3>3. ASSUME NEW m \in Moments, Published(m)' PROVE \E q \in Requests : WillBump(q, m)'
      BY <1>3, <1>4, <2>2, <2>5, <3>1, <3>3 DEF WithoutRow, StreakInv, StreakHolds
    <3>4. QED
      BY <3>2, <3>3 DEF Reached
  <2>8. QED
    BY <2>5, <2>6, <2>7 DEF StreakHolds
<1>5. CASE /\ plan' = [plan EXCEPT ![r] = [NoPlan EXCEPT !.new = Recalculated(LoggedDays)]]
           /\ pc' = [pc EXCEPT ![r] = "computed"] /\ UNCHANGED <<about, agenda, off, behind>>
  <2>1. PICK p : p = [NoPlan EXCEPT !.new = Recalculated(LoggedDays)]
    OBVIOUS
  <2>2. p.loaded = None /\ p.new = Recalculated(LoggedDays)
    BY <2>1 DEF NoPlan
  <2>3. plan'[r] = p /\ \A q \in Requests \ {r} : plan'[q] = plan[q]
    BY <1>5, <2>1 DEF StreakInv, StreakTypes
  <2>4. pc'[r] = "computed"
    BY <1>5 DEF StreakInv, CountInv, Types
  <2>5. FreshPlan(r)' /\ "computed" \in Places
    BY <1>3, <2>2, <2>3, <2>4 DEF FreshPlan, Places
  <2>6. QED
    BY <1>1, <1>5, <2>3, <2>5, MovingFollows
<1>6. QED
  BY <1>4, <1>5 DEF ReadDays

LEMMA StepFailsFollows ==
    ASSUME StreakInv, NEW r \in Requests, StepFails(r)
    PROVE  StreakHolds'
<1>1. plan' = [plan EXCEPT ![r] = NoPlan] /\ UNCHANGED <<entry, day, streak>>
  BY DEF StepFails, database
<1>2. CASE agenda[r].counts # <<>> /\ StopsCounting(r)
  <2>1. pc[r] # "computed"
    BY <1>2 DEF StreakInv, CountInv, Stage
  <2>2. QED
    BY <1>1, <1>2, <2>1, StoppingFollows
<1>3. CASE Ends(r, Covers(agenda[r]))
  BY <1>1, <1>3, AbandonFollows
<1>4. QED
  BY <1>2, <1>3 DEF StepFails

-----------------------------------------------------------------------------
(* Steps that write the row.                                                *)

(* r writes the row; the others that have used what it said are told so. *)
Writes(r) ==
    /\ UNCHANGED <<entry, day>> /\ Others(r)
    /\ \A q \in Requests \ {r} :
           q \in behind' <=> q \in behind \/ (streak' # streak /\ q \in Increments(r))

LEMMA OthersFollow ==
    ASSUME StreakInv, NEW r \in Requests, Writes(r), NEW q \in Requests \ {r}
    PROVE  /\ FreshPlan(q)' /\ (Recalculates(q) => Recalculates(q)')
           /\ WillGiveUp(q) => WillGiveUp(q)'
           /\ \A m : WillBump(q, m) =>
                  \/ WillBump(q, m)'
                  \/ WillGiveUp(q)'
                  \/ /\ q \notin behind /\ pc[q] = "computed" /\ about[q].moment = m
                     /\ plan[q].loaded # None /\ plan[q].new = plan[q].loaded
<1>1. /\ pc'[q] = pc[q] /\ agenda'[q] = agenda[q] /\ about'[q] = about[q] /\ plan'[q] = plan[q]
      /\ q \in behind' <=> q \in behind \/ (streak' # streak /\ q \in Increments(r))
  BY DEF Writes, Others
<1>3. WillGiveUp(q) => WillGiveUp(q)'
  BY <1>1 DEF WillGiveUp
<1>4. Recalculates(q) => Recalculates(q)'
  BY <1>1, <1>3 DEF Recalculates
<1>6. FreshPlan(q)'
  <2>1. \/ streak' = streak
        \/ q \in behind'
        \/ ~(pc[q] = "computed" /\ plan[q].loaded # None)
    BY <1>1 DEF Increments
  <2>2. QED
    BY <1>1, <2>1, StayingIsFresh DEF Writes
<1>7. ASSUME NEW m, WillBump(q, m), ~WillBump(q, m)', ~WillGiveUp(q)'
      PROVE  /\ q \notin behind /\ pc[q] = "computed" /\ about[q].moment = m
             /\ plan[q].loaded # None /\ plan[q].new = plan[q].loaded
  <2>1. /\ agenda[q].next = "bump" /\ q \notin behind /\ q \in behind' /\ about[q].moment = m
        /\ pc[q] = "computed" /\ plan[q].loaded # None
    BY <1>1, <1>7 DEF WillBump, Increments
  <2>2. QED
    BY <1>1, <1>7, <2>1 DEF WillGiveUp
<1>8. QED
  BY <1>3, <1>4, <1>6, <1>7

LEMMA CreateStreakFollows ==
    ASSUME StreakInv, NEW r \in Requests, CreateStreak(r)
    PROVE  StreakHolds'
<1>1. pc[r] = "creating" /\ UNCHANGED <<entry, day>>
  BY DEF CreateStreak
<1>2. CASE Ends(r, {"streak"}) /\ plan' = [plan EXCEPT ![r] = NoPlan] /\ UNCHANGED streak
  BY <1>1, <1>2, EndingFollows
<1>3. CASE /\ streak = None /\ streak' = NoStreak /\ pc' = [pc EXCEPT ![r] = "dated"]
           /\ UNCHANGED <<about, agenda, plan, off, behind>>
  <2>1. \A q \in Requests : pc[q] # "computed"
    BY <1>3 DEF StreakInv, StreakTypes, PlanStage
  <2>2. pc'[r] = "dated" /\ \A q \in Requests \ {r} : pc'[q] = pc[q]
    BY <1>3 DEF StreakInv, CountInv, Types
  <2>3. Writes(r)
    BY <1>1, <1>3, <2>1, <2>2 DEF Writes, Others, Increments
  <2>4. NoStreak # None
    BY NewRows, RowsAreDayRows
  <2>5. FreshPlan(r)'
    <3>1. PICK m : m = about[r].moment
      OBVIOUS
    <3>2. Published(about[r].moment)' <=> Published(about[r].moment)
      <4>1. Published(m)' <=> Published(m)
        BY <1>1 DEF Published
      <4>2. QED
        BY <1>3, <3>1, <4>1, SameMoment
    <3>3. FreshPlan(r)
      BY DEF StreakInv, StreakHolds
    <3>4. QED
      BY <1>1, <1>3, <2>2, <3>2, <3>3 DEF FreshPlan
  <2>6. \A n : WillBump(r, n) => WillBump(r, n)'
    BY <1>1, <1>3 DEF WillBump, Gathering
  <2>7. StreakFollows'
    <3>1. SUFFICES ASSUME "streak" \notin off'
                   PROVE  Says({})' /\ Reached({})'
      BY DEF StreakFollows
    <3>2. Says({})'
      BY <1>3, <2>4 DEF Says, Describes
    <3>3. ASSUME NEW n \in Moments, Published(n)' PROVE \E q \in Requests : WillBump(q, n)'
      <4>1. Published(n)
        BY <1>1, <3>3 DEF Published
      <4>2. PICK q \in Requests : WillBump(q, n)
        BY <1>3, <3>1, <4>1 DEF StreakInv, StreakHolds, WithoutRow
      <4>3. ~WillGiveUp(q)'
        BY <2>1, <2>2 DEF WillGiveUp
      <4>4. QED
        BY <2>1, <2>3, <2>6, <4>2, <4>3, OthersFollow
    <3>4. QED
      BY <3>2, <3>3 DEF Reached
  <2>8. WithoutRow'
    BY <1>3, <2>4 DEF WithoutRow
  <2>9. QED
    BY <2>3, <2>5, <2>7, <2>8, OthersFollow DEF StreakHolds
<1>4. QED
  BY <1>2, <1>3 DEF CreateStreak

LEMMA WriteStreakFollows ==
    ASSUME StreakInv, NEW r \in Requests, WriteStreak(r)
    PROVE  StreakHolds'
<1>0. PICK loaded, new, row, d, m :
          /\ loaded = plan[r].loaded /\ new = plan[r].new /\ row = Merged(streak, loaded, new)
          /\ m = about[r].moment /\ d = day[m]
  OBVIOUS
<1>1. /\ pc[r] = "computed" /\ UNCHANGED <<entry, day, count>>
      /\ plan' = [plan EXCEPT ![r] = NoPlan] /\ Goes(r, NoSubject, Nothing)
  BY DEF WriteStreak
<1>2. /\ streak \in Rows /\ loaded \in Rows \union {None} /\ new \in Rows /\ streak # None
      /\ agenda[r].next = (IF loaded = None THEN "recalc" ELSE "bump")
  BY <1>0, <1>1, RowsAreDayRows DEF StreakInv, StreakTypes, PlanStage, Plans
<1>3. /\ row \in Rows /\ row # None
      /\ loaded = None \/ streak = loaded => row = new
      /\ new = loaded => row = streak /\ loaded # None
  BY <1>0, <1>2, MergedRow, RowsAreDayRows
<1>4. CASE GivesUp(r, {"streak"}) /\ UNCHANGED streak
  BY <1>1, <1>4, EndingFollows DEF Ends
<1>5. ASSUME streak' = row,
             off' = (IF r \in behind /\ new # loaded THEN off \union {"streak"}
                     ELSE IF r \notin behind /\ loaded = None THEN off \ {"streak"} ELSE off),
             behind' = (behind \ {r}) \union (IF streak' # streak THEN Increments(r) ELSE {})
      PROVE  StreakHolds'
  <2>1. /\ pc'[r] = "idle"
        /\ \A q \in Requests \ {r} : agenda'[q] = agenda[q] /\ pc'[q] = pc[q]
                                     /\ about'[q] = about[q]
    <3>1. NoSubject \in About /\ Nothing \in Agendas /\ Nothing.next # "decide"
      BY ShortSequences DEF NoSubject, About, Nothing, Agendas
    <3>2. QED
      BY <1>1, <3>1, GoesOn DEF StreakInv, CountInv
  <2>2. \A q \in Requests \ {r} : plan'[q] = plan[q]
    BY <1>1 DEF StreakInv, StreakTypes
  <2>3. /\ behind' = (behind \ {r}) \union (IF streak' # streak THEN Increments(r) ELSE {})
        /\ off' = IF r \in behind /\ new # loaded THEN off \union {"streak"}
                  ELSE IF r \notin behind /\ loaded = None THEN off \ {"streak"} ELSE off
    BY <1>5
  <2>4. Writes(r)
    BY <1>1, <2>1, <2>2, <2>3 DEF Writes, Others
  <2>5. FreshPlan(r)' /\ r \notin behind'
    BY <2>1, <2>3 DEF FreshPlan, Increments
  <2>6. WithoutRow' /\ \A q \in Requests : FreshPlan(q)'
    BY <1>3, <1>5, <2>4, <2>5, OthersFollow DEF WithoutRow
  <2>7. CASE r \in behind /\ new # loaded
    <3>1. StreakFollows'
      BY <2>3, <2>7 DEF StreakFollows
    <3>2. QED
      BY <2>6, <3>1 DEF StreakHolds
  <2>8. CASE r \in behind /\ new = loaded
    <3>1. streak' = streak /\ off' = off /\ behind' = behind \ {r}
      BY <1>3, <1>5, <2>3, <2>8
    <3>2. ~WillGiveUp(r)
      BY <1>0, <1>1, <2>8 DEF WillGiveUp
    <3>3. ~Recalculates(r) /\ \A n : ~WillBump(r, n)
      BY <1>1, <1>2, <1>3, <2>8, <3>2 DEF Recalculates, WillBump, Gathering
    <3>4. Ends(r, {})
      BY <1>1, <3>1 DEF Ends, GivesUp
    <3>5. QED
      BY <1>1, <3>1, <3>3, <3>4, EndingFollows
  <2>9. CASE r \notin behind /\ loaded = None
    <3>1. streak' = Recalculated(LoggedDays)
      BY <1>0, <1>1, <1>3, <1>5, <2>9 DEF StreakInv, StreakHolds, FreshPlan
    <3>2. LoggedDays \in SUBSET (1..MaxDay) /\ MaxDay \in Nat
      BY LoggedDaysAreDays, DaysAreNumbers DEF StreakInv
    <3>3. Describes(Recalculated(LoggedDays), LoggedDays)
      BY <3>2, RecalculatedDescribes
    <3>4. LoggedDays' = LoggedDays
      BY <1>1 DEF LoggedDays, Published
    <3>5. PICK D : D = LoggedDays
      OBVIOUS
    <3>6. Describes(streak', D)
      BY <3>1, <3>3, <3>5
    <3>7. Says(D)'
      BY <1>3, <1>5, <3>6 DEF Says, Describes
    <3>8. Reached(D)'
      <4>1. \A n \in Moments : Published(n)' => day'[n] \in LoggedDays'
        BY DEF LoggedDays
      <4>2. QED
        BY <3>4, <3>5, <4>1 DEF Reached
    <3>9. StreakFollows'
      BY <3>4, <3>5, <3>7, <3>8 DEF StreakFollows
    <3>10. QED
      BY <2>6, <3>9 DEF StreakHolds
  <2>10. CASE r \notin behind /\ loaded # None
    <3>1. /\ streak = loaded /\ new = Bumped(streak, d) /\ streak.last <= d
          /\ Published(m) /\ m \in Moments
      BY <1>0, <1>1, <1>2, <2>10 DEF StreakInv, StreakHolds, FreshPlan, StreakTypes, PlanStage
    <3>2. d \in Days /\ d \in LoggedDays /\ d \in Nat \ {0}
      BY <1>0, <3>1, PublishedDays, DaysAreNumbers DEF StreakInv
    <3>3. off' = off /\ streak' = Bumped(streak, d)
      BY <1>3, <1>5, <2>3, <2>10, <3>1
    <3>4. ~Recalculates(r)
      BY <1>2, <2>10 DEF Recalculates, WillGiveUp
    <3>5. LoggedDays' = LoggedDays /\ \A n : Published(n)' <=> Published(n)
      BY <1>1 DEF LoggedDays, Published
    <3>6. SUFFICES ASSUME "streak" \notin off', \A q \in Requests : ~Recalculates(q)'
                   PROVE  \E D \in SUBSET LoggedDays' : Says(D)' /\ Reached(D)'
      BY <2>6 DEF StreakHolds, StreakFollows
    <3>7. "streak" \notin off /\ \A q \in Requests : ~Recalculates(q)
      BY <2>4, <3>3, <3>4, <3>6, OthersFollow
    <3>8. PICK D \in SUBSET LoggedDays : Says(D) /\ Reached(D)
      BY <3>7 DEF StreakInv, StreakHolds, StreakFollows
    <3>9. D \in SUBSET Days /\ D \in SUBSET (Nat \ {0})
      BY <3>8, LoggedDaysAreDays, DaysAreNumbers DEF StreakInv
    <3>10. PICK E : E = D \union {d}
      OBVIOUS
    <3>11. Says(E)'
      <4>1. Describes(streak, D) /\ streak \in DayRows
        BY <1>2, <3>8, RowsAreDayRows DEF Says
      <4>2. Describes(Bumped(streak, d), D \union {d})
        BY <3>1, <3>2, <3>9, <4>1, BumpedDescribes
      <4>3. Describes(streak', E)
        BY <3>3, <3>10, <4>2
      <4>4. QED
        BY <1>3, <1>5, <4>3 DEF Says, Describes
    <3>12. ASSUME NEW n \in Moments, Published(n)'
           PROVE  day'[n] \in E \/ \E q \in Requests : WillBump(q, n)'
      <4>1. day[n] \in D \/ \E q \in Requests : WillBump(q, n)
        BY <3>5, <3>8, <3>12 DEF Reached
      <4>2. WillBump(r, n) => day[n] \in E
        BY <1>0, <3>10 DEF WillBump
      <4>3. ASSUME NEW q \in Requests \ {r}, WillBump(q, n) PROVE day[n] \in D \/ WillBump(q, n)'
        <5>1. ~WillGiveUp(q)'
          BY <3>6 DEF Recalculates
        <5>2. SUFFICES ASSUME ~WillBump(q, n)' PROVE day[n] \in D
          OBVIOUS
        <5>3. /\ q \notin behind /\ pc[q] = "computed" /\ about[q].moment = n
              /\ plan[q].loaded # None /\ plan[q].new = plan[q].loaded
          BY <2>4, <4>3, <5>1, <5>2, OthersFollow
        <5>4. QED
          BY <3>8, <3>9, <5>3, QuietBump
      <4>4. QED
        BY <1>1, <3>10, <4>1, <4>2, <4>3
    <3>13. Reached(E)'
      BY <3>12 DEF Reached
    <3>14. QED
      BY <3>2, <3>5, <3>8, <3>10, <3>11, <3>13
  <2>11. QED
    BY <2>7, <2>8, <2>9, <2>10
<1>6. QED
  BY <1>0, <1>4, <1>5 DEF WriteStreak

-----------------------------------------------------------------------------
(* Theorem: the row is right.                                               *)

LEMMA InitFollows == Init => StreakHolds
<1> SUFFICES ASSUME Init PROVE StreakHolds
  OBVIOUS
<1>1. \A m \in Moments : ~Published(m)
  BY DEF Init, Published
<1>2. Says({}) /\ Reached({}) /\ WithoutRow
  BY <1>1 DEF Init, Says, Reached, WithoutRow
<1>3. \A r \in Requests : FreshPlan(r)
  BY DEF Init, FreshPlan
<1>4. QED
  BY <1>2, <1>3 DEF StreakHolds, StreakFollows

LEMMA NextFollows == StreakInv /\ [Next]_vars => StreakHolds'
<1> SUFFICES ASSUME StreakInv, [Next]_vars PROVE StreakHolds'
  OBVIOUS
<1>1. CASE UNCHANGED vars
  <2>1. UNCHANGED <<entry, day, streak, pc, about, agenda, plan, behind, off>>
    BY <1>1 DEF vars
  <2>2. LoggedDays' = LoggedDays /\ \A m : Published(m)' <=> Published(m)
    BY <2>1 DEF LoggedDays, Published
  <2>3. Recalculated(LoggedDays)' = Recalculated(LoggedDays)
    BY <2>2
  <2>4. ASSUME NEW r \in Requests
        PROVE  /\ FreshPlan(r)' /\ (Recalculates(r)' <=> Recalculates(r))
               /\ WillGiveUp(r)' <=> WillGiveUp(r)
               /\ \A m : WillBump(r, m)' <=> WillBump(r, m)
    <3>2. FreshPlan(r)'
      BY <2>1, StayingIsFresh
    <3>3. QED
      BY <2>1, <3>2 DEF Recalculates, WillGiveUp, WillBump
  <2>5. \A D : Says(D)' <=> Says(D)
    BY <2>1, RowStays
  <2>6. \A D : Reached(D)' <=> Reached(D)
    BY <2>1, <2>2, <2>4 DEF Reached
  <2>7. StreakFollows' /\ WithoutRow'
    BY <2>1, <2>2, <2>4, <2>5, <2>6 DEF StreakFollows, WithoutRow, StreakInv, StreakHolds
  <2>8. QED
    BY <2>4, <2>7 DEF StreakHolds
<1>2. ASSUME NEW r \in Requests, RequestStep(r) PROVE StreakHolds'
  <2>1. CASE \E m \in Moments, j \in Journals, draft \in BOOLEAN :
                \/ \E d \in Days : Create(r, m, j, d, draft)
                \/ UpdateRead(r, m, j, draft)
    BY <2>1, CreateFollows, LoadFollows
  <2>2. CASE (\E m \in Moments : DeleteRead(r, m)) \/ \E j \in Journals : DeleteJournalRead(r, j)
    BY <2>2, LoadFollows
  <2>3. CASE UpdateWrite(r)
    <3>1. CASE Ends(r, {}) /\ UNCHANGED entry
      <4>1. pc[r] = "update" /\ UNCHANGED <<entry, day, streak, plan>>
        BY <2>3, <3>1 DEF UpdateWrite, locals
      <4>2. ~Recalculates(r) /\ \A m : ~WillBump(r, m)
        BY <4>1, IdleDoesNothing DEF StreakInv, Uncommitted
      <4>3. QED
        BY <3>1, <4>1, <4>2, EndingFollows
    <3>2. CASE ~(Ends(r, {}) /\ UNCHANGED entry)
      BY <2>3, <3>2, UpdateFollows DEF UpdateWrite
    <3>3. QED
      BY <3>1, <3>2
  <2>4. CASE DeleteWrite(r) \/ DeleteJournalWrite(r) \/ Refresh(r)
    BY <2>4, DeleteFollows, RefreshFollows
  <2>5. CASE LoadJournal(r) \/ Count(r) \/ CountNothing(r) \/ WriteCount(r)
    BY <2>5, CountFollows, CountNothingFollows, WriteCountFollows
  <2>6. CASE Decide(r) \/ LoadEntry(r) \/ LoadMoment(r) \/ LoadStreak(r) \/ CreateStreak(r) \/ ReadDays(r) \/ WriteStreak(r)
    BY <2>6, DecideFollows, LoadEntryFollows, LoadStreakFollows, CreateStreakFollows, ReadDaysFollows,
       WriteStreakFollows
  <2>7. CASE StepFails(r)
    BY <2>7, StepFailsFollows
  <2>8. QED
    BY <1>2, <2>1, <2>2, <2>3, <2>4, <2>5, <2>6, <2>7 DEF RequestStep
<1>3. ASSUME NEW m \in Moments, DeleteMoment(m) \/ \E d \in Days : MoveDay(m, d)
      PROVE  StreakHolds'
  BY <1>3, MomentFollows
<1>4. QED
  BY <1>1, <1>2, <1>3 DEF Next

LEMMA RowFollows == StreakInv => StreakIsRight
<1> SUFFICES ASSUME StreakInv, "streak" \notin off, Settled("streak")
             PROVE  IF streak = None THEN LoggedDays = {} ELSE Describes(streak, LoggedDays)
  BY DEF StreakIsRight
<1>1. \A r \in Requests : agenda[r].next = "none"
  BY DEF Settled, Covers
<1>2. \A r \in Requests : pc[r] \notin {"published", "dated", "creating", "computed"}
  BY <1>1 DEF StreakInv, StreakTypes, PlanStage
<1>3. \A r \in Requests : ~Recalculates(r) /\ \A m : ~WillBump(r, m)
  BY <1>1, <1>2 DEF Recalculates, WillGiveUp, WillBump
<1>4. PICK D \in SUBSET LoggedDays : Says(D) /\ Reached(D)
  BY <1>3 DEF StreakInv, StreakHolds, StreakFollows
<1>5. D = LoggedDays
  BY <1>3, <1>4 DEF Reached, LoggedDays
<1>6. QED
  BY <1>4, <1>5 DEF Says

(* In whatever order the requests write, back-date, publish, withdraw and delete      *)
(* entries, and however their increments and recalculations of the writing streak     *)
(* interleave, the row describes the days with a published entry once nobody is about *)
(* to bring it up to date, unless a change was left without one (off: the cases listed *)
(* at StreakIsRight) and nobody has recalculated since.                                *)
THEOREM StreakStaysRight == Spec => []StreakIsRight
<1>1. Init => StreakInv
  BY InitCounts, InitTypes, InitFollows DEF StreakInv
<1>2. StreakInv /\ [Next]_vars => StreakInv'
  BY NextCounts, NextTypes, NextFollows DEF StreakInv
<1>3. QED
  BY <1>1, <1>2, RowFollows, PTL DEF Spec
=============================================================================
