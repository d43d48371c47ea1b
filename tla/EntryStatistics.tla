---------------------------- MODULE EntryStatistics ----------------------------
(***************************************************************************)
(* What Journiv counts about the entries of a user, kept beside them in     *)
(* rows of their own: the entry count of each journal (journal_service.py)  *)
(* and the writing streak (analytics_service.py), under the operations of   *)
(* entry_service.py, journal_service.py and moment_service.py.              *)
(*                                                                          *)
(* An operation commits the entry first and brings the counts up to date    *)
(* afterwards, in transactions of their own whose errors are only logged.   *)
(* Requests run in several processes, so that these steps interleave.       *)
(*                                                                          *)
(* Every SELECT whose answer is used later is a step of its own, and so is   *)
(* every commit.                                                            *)
(*                                                                          *)
(* A Moment has at most one entry.  Moments hold something else as well, so *)
(* that they are never pruned.  The word totals, which the same statements  *)
(* compute and write, are left out, and with them edits of a text.          *)
(***************************************************************************)
EXTENDS Integers, FiniteSets, Sequences, SequencesExt, FiniteSetsExt

CONSTANTS Moments,   \* moments an entry may belong to
          Journals,  \* journals of the user at first
          Requests,  \* requests that may run at the same time
          MaxDay,    \* bound: days a moment may be logged on
          MaxOps,    \* bound: operations that are begun and steps that fail
          None       \* no entry, no moment, no row

Days == 1..MaxDay
NoDay == 0
Texts == [journal : Journals, draft : BOOLEAN]
Rows == [current : Nat, longest : Nat, last : {NoDay} \union Days, start : Int]

ASSUME StatisticsAssumption ==
    /\ MaxDay \in Nat /\ MaxOps \in Nat /\ IsFiniteSet(Moments)
    /\ None \notin Moments \union Texts \union Rows
    /\ "streak" \notin Journals

VARIABLES
    entry,    \* entry[m]: the journal and the draft flag of the entry of m
    day,      \* day[m]: the local day m is logged on, NoDay without a moment
    journals, \* the journals that exist
    count,    \* count[j]: entry_count
    streak,   \* the writing_streak row, or None
    pc,       \* where each request stands
    about,    \* the moment of each request, its entry as loaded, what an update makes of it
    doomed,   \* the journal each request deletes, with the entries it has loaded
    agenda,   \* what each request has still to bring up to date
    tally,    \* a recount: entry_count as loaded, the entries counted
    plan,     \* the streak row as loaded, and what is to be written
    ops,      \* operations begun and steps failed so far
    behind,   \* history: requests that have read what has changed since
    off       \* history: rows that nobody will bring up to date

database == <<entry, day, journals, count, streak>>
locals == <<tally, plan>>
vars == <<entry, day, journals, count, streak, pc, about, doomed, agenda, tally, plan, ops,
          behind, off>>

NoStreak == [current |-> 0, longest |-> 0, last |-> NoDay, start |-> NoDay]
Agendas == [counts : Seq(Journals), next : {"none", "decide", "bump", "recalc"}]
Tallies == [seen : Nat, found : Nat]
About == [moment : Moments \union {None}, seen : Texts \union {None}, want : Texts \union {None}]
NoSubject == [moment |-> None, seen |-> None, want |-> None]
Doomed == [journal : Journals \union {None}, entries : SUBSET Moments]
NoDoom == [journal |-> None, entries |-> {}]
Nothing == [counts |-> <<>>, next |-> "none"]
NoTally == [seen |-> 0, found |-> 0]
NoPlan == [day |-> NoDay, loaded |-> None, new |-> NoStreak]

Subjects == Journals \union {"streak"}

\* Where a request stands: before its commit, after it, about a recount, about the streak.
Places == {"idle", "update", "delete", "journal", "committed", "tasks", "counting", "counted",
           "published", "dated", "creating", "computed"}

TypeOK ==
    /\ entry \in [Moments -> Texts \union {None}]
    /\ day \in [Moments -> {NoDay} \union Days]
    /\ journals \subseteq Journals
    /\ count \in [Journals -> Nat]
    /\ streak \in Rows \union {None}
    /\ pc \in [Requests -> Places]
    /\ about \in [Requests -> About]
    /\ doomed \in [Requests -> Doomed]
    /\ agenda \in [Requests -> Agendas]
    /\ tally \in [Requests -> Tallies]
    /\ plan \in [Requests -> [day : {NoDay} \union Days, loaded : Rows \union {None}, new : Rows]]
    /\ ops \in 0..MaxOps
    /\ behind \subseteq Requests /\ off \subseteq Subjects

Init ==
    /\ entry = [m \in Moments |-> None] /\ day = [m \in Moments |-> NoDay]
    /\ journals = Journals /\ count = [j \in Journals |-> 0]
    /\ streak = None
    /\ pc = [r \in Requests |-> "idle"]
    /\ about = [r \in Requests |-> NoSubject]
    /\ doomed = [r \in Requests |-> NoDoom]
    /\ agenda = [r \in Requests |-> Nothing]
    /\ tally = [r \in Requests |-> NoTally] /\ plan = [r \in Requests |-> NoPlan]
    /\ ops = 0 /\ behind = {} /\ off = {}

-----------------------------------------------------------------------------
(* The entries that count.                                                  *)

Published(m) == entry[m] # None /\ ~entry[m].draft

InJournal(j) == {m \in Moments : Published(m) /\ entry[m].journal = j}

LoggedDays == {day[m] : m \in {n \in Moments : Published(n)}}

-----------------------------------------------------------------------------
(* The streak of a set of days (_recalculate_streak_metadata): one pass     *)
(* over the days, the latest first.                                         *)

LongerOf(a, b) == IF a > b THEN a ELSE b

\* Mutant: the start of the current streak moves on after a gap.
Extended_Unbroken(s, d) ==
    LET adjacent == s.last - d = 1
    IN  [s EXCEPT !.last = d, !.run = IF adjacent THEN @ + 1 ELSE 1,
                  !.longest = LongerOf(@, IF adjacent THEN s.run + 1 ELSE 1),
                  !.current = IF adjacent THEN @ + 1 ELSE @,
                  !.start = IF adjacent THEN d ELSE @]

Extended(s, d) ==
    LET adjacent == s.last - d = 1
        current == adjacent /\ ~s.broken
    IN  [s EXCEPT !.last = d, !.broken = ~current,
                  !.run = IF adjacent THEN @ + 1 ELSE 1,
                  !.longest = IF adjacent THEN LongerOf(@, s.run + 1) ELSE @,
                  !.current = IF current THEN @ + 1 ELSE @,
                  !.start = IF current THEN d ELSE @]

\* The pass from the latest day of D down, a day of the calendar at a time.
Passes(D) ==
    LET latest == Max(D)
        first == [current |-> 1, longest |-> 1, last |-> latest, start |-> latest,
                  run |-> 1, broken |-> FALSE]
        pass[n \in 0..latest] ==
            IF n = 0 THEN first
            ELSE IF latest - n \in D THEN Extended(pass[n - 1], latest - n) ELSE pass[n - 1]
    IN  pass

Recalculated(D) ==
    IF D = {} THEN NoStreak
    ELSE LET all == Passes(D)[Max(D)]
         IN  [current |-> all.current, longest |-> all.longest,
              last |-> Max(D), start |-> all.start]

\* update_writing_streak, for a day that is not before the last one.
Bumped(s, d) ==
    IF s.last # NoDay /\ d - s.last = 0 THEN s
    ELSE LET next == s.last # NoDay /\ d - s.last = 1
             current == IF next THEN s.current + 1 ELSE 1
         IN  [current |-> current, longest |-> LongerOf(s.longest, current), last |-> d,
              start |-> IF next THEN s.start ELSE d]

\* An UPDATE names the attributes that differ from the row as it was loaded; of an
\* expired row (loaded = None) it names all.
Merged(row, loaded, new) ==
    [a \in DOMAIN row |-> IF loaded = None \/ new[a] # loaded[a] THEN new[a] ELSE row[a]]

-----------------------------------------------------------------------------
(* Bookkeeping of the requests.                                             *)

\* What the agenda a still needs of x.
Needed(x, a) == IF a.next = "decide" THEN x
                ELSE IF a.next = "bump" THEN [NoSubject EXCEPT !.moment = x.moment]
                ELSE NoSubject

\* r, which is about x, goes on with the agenda a.
Goes(r, x, a) ==
    /\ agenda' = [agenda EXCEPT ![r] = a]
    /\ pc' = [pc EXCEPT ![r] = IF a = Nothing THEN "idle" ELSE "tasks"]
    /\ about' = [about EXCEPT ![r] = Needed(x, a)]

\* What an agenda brings up to date.
Covers(a) == ToSet(a.counts) \union (IF a.next = "none" THEN {} ELSE {"streak"})

\* The day the entry of m counts for in the streak changes.
Redated(m) == Published(m)' # Published(m) \/ (Published(m) /\ day'[m] # day[m])

\* What a change of entries or moments makes out of date.
Affected ==
    {j \in Journals : InJournal(j)' # InJournal(j)}
        \union (IF \E m \in Moments : Redated(m) THEN {"streak"} ELSE {})

\* What r has read is no longer so.
Outdated(r) ==
    \/ pc[r] = "counted" /\ Head(agenda[r].counts) \in Affected
    \/ pc[r] \in {"published", "dated", "creating"} /\ Redated(about[r].moment)
    \/ pc[r] = "computed" /\ "streak" \in Affected

\* The commit of a change of entries or moments.  What it makes out of date is to be
\* brought up to date by the request itself, but for the rows in left.
Commits(left) ==
    /\ off' = off \union (Affected \cap left)
    /\ behind' = behind \union {q \in Requests : Outdated(q)}

\* The requests but r that will increment the streak row as they have loaded it: a
\* recalculation goes by the entries alone.
Increments(r) == {q \in Requests \ {r} : pc[q] = "computed" /\ plan[q].loaded # None}

\* r does nothing about the rows in lost.
GivesUp(r, lost) ==
    /\ off' = off \union lost
    /\ behind' = behind \ {r}

Ends(r, lost) == Goes(r, NoSubject, Nothing) /\ GivesUp(r, lost)

WithinBound == ops < MaxOps /\ ops' = ops + 1

-----------------------------------------------------------------------------
(* The operations of the API up to their commit.                            *)

\* A request is about the entry of m.
Concerned(m) == \E q \in Requests : about[q].moment = m \/ m \in doomed[q].entries

\* create_entry and create_moment.  The slot of a moment is used again only when no
\* request is about the entry that was there.
Create(r, m, j, d, draft) ==
    LET new == [journal |-> j, draft |-> draft]
    IN  /\ pc[r] = "idle" /\ WithinBound /\ entry[m] = None /\ j \in journals
        /\ day[m] \in {NoDay, d} /\ ~Concerned(m)
        /\ day' = [day EXCEPT ![m] = d]
        /\ entry' = [entry EXCEPT ![m] = new]
        /\ pc' = [pc EXCEPT ![r] = "committed"]
        /\ about' = [about EXCEPT ![r] = [moment |-> m, seen |-> None, want |-> new]]
        /\ agenda' = [agenda EXCEPT ![r] = IF draft THEN Nothing
                                           ELSE [counts |-> <<j>>, next |-> "bump"]]
        /\ UNCHANGED <<journals, count, streak, doomed, locals>>
        /\ Commits({})

\* update_entry up to its commit: the entry is loaded and what is asked for checked.
UpdateRead(r, m, j, draft) ==
    /\ pc[r] = "idle" /\ WithinBound /\ entry[m] # None /\ j \in journals
    /\ entry[m] # [journal |-> j, draft |-> draft]
    /\ pc' = [pc EXCEPT ![r] = "update"]
    /\ about' = [about EXCEPT ![r] = [moment |-> m, seen |-> entry[m],
                                      want |-> [journal |-> j, draft |-> draft]]]
    /\ UNCHANGED <<database, doomed, agenda, locals, behind, off>>

\* Mutant: a moved entry is counted in its new journal only.
Recounts_NewOnly(old, new) == <<new>>

\* A moved entry is counted in both journals.
Recounts(old, new) == <<old, new>>

\* Mutant: nothing is recalculated when an entry becomes a draft again.
AfterUpdate_KeepStreak(old, new, row) ==
    IF old.journal # new.journal
    THEN [counts |-> Recounts(old.journal, new.journal), next |-> "decide"]
    ELSE IF old.draft /\ ~row.draft THEN [counts |-> <<row.journal>>, next |-> "bump"]
    ELSE Nothing

\* What follows the commit of an update that loaded old, wanted new and finds row:
\* after a recount the row is loaded again before it is decided about the streak.
AfterUpdate(old, new, row) ==
    IF old.journal # new.journal
    THEN [counts |-> Recounts(old.journal, new.journal), next |-> "decide"]
    ELSE IF old.draft /\ ~row.draft THEN [counts |-> <<row.journal>>, next |-> "bump"]
    ELSE IF ~old.draft /\ row.draft THEN [counts |-> <<>>, next |-> "recalc"]
    ELSE Nothing

\* The journal the entry of x was moved to since it was loaded.
MovedMeanwhile(x) ==
    {j \in Journals : entry[x.moment] # None /\ entry[x.moment].journal = j /\ j # x.seen.journal}

\* The commit of an update that moves the entry fails when the journal is gone.
Movable(x) == x.want.journal # x.seen.journal => x.want.journal \in journals

\* The commit of update_entry; was_draft is kept in seen.  An entry that becomes a draft
\* again is not taken off the count of its journal.
UpdateWrite(r) ==
    LET x == about[r]
        row == Merged(entry[x.moment], x.seen, x.want)
        withdrawn == x.seen.journal = x.want.journal /\ x.want.draft
    IN  /\ pc[r] = "update"
        /\ UNCHANGED <<ops, day, journals, count, streak, doomed, locals>>
        /\ \/ /\ entry[x.moment] = None \/ ~Movable(x)
              /\ UNCHANGED entry
              /\ Ends(r, {})
           \/ /\ entry[x.moment] # None /\ Movable(x)
              /\ entry' = [entry EXCEPT ![x.moment] = row]
              /\ pc' = [pc EXCEPT ![r] = "committed"]
              /\ agenda' = [agenda EXCEPT ![r] = AfterUpdate(x.seen, x.want, row)]
              /\ UNCHANGED about
              /\ Commits(MovedMeanwhile(x) \union (IF withdrawn THEN {row.journal} ELSE {}))

\* create_entry counts a draft too, create_moment does nothing about it.
AfterCreate(row) ==
    IF row.draft THEN {Nothing, [counts |-> <<row.journal>>, next |-> "none"]}
    ELSE {[counts |-> <<row.journal>>, next |-> "bump"]}

\* Another request has taken back what the update of x did to the draft flag.
Reverted(x, row) ==
    IF x.want.draft # x.seen.draft /\ row.draft = x.seen.draft THEN {"streak"} ELSE {}

\* The refresh after the commit of a new or updated entry finds what others have made
\* of it since; it is an error when the entry is gone.
Refresh(r) ==
    LET x == about[r]
        row == entry[x.moment]
    IN  /\ pc[r] = "committed"
        /\ \/ /\ row = None
              /\ Ends(r, Covers(agenda[r]))
           \/ /\ row # None /\ x.seen = None
              /\ \E a \in AfterCreate(row) :
                    Goes(r, x, a) /\ GivesUp(r, Covers(agenda[r]) \ Covers(a))
           \/ /\ row # None /\ x.seen # None
              /\ LET a == AfterUpdate(x.seen, x.want, row)
                 IN  /\ Goes(r, [x EXCEPT !.want = row], a)
                     /\ GivesUp(r, (Covers(agenda[r]) \ Covers(a)) \union Reverted(x, row))
        /\ UNCHANGED <<ops, database, doomed, locals>>

\* delete_entry: the entry is loaded, ...
DeleteRead(r, m) ==
    /\ pc[r] = "idle" /\ WithinBound /\ entry[m] # None
    /\ pc' = [pc EXCEPT ![r] = "delete"]
    /\ about' = [about EXCEPT ![r] = [NoSubject EXCEPT !.moment = m, !.seen = entry[m]]]
    /\ UNCHANGED <<database, doomed, agenda, locals, behind, off>>

\* ... and deleted, if it is still there; its journal is the one it was loaded with.
DeleteWrite(r) ==
    LET a == [counts |-> <<about[r].seen.journal>>, next |-> "recalc"]
    IN  /\ pc[r] = "delete"
        /\ entry' = [entry EXCEPT ![about[r].moment] = None]
        /\ UNCHANGED <<ops, day, journals, count, streak, doomed, locals>>
        /\ Goes(r, NoSubject, a) /\ Commits(MovedMeanwhile(about[r]))

\* delete_journal: the journal is loaded and, for the cascade, its entries, ...
DeleteJournalRead(r, j) ==
    /\ pc[r] = "idle" /\ WithinBound /\ j \in journals
    /\ pc' = [pc EXCEPT ![r] = "journal"]
    /\ doomed' = [doomed EXCEPT ![r] =
           [journal |-> j, entries |-> {m \in Moments : entry[m] # None /\ entry[m].journal = j}]]
    /\ UNCHANGED <<database, about, agenda, locals, behind, off>>

\* ... these entries are deleted, in whatever journal they are by now, and the database
\* deletes those that have come into the journal since.  Only the streak is seen to.
DeleteJournalWrite(r) ==
    LET j == doomed[r].journal
        gone == {m \in Moments : /\ entry[m] # None
                                 /\ m \in doomed[r].entries \/ entry[m].journal = j}
    IN  /\ pc[r] = "journal"
        /\ journals' = journals \ {j}
        /\ entry' = [m \in Moments |-> IF m \in gone THEN None ELSE entry[m]]
        /\ doomed' = [doomed EXCEPT ![r] = NoDoom]
        /\ UNCHANGED <<ops, day, count, streak, locals>>
        /\ Goes(r, NoSubject, [counts |-> <<>>, next |-> "recalc"])
        /\ Commits({entry[m].journal : m \in gone} \ {j})

\* update_moment with another day: nothing is brought up to date.
MoveDay(m, d) ==
    /\ day[m] \notin {NoDay, d} /\ WithinBound
    /\ day' = [day EXCEPT ![m] = d]
    /\ UNCHANGED <<entry, journals, count, streak, pc, about, doomed, agenda, locals>>
    /\ Commits({"streak"})

\* delete_moment: the entry goes with it, and nothing is brought up to date.
DeleteMoment(m) ==
    /\ day[m] # NoDay /\ WithinBound
    /\ day' = [day EXCEPT ![m] = NoDay] /\ entry' = [entry EXCEPT ![m] = None]
    /\ UNCHANGED <<journals, count, streak, pc, about, doomed, agenda, locals>>
    /\ Commits(Subjects)

-----------------------------------------------------------------------------
(* recalculate_journal_entry_count.                                         *)

Recounting(r) == pc[r] = "tasks" /\ agenda[r].counts # <<>>
Subject(r) == Head(agenda[r].counts)
Counted(a) == [a EXCEPT !.counts = Tail(@)]
NotCounted(a) == [a EXCEPT !.counts = <<>>]

\* Mutant: what the query says of no entries is not taken for 0.
Found_Null(j) == IF InJournal(j) = {} THEN None ELSE Cardinality(InJournal(j))

Found(j) == Cardinality(InJournal(j))

\* The journal is loaded, ...
LoadJournal(r) ==
    /\ Recounting(r) /\ Subject(r) \in journals
    /\ tally' = [tally EXCEPT ![r].seen = count[Subject(r)]]
    /\ pc' = [pc EXCEPT ![r] = "counting"]
    /\ UNCHANGED <<ops, database, about, doomed, agenda, plan, behind, off>>

\* ... and its entries are counted.
Count(r) ==
    /\ pc[r] = "counting"
    /\ tally' = [tally EXCEPT ![r].found = Found(Subject(r))]
    /\ pc' = [pc EXCEPT ![r] = "counted"]
    /\ UNCHANGED <<ops, database, about, doomed, agenda, plan, behind, off>>

\* An error -- the journal was deleted before the count is written (StaleDataError) --
\* ends the recounts of this request.
StopsCounting(r) ==
    /\ Goes(r, about[r], NotCounted(agenda[r]))
    /\ GivesUp(r, ToSet(agenda[r].counts))

\* update_entry after its recounts: row, the entry as it has it, against was_draft.  An
\* update that another one has reverted meanwhile recalculates nothing.
Decides(r, row, lost) ==
    LET x == about[r]
        changed == row.draft # x.seen.draft
    IN  \/ /\ ~changed
           /\ Ends(r, lost \union Reverted(x, row))
        \/ /\ changed
           /\ Goes(r, x, AfterUpdate([x.seen EXCEPT !.journal = row.journal], row, row))
           /\ GivesUp(r, lost)

\* The journal is not found.  No commit has then made the session forget the entry: the
\* request goes by what it has loaded of it.
CountNothing(r) ==
    LET a == agenda[r]
        known == \/ a.next = "bump"
                 \/ a.next = "decide" /\ Len(a.counts) = 2
    IN  /\ Recounting(r) /\ Subject(r) \notin journals
        /\ \/ /\ ~known
              /\ StopsCounting(r)
           \/ /\ known /\ a.next = "decide"
              /\ Decides(r, about[r].want, ToSet(a.counts))
           \/ /\ known /\ a.next = "bump"
              /\ pc' = [pc EXCEPT ![r] = "published"]
              /\ agenda' = [agenda EXCEPT ![r] = NotCounted(a)]
              /\ off' = off \union ToSet(a.counts)
              /\ behind' = behind \union (IF Published(about[r].moment) THEN {} ELSE {r})
              /\ UNCHANGED about
        /\ UNCHANGED <<ops, database, doomed, locals>>

\* The count is written if it is not the one that was loaded, which another request may
\* have replaced since.
WriteCount(r) ==
    LET j == Subject(r)
        found == tally[r].found
    IN  /\ pc[r] = "counted"
        /\ UNCHANGED <<ops, entry, day, journals, streak, doomed, plan>>
        /\ tally' = [tally EXCEPT ![r] = NoTally]
        /\ \/ /\ j \in journals
              /\ count' = IF found # tally[r].seen THEN [count EXCEPT ![j] = found] ELSE count
              /\ Goes(r, about[r], Counted(agenda[r]))
              /\ off' = IF r \in behind THEN off \union (IF count' # count THEN {j} ELSE {})
                        ELSE IF count'[j] = found THEN off \ {j} ELSE off \union {j}
              /\ behind' = behind \ {r}
           \/ /\ j \notin journals
              /\ StopsCounting(r)
              /\ UNCHANGED count

-----------------------------------------------------------------------------
(* The streak.                                                              *)

At(r, next) == pc[r] = "tasks" /\ agenda[r].counts = <<>> /\ agenda[r].next = next

\* After a recount the entry is loaded again; it may be gone.
Decide(r) ==
    LET x == about[r]
        row == entry[x.moment]
    IN  /\ At(r, "decide")
        /\ \/ /\ row = None
              /\ Ends(r, IF x.want.draft # x.seen.draft THEN {"streak"} ELSE {})
           \/ /\ row # None
              /\ Decides(r, row, {})
        /\ UNCHANGED <<ops, database, doomed, locals>>

\* _run_entry_side_effects after the recount: the entry is loaded again; it may be gone,
\* or a draft, ...
LoadEntry(r) ==
    /\ At(r, "bump")
    /\ \/ /\ ~Published(about[r].moment)
          /\ Ends(r, {})
       \/ /\ Published(about[r].moment)
          /\ pc' = [pc EXCEPT ![r] = "published"]
          /\ UNCHANGED <<about, agenda, off, behind>>
    /\ UNCHANGED <<ops, database, doomed, locals>>

\* ... and then its moment; that may be gone too.  (create_moment still has the moment
\* it made unless a commit of the recount has made the session forget it.)
LoadMoment(r) ==
    LET d == day[about[r].moment]
    IN  /\ pc[r] = "published"
        /\ \/ /\ d = NoDay
              /\ Ends(r, {})
              /\ UNCHANGED plan
           \/ /\ d # NoDay
              /\ plan' = [plan EXCEPT ![r].day = d]
              /\ pc' = [pc EXCEPT ![r] = "dated"]
              /\ UNCHANGED <<about, agenda, off, behind>>
        /\ UNCHANGED <<ops, database, doomed, tally>>

\* update_writing_streak: the row is loaded; a day before the last one means a
\* recalculation.
LoadStreak(r) ==
    LET d == plan[r].day
    IN  /\ pc[r] = "dated"
        /\ \/ /\ streak = None
              /\ pc' = [pc EXCEPT ![r] = "creating"]
              /\ UNCHANGED <<about, agenda, plan, off, behind>>
           \/ /\ streak # None /\ d < streak.last
              /\ Goes(r, NoSubject, [counts |-> <<>>, next |-> "recalc"])
              /\ GivesUp(r, {})
              /\ plan' = [plan EXCEPT ![r] = NoPlan]
           \/ /\ streak # None /\ d >= streak.last
              /\ plan' = [plan EXCEPT ![r] = [day |-> d, loaded |-> streak,
                                              new |-> Bumped(streak, d)]]
              /\ pc' = [pc EXCEPT ![r] = "computed"]
              /\ UNCHANGED <<about, agenda, off, behind>>
        /\ UNCHANGED <<ops, database, doomed, tally>>

\* create_writing_streak: the row is unique, a second one is refused; a new one is loaded
\* again after the commit.
CreateStreak(r) ==
    /\ pc[r] = "creating"
    /\ \/ /\ streak # None
          /\ plan' = [plan EXCEPT ![r] = NoPlan]
          /\ Ends(r, {"streak"})
          /\ UNCHANGED streak
       \/ /\ streak = None
          /\ streak' = NoStreak
          /\ pc' = [pc EXCEPT ![r] = "dated"]
          /\ UNCHANGED <<about, agenda, plan, off, behind>>
    /\ UNCHANGED <<ops, entry, day, journals, count, doomed, tally>>

\* recalculate_writing_streak_stats: the published entries are read; without a row
\* there is nothing to do.
ReadDays(r) ==
    /\ At(r, "recalc")
    /\ \/ /\ streak = None
          /\ Ends(r, {})
          /\ UNCHANGED plan
       \/ /\ streak # None
          /\ plan' = [plan EXCEPT ![r] = [NoPlan EXCEPT !.new = Recalculated(LoggedDays)]]
          /\ pc' = [pc EXCEPT ![r] = "computed"]
          /\ UNCHANGED <<about, agenda, off, behind>>
    /\ UNCHANGED <<ops, database, doomed, tally>>

\* The commit; the table refuses a longest streak below the current one.
WriteStreak(r) ==
    LET x == plan[r]
        row == Merged(streak, x.loaded, x.new)
        fits == row.longest >= row.current
        written == x.new # x.loaded
    IN  /\ pc[r] = "computed"
        /\ UNCHANGED <<ops, entry, day, journals, count, doomed, tally>>
        /\ streak' = IF fits THEN row ELSE streak
        /\ plan' = [plan EXCEPT ![r] = NoPlan]
        /\ Goes(r, NoSubject, Nothing)
        /\ IF fits
           THEN /\ off' = IF r \in behind /\ written THEN off \union {"streak"}
                          ELSE IF r \notin behind /\ x.loaded = None THEN off \ {"streak"}
                          ELSE off
                /\ behind' = (behind \ {r}) \union (IF streak' # streak THEN Increments(r) ELSE {})
           ELSE GivesUp(r, {"streak"})

\* A database error ends the step that is under way; it is logged and the request
\* goes on.  A worker of the API that dies leaves the whole agenda undone, and so does
\* an error of the refresh.
StepFails(r) ==
    /\ pc[r] \notin {"idle", "update", "delete", "journal"} /\ WithinBound
    /\ tally' = [tally EXCEPT ![r] = NoTally] /\ plan' = [plan EXCEPT ![r] = NoPlan]
    /\ \/ pc[r] # "committed" /\ agenda[r].counts # <<>> /\ StopsCounting(r)
       \/ Ends(r, Covers(agenda[r]))
    /\ UNCHANGED <<database, doomed>>

-----------------------------------------------------------------------------
RequestStep(r) ==
    \/ \E m \in Moments, j \in Journals, draft \in BOOLEAN :
          (\E d \in Days : Create(r, m, j, d, draft)) \/ UpdateRead(r, m, j, draft)
    \/ (\E m \in Moments : DeleteRead(r, m)) \/ (\E j \in Journals : DeleteJournalRead(r, j))
    \/ UpdateWrite(r) \/ DeleteWrite(r) \/ DeleteJournalWrite(r) \/ Refresh(r)
    \/ LoadJournal(r) \/ Count(r) \/ CountNothing(r) \/ WriteCount(r)
    \/ Decide(r) \/ LoadEntry(r) \/ LoadMoment(r) \/ LoadStreak(r) \/ CreateStreak(r)
    \/ ReadDays(r) \/ WriteStreak(r) \/ StepFails(r)

Next ==
    \/ \E r \in Requests : RequestStep(r)
    \/ \E m \in Moments, d \in Days : MoveDay(m, d)
    \/ \E m \in Moments : DeleteMoment(m)

Spec == Init /\ [][Next]_vars

-----------------------------------------------------------------------------
(* Properties.                                                              *)

\* Nobody is about to bring x up to date.
Settled(x) == \A r \in Requests : x \notin Covers(agenda[r])

\* Once the requests about a journal have ended its entry_count is the number of its
\* published entries, through moves, deletions and recounts that interleave -- unless
\* nobody has recounted it since
\*   - a change that is not recounted at all: an entry that becomes a draft again,
\*     delete_moment, the deletion of a journal that takes an entry moved to this one;
\*   - an update or deletion of an entry that was moved between its load and its commit,
\*     or moved, withdrawn or deleted between its commit and its refresh;
\*   - a recount that failed, that wrote what had been counted before a later change, or
\*     that left a count alone which another request had replaced.
CountIsRight ==
    \A j \in journals : j \notin off /\ Settled(j) => count[j] = Cardinality(InJournal(j))

\* What the columns of writing_streak say they are: row describes the days D.
Describes(row, D) ==
    IF D = {} THEN row = NoStreak
    ELSE /\ row.last \in D /\ \A d \in D : d <= row.last
         /\ row.start..row.last \subseteq D /\ row.start - 1 \notin D
         /\ row.current = row.last - row.start + 1
         /\ \E d \in D : d..(d + row.longest - 1) \subseteq D
         /\ \A d \in D : ~(d..(d + row.longest) \subseteq D)

\* The one pass of _recalculate_streak_metadata finds what the columns say, and an
\* increment of update_writing_streak is the recalculation with one more day: of all
\* sets of days within a span (evaluated once, before the first operation).
Span == 1..6

StreaksAgree ==
    ops = 0 => \A D \in SUBSET Span :
        /\ Describes(Recalculated(D), D)
        /\ \A d \in Span : Recalculated(D).last <= d =>
                Bumped(Recalculated(D), d) = Recalculated(D \union {d})

\* Increments and recalculations of several requests add up: in whatever order
\* entries are written, back-dated, published, withdrawn and deleted, the row
\* describes the days with a published entry once nobody is about to bring it up to
\* date -- unless there was, and no recalculation since,
\*   - a change after which nothing is recalculated: update_moment that moves the day,
\*     delete_moment, an update that another one has reverted;
\*   - an entry that was withdrawn, published or deleted between the commit of an update
\*     and its refresh, so that nothing follows the update;
\*   - a step that failed, or wrote what had been read before a later change.
StreakIsRight ==
    "streak" \notin off /\ Settled("streak") =>
        IF streak = None THEN LoggedDays = {} ELSE Describes(streak, LoggedDays)
=============================================================================
