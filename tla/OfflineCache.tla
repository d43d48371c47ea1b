----------------------------- MODULE OfflineCache -----------------------------
(***************************************************************************)
(* The offline read cache of the web client (app/offline/offlineCache.ts   *)
(* and db.ts, the switch and the button of AppSettingsPage.tsx) composed    *)
(* with the session that subscribes, tears down and purges it               *)
(* (BrowserSession; main.tsx registers the callbacks).                      *)
(*                                                                          *)
(* Queries are abstracted to whose data they hold.  The persister throttles *)
(* its writes, and nothing cancels a write that waits: it is the check      *)
(* canWrite() at its end that has to refuse it.  IndexedDB runs the         *)
(* operations of a tab in the order in which they were issued.              *)
(***************************************************************************)
EXTENDS BrowserSession, FiniteSets, Sequences, SequencesExt

CONSTANTS MaxOps,    \* bound: queued IndexedDB operations of a tab when a put joins them
          MaxWrites  \* bound: persisters of a tab with a write that waits

ASSUME CacheAssumption == MaxOps \in Nat \ {0} /\ MaxWrites \in Nat \ {0}

VARIABLES
    enabled,    \* localStorage: the offline-reading switch
    store,      \* IndexedDB: whose data the slot of each user holds
    cache,      \* module state of offlineCache.ts in each tab
    mem,        \* whose data the query client of each tab holds
    hydration,  \* the hydrateOfflineCache of each tab
    writes,     \* throttled writes of the persisters of each tab
    ops,        \* queued IndexedDB operations of each tab
    revoked,    \* history: users whose data was ordered off the device
    emptied     \* history: how far "Clear offline data" of each tab came

cvars == <<enabled, store, cache, mem, hydration, writes, ops, revoked, emptied>>
vars == <<svars, cvars>>

NoSubscription == [on |-> FALSE, user |-> None, life |-> 0]
FreshCache == [user |-> None, life |-> 0, sub |-> NoSubscription]
NoHydration == [stage |-> "none", user |-> None, life |-> 0, data |-> {}]
\* A queued operation: "put", or an erasure for a purge of the session, for
\* the switch or for the button, which differ in what follows a failure.
Put(u, d) == [op |-> "put", user |-> u, data |-> d]
Erase(reason, u) == [op |-> reason, user |-> u, data |-> {}]
Erasures == {"purge", "optout", "clear"}

CacheTypeOK ==
    /\ TypeOK
    /\ enabled \in BOOLEAN
    /\ store \in [Users -> SUBSET Users] /\ mem \in [Tabs -> SUBSET Users]
    /\ \A t \in Tabs :
        /\ cache[t].user \in MaybeUser /\ cache[t].life \in Nat
        /\ cache[t].sub \in [on : BOOLEAN, user : MaybeUser, life : Nat]
        /\ hydration[t].stage \in {"none", "reading", "read"}
        /\ \A w \in writes[t] : w.user \in Users /\ w.data \subseteq Users
        /\ \A i \in DOMAIN ops[t] : ops[t][i].op \in Erasures \union {"put"}
    /\ revoked \subseteq Users
    /\ emptied \in [Tabs -> {"no", "ordered", "erased"}]

CacheInit ==
    /\ Init
    /\ enabled = TRUE
    /\ store = [u \in Users |-> {}]
    /\ cache = [t \in Tabs |-> FreshCache]
    /\ mem = [t \in Tabs |-> {}]
    /\ hydration = [t \in Tabs |-> NoHydration]
    /\ writes = [t \in Tabs |-> {}]
    /\ ops = [t \in Tabs |-> <<>>]
    /\ revoked = {} /\ emptied = [t \in Tabs |-> "no"]

-----------------------------------------------------------------------------
(* offlineCache.ts.                                                         *)

\* Mutant: startPersisting() without its test for a user.
Started_NoUser(c) ==
    IF c.sub.on THEN c ELSE [c EXCEPT !.sub = [on |-> TRUE, user |-> c.user, life |-> c.life]]

\* startPersisting() of a module state c.
Started(c) ==
    IF c.sub.on \/ c.user = None THEN c
    ELSE [c EXCEPT !.sub = [on |-> TRUE, user |-> c.user, life |-> c.life]]

Stopped(c) == [c EXCEPT !.sub = NoSubscription]

\* Mutants: the first subscription is kept; the lifecycle moves on last.
Subscribed_Once(c, u) == Started([c EXCEPT !.user = u])
Subscribed_BumpLast(c, u) ==
    [Started([Stopped(c) EXCEPT !.user = u]) EXCEPT !.life = @ + 1]

\* subscribeOfflineCache(): always replaces, and invalidates what is in flight.
Subscribed(c, u) ==
    LET next == [Stopped(c) EXCEPT !.life = @ + 1, !.user = u]
    IN  IF enabled THEN Started(next) ELSE next

\* teardownOfflineCache().
TornDown(c) == [Stopped(c) EXCEPT !.life = @ + 1, !.user = None]

\* Mutant: a throttled write asks nothing.
CanWrite_Always(t, w) == TRUE

\* The check a throttled write passes when its time has come.
CanWrite(t, w) == w.life = cache[t].life /\ w.user = cache[t].user /\ enabled

\* A change of the query client reaches the persister: the throttle keeps the
\* latest snapshot of each subscription.
Scheduled(t, data) ==
    IF ~cache[t].sub.on THEN writes[t]
    ELSE {w \in writes[t] : w.life # cache[t].sub.life}
         \union {[user |-> cache[t].sub.user, life |-> cache[t].sub.life, data |-> data]}

\* What clear() of the session calls back: teardown, then the purge of a user.
OnClear(t, u) ==
    /\ cache' = [cache EXCEPT ![t] = TornDown(@)]
    /\ mem' = [mem EXCEPT ![t] = IF page[t].mode # "unauthenticated" THEN {} ELSE @]
    /\ ops' = [ops EXCEPT ![t] = IF u = None THEN @ ELSE Append(@, Erase("purge", u))]
    /\ revoked' = revoked \union ({u} \ {None})
    /\ emptied' = [emptied EXCEPT ![t] = "no"]
    /\ UNCHANGED <<enabled, store, hydration, writes>>

\* Mutant: the sign-in page does not empty the query client.
OnAdopt_KeepsScreen(t, u) ==
    /\ cache' = [cache EXCEPT ![t] = Subscribed(@, u)]
    /\ revoked' = IF enabled THEN revoked \ {u} ELSE revoked
    /\ emptied' = [emptied EXCEPT ![t] = "no"]
    /\ UNCHANGED <<enabled, store, mem, hydration, writes, ops>>

\* What adopt() calls back, after the sign-in page emptied the query client.
OnAdopt(t, u) ==
    /\ cache' = [cache EXCEPT ![t] = Subscribed(@, u)]
    /\ mem' = [mem EXCEPT ![t] = {}]
    /\ revoked' = IF enabled THEN revoked \ {u} ELSE revoked
    /\ emptied' = [emptied EXCEPT ![t] = "no"]
    /\ UNCHANGED <<enabled, store, hydration, writes, ops>>

\* The users of all tabs: they are written again once the switch is on.
Subscribers == {cache[t].user : t \in Tabs}

\* One queued IndexedDB operation runs ...
StorageRuns(t) ==
    LET o == Head(ops[t])
    IN  /\ ops[t] # <<>>
        /\ ops' = [ops EXCEPT ![t] = Tail(@)]
        /\ store' = [store EXCEPT ![o.user] = o.data]
        /\ emptied' = IF o.op = "clear" THEN [emptied EXCEPT ![t] = "erased"] ELSE emptied
        /\ UNCHANGED <<svars, enabled, cache, mem, hydration, writes, revoked>>

\* ... or fails.  A put or a purge is given up; the switch goes back on.
StorageFails(t) ==
    LET o == Head(ops[t])
    IN  /\ ops[t] # <<>>
        /\ ops' = [ops EXCEPT ![t] = Tail(@)]
        /\ IF o.op = "optout"
           THEN /\ enabled' = TRUE
                /\ cache' = [cache EXCEPT ![t] = Started(@)]
                /\ revoked' = revoked \ ({o.user} \union Subscribers)
           ELSE /\ revoked' = IF o.op = "put" THEN revoked ELSE revoked \ {o.user}
                /\ UNCHANGED <<enabled, cache>>
        /\ UNCHANGED <<svars, store, mem, hydration, writes, emptied>>

\* A throttled write comes to its end: canWrite(), then offlineKv.setItem.
WriteFires(t) ==
    /\ \E w \in writes[t] :
        /\ writes' = [writes EXCEPT ![t] = @ \ {w}]
        /\ IF CanWrite(t, w)
           THEN /\ Len(ops[t]) < MaxOps
                /\ ops' = [ops EXCEPT ![t] = Append(@, Put(w.user, w.data))]
           ELSE UNCHANGED ops
    /\ UNCHANGED <<svars, enabled, store, cache, mem, hydration, revoked, emptied>>

\* hydrateOfflineCache: the read, into a client of its own ...
HydrationReads(t) ==
    /\ hydration[t].stage = "reading"
    /\ hydration' = [hydration EXCEPT ![t].stage = "read",
                                      ![t].data = store[hydration[t].user]]
    /\ UNCHANGED <<svars, enabled, store, cache, mem, writes, ops, revoked, emptied>>

\* Mutant: what was read is applied without a look at the lifecycle.
HydrationEnds_Late(t) ==
    /\ hydration[t].stage # "none"
    /\ hydration' = [hydration EXCEPT ![t] = NoHydration]
    /\ mem' = [mem EXCEPT ![t] = @ \union hydration[t].data]
    /\ UNCHANGED <<svars, enabled, store, cache, writes, ops, revoked, emptied>>

\* ... and its end: what was read goes on screen only when nothing changed
\* meanwhile; the two-second limit gives up on a read without an answer.
HydrationEnds(t) ==
    /\ hydration[t].stage # "none"
    /\ hydration' = [hydration EXCEPT ![t] = NoHydration]
    /\ mem' = [mem EXCEPT ![t] =
                 IF /\ hydration[t].stage = "read"
                    /\ hydration[t].life = cache[t].life /\ enabled
                 THEN @ \union hydration[t].data ELSE @]
    /\ UNCHANGED <<svars, enabled, store, cache, writes, ops, revoked, emptied>>

\* setOfflineReadingEnabled, from the switch, which is inert while one is pending.
Toggle(t) ==
    LET bumped == [cache[t] EXCEPT !.life = @ + 1]
        u == cache[t].user
    IN  /\ page[t].up = "running" /\ page[t].mode = "normal"
        /\ \A i \in DOMAIN ops[t] : ops[t][i].op # "optout"
        /\ cache[t].life < 2 * MaxGen
        /\ enabled' = ~enabled
        /\ IF ~enabled
           THEN /\ cache' = [cache EXCEPT ![t] = Started(bumped)]
                /\ revoked' = revoked \ Subscribers
                /\ emptied' = [emptied EXCEPT ![t] = "no"]
                /\ UNCHANGED ops
           ELSE /\ cache' = [cache EXCEPT ![t] = Stopped(bumped)]
                /\ ops' = [ops EXCEPT ![t] = IF u = None THEN @
                                             ELSE Append(@, Erase("optout", u))]
                /\ revoked' = revoked \union ({u} \ {None})
                /\ UNCHANGED emptied
        /\ UNCHANGED <<svars, store, mem, hydration, writes>>

\* "Clear offline data": purgeOfflineCache of the hinted user, nothing else.
ClearData(t) ==
    /\ page[t].up = "running" /\ page[t].mode = "normal"
    /\ enabled /\ \A i \in DOMAIN ops[t] : ops[t][i].op # "clear"
    /\ cache' = [cache EXCEPT ![t] = Stopped(@)]
    /\ ops' = [ops EXCEPT ![t] = IF hint = None THEN @ ELSE Append(@, Erase("clear", hint))]
    /\ emptied' = [emptied EXCEPT ![t] = "ordered"]
    /\ UNCHANGED <<svars, enabled, store, mem, hydration, writes, revoked>>

-----------------------------------------------------------------------------
(* The session with its callbacks.                                          *)

\* clear() ran in this step.
SessionCleared(t) == page'[t].gen # page[t].gen /\ page'[t].token = None

BootWithCache(t) ==
    /\ Boot(t)
    /\ IF hint # None /\ enabled
       THEN /\ cache' = [cache EXCEPT ![t] = [FreshCache EXCEPT !.life = 1]]
            /\ hydration' = [hydration EXCEPT ![t] = [NoHydration EXCEPT
                               !.stage = "reading", !.user = hint, !.life = 1]]
       ELSE UNCHANGED <<cache, hydration>>
    /\ UNCHANGED <<enabled, store, mem, writes, ops, revoked, emptied>>

FinishBootWithCache(t) ==
    /\ FinishBoot(t)
    /\ hydration[t].stage = "none"
    /\ cache' = [cache EXCEPT ![t] = Subscribed(@, hint)]
    /\ revoked' = IF enabled THEN revoked \ {hint} ELSE revoked
    /\ UNCHANGED <<enabled, store, mem, hydration, writes, ops, emptied>>

\* The slots after every operation of a queue ran: the last one on a slot counts.
LastOn(q, u) ==
    CHOOSE i \in DOMAIN q : q[i].user = u /\ \A k \in DOMAIN q : q[k].user = u => k <= i
AllRun(s, q) ==
    [u \in Users |-> IF \E i \in DOMAIN q : q[i].user = u THEN q[LastOn(q, u)].data ELSE s[u]]

\* The page goes: the transactions it had opened run before those of the next
\* page, or are lost with it.
CloseWithCache(t) ==
    /\ Close(t)
    /\ cache' = [cache EXCEPT ![t] = FreshCache]
    /\ mem' = [mem EXCEPT ![t] = {}]
    /\ hydration' = [hydration EXCEPT ![t] = NoHydration]
    /\ writes' = [writes EXCEPT ![t] = {}]
    /\ ops' = [ops EXCEPT ![t] = <<>>]
    /\ emptied' = [emptied EXCEPT ![t] = "no"]
    /\ \/ store' = AllRun(store, ops[t]) /\ UNCHANGED revoked
       \/ /\ ops[t] # <<>>
          /\ revoked' = revoked \ {o.user : o \in ToSet(ops[t])}
          /\ UNCHANGED store
    /\ UNCHANGED enabled

\* An answered query enters the query client unless its session is over.
DoneWithCache(t) ==
    /\ Done(t)
    /\ LET data == IF call[t].gen = page[t].gen
                   THEN mem[t] \union {call[t].user} ELSE mem[t]
       IN  /\ mem' = [mem EXCEPT ![t] = data]
           /\ Cardinality(Scheduled(t, data)) <= MaxWrites
           /\ writes' = [writes EXCEPT ![t] = Scheduled(t, data)]
    /\ UNCHANGED <<enabled, store, cache, hydration, ops, revoked, emptied>>

ClearingStep(t) ==
    /\ SignOut(t) \/ RefreshRefused(t) \/ Rejected(t)
    /\ IF SessionCleared(t)
       THEN OnClear(t, PurgedUser(t))
       ELSE UNCHANGED cvars

PlainStep(t) ==
    /\ \/ Online(t) \/ RefreshFails(t) \/ RefreshHeaders(t) \/ RefreshBody(t)
       \/ LogoutAnswered(t) \/ LogoutFails(t) \/ Send(t) \/ CallRefused(t)
    /\ UNCHANGED cvars

CacheStep(t) ==
    \/ BootWithCache(t) \/ FinishBootWithCache(t) \/ CloseWithCache(t)
    \/ DoneWithCache(t) \/ ClearingStep(t) \/ PlainStep(t)
    \/ (\E u \in Users : SignIn(t, u) /\ OnAdopt(t, u))
    \/ StorageRuns(t) \/ StorageFails(t) \/ WriteFires(t) \/ HydrationReads(t) \/ HydrationEnds(t)
    \/ Toggle(t) \/ ClearData(t)

CacheNext == \E t \in Tabs : CacheStep(t)

CacheSpec == CacheInit /\ [][CacheNext]_vars

-----------------------------------------------------------------------------
(* Properties.                                                              *)

EraseQueued(u) == \E t \in Tabs : \E i \in DOMAIN ops[t] :
                     ops[t][i].op \in Erasures /\ ops[t][i].user = u

\* Data ordered off the device by a sign-out, a refused session or the switch
\* stays off it: no throttled write, restore or later subscription of another
\* user brings it back (canWrite and the lifecycle counter, lines 74-93).
ErasedStaysErased ==
    \A u \in revoked : EraseQueued(u) \/ store[u] = {}

\* A slot holds the data of its own user only: a subscription never writes the
\* next user's queries under the previous key (subscribeOfflineCache, 162-165).
SlotIsOwn ==
    ~overtaken =>
        /\ \A u \in Users : store[u] \subseteq {u}
        /\ \A t \in Tabs : \A w \in writes[t] : w.data \subseteq {w.user}

\* With a session on screen the query client holds data of its user only, also
\* when the restore of the boot, a sign-out and a sign-in raced (line 128).
ScreenIsOwn ==
    \A t \in Tabs : page[t].up = "running" /\ page[t].token # None /\ ~overtaken
        => mem[t] \subseteq {page[t].token}

\* What a page restores at its start goes on screen only if nobody ordered it
\* off the device while it was being read (the staging client, lines 109-133).
LateRestoreIsDropped ==
    [][\A t \in Tabs : hydration[t].stage = "read" /\ mem'[t] # mem[t]
                       => hydration[t].user \notin revoked]_vars

\* While reading offline is on, a page with a known user keeps writing: its
\* subscription is live for this user and lifecycle -- until "Clear offline
\* data" ends it (purgeOfflineCache stops persisting, nothing restarts it).
KeepsPersisting ==
    \A t \in Tabs :
        /\ page[t].up = "running" /\ cache[t].user # None
        /\ enabled /\ emptied[t] = "no"
        => cache[t].sub = [on |-> TRUE, user |-> cache[t].user, life |-> cache[t].life]
=============================================================================
