-------------------------- MODULE OfflineCacheProofs --------------------------
(***************************************************************************)
(* Proofs about OfflineCache.  The types hold for any number of tabs; the   *)
(* other properties are about one tab, any number of accounts, any bounds,  *)
(* whether or not a late answer may overtake a change of the cookie.        *)
(***************************************************************************)
EXTENDS OfflineCache, BrowserSessionProofs, WellFoundedInduction

\* The hypothesis of the theorems about one tab.
OneTab == \E t : Tabs = {t}

-----------------------------------------------------------------------------
(* The types of what a tab keeps of the cache. *)
Subscriptions == [on : BOOLEAN, user : MaybeUser, life : Nat]
CacheRecords == [user : MaybeUser, life : Nat, sub : Subscriptions]
HydrationRecords == [stage : {"none", "reading", "read"}, user : MaybeUser, life : Nat,
                     data : SUBSET Users]
WriteRecords == [user : Users, life : Nat, data : SUBSET Users]
OpRecords == [op : Erasures \union {"put"}, user : Users, data : SUBSET Users]

CacheTypes ==
    /\ enabled \in BOOLEAN
    /\ store \in [Users -> SUBSET Users] /\ mem \in [Tabs -> SUBSET Users]
    /\ cache \in [Tabs -> CacheRecords] /\ hydration \in [Tabs -> HydrationRecords]
    /\ writes \in [Tabs -> SUBSET WriteRecords] /\ ops \in [Tabs -> Seq(OpRecords)]
    /\ revoked \subseteq Users
    /\ emptied \in [Tabs -> {"no", "ordered", "erased"}]

\* What the types do not say: an active subscription or restore has a user, an
\* erasure carries no data, a request that is on its way carries a user.
Filled(t) ==
    /\ cache[t].sub.on => cache[t].sub.user \in Users
    /\ hydration[t].stage # "none" => hydration[t].user \in Users
    /\ call[t].stage \in {"sent", "retried"} => call[t].user \in Users

\* Erasures carry no data; only a running page turns the switch.
QueueInv(t) ==
    /\ \A i \in DOMAIN ops[t] : ops[t][i].op # "put" => ops[t][i].data = {}
    /\ \A i \in DOMAIN ops[t] : ops[t][i].op = "optout" => page[t].up = "running"

\* The tab between the steps of its page.
ShapeInv(t) ==
    /\ page[t].up = "closed" => /\ cache[t] = FreshCache /\ writes[t] = {} /\ ops[t] = <<>>
                                /\ hydration[t].stage = "none" /\ mem[t] = {}
    /\ page[t].up = "booting" => cache[t].user = None
    /\ page[t].up = "running" => cache[t].user = hint /\ hydration[t].stage = "none"
    /\ hydration[t].stage # "none" => mem[t] = {} /\ hydration[t].life <= cache[t].life
    /\ call[t].stage # "none" => call[t].gen <= page[t].gen

\* A subscription is the one of the current user and lifecycle.
SubInv(t) ==
    /\ cache[t].sub.on => /\ enabled /\ page[t].up = "running"
                          /\ cache[t].sub.user = cache[t].user /\ cache[t].user # None
                          /\ cache[t].sub.life = cache[t].life
    /\ page[t].up = "running" /\ cache[t].user # None /\ enabled /\ emptied[t] = "no"
           => cache[t].sub.on

\* A restore that may still count is the one of the hinted user.
HydrationInv(t) ==
    hydration[t].stage # "none" /\ hydration[t].life = cache[t].life
        => enabled /\ hydration[t].user = hint

\* Data of user u ordered off the device: no subscription and no throttled write
\* can bring it back, and what is queued or stored is followed by an erasure.
Queued(q, u, i) == \E k \in DOMAIN q : k > i /\ q[k].op # "put" /\ q[k].user = u
Unwritten(t, u) ==
    /\ ~(cache[t].sub.on /\ cache[t].sub.user = u)
    /\ \A w \in writes[t] : w.user = u => w.life < cache[t].life
Unstored(t, u) ==
    /\ \A i \in DOMAIN ops[t] :
           ops[t][i].op = "put" /\ ops[t][i].user = u => Queued(ops[t], u, i)
    /\ store[u] # {} => Queued(ops[t], u, 0)
EraseInv(t) ==
    /\ \A w \in writes[t] : w.life <= cache[t].life
    /\ enabled => hint \notin revoked
    /\ \A u \in revoked : Unwritten(t, u) /\ Unstored(t, u)

\* As long as no late answer put a cookie back, everything the tab holds that
\* still counts is of one user.
HeldBy(t, u) ==
    /\ {cookie, hint, page[t].token, cache[t].user} \subseteq {u, None}
    /\ refresh[t].stage # "none" /\ refresh[t].gen = page[t].gen => refresh[t].sub \in {u, None}
    /\ call[t].stage \in {"sent", "retried"} /\ call[t].gen = page[t].gen => call[t].user = u
    /\ mem[t] \subseteq {u}
OwnData(t) ==
    /\ \A u \in Users : store[u] \subseteq {u}
    /\ \A w \in writes[t] : w.data \subseteq {w.user}
    /\ \A i \in DOMAIN ops[t] : ops[t][i].data \subseteq {ops[t][i].user}
    /\ hydration[t].data \subseteq {hydration[t].user}
OwnInv(t) == ~overtaken => OwnData(t) /\ \E u \in MaybeUser : HeldBy(t, u)

-----------------------------------------------------------------------------
(* The queue of a tab. *)

LEMMA AppendFacts ==
    ASSUME NEW q \in Seq(OpRecords), NEW e \in OpRecords
    PROVE  /\ Append(q, e) \in Seq(OpRecords) /\ DOMAIN Append(q, e) = 1..(Len(q) + 1)
           /\ DOMAIN q = 1..Len(q) /\ Len(q) \in Nat
           /\ \A i \in DOMAIN q : Append(q, e)[i] = q[i] /\ i \in DOMAIN Append(q, e)
           /\ Append(q, e)[Len(q) + 1] = e
  OBVIOUS

LEMMA TailFacts ==
    ASSUME NEW q \in Seq(OpRecords), q # <<>>
    PROVE  /\ Tail(q) \in Seq(OpRecords) /\ Head(q) = q[1] /\ 1 \in DOMAIN q
           /\ Head(q) \in OpRecords
           /\ \A i \in DOMAIN Tail(q) : i \in Nat /\ i + 1 \in DOMAIN q /\ Tail(q)[i] = q[i + 1]
           /\ \A i \in DOMAIN q \ {1} : i - 1 \in DOMAIN Tail(q) /\ Tail(q)[i - 1] = q[i]
<1>1. Len(q) \in Nat \ {0} /\ DOMAIN q = 1..Len(q)
  OBVIOUS
<1>2. Tail(q) \in Seq(OpRecords) /\ Len(Tail(q)) = Len(q) - 1 /\ Head(q) = q[1]
  BY <1>1
<1>3. DOMAIN Tail(q) = 1..(Len(q) - 1)
  BY <1>1, <1>2
<1>4. \A i \in 1..(Len(q) - 1) : Tail(q)[i] = q[i + 1]
  BY <1>1, <1>2
<1>5. QED
  BY <1>1, <1>2, <1>3, <1>4

(* Every non-empty set of numbers has a least one. *)
LEMMA LeastNumber ==
    ASSUME NEW S \in SUBSET Nat, S # {}
    PROVE  \E n \in S : \A m \in S : n <= m
<1>1. \E n \in S : \A m \in S : ~(<<m, n>> \in OpToRel(<, Nat))
  BY NatLessThanWellFounded, WFMin
<1>2. PICK n \in S : \A m \in S : ~(<<m, n>> \in OpToRel(<, Nat))
  BY <1>1
<1>3. ASSUME NEW m \in S PROVE n <= m
  <2>1. m \in Nat /\ n \in Nat
    OBVIOUS
  <2>2. m < n => <<m, n>> \in OpToRel(<, Nat)
    BY <2>1 DEF OpToRel
  <2>3. ~(m < n)
    BY <1>2, <2>2, Zenon
  <2>4. QED
    BY <2>1, <2>3
<1>4. QED
  BY <1>3

(* The last operation on a slot is there as soon as there is one. *)
LEMMA LastOnFacts ==
    ASSUME NEW q \in Seq(OpRecords), NEW u, NEW j \in DOMAIN q, q[j].user = u
    PROVE  /\ LastOn(q, u) \in DOMAIN q /\ q[LastOn(q, u)].user = u
           /\ \A k \in DOMAIN q : q[k].user = u => k <= LastOn(q, u)
<1>1. DOMAIN q = 1..Len(q) /\ Len(q) \in Nat
  OBVIOUS
<1> DEFINE S == {Len(q) - i : i \in {k \in DOMAIN q : q[k].user = u}}
<1>2. S \in SUBSET Nat /\ S # {}
  BY <1>1
<1>3. PICK n \in S : \A m \in S : n <= m
  BY <1>2, LeastNumber
<1>4. PICK i \in DOMAIN q : q[i].user = u /\ n = Len(q) - i
  OBVIOUS
<1>5. \A k \in DOMAIN q : q[k].user = u => k <= i
  <2> SUFFICES ASSUME NEW k \in DOMAIN q, q[k].user = u PROVE k <= i
    OBVIOUS
  <2>1. Len(q) - k \in S
    OBVIOUS
  <2>2. n <= Len(q) - k
    BY <1>3, <2>1
  <2>3. QED
    BY <1>1, <1>4, <2>2
<1>6. QED
  BY <1>4, <1>5 DEF LastOn

-----------------------------------------------------------------------------
(* The functions of offlineCache.ts on its module state. *)

LEMMA FreshTypes ==
    /\ NoSubscription \in Subscriptions /\ FreshCache \in CacheRecords
    /\ NoHydration \in HydrationRecords
    /\ ~FreshCache.sub.on /\ NoHydration.stage = "none"
  BY DEF NoSubscription, FreshCache, NoHydration, Subscriptions, CacheRecords,
         HydrationRecords, MaybeUser

LEMMA StartedFacts ==
    ASSUME NEW c \in CacheRecords
    PROVE  /\ Started(c) \in CacheRecords
           /\ Started(c).user = c.user /\ Started(c).life = c.life
           /\ c.sub.on \/ c.user = None => Started(c) = c
           /\ ~c.sub.on /\ c.user # None
                => Started(c).sub = [on |-> TRUE, user |-> c.user, life |-> c.life]
           /\ (c.sub.on => c.sub.user \in Users)
                => (Started(c).sub.on => Started(c).sub.user \in Users)
<1>1. CASE c.sub.on \/ c.user = None
  BY <1>1 DEF Started
<1>2. CASE ~c.sub.on /\ c.user # None
  <2>1. PICK s : s = [on |-> TRUE, user |-> c.user, life |-> c.life]
    OBVIOUS
  <2>2. s \in Subscriptions
    BY <2>1 DEF Subscriptions, CacheRecords
  <2>3. Started(c) = [c EXCEPT !.sub = s]
    BY <1>2, <2>1 DEF Started
  <2>4. c.user \in Users
    BY <1>2 DEF CacheRecords, MaybeUser
  <2>5. Started(c) \in CacheRecords /\ Started(c).sub = s /\ s.user \in Users
    BY <2>1, <2>2, <2>3, <2>4 DEF CacheRecords
  <2>6. QED
    BY <1>2, <2>1, <2>3, <2>5 DEF CacheRecords
<1>3. QED
  BY <1>1, <1>2

LEMMA StoppedFacts ==
    ASSUME NEW c \in CacheRecords
    PROVE  /\ Stopped(c) \in CacheRecords /\ ~Stopped(c).sub.on
           /\ Stopped(c).user = c.user /\ Stopped(c).life = c.life
<1>1. PICK s \in Subscriptions : s = NoSubscription /\ ~s.on
  BY FreshTypes DEF NoSubscription
<1>2. Stopped(c) = [c EXCEPT !.sub = s]
  BY <1>1 DEF Stopped
<1>3. QED
  BY <1>1, <1>2 DEF CacheRecords

LEMMA TornDownFacts ==
    ASSUME NEW c \in CacheRecords
    PROVE  /\ TornDown(c) \in CacheRecords /\ ~TornDown(c).sub.on
           /\ TornDown(c).user = None /\ TornDown(c).life = c.life + 1
<1>1. PICK s \in CacheRecords : s = Stopped(c) /\ ~s.sub.on /\ s.life = c.life
  BY StoppedFacts
<1>2. PICK l \in Nat : l = s.life + 1
  BY DEF CacheRecords
<1>3. TornDown(c) = [s EXCEPT !.life = l, !.user = None] /\ None \in MaybeUser
  BY <1>1, <1>2 DEF TornDown, MaybeUser
<1>4. QED
  BY <1>1, <1>2, <1>3 DEF CacheRecords

LEMMA SubscribedFacts ==
    ASSUME NEW c \in CacheRecords, NEW u \in MaybeUser, enabled \in BOOLEAN
    PROVE  /\ Subscribed(c, u) \in CacheRecords
           /\ Subscribed(c, u).user = u /\ Subscribed(c, u).life = c.life + 1
           /\ Subscribed(c, u).sub.on <=> enabled /\ u # None
           /\ enabled /\ u # None => Subscribed(c, u).sub.user = u
                                     /\ Subscribed(c, u).sub.life = c.life + 1
<1>1. PICK s \in CacheRecords : s = Stopped(c) /\ ~s.sub.on /\ s.life = c.life
  BY StoppedFacts
<1>2. PICK l \in Nat : l = s.life + 1
  BY DEF CacheRecords
<1>3. PICK n : n = [s EXCEPT !.life = l, !.user = u]
  OBVIOUS
<1>4. n \in CacheRecords /\ n.user = u /\ n.life = c.life + 1 /\ ~n.sub.on
  BY <1>1, <1>2, <1>3 DEF CacheRecords
<1>5. Subscribed(c, u) = IF enabled THEN Started(n) ELSE n
  BY <1>1, <1>2, <1>3 DEF Subscribed
<1>6. CASE enabled /\ u # None
  <2>1. Started(n).sub = [on |-> TRUE, user |-> u, life |-> c.life + 1]
    BY <1>4, <1>6, StartedFacts
  <2>2. QED
    BY <1>4, <1>5, <1>6, <2>1, StartedFacts
<1>7. CASE ~(enabled /\ u # None)
  <2>1. Subscribed(c, u) = n
    BY <1>4, <1>5, <1>7, StartedFacts
  <2>2. QED
    BY <1>4, <1>7, <2>1
<1>8. QED
  BY <1>6, <1>7

-----------------------------------------------------------------------------
(* What the steps of the session do to the state the cache depends on. *)

\* The request of t is as it was, is over, or has just got the token of the page.
CallKept(t) ==
    \/ call'[t] = call[t]
    \/ call'[t].stage = "none"
    \/ call'[t].gen = call[t].gen /\ call[t].stage # "none"
       /\ (call'[t].stage \in {"sent", "retried"}
             => call'[t].user = page'[t].token /\ page'[t].token # None)

LEMMA SettledFacts ==
    ASSUME TypeOK, NEW t \in Tabs, NEW result \in RestoreResults, NEW p \in PageRecords,
           Settle(t, result, p)
    PROVE  /\ page'[t].gen = p.gen /\ page'[t].token = p.token /\ page'[t].up = p.up
           /\ refresh'[t] = NoRefresh /\ CallKept(t)
<1>1. /\ page'[t] = Resolved(p, result) /\ refresh'[t] = NoRefresh
      /\ call'[t] = Resumed(call[t], result, p.token)
  BY SettleType, Types
<1>2. page'[t].gen = p.gen /\ page'[t].token = p.token /\ page'[t].up = p.up
  BY <1>1, ResolvedType
<1>3. call[t] \in CallRecords
  BY Types
<1>4. CallKept(t)
  <2>1. CASE call[t].stage # "waiting"
    BY <1>1, <2>1 DEF Resumed, CallKept
  <2>2. CASE call[t].stage = "waiting" /\ result = "restored" /\ p.token # None
    <3>1. call'[t] = [call[t] EXCEPT !.stage = "retried", !.since = 0, !.user = p.token]
      BY <1>1, <2>2 DEF Resumed
    <3>2. QED
      BY <1>2, <1>3, <2>2, <3>1 DEF CallKept, CallRecords
  <2>3. CASE call[t].stage = "waiting" /\ ~(result = "restored" /\ p.token # None)
    <3>1. call'[t] = [call[t] EXCEPT !.stage = "refused", !.since = 0]
      BY <1>1, <2>3 DEF Resumed
    <3>2. QED
      BY <1>3, <2>3, <3>1 DEF CallKept, CallRecords
  <2>4. QED
    BY <2>1, <2>2, <2>3
<1>5. QED
  BY <1>1, <1>2, <1>4

LEMMA ClearingFacts ==
    ASSUME TypeOK, NEW t \in Tabs, SignOut(t) \/ RefreshRefused(t) \/ Rejected(t)
    PROVE  /\ page'[t].up = page[t].up /\ cookie' = cookie /\ overtaken' = overtaken
           /\ refresh'[t] \in {refresh[t], NoRefresh} /\ CallKept(t)
           /\ page[t].gen \in Nat
           /\ SessionCleared(t) => hint' = None /\ page'[t].token = None
                                   /\ page'[t].gen = page[t].gen + 1
           /\ ~SessionCleared(t) => hint' = hint /\ page'[t].gen = page[t].gen
                                    /\ page'[t].token = page[t].token
<1> USE DEF device, history
<1>0. /\ page \in [Tabs -> PageRecords] /\ page[t] \in PageRecords /\ page[t].gen \in Nat
      /\ call \in [Tabs -> CallRecords] /\ refresh \in [Tabs -> RefreshRecords]
  BY Types, GenFacts DEF PageRecords
<1>1. CASE SignOut(t)
  <2>1. page'[t] = Cleared(page[t]) /\ page[t].gen < MaxGen
    BY <1>0, <1>1 DEF SignOut
  <2>2. /\ page'[t].gen = page[t].gen + 1 /\ page'[t].token = None
        /\ page'[t].up = page[t].up
    BY <1>0, <2>1, ClearedType
  <2>3. QED
    BY <1>0, <1>1, <2>2 DEF SignOut, SessionCleared, CallKept
<1>2. CASE RefreshRefused(t)
  <2>1. CASE Settle(t, "superseded", page[t]) /\ UNCHANGED hint
    BY <1>0, <1>2, <2>1, SettledFacts DEF RefreshRefused, SessionCleared, RestoreResults
  <2>2. CASE page[t].gen < MaxGen /\ Settle(t, "unauthenticated", Cleared(page[t])) /\ hint' = None
    <3>1. PICK p \in PageRecords : p = Cleared(page[t])
      BY <1>0, <2>2, ClearedType
    <3>2. p.gen = page[t].gen + 1 /\ p.token = None /\ p.up = page[t].up
      BY <1>0, <2>2, <3>1, ClearedType
    <3>3. QED
      BY <1>0, <1>2, <2>2, <3>1, <3>2, SettledFacts
         DEF RefreshRefused, SessionCleared, RestoreResults
  <2>3. QED
    BY <1>2, <2>1, <2>2 DEF RefreshRefused
<1>3. CASE Rejected(t)
  <2>1. call'[t].stage = "none" /\ UNCHANGED <<cookie, overtaken, refresh>>
    BY <1>0, <1>3 DEF Rejected, NoCall
  <2>2. CASE UNCHANGED <<page, hint>>
    BY <1>0, <2>1, <2>2 DEF SessionCleared, CallKept
  <2>3. CASE page[t].gen < MaxGen /\ page' = [page EXCEPT ![t] = Cleared(@)] /\ hint' = None
    <3>1. page'[t] = Cleared(page[t])
      BY <1>0, <2>3
    <3>2. /\ page'[t].gen = page[t].gen + 1 /\ page'[t].token = None
          /\ page'[t].up = page[t].up
      BY <1>0, <2>3, <3>1, ClearedType
    <3>3. QED
      BY <1>0, <2>1, <2>3, <3>2 DEF SessionCleared, CallKept
  <2>4. QED
    BY <1>3, <2>2, <2>3 DEF Rejected
<1>4. QED
  BY <1>1, <1>2, <1>3

LEMMA PlainFacts ==
    ASSUME TypeOK, NEW t \in Tabs, TabInv(t), PlainStep(t)
    PROVE  /\ page'[t].up = page[t].up /\ hint' = hint /\ page'[t].gen = page[t].gen
           /\ ~overtaken' => ~overtaken /\ cookie' \in {cookie, None}
           /\ \/ page'[t].token = page[t].token
              \/ /\ refresh[t].stage # "none" /\ refresh[t].gen = page[t].gen
                 /\ page'[t].token = refresh[t].sub
           /\ \/ refresh'[t].stage = "none"
              \/ /\ refresh[t].stage # "none"
                 /\ refresh'[t].gen = refresh[t].gen /\ refresh'[t].sub = refresh[t].sub
              \/ refresh'[t].sub = cookie
           /\ \/ CallKept(t)
              \/ /\ call'[t].gen = page[t].gen
                 /\ call'[t].user = page'[t].token /\ page'[t].token # None
<1> USE DEF device, history
<1>0. /\ page \in [Tabs -> PageRecords] /\ page[t] \in PageRecords /\ page[t].gen \in Nat
      /\ call \in [Tabs -> CallRecords] /\ refresh \in [Tabs -> RefreshRecords]
      /\ refresh[t] \in RefreshRecords /\ overtaken \in BOOLEAN
  BY Types, GenFacts DEF PageRecords
<1>1. Attempted(t) = refresh[t] \/ Attempted(t).sub = cookie
  BY DEF Attempted
<1>2. CASE Online(t)
  BY <1>0, <1>1, <1>2 DEF Online, CallKept
<1>3. CASE RefreshFails(t)
  <2>1. PICK result \in RestoreResults : Settle(t, result, page[t])
    BY <1>3 DEF RefreshFails, RestoreResults
  <2>2. NoRefresh.stage = "none"
    BY DEF NoRefresh
  <2>3. QED
    BY <1>0, <1>3, <2>1, <2>2, SettledFacts DEF RefreshFails
<1>4. CASE RefreshHeaders(t)
  <2>1. ~overtaken' => ~overtaken /\ cookie' = cookie
    BY <1>4 DEF RefreshHeaders
  <2>2. CASE Settle(t, "superseded", page[t])
    BY <1>0, <1>4, <2>1, <2>2, SettledFacts DEF RefreshHeaders, RestoreResults, NoRefresh
  <2>3. CASE refresh' = [refresh EXCEPT ![t].stage = "body"] /\ UNCHANGED <<page, call>>
    <3>1. refresh'[t] = [refresh[t] EXCEPT !.stage = "body"]
      BY <1>0, <2>3
    <3>2. refresh'[t].gen = refresh[t].gen /\ refresh'[t].sub = refresh[t].sub
      BY <1>0, <3>1 DEF RefreshRecords
    <3>3. QED
      BY <1>4, <2>1, <2>3, <3>2 DEF RefreshHeaders, CallKept
  <2>4. QED
    BY <1>4, <2>2, <2>3 DEF RefreshHeaders
<1>5. CASE RefreshBody(t)
  <2>1. CASE Settle(t, "superseded", page[t])
    BY <1>0, <1>5, <2>1, SettledFacts DEF RefreshBody, RestoreResults, NoRefresh
  <2>2. CASE ~Superseded(t) /\ Settle(t, "restored",
               [page[t] EXCEPT !.token = refresh[t].sub, !.mode = Follow(page[t], "normal")])
    <3>1. PICK m \in Modes : m = Follow(page[t], "normal")
      BY <1>0 DEF Follow, PageRecords, Modes
    <3>2. PICK p : p = [page[t] EXCEPT !.token = refresh[t].sub, !.mode = m]
      OBVIOUS
    <3>3. /\ p \in PageRecords /\ p.gen = page[t].gen /\ p.up = page[t].up
          /\ p.token = refresh[t].sub
      BY <1>0, <3>2 DEF PageRecords, RefreshRecords
    <3>4. Settle(t, "restored", p)
      BY <2>2, <3>1, <3>2
    <3>5. refresh[t].stage # "none" /\ refresh[t].gen = page[t].gen
      BY <1>5, <2>2 DEF RefreshBody, Superseded
    <3>6. QED
      BY <1>0, <1>5, <3>3, <3>4, <3>5, SettledFacts DEF RefreshBody, RestoreResults, NoRefresh
  <2>3. QED
    BY <1>5, <2>1, <2>2 DEF RefreshBody
<1>6. CASE LogoutAnswered(t) \/ LogoutFails(t)
  BY <1>0, <1>6 DEF LogoutAnswered, LogoutFails, CallKept
<1>7. CASE Send(t)
  BY <1>0, <1>7 DEF Send, NoCall
<1>8. CASE CallRefused(t)
  <2>1. CASE call[t].stage = "sent"
    BY <1>0, <1>1, <1>8, <2>1 DEF CallRefused, CallKept, CallRecords
  <2>2. CASE call[t].stage = "retried"
    BY <1>0, <1>8, <2>2 DEF CallRefused, CallKept, CallRecords
  <2>3. QED
    BY <1>8, <2>1, <2>2 DEF CallRefused
<1>9. QED
  BY <1>2, <1>3, <1>4, <1>5, <1>6, <1>7, <1>8 DEF PlainStep

-----------------------------------------------------------------------------
(* Type correctness, for any number of tabs. *)

LEMMA OperationTypes ==
    ASSUME NEW u \in Users
    PROVE  /\ \A r \in Erasures : Erase(r, u) \in OpRecords
           /\ \A d \in SUBSET Users : Put(u, d) \in OpRecords
  BY DEF Erase, Put, Erasures, OpRecords

LEMMA ScheduledTypes ==
    ASSUME CacheTypes, NEW t \in Tabs, Filled(t), NEW d \in SUBSET Users
    PROVE  Scheduled(t, d) \in SUBSET WriteRecords
<1>1. cache[t] \in CacheRecords /\ writes[t] \in SUBSET WriteRecords
  BY DEF CacheTypes
<1>2. CASE ~cache[t].sub.on
  BY <1>1, <1>2 DEF Scheduled
<1>3. CASE cache[t].sub.on
  <2>1. [user |-> cache[t].sub.user, life |-> cache[t].sub.life, data |-> d] \in WriteRecords
    BY <1>1, <1>3 DEF Filled, CacheRecords, Subscriptions, WriteRecords
  <2>2. QED
    BY <1>1, <1>3, <2>1 DEF Scheduled
<1>4. QED
  BY <1>2, <1>3

LEMMA CacheStepIsSessionStep ==
    ASSUME NEW t \in Tabs, CacheStep(t)
    PROVE  TabStep(t) \/ UNCHANGED svars
  BY DEF CacheStep, TabStep, RefreshAnswered, BootWithCache, FinishBootWithCache, CloseWithCache,
         DoneWithCache, ClearingStep, PlainStep, StorageRuns, StorageFails, WriteFires,
         HydrationReads, HydrationEnds, Toggle, ClearData

LEMMA CacheStepIsLocal ==
    ASSUME TypeOK, CacheTypes, NEW t \in Tabs, NEW s \in Tabs \ {t}, CacheStep(t)
    PROVE  cache'[s] = cache[s] /\ hydration'[s] = hydration[s] /\ call'[s] = call[s]
<1>1. call'[s] = call[s]
  BY CacheStepIsSessionStep, StepIsLocal DEF svars
<1>2. cache'[s] = cache[s] /\ hydration'[s] = hydration[s]
  BY DEF CacheTypes, CacheStep, BootWithCache, FinishBootWithCache, CloseWithCache,
         DoneWithCache, ClearingStep, OnClear, PlainStep, OnAdopt, StorageRuns, StorageFails,
         WriteFires, HydrationReads, HydrationEnds, Toggle, ClearData, cvars
<1>3. QED
  BY <1>1, <1>2

\* A request on its way carries a user.
LEMMA CallFilled ==
    ASSUME TypeOK, TypeOK', NEW t \in Tabs, TabInv(t), Filled(t), CacheStep(t)
    PROVE  call'[t].stage \in {"sent", "retried"} => call'[t].user \in Users
<1>1. page'[t].token \in MaybeUser
  BY TypesAfter DEF PageRecords
<1>2. CASE CallKept(t) \/ (call'[t].user = page'[t].token /\ page'[t].token # None)
  BY <1>1, <1>2 DEF CallKept, Filled, MaybeUser
<1>3. CASE ClearingStep(t) \/ PlainStep(t)
  BY <1>2, <1>3, ClearingFacts, PlainFacts DEF ClearingStep
<1>4. CASE CloseWithCache(t) \/ DoneWithCache(t)
  BY <1>2, <1>4 DEF CloseWithCache, DoneWithCache, Close, Done, NoCall, TypeOK, CallKept
<1>5. CASE UNCHANGED call
  BY <1>2, <1>5 DEF CallKept
<1>6. QED
  BY <1>3, <1>4, <1>5
     DEF CacheStep, BootWithCache, Boot, FinishBootWithCache, FinishBoot, SignIn, StorageRuns,
         StorageFails, WriteFires, HydrationReads, HydrationEnds, Toggle, ClearData, svars

LEMMA CacheStepTypes ==
    ASSUME TypeOK, TypeOK', CacheTypes, NEW t \in Tabs, TabInv(t), Filled(t), CacheStep(t)
    PROVE  CacheTypes' /\ Filled(t)'
<1> USE DEF CacheTypes
<1>0. /\ cache[t] \in CacheRecords /\ hydration[t] \in HydrationRecords
      /\ writes[t] \in SUBSET WriteRecords /\ ops[t] \in Seq(OpRecords) /\ mem[t] \in SUBSET Users
      /\ hint \in MaybeUser /\ hint' \in MaybeUser /\ None \in MaybeUser
  BY Types, TypesAfter DEF MaybeUser
<1>1. call'[t].stage \in {"sent", "retried"} => call'[t].user \in Users
  BY CallFilled
<1>2. \A u \in Users : \A r \in Erasures : Append(ops[t], Erase(r, u)) \in Seq(OpRecords)
  BY <1>0, OperationTypes, AppendFacts
<1>3. CASE BootWithCache(t)
  <2>1. CASE hint # None /\ enabled
    <3>1. PICK c : c = [FreshCache EXCEPT !.life = 1]
      OBVIOUS
    <3>2. PICK h : h = [NoHydration EXCEPT !.stage = "reading", !.user = hint, !.life = 1]
      OBVIOUS
    <3>3. c \in CacheRecords /\ ~c.sub.on
      BY <3>1, FreshTypes DEF CacheRecords
    <3>4. h \in HydrationRecords /\ h.user \in Users
      BY <1>0, <2>1, <3>2, FreshTypes DEF HydrationRecords, MaybeUser
    <3>5. cache' = [cache EXCEPT ![t] = c] /\ hydration' = [hydration EXCEPT ![t] = h]
      BY <1>3, <2>1, <3>1, <3>2 DEF BootWithCache
    <3>6. UNCHANGED <<enabled, store, mem, writes, ops, revoked, emptied>>
      BY <1>3 DEF BootWithCache
    <3>7. QED
      BY <1>1, <3>3, <3>4, <3>5, <3>6 DEF Filled
  <2>2. CASE UNCHANGED <<cache, hydration>>
    BY <1>1, <1>3, <2>2 DEF BootWithCache, Filled
  <2>3. QED
    BY <1>3, <2>1, <2>2 DEF BootWithCache
<1>4. CASE FinishBootWithCache(t)
  <2>1. PICK c \in CacheRecords : c = Subscribed(cache[t], hint) /\ (c.sub.on => c.sub.user \in Users)
    BY <1>0, SubscribedFacts DEF MaybeUser
  <2>2. cache' = [cache EXCEPT ![t] = c]
    BY <1>4, <2>1 DEF FinishBootWithCache
  <2>3. QED
    BY <1>1, <1>4, <2>1, <2>2 DEF FinishBootWithCache, Filled
<1>5. CASE CloseWithCache(t)
  <2>1. AllRun(store, ops[t]) \in [Users -> SUBSET Users]
    <3> SUFFICES ASSUME NEW u \in Users, NEW i \in DOMAIN ops[t], ops[t][i].user = u
                 PROVE  ops[t][LastOn(ops[t], u)].data \in SUBSET Users
      BY DEF AllRun
    <3>1. LastOn(ops[t], u) \in DOMAIN ops[t]
      BY <1>0, LastOnFacts
    <3>2. ops[t][LastOn(ops[t], u)] \in OpRecords
      BY <1>0, <3>1
    <3>3. QED
      BY <3>2 DEF OpRecords
  <2>2. store' \in [Users -> SUBSET Users] /\ revoked' \subseteq Users
    BY <1>5, <2>1 DEF CloseWithCache
  <2>3. <<>> \in Seq(OpRecords)
    OBVIOUS
  <2>4. QED
    BY <1>1, <1>5, <2>2, <2>3, FreshTypes DEF CloseWithCache, Filled
<1>6. CASE DoneWithCache(t)
  <2>1. call[t].user \in Users
    BY <1>6 DEF DoneWithCache, Done, Filled
  <2>2. PICK d \in SUBSET Users : /\ mem' = [mem EXCEPT ![t] = d]
                                  /\ writes' = [writes EXCEPT ![t] = Scheduled(t, d)]
    BY <1>0, <1>6, <2>1 DEF DoneWithCache
  <2>3. Scheduled(t, d) \in SUBSET WriteRecords
    BY ScheduledTypes
  <2>4. QED
    BY <1>1, <1>6, <2>2, <2>3 DEF DoneWithCache, Filled
<1>7. CASE ClearingStep(t)
  <2>1. CASE OnClear(t, PurgedUser(t))
    <3>1. PurgedUser(t) \in MaybeUser
      BY <1>0, Types DEF PurgedUser, PageRecords
    <3>2. TornDown(cache[t]) \in CacheRecords /\ ~TornDown(cache[t]).sub.on
      BY <1>0, TornDownFacts
    <3>3. ops' \in [Tabs -> Seq(OpRecords)]
      BY <1>0, <1>2, <2>1, <3>1 DEF OnClear, MaybeUser, Erasures
    <3>4. QED
      BY <1>0, <1>1, <2>1, <3>1, <3>2, <3>3 DEF OnClear, MaybeUser, Filled
  <2>2. CASE UNCHANGED cvars
    BY <1>1, <2>2 DEF cvars, Filled
  <2>3. QED
    BY <1>7, <2>1, <2>2 DEF ClearingStep
<1>8. CASE PlainStep(t)
  BY <1>1, <1>8 DEF PlainStep, cvars, Filled
<1>9. ASSUME NEW u \in Users, OnAdopt(t, u) PROVE CacheTypes' /\ Filled(t)'
  <2>1. u \in MaybeUser
    BY DEF MaybeUser
  <2>2. PICK c \in CacheRecords : c = Subscribed(cache[t], u) /\ (c.sub.on => c.sub.user \in Users)
    BY <1>0, <2>1, SubscribedFacts DEF MaybeUser
  <2>3. cache' = [cache EXCEPT ![t] = c]
    BY <1>9, <2>2 DEF OnAdopt
  <2>4. QED
    BY <1>1, <1>9, <2>2, <2>3 DEF OnAdopt, Filled
<1>10. CASE StorageRuns(t)
  <2>1. Head(ops[t]) \in OpRecords /\ Tail(ops[t]) \in Seq(OpRecords)
    BY <1>0, <1>10, TailFacts DEF StorageRuns
  <2>2. Head(ops[t]).user \in Users /\ Head(ops[t]).data \in SUBSET Users
    BY <2>1 DEF OpRecords
  <2>3. QED
    BY <1>1, <1>10, <2>1, <2>2 DEF StorageRuns, Filled
<1>11. CASE StorageFails(t)
  <2>1. Tail(ops[t]) \in Seq(OpRecords)
    BY <1>0, <1>11, TailFacts DEF StorageFails
  <2>2. PICK c \in CacheRecords : c = Started(cache[t]) /\ (c.sub.on => c.sub.user \in Users)
    BY <1>0, StartedFacts DEF Filled, CacheRecords, MaybeUser
  <2>3. cache' = [cache EXCEPT ![t] = c] \/ cache' = cache
    BY <1>11, <2>2 DEF StorageFails
  <2>4. enabled' \in BOOLEAN /\ revoked' \subseteq Users
    BY <1>11 DEF StorageFails
  <2>5. QED
    BY <1>1, <1>11, <2>1, <2>2, <2>3, <2>4 DEF StorageFails, Filled
<1>12. CASE WriteFires(t)
  <2>1. PICK w \in writes[t] : /\ writes' = [writes EXCEPT ![t] = @ \ {w}]
                               /\ \/ ops' = [ops EXCEPT ![t] = Append(@, Put(w.user, w.data))]
                                  \/ UNCHANGED ops
    BY <1>12 DEF WriteFires
  <2>2. w.user \in Users /\ w.data \in SUBSET Users
    BY <1>0 DEF WriteRecords
  <2>3. Append(ops[t], Put(w.user, w.data)) \in Seq(OpRecords)
    BY <1>0, <2>2, OperationTypes, AppendFacts
  <2>4. QED
    BY <1>1, <1>12, <2>1, <2>3 DEF WriteFires, Filled
<1>13. CASE HydrationReads(t)
  <2>1. hydration[t].user \in Users
    BY <1>13 DEF HydrationReads, Filled
  <2>2. PICK d \in SUBSET Users : d = store[hydration[t].user]
    BY <2>1
  <2>3. hydration' = [hydration EXCEPT ![t] = [hydration[t] EXCEPT !.stage = "read", !.data = d]]
    BY <1>13, <2>2 DEF HydrationReads
  <2>4. PICK h : h = [hydration[t] EXCEPT !.stage = "read", !.data = d]
    OBVIOUS
  <2>5. h \in HydrationRecords /\ h.user \in Users
    BY <1>0, <2>1, <2>4 DEF HydrationRecords
  <2>6. QED
    BY <1>1, <1>13, <2>3, <2>4, <2>5 DEF HydrationReads, Filled
<1>14. CASE HydrationEnds(t)
  <2>1. hydration[t].data \in SUBSET Users
    BY <1>0 DEF HydrationRecords
  <2>2. QED
    BY <1>0, <1>1, <1>14, <2>1, FreshTypes DEF HydrationEnds, Filled
<1>15. CASE Toggle(t)
  <2>1. PICK l \in Nat : l = cache[t].life + 1
    BY <1>0 DEF CacheRecords
  <2>2. PICK c : c = [cache[t] EXCEPT !.life = l]
    OBVIOUS
  <2>3. c \in CacheRecords /\ c.user = cache[t].user /\ c.sub = cache[t].sub
    BY <1>0, <2>2 DEF CacheRecords
  <2>4. cache[t].user \in MaybeUser
    BY <1>0 DEF CacheRecords
  <2>5. PICK n \in CacheRecords : /\ cache' = [cache EXCEPT ![t] = n]
                                  /\ n.sub.on => n.sub.user \in Users
    <3>1. Started(c) \in CacheRecords /\ (Started(c).sub.on => Started(c).sub.user \in Users)
      BY <2>3, <2>4, StartedFacts DEF Filled, MaybeUser
    <3>2. Stopped(c) \in CacheRecords /\ ~Stopped(c).sub.on
      BY <2>3, StoppedFacts
    <3>3. cache' = [cache EXCEPT ![t] = Started(c)] \/ cache' = [cache EXCEPT ![t] = Stopped(c)]
      BY <1>15, <2>1, <2>2 DEF Toggle
    <3>4. QED
      BY <3>1, <3>2, <3>3
  <2>6. ops' \in [Tabs -> Seq(OpRecords)] /\ revoked' \subseteq Users
    BY <1>0, <1>2, <1>15, <2>4 DEF Toggle, MaybeUser, Erasures
  <2>7. emptied' \in [Tabs -> {"no", "ordered", "erased"}] /\ enabled' \in BOOLEAN
    BY <1>15 DEF Toggle
  <2>8. QED
    BY <1>1, <1>15, <2>5, <2>6, <2>7 DEF Toggle, Filled
<1>16. CASE ClearData(t)
  <2>1. PICK c \in CacheRecords : c = Stopped(cache[t]) /\ ~c.sub.on
    BY <1>0, StoppedFacts
  <2>2. cache' = [cache EXCEPT ![t] = c]
    BY <1>16, <2>1 DEF ClearData
  <2>3. ops' \in [Tabs -> Seq(OpRecords)]
    BY <1>0, <1>2, <1>16 DEF ClearData, MaybeUser, Erasures
  <2>4. QED
    BY <1>1, <1>16, <2>1, <2>2, <2>3 DEF ClearData, Filled
<1>17. QED
  BY <1>3, <1>4, <1>5, <1>6, <1>7, <1>8, <1>9, <1>10, <1>11, <1>12, <1>13, <1>14, <1>15, <1>16
     DEF CacheStep

\* The cache leaves the session as BrowserSession describes it, so that what
\* holds of a session holds of a session with its cache.
LEMMA CacheImplementsSession == CacheSpec => Spec
<1>1. CacheInit => Init
  BY DEF CacheInit
<1>2. [CacheNext]_vars => [Next]_svars
  BY CacheStepIsSessionStep DEF CacheNext, Next, vars
<1>3. QED
  BY <1>1, <1>2, PTL DEF CacheSpec, Spec

TypesInv == CacheTypes /\ \A t \in Tabs : Filled(t)

LEMMA TypesInvariant == CacheSpec => []TypesInv
<1>1. CacheInit => TypesInv
  <2> SUFFICES ASSUME CacheInit PROVE TypesInv
    OBVIOUS
  <2>1. <<>> \in Seq(OpRecords)
    OBVIOUS
  <2>2. NoCall.stage = "none"
    BY DEF NoCall
  <2>3. QED
    BY <2>1, <2>2, FreshTypes DEF CacheInit, Init, TypesInv, CacheTypes, Filled
<1>2. TypeOK /\ TypeOK' /\ TabsInv /\ TypesInv /\ [CacheNext]_vars => TypesInv'
  <2> SUFFICES ASSUME TypeOK, TypeOK', TabsInv, TypesInv, [CacheNext]_vars PROVE TypesInv'
    OBVIOUS
  <2>1. ASSUME NEW t \in Tabs, CacheStep(t) PROVE TypesInv'
    <3>1. CacheTypes' /\ Filled(t)'
      BY <2>1, CacheStepTypes DEF TabsInv, TypesInv
    <3>2. ASSUME NEW s \in Tabs \ {t} PROVE Filled(s)'
      BY <2>1, CacheStepIsLocal DEF TypesInv, Filled
    <3>3. QED
      BY <3>1, <3>2 DEF TypesInv
  <2>2. CASE UNCHANGED vars
    BY <2>2 DEF vars, svars, cvars, TypesInv, CacheTypes, Filled
  <2>3. QED
    BY <2>1, <2>2 DEF CacheNext
<1>3. QED
  BY <1>1, <1>2, CacheImplementsSession, TypeCorrect, TabsInvariant, PTL DEF CacheSpec

(* The session and the cache of every tab stay within the states the code knows, a       *)
(* throttled write is always of a user, and a queued operation is a put or one of the     *)
(* three erasures.                                                                        *)
THEOREM CacheTypeCorrect == CacheSpec => []CacheTypeOK
<1>1. TypeOK /\ TypesInv => CacheTypeOK
  <2> SUFFICES ASSUME TypeOK, CacheTypes PROVE CacheTypeOK
    BY DEF TypesInv
  <2>1. ASSUME NEW t \in Tabs
        PROVE  /\ cache[t] \in CacheRecords /\ hydration[t] \in HydrationRecords
               /\ writes[t] \in SUBSET WriteRecords /\ ops[t] \in Seq(OpRecords)
    BY DEF CacheTypes
  <2>2. ASSUME NEW t \in Tabs, NEW i \in DOMAIN ops[t] PROVE ops[t][i] \in OpRecords
    BY <2>1
  <2>3. QED
    BY <2>1, <2>2
       DEF CacheTypes, CacheTypeOK, CacheRecords, Subscriptions, HydrationRecords, WriteRecords,
           OpRecords
<1>2. QED
  BY <1>1, TypesInvariant, CacheImplementsSession, TypeCorrect, PTL

-----------------------------------------------------------------------------
(* One tab: how its cache follows its page. *)

LEMMA BootFacts ==
    ASSUME TypeOK, CacheTypes, NEW t \in Tabs, BootWithCache(t)
    PROVE  /\ page[t].up = "closed" /\ page'[t].up = "booting"
           /\ page'[t].gen = 0 /\ page'[t].token = None
           /\ UNCHANGED <<enabled, store, mem, writes, ops, revoked, emptied>>
           /\ UNCHANGED <<cookie, hint, call, overtaken>>
           /\ refresh'[t] = refresh[t] \/ refresh'[t].sub = cookie
           /\ \/ hint # None /\ enabled
                 /\ cache'[t].user = None /\ cache'[t].life = 1 /\ ~cache'[t].sub.on
                 /\ hydration'[t].stage = "reading" /\ hydration'[t].user = hint
                 /\ hydration'[t].life = 1 /\ hydration'[t].data = {}
              \/ UNCHANGED <<cache, hydration>>
<1>1. \E r \in RestoreResults \union {"pending"} :
          page' = [page EXCEPT ![t] = [Unloaded EXCEPT !.up = "booting", !.restore = r]]
  BY DEF BootWithCache, Boot, RestoreResults
<1>2. /\ page'[t].up = "booting" /\ page'[t].gen = 0 /\ page'[t].token = None
      /\ page[t].up = "closed"
  <2>1. PICK r : page' = [page EXCEPT ![t] = [Unloaded EXCEPT !.up = "booting", !.restore = r]]
    BY <1>1
  <2>2. page'[t] = [Unloaded EXCEPT !.up = "booting", !.restore = r]
    BY <2>1, Types
  <2>3. page[t].up = "closed"
    BY DEF BootWithCache, Boot
  <2>4. QED
    BY <2>2, <2>3 DEF Unloaded
<1>3. refresh'[t] = refresh[t] \/ refresh'[t].sub = cookie
  BY Types DEF BootWithCache, Boot, NoRefresh
<1>4. /\ UNCHANGED <<cookie, hint, call, overtaken>>
      /\ UNCHANGED <<enabled, store, mem, writes, ops, revoked, emptied>>
  BY DEF BootWithCache, Boot, device, history
<1>5. CASE hint # None /\ enabled
  <2>1. cache'[t] = [FreshCache EXCEPT !.life = 1]
    BY <1>5 DEF BootWithCache, CacheTypes
  <2>2. hydration'[t] = [NoHydration EXCEPT !.stage = "reading", !.user = hint, !.life = 1]
    BY <1>5 DEF BootWithCache, CacheTypes
  <2>3. cache'[t].user = None /\ cache'[t].life = 1 /\ ~cache'[t].sub.on
    BY <2>1, FreshTypes DEF FreshCache
  <2>4. /\ hydration'[t].stage = "reading" /\ hydration'[t].user = hint
        /\ hydration'[t].life = 1 /\ hydration'[t].data = {}
    BY <2>2 DEF NoHydration
  <2>5. QED
    BY <1>2, <1>3, <1>4, <1>5, <2>3, <2>4
<1>6. CASE UNCHANGED <<cache, hydration>>
  BY <1>2, <1>3, <1>4, <1>6
<1>7. QED
  BY <1>5, <1>6 DEF BootWithCache

LEMMA FinishBootFacts ==
    ASSUME TypeOK, CacheTypes, NEW t \in Tabs, FinishBootWithCache(t)
    PROVE  /\ page[t].up = "booting" /\ page'[t].up = "running"
           /\ page'[t].gen = page[t].gen /\ page'[t].token = page[t].token
           /\ hydration[t].stage = "none" /\ cache'[t] = Subscribed(cache[t], hint)
           /\ UNCHANGED <<cookie, hint, refresh, call, overtaken>>
           /\ revoked' = IF enabled THEN revoked \ {hint} ELSE revoked
           /\ UNCHANGED <<enabled, store, mem, hydration, writes, ops, emptied>>
<1>1. /\ page[t].up = "booting" /\ page'[t].up = "running"
      /\ page'[t].gen = page[t].gen /\ page'[t].token = page[t].token
  <2>1. page \in [Tabs -> PageRecords] /\ page[t] \in PageRecords
    BY Types
  <2>2. QED
    BY <2>1 DEF FinishBootWithCache, FinishBoot, PageRecords
<1>2. UNCHANGED <<cookie, hint, refresh, call, overtaken>>
  BY DEF FinishBootWithCache, FinishBoot, device, history
<1>3. QED
  BY <1>1, <1>2 DEF FinishBootWithCache, CacheTypes

LEMMA SignInFacts ==
    ASSUME TypeOK, CacheTypes, NEW t \in Tabs, NEW u \in Users, SignIn(t, u), OnAdopt(t, u)
    PROVE  /\ page[t].up = "running" /\ page'[t].up = "running"
           /\ page'[t].gen = page[t].gen + 1 /\ page[t].gen \in Nat /\ page'[t].token = u
           /\ cookie' = u /\ hint' = u /\ UNCHANGED <<refresh, call, overtaken>>
           /\ cache'[t] = Subscribed(cache[t], u) /\ mem'[t] = {} /\ emptied'[t] = "no"
           /\ revoked' = IF enabled THEN revoked \ {u} ELSE revoked
           /\ UNCHANGED <<enabled, store, hydration, writes, ops>>
<1>1. page \in [Tabs -> PageRecords] /\ page[t] \in PageRecords /\ page[t].gen \in Nat
  BY Types, GenFacts DEF PageRecords
<1>2. /\ page[t].up = "running" /\ page'[t].up = "running"
      /\ page'[t].gen = page[t].gen + 1 /\ page'[t].token = u
  BY <1>1 DEF SignIn, PageRecords
<1>3. QED
  BY <1>1, <1>2 DEF SignIn, OnAdopt, CacheTypes

LEMMA CloseFacts ==
    ASSUME TypeOK, CacheTypes, NEW t \in Tabs, CloseWithCache(t)
    PROVE  /\ page'[t] = Unloaded /\ refresh'[t] = NoRefresh /\ call'[t] = NoCall
           /\ cache'[t] = FreshCache /\ mem'[t] = {} /\ hydration'[t] = NoHydration
           /\ writes'[t] = {} /\ ops'[t] = <<>> /\ emptied'[t] = "no"
           /\ UNCHANGED <<cookie, hint, overtaken, enabled>>
  BY DEF CloseWithCache, Close, TypeOK, CacheTypes, device, history

\* An operation joins the queue of t, or its first operation leaves it.
QueueGrows(t, e) == ops' = [ops EXCEPT ![t] = Append(@, e)]
QueueShrinks(t) == ops[t] # <<>> /\ ops' = [ops EXCEPT ![t] = Tail(@)]

LEMMA GrownQueue ==
    ASSUME CacheTypes, NEW t \in Tabs, NEW e \in OpRecords, QueueGrows(t, e)
    PROVE  /\ ops'[t] = Append(ops[t], e) /\ Len(ops[t]) \in Nat
           /\ Len(ops[t]) + 1 \in DOMAIN ops'[t] /\ ops'[t][Len(ops[t]) + 1] = e
           /\ \A i \in DOMAIN ops[t] : /\ i \in DOMAIN ops'[t] /\ ops'[t][i] = ops[t][i]
                                       /\ i \in 1..Len(ops[t])
           /\ \A i \in DOMAIN ops'[t] : i \in DOMAIN ops[t] \/ i = Len(ops[t]) + 1
<1>1. ops[t] \in Seq(OpRecords) /\ ops'[t] = Append(ops[t], e)
  BY DEF CacheTypes, QueueGrows
<1>2. QED
  BY <1>1, AppendFacts

LEMMA ShrunkQueue ==
    ASSUME CacheTypes, NEW t \in Tabs, QueueShrinks(t)
    PROVE  /\ Head(ops[t]) = ops[t][1] /\ 1 \in DOMAIN ops[t] /\ Head(ops[t]) \in OpRecords
           /\ \A i \in DOMAIN ops'[t] : /\ i \in Nat /\ i + 1 \in DOMAIN ops[t]
                                        /\ ops'[t][i] = ops[t][i + 1]
           /\ \A i \in DOMAIN ops[t] \ {1} : /\ i \in Nat /\ i - 1 \in DOMAIN ops'[t]
                                             /\ ops'[t][i - 1] = ops[t][i]
<1>1. ops[t] \in Seq(OpRecords) /\ ops[t] # <<>> /\ ops'[t] = Tail(ops[t])
  BY DEF CacheTypes, QueueShrinks
<1>2. DOMAIN ops[t] \subseteq Nat
  BY <1>1
<1>3. QED
  BY <1>1, <1>2, TailFacts

LEMMA QueueStep ==
    ASSUME TypeOK, CacheTypes, NEW t \in Tabs, TabInv(t), Filled(t), QueueInv(t), CacheStep(t)
    PROVE  QueueInv(t)'
<1>1. ASSUME NEW e \in OpRecords, QueueGrows(t, e),
             e.op # "put" => e.data = {}, e.op = "optout" => page[t].up = "running",
             page'[t].up = page[t].up
      PROVE  QueueInv(t)'
  BY <1>1, GrownQueue DEF QueueInv
<1>2. ASSUME QueueShrinks(t), page'[t].up = page[t].up PROVE QueueInv(t)'
  BY <1>2, ShrunkQueue DEF QueueInv
<1>3. ASSUME ops' = ops, page'[t].up = page[t].up \/ page'[t].up = "running"
      PROVE  QueueInv(t)'
  BY <1>3 DEF QueueInv
<1>4. ASSUME NEW u \in Users, NEW r \in Erasures
      PROVE  /\ Erase(r, u) \in OpRecords /\ Erase(r, u).op = r
             /\ Erase(r, u).data = {} /\ Erase(r, u).op # "put"
  BY <1>4, OperationTypes DEF Erase, Erasures
<1>5. CASE BootWithCache(t)
  BY <1>5, BootFacts DEF QueueInv
<1>6. CASE FinishBootWithCache(t)
  BY <1>3, <1>6, FinishBootFacts
<1>7. CASE CloseWithCache(t)
  BY <1>7, CloseFacts DEF QueueInv
<1>8. CASE DoneWithCache(t) \/ PlainStep(t) \/ HydrationReads(t) \/ HydrationEnds(t)
  <2>1. ops' = ops /\ page'[t].up = page[t].up
    BY <1>8, PlainFacts
       DEF DoneWithCache, Done, PlainStep, HydrationReads, HydrationEnds, cvars, svars
  <2>2. QED
    BY <1>3, <2>1
<1>9. CASE ClearingStep(t)
  <2>1. page'[t].up = page[t].up
    BY <1>9, ClearingFacts DEF ClearingStep
  <2>2. CASE OnClear(t, PurgedUser(t))
    <3>1. PurgedUser(t) \in MaybeUser
      BY Types DEF PurgedUser, PageRecords
    <3>2. CASE PurgedUser(t) = None
      <4>1. ops' = ops
        BY <2>2, <3>2 DEF OnClear, CacheTypes
      <4>2. QED
        BY <1>3, <2>1, <4>1
    <3>3. CASE PurgedUser(t) \in Users
      <4>1. PurgedUser(t) # None
        BY <3>3, SessionAssumption
      <4>2. QueueGrows(t, Erase("purge", PurgedUser(t)))
        BY <2>2, <4>1 DEF OnClear, QueueGrows
      <4>3. QED
        BY <1>1, <1>4, <2>1, <3>3, <4>2 DEF Erasures
    <3>4. QED
      BY <3>1, <3>2, <3>3 DEF MaybeUser
  <2>3. CASE UNCHANGED cvars
    BY <1>3, <2>1, <2>3 DEF cvars
  <2>4. QED
    BY <1>9, <2>2, <2>3 DEF ClearingStep
<1>10. ASSUME NEW u \in Users, SignIn(t, u), OnAdopt(t, u) PROVE QueueInv(t)'
  BY <1>3, <1>10, SignInFacts
<1>11. CASE StorageRuns(t) \/ StorageFails(t)
  BY <1>2, <1>11 DEF StorageRuns, StorageFails, QueueShrinks, svars
<1>12. CASE WriteFires(t)
  <2>1. page'[t].up = page[t].up
    BY <1>12 DEF WriteFires, svars
  <2>2. PICK w \in writes[t] : QueueGrows(t, Put(w.user, w.data)) \/ ops' = ops
    BY <1>12 DEF WriteFires, QueueGrows
  <2>3. w.user \in Users /\ w.data \in SUBSET Users
    BY DEF CacheTypes, WriteRecords
  <2>4. Put(w.user, w.data) \in OpRecords /\ Put(w.user, w.data).op = "put"
    BY <2>3, OperationTypes DEF Put
  <2>5. QED
    BY <1>1, <1>3, <2>1, <2>2, <2>4
<1>13. CASE Toggle(t)
  <2>1. page'[t].up = page[t].up /\ page[t].up = "running" /\ cache[t].user \in MaybeUser
    BY <1>13 DEF Toggle, svars, CacheTypes, CacheRecords
  <2>2. ops' = ops \/ (cache[t].user # None /\ QueueGrows(t, Erase("optout", cache[t].user)))
    BY <1>13 DEF Toggle, QueueGrows, CacheTypes
  <2>3. QED
    BY <1>1, <1>3, <1>4, <2>1, <2>2 DEF MaybeUser, Erasures
<1>14. CASE ClearData(t)
  <2>1. page'[t].up = page[t].up /\ page[t].up = "running" /\ hint \in MaybeUser
    BY <1>14, Types DEF ClearData, svars
  <2>2. ops' = ops \/ (hint # None /\ QueueGrows(t, Erase("clear", hint)))
    BY <1>14 DEF ClearData, QueueGrows, CacheTypes
  <2>3. QED
    BY <1>1, <1>3, <1>4, <2>1, <2>2 DEF MaybeUser, Erasures
<1>15. QED
  BY <1>5, <1>6, <1>7, <1>8, <1>9, <1>10, <1>11, <1>12, <1>13, <1>14 DEF CacheStep

\* What the callbacks of the session, the switch and the button do to the cache of t.

LEMMA OnClearFacts ==
    ASSUME TypeOK, CacheTypes, NEW t \in Tabs, OnClear(t, PurgedUser(t))
    PROVE  /\ cache'[t] = TornDown(cache[t]) /\ mem'[t] \in {{}, mem[t]} /\ emptied'[t] = "no"
           /\ UNCHANGED <<enabled, store, hydration, writes>>
           /\ \/ PurgedUser(t) = None /\ ops' = ops /\ revoked' = revoked
              \/ /\ PurgedUser(t) \in Users /\ revoked' = revoked \union {PurgedUser(t)}
                 /\ QueueGrows(t, Erase("purge", PurgedUser(t)))
<1>1. PurgedUser(t) \in MaybeUser
  BY Types DEF PurgedUser, PageRecords
<1>2. CASE PurgedUser(t) = None
  <2>1. ops' = ops /\ revoked' = revoked
    BY <1>2 DEF OnClear, CacheTypes
  <2>2. QED
    BY <1>2, <2>1 DEF OnClear, CacheTypes
<1>3. CASE PurgedUser(t) \in Users
  <2>1. PurgedUser(t) # None
    BY <1>3, SessionAssumption
  <2>2. QueueGrows(t, Erase("purge", PurgedUser(t))) /\ revoked' = revoked \union {PurgedUser(t)}
    BY <2>1 DEF OnClear, QueueGrows
  <2>3. QED
    BY <1>3, <2>2 DEF OnClear, CacheTypes
<1>4. QED
  BY <1>1, <1>2, <1>3 DEF MaybeUser

LEMMA ToggleFacts ==
    ASSUME TypeOK, CacheTypes, NEW t \in Tabs, Toggle(t)
    PROVE  /\ page[t].up = "running" /\ UNCHANGED <<svars, store, mem, hydration, writes>>
           /\ enabled' = ~enabled /\ cache[t].user \in MaybeUser /\ cache[t].life \in Nat
           /\ cache'[t].user = cache[t].user /\ cache'[t].life = cache[t].life + 1
           /\ ~enabled => /\ ops' = ops /\ revoked' = revoked \ Subscribers /\ emptied'[t] = "no"
                          /\ ~cache[t].sub.on /\ cache[t].user = None => ~cache'[t].sub.on
                          /\ ~cache[t].sub.on /\ cache[t].user # None
                               => cache'[t].sub = [on |-> TRUE, user |-> cache[t].user,
                                                   life |-> cache[t].life + 1]
           /\ enabled => /\ ~cache'[t].sub.on /\ emptied' = emptied
                         /\ \/ cache[t].user = None /\ ops' = ops /\ revoked' = revoked
                            \/ /\ cache[t].user \in Users /\ revoked' = revoked \union {cache[t].user}
                               /\ QueueGrows(t, Erase("optout", cache[t].user))
<1>0. cache[t] \in CacheRecords /\ cache[t].user \in MaybeUser /\ cache[t].life \in Nat
      /\ cache \in [Tabs -> CacheRecords]
  BY DEF CacheTypes, CacheRecords
<1>1. PICK l \in Nat : l = cache[t].life + 1
  BY <1>0
<1>2. PICK c : c = [cache[t] EXCEPT !.life = l]
  OBVIOUS
<1>3. c \in CacheRecords /\ c.user = cache[t].user /\ c.life = l /\ c.sub = cache[t].sub
  BY <1>0, <1>2 DEF CacheRecords
<1>4. CASE ~enabled
  <2>1. cache'[t] = Started(c) /\ emptied'[t] = "no" /\ ops' = ops
        /\ revoked' = revoked \ Subscribers
    BY <1>0, <1>1, <1>2, <1>4 DEF Toggle, CacheTypes
  <2>2. /\ cache'[t].user = cache[t].user /\ cache'[t].life = l
        /\ ~cache[t].sub.on /\ cache[t].user = None => ~cache'[t].sub.on
        /\ ~cache[t].sub.on /\ cache[t].user # None
             => cache'[t].sub = [on |-> TRUE, user |-> cache[t].user, life |-> l]
    BY <1>3, <2>1, StartedFacts
  <2>3. QED
    BY <1>0, <1>1, <1>4, <2>1, <2>2 DEF Toggle
<1>5. CASE enabled
  <2>1. cache'[t] = Stopped(c) /\ emptied' = emptied
    BY <1>0, <1>1, <1>2, <1>5 DEF Toggle
  <2>2. cache'[t].user = cache[t].user /\ cache'[t].life = l /\ ~cache'[t].sub.on
    BY <1>3, <2>1, StoppedFacts
  <2>3. CASE cache[t].user = None
    <3>1. ops' = ops /\ revoked' = revoked
      BY <1>5, <2>3 DEF Toggle, CacheTypes
    <3>2. QED
      BY <1>0, <1>1, <1>5, <2>1, <2>2, <2>3, <3>1 DEF Toggle
  <2>4. CASE cache[t].user \in Users
    <3>1. cache[t].user # None
      BY <2>4, SessionAssumption
    <3>2. QueueGrows(t, Erase("optout", cache[t].user)) /\ revoked' = revoked \union {cache[t].user}
      BY <1>5, <3>1 DEF Toggle, QueueGrows
    <3>3. QED
      BY <1>0, <1>1, <1>5, <2>1, <2>2, <2>4, <3>2 DEF Toggle
  <2>5. QED
    BY <1>0, <2>3, <2>4 DEF MaybeUser
<1>6. QED
  BY <1>4, <1>5

LEMMA ClearDataFacts ==
    ASSUME TypeOK, CacheTypes, NEW t \in Tabs, ClearData(t)
    PROVE  /\ page[t].up = "running" /\ emptied'[t] = "ordered"
           /\ UNCHANGED <<svars, enabled, store, mem, hydration, writes, revoked>>
           /\ cache'[t] = Stopped(cache[t])
           /\ ops' = ops \/ (hint \in Users /\ QueueGrows(t, Erase("clear", hint)))
<1>1. hint \in MaybeUser
  BY Types
<1>2. ops' = ops \/ (hint # None /\ QueueGrows(t, Erase("clear", hint)))
  BY DEF ClearData, QueueGrows, CacheTypes
<1>3. QED
  BY <1>1, <1>2 DEF ClearData, CacheTypes, MaybeUser

LEMMA ShapeStep ==
    ASSUME TypeOK, TypeOK', CacheTypes, NEW t \in Tabs, TabInv(t), Filled(t), QueueInv(t),
           ShapeInv(t), CacheStep(t)
    PROVE  ShapeInv(t)'
<1>0. /\ cache[t] \in CacheRecords /\ cache[t].life \in Nat /\ hydration[t].life \in Nat
      /\ page[t].gen \in Nat /\ call[t].gen \in Nat /\ page'[t].gen \in Nat
      /\ hint \in MaybeUser
  BY Types, TypesAfter, GenFacts
     DEF CacheTypes, CacheRecords, HydrationRecords, PageRecords, CallRecords
\* A step of the session with the page still up and no later request.
<1>1. ASSUME CallKept(t), page[t].gen <= page'[t].gen
      PROVE  call'[t].stage # "none" => call'[t].gen <= page'[t].gen
  BY <1>0, <1>1 DEF CallKept, ShapeInv
\* A step that leaves the session as it is.
<1>2. ASSUME UNCHANGED svars, page[t].up # "closed", mem' = mem,
             hydration'[t] = hydration[t], cache'[t].user = cache[t].user,
             cache'[t].life \in Nat, cache[t].life <= cache'[t].life
      PROVE  ShapeInv(t)'
  BY <1>0, <1>2 DEF ShapeInv, svars
<1>3. CASE BootWithCache(t)
  BY <1>0, <1>3, BootFacts, FreshTypes DEF ShapeInv, TabInv, FreshCache
<1>4. CASE FinishBootWithCache(t)
  <2>1. cache'[t].user = hint
    BY <1>0, <1>4, FinishBootFacts, SubscribedFacts DEF CacheTypes
  <2>2. QED
    BY <1>4, <2>1, FinishBootFacts DEF ShapeInv
<1>5. CASE CloseWithCache(t)
  BY <1>5, CloseFacts DEF ShapeInv, Unloaded, NoHydration, NoCall
<1>6. CASE DoneWithCache(t)
  <2>1. page[t].up = "running" /\ UNCHANGED <<page, hint, cache, hydration>>
    BY <1>6 DEF DoneWithCache, Done, TabInv, device
  <2>2. call'[t].stage = "none"
    BY <1>6 DEF DoneWithCache, Done, NoCall, TypeOK
  <2>3. QED
    BY <2>1, <2>2 DEF ShapeInv
<1>7. CASE ClearingStep(t)
  <2>0. page[t].up # "closed"
    BY <1>7 DEF ClearingStep, SignOut, RefreshRefused, Rejected, TabInv
  <2>1. /\ page'[t].up = page[t].up /\ CallKept(t) /\ page[t].gen <= page'[t].gen
        /\ SessionCleared(t) => hint' = None
        /\ ~SessionCleared(t) => hint' = hint
    BY <1>0, <1>7, ClearingFacts DEF ClearingStep
  <2>2. CASE OnClear(t, PurgedUser(t)) /\ SessionCleared(t)
    <3>1. cache'[t].user = None /\ cache'[t].life = cache[t].life + 1
      BY <1>0, <2>2, OnClearFacts, TornDownFacts
    <3>2. hydration' = hydration /\ mem'[t] \in {{}, mem[t]}
      BY <2>2, OnClearFacts
    <3>3. QED
      BY <1>0, <1>1, <2>0, <2>1, <2>2, <3>1, <3>2 DEF ShapeInv
  <2>3. CASE UNCHANGED cvars /\ ~SessionCleared(t)
    BY <1>1, <2>0, <2>1, <2>3 DEF ShapeInv, cvars
  <2>4. QED
    BY <1>7, <2>2, <2>3 DEF ClearingStep
<1>8. CASE PlainStep(t)
  <2>1. page'[t].up = page[t].up /\ hint' = hint /\ page'[t].gen = page[t].gen /\ UNCHANGED cvars
    BY <1>8, PlainFacts DEF PlainStep
  <2>2. call'[t].stage # "none" => call'[t].gen <= page'[t].gen
    BY <1>0, <1>1, <1>8, <2>1, PlainFacts
  <2>3. QED
    BY <2>1, <2>2 DEF ShapeInv, cvars
<1>9. ASSUME NEW u \in Users, SignIn(t, u), OnAdopt(t, u) PROVE ShapeInv(t)'
  <2>1. cache'[t].user = u
    BY <1>0, <1>9, SignInFacts, SubscribedFacts DEF CacheTypes, MaybeUser
  <2>2. QED
    BY <1>0, <1>9, <2>1, SignInFacts DEF ShapeInv
<1>10. CASE StorageRuns(t)
  BY <1>0, <1>2, <1>10 DEF StorageRuns, ShapeInv
<1>11. CASE StorageFails(t)
  <2>1. cache'[t] \in {cache[t], Started(cache[t])}
    BY <1>11 DEF StorageFails, CacheTypes
  <2>2. cache'[t].user = cache[t].user /\ cache'[t].life = cache[t].life
    BY <1>0, <2>1, StartedFacts
  <2>3. /\ UNCHANGED <<svars, mem, hydration>> /\ page[t].up # "closed"
    BY <1>11 DEF StorageFails, ShapeInv
  <2>4. QED
    BY <1>0, <1>2, <2>2, <2>3
<1>12. CASE WriteFires(t)
  BY <1>0, <1>2, <1>12 DEF WriteFires, ShapeInv
<1>13. CASE HydrationReads(t)
  <2>1. /\ UNCHANGED <<svars, cache, mem>> /\ hydration[t].stage # "none"
    BY <1>13 DEF HydrationReads
  <2>2. PICK d : hydration' = [hydration EXCEPT ![t] = [hydration[t] EXCEPT !.stage = "read", !.data = d]]
    BY <1>13 DEF HydrationReads
  <2>3. hydration[t] \in HydrationRecords /\ hydration \in [Tabs -> HydrationRecords]
    BY DEF CacheTypes
  <2>4. hydration'[t].life = hydration[t].life
    BY <2>2, <2>3 DEF HydrationRecords
  <2>5. QED
    BY <2>1, <2>4 DEF ShapeInv, svars
<1>14. CASE HydrationEnds(t)
  <2>1. /\ UNCHANGED <<svars, cache>> /\ hydration[t].stage # "none" /\ hydration'[t].stage = "none"
    BY <1>14, FreshTypes DEF HydrationEnds, CacheTypes
  <2>2. QED
    BY <2>1 DEF ShapeInv, svars
<1>15. CASE Toggle(t)
  <2>1. /\ page[t].up = "running" /\ UNCHANGED <<svars, mem, hydration>>
        /\ cache'[t].user = cache[t].user /\ cache'[t].life = cache[t].life + 1
    BY <1>15, ToggleFacts
  <2>2. QED
    BY <1>0, <1>2, <2>1
<1>16. CASE ClearData(t)
  <2>1. cache'[t].user = cache[t].user /\ cache'[t].life = cache[t].life
    BY <1>0, <1>16, ClearDataFacts, StoppedFacts
  <2>2. QED
    BY <1>0, <1>2, <1>16, <2>1, ClearDataFacts
<1>17. QED
  BY <1>3, <1>4, <1>5, <1>6, <1>7, <1>8, <1>9, <1>10, <1>11, <1>12, <1>13, <1>14, <1>15, <1>16
     DEF CacheStep

-----------------------------------------------------------------------------
(* One tab: the subscription and the restore are those of the current user. *)

\* The failure of an erasure for the switch resumes persisting, any other failure
\* leaves the module state alone.
LEMMA FailFacts ==
    ASSUME TypeOK, CacheTypes, NEW t \in Tabs, StorageFails(t)
    PROVE  /\ QueueShrinks(t) /\ UNCHANGED <<svars, store, mem, hydration, writes, emptied>>
           /\ cache'[t].user = cache[t].user /\ cache'[t].life = cache[t].life
           /\ \/ /\ enabled' = enabled /\ cache'[t] = cache[t] /\ revoked' \subseteq revoked
                 /\ Head(ops[t]).op # "put" => Head(ops[t]).user \notin revoked'
              \/ /\ Head(ops[t]).op = "optout"
                 /\ enabled' = TRUE /\ cache'[t] = Started(cache[t])
                 /\ revoked' = revoked \ ({Head(ops[t]).user} \union Subscribers)
<1>1. cache[t] \in CacheRecords
  BY DEF CacheTypes
<1>2. \/ /\ enabled' = enabled /\ cache'[t] = cache[t] /\ revoked' \subseteq revoked
         /\ Head(ops[t]).op # "put" => Head(ops[t]).user \notin revoked'
      \/ /\ Head(ops[t]).op = "optout"
         /\ enabled' = TRUE /\ cache'[t] = Started(cache[t])
         /\ revoked' = revoked \ ({Head(ops[t]).user} \union Subscribers)
  BY DEF StorageFails, CacheTypes
<1>3. cache'[t].user = cache[t].user /\ cache'[t].life = cache[t].life
  BY <1>1, <1>2, StartedFacts
<1>4. QED
  BY <1>2, <1>3 DEF StorageFails, QueueShrinks

LEMMA SubStep ==
    ASSUME TypeOK, CacheTypes, NEW t \in Tabs, TabInv(t), ShapeInv(t), SubInv(t), CacheStep(t)
    PROVE  SubInv(t)'
<1>0. cache[t] \in CacheRecords /\ hint \in MaybeUser /\ enabled \in BOOLEAN
      /\ cache[t].life \in Nat
  BY Types DEF CacheTypes, CacheRecords
<1>1. ASSUME page'[t].up = page[t].up, cache'[t] = cache[t], enabled' = enabled,
             emptied'[t] = "no" => emptied[t] = "no"
      PROVE  SubInv(t)'
  BY <1>1 DEF SubInv
<1>2. CASE BootWithCache(t)
  BY <1>2, BootFacts, FreshTypes DEF SubInv, ShapeInv
<1>3. CASE FinishBootWithCache(t)
  BY <1>0, <1>3, FinishBootFacts, SubscribedFacts DEF SubInv
<1>4. CASE CloseWithCache(t)
  BY <1>4, CloseFacts, FreshTypes DEF SubInv, Unloaded
<1>5. CASE DoneWithCache(t) \/ PlainStep(t) \/ WriteFires(t) \/ HydrationReads(t) \/ HydrationEnds(t)
  <2>1. page'[t].up = page[t].up
    BY <1>5, PlainFacts DEF DoneWithCache, Done, WriteFires, HydrationReads, HydrationEnds, svars
  <2>2. UNCHANGED <<cache, enabled, emptied>>
    BY <1>5 DEF DoneWithCache, PlainStep, WriteFires, HydrationReads, HydrationEnds, cvars
  <2>3. QED
    BY <1>1, <2>1, <2>2
<1>6. CASE StorageRuns(t)
  <2>1. UNCHANGED <<cache, enabled, page>>
    BY <1>6 DEF StorageRuns, svars
  <2>2. emptied'[t] = "no" => emptied[t] = "no"
    BY <1>6 DEF StorageRuns, CacheTypes
  <2>3. QED
    BY <1>1, <2>1, <2>2
<1>7. CASE ClearingStep(t)
  <2>1. page'[t].up = page[t].up
    BY <1>7, ClearingFacts DEF ClearingStep
  <2>2. CASE OnClear(t, PurgedUser(t))
    BY <1>0, <2>1, <2>2, OnClearFacts, TornDownFacts DEF SubInv
  <2>3. CASE UNCHANGED cvars
    BY <1>1, <2>1, <2>3 DEF cvars
  <2>4. QED
    BY <1>7, <2>2, <2>3 DEF ClearingStep
<1>8. ASSUME NEW u \in Users, SignIn(t, u), OnAdopt(t, u) PROVE SubInv(t)'
  <2>1. u \in MaybeUser /\ cache'[t] = Subscribed(cache[t], u)
    BY <1>8, SignInFacts DEF MaybeUser
  <2>2. QED
    BY <1>0, <1>8, <2>1, SignInFacts, SubscribedFacts DEF SubInv
<1>9. CASE StorageFails(t)
  <2>1. page'[t].up = page[t].up /\ emptied' = emptied
    BY <1>9, FailFacts DEF svars
  <2>2. CASE enabled' = enabled /\ cache'[t] = cache[t]
    BY <1>1, <2>1, <2>2
  <2>3. CASE enabled' = TRUE /\ cache'[t] = Started(cache[t])
    <3>1. CASE cache[t].sub.on \/ cache[t].user = None
      <4>1. cache'[t] = cache[t]
        BY <1>0, <2>3, <3>1, StartedFacts
      <4>2. QED
        BY <2>1, <2>3, <3>1, <4>1 DEF SubInv
    <3>2. CASE ~cache[t].sub.on /\ cache[t].user # None
      <4>1. page[t].up = "running"
        <5>1. page[t].up \in {"closed", "booting", "running"}
          BY Types DEF PageRecords
        <5>2. FreshCache.user = None
          BY DEF FreshCache
        <5>3. QED
          BY <3>2, <5>1, <5>2 DEF ShapeInv
      <4>2. /\ cache'[t].sub = [on |-> TRUE, user |-> cache[t].user, life |-> cache[t].life]
            /\ cache'[t].user = cache[t].user /\ cache'[t].life = cache[t].life
        BY <1>0, <2>3, <3>2, StartedFacts
      <4>3. QED
        BY <2>1, <2>3, <3>2, <4>1, <4>2 DEF SubInv
    <3>3. QED
      BY <3>1, <3>2
  <2>4. QED
    BY <1>9, <2>2, <2>3, FailFacts
<1>10. CASE Toggle(t)
  <2>1. page'[t].up = "running" /\ enabled' = ~enabled
    BY <1>10, ToggleFacts DEF svars
  <2>2. CASE enabled
    BY <1>10, <2>1, <2>2, ToggleFacts DEF SubInv
  <2>3. CASE ~enabled
    <3>1. ~cache[t].sub.on
      BY <2>3 DEF SubInv
    <3>2. /\ cache[t].user = None => ~cache'[t].sub.on
          /\ cache[t].user # None => cache'[t].sub = [on |-> TRUE, user |-> cache[t].user,
                                                      life |-> cache[t].life + 1]
      BY <1>10, <2>3, <3>1, ToggleFacts
    <3>3. cache'[t].user = cache[t].user /\ cache'[t].life = cache[t].life + 1
      BY <1>10, ToggleFacts
    <3>4. CASE cache[t].user = None
      BY <3>2, <3>3, <3>4 DEF SubInv
    <3>5. CASE cache[t].user # None
      <4>1. cache'[t].sub.on /\ cache'[t].sub.user = cache'[t].user
        BY <3>2, <3>3, <3>5
      <4>2. cache'[t].sub.life = cache'[t].life
        BY <3>2, <3>3, <3>5
      <4>3. QED
        BY <2>1, <2>3, <3>3, <3>5, <4>1, <4>2 DEF SubInv
    <3>6. QED
      BY <3>4, <3>5
  <2>4. QED
    BY <1>0, <2>2, <2>3
<1>11. CASE ClearData(t)
  BY <1>0, <1>11, ClearDataFacts, StoppedFacts DEF SubInv, svars
<1>12. QED
  BY <1>2, <1>3, <1>4, <1>5, <1>6, <1>7, <1>8, <1>9, <1>10, <1>11 DEF CacheStep

LEMMA HydrationStep ==
    ASSUME TypeOK, CacheTypes, NEW t \in Tabs, ShapeInv(t), HydrationInv(t), CacheStep(t)
    PROVE  HydrationInv(t)'
<1>0. /\ cache[t] \in CacheRecords /\ cache[t].life \in Nat /\ hydration[t].life \in Nat
      /\ enabled \in BOOLEAN
  BY DEF CacheTypes, CacheRecords, HydrationRecords
<1>1. CASE BootWithCache(t)
  BY <1>1, BootFacts DEF HydrationInv, ShapeInv
<1>2. CASE FinishBootWithCache(t)
  BY <1>2, FinishBootFacts DEF HydrationInv
<1>3. CASE CloseWithCache(t)
  BY <1>3, CloseFacts, FreshTypes DEF HydrationInv
<1>4. CASE PlainStep(t)
  <2>1. hint' = hint /\ UNCHANGED cvars
    BY <1>4 DEF PlainStep, Online, RefreshFails, RefreshHeaders, RefreshBody, LogoutAnswered,
                LogoutFails, Send, CallRefused, device
  <2>2. QED
    BY <2>1 DEF HydrationInv, cvars
<1>5. CASE DoneWithCache(t) \/ StorageRuns(t) \/ WriteFires(t)
  <2>1. UNCHANGED <<hint, enabled, cache, hydration>>
    BY <1>5 DEF DoneWithCache, Done, StorageRuns, WriteFires, device, svars
  <2>2. QED
    BY <2>1 DEF HydrationInv
<1>6. CASE ClearingStep(t)
  <2>1. CASE OnClear(t, PurgedUser(t))
    <3>1. hydration' = hydration /\ cache'[t].life = cache[t].life + 1
      BY <1>0, <2>1, OnClearFacts, TornDownFacts
    <3>2. QED
      BY <1>0, <3>1 DEF HydrationInv, ShapeInv
  <2>2. CASE UNCHANGED cvars /\ ~SessionCleared(t)
    BY <1>6, <2>2, ClearingFacts DEF ClearingStep, HydrationInv, cvars
  <2>3. QED
    BY <1>6, <2>1, <2>2 DEF ClearingStep
<1>7. ASSUME page[t].up = "running", hydration' = hydration PROVE HydrationInv(t)'
  BY <1>7 DEF HydrationInv, ShapeInv
<1>8. ASSUME NEW u \in Users, SignIn(t, u), OnAdopt(t, u) PROVE HydrationInv(t)'
  BY <1>7, <1>8, SignInFacts
<1>9. CASE Toggle(t)
  BY <1>7, <1>9, ToggleFacts
<1>10. CASE ClearData(t)
  BY <1>7, <1>10, ClearDataFacts
<1>11. CASE StorageFails(t)
  <2>1. hint' = hint /\ hydration' = hydration /\ cache'[t].life = cache[t].life
        /\ (enabled => enabled')
    BY <1>11, FailFacts DEF svars
  <2>2. QED
    BY <2>1 DEF HydrationInv
<1>12. CASE HydrationReads(t)
  <2>1. PICK d : hydration' = [hydration EXCEPT ![t] = [hydration[t] EXCEPT !.stage = "read", !.data = d]]
    BY <1>12 DEF HydrationReads
  <2>2. hydration[t] \in HydrationRecords /\ hydration \in [Tabs -> HydrationRecords]
    BY DEF CacheTypes
  <2>3. hydration'[t].life = hydration[t].life /\ hydration'[t].user = hydration[t].user
    BY <2>1, <2>2 DEF HydrationRecords
  <2>4. UNCHANGED <<svars, enabled, cache>> /\ hydration[t].stage # "none"
    BY <1>12 DEF HydrationReads
  <2>5. QED
    BY <2>3, <2>4 DEF HydrationInv, svars
<1>13. CASE HydrationEnds(t)
  BY <1>13, FreshTypes DEF HydrationEnds, HydrationInv, CacheTypes
<1>14. QED
  BY <1>1, <1>2, <1>3, <1>4, <1>5, <1>6, <1>8, <1>9, <1>10, <1>11, <1>12, <1>13 DEF CacheStep

-----------------------------------------------------------------------------
(* One tab: data ordered off the device stays off it. *)

LEMMA UnstoredGrown ==
    ASSUME CacheTypes, NEW t \in Tabs, NEW u, NEW e \in OpRecords, QueueGrows(t, e), store' = store,
           \/ Unstored(t, u) /\ ~(e.op = "put" /\ e.user = u)
           \/ e.op # "put" /\ e.user = u
    PROVE  Unstored(t, u)'
<1> DEFINE n == Len(ops[t]) + 1
<1>1. /\ n \in DOMAIN ops'[t] /\ ops'[t][n] = e /\ n \in Nat /\ n > 0
      /\ \A i \in DOMAIN ops[t] : i \in DOMAIN ops'[t] /\ ops'[t][i] = ops[t][i] /\ i < n
      /\ \A i \in DOMAIN ops'[t] : i \in DOMAIN ops[t] \/ i = n
  BY GrownQueue
<1>2. CASE e.op # "put" /\ e.user = u
  <2>1. \A i \in DOMAIN ops[t] \union {0} : Queued(ops'[t], u, i)
    BY <1>1, <1>2 DEF Queued
  <2>2. QED
    BY <1>1, <1>2, <2>1 DEF Unstored
<1>3. CASE Unstored(t, u) /\ ~(e.op = "put" /\ e.user = u)
  <2>1. \A i \in DOMAIN ops[t] \union {0} : Queued(ops[t], u, i) => Queued(ops'[t], u, i)
    BY <1>1 DEF Queued
  <2>2. ASSUME NEW i \in DOMAIN ops'[t], ops'[t][i].op = "put", ops'[t][i].user = u
        PROVE  Queued(ops'[t], u, i)
    <3>1. i \in DOMAIN ops[t] /\ ops'[t][i] = ops[t][i]
      BY <1>1, <1>3, <2>2
    <3>2. QED
      BY <1>3, <2>1, <2>2, <3>1 DEF Unstored
  <2>3. store'[u] # {} => Queued(ops'[t], u, 0)
    BY <1>3, <2>1 DEF Unstored
  <2>4. QED
    BY <2>2, <2>3 DEF Unstored
<1>4. QED
  BY <1>2, <1>3

LEMMA UnstoredShrunk ==
    ASSUME CacheTypes, NEW t \in Tabs, NEW u \in Users, QueueShrinks(t), QueueInv(t), Unstored(t, u),
           \/ store' = [store EXCEPT ![Head(ops[t]).user] = Head(ops[t]).data]
           \/ store' = store /\ ~(Head(ops[t]).op # "put" /\ Head(ops[t]).user = u)
    PROVE  Unstored(t, u)'
<1> DEFINE o == Head(ops[t])
<1>1. /\ o = ops[t][1] /\ 1 \in DOMAIN ops[t] /\ o \in OpRecords
      /\ \A i \in DOMAIN ops'[t] : i \in Nat /\ i + 1 \in DOMAIN ops[t] /\ ops'[t][i] = ops[t][i + 1]
      /\ \A i \in DOMAIN ops[t] \ {1} : i \in Nat /\ i - 1 \in DOMAIN ops'[t]
                                         /\ ops'[t][i - 1] = ops[t][i]
  BY ShrunkQueue
<1>2. ASSUME NEW i \in Nat, Queued(ops[t], u, i + 1)
      PROVE  Queued(ops'[t], u, i)
  <2>1. PICK k \in DOMAIN ops[t] : k > i + 1 /\ ops[t][k].op # "put" /\ ops[t][k].user = u
    BY <1>2 DEF Queued
  <2>2. k \in DOMAIN ops[t] \ {1} /\ k \in Nat
    <3>1. k # 1
      BY <2>1
    <3>2. QED
      BY <1>1, <3>1
  <2>3. k - 1 \in DOMAIN ops'[t] /\ ops'[t][k - 1] = ops[t][k] /\ k - 1 > i
    BY <1>1, <2>1, <2>2
  <2>4. QED
    BY <2>1, <2>3 DEF Queued
<1>3. ASSUME NEW i \in DOMAIN ops'[t], ops'[t][i].op = "put", ops'[t][i].user = u
      PROVE  Queued(ops'[t], u, i)
  <2>1. i \in Nat /\ Queued(ops[t], u, i + 1)
    BY <1>1, <1>3 DEF Unstored
  <2>2. QED
    BY <1>2, <2>1
<1>4. ASSUME store'[u] # {} PROVE Queued(ops'[t], u, 0)
  <2>1. CASE o.op = "put" /\ o.user = u
    <3>1. Queued(ops[t], u, 0 + 1)
      BY <1>1, <2>1 DEF Unstored
    <3>2. QED
      BY <1>2, <3>1
  <2>2. CASE ~(o.op = "put" /\ o.user = u)
    <3>1. ~(o.op # "put" /\ o.user = u)
      BY <1>1, <1>4 DEF QueueInv, CacheTypes
    <3>2. store'[u] = store[u]
      BY <2>2, <3>1 DEF CacheTypes
    <3>3. Queued(ops[t], u, 0)
      BY <1>4, <3>2 DEF Unstored
    <3>4. PICK k \in DOMAIN ops[t] : ops[t][k].op # "put" /\ ops[t][k].user = u
      BY <3>3 DEF Queued
    <3>5. k \in DOMAIN ops[t] \ {1}
      BY <1>1, <3>1, <3>4
    <3>6. k \in Nat /\ k # 1 /\ k - 1 \in DOMAIN ops'[t] /\ ops'[t][k - 1] = ops[t][k]
      BY <1>1, <3>5
    <3>7. k - 1 \in Nat /\ k - 1 > 0
      <4>1. k \in 1..Len(ops[t]) /\ Len(ops[t]) \in Nat
        BY <3>4 DEF CacheTypes
      <4>2. QED
        BY <3>6, <4>1
    <3>8. QED
      BY <3>4, <3>6, <3>7 DEF Queued
  <2>3. QED
    BY <2>1, <2>2
<1>5. QED
  BY <1>3, <1>4 DEF Unstored

\* Closing the page: either every queued operation ran or all of them are lost.
LEMMA UnstoredClosed ==
    ASSUME CacheTypes, NEW t \in Tabs, NEW u \in Users, QueueInv(t), Unstored(t, u),
           CloseWithCache(t), u \in revoked'
    PROVE  Unstored(t, u)'
<1>1. ops'[t] = <<>>
  BY DEF CloseWithCache, CacheTypes
<1>2. ASSUME ~ \E i \in DOMAIN ops[t] : ops[t][i].user = u PROVE store[u] = {}
  BY <1>2 DEF Unstored, Queued
<1>3. store'[u] = {}
  <2>1. CASE store' = AllRun(store, ops[t])
    <3>1. CASE ~ \E i \in DOMAIN ops[t] : ops[t][i].user = u
      BY <1>2, <2>1, <3>1 DEF AllRun
    <3>2. CASE \E i \in DOMAIN ops[t] : ops[t][i].user = u
      <4> DEFINE k == LastOn(ops[t], u)
      <4>1. /\ k \in DOMAIN ops[t] /\ ops[t][k].user = u
            /\ \A i \in DOMAIN ops[t] : ops[t][i].user = u => i <= k
        BY <3>2, LastOnFacts DEF CacheTypes
      <4>2. DOMAIN ops[t] \subseteq Nat
        BY DEF CacheTypes
      <4>3. ~Queued(ops[t], u, k)
        BY <4>1, <4>2 DEF Queued
      <4>4. ops[t][k].data = {}
        BY <4>1, <4>3 DEF Unstored, QueueInv
      <4>5. store'[u] = ops[t][k].data
        BY <2>1, <3>2 DEF AllRun
      <4>6. QED
        BY <4>4, <4>5
    <3>3. QED
      BY <3>1, <3>2
  <2>2. CASE revoked' = revoked \ {o.user : o \in ToSet(ops[t])} /\ UNCHANGED store
    <3>1. \A i \in DOMAIN ops[t] : ops[t][i] \in ToSet(ops[t])
      BY DEF ToSet
    <3>2. ~ \E i \in DOMAIN ops[t] : ops[t][i].user = u
      BY <2>2, <3>1
    <3>3. QED
      BY <1>2, <2>2, <3>2
  <2>3. QED
    BY <2>1, <2>2 DEF CloseWithCache
<1>4. QED
  BY <1>1, <1>3 DEF Unstored

LEMMA EraseStep ==
    ASSUME TypeOK, TypeOK', CacheTypes, NEW t \in Tabs, TabInv(t), Filled(t), QueueInv(t),
           ShapeInv(t), SubInv(t), SubInv(t)', EraseInv(t), CacheStep(t)
    PROVE  EraseInv(t)'
<1>0. /\ cache[t] \in CacheRecords /\ cache[t].life \in Nat /\ hint \in MaybeUser
      /\ enabled \in BOOLEAN /\ \A w \in writes[t] : w \in WriteRecords /\ w.life \in Nat
      /\ revoked \subseteq Users
  BY Types DEF CacheTypes, CacheRecords, WriteRecords
\* The lifecycle moves on: the writes that wait are of an earlier one.
<1>1. ASSUME writes'[t] = writes[t], cache'[t].life = cache[t].life + 1
      PROVE  /\ \A w \in writes'[t] : w.life <= cache'[t].life
             /\ \A w \in writes'[t] : w.life < cache'[t].life
  BY <1>0, <1>1 DEF EraseInv
<1>2. ASSUME writes'[t] = writes[t], cache'[t].life = cache[t].life, ~cache'[t].sub.on \/ cache'[t] = cache[t],
             NEW u \in revoked
      PROVE  Unwritten(t, u)'
  BY <1>2 DEF EraseInv, Unwritten
<1>3. ASSUME writes'[t] = writes[t], cache'[t].life = cache[t].life
      PROVE  \A w \in writes'[t] : w.life <= cache'[t].life
  BY <1>3 DEF EraseInv
<1>4. ASSUME ops'[t] = ops[t], store' = store, NEW u \in revoked PROVE Unstored(t, u)'
  BY <1>4 DEF EraseInv, Unstored
<1>5. ASSUME UNCHANGED <<enabled, store, cache, writes, ops, revoked, hint>> PROVE EraseInv(t)'
  BY <1>5 DEF EraseInv, Unwritten, Unstored
<1>6. ASSUME NEW u \in Users, NEW r \in Erasures
      PROVE  Erase(r, u) \in OpRecords /\ Erase(r, u).op # "put" /\ Erase(r, u).user = u
  BY OperationTypes DEF Erase, Erasures
<1>7. CASE BootWithCache(t)
  <2>1. CASE UNCHANGED <<cache, hydration>>
    BY <1>5, <1>7, <2>1, BootFacts
  <2>2. CASE cache'[t].life = 1 /\ ~cache'[t].sub.on
    <3>1. writes'[t] = {} /\ UNCHANGED <<enabled, store, ops, revoked, hint>>
      BY <1>7, BootFacts DEF ShapeInv
    <3>2. QED
      BY <1>4, <2>2, <3>1 DEF EraseInv, Unwritten
  <2>3. QED
    BY <1>7, <2>1, <2>2, BootFacts
<1>8. CASE FinishBootWithCache(t)
  <2>1. /\ cache'[t].life = cache[t].life + 1
        /\ cache'[t].sub.on => enabled /\ cache'[t].sub.user = hint
    BY <1>0, <1>8, FinishBootFacts, SubscribedFacts
  <2>2. /\ UNCHANGED <<enabled, store, writes, ops, hint>>
        /\ revoked' = IF enabled THEN revoked \ {hint} ELSE revoked
    BY <1>8, FinishBootFacts
  <2>3. \A w \in writes'[t] : w.life <= cache'[t].life /\ w.life < cache'[t].life
    BY <1>1, <2>1, <2>2
  <2>4. ASSUME NEW u \in revoked' PROVE Unwritten(t, u)' /\ Unstored(t, u)'
    BY <1>4, <2>1, <2>2, <2>3 DEF Unwritten
  <2>5. QED
    BY <2>2, <2>3, <2>4 DEF EraseInv
<1>9. CASE CloseWithCache(t)
  <2>1. /\ writes'[t] = {} /\ ~cache'[t].sub.on /\ UNCHANGED <<enabled, hint>>
        /\ revoked' \subseteq revoked
    BY <1>9, CloseFacts, FreshTypes DEF CloseWithCache
  <2>2. ASSUME NEW u \in revoked' PROVE Unstored(t, u)'
    BY <1>0, <1>9, <2>1, UnstoredClosed DEF EraseInv
  <2>3. QED
    BY <2>1, <2>2 DEF EraseInv, Unwritten
<1>10. CASE DoneWithCache(t)
  <2>1. UNCHANGED <<enabled, store, cache, ops, revoked, hint>>
    BY <1>10 DEF DoneWithCache, Done, device
  <2>2. PICK d : writes'[t] = Scheduled(t, d)
    BY <1>10 DEF DoneWithCache, CacheTypes
  <2>3. ASSUME NEW w \in writes'[t]
        PROVE  \/ w \in writes[t]
               \/ cache[t].sub.on /\ w.user = cache[t].sub.user /\ w.life = cache[t].life
    BY <2>2, <2>3 DEF Scheduled, SubInv
  <2>4. \A w \in writes'[t] : w.life <= cache'[t].life
    BY <1>0, <2>1, <2>3 DEF EraseInv
  <2>5. ASSUME NEW u \in revoked PROVE Unwritten(t, u)'
    BY <2>1, <2>3 DEF EraseInv, Unwritten
  <2>6. QED
    BY <1>4, <2>1, <2>4, <2>5 DEF EraseInv
<1>11. CASE ClearingStep(t)
  <2>1. CASE OnClear(t, PurgedUser(t)) /\ SessionCleared(t)
    <3>1. /\ cache'[t].life = cache[t].life + 1 /\ ~cache'[t].sub.on
          /\ UNCHANGED <<enabled, store, writes>>
      BY <1>0, <2>1, OnClearFacts, TornDownFacts
    <3>2. hint' = None /\ None \notin revoked'
      BY <1>0, <1>11, <2>1, ClearingFacts, OnClearFacts, SessionAssumption DEF ClearingStep
    <3>3. ASSUME NEW u \in revoked' PROVE Unwritten(t, u)'
      BY <1>1, <3>1 DEF Unwritten
    <3>4. ASSUME NEW u \in revoked' PROVE Unstored(t, u)'
      <4>1. CASE ops' = ops /\ revoked' = revoked
        BY <1>4, <3>1, <4>1
      <4>2. CASE /\ PurgedUser(t) \in Users /\ revoked' = revoked \union {PurgedUser(t)}
                 /\ QueueGrows(t, Erase("purge", PurgedUser(t)))
        <5>1. PICK e \in OpRecords : e = Erase("purge", PurgedUser(t)) /\ e.op # "put"
                                     /\ e.user = PurgedUser(t)
          BY <1>6, <4>2 DEF Erasures
        <5>2. u \in revoked => Unstored(t, u)
          BY DEF EraseInv
        <5>3. QED
          BY <3>1, <4>2, <5>1, <5>2, UnstoredGrown
      <4>3. QED
        BY <2>1, <4>1, <4>2, OnClearFacts
    <3>5. QED
      BY <1>1, <3>1, <3>2, <3>3, <3>4 DEF EraseInv
  <2>2. CASE UNCHANGED cvars /\ ~SessionCleared(t)
    <3>1. hint' = hint
      BY <1>11, <2>2, ClearingFacts DEF ClearingStep
    <3>2. QED
      BY <1>5, <2>2, <3>1 DEF cvars
  <2>3. QED
    BY <1>11, <2>1, <2>2 DEF ClearingStep
<1>12. CASE PlainStep(t)
  BY <1>5, <1>12, PlainFacts DEF PlainStep, cvars
<1>13. ASSUME NEW u \in Users, SignIn(t, u), OnAdopt(t, u) PROVE EraseInv(t)'
  <2>1. /\ cache'[t].life = cache[t].life + 1
        /\ cache'[t].sub.on => enabled /\ cache'[t].sub.user = u
    BY <1>0, <1>13, SignInFacts, SubscribedFacts DEF MaybeUser
  <2>2. /\ UNCHANGED <<enabled, store, writes, ops>> /\ hint' = u
        /\ revoked' = IF enabled THEN revoked \ {u} ELSE revoked
    BY <1>13, SignInFacts
  <2>3. \A w \in writes'[t] : w.life <= cache'[t].life /\ w.life < cache'[t].life
    BY <1>1, <2>1, <2>2
  <2>4. ASSUME NEW v \in revoked' PROVE Unwritten(t, v)' /\ Unstored(t, v)'
    BY <1>4, <2>1, <2>2, <2>3 DEF Unwritten
  <2>5. QED
    BY <2>2, <2>3, <2>4 DEF EraseInv
<1>14. CASE StorageRuns(t)
  <2>1. /\ UNCHANGED <<enabled, cache, writes, revoked, hint>> /\ QueueShrinks(t)
        /\ store' = [store EXCEPT ![Head(ops[t]).user] = Head(ops[t]).data]
    BY <1>14 DEF StorageRuns, QueueShrinks, svars
  <2>2. ASSUME NEW u \in revoked PROVE Unstored(t, u)'
    BY <1>0, <2>1, UnstoredShrunk DEF EraseInv
  <2>3. QED
    BY <1>2, <1>3, <2>1, <2>2 DEF EraseInv
<1>15. CASE StorageFails(t)
  <2>1. /\ QueueShrinks(t) /\ UNCHANGED <<store, writes, hint>> /\ cache'[t].life = cache[t].life
        /\ cache'[t].user = cache[t].user
        /\ revoked' \subseteq revoked
        /\ ~(Head(ops[t]).op # "put" /\ Head(ops[t]).user \in revoked')
    BY <1>15, FailFacts DEF svars
  <2>2. ASSUME NEW u \in revoked' PROVE Unstored(t, u)'
    BY <1>0, <2>1, UnstoredShrunk DEF EraseInv
  <2>3. CASE enabled' = enabled /\ cache'[t] = cache[t]
    BY <1>2, <1>3, <2>1, <2>2, <2>3 DEF EraseInv
  <2>4. CASE /\ Head(ops[t]).op = "optout" /\ enabled' = TRUE
             /\ revoked' = revoked \ ({Head(ops[t]).user} \union Subscribers)
    <3>1. cache[t].user \in Subscribers /\ page[t].up = "running"
      BY <1>15, <2>1, <2>4, ShrunkQueue DEF Subscribers, QueueInv
    <3>2. hint' \notin revoked'
      BY <2>1, <2>4, <3>1 DEF ShapeInv
    <3>3. ASSUME NEW u \in revoked' PROVE Unwritten(t, u)'
      <4>1. u # cache[t].user /\ u \in revoked
        BY <2>4, <3>1
      <4>2. cache'[t].sub.on => cache'[t].sub.user = cache[t].user
        BY <2>1 DEF SubInv
      <4>3. QED
        BY <2>1, <4>1, <4>2 DEF EraseInv, Unwritten
    <3>4. QED
      BY <1>3, <2>1, <2>2, <3>2, <3>3 DEF EraseInv
  <2>5. QED
    BY <1>15, <2>3, <2>4, FailFacts
<1>16. CASE WriteFires(t)
  <2>1. UNCHANGED <<enabled, store, cache, revoked, hint>>
    BY <1>16 DEF WriteFires, svars
  <2>2. PICK w \in writes[t] : /\ writes'[t] = writes[t] \ {w}
                               /\ \/ CanWrite(t, w) /\ QueueGrows(t, Put(w.user, w.data))
                                  \/ ops' = ops
    BY <1>16 DEF WriteFires, QueueGrows, CacheTypes
  <2>3. ASSUME NEW u \in revoked PROVE Unwritten(t, u)' /\ Unstored(t, u)'
    <3>1. Unwritten(t, u)'
      BY <2>1, <2>2 DEF EraseInv, Unwritten
    <3>2. CASE ops' = ops
      BY <1>4, <2>1, <3>1, <3>2
    <3>3. CASE CanWrite(t, w) /\ QueueGrows(t, Put(w.user, w.data))
      <4>1. w.user # u
        BY <1>0, <3>3 DEF CanWrite, EraseInv, Unwritten
      <4>2. w.user \in Users /\ w.data \in SUBSET Users
        BY <1>0 DEF WriteRecords
      <4>3. PICK e \in OpRecords : e = Put(w.user, w.data) /\ e.user = w.user
        BY <4>2, OperationTypes DEF Put
      <4>4. Unstored(t, u)
        BY DEF EraseInv
      <4>5. Unstored(t, u)'
        BY <2>1, <3>3, <4>1, <4>3, <4>4, UnstoredGrown
      <4>6. QED
        BY <3>1, <4>5
    <3>4. QED
      BY <2>2, <3>2, <3>3
  <2>4. QED
    BY <2>1, <2>2, <2>3 DEF EraseInv
<1>17. CASE HydrationReads(t) \/ HydrationEnds(t)
  BY <1>5, <1>17 DEF HydrationReads, HydrationEnds, svars
<1>18. CASE Toggle(t)
  <2>1. /\ UNCHANGED <<store, writes, hint>> /\ cache'[t].life = cache[t].life + 1
        /\ enabled' = ~enabled /\ cache'[t].user = cache[t].user
        /\ cache[t].user = hint
    BY <1>18, ToggleFacts DEF svars, ShapeInv
  <2>2. \A w \in writes'[t] : w.life <= cache'[t].life /\ w.life < cache'[t].life
    BY <1>1, <2>1
  <2>3. CASE ~enabled
    <3>1. ops' = ops /\ revoked' = revoked \ Subscribers /\ cache[t].user \in Subscribers
      BY <1>18, <2>3, ToggleFacts DEF Subscribers
    <3>2. cache'[t].sub.on => cache'[t].sub.user = cache[t].user
      BY <2>1 DEF SubInv
    <3>3. ASSUME NEW u \in revoked' PROVE Unwritten(t, u)' /\ Unstored(t, u)'
      BY <1>4, <2>1, <2>2, <3>1, <3>2 DEF Unwritten
    <3>4. QED
      BY <2>1, <2>2, <3>1, <3>3 DEF EraseInv
  <2>4. CASE enabled
    <3>1. ~cache'[t].sub.on
      BY <1>18, <2>4, ToggleFacts
    <3>2. ASSUME NEW u \in revoked' PROVE Unwritten(t, u)'
      BY <2>2, <3>1 DEF Unwritten
    <3>3. ASSUME NEW u \in revoked' PROVE Unstored(t, u)'
      <4>1. CASE ops' = ops /\ revoked' = revoked
        BY <1>4, <2>1, <4>1
      <4>2. CASE /\ cache[t].user \in Users /\ revoked' = revoked \union {cache[t].user}
                 /\ QueueGrows(t, Erase("optout", cache[t].user))
        <5>1. PICK e \in OpRecords : e = Erase("optout", cache[t].user) /\ e.op # "put"
                                     /\ e.user = cache[t].user
          BY <1>6, <4>2 DEF Erasures
        <5>2. u \in revoked => Unstored(t, u)
          BY DEF EraseInv
        <5>3. QED
          BY <2>1, <4>2, <5>1, <5>2, UnstoredGrown
      <4>3. QED
        BY <1>18, <2>4, <4>1, <4>2, ToggleFacts
    <3>4. QED
      BY <2>1, <2>2, <2>4, <3>2, <3>3 DEF EraseInv
  <2>5. QED
    BY <1>0, <2>3, <2>4
<1>19. CASE ClearData(t)
  <2>1. /\ UNCHANGED <<enabled, store, writes, revoked, hint>> /\ cache'[t].life = cache[t].life
        /\ ~cache'[t].sub.on
        /\ ops' = ops \/ (hint \in Users /\ QueueGrows(t, Erase("clear", hint)))
    BY <1>0, <1>19, ClearDataFacts, StoppedFacts DEF svars
  <2>2. ASSUME NEW u \in revoked PROVE Unstored(t, u)'
    <3>1. CASE ops' = ops
      BY <1>4, <2>1, <3>1
    <3>2. CASE hint \in Users /\ QueueGrows(t, Erase("clear", hint))
      <4>1. PICK e \in OpRecords : e = Erase("clear", hint) /\ e.op # "put"
        BY <1>6, <3>2 DEF Erasures
      <4>2. Unstored(t, u)
        BY DEF EraseInv
      <4>3. QED
        BY <2>1, <3>2, <4>1, <4>2, UnstoredGrown
    <3>3. QED
      BY <2>1, <3>1, <3>2
  <2>3. QED
    BY <1>2, <1>3, <2>1, <2>2 DEF EraseInv
<1>20. QED
  BY <1>7, <1>8, <1>9, <1>10, <1>11, <1>12, <1>13, <1>14, <1>15, <1>16, <1>17, <1>18, <1>19
     DEF CacheStep

-----------------------------------------------------------------------------
(* One tab: what it holds, writes and restores is of one user. *)

LEMMA HeldStep ==
    ASSUME TypeOK, CacheTypes, NEW t \in Tabs, TabInv(t), Filled(t), ShapeInv(t),
           HydrationInv(t), OwnData(t), NEW u \in MaybeUser, HeldBy(t, u), CacheStep(t), ~overtaken'
    PROVE  \E v \in MaybeUser : HeldBy(t, v)'
<1>0. /\ cache[t] \in CacheRecords /\ hint \in MaybeUser /\ enabled \in BOOLEAN
      /\ page[t].gen \in Nat /\ refresh[t].gen \in Nat /\ call[t].gen \in Nat
  BY Types, GenFacts DEF CacheTypes, PageRecords, RefreshRecords, CallRecords
<1>1. \A v \in {cookie, hint, page[t].token, cache[t].user} : v = u \/ v = None
  BY DEF HeldBy
\* A step that leaves the session alone and does not fill the screen.
<1>2. ASSUME UNCHANGED svars, cache'[t].user = cache[t].user, mem'[t] \subseteq {u}
      PROVE  HeldBy(t, u)'
  BY <1>2 DEF HeldBy, svars
<1>3. CASE BootWithCache(t)
  <2>1. /\ cookie' = cookie /\ hint' = hint /\ page'[t].token = None /\ mem'[t] = mem[t]
        /\ cache'[t].user \in {cache[t].user, None} /\ call' = call /\ call[t].stage = "none"
        /\ refresh[t].stage = "none"
        /\ refresh'[t] = refresh[t] \/ refresh'[t].sub = cookie
    BY <1>3, BootFacts DEF TabInv
  <2>2. HeldBy(t, u)'
    BY <1>1, <2>1 DEF HeldBy
  <2>3. QED
    BY <2>2
<1>4. CASE FinishBootWithCache(t)
  <2>1. cache'[t].user = hint
    BY <1>0, <1>4, FinishBootFacts, SubscribedFacts
  <2>2. HeldBy(t, u)'
    BY <1>1, <1>4, <2>1, FinishBootFacts DEF HeldBy
  <2>3. QED
    BY <2>2
<1>5. CASE CloseWithCache(t)
  <2>1. HeldBy(t, u)'
    BY <1>1, <1>5, CloseFacts DEF HeldBy, Unloaded, NoRefresh, NoCall, FreshCache
  <2>2. QED
    BY <2>1
<1>6. CASE DoneWithCache(t)
  <2>1. UNCHANGED <<cookie, hint, page, refresh, cache>>
    BY <1>6 DEF DoneWithCache, Done, device
  <2>2. call'[t].stage = "none"
    BY <1>6 DEF DoneWithCache, Done, NoCall, TypeOK
  <2>3. mem'[t] \subseteq {u}
    <3>1. mem'[t] = IF call[t].gen = page[t].gen THEN mem[t] \union {call[t].user} ELSE mem[t]
      BY <1>6 DEF DoneWithCache, CacheTypes
    <3>2. call[t].gen = page[t].gen => call[t].user = u
      BY <1>6 DEF DoneWithCache, Done, HeldBy
    <3>3. QED
      BY <3>1, <3>2 DEF HeldBy
  <2>4. HeldBy(t, u)'
    BY <2>1, <2>2, <2>3 DEF HeldBy
  <2>5. QED
    BY <2>4
<1>7. CASE ClearingStep(t)
  <2>1. /\ cookie' = cookie /\ refresh'[t] \in {refresh[t], NoRefresh} /\ CallKept(t)
        /\ SessionCleared(t) => hint' = None /\ page'[t].token = None
                                /\ page'[t].gen = page[t].gen + 1
        /\ ~SessionCleared(t) => hint' = hint /\ page'[t].gen = page[t].gen
                                 /\ page'[t].token = page[t].token
    BY <1>7, ClearingFacts DEF ClearingStep
  <2>2. NoRefresh.stage = "none"
    BY DEF NoRefresh
  <2>3. CASE SessionCleared(t) /\ OnClear(t, PurgedUser(t))
    <3>1. cache'[t].user = None /\ mem'[t] \in {{}, mem[t]}
      BY <1>0, <2>3, OnClearFacts, TornDownFacts
    <3>2. refresh'[t].stage # "none" => refresh'[t].gen # page'[t].gen
      BY <1>0, <2>1, <2>2, <2>3 DEF TabInv
    <3>3. call'[t].stage # "none" => call'[t].gen # page'[t].gen
      BY <1>0, <2>1, <2>3 DEF CallKept, ShapeInv
    <3>4. mem'[t] \subseteq {u}
      BY <3>1 DEF HeldBy
    <3>5. HeldBy(t, u)'
      BY <1>1, <2>1, <2>3, <3>1, <3>2, <3>3, <3>4 DEF HeldBy
    <3>6. QED
      BY <3>5
  <2>4. CASE ~SessionCleared(t) /\ UNCHANGED cvars
    <3>1. call'[t].stage \in {"sent", "retried"} /\ call'[t].gen = page'[t].gen
             => call'[t].user = u
      BY <1>1, <2>1, <2>4 DEF CallKept, HeldBy
    <3>2. HeldBy(t, u)'
      BY <1>1, <2>1, <2>2, <2>4, <3>1 DEF HeldBy, cvars
    <3>3. QED
      BY <3>2
  <2>5. QED
    BY <1>7, <2>3, <2>4 DEF ClearingStep
<1>8. CASE PlainStep(t)
  <2>1. /\ hint' = hint /\ page'[t].gen = page[t].gen /\ cookie' \in {cookie, None}
        /\ UNCHANGED <<cache, mem>>
    BY <1>8, PlainFacts DEF PlainStep, cvars
  <2>2. page'[t].token \in {u, None}
    BY <1>1, <1>8, PlainFacts DEF HeldBy
  <2>3. refresh'[t].stage # "none" /\ refresh'[t].gen = page'[t].gen => refresh'[t].sub \in {u, None}
    BY <1>1, <1>8, <2>1, PlainFacts DEF HeldBy
  <2>4. call'[t].stage \in {"sent", "retried"} /\ call'[t].gen = page'[t].gen => call'[t].user = u
    BY <1>1, <1>8, <2>1, <2>2, PlainFacts DEF CallKept, HeldBy
  <2>5. HeldBy(t, u)'
    BY <1>1, <2>1, <2>2, <2>3, <2>4 DEF HeldBy
  <2>6. QED
    BY <2>5
<1>9. ASSUME NEW v \in Users, SignIn(t, v), OnAdopt(t, v) PROVE HeldBy(t, v)'
  <2>1. cache'[t].user = v
    BY <1>0, <1>9, SignInFacts, SubscribedFacts DEF MaybeUser
  <2>2. refresh'[t].stage # "none" => refresh'[t].gen # page'[t].gen
    BY <1>0, <1>9, SignInFacts DEF TabInv
  <2>3. call'[t].stage # "none" => call'[t].gen # page'[t].gen
    BY <1>0, <1>9, SignInFacts DEF ShapeInv
  <2>4. QED
    BY <1>9, <2>1, <2>2, <2>3, SignInFacts DEF HeldBy
<1>10. CASE StorageRuns(t) \/ WriteFires(t) \/ HydrationReads(t)
  <2>1. UNCHANGED <<svars, cache, mem>>
    BY <1>10 DEF StorageRuns, WriteFires, HydrationReads
  <2>2. QED
    BY <1>2, <2>1 DEF HeldBy
<1>11. CASE StorageFails(t) \/ Toggle(t) \/ ClearData(t)
  <2>1. UNCHANGED <<svars, mem>> /\ cache'[t].user = cache[t].user
    BY <1>0, <1>11, FailFacts, ToggleFacts, ClearDataFacts, StoppedFacts
  <2>2. QED
    BY <1>2, <2>1 DEF HeldBy
<1>12. CASE HydrationEnds(t)
  <2>1. UNCHANGED <<svars, cache>>
    BY <1>12 DEF HydrationEnds
  <2>2. mem'[t] \subseteq {u}
    <3>1. CASE mem'[t] = mem[t]
      BY <3>1 DEF HeldBy
    <3>2. CASE hydration[t].life = cache[t].life /\ mem'[t] = mem[t] \union hydration[t].data
      <4>1. hydration[t].user = hint /\ hydration[t].user # None
        BY <1>12, <3>2, SessionAssumption DEF HydrationEnds, HydrationInv, Filled
      <4>2. hydration[t].data \subseteq {u}
        BY <1>1, <4>1 DEF OwnData
      <4>3. QED
        BY <3>2, <4>2 DEF HeldBy
    <3>3. QED
      BY <1>12, <3>1, <3>2 DEF HydrationEnds, CacheTypes
  <2>3. QED
    BY <1>2, <2>1, <2>2
<1>13. QED
  BY <1>3, <1>4, <1>5, <1>6, <1>7, <1>8, <1>9, <1>10, <1>11, <1>12 DEF CacheStep, MaybeUser

LEMMA OwnDataStep ==
    ASSUME TypeOK, CacheTypes, NEW t \in Tabs, TabInv(t), Filled(t), QueueInv(t), SubInv(t),
           OwnData(t), NEW u \in MaybeUser, HeldBy(t, u), CacheStep(t)
    PROVE  OwnData(t)'
<1>0. /\ hint \in MaybeUser
      /\ \A w \in writes[t] : w.user \in Users /\ w.data \in SUBSET Users
  BY Types DEF CacheTypes, WriteRecords
<1>1. ASSUME UNCHANGED <<store, hydration>>, writes'[t] \subseteq writes[t],
             \/ ops'[t] = ops[t]
             \/ \E e \in OpRecords : QueueGrows(t, e) /\ e.data \subseteq {e.user}
      PROVE  OwnData(t)'
  <2>1. \A i \in DOMAIN ops'[t] : ops'[t][i].data \subseteq {ops'[t][i].user}
    <3>1. CASE ops'[t] = ops[t]
      BY <3>1 DEF OwnData
    <3>2. ASSUME NEW e \in OpRecords, QueueGrows(t, e), e.data \subseteq {e.user}
          PROVE  \A i \in DOMAIN ops'[t] : ops'[t][i].data \subseteq {ops'[t][i].user}
      BY <3>2, GrownQueue DEF OwnData
    <3>3. QED
      BY <1>1, <3>1, <3>2
  <2>2. QED
    BY <1>1, <2>1 DEF OwnData
<1>2. ASSUME NEW v \in Users, NEW r \in Erasures, QueueGrows(t, Erase(r, v))
      PROVE  \E e \in OpRecords : QueueGrows(t, e) /\ e.data \subseteq {e.user}
  <2>1. Erase(r, v) \in OpRecords /\ Erase(r, v).data = {}
    BY OperationTypes DEF Erase
  <2>2. QED
    BY <1>2, <2>1
<1>3. ASSUME UNCHANGED cvars PROVE OwnData(t)'
  BY <1>3 DEF OwnData, cvars
<1>4. CASE BootWithCache(t)
  <2>1. UNCHANGED <<store, writes, ops>> /\ (hydration'[t].data = {} \/ hydration' = hydration)
    BY <1>4, BootFacts
  <2>2. QED
    BY <2>1 DEF OwnData
<1>5. CASE FinishBootWithCache(t)
  BY <1>1, <1>5, FinishBootFacts
<1>6. CASE CloseWithCache(t)
  <2>1. writes'[t] = {} /\ ops'[t] = <<>> /\ hydration'[t].data = {}
    BY <1>6, CloseFacts DEF NoHydration
  <2>2. ASSUME NEW v \in Users PROVE store'[v] \subseteq {v}
    <3>1. CASE store' = store
      BY <3>1 DEF OwnData
    <3>2. CASE store' = AllRun(store, ops[t])
      <4>1. CASE \E i \in DOMAIN ops[t] : ops[t][i].user = v
        <5> DEFINE k == LastOn(ops[t], v)
        <5>1. k \in DOMAIN ops[t] /\ ops[t][k].user = v
          BY <4>1, LastOnFacts DEF CacheTypes
        <5>2. store'[v] = ops[t][k].data
          BY <3>2, <4>1 DEF AllRun
        <5>3. QED
          BY <5>1, <5>2 DEF OwnData
      <4>2. CASE ~ \E i \in DOMAIN ops[t] : ops[t][i].user = v
        <5>1. store'[v] = store[v]
          BY <3>2, <4>2 DEF AllRun
        <5>2. QED
          BY <5>1 DEF OwnData
      <4>3. QED
        BY <4>1, <4>2
    <3>3. QED
      BY <1>6, <3>1, <3>2 DEF CloseWithCache
  <2>3. QED
    BY <2>1, <2>2 DEF OwnData
<1>7. CASE DoneWithCache(t)
  <2>1. PICK d \in SUBSET Users : writes'[t] = Scheduled(t, d) /\ d \subseteq {u}
    <3>1. call[t].gen = page[t].gen => call[t].user = u /\ u \in Users
      BY <1>7 DEF DoneWithCache, Done, HeldBy, Filled
    <3>2. PICK d : /\ d = IF call[t].gen = page[t].gen THEN mem[t] \union {call[t].user} ELSE mem[t]
                   /\ writes'[t] = Scheduled(t, d)
      BY <1>7 DEF DoneWithCache, CacheTypes
    <3>3. d \subseteq {u} /\ d \in SUBSET Users
      BY <3>1, <3>2 DEF HeldBy, CacheTypes
    <3>4. QED
      BY <3>2, <3>3
  <2>2. ASSUME NEW w \in writes'[t] PROVE w.data \subseteq {w.user}
    <3>1. CASE w \in writes[t]
      BY <3>1 DEF OwnData
    <3>2. CASE cache[t].sub.on /\ w.user = cache[t].sub.user /\ w.data = d
      BY <2>1, <3>2 DEF SubInv, HeldBy
    <3>3. QED
      BY <2>1, <3>1, <3>2 DEF Scheduled
  <2>3. UNCHANGED <<store, hydration, ops>>
    BY <1>7 DEF DoneWithCache
  <2>4. QED
    BY <2>2, <2>3 DEF OwnData
<1>8. CASE ClearingStep(t)
  <2>1. CASE OnClear(t, PurgedUser(t))
    BY <1>1, <1>2, <2>1, OnClearFacts DEF Erasures
  <2>2. QED
    BY <1>3, <1>8, <2>1 DEF ClearingStep
<1>9. CASE PlainStep(t)
  BY <1>3, <1>9 DEF PlainStep
<1>10. ASSUME NEW v \in Users, SignIn(t, v), OnAdopt(t, v) PROVE OwnData(t)'
  BY <1>1, <1>10, SignInFacts
<1>11. CASE StorageRuns(t) \/ StorageFails(t)
  <2>1. QueueShrinks(t) /\ UNCHANGED <<writes, hydration>>
    BY <1>11 DEF StorageRuns, StorageFails, QueueShrinks
  <2>2. \A i \in DOMAIN ops'[t] : ops'[t][i].data \subseteq {ops'[t][i].user}
    BY <2>1, ShrunkQueue DEF OwnData
  <2>3. ASSUME NEW v \in Users PROVE store'[v] \subseteq {v}
    <3>1. Head(ops[t]).data \subseteq {Head(ops[t]).user}
      BY <2>1, ShrunkQueue DEF OwnData
    <3>2. store' = store \/ store' = [store EXCEPT ![Head(ops[t]).user] = Head(ops[t]).data]
      BY <1>11 DEF StorageRuns, StorageFails
    <3>3. QED
      BY <3>1, <3>2 DEF OwnData, CacheTypes
  <2>4. QED
    BY <2>1, <2>2, <2>3 DEF OwnData
<1>12. CASE WriteFires(t)
  <2>1. UNCHANGED <<store, hydration>>
    BY <1>12 DEF WriteFires
  <2>2. PICK w \in writes[t] : /\ writes'[t] \subseteq writes[t]
                               /\ ops' = ops \/ QueueGrows(t, Put(w.user, w.data))
    BY <1>12 DEF WriteFires, QueueGrows, CacheTypes
  <2>3. PICK e : e = Put(w.user, w.data)
    OBVIOUS
  <2>4. e \in OpRecords /\ e.data \subseteq {e.user}
    BY <1>0, <2>3, OperationTypes DEF Put, OwnData
  <2>5. QED
    BY <1>1, <2>1, <2>2, <2>3, <2>4
<1>13. CASE HydrationReads(t)
  <2>1. hydration[t].user \in Users
    BY <1>13 DEF HydrationReads, Filled
  <2>2. hydration' = [hydration EXCEPT ![t] = [hydration[t] EXCEPT !.stage = "read",
                                                       !.data = store[hydration[t].user]]]
    BY <1>13 DEF HydrationReads
  <2>3. hydration[t] \in HydrationRecords /\ hydration \in [Tabs -> HydrationRecords]
    BY DEF CacheTypes
  <2>4. hydration'[t].user = hydration[t].user /\ hydration'[t].data = store[hydration[t].user]
    BY <2>2, <2>3 DEF HydrationRecords
  <2>5. UNCHANGED <<store, writes, ops>>
    BY <1>13 DEF HydrationReads
  <2>6. QED
    BY <2>1, <2>4, <2>5 DEF OwnData
<1>14. CASE HydrationEnds(t)
  <2>1. hydration'[t].data = {} /\ UNCHANGED <<store, writes, ops>>
    BY <1>14 DEF HydrationEnds, CacheTypes, NoHydration
  <2>2. QED
    BY <2>1 DEF OwnData
<1>15. CASE Toggle(t)
  <2>1. UNCHANGED <<store, hydration, writes>>
    BY <1>15, ToggleFacts
  <2>2. ops' = ops \/ (cache[t].user \in Users /\ QueueGrows(t, Erase("optout", cache[t].user)))
    BY <1>15, ToggleFacts DEF CacheTypes
  <2>3. QED
    BY <1>1, <1>2, <2>1, <2>2 DEF Erasures
<1>16. CASE ClearData(t)
  <2>1. UNCHANGED <<store, hydration, writes>>
    BY <1>16, ClearDataFacts
  <2>2. ops' = ops \/ (hint \in Users /\ QueueGrows(t, Erase("clear", hint)))
    BY <1>16, ClearDataFacts
  <2>3. QED
    BY <1>1, <1>2, <2>1, <2>2 DEF Erasures
<1>17. QED
  BY <1>4, <1>5, <1>6, <1>7, <1>8, <1>9, <1>10, <1>11, <1>12, <1>13, <1>14, <1>15, <1>16
     DEF CacheStep

-----------------------------------------------------------------------------
(* The inductive invariant of one tab, and what follows from it. *)

TabCacheInv(t) == /\ QueueInv(t) /\ ShapeInv(t) /\ SubInv(t) /\ HydrationInv(t)
                  /\ EraseInv(t) /\ OwnInv(t)
CacheInv == \A t \in Tabs : TabCacheInv(t)

LEMMA CacheInvStep ==
    ASSUME TypeOK, TypeOK', TypesInv, NEW t \in Tabs, TabInv(t), TabCacheInv(t), CacheStep(t)
    PROVE  TabCacheInv(t)'
<1> USE DEF TabCacheInv
<1>1. CacheTypes /\ Filled(t)
  BY DEF TypesInv
<1>2. QueueInv(t)' /\ ShapeInv(t)' /\ SubInv(t)' /\ HydrationInv(t)'
  BY <1>1, QueueStep, ShapeStep, SubStep, HydrationStep
<1>3. EraseInv(t)'
  BY <1>1, <1>2, EraseStep
<1>4. ASSUME ~overtaken' PROVE ~overtaken
  <2>1. CASE PlainStep(t)
    BY <1>4, <2>1, PlainFacts
  <2>2. CASE ~PlainStep(t)
    <3>1. overtaken' = overtaken
      BY <1>1, <2>2, ClearingFacts, SignInFacts, BootFacts, FinishBootFacts, CloseFacts
         DEF CacheStep, ClearingStep, DoneWithCache, Done, StorageRuns, StorageFails, WriteFires,
             HydrationReads, HydrationEnds, Toggle, ClearData, history, svars
    <3>2. QED
      BY <1>4, <3>1
  <2>3. QED
    BY <2>1, <2>2
<1>5. ASSUME ~overtaken' PROVE OwnData(t)' /\ \E v \in MaybeUser : HeldBy(t, v)'
  <2>1. PICK u \in MaybeUser : HeldBy(t, u) /\ OwnData(t)
    BY <1>4, <1>5 DEF OwnInv
  <2>2. OwnData(t)'
    BY <1>1, <2>1, OwnDataStep
  <2>3. \E v \in MaybeUser : HeldBy(t, v)'
    BY <1>1, <1>5, <2>1, HeldStep
  <2>4. QED
    BY <2>2, <2>3
<1>6. OwnInv(t)'
  BY <1>5 DEF OwnInv, MaybeUser
<1>7. QED
  BY <1>2, <1>3, <1>6

LEMMA CacheInvariant == ASSUME OneTab PROVE CacheSpec => []CacheInv
<1>1. CacheInit => CacheInv
  <2> SUFFICES ASSUME CacheInit, NEW t \in Tabs PROVE TabCacheInv(t)
    BY DEF CacheInv
  <2>1. /\ page[t] = Unloaded /\ refresh[t] = NoRefresh /\ call[t] = NoCall
        /\ cache[t] = FreshCache /\ mem[t] = {} /\ hydration[t] = NoHydration
        /\ writes[t] = {} /\ ops[t] = <<>> /\ revoked = {} /\ hint = None /\ cookie = None
        /\ \A u \in Users : store[u] = {}
    BY DEF CacheInit, Init
  <2>2. /\ page[t].up = "closed" /\ page[t].token = None /\ refresh[t].stage = "none"
        /\ call[t].stage = "none" /\ ~cache[t].sub.on /\ cache[t].user = None
        /\ hydration[t].stage = "none" /\ hydration[t].data = {}
    BY <2>1, FreshTypes DEF Unloaded, NoRefresh, NoCall, FreshCache, NoHydration
  <2>3. QueueInv(t) /\ ShapeInv(t) /\ SubInv(t) /\ HydrationInv(t) /\ EraseInv(t)
    BY <2>1, <2>2 DEF QueueInv, ShapeInv, SubInv, HydrationInv, EraseInv
  <2>4. HeldBy(t, None) /\ OwnData(t)
    BY <2>1, <2>2 DEF HeldBy, OwnData
  <2>5. QED
    BY <2>3, <2>4 DEF TabCacheInv, OwnInv, MaybeUser
<1>2. TypeOK /\ TypeOK' /\ TabsInv /\ TypesInv /\ CacheInv /\ [CacheNext]_vars => CacheInv'
  <2> SUFFICES ASSUME TypeOK, TypeOK', TabsInv, TypesInv, CacheInv, [CacheNext]_vars,
                      NEW s \in Tabs
               PROVE  TabCacheInv(s)'
    BY DEF CacheInv
  <2>1. ASSUME NEW t \in Tabs, CacheStep(t) PROVE TabCacheInv(s)'
    <3>1. TabCacheInv(t)'
      BY <2>1, CacheInvStep DEF TabsInv, CacheInv
    <3>2. s = t
      BY DEF OneTab
    <3>3. QED
      BY <3>1, <3>2
  <2>2. CASE UNCHANGED vars
    BY <2>2 DEF vars, svars, cvars, CacheInv, TabCacheInv, QueueInv, ShapeInv, SubInv, HydrationInv,
                EraseInv, Unwritten, Unstored, OwnInv, OwnData, HeldBy
  <2>3. QED
    BY <2>1, <2>2 DEF CacheNext
<1>3. QED
  BY <1>1, <1>2, CacheImplementsSession, TypeCorrect, TabsInvariant, TypesInvariant, PTL
     DEF CacheSpec

(* Whatever a sign-out, a refused session or the switch orders off the device stays off it: *)
(* no throttled write, restore or later subscription of another user brings it back, in any *)
(* order of their steps and of the failures of IndexedDB.                                    *)
THEOREM ErasedStays == ASSUME OneTab PROVE CacheSpec => []ErasedStaysErased
<1>1. TypesInv /\ CacheInv => ErasedStaysErased
  <2> SUFFICES ASSUME TypesInv, CacheInv, NEW u \in revoked, store[u] # {} PROVE EraseQueued(u)
    BY DEF ErasedStaysErased
  <2>1. PICK t \in Tabs : TRUE
    BY DEF OneTab
  <2>2. PICK k \in DOMAIN ops[t] : ops[t][k].op # "put" /\ ops[t][k].user = u
    BY DEF CacheInv, TabCacheInv, EraseInv, Unstored, Queued
  <2>3. ops[t][k] \in OpRecords
    BY DEF TypesInv, CacheTypes
  <2>4. QED
    BY <2>2, <2>3 DEF EraseQueued, OpRecords
<1>2. QED
  BY <1>1, CacheInvariant, TypesInvariant, PTL

(* A slot of the device holds the data of its own user only, and so does every write that    *)
(* waits for its slot -- unless a refresh that was answered late has put back a cookie.      *)
THEOREM SlotsAreOwn == ASSUME OneTab PROVE CacheSpec => []SlotIsOwn
<1>1. CacheInv => SlotIsOwn
  BY DEF OneTab, CacheInv, TabCacheInv, OwnInv, OwnData, SlotIsOwn
<1>2. QED
  BY <1>1, CacheInvariant, PTL

(* With a session on screen the query client holds data of its user only, also when the      *)
(* restore of the boot, a sign-out and a sign-in raced.                                       *)
THEOREM ScreensAreOwn == ASSUME OneTab PROVE CacheSpec => []ScreenIsOwn
<1>1. CacheInv => ScreenIsOwn
  <2> SUFFICES ASSUME CacheInv, NEW t \in Tabs, page[t].token # None, ~overtaken
               PROVE  mem[t] \subseteq {page[t].token}
    BY DEF ScreenIsOwn
  <2>1. PICK u \in MaybeUser : HeldBy(t, u)
    BY DEF CacheInv, TabCacheInv, OwnInv
  <2>2. QED
    BY <2>1 DEF HeldBy
<1>2. QED
  BY <1>1, CacheInvariant, PTL

(* While reading offline is on, a page with a known user keeps writing: its subscription is  *)
(* live for this user and lifecycle until "Clear offline data" ends it.                       *)
THEOREM PersistingGoesOn == ASSUME OneTab PROVE CacheSpec => []KeepsPersisting
<1>1. TypesInv /\ CacheInv => KeepsPersisting
  <2> SUFFICES ASSUME TypesInv, CacheInv, NEW t \in Tabs, page[t].up = "running",
                      cache[t].user # None, enabled, emptied[t] = "no"
               PROVE  cache[t].sub = [on |-> TRUE, user |-> cache[t].user, life |-> cache[t].life]
    BY DEF KeepsPersisting
  <2>1. /\ cache[t].sub.on /\ cache[t].sub.user = cache[t].user
        /\ cache[t].sub.life = cache[t].life
    BY DEF CacheInv, TabCacheInv, SubInv
  <2>2. cache[t].sub \in Subscriptions
    BY DEF TypesInv, CacheTypes, CacheRecords
  <2>3. QED
    BY <2>1, <2>2 DEF Subscriptions
<1>2. QED
  BY <1>1, CacheInvariant, TypesInvariant, PTL

(* What a page restores at its start reaches the screen only if nobody has ordered it off    *)
(* the device while it was being read.                                                        *)
THEOREM LateRestoresAreDropped == ASSUME OneTab PROVE CacheSpec => LateRestoreIsDropped
<1>1. TypeOK /\ TabsInv /\ TypesInv /\ CacheInv /\ [CacheNext]_vars =>
          [\A t \in Tabs : hydration[t].stage = "read" /\ mem'[t] # mem[t]
                           => hydration[t].user \notin revoked]_vars
  <2> SUFFICES ASSUME TypeOK, TabsInv, TypesInv, CacheInv, NEW s \in Tabs, CacheStep(s),
                      NEW t \in Tabs, hydration[t].stage = "read", mem'[t] # mem[t]
               PROVE  hydration[t].user \notin revoked
    BY DEF CacheNext
  <2>1. s = t
    BY DEF OneTab
  <2>2. CacheTypes /\ TabInv(t) /\ ShapeInv(t) /\ HydrationInv(t) /\ EraseInv(t)
    BY DEF TypesInv, TabsInv, CacheInv, TabCacheInv
  <2>3. page[t].up # "running" /\ mem[t] = {} /\ mem'[t] # {} /\ call[t].stage = "none"
    BY <2>2 DEF ShapeInv, TabInv
  <2>4. HydrationEnds(t)
    <3>1. ~BootWithCache(t) /\ ~FinishBootWithCache(t) /\ ~CloseWithCache(t) /\ ~DoneWithCache(t)
      BY <2>2, <2>3, BootFacts, FinishBootFacts, CloseFacts DEF DoneWithCache, Done
    <3>2. ~ClearingStep(t) /\ ~PlainStep(t) /\ ~ \E u \in Users : SignIn(t, u) /\ OnAdopt(t, u)
      BY <2>2, <2>3, OnClearFacts, SignInFacts DEF ClearingStep, PlainStep, cvars
    <3>3. ~StorageRuns(t) /\ ~StorageFails(t) /\ ~WriteFires(t) /\ ~HydrationReads(t)
          /\ ~Toggle(t) /\ ~ClearData(t)
      BY DEF StorageRuns, StorageFails, WriteFires, HydrationReads, Toggle, ClearData
    <3>4. QED
      BY <2>1, <3>1, <3>2, <3>3 DEF CacheStep
  <2>5. hydration[t].life = cache[t].life /\ enabled
    BY <2>2, <2>4 DEF HydrationEnds, CacheTypes
  <2>6. QED
    BY <2>2, <2>5 DEF HydrationInv, EraseInv
<1>2. QED
  BY <1>1, CacheInvariant, CacheImplementsSession, TypeCorrect, TabsInvariant, TypesInvariant, PTL
     DEF CacheSpec, LateRestoreIsDropped

===============================================================================
