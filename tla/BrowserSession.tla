---------------------------- MODULE BrowserSession ----------------------------
(***************************************************************************)
(* The session of the web client: api/auth/session.ts, the 401 retry of     *)
(* api/client/config.ts, the boot mode of app/offline/offlineMode.ts and    *)
(* the boot of main.tsx.                                                    *)
(*                                                                          *)
(* Every tab is one instance of those modules.  The refresh cookie, the     *)
(* session hint and the logout tombstone belong to the browser and are      *)
(* shared by the tabs.  Requests are answered in any order, or never.       *)
(***************************************************************************)
EXTENDS Naturals

CONSTANTS Tabs,       \* tabs that may have the application open
          Users,      \* accounts of the server
          None,       \* absence of a user
          Overtaking, \* whether a refresh may be answered after the cookie changed
          MaxGen,     \* bound: changes of session between two loads of a tab
          MaxLogouts  \* bound: logout requests of a tab that are in flight

ASSUME SessionAssumption == /\ None \notin Users
                            /\ Overtaking \in BOOLEAN
                            /\ MaxGen \in Nat
                            /\ MaxLogouts \in Nat \ {0}

VARIABLES
    cookie,     \* the journiv_refresh cookie: whose refresh token it holds
    hint,       \* localStorage: the user of the session hint
    tombstone,  \* localStorage: a logout is pending
    page,       \* module state of each tab
    refresh,    \* refreshInFlight of each tab
    call,       \* an API request of each tab
    logouts,    \* logout requests of each tab without an answer
    out,        \* history: the last sign-in or sign-out of the browser was a sign-out
    overtaken   \* history: an answer put back a cookie that had changed meanwhile

device == <<cookie, hint, tombstone>>
history == <<out, overtaken>>
svars == <<cookie, hint, tombstone, page, refresh, call, logouts, out, overtaken>>

MaybeUser == Users \union {None}
Modes == {"normal", "unauthenticated", "offline-restricted"}
RestoreResults == {"restored", "unauthenticated", "offline", "superseded"}

\* A tab that has not run the module yet.
Unloaded == [up |-> "closed", token |-> None, adopted |-> None, gen |-> 0,
             mode |-> "unauthenticated", restore |-> "pending"]
NoRefresh == [stage |-> "none", gen |-> 0, sub |-> None]
NoCall == [stage |-> "none", gen |-> 0, since |-> 0, user |-> None]

TypeOK ==
    /\ cookie \in MaybeUser /\ hint \in MaybeUser /\ tombstone \in BOOLEAN
    /\ page \in [Tabs -> [up : {"closed", "booting", "running"}, token : MaybeUser,
                          adopted : MaybeUser, gen : 0..MaxGen, mode : Modes,
                          restore : RestoreResults \union {"pending"}]]
    /\ refresh \in [Tabs -> [stage : {"none", "sent", "body"}, gen : 0..MaxGen,
                             sub : MaybeUser]]
    /\ call \in [Tabs -> [stage : {"none", "sent", "waiting", "retried", "refused"},
                          gen : 0..MaxGen, since : 0..MaxGen, user : MaybeUser]]
    /\ logouts \in [Tabs -> 0..MaxLogouts]
    /\ out \in BOOLEAN /\ overtaken \in BOOLEAN

Init ==
    /\ cookie = None /\ hint = None /\ tombstone = FALSE
    /\ page = [t \in Tabs |-> Unloaded]
    /\ refresh = [t \in Tabs |-> NoRefresh]
    /\ call = [t \in Tabs |-> NoCall]
    /\ logouts = [t \in Tabs |-> 0]
    /\ out = FALSE /\ overtaken = FALSE

-----------------------------------------------------------------------------
(* Helpers.                                                                 *)

\* The listener initBootMode subscribes; before it ran nobody listens.
Follow(p, mode) == IF p.up = "running" THEN mode ELSE p.mode

\* session.ts clear() as far as the module state goes.
Cleared(p) == [p EXCEPT !.gen = @ + 1, !.token = None, !.adopted = None,
                        !.mode = Follow(p, "unauthenticated")]

\* The user whose offline cache clear() asks to be purged.
PurgedUser(t) == IF page[t].adopted # None THEN page[t].adopted ELSE hint

\* Mutant: a refresh does not ask whether the session has changed.
Superseded_Never(t) == FALSE

Superseded(t) == refresh[t].gen # page[t].gen

\* attemptRefresh(): a refresh in flight is shared.
Attempted(t) == IF refresh[t].stage # "none" THEN refresh[t]
                ELSE [stage |-> "sent", gen |-> page[t].gen, sub |-> cookie]

\* What restore() resolved to, for the boot that awaits it.
Resolved(p, result) ==
    [p EXCEPT !.restore = IF p.up = "booting" /\ @ = "pending" THEN result ELSE @]

\* authenticatedFetch after its attemptRefresh(): retry with the token or give up.
Resumed(c, result, token) ==
    IF c.stage # "waiting" THEN c
    ELSE IF result = "restored" /\ token # None
         THEN [c EXCEPT !.stage = "retried", !.since = 0, !.user = token]
         ELSE [c EXCEPT !.stage = "refused", !.since = 0]

\* The refresh of t settles with result and leaves the module state p.
Settle(t, result, p) ==
    /\ refresh' = [refresh EXCEPT ![t] = NoRefresh]
    /\ page' = [page EXCEPT ![t] = Resolved(p, result)]
    /\ call' = [call EXCEPT ![t] = Resumed(@, result, p.token)]

-----------------------------------------------------------------------------
(* Loading the page (main.tsx boot, restore, initBootMode).                 *)

\* boot() up to its await: with a tombstone restore() fires the logout again
\* and sends no refresh; otherwise it refreshes and waits only when on line.
Boot(t) ==
    /\ page[t].up = "closed"
    /\ \/ /\ tombstone
          /\ page' = [page EXCEPT ![t] = [Unloaded EXCEPT !.up = "booting",
                                             !.restore = "unauthenticated"]]
          /\ logouts' = [logouts EXCEPT ![t] = 1]
          /\ UNCHANGED refresh
       \/ /\ ~tombstone
          /\ \E onLine \in BOOLEAN :
                page' = [page EXCEPT ![t] = [Unloaded EXCEPT !.up = "booting",
                            !.restore = IF onLine THEN "pending" ELSE "offline"]]
          /\ refresh' = [refresh EXCEPT ![t] = [NoRefresh EXCEPT !.stage = "sent",
                                                                 !.sub = cookie]]
          /\ UNCHANGED logouts
    /\ UNCHANGED <<device, call, history>>

\* Mutants: the mode is taken from restore() alone; restore() is taken for a mode.
InitialMode_Trusting(p) ==
    IF p.restore = "restored" THEN "normal"
    ELSE IF p.restore # "unauthenticated" /\ hint # None THEN "offline-restricted"
    ELSE "unauthenticated"
InitialMode_Raw(p) == IF p.token # None THEN "normal" ELSE p.restore

\* initBootMode: the live token outranks what restore() said.
InitialMode(p) ==
    IF p.token # None \/ p.restore = "restored" THEN "normal"
    ELSE IF p.restore # "unauthenticated" /\ hint # None THEN "offline-restricted"
    ELSE "unauthenticated"

FinishBoot(t) ==
    /\ page[t].up = "booting" /\ page[t].restore # "pending"
    /\ page' = [page EXCEPT ![t].up = "running", ![t].mode = InitialMode(page[t]),
                            ![t].restore = "pending"]
    /\ UNCHANGED <<device, refresh, call, logouts, history>>

\* The tab is closed or about to be reloaded: what it awaited is gone.
Close(t) ==
    /\ page[t].up # "closed"
    /\ page' = [page EXCEPT ![t] = Unloaded]
    /\ refresh' = [refresh EXCEPT ![t] = NoRefresh]
    /\ call' = [call EXCEPT ![t] = NoCall]
    /\ logouts' = [logouts EXCEPT ![t] = 0]
    /\ UNCHANGED <<device, history>>

\* The browser's "online" event.
Online(t) ==
    /\ page[t].up = "running" /\ page[t].mode # "normal"
    /\ refresh' = [refresh EXCEPT ![t] = Attempted(t)]
    /\ UNCHANGED <<device, page, call, logouts, history>>

-----------------------------------------------------------------------------
(* performRefresh: the request, the answer's headers, its body.             *)

\* No answer, the five seconds are over, or a status that is no refusal.
RefreshFails(t) ==
    /\ refresh[t].stage # "none"
    /\ Settle(t, IF Superseded(t) THEN "superseded" ELSE "offline", page[t])
    /\ UNCHANGED <<device, logouts, history>>

\* 401 or 403: the session is cleared unless it has changed meanwhile.
RefreshRefused(t) ==
    /\ refresh[t].stage = "sent"
    /\ \/ /\ Superseded(t)
          /\ Settle(t, "superseded", page[t])
          /\ UNCHANGED hint
       \/ /\ ~Superseded(t) /\ page[t].gen < MaxGen
          /\ Settle(t, "unauthenticated", Cleared(page[t]))
          /\ hint' = None
    /\ UNCHANGED <<cookie, tombstone, logouts, history>>

\* 200: the browser stores the cookie again, whatever the page thinks of it.
RefreshHeaders(t) ==
    /\ refresh[t].stage = "sent" /\ refresh[t].sub # None
    /\ Overtaking \/ cookie = refresh[t].sub
    /\ cookie' = refresh[t].sub
    /\ overtaken' = (overtaken \/ cookie # refresh[t].sub)
    /\ \/ /\ Superseded(t)
          /\ Settle(t, "superseded", page[t])
       \/ /\ ~Superseded(t)
          /\ refresh' = [refresh EXCEPT ![t].stage = "body"]
          /\ UNCHANGED <<page, call>>
    /\ UNCHANGED <<hint, tombstone, logouts, out>>

\* The access token arrives; it counts only for the session that asked for it.
RefreshBody(t) ==
    /\ refresh[t].stage = "body"
    /\ IF Superseded(t)
       THEN Settle(t, "superseded", page[t])
       ELSE Settle(t, "restored",
                   [page[t] EXCEPT !.token = refresh[t].sub,
                                   !.mode = Follow(page[t], "normal")])
    /\ UNCHANGED <<device, logouts, history>>

RefreshAnswered(t) == RefreshRefused(t) \/ RefreshHeaders(t) \/ RefreshBody(t)

-----------------------------------------------------------------------------
(* Signing in and out.                                                      *)

\* The answer to a login, sign-up or OIDC exchange, and adopt().
SignIn(t, u) ==
    /\ page[t].up = "running" /\ page[t].gen < MaxGen
    /\ cookie' = u /\ hint' = u /\ tombstone' = FALSE
    /\ page' = [page EXCEPT ![t].gen = @ + 1, ![t].token = u, ![t].adopted = u,
                            ![t].mode = "normal"]
    /\ out' = FALSE
    /\ UNCHANGED <<refresh, call, logouts, overtaken>>

\* signOut(): tombstone, clear(), then the logout request.
SignOut(t) ==
    /\ page[t].up = "running" /\ page[t].mode # "unauthenticated"
    /\ page[t].gen < MaxGen /\ logouts[t] < MaxLogouts
    /\ tombstone' = TRUE /\ hint' = None
    /\ page' = [page EXCEPT ![t] = Cleared(@)]
    /\ logouts' = [logouts EXCEPT ![t] = @ + 1]
    /\ out' = TRUE
    /\ UNCHANGED <<cookie, refresh, call, overtaken>>

\* A logout answers 200, its Set-Cookie deletes the cookie.
LogoutAnswered(t) ==
    /\ logouts[t] > 0
    /\ logouts' = [logouts EXCEPT ![t] = @ - 1]
    /\ cookie' = None /\ tombstone' = FALSE
    /\ UNCHANGED <<hint, page, refresh, call, history>>

\* Mutant: the tombstone is dropped whatever became of the request.
LogoutFails_Forgets(t) ==
    /\ logouts[t] > 0
    /\ logouts' = [logouts EXCEPT ![t] = @ - 1]
    /\ tombstone' = FALSE
    /\ UNCHANGED <<cookie, hint, page, refresh, call, history>>

\* A logout fails or is never answered: the tombstone stays.
LogoutFails(t) ==
    /\ logouts[t] > 0
    /\ logouts' = [logouts EXCEPT ![t] = @ - 1]
    /\ UNCHANGED <<device, page, refresh, call, history>>

-----------------------------------------------------------------------------
(* An API request through authenticatedFetch.                               *)

Send(t) ==
    /\ page[t].up = "running" /\ page[t].token # None /\ call[t].stage = "none"
    /\ call' = [call EXCEPT ![t] = [NoCall EXCEPT !.stage = "sent", !.gen = page[t].gen,
                                                 !.user = page[t].token]]
    /\ UNCHANGED <<device, page, refresh, logouts, history>>

Done(t) ==
    /\ call[t].stage \in {"sent", "retried"}
    /\ call' = [call EXCEPT ![t] = NoCall]
    /\ UNCHANGED <<device, page, refresh, logouts, history>>

\* 401: the first one waits for a refresh, the one of the retry is final.
CallRefused(t) ==
    \/ /\ call[t].stage = "sent"
       /\ call' = [call EXCEPT ![t].stage = "waiting", ![t].since = page[t].gen,
                                ![t].user = None]
       /\ refresh' = [refresh EXCEPT ![t] = Attempted(t)]
       /\ UNCHANGED <<device, page, logouts, history>>
    \/ /\ call[t].stage = "retried"
       /\ call' = [call EXCEPT ![t].stage = "refused", ![t].user = None]
       /\ UNCHANGED <<device, page, refresh, logouts, history>>

\* The caller sees the 401.  AppShell clears the session when it was the
\* current-user query; the query of an earlier session was dropped with it.
Rejected(t) ==
    /\ call[t].stage = "refused"
    /\ call' = [call EXCEPT ![t] = NoCall]
    /\ \/ /\ call[t].gen = page[t].gen /\ page[t].up = "running" /\ page[t].gen < MaxGen
          /\ page' = [page EXCEPT ![t] = Cleared(@)]
          /\ hint' = None
       \/ UNCHANGED <<page, hint>>
    /\ UNCHANGED <<cookie, tombstone, refresh, logouts, history>>

-----------------------------------------------------------------------------
TabStep(t) ==
    \/ Boot(t) \/ FinishBoot(t) \/ Close(t) \/ Online(t)
    \/ RefreshFails(t) \/ RefreshAnswered(t)
    \/ (\E u \in Users : SignIn(t, u)) \/ SignOut(t)
    \/ LogoutAnswered(t) \/ LogoutFails(t)
    \/ Send(t) \/ Done(t) \/ CallRefused(t) \/ Rejected(t)

Next == \E t \in Tabs : TabStep(t)

Spec == Init /\ [][Next]_svars

-----------------------------------------------------------------------------
(* Properties.                                                              *)

\* Once the page is up its mode says what the session is: normal exactly with
\* an access token, however the refresh of the boot, its provisional "offline"
\* and the events after it interleaved (initBootMode, lines 60-76).
ModeFollowsSession ==
    \A t \in Tabs : page[t].up = "running" =>
        (page[t].mode = "normal" <=> page[t].token # None)

\* A signed-out browser keeps the tombstone until its cookie is gone, so that
\* the next load cannot restore the session -- unless a refresh answered late
\* put a cookie back (signOut, restore, and the Set-Cookie of /auth/refresh).
LogoutIsRemembered ==
    out /\ ~overtaken => tombstone \/ cookie = None

\* A request is retried only within the session in which it was refused: a
\* refresh shared with an earlier session never lends its answer (attemptRefresh
\* is single-flight across sign-outs).
RetryInOneSession ==
    [][\A t \in Tabs : call[t].stage = "waiting" /\ call'[t].stage = "retried"
                       => call[t].since = page'[t].gen]_svars
=============================================================================
