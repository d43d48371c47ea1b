-------------------------- MODULE BrowserSessionProofs --------------------------
(***************************************************************************)
(* Proofs about BrowserSession, for any number of tabs and accounts and any *)
(* bounds.                                                                  *)
(***************************************************************************)
EXTENDS BrowserSession, TLAPS

USE SessionAssumption

Gens == 0..MaxGen

LEMMA GenFacts == 0 \in Gens /\ \A g \in Gens : g \in Nat /\ (g < MaxGen => g + 1 \in Gens)
  BY DEF Gens

(* The types of what a tab keeps. *)
PageRecords == [up : {"closed", "booting", "running"}, token : MaybeUser,
                adopted : MaybeUser, gen : Gens, mode : Modes,
                restore : RestoreResults \union {"pending"}]
RefreshRecords == [stage : {"none", "sent", "body"}, gen : Gens, sub : MaybeUser]
CallRecords == [stage : {"none", "sent", "waiting", "retried", "refused"},
                gen : Gens, since : Gens, user : MaybeUser]

-----------------------------------------------------------------------------
(* The helpers keep the records they are given well-formed. *)

LEMMA UnloadedTypes ==
    Unloaded \in PageRecords /\ NoRefresh \in RefreshRecords /\ NoCall \in CallRecords
  BY DEF Unloaded, NoRefresh, NoCall, PageRecords, RefreshRecords, CallRecords, MaybeUser,
         Modes, RestoreResults, Gens

LEMMA ClearedType ==
    ASSUME NEW p \in PageRecords, p.gen < MaxGen
    PROVE  /\ Cleared(p) \in PageRecords
           /\ Cleared(p).gen = p.gen + 1 /\ Cleared(p).token = None /\ Cleared(p).up = p.up
           /\ Cleared(p).restore = p.restore
           /\ Cleared(p).mode = IF p.up = "running" THEN "unauthenticated" ELSE p.mode
<1>1. p.gen + 1 \in Gens /\ Follow(p, "unauthenticated") \in Modes /\ None \in MaybeUser
  BY GenFacts DEF Follow, PageRecords, MaybeUser, Modes
<1>2. PICK g \in Gens, m \in Modes : g = p.gen + 1 /\ m = Follow(p, "unauthenticated")
  BY <1>1
<1>3. PICK q : q = Cleared(p)
  OBVIOUS
<1>4. q = [p EXCEPT !.gen = g, !.token = None, !.adopted = None, !.mode = m]
  BY <1>2, <1>3 DEF Cleared
<1>5. /\ q \in PageRecords /\ q.gen = g /\ q.token = None
      /\ q.up = p.up /\ q.restore = p.restore /\ q.mode = m
  BY <1>1, <1>4 DEF PageRecords
<1>6. m = IF p.up = "running" THEN "unauthenticated" ELSE p.mode
  BY <1>2 DEF Follow
<1>7. QED
  BY <1>2, <1>3, <1>5, <1>6

LEMMA ResolvedType ==
    ASSUME NEW p \in PageRecords, NEW result \in RestoreResults
    PROVE  /\ Resolved(p, result) \in PageRecords
           /\ Resolved(p, result).gen = p.gen /\ Resolved(p, result).token = p.token
           /\ Resolved(p, result).up = p.up /\ Resolved(p, result).mode = p.mode
           /\ Resolved(p, result).restore =
                IF p.up = "booting" /\ p.restore = "pending" THEN result ELSE p.restore
  BY DEF Resolved, PageRecords

LEMMA ResumedType ==
    ASSUME NEW c \in CallRecords, NEW result \in RestoreResults, NEW token \in MaybeUser
    PROVE  /\ Resumed(c, result, token) \in CallRecords
           /\ Resumed(c, result, token).stage # "waiting"
           /\ c.stage # "waiting" => Resumed(c, result, token) = c
           /\ c.stage = "waiting" /\ Resumed(c, result, token).stage = "retried"
                => result = "restored"
<1>1. CASE c.stage # "waiting"
  BY <1>1 DEF Resumed
<1>2. CASE c.stage = "waiting" /\ result = "restored" /\ token # None
  <2>1. Resumed(c, result, token) = [c EXCEPT !.stage = "retried", !.since = 0, !.user = token]
    BY <1>2 DEF Resumed
  <2>2. QED
    BY <1>2, <2>1, GenFacts DEF CallRecords
<1>3. CASE c.stage = "waiting" /\ ~(result = "restored" /\ token # None)
  <2>1. Resumed(c, result, token) = [c EXCEPT !.stage = "refused", !.since = 0]
    BY <1>3 DEF Resumed
  <2>2. QED
    BY <1>3, <2>1, GenFacts DEF CallRecords
<1>4. QED
  BY <1>1, <1>2, <1>3

LEMMA AttemptedType ==
    ASSUME NEW t \in Tabs, refresh[t] \in RefreshRecords, page[t] \in PageRecords,
           cookie \in MaybeUser
    PROVE  /\ Attempted(t) \in RefreshRecords /\ Attempted(t).stage # "none"
           /\ refresh[t].stage # "none" => Attempted(t) = refresh[t]
           /\ refresh[t].stage = "none" => /\ Attempted(t).gen = page[t].gen
                                           /\ Attempted(t).stage = "sent"
<1>1. CASE refresh[t].stage # "none"
  BY <1>1 DEF Attempted
<1>2. CASE refresh[t].stage = "none"
  <2>1. Attempted(t) = [stage |-> "sent", gen |-> page[t].gen, sub |-> cookie]
    BY <1>2 DEF Attempted
  <2>2. page[t].gen \in Gens
    BY DEF PageRecords
  <2>3. QED
    BY <1>2, <2>1, <2>2 DEF RefreshRecords
<1>3. QED
  BY <1>1, <1>2

LEMMA Types ==
    TypeOK <=> /\ cookie \in MaybeUser /\ hint \in MaybeUser /\ tombstone \in BOOLEAN
               /\ page \in [Tabs -> PageRecords]
               /\ refresh \in [Tabs -> RefreshRecords]
               /\ call \in [Tabs -> CallRecords]
               /\ logouts \in [Tabs -> 0..MaxLogouts]
               /\ out \in BOOLEAN /\ overtaken \in BOOLEAN
  BY DEF TypeOK, PageRecords, RefreshRecords, CallRecords, Gens

LEMMA TypesAfter ==
    TypeOK' <=> /\ cookie' \in MaybeUser /\ hint' \in MaybeUser /\ tombstone' \in BOOLEAN
                /\ page' \in [Tabs -> PageRecords]
                /\ refresh' \in [Tabs -> RefreshRecords]
                /\ call' \in [Tabs -> CallRecords]
                /\ logouts' \in [Tabs -> 0..MaxLogouts]
                /\ out' \in BOOLEAN /\ overtaken' \in BOOLEAN
  BY DEF TypeOK, PageRecords, RefreshRecords, CallRecords, Gens

(* A settled refresh, in terms of the module state p it leaves. *)
LEMMA SettleType ==
    ASSUME TypeOK, NEW t \in Tabs, NEW result \in RestoreResults, NEW p \in PageRecords,
           Settle(t, result, p)
    PROVE  /\ page' \in [Tabs -> PageRecords] /\ refresh' \in [Tabs -> RefreshRecords]
           /\ call' \in [Tabs -> CallRecords]
           /\ page' = [page EXCEPT ![t] = Resolved(p, result)]
           /\ refresh' = [refresh EXCEPT ![t] = NoRefresh]
           /\ call' = [call EXCEPT ![t] = Resumed(call[t], result, p.token)]
<1>1. p.token \in MaybeUser
  BY DEF PageRecords
<1>2. Resumed(call[t], result, p.token) \in CallRecords
  BY <1>1, Types, ResumedType
<1>3. QED
  BY <1>1, <1>2, Types, ResolvedType, UnloadedTypes DEF Settle

-----------------------------------------------------------------------------
(* A step of one tab keeps the types and leaves the other tabs as they are. *)

LEMMA StepTypes ==
    ASSUME TypeOK, NEW t \in Tabs, TabStep(t)
    PROVE  TypeOK'
<1> USE DEF device, history, MaybeUser
<1>0. /\ page \in [Tabs -> PageRecords] /\ refresh \in [Tabs -> RefreshRecords]
      /\ call \in [Tabs -> CallRecords] /\ logouts \in [Tabs -> 0..MaxLogouts]
      /\ page[t] \in PageRecords /\ refresh[t] \in RefreshRecords /\ call[t] \in CallRecords
  BY Types
<1>1. CASE Boot(t)
  <2>1. \A r \in RestoreResults \union {"pending"} :
            [Unloaded EXCEPT !.up = "booting", !.restore = r] \in PageRecords
    BY UnloadedTypes DEF PageRecords
  <2>2. [NoRefresh EXCEPT !.stage = "sent", !.sub = cookie] \in RefreshRecords
    BY UnloadedTypes, Types DEF RefreshRecords
  <2>3. page' \in [Tabs -> PageRecords]
    <3>1. \E r \in RestoreResults \union {"pending"} :
              page' = [page EXCEPT ![t] = [Unloaded EXCEPT !.up = "booting", !.restore = r]]
      BY <1>1 DEF Boot, RestoreResults
    <3>2. QED
      BY <1>0, <2>1, <3>1
  <2>4. refresh' \in [Tabs -> RefreshRecords]
    BY <1>0, <1>1, <2>2 DEF Boot
  <2>5. logouts' \in [Tabs -> 0..MaxLogouts]
    <3>1. 1 \in 0..MaxLogouts
      OBVIOUS
    <3>2. QED
      BY <1>0, <1>1, <3>1 DEF Boot
  <2>6. QED
    BY <1>1, <2>3, <2>4, <2>5, Types, TypesAfter DEF Boot
<1>2. CASE FinishBoot(t)
  <2>1. InitialMode(page[t]) \in Modes
    BY DEF InitialMode, Modes
  <2>2. page' \in [Tabs -> PageRecords]
    BY <1>0, <1>2, <2>1 DEF FinishBoot, PageRecords
  <2>3. QED
    BY <1>2, <2>2, Types, TypesAfter DEF FinishBoot
<1>3. CASE Close(t)
  BY <1>0, <1>3, UnloadedTypes, Types, TypesAfter DEF Close
<1>4. CASE Online(t)
  BY <1>0, <1>4, AttemptedType, Types, TypesAfter DEF Online
<1>5. CASE RefreshFails(t)
  <2>1. PICK result \in RestoreResults : Settle(t, result, page[t])
    BY <1>5 DEF RefreshFails, RestoreResults
  <2>2. QED
    BY <1>0, <1>5, <2>1, SettleType, Types, TypesAfter DEF RefreshFails
<1>6. CASE RefreshRefused(t)
  <2>1. CASE Settle(t, "superseded", page[t]) /\ UNCHANGED hint
    BY <1>0, <1>6, <2>1, SettleType, Types, TypesAfter DEF RefreshRefused, RestoreResults
  <2>2. CASE page[t].gen < MaxGen /\ Settle(t, "unauthenticated", Cleared(page[t])) /\ hint' = None
    <3>1. Cleared(page[t]) \in PageRecords
      BY <1>0, <2>2, ClearedType
    <3>2. QED
      BY <1>0, <1>6, <2>2, <3>1, SettleType, Types, TypesAfter DEF RefreshRefused, RestoreResults
  <2>3. QED
    BY <1>6, <2>1, <2>2 DEF RefreshRefused
<1>7. CASE RefreshHeaders(t)
  <2>1. cookie' \in MaybeUser /\ overtaken' \in BOOLEAN
    BY <1>0, <1>7, Types DEF RefreshHeaders, RefreshRecords
  <2>2. CASE Settle(t, "superseded", page[t])
    BY <1>0, <1>7, <2>1, <2>2, SettleType, Types, TypesAfter DEF RefreshHeaders, RestoreResults
  <2>3. CASE refresh' = [refresh EXCEPT ![t].stage = "body"] /\ UNCHANGED <<page, call>>
    <3>1. refresh' \in [Tabs -> RefreshRecords]
      BY <1>0, <2>3 DEF RefreshRecords
    <3>2. UNCHANGED <<hint, tombstone, logouts, out>>
      BY <1>7 DEF RefreshHeaders
    <3>3. page' \in [Tabs -> PageRecords] /\ call' \in [Tabs -> CallRecords]
      BY <1>0, <2>3
    <3>4. QED
      BY <2>1, <3>1, <3>2, <3>3, Types, TypesAfter
  <2>4. QED
    BY <1>7, <2>2, <2>3 DEF RefreshHeaders
<1>8. CASE RefreshBody(t)
  <2>1. CASE Settle(t, "superseded", page[t])
    BY <1>0, <1>8, <2>1, SettleType, Types, TypesAfter DEF RefreshBody, RestoreResults
  <2>2. CASE Settle(t, "restored", [page[t] EXCEPT !.token = refresh[t].sub,
                                                  !.mode = Follow(page[t], "normal")])
    <3>1. [page[t] EXCEPT !.token = refresh[t].sub, !.mode = Follow(page[t], "normal")]
             \in PageRecords
      <4>1. refresh[t].sub \in MaybeUser /\ Follow(page[t], "normal") \in Modes
        BY <1>0 DEF RefreshRecords, PageRecords, Follow, Modes
      <4>2. QED
        BY <1>0, <4>1 DEF PageRecords
    <3>2. QED
      BY <1>8, <2>2, <3>1, SettleType, Types, TypesAfter DEF RefreshBody, RestoreResults
  <2>3. QED
    BY <1>8, <2>1, <2>2 DEF RefreshBody
<1>9. CASE \E u \in Users : SignIn(t, u)
  <2>1. PICK u \in Users : SignIn(t, u)
    BY <1>9
  <2>2. page[t].gen + 1 \in Gens /\ "normal" \in Modes
    BY <1>0, <2>1, GenFacts DEF SignIn, PageRecords, Modes
  <2>3. PICK g \in Gens : g = page[t].gen + 1
    BY <2>2
  <2>4. page' = [page EXCEPT ![t] = [page[t] EXCEPT !.gen = g, !.token = u, !.adopted = u,
                                                   !.mode = "normal"]]
    BY <1>0, <2>1, <2>3 DEF SignIn
  <2>5. page' \in [Tabs -> PageRecords]
    BY <1>0, <2>2, <2>4 DEF PageRecords
  <2>6. QED
    BY <2>1, <2>5, Types, TypesAfter DEF SignIn
<1>10. CASE SignOut(t)
  <2>1. Cleared(page[t]) \in PageRecords
    BY <1>0, <1>10, ClearedType DEF SignOut
  <2>2. logouts' \in [Tabs -> 0..MaxLogouts]
    BY <1>0, <1>10 DEF SignOut
  <2>3. page' \in [Tabs -> PageRecords]
    BY <1>0, <1>10, <2>1 DEF SignOut
  <2>4. QED
    BY <1>10, <2>2, <2>3, Types, TypesAfter DEF SignOut
<1>11. CASE LogoutAnswered(t) \/ LogoutFails(t)
  <2>1. logouts' \in [Tabs -> 0..MaxLogouts]
    BY <1>0, <1>11 DEF LogoutAnswered, LogoutFails
  <2>2. QED
    BY <1>11, <2>1, Types, TypesAfter DEF LogoutAnswered, LogoutFails
<1>12. CASE Send(t)
  <2>1. [NoCall EXCEPT !.stage = "sent", !.gen = page[t].gen, !.user = page[t].token] \in CallRecords
    BY <1>0, UnloadedTypes DEF CallRecords, PageRecords
  <2>2. call' \in [Tabs -> CallRecords]
    BY <1>0, <1>12, <2>1 DEF Send
  <2>3. QED
    BY <1>12, <2>2, Types, TypesAfter DEF Send
<1>13. CASE Done(t)
  BY <1>0, <1>13, UnloadedTypes, Types, TypesAfter DEF Done
<1>14. CASE CallRefused(t)
  <2>1. call' \in [Tabs -> CallRecords]
    <3>1. page[t].gen \in Gens
      BY <1>0 DEF PageRecords
    <3>2. PICK g \in Gens : g = page[t].gen
      BY <3>1
    <3>3. call' \in {[call EXCEPT ![t] = [call[t] EXCEPT !.stage = "waiting", !.since = g, !.user = None]],
                      [call EXCEPT ![t] = [call[t] EXCEPT !.stage = "refused", !.user = None]]}
      BY <1>0, <1>14, <3>2 DEF CallRefused
    <3>4. [call[t] EXCEPT !.stage = "waiting", !.since = g, !.user = None] \in CallRecords
      BY <1>0 DEF CallRecords
    <3>5. [call[t] EXCEPT !.stage = "refused", !.user = None] \in CallRecords
      BY <1>0 DEF CallRecords
    <3>6. QED
      BY <1>0, <3>3, <3>4, <3>5
  <2>2. refresh' \in [Tabs -> RefreshRecords]
    BY <1>0, <1>14, AttemptedType, Types DEF CallRefused
  <2>3. QED
    BY <1>14, <2>1, <2>2, Types, TypesAfter DEF CallRefused
<1>15. CASE Rejected(t)
  <2>1. page' \in [Tabs -> PageRecords]
    BY <1>0, <1>15, ClearedType DEF Rejected
  <2>2. QED
    BY <1>0, <1>15, <2>1, UnloadedTypes, Types, TypesAfter DEF Rejected
<1>16. QED
  BY <1>1, <1>2, <1>3, <1>4, <1>5, <1>6, <1>7, <1>8, <1>9, <1>10, <1>11, <1>12, <1>13, <1>14,
     <1>15 DEF TabStep, RefreshAnswered

LEMMA StepIsLocal ==
    ASSUME TypeOK, NEW t \in Tabs, NEW u \in Tabs \ {t}, TabStep(t)
    PROVE  page'[u] = page[u] /\ refresh'[u] = refresh[u] /\ call'[u] = call[u]
  BY DEF TypeOK, TabStep, RefreshAnswered, Boot, FinishBoot, Close, Online, RefreshFails,
         RefreshRefused, RefreshHeaders, RefreshBody, Settle, SignIn, SignOut, LogoutAnswered,
         LogoutFails, Send, Done, CallRefused, Rejected, device, history

(* The state variables are well-typed: no interleaving of the tabs, of the answers  *)
(* and of the boot leaves a tab outside the modes and stages the code knows.         *)
THEOREM TypeCorrect == Spec => []TypeOK
<1>1. Init => TypeOK
  <2> SUFFICES ASSUME Init PROVE TypeOK
    OBVIOUS
  <2>1. 0 \in 0..MaxLogouts
    OBVIOUS
  <2>2. QED
    BY <2>1, UnloadedTypes, Types DEF Init, MaybeUser
<1>2. TypeOK /\ [Next]_svars => TypeOK'
  <2> SUFFICES ASSUME TypeOK, [Next]_svars PROVE TypeOK'
    OBVIOUS
  <2>1. CASE Next
    BY <2>1, StepTypes DEF Next
  <2>2. CASE UNCHANGED svars
    BY <2>2, Types, TypesAfter DEF svars
  <2>3. QED
    BY <2>1, <2>2
<1>3. QED
  BY <1>1, <1>2, PTL DEF Spec

-----------------------------------------------------------------------------
(* What holds of every tab between its steps: a token comes only from a request with *)
(* a cookie, restore() says "restored" only to a boot whose token is in place, and a  *)
(* refresh in flight is no younger than the 401 that waits for it.                    *)
TabInv(t) ==
    /\ refresh[t].stage = "body" => refresh[t].sub # None
    /\ page[t].up = "closed" => refresh[t].stage = "none"
    /\ page[t].up # "running" => call[t].stage = "none"
    /\ page[t].restore = "restored" =>
           page[t].up = "booting" /\ page[t].token # None /\ refresh[t].stage = "none"
    /\ page[t].up = "running" => (page[t].mode = "normal" <=> page[t].token # None)
    /\ refresh[t].stage # "none" => refresh[t].gen <= page[t].gen
    /\ call[t].stage = "waiting" => /\ refresh[t].stage # "none"
                                    /\ refresh[t].gen <= call[t].since
                                    /\ call[t].since <= page[t].gen

(* A refresh that settles without changing the generation. *)
LEMMA SettleInv ==
    ASSUME TypeOK, NEW t \in Tabs, NEW result \in RestoreResults, NEW p \in PageRecords,
           TabInv(t), refresh[t].stage # "none", Settle(t, result, p),
           p.up = page[t].up, p.restore = page[t].restore,
           result = "restored" => p.token # None,
           p.up = "running" => (p.mode = "normal" <=> p.token # None)
    PROVE  TabInv(t)'
<1>1. /\ page'[t] = Resolved(p, result) /\ refresh'[t] = NoRefresh
      /\ call'[t] = Resumed(call[t], result, p.token)
  BY SettleType, Types
<1>2. call[t] \in CallRecords /\ p.token \in MaybeUser
  BY Types DEF PageRecords
<1>3. /\ page'[t].up = p.up /\ page'[t].token = p.token /\ page'[t].mode = p.mode
      /\ page'[t].restore = IF p.up = "booting" /\ p.restore = "pending" THEN result ELSE p.restore
  BY <1>1, ResolvedType
<1>4. call'[t].stage # "waiting" /\ (call[t].stage = "none" => call'[t] = call[t])
  BY <1>1, <1>2, ResumedType
<1>5. refresh'[t].stage = "none"
  BY <1>1 DEF NoRefresh
<1>6. page[t].restore # "restored"
  BY DEF TabInv
<1>7. QED
  BY <1>3, <1>4, <1>5, <1>6 DEF TabInv

LEMMA StepInv ==
    ASSUME TypeOK, NEW t \in Tabs, TabInv(t), TabStep(t)
    PROVE  TabInv(t)'
<1>0. /\ page[t] \in PageRecords /\ refresh[t] \in RefreshRecords /\ call[t] \in CallRecords
      /\ page[t].gen \in Nat /\ page \in [Tabs -> PageRecords] /\ call \in [Tabs -> CallRecords]
      /\ refresh \in [Tabs -> RefreshRecords] /\ refresh[t].gen \in Nat /\ call[t].since \in Nat
  BY Types, GenFacts DEF PageRecords, RefreshRecords, CallRecords
<1>1. CASE Boot(t)
  <2>1. \E r \in {"unauthenticated", "pending", "offline"} :
            page' = [page EXCEPT ![t] = [Unloaded EXCEPT !.up = "booting", !.restore = r]]
    BY <1>1 DEF Boot
  <2>2. /\ page'[t].up = "booting" /\ page'[t].gen = 0
        /\ page'[t].restore \in {"unauthenticated", "pending", "offline"}
    BY <1>0, <2>1 DEF Unloaded
  <2>3. \/ UNCHANGED refresh
        \/ refresh' = [refresh EXCEPT ![t] = [NoRefresh EXCEPT !.stage = "sent", !.sub = cookie]]
    BY <1>1 DEF Boot
  <2>4. refresh[t].stage = "none" /\ call[t].stage = "none" /\ UNCHANGED call
    BY <1>1 DEF Boot, TabInv
  <2>5. refresh'[t] = refresh[t] \/ (refresh'[t].stage = "sent" /\ refresh'[t].gen = 0)
    BY <1>0, <2>3 DEF NoRefresh
  <2>6. QED
    BY <2>2, <2>4, <2>5 DEF TabInv
<1>2. CASE FinishBoot(t)
  BY <1>0, <1>2 DEF FinishBoot, TabInv, InitialMode, PageRecords
<1>3. CASE Close(t)
  BY <1>0, <1>3 DEF Close, TabInv, Unloaded, NoRefresh, NoCall
<1>4. CASE Online(t)
  <2>1. refresh'[t] = Attempted(t) /\ UNCHANGED <<page, call>>
    BY <1>0, <1>4 DEF Online
  <2>2. Attempted(t).stage # "none" /\ Attempted(t).gen <= page[t].gen
    BY <1>0, AttemptedType, Types DEF TabInv
  <2>3. Attempted(t).stage = "body" => Attempted(t) = refresh[t]
    BY <1>0, AttemptedType, Types
  <2>4. call[t].stage = "waiting" => Attempted(t) = refresh[t]
    BY <1>0, AttemptedType, Types DEF TabInv
  <2>5. QED
    BY <1>4, <2>1, <2>2, <2>3, <2>4 DEF Online, TabInv
<1>5. CASE RefreshFails(t)
  <2>1. PICK result \in RestoreResults \ {"restored"} : Settle(t, result, page[t])
    BY <1>5 DEF RefreshFails, RestoreResults
  <2>2. QED
    BY <1>0, <1>5, <2>1, SettleInv DEF RefreshFails, TabInv
<1>6. CASE RefreshRefused(t)
  <2>1. CASE Settle(t, "superseded", page[t])
    BY <1>0, <1>6, <2>1, SettleInv DEF RefreshRefused, TabInv, RestoreResults
  <2>2. CASE page[t].gen < MaxGen /\ Settle(t, "unauthenticated", Cleared(page[t]))
    <3>1. PICK p \in PageRecords : p = Cleared(page[t])
      BY <1>0, <2>2, ClearedType
    <3>2. /\ p.token = None /\ p.up = page[t].up /\ p.restore = page[t].restore
          /\ p.up = "running" => p.mode = "unauthenticated"
      BY <1>0, <2>2, <3>1, ClearedType
    <3>3. QED
      BY <1>6, <2>2, <3>1, <3>2, SettleInv DEF RefreshRefused, RestoreResults
  <2>3. QED
    BY <1>6, <2>1, <2>2 DEF RefreshRefused
<1>7. CASE RefreshHeaders(t)
  <2>1. CASE Settle(t, "superseded", page[t])
    BY <1>0, <1>7, <2>1, SettleInv DEF RefreshHeaders, TabInv, RestoreResults
  <2>2. CASE refresh' = [refresh EXCEPT ![t].stage = "body"] /\ UNCHANGED <<page, call>>
    <3>1. /\ refresh'[t].stage = "body" /\ refresh'[t].gen = refresh[t].gen
          /\ refresh'[t].sub = refresh[t].sub
      BY <1>0, <2>2 DEF RefreshRecords
    <3>2. refresh[t].stage = "sent" /\ refresh[t].sub # None
      BY <1>7 DEF RefreshHeaders
    <3>3. QED
      BY <2>2, <3>1, <3>2 DEF TabInv
  <2>3. QED
    BY <1>7, <2>1, <2>2 DEF RefreshHeaders
<1>8. CASE RefreshBody(t)
  <2>1. CASE Settle(t, "superseded", page[t])
    BY <1>0, <1>8, <2>1, SettleInv DEF RefreshBody, TabInv, RestoreResults
  <2>2. CASE Settle(t, "restored", [page[t] EXCEPT !.token = refresh[t].sub,
                                                  !.mode = Follow(page[t], "normal")])
    <3>1. PICK m \in Modes : m = Follow(page[t], "normal")
      BY <1>0 DEF Follow, PageRecords, Modes
    <3>2. refresh[t].sub \in MaybeUser
      BY <1>0 DEF RefreshRecords
    <3>3. PICK p : p = [page[t] EXCEPT !.token = refresh[t].sub, !.mode = m]
      OBVIOUS
    <3>4. /\ p \in PageRecords /\ p.token = refresh[t].sub /\ p.mode = m
          /\ p.up = page[t].up /\ p.restore = page[t].restore
      BY <1>0, <3>2, <3>3 DEF PageRecords
    <3>5. refresh[t].stage = "body" /\ refresh[t].sub # None
      BY <1>8 DEF RefreshBody, TabInv
    <3>6. Settle(t, "restored", p) /\ (p.up = "running" => p.mode = "normal")
      BY <2>2, <3>1, <3>3, <3>4 DEF Follow
    <3>7. QED
      BY <3>4, <3>5, <3>6, SettleInv DEF RestoreResults
  <2>3. QED
    BY <1>8, <2>1, <2>2 DEF RefreshBody
<1>9. CASE \E u \in Users : SignIn(t, u)
  <2>1. PICK u \in Users : SignIn(t, u)
    BY <1>9
  <2>2. /\ page'[t].up = "running" /\ page'[t].mode = "normal" /\ page'[t].token = u
        /\ page'[t].gen = page[t].gen + 1 /\ page'[t].restore = page[t].restore
    BY <1>0, <2>1 DEF SignIn, PageRecords
  <2>3. page[t].restore # "restored" /\ UNCHANGED <<refresh, call>>
    BY <2>1 DEF SignIn, TabInv
  <2>4. QED
    BY <1>0, <2>2, <2>3 DEF TabInv
<1>10. CASE SignOut(t)
  <2>1. page'[t] = Cleared(page[t]) /\ UNCHANGED <<refresh, call>>
    BY <1>0, <1>10 DEF SignOut
  <2>2. /\ page'[t].token = None /\ page'[t].mode = "unauthenticated" /\ page'[t].up = "running"
        /\ page'[t].gen = page[t].gen + 1 /\ page'[t].restore = page[t].restore
    BY <1>0, <1>10, <2>1, ClearedType DEF SignOut
  <2>3. page[t].restore # "restored"
    BY <1>10 DEF SignOut, TabInv
  <2>4. QED
    BY <1>0, <2>1, <2>2, <2>3 DEF TabInv
<1>11. CASE LogoutAnswered(t) \/ LogoutFails(t)
  BY <1>11 DEF LogoutAnswered, LogoutFails, TabInv
<1>12. CASE Send(t)
  <2>1. call'[t].stage = "sent" /\ UNCHANGED <<page, refresh>> /\ page[t].up = "running"
    BY <1>0, <1>12 DEF Send, NoCall
  <2>2. QED
    BY <2>1 DEF TabInv
<1>13. CASE Done(t)
  BY <1>0, <1>13 DEF Done, TabInv, NoCall
<1>14. CASE CallRefused(t)
  <2>1. page[t].up = "running" /\ UNCHANGED page
    BY <1>14 DEF CallRefused, TabInv
  <2>2. CASE call[t].stage = "sent"
    <3>1. /\ call'[t].stage = "waiting" /\ call'[t].since = page[t].gen
          /\ refresh'[t] = Attempted(t)
      BY <1>0, <1>14, <2>2 DEF CallRefused, CallRecords
    <3>2. Attempted(t).stage # "none" /\ Attempted(t).gen <= page[t].gen
      BY <1>0, AttemptedType, Types DEF TabInv
    <3>3. Attempted(t).stage = "body" => Attempted(t) = refresh[t]
      BY <1>0, AttemptedType, Types
    <3>4. QED
      BY <1>0, <2>1, <3>1, <3>2, <3>3 DEF TabInv
  <2>3. CASE call[t].stage = "retried"
    <3>1. call'[t].stage = "refused" /\ UNCHANGED refresh
      BY <1>0, <1>14, <2>3 DEF CallRefused, CallRecords
    <3>2. QED
      BY <2>1, <3>1 DEF TabInv
  <2>4. QED
    BY <1>14, <2>2, <2>3 DEF CallRefused
<1>15. CASE Rejected(t)
  <2>1. call'[t].stage = "none" /\ UNCHANGED refresh
    BY <1>0, <1>15 DEF Rejected, NoCall
  <2>2. CASE UNCHANGED page
    BY <2>1, <2>2 DEF TabInv
  <2>3. CASE page[t].up = "running" /\ page[t].gen < MaxGen /\ page' = [page EXCEPT ![t] = Cleared(@)]
    <3>1. page'[t] = Cleared(page[t])
      BY <1>0, <2>3
    <3>2. /\ page'[t].token = None /\ page'[t].mode = "unauthenticated" /\ page'[t].up = "running"
          /\ page'[t].gen = page[t].gen + 1 /\ page'[t].restore = page[t].restore
      BY <1>0, <2>3, <3>1, ClearedType
    <3>3. QED
      BY <1>0, <2>1, <2>3, <3>2 DEF TabInv
  <2>4. QED
    BY <1>15, <2>2, <2>3 DEF Rejected
<1>16. QED
  BY <1>1, <1>2, <1>3, <1>4, <1>5, <1>6, <1>7, <1>8, <1>9, <1>10, <1>11, <1>12, <1>13, <1>14,
     <1>15 DEF TabStep, RefreshAnswered

TabsInv == \A t \in Tabs : TabInv(t)

LEMMA TabsInvariant == Spec => []TabsInv
<1>1. Init => TabsInv
  <2> SUFFICES ASSUME Init, NEW t \in Tabs PROVE TabInv(t)
    BY DEF TabsInv
  <2>1. page[t] = Unloaded /\ refresh[t] = NoRefresh /\ call[t] = NoCall
    BY DEF Init
  <2>2. QED
    BY <2>1 DEF TabInv, Unloaded, NoRefresh, NoCall
<1>2. TypeOK /\ TabsInv /\ [Next]_svars => TabsInv'
  <2> SUFFICES ASSUME TypeOK, TabsInv, [Next]_svars, NEW u \in Tabs PROVE TabInv(u)'
    BY DEF TabsInv
  <2>1. ASSUME NEW t \in Tabs, TabStep(t) PROVE TabInv(u)'
    <3>1. CASE u = t
      BY <2>1, <3>1, StepInv DEF TabsInv
    <3>2. CASE u # t
      BY <2>1, <3>2, StepIsLocal DEF TabsInv, TabInv
    <3>3. QED
      BY <3>1, <3>2
  <2>2. CASE UNCHANGED svars
    BY <2>2 DEF svars, TabsInv, TabInv
  <2>3. QED
    BY <2>1, <2>2 DEF Next
<1>3. QED
  BY <1>1, <1>2, TypeCorrect, PTL DEF Spec

(* The mode of every page that is up says whether it has an access token, whatever    *)
(* the order of the boot, its refresh, sign-ins, sign-outs and refusals.              *)
THEOREM ModeAgrees == Spec => []ModeFollowsSession
<1>1. TabsInv => ModeFollowsSession
  BY DEF TabsInv, TabInv, ModeFollowsSession
<1>2. QED
  BY <1>1, TabsInvariant, PTL

(* A retry uses only a token of the session in which the request was refused.         *)
THEOREM RetriesStayInSession == Spec => RetryInOneSession
<1>1. TypeOK /\ TabsInv /\ [Next]_svars =>
          [\A t \in Tabs : call[t].stage = "waiting" /\ call'[t].stage = "retried"
                            => call[t].since = page'[t].gen]_svars
  <2> SUFFICES ASSUME TypeOK, TabsInv, Next, NEW u \in Tabs,
                      call[u].stage = "waiting", call'[u].stage = "retried"
               PROVE  call[u].since = page'[u].gen
    OBVIOUS
  <2>1. PICK t \in Tabs : TabStep(t)
    BY DEF Next
  <2>2. u = t
    BY <2>1, StepIsLocal
  <2>3. /\ page[t] \in PageRecords /\ call[t] \in CallRecords /\ TabInv(t)
        /\ call \in [Tabs -> CallRecords]
    BY Types DEF TabsInv
  <2>4. ASSUME NEW result \in RestoreResults, NEW p \in PageRecords, Settle(t, result, p)
        PROVE  result = "restored" /\ page'[t].gen = p.gen
    <3>1. call'[t] = Resumed(call[t], result, p.token) /\ page'[t] = Resolved(p, result)
      BY <2>4, SettleType, Types
    <3>2. p.token \in MaybeUser
      BY DEF PageRecords
    <3>3. QED
      BY <2>2, <2>3, <3>1, <3>2, ResumedType, ResolvedType
  <2>5. CASE RefreshBody(t)
    <3>1. CASE Settle(t, "superseded", page[t])
      BY <2>3, <2>4, <3>1 DEF RestoreResults
    <3>2. CASE ~Superseded(t) /\ Settle(t, "restored",
                 [page[t] EXCEPT !.token = refresh[t].sub, !.mode = Follow(page[t], "normal")])
      <4>1. PICK m \in Modes : m = Follow(page[t], "normal")
        BY <2>3 DEF Follow, PageRecords, Modes
      <4>2. refresh[t].sub \in MaybeUser
        BY Types DEF RefreshRecords
      <4>3. PICK p : p = [page[t] EXCEPT !.token = refresh[t].sub, !.mode = m]
        OBVIOUS
      <4>4. p \in PageRecords /\ p.gen = page[t].gen
        BY <2>3, <4>2, <4>3 DEF PageRecords
      <4>5. page'[t].gen = page[t].gen
        BY <2>4, <3>2, <4>1, <4>3, <4>4 DEF RestoreResults
      <4>6. page[t].gen \in Nat /\ call[t].since \in Nat /\ refresh[t].gen = page[t].gen
        BY <2>3, <3>2, GenFacts DEF Superseded, PageRecords, CallRecords
      <4>7. refresh[t].gen <= call[t].since /\ call[t].since <= page[t].gen
        BY <2>2, <2>3 DEF TabInv
      <4>8. QED
        BY <2>2, <4>5, <4>6, <4>7
    <3>3. QED
      BY <2>5, <3>1, <3>2 DEF RefreshBody
  <2>6. CASE RefreshFails(t)
    <3>1. PICK result \in RestoreResults \ {"restored"} : Settle(t, result, page[t])
      BY <2>6 DEF RefreshFails, RestoreResults
    <3>2. QED
      BY <2>3, <2>4, <3>1
  <2>7. CASE RefreshRefused(t)
    <3>1. CASE Settle(t, "superseded", page[t])
      BY <2>3, <2>4, <3>1 DEF RestoreResults
    <3>2. CASE page[t].gen < MaxGen /\ Settle(t, "unauthenticated", Cleared(page[t]))
      BY <2>3, <2>4, <3>2, ClearedType DEF RestoreResults
    <3>3. QED
      BY <2>7, <3>1, <3>2 DEF RefreshRefused
  <2>8. CASE RefreshHeaders(t)
    <3>1. CASE Settle(t, "superseded", page[t])
      BY <2>3, <2>4, <3>1 DEF RestoreResults
    <3>2. CASE UNCHANGED call
      BY <2>2, <3>2
    <3>3. QED
      BY <2>8, <3>1, <3>2 DEF RefreshHeaders
  <2>9. CASE Send(t) \/ Done(t) \/ CallRefused(t) \/ Rejected(t) \/ Close(t)
    <3>1. call'[t].stage # "retried"
      BY <2>3, <2>9 DEF Send, Done, CallRefused, Rejected, Close, NoCall, CallRecords
    <3>2. QED
      BY <2>2, <3>1
  <2>10. CASE \/ Boot(t) \/ FinishBoot(t) \/ Online(t) \/ (\E v \in Users : SignIn(t, v))
            \/ SignOut(t) \/ LogoutAnswered(t) \/ LogoutFails(t)
    BY <2>10 DEF Boot, FinishBoot, Online, SignIn, SignOut, LogoutAnswered, LogoutFails
  <2>11. QED
    BY <2>1, <2>5, <2>6, <2>7, <2>8, <2>9, <2>10 DEF TabStep, RefreshAnswered
<1>2. QED
  BY <1>1, TypeCorrect, TabsInvariant, PTL DEF Spec, RetryInOneSession

(* A browser that signed out keeps its tombstone until the cookie is gone, unless a    *)
(* refresh that was answered late has put a cookie back.                               *)
THEOREM LogoutStaysRemembered == Spec => []LogoutIsRemembered
<1>1. Init => LogoutIsRemembered
  BY DEF Init, LogoutIsRemembered
<1>2. TypeOK /\ LogoutIsRemembered /\ [Next]_svars => LogoutIsRemembered'
  <2> SUFFICES ASSUME TypeOK, LogoutIsRemembered, [Next]_svars PROVE LogoutIsRemembered'
    OBVIOUS
  <2> USE DEF LogoutIsRemembered, TypeOK, device, history
  <2>1. ASSUME NEW t \in Tabs, RefreshHeaders(t) PROVE LogoutIsRemembered'
    BY <2>1 DEF RefreshHeaders
  <2>2. ASSUME NEW t \in Tabs,
               \/ RefreshRefused(t) \/ RefreshBody(t) \/ (\E u \in Users : SignIn(t, u)) \/ SignOut(t)
               \/ LogoutAnswered(t) \/ LogoutFails(t) \/ Rejected(t)
        PROVE  LogoutIsRemembered'
    BY <2>2 DEF RefreshRefused, RefreshBody, SignIn, SignOut, LogoutAnswered, LogoutFails,
                Rejected
  <2>3. ASSUME NEW t \in Tabs,
               \/ Boot(t) \/ FinishBoot(t) \/ Close(t) \/ Online(t) \/ RefreshFails(t)
               \/ Send(t) \/ Done(t) \/ CallRefused(t)
        PROVE  LogoutIsRemembered'
    BY <2>3 DEF Boot, FinishBoot, Close, Online, RefreshFails, Send, Done, CallRefused
  <2>4. CASE UNCHANGED svars
    BY <2>4 DEF svars
  <2>5. QED
    BY <2>1, <2>2, <2>3, <2>4 DEF Next, TabStep, RefreshAnswered
<1>3. QED
  BY <1>1, <1>2, TypeCorrect, PTL DEF Spec
=============================================================================
