------------------------- MODULE AdminSessionProofs -------------------------
(***************************************************************************)
(* Theorems about AdminSession, for any users, tabs, calls and number of   *)
(* tokens.                                                                 *)
(***************************************************************************)
EXTENDS AdminSession, TLAPS

Sessions == [token : MaybeToken, refresh : MaybeToken, user : MaybeUser]
Contexts == [token : MaybeToken, user : MaybeUser]
JobRecord == [left : SUBSET Items, token : MaybeToken, user : MaybeUser]
CallRecord == [st : {"idle", "sent", "reading", "refreshing", "resending"},
               via : {"api", "fetch"}, token : MaybeToken, retry : BOOLEAN, sends : Nat]

(* How often a call was sent follows from where it is: _retry is set       *)
(* before the renewal, and only what has not been retried is renewed.      *)
CallShape(r) ==
    /\ r.st = "idle" => r = Idle
    /\ r.st = "sent" => r.sends = IF r.retry THEN 2 ELSE 1
    /\ r.st \in {"reading", "refreshing", "resending"} => r.retry /\ r.sends = 1
    /\ r.st \in {"refreshing", "resending"} => r.token # NoToken

CallsInv == \A c \in Calls : CallShape(call[c])

(* A tab that has yet to read the session has no user, and no form.        *)
BootInv ==
    \A t \in Tabs : phase[t] \in {"loading", "reading"} =>
                      ctx[t].user = NoUser /\ signing[t] = NoUser

(* A session that was ended has no user, whatever tokens come back.        *)
OutInv == out => store.user = NoUser

(* What tab t has still to store belongs to a session, and of a sign-in    *)
(* the user comes last.                                                    *)
JobSound(t) ==
    /\ job[t].left # {} => job[t].token # NoToken
    /\ "user" \in job[t].left =>
          /\ job[t].user # NoUser
          /\ "token" \notin job[t].left => store.token # NoToken
          /\ "refresh" \notin job[t].left => store.refresh # NoToken

(* Without an excuse, no tab is on its way out, nothing is removed, and    *)
(* whoever shows the pages or waits for an answer finds a whole session in *)
(* the store, or is about to store it.                                     *)
InnocentInv ==
    Innocent =>
        /\ \A t \in Tabs : phase[t] # "leaving"
        /\ \A t \in Tabs : JobSound(t)
        /\ \A t \in Tabs : isAuthenticated(t) /\ "user" \notin job[t].left
                             => store.user # NoUser
        /\ \A c \in Calls : call[c].st # "idle" => store.user # NoUser
        /\ \A c \in Calls : call[c].st = "reading" => call[c].token # NoToken
        /\ store.user # NoUser => store.token # NoToken /\ store.refresh # NoToken

SessionInv == TypeOK /\ CallsInv /\ BootInv /\ OutInv /\ InnocentInv

-----------------------------------------------------------------------------
(* The records of a tab and a call at rest are well-formed.                *)
LEMMA RestType ==
    /\ NoSession \in Sessions
    /\ NoContext \in Contexts
    /\ NoJob \in JobRecord
    /\ Idle \in CallRecord
    /\ CallShape(Idle)
    /\ Idle.st = "idle"
BY DEF NoSession, Sessions, NoContext, Contexts, NoJob, JobRecord, Idle, CallRecord,
       CallShape, MaybeToken, MaybeUser

(* A token is told from the absence of one, and has an age from 1 on.      *)
LEMMA TokenFacts ==
    ASSUME NEW token \in Tokens
    PROVE  /\ token # NoToken
           /\ token \in MaybeToken
           /\ token.gen \in Int /\ token.gen > 0
           /\ token.user \in Users /\ token.user # NoUser
BY SessionAssumption DEF Tokens, MaybeToken

(* The new tokens that the server issues.                                  *)
LEMMA IssueFacts ==
    ASSUME TypeOK, NEW u \in Users, NEW token \in Tokens, Issue(u, token)
    PROVE  /\ gen' \in 0 .. MaxTokens
           /\ accessHorizon' \in 0 .. gen'
           /\ refreshHorizon' \in 0 .. accessHorizon'
           /\ refreshHorizon' = refreshHorizon
BY SessionAssumption DEF TypeOK, Issue

(* A call that is settled leaves the others alone.                         *)
LEMMA SettleFacts ==
    ASSUME call \in [Calls -> CallRecord], CallsInv, NEW c \in Calls, Settle(c)
    PROVE  /\ call' \in [Calls -> CallRecord]
           /\ CallsInv'
           /\ \A d \in Calls : call'[d].st # "idle" => call[d].st # "idle"
<1>1. \A d \in Calls : call'[d] = IF d = c THEN Idle ELSE call[d]
  BY DEF Settle
<1>2. call' \in [Calls -> CallRecord]
  BY RestType DEF Settle
<1>3. CallsInv'
  <2> SUFFICES ASSUME NEW d \in Calls PROVE CallShape(call[d])'
    BY DEF CallsInv
  <2>1. CallShape(call[d])
    BY DEF CallsInv
  <2> QED
    BY <1>1, <2>1, RestType DEF CallShape
<1> QED
  BY <1>1, <1>2, <1>3, RestType

(* A page load starts from a well-formed session or from none.             *)
LEMMA InitInv == Init => SessionInv
<1> SUFFICES ASSUME Init PROVE SessionInv
  OBVIOUS
<1>a. out \in BOOLEAN /\ excused \in BOOLEAN
  BY Zenon DEF Init
<1>b. /\ ctx \in [Tabs -> Contexts]
      /\ phase \in [Tabs -> {"loading", "reading", "running", "leaving"}]
      /\ job \in [Tabs -> JobRecord]
      /\ signing \in [Tabs -> MaybeUser]
      /\ call \in [Calls -> CallRecord]
  BY RestType DEF Init, MaybeUser
<1>c. store \in Sessions /\ gen \in 0 .. MaxTokens => TypeOK
  BY <1>a, <1>b, SessionAssumption
  DEF Init, TypeOK, Sessions, Contexts, CallRecord, JobRecord
<1>d. CallsInv /\ BootInv
  BY RestType DEF Init, CallsInv, BootInv, NoContext
<1>e. (store.user # NoUser => store.token # NoToken /\ store.refresh # NoToken)
      => InnocentInv
  BY RestType DEF Init, InnocentInv, JobSound, isAuthenticated, NoContext, NoJob
<1>1. CASE store = NoSession /\ gen = 0
  <2>1. TypeOK
    BY <1>1, <1>c, RestType, SessionAssumption
  <2>2. OutInv /\ InnocentInv
    BY <1>1, <1>e DEF OutInv, NoSession
  <2> QED
    BY <1>d, <2>1, <2>2 DEF SessionInv
<1>2. ASSUME NEW u \in Users, MaxTokens > 0, gen = 1,
             store = [token |-> [user |-> u, gen |-> 1],
                      refresh |-> [user |-> u, gen |-> 1], user |-> u]
      PROVE  SessionInv
  <2>1. [user |-> u, gen |-> 1] \in Tokens
    BY <1>2, SessionAssumption DEF Tokens
  <2>2. store \in Sessions
    BY <1>2, <2>1 DEF Sessions, MaybeToken, MaybeUser
  <2>3. TypeOK
    BY <1>2, <1>c, <2>2, SessionAssumption
  <2>4. InnocentInv
    BY <1>2, <1>e, <2>1, TokenFacts
  <2>5. OutInv
    BY <1>2, SessionAssumption DEF Init, OutInv, NoSession
  <2> QED
    BY <1>d, <2>3, <2>4, <2>5 DEF SessionInv
<1> QED
  BY <1>1, <1>2 DEF Init

-----------------------------------------------------------------------------
(* Steps of a tab.                                                         *)

(* Storing or removing one item keeps the invariant.  The user comes last: *)
(* when it is stored, both tokens are there.                               *)
LEMMA WriteInv == ASSUME SessionInv, NEW t \in Tabs, Write(t) PROVE SessionInv'
<1> DEFINE item == First(job[t].left)
           rest == IF job[t].left = {item} THEN NoJob
                   ELSE [job[t] EXCEPT !.left = @ \ {item}]
<1>1. TypeOK /\ CallsInv /\ BootInv /\ OutInv /\ InnocentInv
  BY DEF SessionInv
<1>2. job \in [Tabs -> JobRecord] /\ store \in Sessions
  BY <1>1 DEF TypeOK, JobRecord, Sessions
<1>3. /\ job[t] \in JobRecord /\ job[t].left # {} /\ job[t].left \subseteq Items
      /\ job[t].token \in MaybeToken /\ job[t].user \in MaybeUser
  BY <1>2 DEF Write, JobRecord
<1>4. item \in job[t].left /\ (item = "user" => job[t].left = {"user"})
  BY <1>3 DEF First, Items
<1>5. rest \in JobRecord
  BY <1>3, RestType DEF JobRecord
<1>6. /\ rest.left = job[t].left \ {item}
      /\ rest.left # {} => rest.token = job[t].token /\ rest.user = job[t].user
  BY <1>3, <1>4 DEF NoJob, JobRecord
<1>7. /\ store' = [token   |-> IF item = "token" THEN job[t].token ELSE store.token,
                   refresh |-> IF item = "refresh" THEN job[t].token ELSE store.refresh,
                   user    |-> IF item = "user" THEN job[t].user ELSE store.user]
      /\ job' = [job EXCEPT ![t] = rest]
      /\ out' = IF item = "user" THEN job[t].user = NoUser ELSE out
      /\ UNCHANGED <<ctx, phase, signing, call, server, excused>>
  BY DEF Write
<1>8. store' \in Sessions /\ job' \in [Tabs -> JobRecord]
  BY <1>2, <1>3, <1>5, <1>7 DEF Sessions
<1>9. out' \in BOOLEAN
  BY <1>1, <1>7, Zenon DEF TypeOK
<1>10. TypeOK'
  BY <1>1, <1>7, <1>8, <1>9 DEF TypeOK, Sessions, JobRecord, server
<1>11. CallsInv' /\ BootInv'
  BY <1>1, <1>7 DEF CallsInv, CallShape, BootInv
<1>12. OutInv'
  BY <1>1, <1>7 DEF OutInv
<1>13. InnocentInv'
  <2> SUFFICES ASSUME Innocent PROVE InnocentInv'
    BY <1>7 DEF InnocentInv, Innocent, server
  <2>1. /\ \A r \in Tabs : phase[r] # "leaving"
        /\ \A r \in Tabs : JobSound(r)
        /\ \A r \in Tabs : isAuthenticated(r) /\ "user" \notin job[r].left
                             => store.user # NoUser
        /\ \A c \in Calls : call[c].st # "idle" => store.user # NoUser
        /\ \A c \in Calls : call[c].st = "reading" => call[c].token # NoToken
        /\ store.user # NoUser => store.token # NoToken /\ store.refresh # NoToken
    BY <1>1 DEF InnocentInv
  <2>2. job[t].token # NoToken /\ (item = "user" => job[t].user # NoUser)
    BY <1>3, <1>4, <2>1 DEF JobSound
  <2>3. /\ store.token # NoToken => store'.token # NoToken
        /\ store.refresh # NoToken => store'.refresh # NoToken
        /\ store.user # NoUser => store'.user # NoUser
        /\ item = "token" => store'.token # NoToken
        /\ item = "refresh" => store'.refresh # NoToken
        /\ item = "user" => store'.user # NoUser
        /\ item # "user" => store'.user = store.user
    BY <1>7, <2>2
  <2>4. \A r \in Tabs : r # t => job'[r] = job[r]
    BY <1>2, <1>7
  <2>5. job'[t] = rest
    BY <1>2, <1>7
  <2>6. \A r \in Tabs : JobSound(r)'
    <3> SUFFICES ASSUME NEW r \in Tabs PROVE JobSound(r)'
      OBVIOUS
    <3>1. CASE r # t
      BY <2>1, <2>3, <2>4, <3>1 DEF JobSound
    <3>2. CASE r = t
      BY <1>3, <1>4, <1>6, <2>1, <2>2, <2>3, <2>5, <3>2 DEF JobSound
    <3> QED
      BY <3>1, <3>2
  <2>7. \A r \in Tabs : isAuthenticated(r)' /\ "user" \notin job'[r].left
                          => store'.user # NoUser
    <3> SUFFICES ASSUME NEW r \in Tabs, isAuthenticated(r), "user" \notin job'[r].left
                 PROVE  store'.user # NoUser
      BY <1>7 DEF isAuthenticated
    <3>1. CASE r # t
      BY <2>1, <2>3, <2>4, <3>1
    <3>2. CASE r = t
      BY <1>6, <2>1, <2>3, <2>5, <3>2
    <3> QED
      BY <3>1, <3>2
  <2>8. store'.user # NoUser => store'.token # NoToken /\ store'.refresh # NoToken
    <3>1. CASE item = "user"
      BY <1>4, <2>1, <2>3, <3>1 DEF JobSound
    <3>2. CASE item # "user"
      BY <2>1, <2>3, <3>2
    <3> QED
      BY <3>1, <3>2
  <2>9. /\ \A r \in Tabs : phase'[r] # "leaving"
        /\ \A c \in Calls : call'[c].st # "idle" => store'.user # NoUser
        /\ \A c \in Calls : call'[c].st = "reading" => call'[c].token # NoToken
    BY <1>7, <2>1, <2>3
  <2> QED
    BY <2>6, <2>7, <2>8, <2>9 DEF InnocentInv
<1> QED
  BY <1>10, <1>11, <1>12, <1>13 DEF SessionInv

(* Reading the token on a page load keeps the invariant.                   *)
LEMMA MountInv == ASSUME SessionInv, NEW t \in Tabs, Mount(t) PROVE SessionInv'
<1>1. TypeOK /\ CallsInv /\ BootInv /\ OutInv /\ InnocentInv
  BY DEF SessionInv
<1>2. ctx \in [Tabs -> Contexts] /\ store.token \in MaybeToken
  BY <1>1 DEF TypeOK, Contexts
<1>3. /\ ctx' \in [Tabs -> Contexts]
      /\ \A r \in Tabs : ctx'[r].user = ctx[r].user /\ (r # t => ctx'[r] = ctx[r])
  BY <1>2 DEF Mount, Contexts
<1>4. /\ phase' \in [Tabs -> {"loading", "reading", "running", "leaving"}]
      /\ phase[t] = "loading"
      /\ \A r \in Tabs : phase'[r] = IF r = t THEN "reading" ELSE phase[r]
  BY <1>1 DEF Mount, TypeOK
<1>5. TypeOK'
  BY <1>1, <1>3, <1>4 DEF Mount, TypeOK, server, Contexts
<1>6. CallsInv' /\ OutInv'
  BY <1>1 DEF Mount, CallsInv, CallShape, OutInv
<1>7. BootInv'
  BY <1>1, <1>3, <1>4 DEF Mount, BootInv
<1>8. \A r \in Tabs : isAuthenticated(r)' => isAuthenticated(r)
  BY <1>1, <1>3, <1>4 DEF BootInv, isAuthenticated
<1>9. InnocentInv'
  BY <1>1, <1>4, <1>8 DEF Mount, InnocentInv, JobSound, Innocent, server
<1> QED
  BY <1>5, <1>6, <1>7, <1>9 DEF SessionInv

(* Reading the user keeps the invariant: it opens the pages only over a    *)
(* session that is stored.                                                 *)
LEMMA MountUserInv == ASSUME SessionInv, NEW t \in Tabs, MountUser(t) PROVE SessionInv'
<1> DEFINE new == IF ctx[t].token = NoToken \/ store.user = NoUser THEN NoContext
                  ELSE [token |-> ctx[t].token, user |-> store.user]
<1>1. TypeOK /\ CallsInv /\ BootInv /\ OutInv /\ InnocentInv
  BY DEF SessionInv
<1>2. ctx \in [Tabs -> Contexts] /\ store.user \in MaybeUser
  BY <1>1 DEF TypeOK, Contexts
<1>3. new \in Contexts /\ (new.user # NoUser => store.user # NoUser)
  BY <1>2, RestType DEF Contexts, NoContext
<1>4. /\ ctx' \in [Tabs -> Contexts]
      /\ \A r \in Tabs : ctx'[r] = IF r = t THEN new ELSE ctx[r]
  BY <1>2, <1>3 DEF MountUser
<1>5. /\ phase' \in [Tabs -> {"loading", "reading", "running", "leaving"}]
      /\ \A r \in Tabs : phase'[r] = IF r = t THEN "running" ELSE phase[r]
  BY <1>1 DEF MountUser, TypeOK
<1>6. TypeOK'
  BY <1>1, <1>4, <1>5 DEF MountUser, TypeOK, server, Contexts
<1>7. CallsInv' /\ OutInv'
  BY <1>1 DEF MountUser, CallsInv, CallShape, OutInv
<1>8. BootInv'
  BY <1>1, <1>4, <1>5 DEF MountUser, BootInv
<1>9. \A r \in Tabs : isAuthenticated(r)' => isAuthenticated(r) \/ store.user # NoUser
  BY <1>3, <1>4 DEF isAuthenticated
<1>10. InnocentInv'
  BY <1>1, <1>5, <1>9 DEF MountUser, InnocentInv, JobSound, Innocent, server
<1> QED
  BY <1>6, <1>7, <1>8, <1>10 DEF SessionInv

(* The answer to a sign-in keeps the invariant: all three items are yet to *)
(* be stored.                                                              *)
LEMMA LoginInv == ASSUME SessionInv, NEW t \in Tabs, login(t) PROVE SessionInv'
<1>1. TypeOK /\ CallsInv /\ BootInv /\ OutInv /\ InnocentInv
  BY DEF SessionInv
<1>2. signing[t] \in Users /\ signing[t] # NoUser
  BY <1>1 DEF login, TypeOK, MaybeUser
<1>3. PICK token \in Tokens :
        /\ Issue(signing[t], token)
        /\ ctx' = [ctx EXCEPT ![t] = [token |-> token, user |-> signing[t]]]
        /\ SetAll(t, token, signing[t])
  BY DEF login
<1> DEFINE new == [token |-> token, user |-> signing[t]]
           all == [left |-> Items, token |-> token, user |-> signing[t]]
<1>4. token \in MaybeToken /\ token # NoToken
  BY TokenFacts
<1>5. new \in Contexts /\ all \in JobRecord
  BY <1>2, <1>4 DEF Contexts, JobRecord, MaybeUser
<1>6. /\ ctx' \in [Tabs -> Contexts]
      /\ \A r \in Tabs : ctx'[r] = IF r = t THEN new ELSE ctx[r]
  BY <1>1, <1>3, <1>5 DEF TypeOK, Contexts
<1>7. /\ job' \in [Tabs -> JobRecord]
      /\ \A r \in Tabs : job'[r] = IF r = t THEN all ELSE job[r]
  BY <1>1, <1>3, <1>5 DEF TypeOK, JobRecord, SetAll
<1>8. /\ gen' \in 0 .. MaxTokens
      /\ accessHorizon' \in 0 .. gen'
      /\ refreshHorizon' \in 0 .. accessHorizon'
      /\ refreshHorizon' = refreshHorizon
  BY <1>1, <1>2, <1>3, IssueFacts
<1>9. TypeOK'
  BY <1>1, <1>6, <1>7, <1>8 DEF login, TypeOK, JobRecord, Contexts, MaybeUser
<1>10. CallsInv' /\ OutInv'
  BY <1>1 DEF login, CallsInv, CallShape, OutInv
<1>11. BootInv'
  BY <1>1, <1>2, <1>6 DEF login, BootInv, TypeOK
<1>12. InnocentInv'
  <2> SUFFICES ASSUME Innocent PROVE InnocentInv'
    BY <1>8 DEF login, InnocentInv, Innocent
  <2>1. \A r \in Tabs : JobSound(r)'
    BY <1>1, <1>2, <1>4, <1>7 DEF login, InnocentInv, JobSound, Items
  <2>2. \A r \in Tabs : isAuthenticated(r)' /\ "user" \notin job'[r].left
                          => store'.user # NoUser
    BY <1>1, <1>6, <1>7 DEF login, InnocentInv, isAuthenticated, Items
  <2> QED
    BY <1>1, <2>1, <2>2 DEF login, InnocentInv
<1> QED
  BY <1>9, <1>10, <1>11, <1>12 DEF SessionInv

(* The removal of all items that a tab begins leaves it well-typed.        *)
LEMMA RemoveAllFacts ==
    ASSUME TypeOK, NEW t \in Tabs, RemoveAll(t)
    PROVE  job' \in [Tabs -> JobRecord]
<1>1. [left |-> Items, token |-> NoToken, user |-> NoUser] \in JobRecord
  BY DEF JobRecord, MaybeToken, MaybeUser
<1> QED
  BY <1>1 DEF RemoveAll, SetAll, TypeOK, JobRecord

(* Signing out keeps the invariant.                                        *)
LEMMA LogoutInv == ASSUME SessionInv, NEW t \in Tabs, logout(t) PROVE SessionInv'
<1>1. TypeOK /\ CallsInv /\ BootInv /\ OutInv
  BY DEF SessionInv
<1>2. /\ ctx' \in [Tabs -> Contexts]
      /\ \A r \in Tabs : ctx'[r] = IF r = t THEN NoContext ELSE ctx[r]
  BY <1>1, RestType DEF logout, TypeOK, Contexts
<1>3. job' \in [Tabs -> JobRecord]
  BY <1>1, RemoveAllFacts DEF logout
<1>4. TypeOK'
  BY <1>1, <1>2, <1>3 DEF logout, TypeOK, JobRecord, Contexts, server
<1>5. CallsInv' /\ OutInv'
  BY <1>1 DEF logout, CallsInv, CallShape, OutInv
<1>6. BootInv'
  BY <1>1, <1>2 DEF logout, BootInv, NoContext
<1>7. InnocentInv'
  BY DEF logout, InnocentInv, Innocent
<1> QED
  BY <1>4, <1>5, <1>6, <1>7 DEF SessionInv

(* Loading the page again keeps the invariant.                             *)
LEMMA LoadInv == ASSUME SessionInv, NEW t \in Tabs, Load(t) PROVE SessionInv'
<1>1. TypeOK /\ CallsInv /\ BootInv /\ OutInv /\ InnocentInv
  BY DEF SessionInv
<1>2. call \in [Calls -> CallRecord]
  BY <1>1 DEF TypeOK, CallRecord
<1>3. \A c \in Calls : call'[c] = IF TabOf(c) = t THEN Idle ELSE call[c]
  BY DEF Load
<1>4. call' \in [Calls -> CallRecord]
  BY <1>2, RestType DEF Load
<1>5. /\ ctx' \in [Tabs -> Contexts]
      /\ \A r \in Tabs : ctx'[r] = IF r = t THEN NoContext ELSE ctx[r]
  BY <1>1, RestType DEF Load, TypeOK, Contexts
<1>6. /\ phase' \in [Tabs -> {"loading", "reading", "running", "leaving"}]
      /\ \A r \in Tabs : phase'[r] = IF r = t THEN "loading" ELSE phase[r]
  BY <1>1 DEF Load, TypeOK
<1>7. /\ signing' \in [Tabs -> MaybeUser]
      /\ \A r \in Tabs : signing'[r] = IF r = t THEN NoUser ELSE signing[r]
  BY <1>1 DEF Load, TypeOK, MaybeUser
<1>8. TypeOK'
  BY <1>1, <1>4, <1>5, <1>6, <1>7 DEF Load, TypeOK, CallRecord, Contexts, server
<1>9. CallsInv'
  <2> SUFFICES ASSUME NEW c \in Calls PROVE CallShape(call[c])'
    BY DEF CallsInv
  <2>1. CallShape(call[c])
    BY <1>1 DEF CallsInv
  <2> QED
    BY <1>3, <2>1, RestType DEF CallShape
<1>10. BootInv' /\ OutInv'
  BY <1>1, <1>5, <1>6, <1>7 DEF Load, BootInv, OutInv, NoContext
<1>11. \A r \in Tabs : isAuthenticated(r)' => isAuthenticated(r)
  BY <1>5 DEF isAuthenticated, NoContext
<1>12. \A c \in Calls : call'[c].st = "idle" \/ call'[c] = call[c]
  BY <1>3, RestType
<1>13. InnocentInv'
  BY <1>1, <1>6, <1>11, <1>12 DEF Load, InnocentInv, JobSound, Innocent, server
<1> QED
  BY <1>8, <1>9, <1>10, <1>13 DEF SessionInv

-----------------------------------------------------------------------------
(* Steps of a call.                                                        *)

(* A step that gives call c the record new, and begins no job, keeps the   *)
(* invariant if new has the right shape and, without an excuse, a session  *)
(* in the store behind it.                                                 *)
LEMMA CallStepInv ==
    ASSUME SessionInv, NEW c \in Calls, NEW new \in CallRecord, CallShape(new),
           call' = [call EXCEPT ![c] = new],
           UNCHANGED <<store, ctx, phase, job, signing, server, out, excused>>,
           Innocent /\ new.st # "idle" => store.user # NoUser,
           Innocent /\ new.st = "reading" => new.token # NoToken
    PROVE  SessionInv'
<1>1. TypeOK /\ CallsInv /\ BootInv /\ OutInv /\ InnocentInv
  BY DEF SessionInv
<1>2. call \in [Calls -> CallRecord]
  BY <1>1 DEF TypeOK, CallRecord
<1>3. call' \in [Calls -> CallRecord]
      /\ \A d \in Calls : call'[d] = IF d = c THEN new ELSE call[d]
  BY <1>2
<1>4. TypeOK'
  BY <1>1, <1>3 DEF TypeOK, CallRecord, server
<1>5. CallsInv'
  <2> SUFFICES ASSUME NEW d \in Calls PROVE CallShape(call[d])'
    BY DEF CallsInv
  <2>1. CallShape(call[d])
    BY <1>1 DEF CallsInv
  <2> QED
    BY <1>3, <2>1 DEF CallShape
<1>6. BootInv' /\ OutInv'
  BY <1>1 DEF BootInv, OutInv
<1>7. InnocentInv'
  BY <1>1, <1>3 DEF InnocentInv, JobSound, Innocent, isAuthenticated, server
<1> QED
  BY <1>4, <1>5, <1>6, <1>7 DEF SessionInv

(* Sending a call keeps the invariant: whoever sends shows the pages.      *)
LEMMA SendInv ==
    ASSUME SessionInv, NEW c \in Calls, NEW via \in {"api", "fetch"},
           NEW token \in MaybeToken, Send(c, via, token)
    PROVE  SessionInv'
<1> DEFINE new == [st |-> "sent", via |-> via, token |-> token, retry |-> FALSE, sends |-> 1]
<1>1. TypeOK /\ InnocentInv
  BY DEF SessionInv
<1>2. new \in CallRecord /\ CallShape(new)
  BY DEF CallRecord, CallShape
<1>3. isAuthenticated(TabOf(c)) /\ TabOf(c) \in Tabs /\ job[TabOf(c)].left = {}
  BY <1>1, SessionAssumption DEF Send, View, Free, TypeOK
<1>4. Innocent => store.user # NoUser
  BY <1>1, <1>3 DEF InnocentInv
<1> QED
  BY <1>2, <1>4, CallStepInv DEF Send

(* A call that is settled without more ado keeps the invariant.            *)
LEMMA SettleInv ==
    ASSUME SessionInv, NEW c \in Calls, Settle(c),
           UNCHANGED <<store, ctx, phase, job, signing, server, out, excused>>
    PROVE  SessionInv'
BY RestType, CallStepInv DEF Settle

(* A 401 keeps the invariant: a call that was sent without an excuse finds *)
(* a refresh token.                                                        *)
LEMMA UnauthorizedInv ==
    ASSUME SessionInv, NEW c \in Calls, Unauthorized(c)
    PROVE  SessionInv'
<1>1. TypeOK /\ CallsInv /\ InnocentInv
  BY DEF SessionInv
<1>2. call \in [Calls -> CallRecord] /\ call[c].st = "sent" /\ store.refresh \in MaybeToken
  BY <1>1 DEF Unauthorized, TypeOK, CallRecord
<1>3. CASE Settle(c)
  BY <1>3, SettleInv DEF Unauthorized
<1>4. CASE /\ ~call[c].retry
           /\ call' = [call EXCEPT ![c].st = "reading", ![c].retry = TRUE,
                                   ![c].token = store.refresh]
  <2> DEFINE new == [call[c] EXCEPT !.st = "reading", !.retry = TRUE,
                                    !.token = store.refresh]
  <2>1. call' = [call EXCEPT ![c] = new]
    BY <1>2, <1>4
  <2>2. /\ new \in CallRecord
        /\ new.st = "reading" /\ new.retry = TRUE /\ new.token = store.refresh
        /\ new.sends = call[c].sends
    BY <1>2 DEF CallRecord
  <2>3. CallShape(call[c])
    BY <1>1 DEF CallsInv
  <2>4. CallShape(new)
    BY <1>2, <1>4, <2>2, <2>3 DEF CallShape
  <2>5. Innocent => store.user # NoUser /\ store.refresh # NoToken
    BY <1>1, <1>2 DEF InnocentInv
  <2> HIDE DEF new
  <2> QED
    BY <2>1, <2>2, <2>4, <2>5, CallStepInv DEF Unauthorized
<1> QED
  BY <1>3, <1>4 DEF Unauthorized

(* Forcing a tab out keeps the invariant once there is an excuse.          *)
LEMMA ForceOutInv ==
    ASSUME SessionInv, NEW c \in Calls, ForceOut(c), excused' \in BOOLEAN, ~Innocent',
           UNCHANGED <<store, ctx, signing, server, out>>
    PROVE  SessionInv'
<1>1. TypeOK /\ CallsInv /\ BootInv /\ OutInv
  BY DEF SessionInv
<1>2. call' \in [Calls -> CallRecord] /\ CallsInv'
  BY <1>1, SettleFacts DEF ForceOut, TypeOK, CallRecord
<1>3. TabOf(c) \in Tabs
  BY SessionAssumption
<1>4. job' \in [Tabs -> JobRecord]
  BY <1>1, <1>3, RemoveAllFacts DEF ForceOut
<1>5. /\ phase' \in [Tabs -> {"loading", "reading", "running", "leaving"}]
      /\ \A r \in Tabs : phase'[r] = IF r = TabOf(c) THEN "leaving" ELSE phase[r]
  BY <1>1, <1>3 DEF ForceOut, TypeOK
<1>6. TypeOK'
  BY <1>1, <1>2, <1>4, <1>5 DEF TypeOK, CallRecord, JobRecord, server
<1>7. BootInv' /\ OutInv' /\ InnocentInv'
  BY <1>1, <1>5 DEF BootInv, OutInv, InnocentInv
<1> QED
  BY <1>2, <1>6, <1>7 DEF SessionInv

(* Looking for the user keeps the invariant: the tab is forced out only if *)
(* the session has gone from the store, which takes an excuse.             *)
LEMMA RefreshUserInv ==
    ASSUME SessionInv, NEW c \in Calls, RefreshUser(c)
    PROVE  SessionInv'
<1>1. TypeOK /\ CallsInv /\ InnocentInv
  BY DEF SessionInv
<1>2. call \in [Calls -> CallRecord] /\ call[c].st = "reading" /\ excused \in BOOLEAN
  BY <1>1 DEF RefreshUser, TypeOK, CallRecord
<1>3. CASE call[c].token = NoToken \/ store.user = NoUser
  <2>1. ~Innocent
    BY <1>1, <1>2, <1>3 DEF InnocentInv
  <2>2. ~Innocent' /\ excused' \in BOOLEAN
    BY <1>2, <2>1 DEF RefreshUser, Innocent, server
  <2> QED
    BY <1>3, <2>2, ForceOutInv DEF RefreshUser
<1>4. CASE ~(call[c].token = NoToken \/ store.user = NoUser)
  <2> DEFINE new == [call[c] EXCEPT !.st = "refreshing"]
  <2>1. call' = [call EXCEPT ![c] = new] /\ UNCHANGED <<job, phase>>
    BY <1>2, <1>4 DEF RefreshUser
  <2>2. /\ new \in CallRecord
        /\ new.st = "refreshing" /\ new.retry = call[c].retry /\ new.token = call[c].token
        /\ new.sends = call[c].sends
    BY <1>2 DEF CallRecord
  <2>3. CallShape(call[c])
    BY <1>1 DEF CallsInv
  <2>4. CallShape(new)
    BY <1>2, <1>4, <2>2, <2>3 DEF CallShape
  <2> HIDE DEF new
  <2> QED
    BY <1>4, <2>1, <2>2, <2>4, CallStepInv DEF RefreshUser
<1> QED
  BY <1>3, <1>4

(* A renewal that succeeds keeps the invariant: the tokens are yet to be   *)
(* stored, and the user in the store stays as it is.                       *)
LEMMA RefreshOKInv ==
    ASSUME SessionInv, NEW c \in Calls, RefreshOK(c)
    PROVE  SessionInv'
<1> DEFINE t == TabOf(c)
<1>1. TypeOK /\ CallsInv /\ BootInv /\ OutInv /\ InnocentInv
  BY DEF SessionInv
<1>2. /\ call \in [Calls -> CallRecord] /\ call[c].st = "refreshing"
      /\ t \in Tabs /\ job[t].left = {}
  BY <1>1, SessionAssumption DEF RefreshOK, Free, TypeOK, CallRecord
<1>3. CallShape(call[c])
  BY <1>1 DEF CallsInv
<1>4. call[c].token \in Tokens /\ call[c].token.user \in Users
  BY <1>2, <1>3, TokenFacts DEF CallShape, CallRecord, MaybeToken
<1>5. PICK token \in Tokens :
        /\ Issue(call[c].token.user, token)
        /\ job' = [job EXCEPT ![t] = [left |-> {"token", "refresh"},
                                      token |-> token, user |-> NoUser]]
        /\ call' = [call EXCEPT ![c].st = "resending", ![c].token = token]
  BY DEF RefreshOK
<1> DEFINE both == [left |-> {"token", "refresh"}, token |-> token, user |-> NoUser]
<1>6. token \in MaybeToken /\ token # NoToken
  BY TokenFacts
<1>7. both \in JobRecord
  BY <1>6 DEF JobRecord, Items, MaybeUser
<1>8. /\ job' \in [Tabs -> JobRecord]
      /\ \A r \in Tabs : job'[r] = IF r = t THEN both ELSE job[r]
  BY <1>1, <1>2, <1>5, <1>7 DEF TypeOK, JobRecord
<1>9. /\ call' \in [Calls -> CallRecord]
      /\ \A d \in Calls : d # c => call'[d] = call[d]
      /\ call'[c].st = "resending" /\ call'[c].retry = call[c].retry
      /\ call'[c].sends = call[c].sends /\ call'[c].token = token
  BY <1>2, <1>5, <1>6 DEF CallRecord
<1>10. /\ gen' \in 0 .. MaxTokens
       /\ accessHorizon' \in 0 .. gen'
       /\ refreshHorizon' \in 0 .. accessHorizon'
       /\ refreshHorizon' = refreshHorizon
  BY <1>1, <1>4, <1>5, IssueFacts
<1>11. TypeOK'
  BY <1>1, <1>8, <1>9, <1>10 DEF RefreshOK, TypeOK, JobRecord, CallRecord
<1>12. CallShape(call[c])'
  BY <1>2, <1>3, <1>6, <1>9 DEF CallShape
<1>13. CallsInv'
  BY <1>1, <1>9, <1>12 DEF CallsInv, CallShape
<1>14. BootInv' /\ OutInv'
  BY <1>1 DEF RefreshOK, BootInv, OutInv
<1>15. InnocentInv'
  <2> SUFFICES ASSUME Innocent PROVE InnocentInv'
    BY <1>10 DEF RefreshOK, InnocentInv, Innocent
  <2>1. \A r \in Tabs : JobSound(r)'
    BY <1>1, <1>6, <1>8 DEF RefreshOK, InnocentInv, JobSound
  <2>2. \A r \in Tabs : isAuthenticated(r)' /\ "user" \notin job'[r].left
                          => store'.user # NoUser
    BY <1>1, <1>2, <1>8 DEF RefreshOK, InnocentInv, isAuthenticated
  <2>3. /\ \A d \in Calls : call'[d].st # "idle" => store'.user # NoUser
        /\ \A d \in Calls : call'[d].st = "reading" => call'[d].token # NoToken
    BY <1>1, <1>2, <1>9 DEF RefreshOK, InnocentInv
  <2> QED
    BY <1>1, <2>1, <2>2, <2>3 DEF RefreshOK, InnocentInv
<1> QED
  BY <1>11, <1>13, <1>14, <1>15 DEF SessionInv

(* Sending the call again, for the second time, keeps the invariant.       *)
LEMMA ResendInv ==
    ASSUME SessionInv, NEW c \in Calls, Resend(c)
    PROVE  SessionInv'
<1> DEFINE token == IF store.token = NoToken THEN call[c].token ELSE store.token
           new == [call[c] EXCEPT !.st = "sent", !.sends = call[c].sends + 1, !.token = token]
<1>1. TypeOK /\ CallsInv /\ InnocentInv
  BY DEF SessionInv
<1>2. call \in [Calls -> CallRecord] /\ call[c].st = "resending" /\ store.token \in MaybeToken
  BY <1>1 DEF Resend, TypeOK, CallRecord
<1>3. call' = [call EXCEPT ![c] = new]
  BY <1>2 DEF Resend
<1>4. token \in MaybeToken /\ call[c] \in CallRecord /\ call[c].sends + 1 \in Nat
  BY <1>2 DEF CallRecord
<1> HIDE DEF token
<1>5. /\ new \in CallRecord
      /\ new.st = "sent" /\ new.retry = call[c].retry /\ new.sends = call[c].sends + 1
  BY <1>2, <1>4 DEF CallRecord
<1>6. CallShape(call[c])
  BY <1>1 DEF CallsInv
<1>7. CallShape(new)
  BY <1>2, <1>5, <1>6 DEF CallShape
<1>8. Innocent => store.user # NoUser
  BY <1>1, <1>2 DEF InnocentInv
<1> HIDE DEF new
<1> QED
  BY <1>3, <1>5, <1>7, <1>8, CallStepInv DEF Resend

(* A renewal that fails keeps the invariant: a refused refresh token has   *)
(* expired, and any other failure is an excuse.                            *)
LEMMA RefreshFailsInv ==
    ASSUME SessionInv, NEW c \in Calls, RefreshFails(c)
    PROVE  SessionInv'
<1>1. TypeOK /\ CallsInv
  BY DEF SessionInv
<1>2. CallShape(call[c]) /\ call[c].token \in MaybeToken
  BY <1>1 DEF CallsInv, TypeOK
<1>3. call[c].token \in Tokens
  BY <1>2 DEF CallShape, RefreshFails, MaybeToken
<1>4. excused' \in BOOLEAN
  BY <1>1 DEF RefreshFails, TypeOK
<1>5. CASE ~Renewable(call[c].token)
  <2>1. refreshHorizon # 0
    BY <1>1, <1>3, <1>5, TokenFacts DEF Renewable, TypeOK
  <2>2. ~Innocent'
    BY <2>1 DEF RefreshFails, Innocent, server
  <2> QED
    BY <1>4, <2>2, ForceOutInv DEF RefreshFails
<1>6. CASE excused' = TRUE
  BY <1>4, <1>6, ForceOutInv DEF RefreshFails, Innocent
<1> QED
  BY <1>5, <1>6 DEF RefreshFails

-----------------------------------------------------------------------------
(* Every step keeps the invariant.                                         *)
LEMMA StepInv == SessionInv /\ [Next]_vars => SessionInv'
<1> SUFFICES ASSUME SessionInv, [Next]_vars PROVE SessionInv'
  OBVIOUS
<1>1. TypeOK /\ CallsInv /\ BootInv /\ OutInv /\ InnocentInv
  BY DEF SessionInv
<1>2. ASSUME UNCHANGED <<store, ctx, phase, job, call, out, excused>>,
             signing' \in [Tabs -> MaybeUser],
             \A t \in Tabs : phase[t] \in {"loading", "reading"} =>
                               signing'[t] \in {signing[t], NoUser},
             gen' \in 0 .. MaxTokens, accessHorizon' \in 0 .. gen',
             refreshHorizon' \in 0 .. accessHorizon', refreshHorizon' >= refreshHorizon
      PROVE  SessionInv'
  <2>1. TypeOK'
    BY <1>1, <1>2 DEF TypeOK
  <2>2. CallsInv' /\ BootInv' /\ OutInv'
    BY <1>1, <1>2 DEF CallsInv, CallShape, BootInv, OutInv
  <2>3. Innocent' => Innocent
    BY <1>1, <1>2 DEF Innocent, TypeOK
  <2>4. InnocentInv'
    BY <1>1, <1>2, <2>3 DEF InnocentInv, JobSound, isAuthenticated
  <2> QED
    BY <2>1, <2>2, <2>4 DEF SessionInv
<1>3. CASE Expire
  BY <1>1, <1>2, <1>3, SessionAssumption DEF Expire, TypeOK
<1>4. ASSUME NEW t \in Tabs, NEW u \in Users, handleSubmit(t, u)
      PROVE  SessionInv'
  <2>1. phase[t] \notin {"loading", "reading"}
    BY <1>1, <1>4 DEF handleSubmit, View, TypeOK
  <2> QED
    BY <1>1, <1>2, <1>4, <2>1 DEF handleSubmit, server, TypeOK, MaybeUser
<1>5. ASSUME NEW t \in Tabs, loginFails(t)
      PROVE  SessionInv'
  BY <1>1, <1>2, <1>5 DEF loginFails, server, TypeOK, MaybeUser
<1>6. ASSUME NEW t \in Tabs, Mount(t) \/ login(t) \/ logout(t) \/ Load(t)
      PROVE  SessionInv'
  BY <1>6, MountInv, LoginInv, LogoutInv, LoadInv
<1>7. ASSUME NEW t \in Tabs, Continue(t)
      PROVE  SessionInv'
  BY <1>7, WriteInv, MountUserInv, RefreshUserInv, ResendInv DEF Continue
<1>8. ASSUME NEW c \in Calls, SendApi(c) \/ SendFetch(c)
      PROVE  SessionInv'
  <2>1. store.token \in MaybeToken /\ ctx[TabOf(c)].token \in MaybeToken
    BY <1>1, SessionAssumption DEF TypeOK
  <2> QED
    BY <1>8, <2>1, SendInv DEF SendApi, SendFetch
<1>9. ASSUME NEW c \in Calls, Served(c) \/ Lost(c)
      PROVE  SessionInv'
  BY <1>9, SettleInv DEF Served, Lost
<1>10. ASSUME NEW c \in Calls, Unauthorized(c) \/ RefreshOK(c) \/ RefreshFails(c)
       PROVE  SessionInv'
  BY <1>10, UnauthorizedInv, RefreshOKInv, RefreshFailsInv
<1>11. CASE UNCHANGED vars
  BY <1>1, <1>2, <1>11, SessionAssumption DEF vars, TypeOK
<1> QED
  BY <1>3, <1>4, <1>5, <1>6, <1>7, <1>8, <1>9, <1>10, <1>11 DEF Next, Answer, Renewal

(* The invariant holds in every state the program reaches.                 *)
LEMMA AlwaysInv == Spec => []SessionInv
BY InitInv, StepInv, PTL DEF Spec

(* The state of the tabs, the store and the server stays well-typed.       *)
THEOREM TypeCorrect == Spec => []TypeOK
<1>1. SessionInv => TypeOK
  BY DEF SessionInv
<1> QED
  BY <1>1, AlwaysInv, PTL

(* No call is sent more than twice, however tokens expire and whoever else *)
(* renews them (api.ts:38).                                                *)
THEOREM CallsAreSentTwice == Spec => []SentAtMostTwice
<1>1. SessionInv => SentAtMostTwice
  <2> SUFFICES ASSUME SessionInv, NEW c \in Calls PROVE call[c].sends <= 2
    BY DEF SentAtMostTwice
  <2>1. CallShape(call[c])
    BY DEF SessionInv, CallsInv
  <2>2. call[c].st \in {"idle", "sent", "reading", "refreshing", "resending"}
    BY DEF SessionInv, TypeOK
  <2> QED
    BY <2>1, <2>2 DEF CallShape, Idle
<1> QED
  BY <1>1, AlwaysInv, PTL

(* Until a sign-out, a failed renewal or an expired refresh token, a       *)
(* stored user comes with both tokens at every moment, although tabs store *)
(* the three items one by one and without a lock (AuthContext.tsx:61,      *)
(* api.ts:62).                                                             *)
THEOREM SessionIsWhole == Spec => []SessionWhole
<1>1. SessionInv => SessionWhole
  BY DEF SessionInv, InnocentInv, SessionWhole
<1> QED
  BY <1>1, AlwaysInv, PTL

(* Nobody is sent to the login page without a failure of the server, an    *)
(* expired refresh token or a sign-out: renewals of several calls or tabs  *)
(* do not spoil one another (api.ts:42, :70; jwt.go:122).                  *)
THEOREM NobodyIsForcedOut == Spec => []ForcedOutExcused
<1>1. SessionInv => ForcedOutExcused
  BY DEF SessionInv, InnocentInv, ForcedOutExcused
<1> QED
  BY <1>1, AlwaysInv, PTL

(* After a sign-out no tab comes to show the pages before somebody signs   *)
(* in, although tokens may be back in the store: the user, which only a    *)
(* sign-in stores, is what a page load asks for (AuthContext.tsx:37).      *)
THEOREM SignedOutIsFinal == Spec => SignedOutStays
<1>1. SessionInv /\ [Next]_vars =>
        [\A t \in Tabs : ~isAuthenticated(t) /\ isAuthenticated(t)' => ~out']_vars
  <2> SUFFICES ASSUME SessionInv, Next, NEW t \in Tabs,
                      ~isAuthenticated(t), isAuthenticated(t)'
               PROVE  ~out'
    OBVIOUS
  <2>1. TypeOK /\ BootInv /\ OutInv
    BY DEF SessionInv
  <2>2. CASE ctx' = ctx
    BY <2>2 DEF isAuthenticated
  <2>3. ASSUME NEW r \in Tabs, Mount(r)
        PROVE  FALSE
    BY <2>1, <2>3 DEF Mount, BootInv, isAuthenticated, TypeOK
  <2>4. ASSUME NEW r \in Tabs, MountUser(r)
        PROVE  ~out'
    <3>1. store.user # NoUser
      BY <2>1, <2>4 DEF MountUser, isAuthenticated, NoContext, TypeOK
    <3> QED
      BY <2>1, <2>4, <3>1 DEF MountUser, OutInv
  <2>5. ASSUME NEW r \in Tabs, login(r)
        PROVE  ~out'
    BY <2>5 DEF login
  <2>6. ASSUME NEW r \in Tabs, logout(r) \/ Load(r)
        PROVE  FALSE
    BY <2>1, <2>6 DEF logout, Load, isAuthenticated, NoContext, TypeOK
  <2> QED
    BY <2>2, <2>3, <2>4, <2>5, <2>6
    DEF Next, Expire, Continue, Write, RefreshUser, Resend, handleSubmit, loginFails,
        SendApi, SendFetch, Send, Answer, Served, Unauthorized, Renewal, RefreshOK,
        RefreshFails, Lost
<1> QED
  BY <1>1, AlwaysInv, PTL DEF Spec, SignedOutStays
=============================================================================
