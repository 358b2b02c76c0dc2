---------------------------- MODULE AdminSession ----------------------------
(***************************************************************************)
(* Signing in to the admin interface, and the calls it makes: AuthContext, *)
(* the interceptors of lib/api.ts, the login form and the sign-out button, *)
(* in several browser tabs that share localStorage, against the token      *)
(* service of the server, with authentication required.                    *)
(*                                                                         *)
(* A call stands for any request a page makes, with its answer still to    *)
(* come.  Tokens issued together share an age, gen; those at or below a    *)
(* horizon have expired.  A request and its processing by the server are   *)
(* one step with the arrival of the answer.  The code of a tab runs to its *)
(* end before the tab does anything else, but tabs take no lock: each      *)
(* setItem, removeItem and getItem is a step of its own.                   *)
(***************************************************************************)
EXTENDS Integers

CONSTANTS Users, Tabs, Calls,
          TabOf(_),         \* the tab a call belongs to
          MaxTokens,        \* bound on the pairs of tokens ever issued
          NoUser, NoToken

ASSUME SessionAssumption ==
    /\ NoUser \notin Users
    /\ MaxTokens \in Nat
    /\ NoToken \notin [user : Users, gen : 1 .. MaxTokens]
    /\ \A c \in Calls : TabOf(c) \in Tabs

VARIABLES
    store,            \* localStorage: konsul_token, konsul_refresh_token, konsul_user
    ctx,              \* per tab: token and user of AuthContext
    phase,            \* per tab: loading, reading the session, running, leaving
    job,              \* per tab: the items it has still to store, and as what
    signing,          \* per tab: the user being signed in
    call,
    gen,              \* pairs of tokens issued
    accessHorizon,    \* ages up to which access and refresh tokens have expired
    refreshHorizon,
    out,              \* history: the session was ended and none begun since
    excused           \* history: whether a sign-out or the server may end a session

vars == <<store, ctx, phase, job, signing, call, gen, accessHorizon, refreshHorizon,
          out, excused>>
server == <<gen, accessHorizon, refreshHorizon>>

Tokens == [user : Users, gen : 1 .. MaxTokens]
MaybeToken == Tokens \cup {NoToken}
MaybeUser == Users \cup {NoUser}

NoSession == [token |-> NoToken, refresh |-> NoToken, user |-> NoUser]
NoContext == [token |-> NoToken, user |-> NoUser]
NoJob == [left |-> {}, token |-> NoToken, user |-> NoUser]
Items == {"token", "refresh", "user"}
Idle == [st |-> "idle", via |-> "api", token |-> NoToken, retry |-> FALSE, sends |-> 0]

TypeOK ==
    /\ store \in [token : MaybeToken, refresh : MaybeToken, user : MaybeUser]
    /\ ctx \in [Tabs -> [token : MaybeToken, user : MaybeUser]]
    /\ phase \in [Tabs -> {"loading", "reading", "running", "leaving"}]
    /\ job \in [Tabs -> [left : SUBSET Items, token : MaybeToken, user : MaybeUser]]
    /\ signing \in [Tabs -> MaybeUser]
    /\ call \in [Calls -> [st : {"idle", "sent", "reading", "refreshing", "resending"},
                           via : {"api", "fetch"}, token : MaybeToken,
                           retry : BOOLEAN, sends : Nat]]
    /\ gen \in 0 .. MaxTokens
    /\ refreshHorizon \in 0 .. accessHorizon
    /\ accessHorizon \in 0 .. gen
    /\ out \in BOOLEAN
    /\ excused \in BOOLEAN

(* The first tab opens over what an earlier visit has left.                *)
Init ==
    /\ \/ store = NoSession /\ gen = 0
       \/ /\ MaxTokens > 0
          /\ \E u \in Users : LET first == [user |-> u, gen |-> 1]
                              IN  store = [token |-> first, refresh |-> first, user |-> u]
          /\ gen = 1
    /\ ctx = [t \in Tabs |-> NoContext]
    /\ phase = [t \in Tabs |-> "loading"]
    /\ job = [t \in Tabs |-> NoJob]
    /\ signing = [t \in Tabs |-> NoUser]
    /\ call = [c \in Calls |-> Idle]
    /\ accessHorizon = 0
    /\ refreshHorizon = 0
    /\ out = (store = NoSession)
    /\ excused = FALSE

-----------------------------------------------------------------------------
(* The server.                                                             *)

(* JWTService.ValidateToken, under JWTAuth.                                *)
Accepted(token) == token # NoToken /\ token.gen > accessHorizon

(* Mutant of Renewable: only the newest refresh token is good.             *)
RenewableOnce(token) == token.gen > refreshHorizon /\ token.gen = gen

(* JWTService.ValidateRefreshToken: nothing is kept of a token, it can be  *)
(* used again until it expires.                                            *)
Renewable(token) == token.gen > refreshHorizon

(* A pair of tokens for user u, if the bound leaves one.                   *)
Issue(u, token) ==
    /\ gen < MaxTokens
    /\ gen' = gen + 1
    /\ token = [user |-> u, gen |-> gen + 1]
    /\ UNCHANGED <<accessHorizon, refreshHorizon>>

(* Mutant of Expire: refresh tokens live no longer than access tokens.     *)
ExpireTogether ==
    /\ \/ accessHorizon < gen /\ accessHorizon' = gen /\ UNCHANGED refreshHorizon
       \/ refreshHorizon < gen /\ refreshHorizon' = gen /\ UNCHANGED accessHorizon
    /\ UNCHANGED <<store, ctx, phase, job, signing, call, gen, out, excused>>

(* Time passes; refresh tokens outlive access tokens.                      *)
Expire ==
    /\ \/ accessHorizon < gen /\ accessHorizon' = gen /\ UNCHANGED refreshHorizon
       \/ refreshHorizon < accessHorizon /\ refreshHorizon' = accessHorizon
          /\ UNCHANGED accessHorizon
    /\ UNCHANGED <<store, ctx, phase, job, signing, call, gen, out, excused>>

-----------------------------------------------------------------------------
(* The items of localStorage.                                              *)

(* Whether the code of tab t has run to its end.                           *)
Free(t) ==
    /\ job[t].left = {}
    /\ phase[t] # "reading"
    /\ \A c \in Calls : TabOf(c) = t => call[c].st \notin {"reading", "resending"}

(* Mutant of First: the user comes before the tokens.                      *)
FirstUser(S) == IF "user" \in S THEN "user"
                ELSE IF "token" \in S THEN "token" ELSE "refresh"

(* All of the code stores and removes the items in this order.             *)
First(S) == IF "token" \in S THEN "token"
            ELSE IF "refresh" \in S THEN "refresh" ELSE "user"

(* The next setItem or removeItem of tab t.                                *)
Write(t) ==
    LET item == First(job[t].left)
    IN  /\ job[t].left # {}
        /\ store' = [token   |-> IF item = "token" THEN job[t].token ELSE store.token,
                     refresh |-> IF item = "refresh" THEN job[t].token ELSE store.refresh,
                     user    |-> IF item = "user" THEN job[t].user ELSE store.user]
        /\ job' = [job EXCEPT ![t] = IF job[t].left = {item} THEN NoJob
                                     ELSE [job[t] EXCEPT !.left = @ \ {item}]]
        /\ out' = IF item = "user" THEN job[t].user = NoUser ELSE out
        /\ UNCHANGED <<ctx, phase, signing, call, server, excused>>

SetAll(t, token, u) ==
    job' = [job EXCEPT ![t] = [left |-> Items, token |-> token, user |-> u]]
RemoveAll(t) == SetAll(t, NoToken, NoUser)

-----------------------------------------------------------------------------
(* AuthContext.                                                            *)

isAuthenticated(t) == ctx[t].token # NoToken /\ ctx[t].user # NoUser

(* What App and ProtectedRoute put on display: a spinner until the session *)
(* has been read, then the pages or the form.                              *)
View(t) ==
    IF phase[t] \in {"loading", "reading"} THEN "spinner"
    ELSE IF isAuthenticated(t) THEN "pages" ELSE "login"

(* The effect of AuthProvider on a page load: it reads the token first.    *)
Mount(t) ==
    /\ phase[t] = "loading"
    /\ phase' = [phase EXCEPT ![t] = "reading"]
    /\ ctx' = [ctx EXCEPT ![t].token = store.token]
    /\ UNCHANGED <<store, job, signing, call, server, out, excused>>

(* Mutant of MountUser: a token is enough.                                 *)
MountToken(t) ==
    /\ phase[t] = "reading"
    /\ phase' = [phase EXCEPT ![t] = "running"]
    /\ ctx' = [ctx EXCEPT ![t].user =
                 IF ctx[t].token = NoToken THEN NoUser ELSE ctx[t].token.user]
    /\ UNCHANGED <<store, job, signing, call, server, out, excused>>

(* Then the user: there is a session if both are there.                    *)
MountUser(t) ==
    /\ phase[t] = "reading"
    /\ phase' = [phase EXCEPT ![t] = "running"]
    /\ ctx' = [ctx EXCEPT ![t] = IF ctx[t].token = NoToken \/ store.user = NoUser
                                 THEN NoContext
                                 ELSE [token |-> ctx[t].token, user |-> store.user]]
    /\ UNCHANGED <<store, job, signing, call, server, out, excused>>

(* The form, whose button is disabled until the answer is there.           *)
handleSubmit(t, u) ==
    /\ Free(t)
    /\ View(t) = "login"
    /\ signing[t] = NoUser
    /\ signing' = [signing EXCEPT ![t] = u]
    /\ UNCHANGED <<store, ctx, phase, job, call, server, out, excused>>

(* login, answered: the context at once, then all three items.             *)
login(t) ==
    /\ Free(t)
    /\ signing[t] # NoUser
    /\ \E token \in Tokens :
        /\ Issue(signing[t], token)
        /\ ctx' = [ctx EXCEPT ![t] = [token |-> token, user |-> signing[t]]]
        /\ SetAll(t, token, signing[t])
    /\ signing' = [signing EXCEPT ![t] = NoUser]
    /\ out' = FALSE
    /\ UNCHANGED <<store, phase, call, excused>>

loginFails(t) ==
    /\ Free(t)
    /\ signing[t] # NoUser
    /\ signing' = [signing EXCEPT ![t] = NoUser]
    /\ UNCHANGED <<store, ctx, phase, job, call, server, out, excused>>

(* The Sign Out button.  Calls under way are not recalled.                 *)
logout(t) ==
    /\ Free(t)
    /\ View(t) = "pages"
    /\ ctx' = [ctx EXCEPT ![t] = NoContext]
    /\ RemoveAll(t)
    /\ excused' = TRUE
    /\ UNCHANGED <<store, phase, signing, call, server, out>>

(* A page load, by the user or by window.location: whatever was under way  *)
(* in the tab is forgotten.                                                *)
Load(t) ==
    /\ Free(t)
    /\ phase[t] # "loading"
    /\ phase' = [phase EXCEPT ![t] = "loading"]
    /\ ctx' = [ctx EXCEPT ![t] = NoContext]
    /\ signing' = [signing EXCEPT ![t] = NoUser]
    /\ call' = [c \in Calls |-> IF TabOf(c) = t THEN Idle ELSE call[c]]
    /\ UNCHANGED <<store, job, server, out, excused>>

-----------------------------------------------------------------------------
(* Calls.                                                                  *)

Send(c, via, token) ==
    /\ Free(TabOf(c))
    /\ View(TabOf(c)) = "pages"
    /\ call[c] = Idle
    /\ call' = [call EXCEPT ![c] = [st |-> "sent", via |-> via, token |-> token,
                                    retry |-> FALSE, sends |-> 1]]
    /\ UNCHANGED <<store, ctx, phase, job, signing, server, out, excused>>

(* The request interceptor adds the token found in the store.              *)
SendApi(c) == Send(c, "api", store.token)

(* The API keys page calls fetch, with the token of the context.           *)
SendFetch(c) == Send(c, "fetch", ctx[TabOf(c)].token)

Settle(c) == call' = [call EXCEPT ![c] = Idle]

(* The server lets the call through.                                       *)
Served(c) ==
    /\ Free(TabOf(c))
    /\ call[c].st = "sent"
    /\ Accepted(call[c].token)
    /\ Settle(c)
    /\ UNCHANGED <<store, ctx, phase, job, signing, server, out, excused>>

(* Mutant of Lost: whatever is not answered is sent again.                 *)
LostRetried(c) ==
    /\ Free(TabOf(c))
    /\ call[c].st = "sent" /\ call[c].sends < 3
    /\ call' = [call EXCEPT ![c].sends = @ + 1]
    /\ UNCHANGED <<store, ctx, phase, job, signing, server, out, excused>>

(* No answer, or one the interceptor only passes on.                       *)
Lost(c) ==
    /\ Free(TabOf(c))
    /\ call[c].st = "sent"
    /\ Settle(c)
    /\ UNCHANGED <<store, ctx, phase, job, signing, server, out, excused>>

(* The catch of the response interceptor: the session is dropped and the   *)
(* browser sent to the login page; until it goes, the page runs on.        *)
ForceOut(c) ==
    /\ Settle(c)
    /\ RemoveAll(TabOf(c))
    /\ phase' = [phase EXCEPT ![TabOf(c)] = "leaving"]

(* Mutant of Unauthorized: a retry that is refused is not given up.        *)
UnauthorizedHangs(c) ==
    /\ Free(TabOf(c))
    /\ call[c].st = "sent"
    /\ ~Accepted(call[c].token)
    /\ call[c].via = "api" /\ ~call[c].retry
    /\ call' = [call EXCEPT ![c].st = "reading", ![c].retry = TRUE,
                            ![c].token = store.refresh]
    /\ UNCHANGED <<store, ctx, phase, job, signing, server, out, excused>>

(* The answer is 401.  The first time, the response interceptor takes the  *)
(* refresh token from the store.                                           *)
Unauthorized(c) ==
    /\ Free(TabOf(c))
    /\ call[c].st = "sent"
    /\ ~Accepted(call[c].token)
    /\ IF call[c].via = "fetch" \/ call[c].retry THEN Settle(c)
       ELSE call' = [call EXCEPT ![c].st = "reading", ![c].retry = TRUE,
                                 ![c].token = store.refresh]
    /\ UNCHANGED <<store, ctx, phase, job, signing, server, out, excused>>

(* Then the user, and asks for new tokens if it found both.                *)
RefreshUser(c) ==
    /\ call[c].st = "reading"
    /\ IF call[c].token = NoToken \/ store.user = NoUser
       THEN ForceOut(c)
       ELSE /\ call' = [call EXCEPT ![c].st = "refreshing"]
            /\ UNCHANGED <<job, phase>>
    /\ UNCHANGED <<store, ctx, signing, server, out, excused>>

(* The new tokens arrive: they will be stored, whatever the store holds by *)
(* now.                                                                    *)
RefreshOK(c) ==
    /\ Free(TabOf(c))
    /\ call[c].st = "refreshing"
    /\ Renewable(call[c].token)
    /\ \E token \in Tokens :
        /\ Issue(call[c].token.user, token)
        /\ job' = [job EXCEPT ![TabOf(c)] = [left |-> {"token", "refresh"},
                                             token |-> token, user |-> NoUser]]
        /\ call' = [call EXCEPT ![c].st = "resending", ![c].token = token]
    /\ UNCHANGED <<store, ctx, phase, signing, out, excused>>

(* The call is sent again: through the request interceptor, which prefers  *)
(* the token that is in the store by then.                                 *)
Resend(c) ==
    /\ call[c].st = "resending"
    /\ job[TabOf(c)].left = {}
    /\ call' = [call EXCEPT ![c].st = "sent", ![c].sends = @ + 1,
                            ![c].token = IF store.token = NoToken THEN @ ELSE store.token]
    /\ UNCHANGED <<store, ctx, phase, job, signing, server, out, excused>>

(* The refresh token is refused, or the server fails to answer.            *)
RefreshFails(c) ==
    /\ Free(TabOf(c))
    /\ call[c].st = "refreshing"
    /\ ForceOut(c)
    /\ \/ ~Renewable(call[c].token) /\ UNCHANGED excused
       \/ excused' = TRUE
    /\ UNCHANGED <<store, ctx, signing, server, out>>

Answer(c) == Served(c) \/ Unauthorized(c)
Renewal(c) == RefreshOK(c) \/ RefreshFails(c)

(* What the code of tab t does next once it has begun.                     *)
Continue(t) ==
    \/ Write(t)
    \/ MountUser(t)
    \/ \E c \in Calls : TabOf(c) = t /\ (RefreshUser(c) \/ Resend(c))

Next ==
    \/ Expire
    \/ \E t \in Tabs :
         \/ Mount(t)
         \/ Continue(t)
         \/ \E u \in Users : handleSubmit(t, u)
         \/ login(t)
         \/ loginFails(t)
         \/ logout(t)
         \/ Load(t)
    \/ \E c \in Calls : SendApi(c) \/ SendFetch(c) \/ Answer(c) \/ Renewal(c) \/ Lost(c)

Spec == Init /\ [][Next]_vars

(* The server answers what reaches it, and a call that does not reach it   *)
(* fails; React runs the effect of a mounted provider; code that has begun *)
(* runs to its end.                                                        *)
Fairness ==
    /\ \A c \in Calls : WF_vars(Answer(c)) /\ WF_vars(Renewal(c))
    /\ \A t \in Tabs : WF_vars(Mount(t)) /\ WF_vars(Continue(t))

FairSpec == Spec /\ Fairness
-----------------------------------------------------------------------------
(* No call is sent more than twice, however often tokens expire while it   *)
(* is on its way and whoever else renews them (api.ts:38).                 *)
SentAtMostTwice == \A c \in Calls : call[c].sends <= 2

(* As long as nobody has signed out, no request for new tokens has failed  *)
(* and no refresh token has expired.                                       *)
Innocent == ~excused /\ refreshHorizon = 0

(* Sign-ins and renewals alone, of any tabs at once, never leave half a    *)
(* session behind: a stored user comes with both tokens, so that a page    *)
(* load does not lose the session (AuthContext.tsx:37) and a refused call  *)
(* finds what to renew it with (api.ts:45), although the three items are   *)
(* stored one by one.  A removal by another tab in the middle of a sign-in *)
(* (api.ts:70) does leave half of it.                                      *)
SessionWhole ==
    (Innocent /\ store.user # NoUser) => store.token # NoToken /\ store.refresh # NoToken

(* Once the items of a session are removed, no tab comes to show the pages *)
(* before somebody signs in - although a renewal that was under way puts   *)
(* tokens back into the store (AuthContext.tsx:37, api.ts:62).             *)
SignedOutStays ==
    [][\A t \in Tabs : ~isAuthenticated(t) /\ isAuthenticated(t)' => ~out']_vars

(* Nobody is sent to the login page because calls, of one tab or several,  *)
(* found their token expired at the same time and all renewed it: it takes *)
(* a failure of the server, an expired refresh token or a sign-out         *)
(* (api.ts:42, :70; jwt.go:122).                                           *)
ForcedOutExcused ==
    (\E t \in Tabs : phase[t] = "leaving") => ~Innocent

(* Every call comes to an end: its promise is settled, at the latest when  *)
(* the page is left (api.ts:66, :74, :78).                                 *)
CallsSettle == \A c \in Calls : call[c] # Idle ~> call[c] = Idle

(* web/admin/AUTH_IMPLEMENTATION.md:118, of signing out: "All tokens       *)
(* cleared from localStorage".  Signed out, the store holds no token.      *)
SignedOutHasNoTokens == out => store.token = NoToken /\ store.refresh = NoToken
=============================================================================
