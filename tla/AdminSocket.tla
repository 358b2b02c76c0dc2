---------------------------- MODULE AdminSocket ----------------------------
(***************************************************************************)
(* The connection for updates of the admin interface: WebSocketProvider,   *)
(* the pages that subscribe to it, and the sign-in state it depends on.    *)
(*                                                                         *)
(* React is modelled by what the code relies on.  A setter queues a value; *)
(* Render commits everything queued, mounts the page of the route, and     *)
(* runs the effect of the provider if a dependency changed: first the      *)
(* clean-up of its last run, with the values that run saw, then its body.  *)
(* A render that throws unmounts everything, since there is no error       *)
(* boundary; sockets and timers go on, and setters have no effect.         *)
(* A function made in a render keeps the values of that render for ever:   *)
(* sock[s].saw is what the handlers of socket s go on seeing.              *)
(***************************************************************************)
CONSTANTS Users, Pages, Channels, Sockets,
          ChannelsOf(_),        \* the channels a page subscribes to
          Home,                 \* the page of the path /
          Fragile,              \* the pages whose render may throw
          NoUser, NoSocket,
          NoPage                \* no page, or the sign-in page

ASSUME SocketAssumption ==
    /\ Home \in Pages
    /\ Fragile \subseteq Pages
    /\ NoUser \notin Users
    /\ NoPage \notin Pages
    /\ NoSocket \notin Sockets
    /\ \A p \in Pages : ChannelsOf(p) \subseteq Channels

VARIABLES
    user,         \* whose token AuthContext holds
    route,        \* the page of the address bar; NoPage: /login
    up,           \* whether the providers are mounted
    mounted,      \* the page on display
    ws,           \* the state variables of WebSocketProvider
    subs,
    isConnected,
    seen,         \* user, ws and subs at the last run of the effect
    sock,         \* the WebSocket objects: state, and what their maker saw
    missed        \* history: whether an event missed a page that had subscribed

vars == <<user, route, up, mounted, ws, subs, isConnected, seen, sock, missed>>

(* Mutant of SubsOf: the callbacks stay when the page goes.                *)
SubsAlways(p) == Channels \X {p}

(* The callbacks page p has registered while it is on display.             *)
SubsOf(p) == IF p = NoPage THEN {} ELSE ChannelsOf(p) \X {p}

MaybeUser == Users \cup {NoUser}
MaybeSocket == Sockets \cup {NoSocket}
Callbacks == SUBSET (Channels \X Pages)
Scope == [user : MaybeUser, subs : Callbacks]

TypeOK ==
    /\ user \in MaybeUser
    /\ route \in Pages \cup {NoPage}
    /\ up \in BOOLEAN
    /\ mounted \in Pages \cup {NoPage}
    /\ ws \in MaybeSocket
    /\ subs \in Callbacks
    /\ isConnected \in BOOLEAN
    /\ seen \in [user : MaybeUser, subs : Callbacks, ws : MaybeSocket]
    /\ sock \in [Sockets -> [st : {"closed", "connecting", "open", "closing", "waiting"},
                             saw : Scope]]
    /\ missed \in BOOLEAN

NoScope == [user |-> NoUser, subs |-> {}]
Unseen == [user |-> NoUser, subs |-> {}, ws |-> NoSocket]

(* A page load: the session is read from localStorage, nothing else is     *)
(* kept.  The first render, before the session is read, shows no page.     *)
Init ==
    /\ user \in MaybeUser
    /\ route \in Pages \cup {NoPage}
    /\ up = TRUE
    /\ mounted = NoPage
    /\ ws = NoSocket
    /\ subs = {}
    /\ isConnected = FALSE
    /\ seen = Unseen
    /\ sock = [s \in Sockets |-> [st |-> "closed", saw |-> NoScope]]
    /\ missed = FALSE

-----------------------------------------------------------------------------
Live(s) == sock[s].st # "closed"

(* A WebSocket object nobody refers to any more stands for a new one.      *)
Unused(s) == ~Live(s) /\ s \notin {ws, seen.ws}

(* ws.close(): without effect on a socket that is closing or closed.       *)
Closing(s) ==
    IF s # NoSocket /\ sock[s].st \in {"connecting", "open"}
    THEN [sock EXCEPT ![s].st = "closing"] ELSE sock

(* connect, called by code that sees scope: opens a socket and keeps it in *)
(* the state, if there still is one; others is what becomes of the other   *)
(* sockets.                                                                *)
connect(scope, others) ==
    \E s \in Sockets :
        /\ Unused(s)
        /\ sock' = [others EXCEPT ![s] = [st |-> "connecting", saw |-> scope]]
        /\ ws' = IF up THEN s ELSE ws

(* The page ProtectedRoute and the routes of App put on display, and where *)
(* their <Navigate> sends the browser once that render is committed.       *)
Shown == IF user = NoUser THEN NoPage ELSE route
Redirected == IF user = NoUser THEN NoPage
              ELSE IF route = NoPage THEN Home ELSE route

Deps == [user |-> user, subs |-> subs, ws |-> ws]

(* Mutant of Render: the effect connects whenever somebody is signed in.   *)
RenderConnects ==
    /\ up
    /\ Deps # seen \/ Shown # mounted \/ Redirected # route
    /\ mounted' = Shown
    /\ route' = Redirected
    /\ subs' = SubsOf(Shown)
    /\ seen' = Deps
    /\ IF user # NoUser /\ Deps # seen
       THEN connect([user |-> user, subs |-> subs], Closing(seen.ws))
       ELSE sock' = Closing(seen.ws) /\ UNCHANGED ws
    /\ UNCHANGED <<user, up, isConnected, missed>>

(* A render.  A page coming or going subscribes or unsubscribes, which is  *)
(* queued for the next render; the effect of the provider runs if one of   *)
(* isAuthenticated, ws and connect changed, and connects only while there  *)
(* never was a socket.                                                     *)
Render ==
    /\ up
    /\ Deps # seen \/ Shown # mounted \/ Redirected # route
    /\ mounted' = Shown
    /\ route' = Redirected
    /\ subs' = SubsOf(Shown)
    /\ seen' = Deps
    /\ IF Deps = seen
       THEN UNCHANGED <<sock, ws>>
       ELSE IF user # NoUser /\ ws = NoSocket
            THEN connect([user |-> user, subs |-> subs], Closing(seen.ws))
            ELSE sock' = Closing(seen.ws) /\ UNCHANGED ws
    /\ UNCHANGED <<user, up, isConnected, missed>>

(* A render in which a page throws: React unmounts the tree, and with it   *)
(* the state of the provider goes; the clean-up of the effect runs.        *)
RenderError ==
    /\ up
    /\ Shown \in Fragile
    /\ up' = FALSE
    /\ mounted' = NoPage
    /\ ws' = NoSocket
    /\ subs' = {}
    /\ isConnected' = FALSE
    /\ seen' = Unseen
    /\ sock' = Closing(seen.ws)
    /\ UNCHANGED <<user, route, missed>>

(* login, and navigate('/') in the same render or in a later one.          *)
Login(u) ==
    /\ up
    /\ user = NoUser
    /\ mounted = NoPage
    /\ user' = u
    /\ route' \in {NoPage, Home}
    /\ UNCHANGED <<up, mounted, ws, subs, isConnected, seen, sock, missed>>

Logout ==
    /\ mounted # NoPage
    /\ user # NoUser
    /\ user' = NoUser
    /\ route' = NoPage
    /\ UNCHANGED <<up, mounted, ws, subs, isConnected, seen, sock, missed>>

Navigate(p) ==
    /\ mounted # NoPage
    /\ route' = p
    /\ UNCHANGED <<user, up, mounted, ws, subs, isConnected, seen, sock, missed>>

(* The browser leaves the page and loads it again, with the session it     *)
(* finds: the user's own doing, or api.ts sends it to /login.              *)
Reload ==
    /\ user' \in {user, NoUser}
    /\ route' \in {route, NoPage}
    /\ up' = TRUE
    /\ mounted' = NoPage
    /\ ws' = NoSocket
    /\ subs' = {}
    /\ isConnected' = FALSE
    /\ seen' = Unseen
    /\ sock' = [s \in Sockets |-> [st |-> "closed", saw |-> NoScope]]
    /\ missed' = FALSE

-----------------------------------------------------------------------------
(* Events of a socket.                                                     *)

onopen(s) ==
    /\ sock[s].st = "connecting"
    /\ sock' = [sock EXCEPT ![s].st = "open"]
    /\ isConnected' = up
    /\ UNCHANGED <<user, route, up, mounted, ws, subs, seen, missed>>

(* A message goes to the callbacks the maker of the socket saw.  It misses *)
(* the page on display if that page subscribed only in a later render.     *)
onmessage(s, c) ==
    /\ sock[s].st = "open"
    /\ missed' = (missed \/ <<c, mounted>> \in (subs \cap seen.subs) \ sock[s].saw.subs)
    /\ UNCHANGED <<user, route, up, mounted, ws, subs, isConnected, seen, sock>>

(* Mutant of onclose: only a failed connection puts the indicator out.     *)
OncloseStaysGreen(s) ==
    /\ sock[s].st \in {"connecting", "open", "closing"}
    /\ sock' = [sock EXCEPT ![s].st = "waiting"]
    /\ isConnected' = (isConnected /\ sock[s].st = "closing")
    /\ UNCHANGED <<user, route, up, mounted, ws, subs, seen, missed>>

(* Mutant of onclose: a connection that never opened is given up.          *)
OncloseGivesUp(s) ==
    /\ sock[s].st \in {"connecting", "open", "closing"}
    /\ sock' = [sock EXCEPT ![s].st = IF @ = "connecting" THEN "closed" ELSE "waiting"]
    /\ isConnected' = FALSE
    /\ UNCHANGED <<user, route, up, mounted, ws, subs, seen, missed>>

(* onclose, preceded by onerror when the connection failed: the indicator  *)
(* goes out and a timer of five seconds starts.                            *)
onclose(s) ==
    /\ sock[s].st \in {"connecting", "open", "closing"}
    /\ sock' = [sock EXCEPT ![s].st = "waiting"]
    /\ isConnected' = FALSE
    /\ UNCHANGED <<user, route, up, mounted, ws, subs, seen, missed>>

(* The timer: connects again, with the connect that made socket s, whose   *)
(* isAuthenticated is the one of that render.                              *)
reconnect(s) ==
    /\ sock[s].st = "waiting"
    /\ sock[s].saw.user # NoUser
    /\ connect(sock[s].saw, [sock EXCEPT ![s] = [st |-> "closed", saw |-> NoScope]])
    /\ UNCHANGED <<user, route, up, mounted, subs, isConnected, seen, missed>>

SocketEvent(s) ==
    \/ onopen(s)
    \/ \E c \in Channels : onmessage(s, c)
    \/ onclose(s)
    \/ reconnect(s)

Next ==
    \/ Render
    \/ RenderError
    \/ \E u \in Users : Login(u)
    \/ Logout
    \/ \E p \in Pages : Navigate(p)
    \/ Reload
    \/ \E s \in Sockets : SocketEvent(s)

Spec == Init /\ [][Next]_vars

(* React renders what is queued; the browser finishes closing a socket;    *)
(* timers fire.  Nothing is assumed of the network or of the user.         *)
Fairness ==
    /\ WF_vars(Render)
    /\ WF_vars(\E s \in Sockets : sock[s].st = "closing" /\ onclose(s))
    /\ WF_vars(\E s \in Sockets : reconnect(s))

FairSpec == Spec /\ Fairness
-----------------------------------------------------------------------------
(* However pages come and go, connections fail and renders throw, there is *)
(* one connection at most, counting one that waits for its timer; and      *)
(* while the provider is mounted it is the one the clean-up of its effect  *)
(* will close (WebSocketContext.tsx:117, :132).  After a render that threw *)
(* it stays until the page is left.                                        *)
OneConnection ==
    /\ \A r, s \in Sockets : Live(r) /\ Live(s) => r = s
    /\ up => \A s \in Sockets : Live(s) => s = ws

(* The indicator in the navigation bar is green only over a connection     *)
(* that was opened and whose end nobody has been told of, and it is green  *)
(* over every open connection (WebSocketContext.tsx:68, :109, :114).       *)
IndicatorTrue ==
    up => /\ isConnected => \E s \in Sockets : sock[s].st \in {"open", "closing"}
          /\ \A s \in Sockets : sock[s].st = "open" => isConnected

(* With fairness the provider, its sockets, timers and renders implement a *)
(* single connection that is made and replaced as long as somebody is      *)
(* signed in.                                                              *)
Link == INSTANCE ReconnectingLink
    WITH wanted <- up /\ user # NoUser,
         phase  <- IF \E s \in Sockets : Live(s)
                   THEN sock[CHOOSE s \in Sockets : Live(s)].st
                   ELSE "idle"

ImplementsLink == Link!Spec

(* web/admin/WEBSOCKET_IMPLEMENTATION.md:45: a green indicator means       *)
(* "Connected and receiving updates".  An event that arrives reaches the   *)
(* page on display if it subscribed to its channel and the provider has    *)
(* rendered with that subscription (WebSocketContext.tsx:93).              *)
LiveReceives == ~missed
=============================================================================
