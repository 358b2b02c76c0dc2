------------------------- MODULE AdminSocketProofs -------------------------
(***************************************************************************)
(* Theorems about AdminSocket, for any users, pages, channels and sockets. *)
(***************************************************************************)
EXTENDS AdminSocket, TLAPS

SocketStates == {"closed", "connecting", "open", "closing", "waiting"}

(* The sockets and the provider, which the connection depends on; the rest *)
(* of the state is what the pages and the sign-in add.                     *)
Sock == [st : SocketStates, saw : Scope]

(* The callbacks of a page are callbacks (Dashboard.tsx:30 and the like).  *)
LEMMA SubsType ==
    ASSUME NEW p \in Pages \cup {NoPage}
    PROVE  SubsOf(p) \in Callbacks
BY SocketAssumption DEF SubsOf, Callbacks

(* What is on display, and where the browser is sent, is a page or none.   *)
LEMMA ShownType ==
    TypeOK => Shown \in Pages \cup {NoPage} /\ Redirected \in Pages \cup {NoPage}
BY SocketAssumption DEF TypeOK, Shown, Redirected

(* ws.close() moves one socket from connecting or open to closing and does *)
(* nothing else.                                                           *)
LEMMA ClosingFacts ==
    ASSUME sock \in [Sockets -> Sock], NEW s \in MaybeSocket
    PROVE  /\ Closing(s) \in [Sockets -> Sock]
           /\ \A r \in Sockets :
                /\ r # s => Closing(s)[r] = sock[r]
                /\ \/ Closing(s)[r] = sock[r]
                   \/ /\ r = s
                      /\ sock[r].st \in {"connecting", "open"}
                      /\ Closing(s)[r].st = "closing"
<1>1. CASE s # NoSocket /\ sock[s].st \in {"connecting", "open"}
  <2>1. s \in Sockets
    BY <1>1 DEF MaybeSocket
  <2>2. Closing(s) = [sock EXCEPT ![s].st = "closing"]
    BY <1>1 DEF Closing
  <2> QED
    BY <1>1, <2>1, <2>2 DEF Sock, SocketStates
<1>2. CASE ~(s # NoSocket /\ sock[s].st \in {"connecting", "open"})
  BY <1>2 DEF Closing
<1> QED
  BY <1>1, <1>2

(* connect puts one unused socket into the state connecting, leaves the    *)
(* others as they are, and keeps the socket if the provider is mounted.    *)
LEMMA ConnectFacts ==
    ASSUME NEW scope \in Scope, NEW others \in [Sockets -> Sock], connect(scope, others)
    PROVE  \E s \in Sockets :
             /\ ws' = IF up THEN s ELSE ws
             /\ sock' \in [Sockets -> Sock]
             /\ sock'[s].st = "connecting"
             /\ \A r \in Sockets : r # s => sock'[r] = others[r]
<1>1. PICK s \in Sockets :
        /\ sock' = [others EXCEPT ![s] = [st |-> "connecting", saw |-> scope]]
        /\ ws' = IF up THEN s ELSE ws
  BY DEF connect
<1>2. [st |-> "connecting", saw |-> scope] \in Sock
  BY DEF Sock, SocketStates
<1> QED
  BY <1>1, <1>2

-----------------------------------------------------------------------------
(* The inductive invariant.  Besides the types: there is one live socket   *)
(* at most, and while the provider is mounted a socket is in use, or its   *)
(* timer is running, exactly when it is the one in the state.  The half of *)
(* it that OneConnection leaves out says that the socket in the state      *)
(* never ends without a successor.                                         *)
OneLive ==
    /\ \A r, s \in Sockets : Live(r) /\ Live(s) => r = s
    /\ up => \A s \in Sockets : Live(s) <=> s = ws
    /\ ~up => ws = NoSocket

(* IndicatorTrue with the witness it has: the socket in the state.         *)
Indicator ==
    /\ isConnected => up /\ ws # NoSocket /\ sock[ws].st \in {"open", "closing"}
    /\ up /\ ws # NoSocket /\ sock[ws].st = "open" => isConnected

SocketInv == TypeOK /\ OneLive /\ Indicator

(* A first page load starts without any connection.                        *)
LEMMA InitInv == Init => SocketInv
<1> SUFFICES ASSUME Init PROVE SocketInv
  OBVIOUS
<1>1. TypeOK
  BY DEF Init, TypeOK, MaybeSocket, MaybeUser, Callbacks, Scope, NoScope, Unseen
<1>2. OneLive
  BY SocketAssumption DEF Init, OneLive, Live
<1>3. Indicator
  BY DEF Init, Indicator
<1> QED
  BY <1>1, <1>2, <1>3 DEF SocketInv

(* What the effect of the provider does to the sockets in a render: it     *)
(* opens the first socket, or it closes the one that its last run saw.     *)
LEMMA RenderFacts ==
    ASSUME SocketInv, Render
    PROVE  \/ /\ ws = NoSocket
              /\ \A r \in Sockets : sock[r].st = "closed"
              /\ \E s \in Sockets :
                   /\ ws' = s
                   /\ sock' \in [Sockets -> Sock]
                   /\ sock'[s].st = "connecting"
                   /\ \A r \in Sockets : r # s => sock'[r].st = "closed"
           \/ /\ ws' = ws
              /\ sock' \in [Sockets -> Sock]
              /\ \A r \in Sockets :
                   \/ sock'[r] = sock[r]
                   \/ /\ sock[r].st \in {"connecting", "open"}
                      /\ sock'[r].st = "closing"
<1>1. sock \in [Sockets -> Sock] /\ seen.ws \in MaybeSocket /\ up
  BY DEF SocketInv, TypeOK, Sock, SocketStates, Render
<1>2. CASE Deps = seen
  BY <1>1, <1>2 DEF Render
<1>3. CASE Deps # seen /\ user # NoUser /\ ws = NoSocket
  <2> DEFINE scope == [user |-> user, subs |-> subs]
  <2>1. scope \in Scope
    BY DEF SocketInv, TypeOK, Scope
  <2>2. Closing(seen.ws) \in [Sockets -> Sock]
    BY <1>1, ClosingFacts
  <2>3. \A r \in Sockets : sock[r].st = "closed"
    BY <1>1, <1>3, SocketAssumption DEF SocketInv, OneLive, Live
  <2>4. \A r \in Sockets : Closing(seen.ws)[r].st = "closed"
    BY <1>1, <2>3, ClosingFacts
  <2>5. connect(scope, Closing(seen.ws))
    BY <1>3 DEF Render
  <2>6. PICK s \in Sockets :
          /\ ws' = IF up THEN s ELSE ws
          /\ sock' \in [Sockets -> Sock]
          /\ sock'[s].st = "connecting"
          /\ \A r \in Sockets : r # s => sock'[r] = Closing(seen.ws)[r]
    BY <2>1, <2>2, <2>5, ConnectFacts
  <2>7. \A r \in Sockets : r # s => sock'[r].st = "closed"
    BY <2>4, <2>6
  <2>8. ws' = s
    BY <1>1, <2>6
  <2> HIDE DEF scope
  <2> QED
    BY <1>3, <2>3, <2>6, <2>7, <2>8
<1>4. CASE Deps # seen /\ ~(user # NoUser /\ ws = NoSocket)
  <2>1. sock' = Closing(seen.ws) /\ ws' = ws
    BY <1>4 DEF Render
  <2> QED
    BY <1>1, <2>1, ClosingFacts
<1> QED
  BY <1>2, <1>3, <1>4

(* What a timer does: its socket was the only live one, and another takes  *)
(* its place, in the state too if the provider is mounted.                 *)
LEMMA ReconnectFacts ==
    ASSUME SocketInv, NEW s \in Sockets, reconnect(s)
    PROVE  \E n \in Sockets :
                /\ ws' = IF up THEN n ELSE ws
                /\ sock' \in [Sockets -> Sock]
                /\ sock'[n].st = "connecting"
                /\ \A r \in Sockets : r # n => sock'[r].st = "closed"
<1> DEFINE others == [sock EXCEPT ![s] = [st |-> "closed", saw |-> NoScope]]
<1>1. sock \in [Sockets -> Sock]
  BY DEF SocketInv, TypeOK, Sock, SocketStates
<1>2. \A r \in Sockets : r # s => sock[r].st = "closed"
  BY DEF SocketInv, OneLive, Live, reconnect
<1>3. [st |-> "closed", saw |-> NoScope] \in Sock
  BY DEF Sock, SocketStates, Scope, NoScope, MaybeUser, Callbacks
<1>4. others \in [Sockets -> Sock]
  BY <1>1, <1>3
<1>5. \A r \in Sockets : others[r].st = "closed"
  BY <1>1, <1>2
<1>6. sock[s].saw \in Scope
  BY <1>1 DEF Sock
<1>7. connect(sock[s].saw, others)
  BY DEF reconnect
<1> HIDE DEF others
<1>8. PICK n \in Sockets :
        /\ ws' = IF up THEN n ELSE ws
        /\ sock' \in [Sockets -> Sock]
        /\ sock'[n].st = "connecting"
        /\ \A r \in Sockets : r # n => sock'[r] = others[r]
  BY <1>4, <1>6, <1>7, ConnectFacts
<1>9. \A r \in Sockets : r # n => sock'[r].st = "closed"
  BY <1>5, <1>8
<1> QED
  BY <1>8, <1>9

(* A render keeps the invariant.                                           *)
LEMMA RenderInv == ASSUME SocketInv, Render PROVE SocketInv'
<1>1. TypeOK /\ OneLive /\ Indicator /\ up /\ up' = up
  BY DEF SocketInv, Render
<1>2. Shown \in Pages \cup {NoPage} /\ Redirected \in Pages \cup {NoPage}
  BY <1>1, ShownType
<1>3. sock' \in [Sockets -> Sock] /\ ws' \in MaybeSocket
  BY <1>1, RenderFacts DEF TypeOK, MaybeSocket
<1>4. seen' \in [user : MaybeUser, subs : Callbacks, ws : MaybeSocket]
  BY <1>1 DEF Render, TypeOK, Deps
<1>5. subs' \in Callbacks
  BY <1>2, SubsType DEF Render
<1>6. TypeOK'
  BY <1>1, <1>2, <1>3, <1>4, <1>5 DEF Render, TypeOK, Sock, SocketStates
<1>7. OneLive'
  BY <1>1, RenderFacts DEF OneLive, Live
<1>8. Indicator'
  <2>1. isConnected' = isConnected
    BY DEF Render
  <2> QED
    BY <1>1, <2>1, RenderFacts, SocketAssumption DEF Indicator, TypeOK, MaybeSocket
<1> QED
  BY <1>6, <1>7, <1>8 DEF SocketInv

(* So does a render that throws: it closes at most the one socket.         *)
LEMMA RenderErrorInv == ASSUME SocketInv, RenderError PROVE SocketInv'
<1>1. TypeOK /\ OneLive
  BY DEF SocketInv
<1>2. sock \in [Sockets -> Sock] /\ seen.ws \in MaybeSocket
  BY <1>1 DEF TypeOK, Sock, SocketStates
<1>3. sock' = Closing(seen.ws) /\ up' = FALSE /\ ws' = NoSocket /\ isConnected' = FALSE
  BY DEF RenderError
<1>4. TypeOK'
  <2>1. sock' \in [Sockets -> Sock]
    BY <1>2, <1>3, ClosingFacts
  <2> QED
    BY <1>1, <2>1 DEF RenderError, TypeOK, Sock, SocketStates, MaybeSocket, MaybeUser,
       Callbacks, Unseen
<1>5. \A r \in Sockets : sock'[r].st # "closed" => sock[r].st # "closed"
  BY <1>2, <1>3, ClosingFacts
<1>6. OneLive'
  BY <1>1, <1>3, <1>5 DEF OneLive, Live
<1>7. Indicator'
  BY <1>3 DEF Indicator
<1> QED
  BY <1>4, <1>6, <1>7 DEF SocketInv

(* An event of a socket keeps the invariant.                               *)
LEMMA SocketEventInv ==
    ASSUME SocketInv, NEW s \in Sockets, SocketEvent(s)
    PROVE  SocketInv'
<1>1. TypeOK /\ OneLive /\ Indicator
  BY DEF SocketInv
<1>2. sock \in [Sockets -> Sock] /\ s # NoSocket
  BY <1>1, SocketAssumption DEF TypeOK, Sock, SocketStates
<1>3. ASSUME NEW to \in {"open", "waiting"}, sock[s].st # "closed",
             sock' = [sock EXCEPT ![s].st = to], ws' = ws, up' = up
      PROVE  /\ sock' \in [Sockets -> Sock]
             /\ OneLive'
             /\ up => s = ws /\ sock'[ws'].st = to
  BY <1>1, <1>2, <1>3 DEF Sock, SocketStates, OneLive, Live
<1>4. CASE onopen(s)
  <2>1. /\ sock' \in [Sockets -> Sock] /\ OneLive' /\ up' = up
        /\ up => s = ws /\ ws' = ws /\ sock'[ws'].st = "open"
    BY <1>3, <1>4 DEF onopen
  <2>2. TypeOK'
    BY <1>1, <1>4, <2>1 DEF onopen, TypeOK, Sock, SocketStates
  <2>3. isConnected' = up
    BY <1>4 DEF onopen
  <2>4. Indicator'
    <3>1. CASE up
      BY <1>2, <2>1, <2>3, <3>1 DEF Indicator
    <3>2. CASE ~up
      BY <2>1, <2>3, <3>2 DEF Indicator
    <3> QED BY <3>1, <3>2
  <2> QED
    BY <2>1, <2>2, <2>4 DEF SocketInv
<1>5. ASSUME NEW c \in Channels, onmessage(s, c)
      PROVE  SocketInv'
  <2>1. missed' \in BOOLEAN
    BY <1>1, <1>5, Zenon DEF onmessage, TypeOK
  <2>2. TypeOK'
    BY <1>1, <1>5, <2>1 DEF onmessage, TypeOK
  <2>3. OneLive' /\ Indicator'
    BY <1>1, <1>5 DEF onmessage, OneLive, Live, Indicator
  <2> QED
    BY <2>2, <2>3 DEF SocketInv
<1>6. CASE onclose(s)
  <2>1. /\ sock' \in [Sockets -> Sock] /\ OneLive' /\ up' = up
        /\ up => s = ws /\ ws' = ws /\ sock'[ws'].st = "waiting"
    BY <1>3, <1>6 DEF onclose
  <2>2. TypeOK'
    BY <1>1, <1>6, <2>1 DEF onclose, TypeOK, Sock, SocketStates
  <2>3. Indicator'
    BY <1>6, <2>1 DEF onclose, Indicator
  <2> QED
    BY <2>1, <2>2, <2>3 DEF SocketInv
<1>7. CASE reconnect(s)
  <2>1. sock[s].st = "waiting" /\ (up => s = ws) /\ up' = up
    BY <1>1, <1>7 DEF reconnect, OneLive, Live
  <2>2. sock' \in [Sockets -> Sock] /\ ws' \in MaybeSocket
    BY <1>1, <1>7, ReconnectFacts DEF MaybeSocket, TypeOK
  <2>3. TypeOK'
    BY <1>1, <1>7, <2>2 DEF reconnect, TypeOK, Sock, SocketStates
  <2>4. OneLive'
    BY <1>1, <1>7, <2>1, ReconnectFacts DEF OneLive, Live
  <2>5. ~isConnected /\ ~isConnected'
    BY <1>1, <1>7, <2>1 DEF reconnect, Indicator
  <2>6. Indicator'
    BY <1>7, <2>1, <2>5, ReconnectFacts DEF Indicator
  <2> QED
    BY <2>3, <2>4, <2>6 DEF SocketInv
<1> QED
  BY <1>4, <1>5, <1>6, <1>7 DEF SocketEvent

(* Every step keeps the invariant.                                         *)
LEMMA StepInv == SocketInv /\ [Next]_vars => SocketInv'
<1> SUFFICES ASSUME SocketInv, [Next]_vars PROVE SocketInv'
  OBVIOUS
<1>1. TypeOK /\ OneLive /\ Indicator
  BY DEF SocketInv
<1>2. CASE Render
  BY <1>2, RenderInv
<1>3. ASSUME \/ \E u \in Users : Login(u)
             \/ Logout
             \/ \E p \in Pages : Navigate(p)
             \/ UNCHANGED vars
      PROVE  SocketInv'
  <2>1. UNCHANGED <<up, mounted, ws, subs, isConnected, seen, sock, missed>>
    BY <1>3 DEF Login, Logout, Navigate, vars
  <2>2. user' \in MaybeUser /\ route' \in Pages \cup {NoPage}
    BY <1>1, <1>3, SocketAssumption DEF Login, Logout, Navigate, vars, TypeOK, MaybeUser
  <2>3. TypeOK'
    BY <1>1, <2>1, <2>2 DEF TypeOK
  <2>4. OneLive' /\ Indicator'
    BY <1>1, <2>1 DEF OneLive, Live, Indicator
  <2> QED
    BY <2>3, <2>4 DEF SocketInv
<1>4. CASE Reload
  <2>1. TypeOK'
    BY <1>1, <1>4 DEF Reload, TypeOK, MaybeSocket, MaybeUser, Callbacks, Scope, NoScope, Unseen
  <2>2. OneLive' /\ Indicator'
    BY <1>4, SocketAssumption DEF Reload, OneLive, Live, Indicator
  <2> QED
    BY <2>1, <2>2 DEF SocketInv
<1>5. ASSUME NEW s \in Sockets, SocketEvent(s)
      PROVE  SocketInv'
  BY <1>5, SocketEventInv
<1>6. CASE RenderError
  BY <1>6, RenderErrorInv
<1> QED
  BY <1>2, <1>3, <1>4, <1>5, <1>6 DEF Next

(* The invariant holds in every state the program reaches.                 *)
LEMMA AlwaysInv == Spec => []SocketInv
BY InitInv, StepInv, PTL DEF Spec

-----------------------------------------------------------------------------
(* The state of the provider and its sockets stays well-typed.             *)
THEOREM TypeCorrect == Spec => []TypeOK
<1>1. SocketInv => TypeOK
  BY DEF SocketInv
<1> QED
  BY <1>1, AlwaysInv, PTL

(* However renders, renders that throw, socket events, timers and page     *)
(* loads interleave, there is one connection at most, and while the        *)
(* provider is mounted it is the one its clean-up will close               *)
(* (WebSocketContext.tsx:117, :132).                                       *)
THEOREM ConnectionIsUnique == Spec => []OneConnection
<1>1. SocketInv => OneConnection
  BY DEF SocketInv, OneLive, OneConnection
<1> QED
  BY <1>1, AlwaysInv, PTL

(* The indicator is green over every open connection, and only over one    *)
(* that was opened and whose end nobody has been told of                   *)
(* (WebSocketContext.tsx:68, :109, :114).                                  *)
THEOREM IndicatorIsTrue == Spec => []IndicatorTrue
<1>1. SocketInv => IndicatorTrue
  <2> SUFFICES ASSUME SocketInv, up
               PROVE  /\ isConnected => \E s \in Sockets : sock[s].st \in {"open", "closing"}
                      /\ \A s \in Sockets : sock[s].st = "open" => isConnected
    BY DEF IndicatorTrue
  <2>1. ws \in Sockets \/ ws = NoSocket
    BY DEF SocketInv, TypeOK, MaybeSocket
  <2>2. isConnected => \E s \in Sockets : sock[s].st \in {"open", "closing"}
    BY <2>1 DEF SocketInv, Indicator
  <2>3. ASSUME NEW s \in Sockets, sock[s].st = "open"
        PROVE  isConnected
    BY <2>3, SocketAssumption DEF SocketInv, OneLive, Live, Indicator
  <2> QED
    BY <2>2, <2>3
<1> QED
  BY <1>1, AlwaysInv, PTL

-----------------------------------------------------------------------------
(* The refinement.  phase of ReconnectingLink is the state of the one live *)
(* socket, whether or not the provider still knows it.                     *)
PhaseBar == IF \E s \in Sockets : Live(s)
            THEN sock[CHOOSE s \in Sockets : Live(s)].st
            ELSE "idle"

Phased ==
    /\ \A s \in Sockets : Live(s) => PhaseBar = sock[s].st
    /\ (\A s \in Sockets : ~Live(s)) => PhaseBar = "idle"

LEMMA PhaseIsUnique == SocketInv => Phased
<1> SUFFICES ASSUME SocketInv PROVE Phased
  OBVIOUS
<1>1. ASSUME NEW s \in Sockets, Live(s)
      PROVE  PhaseBar = sock[s].st
  <2>1. \A r \in Sockets : Live(r) => r = s
    BY <1>1 DEF SocketInv, OneLive
  <2>2. (CHOOSE r \in Sockets : Live(r)) = s
    BY <1>1, <2>1
  <2> QED
    BY <1>1, <2>2 DEF PhaseBar
<1>2. (\A s \in Sockets : ~Live(s)) => PhaseBar = "idle"
  BY DEF PhaseBar
<1> QED
  BY <1>1, <1>2 DEF Phased

LEMMA PhaseIsUniqueNext == SocketInv' => Phased'
BY PhaseIsUnique, PTL

(* Where the phases come from when one socket moves from a state to the    *)
(* next.                                                                   *)
LEMMA PhaseMoves ==
    ASSUME SocketInv, SocketInv', NEW s \in Sockets,
           sock[s].st # "closed", sock'[s].st # "closed"
    PROVE  PhaseBar = sock[s].st /\ PhaseBar' = sock'[s].st
BY PhaseIsUnique, PhaseIsUniqueNext DEF Phased, Live

(* A step that only closes sockets shuts the connection or leaves it.      *)
LEMMA ClosingRefines ==
    ASSUME SocketInv, SocketInv',
           \A r \in Sockets :
               \/ sock'[r] = sock[r]
               \/ sock[r].st \in {"connecting", "open"} /\ sock'[r].st = "closing"
    PROVE  Link!Next \/ PhaseBar' = PhaseBar
<1>1. CASE \A r \in Sockets : sock[r].st = "closed"
  <2>1. \A r \in Sockets : ~Live(r) /\ ~Live(r)'
    BY <1>1 DEF Live
  <2> QED
    BY <2>1, PhaseIsUnique, PhaseIsUniqueNext DEF Phased
<1>2. ASSUME NEW r \in Sockets, sock[r].st # "closed"
      PROVE  Link!Next \/ PhaseBar' = PhaseBar
  <2>1. sock'[r].st # "closed"
    BY <1>2
  <2>2. PhaseBar = sock[r].st /\ PhaseBar' = sock'[r].st
    BY <1>2, <2>1, PhaseMoves
  <2>3. CASE sock'[r] = sock[r]
    BY <2>2, <2>3
  <2>4. CASE sock[r].st \in {"connecting", "open"} /\ sock'[r].st = "closing"
    <3>1. Link!Shut
      BY <2>2, <2>4 DEF Link!Shut, PhaseBar
    <3> QED
      BY <3>1 DEF Link!Next
  <2> QED
    BY <2>3, <2>4
<1> QED
  BY <1>1, <1>2

(* Every step is a step of the single connection, or none: the first       *)
(* connect and the timer start it, ws.close() shuts it, onopen opens it,   *)
(* onclose drops it, and leaving the page ends it.                         *)
LEMMA StepRefines == SocketInv /\ SocketInv' /\ [Next]_vars => [Link!Next]_PhaseBar
<1> SUFFICES ASSUME SocketInv, SocketInv', [Next]_vars
             PROVE  Link!Next \/ PhaseBar' = PhaseBar
  BY DEF PhaseBar
<1>1. TypeOK /\ OneLive
  BY DEF SocketInv
<1>2. sock \in [Sockets -> Sock]
  BY <1>1 DEF TypeOK, Sock, SocketStates
<1>3. CASE Render
  <2>1. ASSUME \A r \in Sockets : sock[r].st = "closed",
               NEW n \in Sockets, sock'[n].st = "connecting"
        PROVE  Link!Next
    <3>1. PhaseBar = "idle"
      BY <2>1, PhaseIsUnique DEF Phased, Live
    <3>2. PhaseBar' = "connecting"
      BY <2>1, PhaseIsUniqueNext DEF Phased, Live
    <3>3. Link!Start
      BY <3>1, <3>2 DEF Link!Start, PhaseBar
    <3> QED
      BY <3>3 DEF Link!Next
  <2>2. CASE \A r \in Sockets :
                  \/ sock'[r] = sock[r]
                  \/ sock[r].st \in {"connecting", "open"} /\ sock'[r].st = "closing"
    BY <2>2, ClosingRefines
  <2> QED
    BY <1>3, <2>1, <2>2, RenderFacts
<1>4. CASE \/ \E u \in Users : Login(u)
           \/ Logout
           \/ \E p \in Pages : Navigate(p)
           \/ UNCHANGED vars
  <2>1. sock' = sock
    BY <1>4 DEF Login, Logout, Navigate, vars
  <2> QED
    BY <2>1, ClosingRefines
<1>5. CASE Reload
  <2>1. \A r \in Sockets : ~Live(r)'
    BY <1>5 DEF Reload, Live
  <2>2. PhaseBar' = "idle"
    BY <2>1, PhaseIsUniqueNext DEF Phased
  <2> QED
    BY <2>2 DEF Link!Next, Link!Leave, PhaseBar
<1>6. ASSUME NEW s \in Sockets, SocketEvent(s)
      PROVE  Link!Next \/ PhaseBar' = PhaseBar
  <2>1. CASE onopen(s)
    <3>1. sock[s].st = "connecting" /\ sock'[s].st = "open"
      BY <1>2, <2>1 DEF onopen, Sock
    <3>2. PhaseBar = sock[s].st /\ PhaseBar' = sock'[s].st
      BY <3>1, PhaseMoves
    <3>3. Link!Opened
      BY <3>1, <3>2 DEF Link!Opened, PhaseBar
    <3> QED
      BY <3>3 DEF Link!Next
  <2>2. CASE \E c \in Channels : onmessage(s, c)
    <3>1. sock' = sock
      BY <2>2 DEF onmessage
    <3> QED
      BY <3>1, ClosingRefines
  <2>3. CASE onclose(s)
    <3>1. sock[s].st \in {"connecting", "open", "closing"} /\ sock'[s].st = "waiting"
      BY <1>2, <2>3 DEF onclose, Sock
    <3>2. PhaseBar = sock[s].st /\ PhaseBar' = sock'[s].st
      BY <3>1, PhaseMoves
    <3>3. Link!Dropped
      BY <3>1, <3>2 DEF Link!Dropped, PhaseBar
    <3> QED
      BY <3>3 DEF Link!Next
  <2>4. CASE reconnect(s)
    <3>1. PhaseBar = "waiting"
      BY <2>4, PhaseIsUnique DEF reconnect, Phased, Live
    <3>2. PICK n \in Sockets : sock'[n].st = "connecting"
      BY <2>4, ReconnectFacts
    <3>3. PhaseBar' = "connecting"
      BY <3>2, PhaseIsUniqueNext DEF Phased, Live
    <3>4. Link!Start
      BY <3>1, <3>3 DEF Link!Start, PhaseBar
    <3> QED
      BY <3>4 DEF Link!Next
  <2> QED
    BY <1>6, <2>1, <2>2, <2>3, <2>4 DEF SocketEvent
<1>7. CASE RenderError
  <2>1. seen.ws \in MaybeSocket /\ sock' = Closing(seen.ws)
    BY <1>1, <1>7 DEF RenderError, TypeOK
  <2>2. \A r \in Sockets :
            \/ sock'[r] = sock[r]
            \/ sock[r].st \in {"connecting", "open"} /\ sock'[r].st = "closing"
    BY <1>2, <2>1, ClosingFacts
  <2> QED
    BY <2>2, ClosingRefines
<1> QED
  BY <1>3, <1>4, <1>5, <1>6, <1>7 DEF Next

(* The provider with its sockets, timers and renders implements a single   *)
(* connection that only leaving the page ends: the safety part of what the *)
(* run AdminSocket checks as ImplementsLink.                               *)
THEOREM ImplementsLinkSafety == Spec => Link!Safety
<1>1. Init => Link!Init
  <2> SUFFICES ASSUME Init PROVE PhaseBar = "idle"
    BY DEF Link!Init, PhaseBar
  <2>1. \A s \in Sockets : ~Live(s)
    BY DEF Init, Live
  <2> QED
    BY <2>1 DEF PhaseBar
<1>2. SocketInv /\ SocketInv' /\ [Next]_vars => [Link!Next]_PhaseBar
  BY StepRefines
<1> QED
  BY <1>1, <1>2, AlwaysInv, PTL DEF Spec, Link!Safety, PhaseBar
=============================================================================
