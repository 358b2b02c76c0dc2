-------------------------- MODULE AdminPagesProofs --------------------------
(***************************************************************************)
(* Theorems about AdminPages, for any items, number of mutations under way *)
(* and number of changes.                                                  *)
(***************************************************************************)
EXTENDS AdminPages, TLAPS

UIs == [modal : {"none", "create", "edit", "form"}, item : Items \cup {NoItem},
        search : SUBSET Items, secret : Nat]

(* An answer is there from the second request, or from the arrival, on.    *)
LoadShape ==
    load # NoLoad /\ load.stage \in {"values", "ready"} => load.answer # NoData

(* A mutation names what it changes, and was carried out at a version the  *)
(* server has reached.                                                     *)
JobShape(job) ==
    /\ job.kind \in {"set", "delete", "register"} => job.item \in Items
    /\ job.kind = "heartbeat" => job.stage # "done"
    /\ job.ver <= ver

JobsInv == \A j \in Jobs : jobs[j] # NoJob => JobShape(jobs[j])

(* An answer under way is as new as the acknowledged changes ask for, and  *)
(* so are the data on display once nothing is under way.                   *)
FreshInv ==
    /\ load # NoLoad /\ load.answer # NoData => load.answer.ver >= must
    /\ Swallows(topic) /\ Observed /\ load = NoLoad /\ data # NoData /\ data.good
       => data.ver >= must

(* The creation of an API key whose answer this page waits for.            *)
Creating(j) == jobs[j] # NoJob /\ jobs[j].kind = "create" /\ jobs[j].alive

(* There is one at most, and none while a secret is on display.            *)
SecretInv ==
    /\ \A i, j \in Jobs : Creating(i) /\ Creating(j) => i = j
    /\ ui.secret # 0 => \A j \in Jobs : ~Creating(j)

PagesInv == TypeOK /\ LoadShape /\ JobsInv /\ FreshInv /\ SecretInv

(* What a step does to a secret on display: it stays or goes.              *)
SecretStays == ui.secret # 0 => ui'.secret \in {0, ui.secret}

-----------------------------------------------------------------------------
(* Operators of the model.                                                 *)

(* A mutation invalidates the list of the page that makes it.              *)
LEMMA InvalidatesOwn ==
    ASSUME NEW kind \in Kinds, topic \in QueriesOf(PageOf(kind))
    PROVE  Invalidates(kind) = topic
<1>1. CASE kind \in {"set", "delete"}
  BY <1>1 DEF QueriesOf, PageOf, Invalidates
<1>2. CASE kind \in {"register", "deregister", "heartbeat"}
  BY <1>2 DEF QueriesOf, PageOf, Invalidates
<1>3. CASE kind = "create"
  BY <1>3 DEF QueriesOf, PageOf, Invalidates
<1> QED
  BY <1>1, <1>2, <1>3 DEF Kinds

(* A page that has just mounted, and one whose editor was closed.          *)
LEMMA UIFacts ==
    ASSUME ui \in UIs
    PROVE  /\ Untouched \in UIs
           /\ Untouched.modal = "none" /\ Untouched.item = NoItem /\ Untouched.secret = 0
           /\ Closed \in UIs
           /\ Closed.modal = "none" /\ Closed.item = NoItem /\ Closed.secret = ui.secret
BY DEF Untouched, Closed, UIs

(* A load that has just begun holds no answer.                             *)
LEMMA BeginFacts ==
    Begin \in Load /\ Begin # NoLoad /\ Begin.answer = NoData /\ Begin.stage = "sent"
<1>1. Begin \in Load /\ Begin.answer = NoData /\ Begin.stage = "sent"
  BY DEF Begin, Load
<1> QED
  BY <1>1, AbsenceAssumption

(* A load l may take the place of the one under way: it is well-formed,    *)
(* and its answer is new enough.                                           *)
GoodLoad(l) ==
    /\ l \in Load
    /\ l.stage \in {"values", "ready"} => l.answer # NoData
    /\ l.answer # NoData => l.answer.ver >= must

(* So are the load under way, the one a mount asks for, and the one an     *)
(* invalidation asks for, which holds no answer if there are data.         *)
LEMMA LoadFacts ==
    ASSUME TypeOK, LoadShape, FreshInv
    PROVE  /\ load # NoLoad => GoodLoad(load)
           /\ GoodLoad(Joined)
           /\ GoodLoad(Refetched)
           /\ data # NoData => Refetched.answer = NoData
<1>1. load # NoLoad => GoodLoad(load)
  BY DEF TypeOK, LoadShape, FreshInv, GoodLoad
<1>2. GoodLoad(Begin)
  BY BeginFacts DEF GoodLoad
<1> QED
  BY <1>1, <1>2, BeginFacts DEF Joined, Refetched

(* The outcome of rendering is a truth value.                              *)
LEMMA BreaksType ==
    ASSUME NEW p, NEW d, NEW u
    PROVE  Breaks(p, d, u) \in BOOLEAN
BY Zenon DEF Breaks

(* The larger of two numbers.                                              *)
LEMMA MaxFacts ==
    ASSUME NEW a \in Nat, NEW b \in Nat
    PROVE  Max({a, b}) \in {a, b} /\ Max({a, b}) >= a /\ Max({a, b}) >= b
<1> DEFINE P(x) == x \in {a, b} /\ \A y \in {a, b} : x >= y
<1>1. \E x : P(x)
  <2>1. CASE a >= b
    BY <2>1
  <2>2. CASE ~(a >= b)
    BY <2>2
  <2> QED
    BY <2>1, <2>2
<1>2. Max({a, b}) = CHOOSE x : P(x)
  BY DEF Max
<1>3. P(CHOOSE x : P(x))
  BY <1>1, Zenon
<1> QED
  BY <1>2, <1>3

-----------------------------------------------------------------------------
(* The kinds of step.                                                      *)

(* A page load starts with an empty cache.                                 *)
LEMMA InitInv == Init => PagesInv
<1> SUFFICES ASSUME Init PROVE PagesInv
  OBVIOUS
<1>1. load \in Load \cup {NoLoad} /\ (load # NoLoad => load = Begin)
  BY BeginFacts DEF Init
<1>2. ui \in UIs /\ ui.modal = "none" /\ ui.item = NoItem
  BY DEF Init, Untouched, UIs
<1>3. TypeOK
  <2>1. /\ topic \in Queries /\ content \in SUBSET Items /\ page \in Pages
        /\ blank \in BOOLEAN /\ data \in Data \cup {NoData}
        /\ jobs \in [Jobs -> Job \cup {NoJob}]
    BY DEF Init
  <2>2. ver \in 0 .. MaxChanges /\ must \in 0 .. ver
    BY PagesAssumption DEF Init
  <2> QED
    BY <1>1, <1>2, <2>1, <2>2 DEF TypeOK, UIs
<1>4. LoadShape /\ FreshInv
  BY <1>1, BeginFacts DEF Init, LoadShape, FreshInv
<1>5. JobsInv /\ SecretInv
  BY DEF Init, JobsInv, SecretInv, Creating, Untouched
<1> QED
  BY <1>3, <1>4, <1>5 DEF PagesInv

(* The steps of a load that do not end it, or that end one whose failure   *)
(* the query reports, keep the invariant.                                  *)
LEMMA ProgressInv ==
    ASSUME PagesInv, NEW l \in Load \cup {NoLoad}, Progress(l),
           GoodLoad(l) \/ (l = NoLoad /\ ~Swallows(topic))
    PROVE  PagesInv' /\ SecretStays
<1>1. TypeOK /\ JobsInv /\ FreshInv /\ SecretInv
  BY DEF PagesInv
<1>2. CASE GoodLoad(l)
  <2>1. l # NoLoad
    BY <1>2, AbsenceAssumption DEF GoodLoad
  <2> QED
    BY <1>1, <1>2, <2>1
    DEF Progress, GoodLoad, PagesInv, TypeOK, server, LoadShape, JobsInv, JobShape, FreshInv,
        SecretInv, Creating, SecretStays
<1>3. CASE l = NoLoad /\ ~Swallows(topic)
  BY <1>1, <1>3
  DEF Progress, PagesInv, TypeOK, server, LoadShape, JobsInv, JobShape, FreshInv, Swallows,
      Observed, SecretInv, Creating, SecretStays
<1> QED
  BY <1>2, <1>3

(* The arrival of data that are new enough keeps the invariant.            *)
LEMMA DeliverInv ==
    ASSUME PagesInv, NEW d \in Data, Deliver(d), d.good => d.ver >= must
    PROVE  PagesInv' /\ SecretStays
<1>1. TypeOK /\ JobsInv /\ SecretInv
  BY DEF PagesInv
<1>2. blank' \in BOOLEAN
  BY <1>1, BreaksType DEF Deliver, TypeOK
<1>3. TypeOK'
  BY <1>1, <1>2 DEF Deliver, TypeOK, server
<1>4. LoadShape' /\ FreshInv'
  BY DEF Deliver, LoadShape, FreshInv
<1>5. JobsInv' /\ SecretInv' /\ SecretStays
  BY <1>1 DEF Deliver, server, JobsInv, JobShape, SecretInv, Creating, SecretStays
<1> QED
  BY <1>3, <1>4, <1>5 DEF PagesInv

(* A change of the page's own state keeps the invariant.                   *)
LEMMA SetInv ==
    ASSUME PagesInv, NEW u \in UIs, Set(u), ~blank,
           u.modal = "edit" <=> u.item # NoItem, u.secret \in {0, ui.secret}
    PROVE  PagesInv' /\ SecretStays
<1>1. TypeOK /\ LoadShape /\ JobsInv /\ FreshInv /\ SecretInv
  BY DEF PagesInv
<1>2. blank' \in BOOLEAN
  BY BreaksType DEF Set
<1>3. TypeOK'
  BY <1>1, <1>2 DEF Set, TypeOK, server, UIs
<1>4. LoadShape' /\ FreshInv' /\ JobsInv' /\ SecretInv' /\ SecretStays
  BY <1>1
  DEF Set, server, LoadShape, FreshInv, Swallows, Observed, JobsInv, JobShape, SecretInv,
      Creating, SecretStays
<1> QED
  BY <1>3, <1>4 DEF PagesInv

(* A mutation that starts keeps the invariant, if it is not a second       *)
(* creation.                                                               *)
LEMMA MutateInv ==
    ASSUME PagesInv, NEW kind \in Kinds, NEW item \in Items \cup {NoItem}, NEW u \in UIs,
           Mutate(kind, item, u),
           u.modal = "edit" <=> u.item # NoItem,
           u.secret = ui.secret,
           kind \in {"set", "delete", "register"} => item \in Items,
           kind = "create" => ui.secret = 0 /\ ~isPending("create")
    PROVE  PagesInv' /\ SecretStays
<1> DEFINE new == [kind |-> kind, item |-> item, ver |-> 0, stage |-> "sent", alive |-> TRUE]
<1>1. TypeOK /\ LoadShape /\ JobsInv /\ FreshInv /\ SecretInv
  BY DEF PagesInv
<1>2. PICK j \in Jobs : jobs[j] = NoJob /\ jobs' = [jobs EXCEPT ![j] = new]
  BY DEF Mutate
<1>3. new \in Job
  BY DEF Job
<1>4. /\ jobs' \in [Jobs -> Job \cup {NoJob}]
      /\ \A i \in Jobs : jobs'[i] = IF i = j THEN new ELSE jobs[i]
  BY <1>1, <1>2, <1>3 DEF TypeOK
<1>5. TypeOK'
  BY <1>1, <1>4 DEF Mutate, TypeOK, server, UIs
<1>6. LoadShape' /\ FreshInv'
  BY <1>1 DEF Mutate, LoadShape, FreshInv, Swallows, Observed
<1>7. JobShape(new)
  BY <1>1 DEF JobShape, TypeOK
<1>8. JobsInv'
  BY <1>1, <1>4, <1>7 DEF Mutate, server, JobsInv, JobShape
<1>9. SecretInv' /\ SecretStays
  <2>1. kind = "create" => \A i \in Jobs : ~Creating(i)
    BY DEF isPending, Creating
  <2>2. ui'.secret = ui.secret
    BY DEF Mutate
  <2> QED
    BY <1>1, <1>4, <2>1, <2>2 DEF SecretInv, Creating, SecretStays
<1> QED
  BY <1>5, <1>6, <1>8, <1>9 DEF PagesInv

-----------------------------------------------------------------------------
(* Going from page to page keeps the invariant: the load under way stays,  *)
(* and no mutation is this page's own any more.                            *)
LEMMA NavigateInv ==
    ASSUME PagesInv, NEW p \in Pages, Navigate(p)
    PROVE  PagesInv' /\ SecretStays
<1>1. TypeOK /\ LoadShape /\ JobsInv /\ FreshInv
  BY DEF PagesInv
<1>2. ui \in UIs /\ ui' = Untouched /\ page' = p /\ data' = data
      /\ UNCHANGED <<topic, content, ver, must>>
  BY <1>1 DEF Navigate, Arrive, server, TypeOK, UIs
<1>3. blank' \in BOOLEAN
  BY BreaksType DEF Navigate, Arrive
<1>4. \/ GoodLoad(load')
      \/ load' = load /\ ~Observed'
  BY <1>1, LoadFacts DEF Navigate, Arrive, Observed
<1>5. ASSUME NEW j \in Jobs
      PROVE  /\ jobs'[j] \in Job \cup {NoJob}
             /\ jobs'[j] # NoJob =>
                  /\ jobs[j] # NoJob
                  /\ jobs'[j].kind = jobs[j].kind /\ jobs'[j].item = jobs[j].item
                  /\ jobs'[j].ver = jobs[j].ver /\ jobs'[j].stage = jobs[j].stage
                  /\ ~jobs'[j].alive
  <2>1. jobs'[j] = IF jobs[j] = NoJob THEN NoJob ELSE [jobs[j] EXCEPT !.alive = FALSE]
    BY DEF Navigate
  <2>2. jobs[j] \in Job \cup {NoJob}
    BY <1>1 DEF TypeOK
  <2> QED
    BY <2>1, <2>2 DEF Job
<1>6. jobs' \in [Jobs -> Job \cup {NoJob}]
  BY <1>5 DEF Navigate
<1>7. ui' \in UIs /\ ui'.modal = "none" /\ ui'.item = NoItem /\ ui'.secret = 0
  BY <1>2, UIFacts
<1>8. TypeOK'
  <2>1. load' \in Load \cup {NoLoad}
    BY <1>1, <1>4 DEF TypeOK, GoodLoad
  <2> QED
    BY <1>1, <1>2, <1>3, <1>6, <1>7, <2>1 DEF TypeOK, UIs
<1>9. LoadShape' /\ FreshInv'
  BY <1>1, <1>2, <1>4, AbsenceAssumption DEF LoadShape, FreshInv, GoodLoad, Swallows
<1>10. JobsInv'
  BY <1>1, <1>2, <1>5 DEF JobsInv, JobShape
<1>11. SecretInv' /\ SecretStays
  BY <1>5, <1>7 DEF SecretInv, Creating, SecretStays
<1> QED
  BY <1>8, <1>9, <1>10, <1>11 DEF PagesInv

(* Loading the page anew keeps the invariant.                              *)
LEMMA ReloadInv == ASSUME PagesInv, Reload PROVE PagesInv' /\ SecretStays
<1>1. TypeOK
  BY DEF PagesInv
<1>2. load' \in Load \cup {NoLoad} /\ (load' # NoLoad => load' = Begin)
  BY BeginFacts DEF Reload
<1>3. ui' \in UIs /\ ui'.modal = "none" /\ ui'.item = NoItem /\ ui'.secret = 0
  BY DEF Reload, Untouched, UIs
<1>4. jobs' \in [Jobs -> Job \cup {NoJob}] /\ \A j \in Jobs : jobs'[j] = NoJob
  BY DEF Reload
<1>5. data' = NoData /\ blank' = FALSE /\ UNCHANGED <<topic, content, ver, page, must>>
  BY DEF Reload, server
<1>6. TypeOK'
  <2>1. /\ topic' \in Queries /\ content' \in SUBSET Items /\ page' \in Pages
        /\ blank' \in BOOLEAN /\ data' \in Data \cup {NoData}
    BY <1>1, <1>5 DEF TypeOK
  <2>2. ver' \in 0 .. MaxChanges /\ must' \in 0 .. ver'
    BY <1>1, <1>5, PagesAssumption DEF TypeOK
  <2> QED
    BY <1>2, <1>3, <1>4, <2>1, <2>2 DEF TypeOK, UIs
<1>7. LoadShape' /\ FreshInv'
  BY <1>2, <1>5, BeginFacts DEF LoadShape, FreshInv
<1>8. JobsInv' /\ SecretInv' /\ SecretStays
  BY <1>3, <1>4 DEF JobsInv, SecretInv, Creating, SecretStays
<1> QED
  BY <1>6, <1>7, <1>8 DEF PagesInv

(* The steps of a load keep the invariant.                                 *)
LEMMA LoadStepInv == ASSUME PagesInv, LoadStep PROVE PagesInv' /\ SecretStays
<1>1. TypeOK /\ LoadShape /\ FreshInv
  BY DEF PagesInv
<1>2. load \in Load /\ GoodLoad(load) /\ load # NoLoad
  BY <1>1, LoadFacts DEF LoadStep, Answer, AnswerValues, Arrives, Fail, Retry, TypeOK
<1>3. CASE Answer
  <2> DEFINE stage == IF topic = "kv-all" THEN "values" ELSE "ready"
             answer == [ver |-> ver, rows |-> content, filled |-> {}, good |-> TRUE]
             l == [load EXCEPT !.stage = stage, !.answer = answer]
  <2>1. answer \in Data /\ answer.ver >= must /\ answer # NoData
    <3>1. ver \in Nat /\ ver >= must /\ content \in SUBSET Items
      BY <1>1, PagesAssumption DEF TypeOK
    <3>2. answer \in Data /\ answer.ver >= must
      BY <3>1 DEF Data
    <3> QED
      BY <3>2, AbsenceAssumption
  <2>2. stage \in {"values", "ready"}
    OBVIOUS
  <2>3. Progress(l)
    BY <1>3 DEF Answer
  <2> HIDE DEF stage, answer
  <2>4. l \in Load /\ l.answer = answer
    BY <1>2, <2>1, <2>2 DEF Load
  <2>5. GoodLoad(l)
    BY <2>1, <2>4 DEF GoodLoad
  <2> HIDE DEF l
  <2> QED
    BY <2>3, <2>4, <2>5, ProgressInv
<1>4. CASE AnswerValues
  <2>1. PICK S \in SUBSET (load.answer.rows \cap content) :
          Progress([load EXCEPT !.stage = "ready", !.answer.filled = S])
    BY <1>4 DEF AnswerValues
  <2> DEFINE l == [load EXCEPT !.stage = "ready", !.answer.filled = S]
  <2>2. load.answer \in Data /\ load.answer.ver >= must
    BY <1>2, <1>4 DEF AnswerValues, GoodLoad, Load
  <2>3. S \in SUBSET Items
    BY <1>1 DEF TypeOK
  <2>4. l \in Load /\ l.answer \in Data /\ l.answer.ver = load.answer.ver
    BY <1>2, <2>2, <2>3 DEF Load, Data
  <2>5. GoodLoad(l)
    BY <2>2, <2>4, AbsenceAssumption DEF GoodLoad
  <2> HIDE DEF l
  <2> QED
    BY <2>1, <2>4, <2>5, ProgressInv DEF l
<1>5. CASE Arrives
  <2>1. load.answer \in Data /\ load.answer.ver >= must
    BY <1>2, <1>5 DEF Arrives, GoodLoad, Load
  <2> QED
    BY <1>5, <2>1, DeliverInv DEF Arrives
<1>6. CASE Fail
  <2>1. CASE Swallows(topic)
    <3> DEFINE d == [ver |-> 0, rows |-> {}, filled |-> {}, good |-> FALSE]
    <3>1. d \in Data /\ d.good = FALSE
      BY DEF Data
    <3>2. Deliver(d)
      BY <1>6, <2>1 DEF Fail
    <3> HIDE DEF d
    <3> QED
      BY <3>1, <3>2, DeliverInv
  <2>2. CASE ~Swallows(topic) /\ load.tries > 0 /\ Observed
    <3> DEFINE left == load.tries - 1
               l == [load EXCEPT !.stage = "paused", !.tries = left]
    <3>a. left \in 0 .. 1
      BY <1>2, <2>2 DEF Load
    <3> HIDE DEF left
    <3>1. l \in Load /\ l.answer = load.answer /\ l.stage = "paused"
      BY <1>2, <3>a DEF Load
    <3>2. GoodLoad(l)
      BY <1>2, <3>1 DEF GoodLoad
    <3>3. Progress(l)
      BY <1>6, <2>2 DEF Fail, left
    <3> HIDE DEF l
    <3> QED
      BY <3>1, <3>2, <3>3, ProgressInv
  <2>3. CASE ~Swallows(topic) /\ ~(load.tries > 0 /\ Observed)
    <3>1. Progress(NoLoad)
      BY <1>6, <2>3 DEF Fail
    <3> QED
      BY <2>3, <3>1, ProgressInv
  <2> QED
    BY <2>1, <2>2, <2>3
<1>7. CASE Retry
  <2> DEFINE l == [load EXCEPT !.stage = "sent"]
  <2>1. l \in Load /\ l.answer = load.answer /\ l.stage = "sent"
    BY <1>2 DEF Load
  <2>2. GoodLoad(l)
    BY <1>2, <2>1 DEF GoodLoad
  <2>3. Progress(l)
    BY <1>7 DEF Retry
  <2> HIDE DEF l
  <2> QED
    BY <2>1, <2>2, <2>3, ProgressInv
<1> QED
  BY <1>3, <1>4, <1>5, <1>6, <1>7 DEF LoadStep

(* The buttons and fields that change nothing but the page, and those that *)
(* load the list again, keep the invariant.                                *)
LEMMA ViewInv ==
    ASSUME PagesInv,
           \/ Refresh \/ Poll
           \/ \E S \in SUBSET Items : Search(S)
           \/ \E x \in Items : handleEdit(x)
           \/ handleCreate \/ Done \/ OpenForm \/ Cancel
    PROVE  PagesInv' /\ SecretStays
<1>1. TypeOK /\ LoadShape /\ FreshInv
  BY DEF PagesInv
<1>2. ui \in UIs /\ (ui.modal = "edit" <=> ui.item # NoItem)
  BY <1>1 DEF TypeOK, UIs
<1>3. CASE Refresh \/ Poll
  <2>1. GoodLoad(Joined) /\ GoodLoad(Refetched) /\ Joined \in Load /\ Refetched \in Load
    BY <1>1, LoadFacts DEF GoodLoad
  <2> QED
    BY <1>3, <2>1, ProgressInv DEF Refresh, Poll
<1>4. ASSUME NEW S \in SUBSET Items, Search(S)
      PROVE  PagesInv' /\ SecretStays
  <2> DEFINE u == [ui EXCEPT !.search = S]
  <2>1. u \in UIs /\ u.modal = ui.modal /\ u.item = ui.item /\ u.secret = ui.secret
    BY <1>2 DEF UIs
  <2>2. Set(u) /\ ~blank
    BY <1>4 DEF Search, On
  <2> HIDE DEF u
  <2> QED
    BY <1>2, <2>1, <2>2, SetInv
<1>5. ASSUME NEW x \in Items, handleEdit(x)
      PROVE  PagesInv' /\ SecretStays
  <2> DEFINE u == [ui EXCEPT !.modal = "edit", !.item = x]
  <2>1. u \in UIs /\ u.modal = "edit" /\ u.item = x /\ u.secret = ui.secret /\ x # NoItem
    BY <1>2, PagesAssumption DEF UIs
  <2>2. Set(u) /\ ~blank
    BY <1>5 DEF handleEdit, On
  <2> HIDE DEF u
  <2> QED
    BY <2>1, <2>2, SetInv
<1>6. ASSUME NEW m \in {"create", "form"}, ~blank, ui.modal = "none",
             Set([ui EXCEPT !.modal = m])
      PROVE  PagesInv' /\ SecretStays
  <2> DEFINE u == [ui EXCEPT !.modal = m]
  <2>1. u \in UIs /\ u.modal # "edit" /\ u.item = NoItem /\ u.secret = ui.secret
    BY <1>2, <1>6 DEF UIs
  <2> HIDE DEF u
  <2> QED
    BY <1>6, <2>1, SetInv DEF u
<1>7. CASE handleCreate \/ OpenForm
  BY <1>6, <1>7 DEF handleCreate, OpenForm, On
<1>8. CASE Done \/ Cancel
  BY <1>2, <1>8, UIFacts, SetInv DEF Done, Cancel, On
<1> QED
  BY <1>3, <1>4, <1>5, <1>7, <1>8

(* The buttons that change the server keep the invariant.                  *)
LEMMA ButtonInv ==
    ASSUME PagesInv,
           \/ \E x \in Items : handleSave(x) \/ handleDelete(x) \/ RegisterService(x)
           \/ \E kind \in {"deregister", "heartbeat"} : CardButton(kind)
           \/ CreateAPIKey
    PROVE  PagesInv' /\ SecretStays
<1>1. ui \in UIs /\ (ui.modal = "edit" <=> ui.item # NoItem)
  BY DEF PagesInv, TypeOK, UIs
<1>2. Closed \in UIs /\ Closed.modal = "none" /\ Closed.item = NoItem
      /\ Closed.secret = ui.secret
  BY <1>1, UIFacts
<1>3. ASSUME NEW x \in Items, handleSave(x)
      PROVE  PagesInv' /\ SecretStays
  <2>1. Mutate("set", x, Closed)
    BY <1>3 DEF handleSave
  <2> QED
    BY <1>2, <2>1, MutateInv DEF Kinds
<1>4. ASSUME NEW x \in Items, handleDelete(x)
      PROVE  PagesInv' /\ SecretStays
  <2>1. Mutate("delete", x, ui)
    BY <1>4 DEF handleDelete
  <2> QED
    BY <1>1, <2>1, MutateInv DEF Kinds
<1>5. ASSUME NEW x \in Items, RegisterService(x)
      PROVE  PagesInv' /\ SecretStays
  <2>1. Mutate("register", x, ui)
    BY <1>5 DEF RegisterService
  <2> QED
    BY <1>1, <2>1, MutateInv DEF Kinds
<1>6. ASSUME NEW kind \in {"deregister", "heartbeat"}, CardButton(kind)
      PROVE  PagesInv' /\ SecretStays
  <2>1. Mutate(kind, NoItem, ui)
    BY <1>6 DEF CardButton
  <2>2. kind \in Kinds /\ kind \notin {"set", "delete", "register", "create"}
    BY DEF Kinds
  <2> QED
    BY <1>1, <2>1, <2>2, MutateInv
<1>7. CASE CreateAPIKey
  <2>1. /\ Mutate("create", NoItem, ui)
        /\ ui.secret = 0 /\ ~isPending("create")
    BY <1>7 DEF CreateAPIKey
  <2> QED
    BY <1>1, <2>1, MutateInv DEF Kinds
<1> QED
  BY <1>3, <1>4, <1>5, <1>6, <1>7

-----------------------------------------------------------------------------
(* What a change leaves stored, and the version it makes.                  *)
LEMMA ChangeFacts ==
    ASSUME TypeOK
    PROVE  /\ \A x \in Items : /\ Written("set", x) \in SUBSET Items
                               /\ Written("register", x) \in SUBSET Items
                               /\ Written("delete", x) \in SUBSET Items
           /\ \A x : /\ Written("create", x) \in SUBSET Items
                     /\ Written("deregister", x) \in SUBSET Items
                     /\ Written("heartbeat", x) \in SUBSET Items
           /\ Changed => ver' \in 0 .. MaxChanges /\ ver' > ver
           /\ ver \in Nat /\ must \in Nat /\ must <= ver
<1>1. content \in SUBSET Items
  BY DEF TypeOK
<1>2. ver \in Nat /\ must \in Nat /\ must <= ver
  BY PagesAssumption DEF TypeOK
<1>3. Changed => ver' \in 0 .. MaxChanges /\ ver' > ver
  BY <1>2, PagesAssumption DEF Changed
<1>4. \A x \in Items : /\ Written("set", x) \in SUBSET Items
                       /\ Written("register", x) \in SUBSET Items
                       /\ Written("delete", x) \in SUBSET Items
  BY <1>1 DEF Written
<1>5. \A x : /\ Written("create", x) \in SUBSET Items
             /\ Written("deregister", x) \in SUBSET Items
             /\ Written("heartbeat", x) \in SUBSET Items
  BY <1>1 DEF Written
<1> QED
  BY <1>2, <1>3, <1>4, <1>5

(* A change carried out by the server keeps the invariant.                 *)
LEMMA ServeInv ==
    ASSUME PagesInv, NEW j \in Jobs, Serve(j)
    PROVE  PagesInv' /\ SecretStays
<1> DEFINE kind == jobs[j].kind
           stage == IF kind = "heartbeat" THEN "refused" ELSE "done"
<1>1. TypeOK /\ LoadShape /\ JobsInv /\ FreshInv /\ SecretInv
  BY DEF PagesInv
<1>2. jobs[j] \in Job /\ jobs[j] # NoJob /\ JobShape(jobs[j]) /\ kind \in Kinds
  BY <1>1 DEF Serve, TypeOK, JobsInv, Job
<1>3. content' \in SUBSET Items
  <2>1. content' = Written(kind, jobs[j].item)
    BY DEF Serve
  <2>2. kind \in {"set", "delete", "register"} => jobs[j].item \in Items
    BY <1>2 DEF JobShape
  <2> HIDE DEF kind
  <2> QED
    BY <1>1, <1>2, <2>1, <2>2, ChangeFacts DEF Kinds
<1>4. ver' \in 0 .. MaxChanges /\ ver' \in Nat /\ ver' >= ver /\ ver \in Nat
  <2>1. ver' = ver \/ Changed
    BY DEF Serve
  <2> QED
    BY <1>1, <2>1, ChangeFacts, PagesAssumption DEF TypeOK
<1>5. jobs' = [jobs EXCEPT ![j].stage = stage, ![j].ver = ver']
  BY DEF Serve
<1>6. stage \in {"done", "refused"} /\ (kind = "heartbeat" => stage = "refused")
  OBVIOUS
<1> HIDE DEF stage
<1>7. /\ jobs'[j] \in Job
      /\ jobs'[j].stage = stage /\ jobs'[j].ver = ver'
      /\ jobs'[j].kind = kind /\ jobs'[j].item = jobs[j].item
      /\ jobs'[j].alive = jobs[j].alive
  BY <1>1, <1>2, <1>4, <1>5, <1>6 DEF Job, TypeOK
<1>8. jobs' \in [Jobs -> Job \cup {NoJob}] /\ \A i \in Jobs : i # j => jobs'[i] = jobs[i]
  <2>1. jobs \in [Jobs -> Job \cup {NoJob}]
    BY <1>1 DEF TypeOK
  <2> DEFINE new == jobs'[j]
  <2>2. jobs' = [jobs EXCEPT ![j] = new] /\ new \in Job
    BY <1>5, <1>7, <2>1
  <2> HIDE DEF new
  <2> QED
    BY <2>1, <2>2
<1>9. UNCHANGED <<topic, page, blank, ui, data, load, must>>
  BY DEF Serve
<1>10. TypeOK'
  <2>1. must' \in 0 .. ver'
    BY <1>1, <1>4, <1>9 DEF TypeOK
  <2> QED
    BY <1>1, <1>3, <1>4, <1>8, <1>9, <2>1 DEF TypeOK
<1>11. LoadShape' /\ FreshInv'
  BY <1>1, <1>9 DEF LoadShape, FreshInv, Swallows, Observed
<1>12. JobsInv'
  <2> SUFFICES ASSUME NEW i \in Jobs, jobs'[i] # NoJob PROVE JobShape(jobs[i])'
    BY DEF JobsInv
  <2>1. CASE i = j
    BY <1>2, <1>4, <1>6, <1>7, <1>9, <2>1 DEF JobShape
  <2>2. CASE i # j
    <3>1. JobShape(jobs[i]) /\ jobs[i] \in Job /\ jobs'[i] = jobs[i]
      BY <1>1, <1>8, <2>2 DEF JobsInv, TypeOK
    <3>2. jobs[i].ver \in Nat
      BY <3>1 DEF Job
    <3> QED
      BY <1>4, <1>9, <3>1, <3>2 DEF JobShape
  <2> QED
    BY <2>1, <2>2
<1>13. SecretInv' /\ SecretStays
  <2>1. \A i \in Jobs : Creating(i)' => Creating(i)
    BY <1>2, <1>7, <1>8 DEF Creating
  <2> QED
    BY <1>1, <1>9, <2>1 DEF SecretInv, SecretStays
<1> QED
  BY <1>10, <1>11, <1>12, <1>13 DEF PagesInv

(* The answer to a mutation keeps the invariant.  If its version is to be  *)
(* shown from now on, the load that may hold an older answer is dropped;   *)
(* and the answer to a creation finds no secret on display.                *)
LEMMA OnSuccessInv ==
    ASSUME PagesInv, NEW j \in Jobs, onSuccess(j)
    PROVE  PagesInv' /\ SecretStays
<1>1. TypeOK /\ LoadShape /\ JobsInv /\ FreshInv /\ SecretInv
  BY DEF PagesInv
<1>2. jobs[j] \in Job /\ jobs[j] # NoJob /\ JobShape(jobs[j]) /\ jobs[j].kind \in Kinds
      /\ jobs[j].ver \in Nat
  BY <1>1 DEF onSuccess, TypeOK, JobsInv, Job
<1>3. UNCHANGED <<topic, content, ver, page, blank, data>>
  BY DEF onSuccess, server
<1>4. ver \in Nat /\ must \in Nat /\ must <= ver
  BY <1>1, ChangeFacts
<1>5. /\ jobs' \in [Jobs -> Job \cup {NoJob}]
      /\ \A i \in Jobs : jobs'[i] = IF i = j THEN NoJob ELSE jobs[i]
  BY <1>1 DEF onSuccess, TypeOK
<1>6. ui \in UIs /\ (ui.modal = "edit" <=> ui.item # NoItem)
  BY <1>1 DEF TypeOK, UIs
<1>7. /\ ui' \in UIs /\ (ui'.modal = "edit" <=> ui'.item # NoItem)
      /\ ui'.secret = ui.secret \/ Creating(j)
  <2>1. CASE ui' = ui
    BY <1>6, <2>1
  <2>2. CASE jobs[j].alive /\ ~blank
    <3>1. ui' = Succeeded(jobs[j]) /\ jobs[j].kind # "heartbeat"
      BY <1>2, <2>2 DEF onSuccess, JobShape
    <3>2. CASE jobs[j].kind \in {"set", "register"}
      BY <1>6, <3>1, <3>2, UIFacts DEF Succeeded
    <3>3. CASE jobs[j].kind = "create"
      <4>1. ui' = [ui EXCEPT !.secret = jobs[j].ver]
        BY <3>1, <3>3 DEF Succeeded
      <4>2. ui' \in UIs /\ ui'.modal = ui.modal /\ ui'.item = ui.item
        BY <1>2, <1>6, <4>1 DEF UIs
      <4> QED
        BY <1>2, <1>6, <2>2, <3>3, <4>2 DEF Creating
    <3>4. CASE jobs[j].kind \in {"delete", "deregister"}
      BY <1>6, <3>1, <3>4 DEF Succeeded
    <3> QED
      BY <1>2, <3>1, <3>2, <3>3, <3>4 DEF Kinds
  <2> QED
    BY <2>1, <2>2 DEF onSuccess
<1>8. must' \in 0 .. ver /\ must' >= must
  BY <1>2, <1>4, MaxFacts DEF onSuccess, JobShape
<1>9. \/ load' = load /\ must' = must
      \/ load = NoLoad /\ load' = NoLoad /\ ~Observed
      \/ GoodLoad(load') /\ load' # NoLoad /\ (must' # must => load'.answer = NoData)
  <2>1. GoodLoad(Refetched) /\ Refetched # NoLoad
        /\ (data # NoData \/ load = NoLoad => Refetched.answer = NoData)
    BY <1>1, LoadFacts, BeginFacts, AbsenceAssumption DEF GoodLoad, Refetched
  <2>2. CASE ~Shows(jobs[j].kind)
    BY <2>1, <2>2 DEF onSuccess
  <2>3. CASE Shows(jobs[j].kind) /\ Observed
    <3>1. Invalidates(jobs[j].kind) = topic
      BY <1>2, <2>3, InvalidatesOwn DEF Shows
    <3> QED
      BY <2>1, <2>3, <3>1 DEF onSuccess, Shows
  <2>4. CASE Shows(jobs[j].kind) /\ ~Observed
    BY <2>4 DEF onSuccess, Shows
  <2> QED
    BY <2>2, <2>3, <2>4
<1>10. TypeOK'
  <2>1. load' \in Load \cup {NoLoad}
    BY <1>1, <1>9 DEF TypeOK, GoodLoad
  <2> QED
    BY <1>1, <1>3, <1>5, <1>7, <1>8, <2>1 DEF TypeOK, UIs
<1>11. LoadShape'
  BY <1>1, <1>9 DEF LoadShape, GoodLoad
<1>12. FreshInv'
  BY <1>1, <1>3, <1>4, <1>8, <1>9 DEF FreshInv, GoodLoad, Swallows, Observed
<1>13. JobsInv'
  BY <1>1, <1>3, <1>5 DEF JobsInv, JobShape
<1>14. SecretInv' /\ SecretStays
  BY <1>1, <1>5, <1>7 DEF SecretInv, Creating, SecretStays
<1> QED
  BY <1>10, <1>11, <1>12, <1>13, <1>14 DEF PagesInv

(* A mutation that is given up keeps the invariant.                        *)
LEMMA RejectedInv ==
    ASSUME PagesInv, NEW j \in Jobs, Rejected(j)
    PROVE  PagesInv' /\ SecretStays
<1>1. TypeOK /\ LoadShape /\ JobsInv /\ FreshInv /\ SecretInv
  BY DEF PagesInv
<1>2. /\ jobs' \in [Jobs -> Job \cup {NoJob}]
      /\ \A i \in Jobs : jobs'[i] = IF i = j THEN NoJob ELSE jobs[i]
  BY <1>1 DEF Rejected, TypeOK
<1>3. TypeOK'
  BY <1>1, <1>2 DEF Rejected, TypeOK, server
<1>4. LoadShape' /\ FreshInv'
  BY <1>1 DEF Rejected, LoadShape, FreshInv, Swallows, Observed
<1>5. JobsInv' /\ SecretInv' /\ SecretStays
  BY <1>1, <1>2 DEF Rejected, server, JobsInv, JobShape, SecretInv, Creating, SecretStays
<1> QED
  BY <1>3, <1>4, <1>5 DEF PagesInv

(* A change made elsewhere keeps the invariant.                            *)
LEMMA OthersChangeInv == ASSUME PagesInv, OthersChange PROVE PagesInv' /\ SecretStays
<1>1. TypeOK /\ LoadShape /\ JobsInv /\ FreshInv /\ SecretInv
  BY DEF PagesInv
<1>2. UNCHANGED <<topic, page, blank, ui, data, load, jobs, must>>
  BY DEF OthersChange
<1>3. content' \in SUBSET Items
  <2>1. PICK x \in Items : content' = Written(IF x \in content THEN "delete" ELSE "set", x)
    BY DEF OthersChange
  <2> QED
    BY <1>1, <2>1, ChangeFacts
<1>4. ver \in Nat /\ ver' \in 0 .. MaxChanges /\ ver' \in Nat /\ ver' > ver
      /\ must \in Nat /\ must <= ver
  BY <1>1, ChangeFacts, PagesAssumption DEF OthersChange
<1>5. TypeOK'
  <2>1. must' \in 0 .. ver'
    BY <1>2, <1>4
  <2> QED
    BY <1>1, <1>2, <1>3, <1>4, <2>1 DEF TypeOK
<1>6. LoadShape' /\ FreshInv' /\ SecretInv' /\ SecretStays
  BY <1>1, <1>2 DEF LoadShape, FreshInv, Swallows, Observed, SecretInv, Creating, SecretStays
<1>7. JobsInv'
  <2> SUFFICES ASSUME NEW i \in Jobs, jobs[i] # NoJob PROVE JobShape(jobs[i])'
    BY <1>2 DEF JobsInv
  <2>1. JobShape(jobs[i]) /\ jobs[i] \in Job
    BY <1>1 DEF JobsInv, TypeOK
  <2>2. jobs[i].ver \in Nat
    BY <2>1 DEF Job
  <2> QED
    BY <1>2, <1>4, <2>1, <2>2 DEF JobShape
<1> QED
  BY <1>5, <1>6, <1>7 DEF PagesInv

-----------------------------------------------------------------------------
(* Every step keeps the invariant, and leaves a secret or takes it away.   *)
LEMMA StepInv == PagesInv /\ [Next]_vars => PagesInv' /\ SecretStays
<1> SUFFICES ASSUME PagesInv, [Next]_vars PROVE PagesInv' /\ SecretStays
  OBVIOUS
<1>1. CASE Use
  BY <1>1, NavigateInv, ReloadInv, ViewInv, ButtonInv DEF Use
<1>2. CASE LoadStep
  BY <1>2, LoadStepInv
<1>3. CASE Poll
  BY <1>3, ViewInv
<1>4. CASE BrokenElsewhere
  BY <1>4
  DEF BrokenElsewhere, server, PagesInv, TypeOK, LoadShape, JobsInv, JobShape, FreshInv,
      Swallows, Observed, SecretInv, Creating, SecretStays
<1>5. ASSUME NEW j \in Jobs, Serve(j) \/ onSuccess(j) \/ Rejected(j)
      PROVE  PagesInv' /\ SecretStays
  BY <1>5, ServeInv, OnSuccessInv, RejectedInv
<1>6. CASE OthersChange
  BY <1>6, OthersChangeInv
<1>7. CASE UNCHANGED vars
  BY <1>7
  DEF vars, PagesInv, TypeOK, LoadShape, JobsInv, JobShape, FreshInv, Swallows, Observed,
      SecretInv, Creating, SecretStays
<1> QED
  BY <1>1, <1>2, <1>3, <1>4, <1>5, <1>6, <1>7 DEF Next

(* The invariant holds in every state the program reaches.                 *)
LEMMA AlwaysInv == Spec => []PagesInv
<1>1. PagesInv /\ [Next]_vars => PagesInv'
  BY StepInv
<1> QED
  BY <1>1, InitInv, PTL DEF Spec

(* The state of the pages, the cache and the mutations stays well-typed.   *)
THEOREM TypeCorrect == Spec => []TypeOK
<1>1. PagesInv => TypeOK
  BY DEF PagesInv
<1> QED
  BY <1>1, AlwaysInv, PTL

(* A list on display and at rest shows every acknowledged change made on   *)
(* its page, if the list was at rest, or on display with data, at the      *)
(* acknowledgement: whatever was being loaded, and wherever the user went  *)
(* (KVStore.tsx:38, Services.tsx:43).                                      *)
THEOREM OwnWritesAreShown == Spec => []OwnWritesShown
<1>1. PagesInv => OwnWritesShown
  BY DEF PagesInv, FreshInv, OwnWritesShown
<1> QED
  BY <1>1, AlwaysInv, PTL

(* The secret of a new API key stays on display until the user is done     *)
(* with it or leaves (APIKeys.tsx:66, :291).                               *)
THEOREM SecretIsKept == Spec => SecretKept
<1>1. PagesInv /\ [Next]_vars => [ui.secret # 0 => ui'.secret \in {0, ui.secret}]_vars
  BY StepInv DEF SecretStays
<1> QED
  BY <1>1, AlwaysInv, PTL DEF Spec, SecretKept
=============================================================================
