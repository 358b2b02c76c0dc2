----------------------------- MODULE AdminPages -----------------------------
(***************************************************************************)
(* The pages of the admin interface, what they show and what they change,  *)
(* in one tab with a session that lasts: the dashboard, services, keys,    *)
(* health and API keys, on the query cache they share.                     *)
(*                                                                         *)
(* The cache is @tanstack/react-query, external, modelled by what the      *)
(* pages use.  A query has at most one load under way.  A page that        *)
(* mounts loads its queries, or joins the load under way; an invalidation  *)
(* starts a load afresh, but joins a first load (there is nothing to show  *)
(* yet); a mutation runs its onSuccess even when its page is gone, though  *)
(* what that sets in the page is then lost.                                *)
(*                                                                         *)
(* Queries do not touch each other, and a mutation invalidates one.  So    *)
(* each behaviour follows one query, topic, over every page; the keys page *)
(* changes what two of them read.  The data are abstracted to the version  *)
(* of the server they were read at and the rows they hold.  Events never   *)
(* reach a page (see AdminSocket).                                         *)
(***************************************************************************)
EXTENDS Integers, FiniteSetsExt

CONSTANTS Items,            \* the keys or services that come and go
          Jobs,             \* numbers of the mutations under way at once
          MaxChanges,       \* bound on the changes of the server
          NoData, NoLoad, NoJob, NoItem

ASSUME PagesAssumption ==
    /\ NoItem \notin Items
    /\ Jobs \subseteq Nat
    /\ MaxChanges \in Nat

VARIABLES
    topic,      \* the query followed
    content,    \* the server: what is stored or registered
    ver,        \* the server: number of changes so far
    page,       \* the page on display
    blank,      \* an error while rendering has taken everything down
    ui,         \* state of the page: modal, item edited, search, secret shown
    data,       \* the cache: what the query holds, and its load under way
    load,
    jobs,       \* mutations under way
    must        \* history: the change of its page the query has to show

server == <<content, ver>>
vars == <<topic, content, ver, page, blank, ui, data, load, jobs, must>>

Pages == {"dashboard", "services", "kv", "health", "apikeys"}
Queries == {"services", "kv-list", "kv-all", "health", "apikeys"}

(* The useQuery calls of a page.                                           *)
QueriesOf(p) ==
    CASE p = "dashboard" -> {"services", "kv-list", "health"}
      [] p = "services"  -> {"services"}
      [] p = "kv"        -> {"kv-all"}
      [] p = "health"    -> {"health"}
      [] p = "apikeys"   -> {"apikeys"}

(* getServices, listKV and listKVWithValues turn an error into an empty    *)
(* list; the queries of health and API keys throw.                         *)
Swallows(q) == q \in {"services", "kv-list", "kv-all"}

(* Mutant of Invalidates: a save invalidates the list of the dashboard.    *)
InvalidatesList(kind) ==
    CASE kind = "set" -> "kv-list"
      [] kind = "delete" -> "kv-all"
      [] kind \in {"register", "deregister", "heartbeat"} -> "services"
      [] kind = "create" -> "apikeys"

(* The query a mutation invalidates when it succeeds.                      *)
Invalidates(kind) ==
    CASE kind \in {"set", "delete"} -> "kv-all"
      [] kind \in {"register", "deregister", "heartbeat"} -> "services"
      [] kind = "create" -> "apikeys"

Kinds == {"set", "delete", "register", "deregister", "heartbeat", "create"}

(* The page that makes a mutation.                                         *)
PageOf(kind) ==
    CASE kind \in {"set", "delete"} -> "kv"
      [] kind \in {"register", "deregister", "heartbeat"} -> "services"
      [] kind = "create" -> "apikeys"

-----------------------------------------------------------------------------
(* Types.  The values of the rows in filled have arrived; good tells an    *)
(* answer of the server from the empty list an error is turned into.       *)
Data == [ver : Nat, rows : SUBSET Items, filled : SUBSET Items, good : BOOLEAN]
Load == [stage : {"sent", "values", "paused", "ready"}, tries : 0 .. 1,
         answer : Data \cup {NoData}]
Job == [kind : Kinds, item : Items \cup {NoItem}, ver : Nat,
        stage : {"sent", "done", "refused"}, alive : BOOLEAN]

ASSUME AbsenceAssumption == NoData \notin Data /\ NoLoad \notin Load /\ NoJob \notin Job

TypeOK ==
    /\ topic \in Queries
    /\ content \in SUBSET Items
    /\ ver \in 0 .. MaxChanges
    /\ page \in Pages
    /\ blank \in BOOLEAN
    /\ ui \in [modal : {"none", "create", "edit", "form"}, item : Items \cup {NoItem},
               search : SUBSET Items, secret : Nat]
    /\ data \in Data \cup {NoData}
    /\ load \in Load \cup {NoLoad}
    /\ jobs \in [Jobs -> Job \cup {NoJob}]
    /\ must \in 0 .. ver
    /\ ui.modal = "edit" <=> ui.item # NoItem

-----------------------------------------------------------------------------
(* The query cache.                                                        *)

Begin == [stage |-> "sent", tries |-> 1, answer |-> NoData]

(* A mount or a poll: the load under way will do.                          *)
Joined == IF load # NoLoad THEN load ELSE Begin

(* refetch and invalidateQueries: the load under way is dropped, unless it *)
(* is the first.                                                           *)
Refetched == IF load # NoLoad /\ data = NoData THEN load ELSE Begin

Observed == ~blank /\ topic \in QueriesOf(page)

Untouched == [modal |-> "none", item |-> NoItem, search |-> Items, secret |-> 0]

(* Rendering fails: the keys page gives React the object that answers      *)
(* GET /kv/:key where a string belongs; the health page reads a field of   *)
(* system.memory, which the server does not send.                          *)
Breaks(p, d, u) ==
    /\ d # NoData
    /\ \/ p = "kv" /\ topic = "kv-all" /\ d.filled \cap u.search # {}
       \/ p = "health" /\ topic = "health"

(* Page p mounts, over the data d and the load l that would do for it.     *)
Arrive(p, d, l) ==
    /\ page' = p
    /\ ui' = Untouched
    /\ blank' = Breaks(p, d, Untouched)
    /\ data' = d
    /\ load' = IF topic \in QueriesOf(p) /\ ~Breaks(p, d, Untouched) THEN l ELSE load

Init ==
    /\ topic \in Queries
    /\ content \in SUBSET Items
    /\ ver = 0
    /\ page \in Pages
    /\ blank = FALSE
    /\ ui = Untouched
    /\ data = NoData
    /\ load = IF topic \in QueriesOf(page) THEN Begin ELSE NoLoad
    /\ jobs = [j \in Jobs |-> NoJob]
    /\ must = 0

(* A link of the sidebar: what the old page kept is gone.                  *)
Navigate(p) ==
    /\ ~blank /\ p # page
    /\ Arrive(p, data, Joined)
    /\ jobs' = [j \in Jobs |-> IF jobs[j] = NoJob THEN NoJob ELSE [jobs[j] EXCEPT !.alive = FALSE]]
    /\ UNCHANGED <<topic, server, must>>

(* The browser loads the page anew; only this helps when it is blank.      *)
Reload ==
    /\ page' = page
    /\ ui' = Untouched
    /\ blank' = FALSE
    /\ data' = NoData
    /\ load' = IF topic \in QueriesOf(page) THEN Begin ELSE NoLoad
    /\ jobs' = [j \in Jobs |-> NoJob]
    /\ UNCHANGED <<topic, server, must>>

(* Another query's data break the page.                                    *)
BrokenElsewhere ==
    /\ ~blank
    /\ page \in {"kv", "health"} /\ ~Observed
    /\ blank' = TRUE
    /\ UNCHANGED <<topic, server, page, ui, data, load, jobs, must>>

-----------------------------------------------------------------------------
(* Loads.                                                                  *)

Progress(l) ==
    /\ load' = l
    /\ UNCHANGED <<topic, server, page, blank, ui, data, jobs, must>>

(* Data reach the cache, and the page if it shows the query.               *)
Deliver(d) ==
    /\ data' = d
    /\ load' = NoLoad
    /\ blank' = (blank \/ Breaks(page, d, ui))
    /\ UNCHANGED <<topic, server, page, ui, jobs, must>>

(* The server reads what was asked for.  The keys page goes on to ask for  *)
(* every value.                                                            *)
Answer ==
    /\ load # NoLoad /\ load.stage = "sent"
    /\ Progress([load EXCEPT
         !.stage = IF topic = "kv-all" THEN "values" ELSE "ready",
         !.answer = [ver |-> ver, rows |-> content, filled |-> {}, good |-> TRUE]])

(* Promise.all over the values: a request that fails, for whatever reason, *)
(* leaves the empty string.                                                *)
AnswerValues ==
    /\ load # NoLoad /\ load.stage = "values"
    /\ \E S \in SUBSET (load.answer.rows \cap content) :
         Progress([load EXCEPT !.stage = "ready", !.answer.filled = S])

Arrives == load # NoLoad /\ load.stage = "ready" /\ Deliver(load.answer)

(* Mutant of Fail: a query that throws is retried until it succeeds.       *)
FailForever ==
    /\ load # NoLoad /\ load.stage = "sent"
    /\ IF Swallows(topic)
       THEN Deliver([ver |-> 0, rows |-> {}, filled |-> {}, good |-> FALSE])
       ELSE Progress([load EXCEPT !.stage = "paused"])

(* No answer, or an error.  A query that throws is tried once more, after  *)
(* a pause, if it still has a page; then the data it had are kept.         *)
Fail ==
    /\ load # NoLoad /\ load.stage = "sent"
    /\ IF Swallows(topic)
       THEN Deliver([ver |-> 0, rows |-> {}, filled |-> {}, good |-> FALSE])
       ELSE Progress(IF load.tries > 0 /\ Observed
                     THEN [load EXCEPT !.stage = "paused", !.tries = @ - 1]
                     ELSE NoLoad)

Retry == load # NoLoad /\ load.stage = "paused" /\ Progress([load EXCEPT !.stage = "sent"])

LoadStep == Answer \/ AnswerValues \/ Arrives \/ Fail \/ Retry

(* The Refresh buttons.                                                    *)
Refresh ==
    /\ Observed
    /\ page \in {"services", "kv"}
    /\ Progress(Refetched)

(* refetchInterval: thirty seconds have passed.                            *)
Poll ==
    /\ Observed
    /\ topic = "health"
    /\ Progress(Joined)

-----------------------------------------------------------------------------
(* What the user does on the page of the query.  The keys page is followed *)
(* with the list of keys of the dashboard too, which it also changes.      *)

On(p) ==
    /\ ~blank /\ page = p
    /\ topic \in QueriesOf(p) \/ (p = "kv" /\ topic = "kv-list")

Set(u) ==
    /\ ui' = u
    /\ blank' = Breaks(page, data, u)
    /\ UNCHANGED <<topic, server, page, data, load, jobs, must>>

(* The rows on the page: any, if its own list is not the one followed.     *)
Rows == IF ~Observed THEN ui.search
        ELSE IF data = NoData THEN {} ELSE data.rows \cap ui.search

(* mutate, with u for the page from now on.                                *)
Mutate(kind, item, u) ==
    /\ \E j \in Jobs :
        /\ jobs[j] = NoJob /\ \A i \in Jobs : i < j => jobs[i] # NoJob
        /\ jobs' = [jobs EXCEPT ![j] = [kind |-> kind, item |-> item, ver |-> 0,
                                        stage |-> "sent", alive |-> TRUE]]
    /\ ui' = u
    /\ UNCHANGED <<topic, server, page, blank, data, load, must>>

isPending(kind) == \E j \in Jobs : jobs[j] # NoJob /\ jobs[j].kind = kind /\ jobs[j].alive

Closed == [ui EXCEPT !.modal = "none", !.item = NoItem]

(* The keys page.  Search leaves the keys in S.                            *)
Search(S) == On("kv") /\ ui.modal = "none" /\ Set([ui EXCEPT !.search = S])

handleCreate == On("kv") /\ ui.modal = "none" /\ Set([ui EXCEPT !.modal = "create"])

handleEdit(k) ==
    /\ On("kv") /\ ui.modal = "none" /\ k \in Rows
    /\ Set([ui EXCEPT !.modal = "edit", !.item = k])

(* Mutant of handleSave: the item selected is kept.                        *)
handleSaveKeeps(k) ==
    /\ On("kv")
    /\ ui.modal = "create" \/ (ui.modal = "edit" /\ k = ui.item)
    /\ Mutate("set", k, [ui EXCEPT !.modal = "none"])

(* The Save button of KVEditor: the editor is closed before the answer.    *)
handleSave(k) ==
    /\ On("kv")
    /\ ui.modal = "create" \/ (ui.modal = "edit" /\ k = ui.item)
    /\ Mutate("set", k, Closed)

handleDelete(k) ==
    /\ On("kv") /\ ui.modal = "none" /\ k \in Rows
    /\ Mutate("delete", k, ui)

(* The services page.  A card has no id to name its service by, since the  *)
(* server sends none.                                                      *)
RegisterService(n) ==
    /\ On("services") /\ ui.modal = "form"
    /\ ~isPending("register")
    /\ Mutate("register", n, ui)

CardButton(kind) ==
    /\ On("services") /\ ui.modal = "none" /\ Rows # {}
    /\ Mutate(kind, NoItem, ui)

(* Mutant of CreateAPIKey: the button stays enabled.                       *)
CreateAPIKeyTwice ==
    /\ On("apikeys") /\ ui.modal = "form" /\ ui.secret = 0
    /\ Mutate("create", NoItem, ui)

(* The API keys page.  Its list never has a row, since the server wraps it *)
(* in an object.                                                           *)
CreateAPIKey ==
    /\ On("apikeys") /\ ui.modal = "form" /\ ui.secret = 0
    /\ ~isPending("create")
    /\ Mutate("create", NoItem, ui)

Done == On("apikeys") /\ ui.secret # 0 /\ Set(Untouched)

(* The form of either page, which a new key hides.                         *)
OpenForm ==
    /\ On("services") \/ On("apikeys")
    /\ ui.modal = "none" /\ ui.secret = 0
    /\ Set([ui EXCEPT !.modal = "form"])

(* Cancel, or the cross, of the editor and the forms.                      *)
Cancel == On(page) /\ ui.modal # "none" /\ ui.secret = 0 /\ Set(Closed)

-----------------------------------------------------------------------------
(* Mutations.                                                              *)

Changed == ver < MaxChanges /\ ver' = ver + 1

Written(kind, x) ==
    CASE kind \in {"set", "register"} -> content \cup {x}
      [] kind = "delete" -> content \ {x}
      [] kind \in {"create", "deregister", "heartbeat"} -> content

(* The server carries out the request.  The buttons of a card name a       *)
(* service "undefined": to remove it changes nothing and succeeds, a       *)
(* heartbeat for it is refused.                                            *)
Serve(j) ==
    LET kind == jobs[j].kind
    IN  /\ jobs[j] # NoJob /\ jobs[j].stage = "sent"
        /\ content' = Written(kind, jobs[j].item)
        /\ IF kind \in {"deregister", "heartbeat"} THEN UNCHANGED ver ELSE Changed
        /\ jobs' = [jobs EXCEPT ![j].stage = IF kind = "heartbeat" THEN "refused" ELSE "done",
                                ![j].ver = ver']
        /\ UNCHANGED <<topic, page, blank, ui, data, load, must>>

(* What onSuccess sets in the page.                                        *)
Succeeded(job) ==
    CASE job.kind \in {"set", "register"} -> Closed
      [] job.kind = "create" -> [ui EXCEPT !.secret = job.ver]
      [] job.kind \in {"delete", "deregister"} -> ui

(* The list of the page that made a change is at rest, or on display with  *)
(* data.  (A first load, or one whose page is gone, may have been answered *)
(* before the change and is not dropped.)                                  *)
Shows(kind) ==
    /\ topic \in QueriesOf(PageOf(kind))
    /\ load = NoLoad \/ (Observed /\ data # NoData)

(* The answer arrives: onSuccess invalidates the list, which is loaded     *)
(* again if it is on display, and changes the page if it is still there.   *)
onSuccess(j) ==
    /\ jobs[j] # NoJob /\ jobs[j].stage = "done"
    /\ jobs' = [jobs EXCEPT ![j] = NoJob]
    /\ ui' = IF jobs[j].alive /\ ~blank THEN Succeeded(jobs[j]) ELSE ui
    /\ load' = IF Observed /\ Invalidates(jobs[j].kind) = topic THEN Refetched ELSE load
    /\ must' = IF Shows(jobs[j].kind) THEN Max({must, jobs[j].ver}) ELSE must
    /\ UNCHANGED <<topic, server, page, blank, data>>

(* The request is refused, or the answer lost: the page is not told.       *)
Rejected(j) ==
    /\ jobs[j] # NoJob
    /\ jobs' = [jobs EXCEPT ![j] = NoJob]
    /\ UNCHANGED <<topic, server, page, blank, ui, data, load, must>>

(* Another client of the server.                                           *)
OthersChange ==
    /\ Changed
    /\ \E x \in Items : content' = Written(IF x \in content THEN "delete" ELSE "set", x)
    /\ UNCHANGED <<topic, page, blank, ui, data, load, jobs, must>>

Use ==
    \/ \E p \in Pages : Navigate(p)
    \/ Reload
    \/ Refresh
    \/ \E S \in SUBSET Items : Search(S)
    \/ \E x \in Items : handleEdit(x) \/ handleSave(x) \/ handleDelete(x) \/ RegisterService(x)
    \/ handleCreate
    \/ \E kind \in {"deregister", "heartbeat"} : CardButton(kind)
    \/ CreateAPIKey
    \/ Done
    \/ OpenForm
    \/ Cancel

Next ==
    \/ Use
    \/ LoadStep
    \/ Poll
    \/ BrokenElsewhere
    \/ \E j \in Jobs : Serve(j) \/ onSuccess(j) \/ Rejected(j)
    \/ OthersChange

Spec == Init /\ [][Next]_vars

(* Every request is answered or fails, every pause ends.                   *)
FairSpec == Spec /\ WF_vars(LoadStep)
-----------------------------------------------------------------------------
(* A list that is on display and at rest shows every acknowledged change   *)
(* that was made on its page, whatever was being loaded at the time,       *)
(* wherever the user went meanwhile and even after a reload - but for the  *)
(* empty list that stands for an error, and unless a first load, or one    *)
(* whose page had gone, was under way when the change was acknowledged     *)
(* (KVStore.tsx:38, :47, Services.tsx:43).  The list of keys on the        *)
(* dashboard (Dashboard.tsx:18), which no mutation invalidates, is not one *)
(* of these.                                                               *)
OwnWritesShown ==
    (Swallows(topic) /\ Observed /\ load = NoLoad /\ data # NoData /\ data.good)
    => data.ver >= must

(* The secret of a new API key, which the server never shows again, stays  *)
(* on display until the user is done with it or leaves: no other answer    *)
(* takes its place (APIKeys.tsx:66, :291).                                 *)
SecretKept == [][ui.secret # 0 => ui'.secret \in {0, ui.secret}]_vars

(* No page shows its skeleton for ever, unless the user keeps reloading    *)
(* it: a first load comes to an end, also when the server fails, and       *)
(* neither polls nor invalidations put it off (main.tsx:12; api.ts:151).   *)
SkeletonEnds ==
    LET isLoading == Observed /\ data = NoData /\ load # NoLoad
    IN  <>[][~Reload]_vars => (isLoading ~> ~isLoading)
=============================================================================
