------------------------------- MODULE Proxy --------------------------------
(***************************************************************************)
(* internal/proxy: the unary interceptor around the forwarding server, with *)
(* the token store it consults and the Temporal server behind it.           *)
(*                                                                         *)
(* A call is one run of the interceptor.  It goes through the steps         *)
(*                                                                         *)
(*   receive -> lookup -> forward -> evict -> record ... record -> reply    *)
(*                                                                         *)
(* with an early return wherever the code has one, and interleaves with the *)
(* other calls between any two of them: the interceptor holds no lock, each *)
(* store call is atomic on its own, and the upstream call takes as long as  *)
(* it takes.  A slot of Calls runs one call after the other.                *)
(*                                                                         *)
(* The store is the contract of TokenStore.  With the local backend every   *)
(* instance has a store of its own that never fails and is lost in a crash; *)
(* with Valkey all instances share one whose calls may fail, a failed write *)
(* taking effect at once, later or never.                                   *)
(*                                                                         *)
(* The upstream server (external) issues a token once, for a task of one    *)
(* namespace and queue; only an open task can be answered.                  *)
(***************************************************************************)
EXTENDS Scope, Actions, Integers, FiniteSets

CONSTANTS
    Calls,            \* slots for concurrent calls
    Instances,        \* proxy processes
    Backend,          \* TEMPORAL_PROXY_TOKEN_CACHE_BACKEND
    Tokens, Namespaces, Queues, None,
    Keys,             \* API keys
    Requests,         \* the requests workers send
    Authenticate(_),  \* auth.Authenticator: the identities it may answer with
    MaxDispatch,      \* bound: tasks handed out in one response
    MaxActions        \* bound: billed actions per task

Identities ==
    [valid : {TRUE}, ns : Namespaces, queues : SUBSET Queues]
        \cup [valid : {FALSE}, ns : {Empty}, queues : {{}}]

Entries == [ns : Namespaces, queue : Queues]

ASSUME BackendAssumption == Backend \in {"local", "valkey"}
ASSUME EmptyAssumption   == Empty \notin Queues /\ Empty \notin Tokens /\ Empty \notin Namespaces
ASSUME NoneAssumption    == None \notin Entries /\ None \notin Identities
ASSUME BoundAssumption   == MaxDispatch \in Nat /\ MaxActions \in Nat
ASSUME AuthAssumption    == \A k \in Keys : Authenticate(k) \subseteq Identities

\* The fields of a request, as far as they matter here.
ASSUME RequestAssumption == \A req \in Requests :
    /\ req.header \in Seq([bearer : BOOLEAN, key : Keys \cup {Empty}])
    /\ req.ns \in Namespaces \cup {Empty}
    /\ req.tq \in [name : Queues \cup {Empty}, kind : {"normal", "sticky"},
                   normal : Queues \cup {Empty}]
    /\ req.token \in Tokens \cup {Empty}
    /\ req.commands \in Seq([type : STRING, ns : Namespaces \cup {Empty},
                             queue : Queues \cup {Empty}])
    /\ req.heartbeats \in Seq(Queues \cup {Empty})

VARIABLES
    pc,         \* pc[c]: the step call c takes next
    call,       \* call[c]: the request, its instance and what c found out
    store,      \* store[s]: the contents of each token store
    late,       \* writes Valkey has not carried out though the call failed
    tasks,      \* the upstream server's tasks, by token
    delivered,  \* history: <<t, s>>: a worker was given t by a call on store s
    forgotten,  \* history: <<t, s>>: store s lost t on its own
    consumed,   \* history: tokens whose last answer was acknowledged
    undeleted,  \* history: tokens whose Delete failed
    billed,     \* history: actions the server billed, by token
    logged      \* history: actions the proxy logged, by token

vars == <<pc, call, store, late, tasks, delivered, forgotten, consumed,
          undeleted, billed, logged>>
ghosts == <<delivered, forgotten, consumed, undeleted, billed, logged>>

S == INSTANCE StoreValues
-----------------------------------------------------------------------------
Shared == "valkey"
Stores == IF Backend = "local" THEN Instances ELSE {Shared}
StoreOf(i) == IF Backend = "local" THEN i ELSE Shared

Steps == {"idle", "lookup", "forward", "evict", "record", "answered"}
Codes == {"none", "ok", "PermissionDenied", "Unavailable", "Internal", "upstream error"}

Entry(ns, queue) == [ns |-> ns, queue |-> queue]

\* A task the server has not created yet.
Unissued == [state |-> "unissued", kind |-> "none", ns |-> None, queue |-> None]

TaskRecords ==
    [state : {"open", "closed"}, kind : {"workflow", "activity", "nexus"},
     ns : Namespaces, queue : Queues] \cup {Unissued}

TaskScope(t) == Entry(tasks[t].ns, tasks[t].queue)

\* The zero Identity, of a call without usable credentials.
Anonymous == [valid |-> FALSE, ns |-> Empty, queues |-> {}]

NoCall == [inst |-> None, req |-> None, id |-> None, queue |-> Empty,
           tokens |-> <<>>, recorded |-> 0, code |-> "none"]

\* extractAPIKey: exactly one authorization value, "Bearer " and a key.
ExtractAPIKey(header) ==
    IF Len(header) = 1 /\ header[1].bearer THEN header[1].key ELSE Empty

CallStore(c) == StoreOf(call[c].inst)
CallToken(c) == RequestTaskToken(call[c].req)

Goto(c, step) == pc' = [pc EXCEPT ![c] = step]

\* An early return: the call is answered with an error.
Answer(c, code) ==
    /\ Goto(c, "answered")
    /\ call' = [call EXCEPT ![c].code = code]
-----------------------------------------------------------------------------
Init ==
    /\ pc = [c \in Calls |-> "idle"]
    /\ call = [c \in Calls |-> NoCall]
    /\ store = [s \in Stores |-> S!EmptyStore]
    /\ late = {}
    /\ tasks = [t \in Tokens |-> Unissued]
    /\ delivered = {} /\ forgotten = {} /\ consumed = {} /\ undeleted = {}
    /\ billed = [t \in Tokens |-> 0]
    /\ logged = [t \in Tokens |-> 0]

\* The call as it stands once the identity is known.
NewCall(i, req, id, queue, code) ==
    [inst |-> i, req |-> req, id |-> id, queue |-> queue,
     tokens |-> <<>>, recorded |-> 0, code |-> code]

\* What the credentials of a request may turn out to be worth.
IdentitiesFor(req) ==
    IF ExtractAPIKey(req.header) = Empty THEN {Anonymous}
    ELSE Authenticate(ExtractAPIKey(req.header))

(* The interceptor up to the token lookup: the allowlist, the credentials    *)
(* and the authenticator come first, then authorizeRequest.                  *)
Permitted(req, id) ==
    req.rpc \in AllowedRPCs /\ id.valid /\ AuthorizeRequest(req, id)

Receive(c, i, req) ==
    /\ pc[c] = "idle"
    /\ \E id \in IdentitiesFor(req) :
          IF Permitted(req, id)
          THEN /\ Goto(c, IF req.rpc \in TokenRPCs THEN "lookup" ELSE "forward")
               /\ call' = [call EXCEPT ![c] = NewCall(i, req, id, ScopedTaskQueue(req), "none")]
          ELSE /\ Goto(c, "answered")
               /\ call' = [call EXCEPT ![c] = NewCall(i, req, id, Empty, "PermissionDenied")]
    /\ UNCHANGED <<store, late, tasks, ghosts>>

\* Mutant of EntryAuthorized: any cached token will do.
AnyIdentity(c, entry) == TRUE

\* The token was issued to the caller's namespace and to one of its queues.
EntryAuthorized(c, entry) ==
    entry.ns = call[c].id.ns /\ AllowsTaskQueue(call[c].id, entry.queue)

\* cache.Get finds the token: check its entry and, for a completion, the commands.
LookupHit(c) ==
    LET entry == store[CallStore(c)][CallToken(c)] IN
    /\ pc[c] = "lookup"
    /\ entry # None
    /\ IF /\ EntryAuthorized(c, entry)
          /\ call[c].req.rpc = "RespondWorkflowTaskCompleted" =>
                ValidateCommands(call[c].req.commands, call[c].id.ns, entry.queue)
       THEN /\ Goto(c, "forward")
            /\ call' = [call EXCEPT ![c].queue = entry.queue]
       ELSE Answer(c, "PermissionDenied")
    /\ UNCHANGED <<store, late, tasks, ghosts>>

\* cache.Get finds nothing: unknown or expired task token.
LookupMiss(c) ==
    /\ pc[c] = "lookup"
    /\ store[CallStore(c)][CallToken(c)] = None
    /\ Answer(c, "PermissionDenied")
    /\ UNCHANGED <<store, late, tasks, ghosts>>

\* cache.Get fails (Valkey only).
LookupFails(c) ==
    /\ pc[c] = "lookup"
    /\ Backend = "valkey"
    /\ Answer(c, "Unavailable")
    /\ UNCHANGED <<store, late, tasks, ghosts>>
-----------------------------------------------------------------------------
(* The upstream server (external). *)

\* The kind of task an RPC polls for or answers.
TaskKind(rpc) ==
    CASE rpc \in {"PollWorkflowTaskQueue", "RespondWorkflowTaskCompleted",
                 "RespondWorkflowTaskFailed", "RespondQueryTaskCompleted"} -> "workflow"
      [] rpc \in {"PollNexusTaskQueue", "RespondNexusTaskCompleted",
                 "RespondNexusTaskFailed"} -> "nexus"
      [] OTHER -> "activity"

\* The RPCs that finish a task.
Finishes(rpc) ==
    rpc \in TokenRPCs \ {"RecordActivityTaskHeartbeat", "RespondQueryTaskCompleted"}

(* The queue whose tasks a poll serves.  A sticky queue only ever receives   *)
(* tasks of workflows on the normal queue it belongs to: the assumption      *)
(* scope.go:81-95 relies on.                                                 *)
QueueServed(tq) == IF tq.kind = "sticky" THEN tq.normal ELSE tq.name

\* A task handed out in a response.
Dispatches ==
    [token : Tokens, kind : {"workflow", "activity", "nexus"},
     ns : Namespaces, queue : Queues]

(* The tasks a response to req may hand out: a poll at most one, of the kind *)
(* and queue it asked for; a workflow task completion the next task of the   *)
(* same workflow, then tasks of activities its commands scheduled.           *)
MayDispatch(req, out) ==
    /\ \A j \in DOMAIN out : tasks[out[j].token] = Unissued
    /\ \A j, k \in DOMAIN out : out[j].token = out[k].token => j = k
    /\ \/ out = <<>>
       \/ /\ req.rpc \in PollRPCs
          /\ DOMAIN out = {1}
          /\ out[1].kind = TaskKind(req.rpc)
          /\ out[1].ns = req.ns /\ out[1].queue = QueueServed(req.tq)
       \/ /\ req.rpc = "RespondWorkflowTaskCompleted"
          /\ \A j \in DOMAIN out :
                /\ out[j].ns = tasks[req.token].ns
                /\ \/ /\ out[j].kind = "workflow" /\ j = 1
                      /\ out[j].queue = tasks[req.token].queue
                   \/ /\ out[j].kind = "activity"
                      /\ \E k \in DOMAIN req.commands :
                            /\ req.commands[k].type = "ScheduleActivityTask"
                            /\ req.commands[k].queue = out[j].queue

\* The server takes a request: its task, if it names one, is open and of the kind.
ServerAccepts(req) ==
    req.rpc \in TokenRPCs =>
        /\ req.token \in Tokens
        /\ tasks[req.token].state = "open"
        /\ tasks[req.token].kind = TaskKind(req.rpc)
        /\ billed[req.token] + FromRequest(req) <= MaxActions

\* The server's tasks after it took req and handed out out.
TasksAfter(req, out) ==
    [t \in Tokens |->
        IF \E j \in DOMAIN out : out[j].token = t
        THEN LET d == out[CHOOSE j \in DOMAIN out : out[j].token = t] IN
             [state |-> "open", kind |-> d.kind, ns |-> d.ns, queue |-> d.queue]
        ELSE IF Finishes(req.rpc) /\ req.token = t
        THEN [tasks[t] EXCEPT !.state = "closed"]
        ELSE tasks[t]]

BilledAfter(req) ==
    IF req.rpc \in TokenRPCs
    THEN [billed EXCEPT ![req.token] = @ + FromRequest(req)] ELSE billed
-----------------------------------------------------------------------------
\* The server does what was asked and its response reaches the proxy.
UpstreamSucceeds(c) ==
    LET req == call[c].req IN
    /\ pc[c] = "forward"
    /\ ServerAccepts(req)
    /\ \E n \in 0..MaxDispatch : \E out \in [1..n -> Dispatches] :
          /\ MayDispatch(req, out)
          /\ tasks' = TasksAfter(req, out)
          /\ call' = [call EXCEPT ![c].tokens = [j \in 1..n |-> out[j].token]]
    /\ billed' = BilledAfter(req)
    /\ Goto(c, IF req.rpc \in TerminalRPCs THEN "evict" ELSE "record")
    /\ UNCHANGED <<store, late, delivered, forgotten, consumed, undeleted, logged>>

\* The server does what was asked, but its response is lost on the way back.
UpstreamResponseLost(c) ==
    LET req == call[c].req IN
    /\ pc[c] = "forward"
    /\ ServerAccepts(req)
    /\ \E n \in 0..MaxDispatch : \E out \in [1..n -> Dispatches] :
          MayDispatch(req, out) /\ tasks' = TasksAfter(req, out)
    /\ billed' = BilledAfter(req)
    /\ Answer(c, "upstream error")
    /\ UNCHANGED <<store, late, delivered, forgotten, consumed, undeleted, logged>>

\* Mutant of UpstreamFails: the early return is missing.
UpstreamErrorIgnored(c) ==
    /\ pc[c] = "forward"
    /\ Goto(c, IF call[c].req.rpc \in TerminalRPCs THEN "evict" ELSE "record")
    /\ UNCHANGED <<call, store, late, tasks, ghosts>>

\* Mutant of UpstreamFails: the token is deleted before the error is returned.
UpstreamErrorEvicts(c) ==
    /\ pc[c] = "forward"
    /\ Answer(c, "upstream error")
    /\ store' = [store EXCEPT ![CallStore(c)] = S!Without(@, {CallToken(c)})]
    /\ UNCHANGED <<late, tasks, ghosts>>

\* The server refuses or is not reached.
UpstreamFails(c) ==
    /\ pc[c] = "forward"
    /\ Answer(c, "upstream error")
    /\ UNCHANGED <<store, late, tasks, ghosts>>
-----------------------------------------------------------------------------
\* Mutant of Evict: the call does not wait for its Delete.
EvictInBackground(c) ==
    /\ pc[c] = "evict"
    /\ late' = late \cup {[token |-> CallToken(c), entry |-> None]}
    /\ Goto(c, "record")
    /\ UNCHANGED <<call, store, tasks, ghosts>>

\* After a successful terminal RPC: cache.Delete.
Evict(c) ==
    /\ pc[c] = "evict"
    /\ store' = [store EXCEPT ![CallStore(c)] = S!Without(@, {CallToken(c)})]
    /\ Goto(c, "record")
    /\ UNCHANGED <<call, late, tasks, ghosts>>

\* cache.Delete fails (Valkey only): a warning, and on with the call.
EvictFails(c) ==
    /\ pc[c] = "evict"
    /\ Backend = "valkey"
    /\ late' = late \cup {[token |-> CallToken(c), entry |-> None]}
    /\ undeleted' = undeleted \cup {CallToken(c)}
    /\ Goto(c, "record")
    /\ UNCHANGED <<call, store, tasks, delivered, forgotten, consumed, billed, logged>>

\* The response tokens to record, the next of them, and its entry.
ToRecord(c)  == CollectResponseTaskTokens(call[c].req.rpc, call[c].tokens)
NextToken(c) == ToRecord(c)[call[c].recorded + 1]

\* Mutant of ScopedEntry: the queue is read off the request.
RequestQueueEntry(c) == Entry(call[c].id.ns, call[c].req.tq.name)

ScopedEntry(c) == Entry(call[c].id.ns, call[c].queue)

\* The loop over the response tokens has not ended.
Recording(c) == pc[c] = "record" /\ call[c].recorded < Len(ToRecord(c))

(* cache.Put of the next response token under the caller's scope; an error   *)
(* if the request established no queue.                                      *)
Record(c) ==
    /\ Recording(c)
    /\ IF call[c].queue = Empty
       THEN Answer(c, "Internal") /\ UNCHANGED store
       ELSE /\ store' = [store EXCEPT ![CallStore(c)] = S!With(@, NextToken(c), ScopedEntry(c))]
            /\ call' = [call EXCEPT ![c].recorded = @ + 1]
            /\ UNCHANGED pc
    /\ UNCHANGED <<late, tasks, ghosts>>

\* Mutant of RecordFails: the error is only logged, as it is for Delete.
PutErrorIgnored(c) ==
    /\ Recording(c)
    /\ Backend = "valkey"
    /\ call' = [call EXCEPT ![c].recorded = @ + 1]
    /\ UNCHANGED <<pc, store, late, tasks, ghosts>>

\* cache.Put fails (Valkey only): the worker gets no token at all.
RecordFails(c) ==
    /\ Recording(c)
    /\ call[c].queue # Empty
    /\ Backend = "valkey"
    /\ late' = late \cup {[token |-> NextToken(c), entry |-> ScopedEntry(c)]}
    /\ Answer(c, "Unavailable")
    /\ UNCHANGED <<store, tasks, ghosts>>

\* The actions of the request are logged and the response goes to the worker.
Reply(c) ==
    LET req == call[c].req IN
    /\ pc[c] = "record"
    /\ call[c].recorded = Len(ToRecord(c))
    /\ logged' = IF req.rpc \in TokenRPCs
                 THEN [logged EXCEPT ![req.token] = @ + FromRequest(req)] ELSE logged
    /\ Answer(c, "ok")
    /\ delivered' = delivered \cup
          {<<call[c].tokens[j], CallStore(c)>> : j \in 1..Len(call[c].tokens)}
    /\ consumed' = IF Finishes(req.rpc) THEN consumed \cup {req.token} ELSE consumed
    /\ UNCHANGED <<store, late, tasks, forgotten, undeleted, billed>>

\* The answer has been sent; the slot is free for another call.
Done(c) ==
    /\ pc[c] = "answered"
    /\ Goto(c, "idle")
    /\ call' = [call EXCEPT ![c] = NoCall]
    /\ UNCHANGED <<store, late, tasks, ghosts>>
-----------------------------------------------------------------------------
\* A store forgets a token on its own: its TTL ran out or it was evicted.
StoreForgets(s, t) ==
    /\ t \in S!Found(store[s])
    /\ store' = [store EXCEPT ![s] = S!Without(@, {t})]
    /\ forgotten' = forgotten \cup {<<t, s>>}
    /\ UNCHANGED <<pc, call, late, tasks, delivered, consumed, undeleted, billed, logged>>

\* Valkey carries out a write whose call was given up.
LateWrite(w) ==
    /\ w \in late
    /\ late' = late \ {w}
    /\ store' = [store EXCEPT ![Shared] =
                    IF w.entry = None THEN S!Without(@, {w.token})
                    ELSE S!With(@, w.token, w.entry)]
    /\ UNCHANGED <<pc, call, tasks, ghosts>>

\* The server gives up waiting for an answer to a task.
TaskTimesOut(t) ==
    /\ tasks[t].state = "open"
    /\ tasks' = [tasks EXCEPT ![t].state = "closed"]
    /\ UNCHANGED <<pc, call, store, late, ghosts>>

(* A proxy process dies and is restarted: its calls break off unanswered,    *)
(* and the local backend starts empty.                                       *)
Crash(i) ==
    LET broken == {c \in Calls : call[c].inst = i} IN
    /\ pc' = [c \in Calls |-> IF c \in broken THEN "idle" ELSE pc[c]]
    /\ call' = [c \in Calls |-> IF c \in broken THEN NoCall ELSE call[c]]
    /\ IF Backend = "local"
       THEN /\ store' = [store EXCEPT ![i] = S!EmptyStore]
            /\ forgotten' = forgotten \cup (S!Found(store[i]) \X {i})
       ELSE UNCHANGED <<store, forgotten>>
    /\ UNCHANGED <<late, tasks, delivered, consumed, undeleted, billed, logged>>
-----------------------------------------------------------------------------
\* The steps of a call once it was received.
Proceed(c) ==
    \/ LookupHit(c) \/ LookupMiss(c) \/ LookupFails(c)
    \/ UpstreamSucceeds(c) \/ UpstreamResponseLost(c) \/ UpstreamFails(c)
    \/ Evict(c) \/ EvictFails(c)
    \/ Record(c) \/ RecordFails(c)
    \/ Reply(c) \/ Done(c)

Next ==
    \/ \E c \in Calls, i \in Instances, req \in Requests : Receive(c, i, req)
    \/ \E c \in Calls : Proceed(c)
    \/ \E s \in Stores, t \in Tokens : StoreForgets(s, t)
    \/ \E w \in late : LateWrite(w)
    \/ \E t \in Tokens : TaskTimesOut(t)
    \/ \E i \in Instances : Crash(i)

Spec == Init /\ [][Next]_vars
-----------------------------------------------------------------------------
ActiveCalls ==
    [inst : Instances, req : Requests, id : Identities, queue : Queues \cup {Empty},
     tokens : Seq(Tokens), recorded : Nat, code : Codes]

TypeOK ==
    /\ pc \in [Calls -> Steps]
    /\ call \in [Calls -> ActiveCalls \cup {NoCall}]
    /\ store \in [Stores -> S!Contents]
    /\ late \subseteq [token : Tokens, entry : Entries \cup {None}]
    /\ tasks \in [Tokens -> TaskRecords]
    /\ delivered \subseteq Tokens \X Stores
    /\ forgotten \subseteq Tokens \X Stores
    /\ consumed \subseteq Tokens
    /\ undeleted \subseteq Tokens

(* Every entry in a store, or on its way into one, is the true namespace and *)
(* queue of the task the server issued the token for.  The interceptor never *)
(* learns either from the server: it records what the caller's request was   *)
(* scoped to, so this rests on every check that scoping goes through, and    *)
(* for eagerly dispatched activities on ValidateCommands.                    *)
CacheMatchesUpstream ==
    /\ \A s \in Stores, t \in Tokens :
          store[s][t] # None => store[s][t] = TaskScope(t)
    /\ \A w \in late : w.entry # None => w.entry = TaskScope(w.token)

(* Where a command of the workflow task with token t directs work, if it     *)
(* names a task queue.  The others do not: a signal to or a cancellation of  *)
(* another workflow names a namespace, a nexus operation an endpoint.        *)
(* ValidateCommands passes them on as they are.                              *)
WorkDirected(cmd, t) ==
    CASE cmd.type = "ScheduleActivityTask" -> {Entry(tasks[t].ns, cmd.queue)}
      [] cmd.type = "StartChildWorkflowExecution" ->
            {Entry(IF cmd.ns = Empty THEN tasks[t].ns ELSE cmd.ns, cmd.queue)}
      [] cmd.type = "ContinueAsNewWorkflowExecution" ->
            {Entry(tasks[t].ns, IF cmd.queue = Empty THEN tasks[t].queue ELSE cmd.queue)}
      [] OTHER -> {}

(* The namespaces and queues whose work req fetches, answers or reports on.  *)
(* The sticky queue and the heartbeat that ShutdownWorker may name are not   *)
(* among them: authorizeRequest passes them on as they are.                  *)
WorkTouched(req) ==
    (IF req.rpc \in PollRPCs THEN {Entry(req.ns, QueueServed(req.tq))} ELSE {})
    \cup (IF req.rpc \in {"PollNexusTaskQueue", "RecordWorkerHeartbeat"}
          THEN {Entry(req.ns, req.heartbeats[j]) : j \in DOMAIN req.heartbeats} ELSE {})
    \cup (IF req.rpc = "ShutdownWorker" /\ req.tq.name # Empty
          THEN {Entry(req.ns, req.tq.name)} ELSE {})
    \cup (IF req.rpc \in TokenRPCs THEN {TaskScope(req.token)} ELSE {})

\* What an identity was configured with.
Own(id) == {Entry(id.ns, q) : q \in id.queues}

StaysOnTaskQueue(req) ==
    req.rpc = "RespondWorkflowTaskCompleted" =>
        \A j \in DOMAIN req.commands :
            WorkDirected(req.commands[j], req.token) \subseteq {TaskScope(req.token)}

(* README, "Scopes the request to that identity": work is fetched, answered  *)
(* and reported on only in the caller's namespace and on its queues, judged  *)
(* by the server's own record of the task a token stands for and not by the  *)
(* cache, whichever calls ran between the lookup and the forwarding; and a   *)
(* completion schedules activities, starts children and continues only on    *)
(* the task's own queue.  What a request may carry besides is not promised   *)
(* to be in scope, see WorkDirected and WorkTouched; DenialsAreDeserved      *)
(* uses the same two, so nothing else is a reason to deny a call either.     *)
WorkStaysInScope ==
    \A c \in Calls : pc[c] = "forward" =>
        LET req == call[c].req
            id  == call[c].id
        IN /\ id.valid /\ req.rpc \in AllowedRPCs
           /\ req.rpc # "GetSystemInfo" => req.ns = id.ns
           /\ WorkTouched(req) \subseteq Own(id)
           /\ StaysOnTaskQueue(req)

(* A token handed to a worker is in the store that handed it out for as long *)
(* as its task is open, unless the store itself lost it: no upstream error,  *)
(* query answer, concurrent call or failed write takes it away early, and    *)
(* no worker holds a token that was not recorded first.                      *)
OpenTokensStayCached ==
    \A t \in Tokens, s \in Stores :
        <<t, s>> \in delivered \ forgotten /\ tasks[t].state = "open" =>
            store[s][t] # None

(* A token whose final answer was acknowledged is gone from every store, and *)
(* stays gone, unless its Delete failed.                                     *)
ConsumedTokensForgotten ==
    \A t \in consumed \ undeleted, s \in Stores : store[s][t] = None

(* "proxy: missing task queue scope" is never answered: every response that  *)
(* carries tokens belongs to a request that established a queue.             *)
NoInternalError == \A c \in Calls : call[c].code # "Internal"

(* README: the action log is a lower bound of what the server bills.  Two    *)
(* calls racing to complete one workflow task are never both logged, and a   *)
(* call the server rejected is not logged.                                   *)
LogIsLowerBound == \A t \in Tokens : logged[t] <= billed[t]

\* A request the proxy has no reason to deny, in the current state.
Entitled(req, id, s) ==
    /\ id.valid /\ req.rpc \in AllowedRPCs
    /\ req.rpc # "GetSystemInfo" => req.ns = id.ns
    /\ req.rpc \in PollRPCs => req.tq.name # Empty
    /\ req.rpc \in TokenRPCs =>
          /\ <<req.token, s>> \in delivered \ forgotten
          /\ tasks[req.token].state = "open"
    /\ WorkTouched(req) \subseteq Own(id)
    /\ StaysOnTaskQueue(req)

(* A call is denied only for cause: no step answers PermissionDenied to a    *)
(* well-formed call that stays within its identity's scope and, if it names  *)
(* a token, names one a worker was given, whose task is open and which the   *)
(* store has not lost.                                                       *)
DenialsAreDeserved ==
    [][ \A c \in Calls :
           pc[c] # "answered" /\ call'[c].code = "PermissionDenied" =>
               ~Entitled(call'[c].req, call'[c].id, StoreOf(call'[c].inst)) ]_vars

\* Who the calls that have reached the server were forwarded for.
Forwarded == [c \in Calls |-> IF pc[c] = "forward" THEN call[c].id ELSE None]

Guard == INSTANCE GuardedServer WITH caller <- Forwarded, NoOne <- None

(* With a store that forgets, fails and lags behind, calls that interleave   *)
(* and processes that die, workers change the server's tasks only as if     *)
(* the server checked each identity itself: one call, one queue of its       *)
(* caller.                                                                   *)
ImplementsGuard == Guard!Spec
=============================================================================
