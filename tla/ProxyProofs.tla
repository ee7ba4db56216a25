---------------------------- MODULE ProxyProofs -----------------------------
(***************************************************************************)
(* Theorems about Proxy, for any number of calls, instances and tokens, any *)
(* set of requests, any authenticator and both backends.                    *)
(*                                                                         *)
(* The inductive invariant says what each phase of a call has established   *)
(* (CallOK), that stores and pending writes tell the truth about the        *)
(* server's tasks, and that a token once recorded is held until its task    *)
(* closes or the store loses it (Held).                                     *)
(***************************************************************************)
EXTENDS Proxy, SequenceTheorems, TLAPS

Issued(t) == tasks[t] # Unissued

\* Store s has t, or has lost it on its own, or nobody needs it any more.
Held(t, s) ==
    <<t, s>> \in forgotten \/ tasks[t].state # "open" \/ store[s][t] # None

StoresTrue ==
    \A s \in Stores, t \in Tokens :
        store[s][t] # None => Issued(t) /\ store[s][t] = TaskScope(t)

LateTrue ==
    \A w \in late :
        /\ Backend = "valkey"
        /\ Issued(w.token)
        /\ w.entry # None => w.entry = TaskScope(w.token)
        /\ w.entry = None => tasks[w.token].state = "closed"

DeliveredHeld ==
    \A t \in Tokens, s \in Stores : <<t, s>> \in delivered => Issued(t) /\ Held(t, s)

\* What the scope checks established once the call may be forwarded.
Scoped(c) ==
    LET req == call[c].req IN
    /\ req.rpc \in PollRPCs => call[c].queue = PollTaskQueueScope(req.tq)
    /\ req.rpc \in TokenRPCs =>
          /\ req.token \in Tokens
          /\ Issued(req.token)
          /\ TaskScope(req.token) = ScopedEntry(c)
          /\ call[c].queue \in call[c].id.queues
          /\ req.rpc = "RespondWorkflowTaskCompleted" =>
                ValidateCommands(req.commands, call[c].id.ns, call[c].queue)

\* What the response handed out, in the caller's scope.
Handed(c) ==
    /\ ToRecord(c) = call[c].tokens
    /\ \A j \in 1..Len(call[c].tokens) :
          /\ Issued(call[c].tokens[j])
          /\ TaskScope(call[c].tokens[j]) = ScopedEntry(c)
          /\ call[c].queue # Empty

CallOK(c) ==
    /\ pc[c] # "idle" => call[c] \in ActiveCalls
    /\ pc[c] \in {"lookup", "forward", "evict", "record"} =>
          Permitted(call[c].req, call[c].id)
    /\ pc[c] = "lookup" => call[c].req.rpc \in TokenRPCs
    /\ pc[c] \in {"lookup", "forward"} => call[c].tokens = <<>> /\ call[c].recorded = 0
    /\ pc[c] = "evict" => /\ call[c].recorded = 0
                          /\ call[c].req.rpc \in TokenRPCs
                          /\ tasks[CallToken(c)].state = "closed"
    /\ pc[c] \in {"forward", "evict", "record"} => Scoped(c)
    /\ pc[c] \in {"evict", "record"} => Handed(c)
    /\ pc[c] = "record" =>
          /\ call[c].recorded <= Len(call[c].tokens)
          /\ \A j \in 1..call[c].recorded : Held(call[c].tokens[j], CallStore(c))
    /\ call[c].code # "Internal"

Inv ==
    /\ TypeOK
    /\ StoresTrue
    /\ LateTrue
    /\ DeliveredHeld
    /\ \A c \in Calls : CallOK(c)
-----------------------------------------------------------------------------
(* Facts about the pure definitions. *)

\* The categories of the allowlist, by the sets of RPCs they are made of.
LEMMA Categories ==
    ASSUME NEW rpc \in AllowedRPCs
    PROVE  /\ rpc \in PollRPCs <=> Category(rpc) = "poll"
           /\ rpc \in TokenRPCs <=> Category(rpc) = "token"
           /\ rpc = "GetSystemInfo" <=> Category(rpc) = "unscoped"
           /\ rpc = "DescribeNamespace" <=> Category(rpc) = "namespace"
           /\ rpc = "ShutdownWorker" <=> Category(rpc) = "worker"
           /\ rpc = "RecordWorkerHeartbeat" <=> Category(rpc) = "heartbeat"
           /\ ~(rpc \in PollRPCs /\ rpc \in TokenRPCs)
  BY DEF AllowedRPCs, PollRPCs, TokenRPCs, Category

\* Every terminal RPC carries a token, and finishes its task.
LEMMA TerminalRPCsFinish ==
    \A rpc \in TerminalRPCs : rpc \in TokenRPCs /\ Finishes(rpc)
  BY DEF TerminalRPCs, TokenRPCs, Finishes

\* What a permitted request of each category satisfies.
LEMMA PermittedPoll ==
    ASSUME NEW req, NEW id, Permitted(req, id), req.rpc \in PollRPCs
    PROVE  /\ req.ns = id.ns /\ PollTaskQueueScope(req.tq) # Empty
           /\ PollTaskQueueScope(req.tq) \in id.queues
           /\ req.rpc = "PollNexusTaskQueue" => HeartbeatsAllowed(req, id)
  <1>1. Category(req.rpc) = "poll"
    BY Categories DEF Permitted
  <1> QED
    BY <1>1 DEF Permitted, AuthorizeRequest, NamespaceMatches, AllowsTaskQueue

LEMMA PermittedToken ==
    ASSUME NEW req, NEW id, Permitted(req, id), req.rpc \in TokenRPCs
    PROVE  req.ns = id.ns /\ req.token # Empty
  <1>1. Category(req.rpc) = "token"
    BY Categories DEF Permitted
  <1> QED
    BY <1>1 DEF Permitted, AuthorizeRequest, NamespaceMatches, RequestTaskToken

LEMMA PermittedOther ==
    ASSUME NEW req, NEW id, Permitted(req, id), req.rpc \notin PollRPCs \cup TokenRPCs
    PROVE  /\ req.rpc # "GetSystemInfo" => req.ns = id.ns
           /\ req.rpc = "ShutdownWorker" /\ req.tq.name # Empty => req.tq.name \in id.queues
           /\ req.rpc = "RecordWorkerHeartbeat" => HeartbeatsAllowed(req, id)
  <1>0. req.rpc \in AllowedRPCs
    BY DEF Permitted
  <1>1. CASE req.rpc = "GetSystemInfo"
    BY <1>1
  <1>2. CASE req.rpc = "DescribeNamespace"
    BY <1>0, <1>2, Categories DEF Permitted, AuthorizeRequest, NamespaceMatches
  <1>3. CASE req.rpc = "ShutdownWorker"
    BY <1>0, <1>3, Categories DEF Permitted, AuthorizeRequest, NamespaceMatches, AllowsTaskQueue
  <1>4. CASE req.rpc = "RecordWorkerHeartbeat"
    BY <1>0, <1>4, Categories DEF Permitted, AuthorizeRequest, NamespaceMatches
  <1> QED
    BY <1>0, <1>1, <1>2, <1>3, <1>4 DEF AllowedRPCs

\* The queue a call starts out with.
LEMMA ScopedTaskQueueType ==
    ASSUME NEW req \in Requests, NEW id, Permitted(req, id)
    PROVE  /\ ScopedTaskQueue(req) \in Queues \cup {Empty}
           /\ req.rpc \in PollRPCs => ScopedTaskQueue(req) = PollTaskQueueScope(req.tq)
  <1>1. /\ req.tq.name \in Queues \cup {Empty} /\ req.tq.normal \in Queues \cup {Empty}
        /\ req.rpc \in AllowedRPCs
    BY RequestAssumption DEF Permitted
  <1>2. PollTaskQueueScope(req.tq) \in Queues \cup {Empty}
    BY <1>1 DEF PollTaskQueueScope
  <1>3. CASE req.rpc \in PollRPCs
    BY <1>1, <1>2, <1>3, Categories DEF ScopedTaskQueue
  <1>4. CASE req.rpc \notin PollRPCs
    <2>1. Category(req.rpc) # "poll"
      BY <1>1, <1>4, Categories
    <2> QED
      BY <1>1, <1>4, <2>1 DEF ScopedTaskQueue
  <1> QED
    BY <1>3, <1>4

\* Authenticators answer with identities, and only permit configured ones.
LEMMA IdentityTypes ==
    ASSUME NEW req \in Requests, NEW id \in IdentitiesFor(req)
    PROVE  id \in Identities
  <1>1. Anonymous \in Identities
    BY DEF Anonymous, Identities
  <1>2. ExtractAPIKey(req.header) \in Keys \cup {Empty}
    <2> DEFINE Values == [bearer : BOOLEAN, key : Keys \cup {Empty}]
    <2>0. req.header \in Seq(Values)
      BY RequestAssumption, Zenon
    <2> HIDE DEF Values
    <2>1. Len(req.header) = 1 => req.header[1] \in Values
      BY <2>0, ElementOfSeq
    <2>2. \A v \in Values : v.key \in Keys \cup {Empty}
      BY DEF Values
    <2>3. Len(req.header) = 1 => req.header[1].key \in Keys \cup {Empty}
      BY <2>1, <2>2
    <2>4. Empty \in Keys \cup {Empty}
      OBVIOUS
    <2> QED
      BY <2>3, <2>4, Zenon DEF ExtractAPIKey
  <1> QED
    BY <1>1, <1>2, AuthAssumption DEF IdentitiesFor

\* Every call runs on a store of the deployment.
LEMMA StoreOfType == \A i \in Instances : StoreOf(i) \in Stores
  BY DEF StoreOf, Stores
-----------------------------------------------------------------------------
(* How a step may change what the invariant speaks of. *)

\* The server never forgets or moves a task, and never reopens one.
Grows ==
    \A t \in Tokens : Issued(t) =>
        /\ Issued(t)'
        /\ TaskScope(t)' = TaskScope(t)
        /\ tasks'[t].state = "open" => tasks[t].state = "open"
        /\ tasks[t].state = "closed" => tasks'[t].state = "closed"

\* Tokens of issued tasks stay held.
Keeps ==
    \A t \in Tokens, s \in Stores : Issued(t) /\ Held(t, s) => Held(t, s)'

LEMMA SameTasks == UNCHANGED tasks => Grows
  BY DEF Grows, Issued, TaskScope

LEMMA SameStores ==
    ASSUME Inv, Grows, UNCHANGED <<store, forgotten>>
    PROVE  Keeps /\ StoresTrue'
  <1>1. Keeps
    BY DEF Keeps, Grows, Held
  <1>2. StoresTrue'
    BY DEF Inv, StoresTrue, Grows
  <1> QED
    BY <1>1, <1>2

LEMMA SameLate ==
    ASSUME Inv, Grows, UNCHANGED late
    PROVE  LateTrue'
  BY DEF Inv, LateTrue, Grows, TypeOK

LEMMA SameDelivered ==
    ASSUME Inv, Grows, Keeps, UNCHANGED delivered
    PROVE  DeliveredHeld'
  BY DEF Inv, DeliveredHeld, Grows, Keeps

\* A call that takes no step keeps what it has established.
LEMMA CallKept ==
    ASSUME Inv, Grows, Keeps, NEW c \in Calls, pc'[c] = pc[c], call'[c] = call[c]
    PROVE  CallOK(c)'
  <1>0. CallOK(c)
    BY DEF Inv
  <1>a. pc[c] # "idle" => call[c] \in ActiveCalls
    BY <1>0 DEF CallOK
  <1>1. pc[c] \in {"forward", "evict", "record"} => Scoped(c)'
    BY <1>0 DEF CallOK, Scoped, ScopedEntry, Entry, Grows
  <1>2. pc[c] \in {"evict", "record"} => Handed(c)'
    <2> SUFFICES ASSUME pc[c] \in {"evict", "record"} PROVE Handed(c)'
      OBVIOUS
    <2>1. call[c].tokens \in Seq(Tokens)
      BY <1>a DEF ActiveCalls
    <2>2. \A k \in 1..Len(call[c].tokens) : call[c].tokens[k] \in Tokens
      BY <2>1, ElementOfSeq
    <2> QED
      BY <2>2, <1>0 DEF CallOK, Handed, ToRecord, ScopedEntry, Grows
  <1>3. pc[c] = "evict" => tasks'[CallToken(c)].state = "closed"
    BY <1>0, TerminalRPCsFinish DEF CallOK, Scoped, CallToken, RequestTaskToken, Grows
  <1>4. pc[c] = "record" =>
          \A k \in 1..call[c].recorded : Held(call[c].tokens[k], CallStore(c))'
    <2> SUFFICES ASSUME pc[c] = "record", NEW k \in 1..call[c].recorded
                 PROVE  Held(call[c].tokens[k], CallStore(c))'
      BY DEF Held, CallStore
    <2>1. /\ call[c].tokens \in Seq(Tokens) /\ call[c].recorded \in Nat
          /\ call[c].inst \in Instances
      BY <1>a DEF ActiveCalls
    <2>2. call[c].recorded <= Len(call[c].tokens) /\ Held(call[c].tokens[k], CallStore(c))
      BY <1>0 DEF CallOK
    <2>3. k \in 1..Len(call[c].tokens)
      BY <2>1, <2>2
    <2>4. call[c].tokens[k] \in Tokens
      BY <2>1, <2>3, ElementOfSeq
    <2>5. Issued(call[c].tokens[k])
      BY <1>0, <2>3 DEF CallOK, Handed
    <2>6. CallStore(c) \in Stores
      BY <2>1, StoreOfType DEF CallStore
    <2>7. CallStore(c)' = CallStore(c)
      BY DEF CallStore
    <2> QED
      BY <2>2, <2>4, <2>5, <2>6, <2>7 DEF Keeps, Held
  <1> QED
    BY <1>0, <1>1, <1>2, <1>3, <1>4 DEF CallOK, CallToken, Held, CallStore

\* A step of call c alone that leaves stores, writes and tasks as they are.
LEMMA QuietStep ==
    ASSUME Inv, NEW c \in Calls, UNCHANGED <<store, late, tasks, ghosts>>,
           pc' \in [Calls -> Steps], call' \in [Calls -> ActiveCalls \cup {NoCall}],
           \A d \in Calls \ {c} : pc'[d] = pc[d] /\ call'[d] = call[d],
           CallOK(c)'
    PROVE  Inv'
  <1>1. Grows
    BY SameTasks
  <1>2. Keeps /\ StoresTrue' /\ LateTrue' /\ DeliveredHeld'
    BY <1>1, SameStores, SameLate, SameDelivered DEF ghosts
  <1>3. \A d \in Calls : CallOK(d)'
    BY <1>1, <1>2, CallKept
  <1>4. TypeOK'
    BY DEF Inv, TypeOK, ghosts
  <1> QED
    BY <1>2, <1>3, <1>4 DEF Inv

\* An early return leaves an answered call.
LEMMA AnswerOK ==
    ASSUME Inv, NEW c \in Calls, pc[c] # "idle", NEW code \in Codes \ {"Internal"},
           Answer(c, code)
    PROVE  /\ pc' \in [Calls -> Steps] /\ call' \in [Calls -> ActiveCalls \cup {NoCall}]
           /\ \A d \in Calls \ {c} : pc'[d] = pc[d] /\ call'[d] = call[d]
           /\ CallOK(c)'
  <1>1. pc \in [Calls -> Steps] /\ call \in [Calls -> ActiveCalls \cup {NoCall}]
    BY DEF Inv, TypeOK
  <1>2. call[c] \in ActiveCalls
    BY DEF Inv, CallOK
  <1>3. /\ pc' = [pc EXCEPT ![c] = "answered"]
        /\ call' = [call EXCEPT ![c] = [call[c] EXCEPT !.code = code]]
    BY <1>1 DEF Answer, Goto
  <1>4. [call[c] EXCEPT !.code = code] \in ActiveCalls
    BY <1>2 DEF ActiveCalls
  <1>5. /\ pc'[c] = "answered" /\ call'[c] \in ActiveCalls /\ call'[c].code = code
    BY <1>1, <1>2, <1>3, <1>4 DEF ActiveCalls
  <1>6. CallOK(c)'
    BY <1>5 DEF CallOK
  <1> QED
    BY <1>1, <1>3, <1>4, <1>6 DEF Steps
-----------------------------------------------------------------------------
(* One lemma per action: the invariant is kept. *)

LEMMA ReceiveInv ==
    ASSUME Inv, NEW c \in Calls, NEW i \in Instances, NEW req \in Requests, Receive(c, i, req)
    PROVE  Inv'
  <1>0. pc \in [Calls -> Steps] /\ call \in [Calls -> ActiveCalls \cup {NoCall}]
    BY DEF Inv, TypeOK
  <1>1. PICK id \in IdentitiesFor(req) :
          IF Permitted(req, id)
          THEN /\ Goto(c, IF req.rpc \in TokenRPCs THEN "lookup" ELSE "forward")
               /\ call' = [call EXCEPT ![c] = NewCall(i, req, id, ScopedTaskQueue(req), "none")]
          ELSE /\ Goto(c, "answered")
               /\ call' = [call EXCEPT ![c] = NewCall(i, req, id, Empty, "PermissionDenied")]
    BY DEF Receive
  <1>2. id \in Identities
    BY IdentityTypes
  <1>3. ASSUME NEW q \in Queues \cup {Empty}, NEW code \in Codes
        PROVE  NewCall(i, req, id, q, code) \in ActiveCalls
    BY <1>2 DEF NewCall, ActiveCalls
  <1>4. CASE Permitted(req, id)
    <2> DEFINE new == NewCall(i, req, id, ScopedTaskQueue(req), "none")
    <2>1. ScopedTaskQueue(req) \in Queues \cup {Empty}
      BY <1>4, ScopedTaskQueueType
    <2>2. new \in ActiveCalls
      BY <1>3, <2>1 DEF Codes
    <2>3. /\ pc' = [pc EXCEPT ![c] = IF req.rpc \in TokenRPCs THEN "lookup" ELSE "forward"]
          /\ call' = [call EXCEPT ![c] = new]
      BY <1>1, <1>4 DEF Goto
    <2>4. pc' \in [Calls -> Steps] /\ call' \in [Calls -> ActiveCalls \cup {NoCall}]
      BY <1>0, <2>2, <2>3 DEF Steps
    <2>5. /\ pc'[c] = (IF req.rpc \in TokenRPCs THEN "lookup" ELSE "forward")
          /\ call'[c] = new /\ call'[c] \in ActiveCalls
          /\ \A d \in Calls \ {c} : pc'[d] = pc[d] /\ call'[d] = call[d]
      BY <1>0, <2>2, <2>3
    <2>6. /\ call'[c].req = req /\ call'[c].id = id /\ call'[c].queue = ScopedTaskQueue(req)
          /\ call'[c].tokens = <<>> /\ call'[c].recorded = 0 /\ call'[c].code = "none"
      BY <2>5 DEF NewCall
    <2>7. req.rpc \notin TokenRPCs => Scoped(c)'
      BY <2>6, <1>4, ScopedTaskQueueType DEF Scoped
    <2>8. CallOK(c)'
      BY <2>5, <2>6, <2>7, <1>4 DEF CallOK
    <2> QED
      BY <2>4, <2>5, <2>8, QuietStep DEF Receive
  <1>5. CASE ~Permitted(req, id)
    <2> DEFINE new == NewCall(i, req, id, Empty, "PermissionDenied")
    <2>1. new \in ActiveCalls
      BY <1>3 DEF Codes
    <2>2. pc' = [pc EXCEPT ![c] = "answered"] /\ call' = [call EXCEPT ![c] = new]
      BY <1>1, <1>5 DEF Goto
    <2>3. pc' \in [Calls -> Steps] /\ call' \in [Calls -> ActiveCalls \cup {NoCall}]
      BY <1>0, <2>1, <2>2 DEF Steps
    <2>4. /\ pc'[c] = "answered" /\ call'[c] \in ActiveCalls
          /\ call'[c].code = "PermissionDenied"
          /\ \A d \in Calls \ {c} : pc'[d] = pc[d] /\ call'[d] = call[d]
      BY <1>0, <2>1, <2>2 DEF NewCall
    <2>5. CallOK(c)'
      BY <2>4 DEF CallOK
    <2> QED
      BY <2>3, <2>4, <2>5, QuietStep DEF Receive
  <1> QED
    BY <1>4, <1>5

LEMMA LookupHitInv ==
    ASSUME Inv, NEW c \in Calls, LookupHit(c) PROVE Inv'
  <1> DEFINE entry == store[CallStore(c)][CallToken(c)]
  <1>0. pc \in [Calls -> Steps] /\ call \in [Calls -> ActiveCalls \cup {NoCall}]
    BY DEF Inv, TypeOK
  <1>1. pc[c] = "lookup" /\ entry # None
    BY DEF LookupHit
  <1>2. /\ call[c] \in ActiveCalls /\ Permitted(call[c].req, call[c].id)
        /\ call[c].req.rpc \in TokenRPCs /\ call[c].tokens = <<>> /\ call[c].recorded = 0
        /\ call[c].code # "Internal"
    BY <1>1 DEF Inv, CallOK
  <1>3. call[c].inst \in Instances /\ call[c].req \in Requests /\ call[c].id \in Identities
    BY <1>2 DEF ActiveCalls
  <1>4. PICK t \in Tokens : t = call[c].req.token /\ t = CallToken(c)
    BY <1>2, <1>3, PermittedToken, RequestAssumption DEF CallToken, RequestTaskToken
  <1>5. CallStore(c) \in Stores
    BY <1>3, StoreOfType DEF CallStore
  <1>6. Issued(t) /\ entry = TaskScope(t) /\ entry \in Entries
    BY <1>1, <1>4, <1>5 DEF Inv, StoresTrue, TypeOK, S!Contents
  <1>7. CASE /\ EntryAuthorized(c, entry)
             /\ call[c].req.rpc = "RespondWorkflowTaskCompleted" =>
                   ValidateCommands(call[c].req.commands, call[c].id.ns, entry.queue)
    <2> DEFINE new == [call[c] EXCEPT !.queue = entry.queue]
    <2>1. pc' = [pc EXCEPT ![c] = "forward"] /\ call' = [call EXCEPT ![c] = new]
      BY <1>7, <1>0 DEF LookupHit, Goto
    <2>2. /\ entry.queue \in Queues /\ entry.ns = call[c].id.ns
          /\ entry.queue \in call[c].id.queues
      BY <1>6, <1>7 DEF Entries, EntryAuthorized, AllowsTaskQueue
    <2>3. new \in ActiveCalls
      BY <1>2, <2>2 DEF ActiveCalls
    <2>4. pc' \in [Calls -> Steps] /\ call' \in [Calls -> ActiveCalls \cup {NoCall}]
      BY <1>0, <2>1, <2>3 DEF Steps
    <2>5. /\ pc'[c] = "forward" /\ call'[c] = new /\ call'[c] \in ActiveCalls
          /\ \A d \in Calls \ {c} : pc'[d] = pc[d] /\ call'[d] = call[d]
      BY <1>0, <2>1, <2>3
    <2>6. /\ call'[c].req = call[c].req /\ call'[c].id = call[c].id
          /\ call'[c].queue = entry.queue /\ call'[c].tokens = <<>> /\ call'[c].recorded = 0
          /\ call'[c].code # "Internal"
      BY <1>2, <2>5 DEF ActiveCalls
    <2>7. entry = Entry(call[c].id.ns, entry.queue)
      BY <1>6, <2>2 DEF Entries, Entry, TaskScope
    <2>8. UNCHANGED tasks /\ Issued(t)' /\ TaskScope(t)' = entry
      BY <1>6 DEF LookupHit, Issued, TaskScope, Entry
    <2>9. call[c].req.rpc \notin PollRPCs
      BY <1>2, Categories DEF Permitted
    <2>10. Scoped(c)'
      BY <1>4, <1>7, <2>2, <2>6, <2>7, <2>8, <2>9 DEF Scoped, ScopedEntry
    <2>11. CallOK(c)'
      BY <1>2, <2>5, <2>6, <2>10 DEF CallOK
    <2> QED
      BY <2>4, <2>5, <2>11, QuietStep DEF LookupHit
  <1>8. CASE Answer(c, "PermissionDenied")
    BY <1>1, <1>8, AnswerOK, QuietStep DEF LookupHit, Codes
  <1> QED
    BY <1>7, <1>8 DEF LookupHit

LEMMA EarlyReturnInv ==
    ASSUME Inv, NEW c \in Calls, LookupMiss(c) \/ LookupFails(c) \/ UpstreamFails(c)
    PROVE  Inv'
  <1>1. /\ pc[c] # "idle" /\ UNCHANGED <<store, late, tasks, ghosts>>
        /\ \E code \in Codes \ {"Internal"} : Answer(c, code)
    BY DEF LookupMiss, LookupFails, UpstreamFails, Codes
  <1> QED
    BY <1>1, AnswerOK, QuietStep

LEMMA DoneInv ==
    ASSUME Inv, NEW c \in Calls, Done(c) PROVE Inv'
  <1>0. pc \in [Calls -> Steps] /\ call \in [Calls -> ActiveCalls \cup {NoCall}]
    BY DEF Inv, TypeOK
  <1>1. pc' = [pc EXCEPT ![c] = "idle"] /\ call' = [call EXCEPT ![c] = NoCall]
    BY DEF Done, Goto
  <1>2. pc' \in [Calls -> Steps] /\ call' \in [Calls -> ActiveCalls \cup {NoCall}]
    BY <1>0, <1>1 DEF Steps
  <1>3. /\ pc'[c] = "idle" /\ call'[c] = NoCall
        /\ \A d \in Calls \ {c} : pc'[d] = pc[d] /\ call'[d] = call[d]
    BY <1>0, <1>1
  <1>4. CallOK(c)'
    BY <1>3 DEF CallOK, NoCall
  <1> QED
    BY <1>2, <1>3, <1>4, QuietStep DEF Done
-----------------------------------------------------------------------------
(* The upstream server's part of a step. *)

LEMMA ServerStep ==
    ASSUME Inv, NEW c \in Calls, pc[c] = "forward", ServerAccepts(call[c].req),
           NEW n \in 0..MaxDispatch, NEW out \in [1..n -> Dispatches],
           MayDispatch(call[c].req, out), tasks' = TasksAfter(call[c].req, out)
    PROVE  /\ tasks' \in [Tokens -> TaskRecords]
           /\ Grows
           /\ \A j \in 1..n : /\ Issued(out[j].token)'
                              /\ TaskScope(out[j].token)' = ScopedEntry(c)
                              /\ call[c].queue # Empty
           /\ Finishes(call[c].req.rpc) => tasks'[call[c].req.token].state = "closed"
           /\ n > 0 => call[c].req.rpc \in PollRPCs \cup {"RespondWorkflowTaskCompleted"}
  <1>0. PICK req \in Requests : req = call[c].req
    BY DEF Inv, CallOK, ActiveCalls
  <1>1. /\ MayDispatch(req, out) /\ ServerAccepts(req) /\ tasks' = TasksAfter(req, out)
        /\ Permitted(req, call[c].id) /\ Scoped(c) /\ tasks \in [Tokens -> TaskRecords]
    BY <1>0 DEF Inv, CallOK, TypeOK
  <1>2. /\ DOMAIN out = 1..n
        /\ \A j \in 1..n : out[j] \in Dispatches /\ out[j].token \in Tokens
                           /\ tasks[out[j].token] = Unissued
        /\ \A j, k \in 1..n : out[j].token = out[k].token => j = k
    BY <1>1 DEF MayDispatch, Dispatches
  <1>3. Finishes(req.rpc) =>
          /\ req.rpc \in TokenRPCs /\ req.token \in Tokens
          /\ tasks[req.token].state = "open" /\ tasks[req.token] # Unissued
    BY <1>1 DEF Finishes, ServerAccepts, Unissued
  <1>4. ASSUME NEW j \in 1..n
        PROVE  tasks'[out[j].token] = [state |-> "open", kind |-> out[j].kind,
                                       ns |-> out[j].ns, queue |-> out[j].queue]
    <2>1. (CHOOSE k \in 1..n : out[k].token = out[j].token) = j
      BY <1>2
    <2> QED
      BY <1>1, <1>2, <2>1 DEF TasksAfter
  <1>5. ASSUME NEW t \in Tokens, \A j \in 1..n : out[j].token # t
        PROVE  tasks'[t] = IF Finishes(req.rpc) /\ req.token = t
                           THEN [tasks[t] EXCEPT !.state = "closed"] ELSE tasks[t]
    BY <1>1, <1>2, <1>5 DEF TasksAfter
  <1>6. ASSUME NEW t \in Tokens, Issued(t)
        PROVE  /\ \A j \in 1..n : out[j].token # t
               /\ tasks[t] \in TaskRecords \ {Unissued}
    BY <1>1, <1>2, <1>6 DEF Issued
  <1>7. ASSUME NEW t \in Tokens PROVE tasks'[t] \in TaskRecords
    <2>1. CASE \E j \in 1..n : out[j].token = t
      <3>1. PICK j \in 1..n : out[j].token = t
        BY <2>1
      <3>2. [state |-> "open", kind |-> out[j].kind, ns |-> out[j].ns,
             queue |-> out[j].queue] \in TaskRecords
        BY <1>2 DEF Dispatches, TaskRecords
      <3> QED
        BY <1>4, <3>1, <3>2
    <2>2. CASE \A j \in 1..n : out[j].token # t
      <3>1. CASE Finishes(req.rpc) /\ req.token = t
        <4>1. tasks[t] \in TaskRecords \ {Unissued}
          BY <1>1, <1>3, <3>1
        <4>2. [tasks[t] EXCEPT !.state = "closed"] \in TaskRecords
          BY <4>1 DEF TaskRecords
        <4> QED
          BY <1>5, <2>2, <3>1, <4>2
      <3>2. CASE ~(Finishes(req.rpc) /\ req.token = t)
        BY <1>1, <1>5, <2>2, <3>2
      <3> QED
        BY <3>1, <3>2
    <2> QED
      BY <2>1, <2>2
  <1>8. tasks' \in [Tokens -> TaskRecords]
    BY <1>1, <1>7 DEF TasksAfter
  <1>9. Grows
    <2> SUFFICES ASSUME NEW t \in Tokens, Issued(t)
                 PROVE  /\ tasks'[t] # Unissued
                        /\ tasks'[t].ns = tasks[t].ns /\ tasks'[t].queue = tasks[t].queue
                        /\ tasks'[t].state = "open" => tasks[t].state = "open"
                        /\ tasks[t].state = "closed" => tasks'[t].state = "closed"
      BY DEF Grows, Issued, TaskScope
    <2>1. /\ \A j \in 1..n : out[j].token # t
          /\ tasks[t] \in TaskRecords \ {Unissued}
      BY <1>6
    <2>2. CASE Finishes(req.rpc) /\ req.token = t
      <3>1. tasks'[t] = [tasks[t] EXCEPT !.state = "closed"]
        BY <1>5, <2>1, <2>2
      <3>2. tasks[t].state = "open"
        BY <1>3, <2>2
      <3> QED
        BY <2>1, <3>1, <3>2 DEF TaskRecords, Unissued
    <2>3. CASE ~(Finishes(req.rpc) /\ req.token = t)
      <3>1. tasks'[t] = tasks[t]
        BY <1>5, <2>1, <2>3
      <3> QED
        BY <2>1, <3>1
    <2> QED
      BY <2>2, <2>3
  <1>10. ASSUME NEW j \in 1..n
         PROVE  /\ out[j].ns = call[c].id.ns /\ out[j].queue = call[c].queue
                /\ req.rpc \in PollRPCs \cup {"RespondWorkflowTaskCompleted"}
    <2>1. out # <<>>
      BY <1>2
    <2>2. CASE /\ req.rpc \in PollRPCs /\ DOMAIN out = {1}
               /\ out[1].ns = req.ns /\ out[1].queue = QueueServed(req.tq)
      BY <1>0, <1>1, <1>2, <2>2, PermittedPoll
         DEF Scoped, QueueServed, PollTaskQueueScope
    <2>3. CASE /\ req.rpc = "RespondWorkflowTaskCompleted"
               /\ out[j].ns = tasks[req.token].ns
               /\ \/ out[j].queue = tasks[req.token].queue
                  \/ \E k \in DOMAIN req.commands :
                        /\ req.commands[k].type = "ScheduleActivityTask"
                        /\ req.commands[k].queue = out[j].queue
      <3>1. /\ TaskScope(req.token) = ScopedEntry(c)
            /\ ValidateCommands(req.commands, call[c].id.ns, call[c].queue)
        BY <1>0, <1>1, <2>3 DEF Scoped, TokenRPCs
      <3>2. tasks[req.token].ns = call[c].id.ns /\ tasks[req.token].queue = call[c].queue
        BY <3>1 DEF TaskScope, ScopedEntry, Entry
      <3>3. ASSUME NEW k \in DOMAIN req.commands,
                   req.commands[k].type = "ScheduleActivityTask"
            PROVE  req.commands[k].queue = call[c].queue
        <4> DEFINE Values == [type : STRING, ns : Namespaces \cup {Empty},
                              queue : Queues \cup {Empty}]
        <4>0. req.commands \in Seq(Values)
          BY RequestAssumption, Zenon
        <4> HIDE DEF Values
        <4>1. DOMAIN req.commands = 1..Len(req.commands)
          BY <4>0, LenProperties
        <4> QED
          BY <3>1, <3>3, <4>1 DEF ValidateCommands
      <3> QED
        BY <2>3, <3>2, <3>3
    <2> QED
      BY <1>1, <1>2, <2>1, <2>2, <2>3 DEF MayDispatch
  <1>11. ASSUME NEW j \in 1..n
         PROVE  /\ Issued(out[j].token)' /\ TaskScope(out[j].token)' = ScopedEntry(c)
                /\ call[c].queue # Empty
    <2>0. tasks'[out[j].token] = [state |-> "open", kind |-> out[j].kind,
                                  ns |-> out[j].ns, queue |-> out[j].queue]
      BY <1>4
    <2>1. /\ tasks'[out[j].token].ns = call[c].id.ns
          /\ tasks'[out[j].token].queue = call[c].queue
          /\ tasks'[out[j].token].state = "open"
      BY <2>0, <1>10
    <2>2. call[c].queue # Empty
      BY <1>2, <1>10, EmptyAssumption DEF Dispatches
    <2> QED
      BY <2>1, <2>2 DEF Issued, Unissued, TaskScope, ScopedEntry, Entry
  <1>12. Finishes(req.rpc) => tasks'[req.token].state = "closed"
    BY <1>1, <1>3, <1>5, <1>6 DEF Issued, TaskRecords
  <1>13. n > 0 => req.rpc \in PollRPCs \cup {"RespondWorkflowTaskCompleted"}
    BY <1>10
  <1> QED
    BY <1>0, <1>8, <1>9, <1>11, <1>12, <1>13

\* A step of call c that keeps the rest of the invariant keeps all of it.
LEMMA CallStep ==
    ASSUME Inv, Grows, Keeps, NEW c \in Calls,
           TypeOK', StoresTrue', LateTrue', DeliveredHeld',
           \A d \in Calls \ {c} : pc'[d] = pc[d] /\ call'[d] = call[d],
           CallOK(c)'
    PROVE  Inv'
  <1>1. \A d \in Calls : CallOK(d)'
    BY CallKept
  <1> QED
    BY <1>1 DEF Inv

LEMMA UpstreamSucceedsInv ==
    ASSUME Inv, NEW c \in Calls, UpstreamSucceeds(c) PROVE Inv'
  <1>0. pc \in [Calls -> Steps] /\ call \in [Calls -> ActiveCalls \cup {NoCall}]
    BY DEF Inv, TypeOK
  <1>1. /\ pc[c] = "forward" /\ ServerAccepts(call[c].req)
        /\ Goto(c, IF call[c].req.rpc \in TerminalRPCs THEN "evict" ELSE "record")
        /\ UNCHANGED <<store, late, delivered, forgotten, consumed, undeleted, logged>>
    BY DEF UpstreamSucceeds
  <1>2. /\ call[c] \in ActiveCalls /\ Permitted(call[c].req, call[c].id) /\ Scoped(c)
        /\ call[c].recorded = 0 /\ call[c].code # "Internal"
    BY <1>1 DEF Inv, CallOK
  <1>a. PICK n \in 0..MaxDispatch : \E out \in [1..n -> Dispatches] :
          /\ MayDispatch(call[c].req, out) /\ tasks' = TasksAfter(call[c].req, out)
          /\ call' = [call EXCEPT ![c].tokens = [j \in 1..n |-> out[j].token]]
    BY DEF UpstreamSucceeds
  <1>3. PICK out \in [1..n -> Dispatches] :
          /\ MayDispatch(call[c].req, out) /\ tasks' = TasksAfter(call[c].req, out)
          /\ call' = [call EXCEPT ![c].tokens = [j \in 1..n |-> out[j].token]]
    BY <1>a
  <1>4. /\ tasks' \in [Tokens -> TaskRecords]
        /\ Grows
        /\ \A j \in 1..n : /\ Issued(out[j].token)'
                           /\ TaskScope(out[j].token)' = ScopedEntry(c)
                           /\ call[c].queue # Empty
        /\ Finishes(call[c].req.rpc) => tasks'[call[c].req.token].state = "closed"
        /\ n > 0 => call[c].req.rpc \in PollRPCs \cup {"RespondWorkflowTaskCompleted"}
    BY <1>1, <1>3, ServerStep
  <1>5. PICK toks : toks = [j \in 1..n |-> out[j].token]
    OBVIOUS
  <1>6. toks \in Seq(Tokens) /\ Len(toks) = n /\ \A j \in 1..n : toks[j] = out[j].token
    <2>1. n \in Nat /\ toks \in [1..n -> Tokens]
      BY <1>5, BoundAssumption DEF Dispatches
    <2>2. toks \in Seq(Tokens)
      BY <2>1, SeqDef
    <2> QED
      BY <1>5, <2>1, <2>2, LenProperties
  <1>7. CollectResponseTaskTokens(call[c].req.rpc, toks) = toks
    BY <1>4, <1>6, EmptySeq DEF CollectResponseTaskTokens
  <1>8. /\ call' = [call EXCEPT ![c] = [call[c] EXCEPT !.tokens = toks]]
        /\ pc' = [pc EXCEPT ![c] = IF call[c].req.rpc \in TerminalRPCs
                                   THEN "evict" ELSE "record"]
    BY <1>0, <1>1, <1>3, <1>5 DEF Goto
  <1>9. [call[c] EXCEPT !.tokens = toks] \in ActiveCalls
    BY <1>2, <1>6 DEF ActiveCalls
  <1>10. pc' \in [Calls -> Steps] /\ call' \in [Calls -> ActiveCalls \cup {NoCall}]
    BY <1>0, <1>8, <1>9 DEF Steps
  <1>11. /\ pc'[c] = IF call[c].req.rpc \in TerminalRPCs THEN "evict" ELSE "record"
         /\ call'[c] = [call[c] EXCEPT !.tokens = toks] /\ call'[c] \in ActiveCalls
         /\ \A d \in Calls \ {c} : pc'[d] = pc[d] /\ call'[d] = call[d]
    BY <1>0, <1>8, <1>9
  <1>12. /\ call'[c].req = call[c].req /\ call'[c].id = call[c].id
         /\ call'[c].queue = call[c].queue /\ call'[c].tokens = toks
         /\ call'[c].recorded = 0 /\ call'[c].code # "Internal"
    BY <1>2, <1>11 DEF ActiveCalls
  <1>13. Scoped(c)'
    BY <1>2, <1>4, <1>12 DEF Scoped, ScopedEntry, Entry, Grows
  <1>14. Handed(c)'
    BY <1>4, <1>6, <1>7, <1>12 DEF Handed, ToRecord, ScopedEntry
  <1>15. call[c].req.rpc \in TerminalRPCs =>
            call[c].req.rpc \in TokenRPCs /\ tasks'[CallToken(c)'].state = "closed"
    BY <1>4, <1>12, TerminalRPCsFinish DEF CallToken, RequestTaskToken
  <1>16. CallOK(c)'
    BY <1>2, <1>6, <1>11, <1>12, <1>13, <1>14, <1>15 DEF CallOK
  <1>17. TypeOK'
    BY <1>1, <1>4, <1>10 DEF Inv, TypeOK
  <1>18. Keeps /\ StoresTrue' /\ LateTrue' /\ DeliveredHeld'
    BY <1>1, <1>4, SameStores, SameLate, SameDelivered
  <1> QED
    BY <1>4, <1>11, <1>16, <1>17, <1>18, CallStep

LEMMA UpstreamResponseLostInv ==
    ASSUME Inv, NEW c \in Calls, UpstreamResponseLost(c) PROVE Inv'
  <1>1. /\ pc[c] = "forward" /\ ServerAccepts(call[c].req) /\ Answer(c, "upstream error")
        /\ UNCHANGED <<store, late, delivered, forgotten, consumed, undeleted, logged>>
    BY DEF UpstreamResponseLost
  <1>a. PICK n \in 0..MaxDispatch : \E out \in [1..n -> Dispatches] :
          MayDispatch(call[c].req, out) /\ tasks' = TasksAfter(call[c].req, out)
    BY DEF UpstreamResponseLost
  <1>2. PICK out \in [1..n -> Dispatches] :
          MayDispatch(call[c].req, out) /\ tasks' = TasksAfter(call[c].req, out)
    BY <1>a
  <1>3. tasks' \in [Tokens -> TaskRecords] /\ Grows
    BY <1>1, <1>2, ServerStep
  <1>4. /\ pc' \in [Calls -> Steps] /\ call' \in [Calls -> ActiveCalls \cup {NoCall}]
        /\ \A d \in Calls \ {c} : pc'[d] = pc[d] /\ call'[d] = call[d]
        /\ CallOK(c)'
    BY <1>1, AnswerOK DEF Codes
  <1>5. TypeOK'
    BY <1>1, <1>3, <1>4 DEF Inv, TypeOK
  <1>6. Keeps /\ StoresTrue' /\ LateTrue' /\ DeliveredHeld'
    BY <1>1, <1>3, SameStores, SameLate, SameDelivered
  <1> QED
    BY <1>3, <1>4, <1>5, <1>6, CallStep
-----------------------------------------------------------------------------
(* Writes to the stores. *)

LEMMA WithoutOne ==
    ASSUME NEW v \in S!Contents, NEW t \in Tokens
    PROVE  S!Without(v, {t}) = S!With(v, t, None)
  BY DEF S!Contents, S!Without, S!With

\* Writing the truth about t, or removing a t nobody needs, keeps what is held.
LEMMA StoreWrite ==
    ASSUME Inv, UNCHANGED tasks, NEW s \in Stores, NEW t \in Tokens,
           NEW e \in Entries \cup {None},
           store' = [store EXCEPT ![s] = S!With(store[s], t, e)],
           forgotten \subseteq forgotten',
           e # None => Issued(t) /\ e = TaskScope(t),
           e = None => tasks[t].state # "open" \/ <<t, s>> \in forgotten'
    PROVE  store' \in [Stores -> S!Contents] /\ StoresTrue' /\ Keeps /\ Held(t, s)'
  <1>1. store \in [Stores -> S!Contents]
    BY DEF Inv, TypeOK
  <1>2. S!With(store[s], t, e) \in S!Contents
    BY <1>1 DEF S!Contents, S!With
  <1>3. store' \in [Stores -> S!Contents]
    BY <1>1, <1>2
  <1>4. /\ store'[s][t] = e
        /\ \A x \in Stores, y \in Tokens :
              ~(x = s /\ y = t) => store'[x][y] = store[x][y]
    BY <1>1 DEF S!Contents, S!With
  <1>5. StoresTrue'
    BY <1>4 DEF Inv, StoresTrue, Issued, TaskScope, Entry
  <1>6. Held(t, s)'
    BY <1>4 DEF Held
  <1>7. Keeps
    BY <1>4, <1>6 DEF Keeps, Held
  <1> QED
    BY <1>3, <1>5, <1>6, <1>7

\* Where call c reads and writes, and what it asks about.
LEMMA CallStoreType ==
    ASSUME Inv, NEW c \in Calls, pc[c] # "idle"
    PROVE  CallStore(c) \in Stores
  <1>1. call[c].inst \in Instances
    BY DEF Inv, CallOK, ActiveCalls
  <1> QED
    BY <1>1, StoreOfType DEF CallStore

\* What a call about to delete its token knows.
LEMMA Evicting ==
    ASSUME Inv, NEW c \in Calls, pc[c] = "evict"
    PROVE  /\ CallToken(c) \in Tokens /\ Issued(CallToken(c))
           /\ tasks[CallToken(c)].state = "closed"
  <1>1. /\ call[c].req.rpc \in TokenRPCs /\ Scoped(c)
        /\ tasks[CallToken(c)].state = "closed"
    BY DEF Inv, CallOK
  <1> QED
    BY <1>1 DEF Scoped, CallToken, RequestTaskToken

\* Going on from the deletion to the recording, whatever became of it.
LEMMA EvictedCall ==
    ASSUME Inv, NEW c \in Calls, pc[c] = "evict", Goto(c, "record"), UNCHANGED <<call, tasks>>
    PROVE  /\ pc' \in [Calls -> Steps]
           /\ \A d \in Calls \ {c} : pc'[d] = pc[d] /\ call'[d] = call[d]
           /\ CallOK(c)'
  <1>1. pc \in [Calls -> Steps] /\ call \in [Calls -> ActiveCalls \cup {NoCall}] /\ CallOK(c)
    BY DEF Inv, TypeOK
  <1>2. pc' = [pc EXCEPT ![c] = "record"]
    BY DEF Goto
  <1>3. /\ pc' \in [Calls -> Steps] /\ pc'[c] = "record"
        /\ \A d \in Calls \ {c} : pc'[d] = pc[d] /\ call'[d] = call[d]
    BY <1>1, <1>2 DEF Steps
  <1>4. /\ call[c] \in ActiveCalls /\ Permitted(call[c].req, call[c].id)
        /\ Scoped(c) /\ Handed(c) /\ call[c].recorded = 0 /\ call[c].code # "Internal"
    BY <1>1 DEF CallOK
  <1>5. Scoped(c)' /\ Handed(c)'
    BY <1>4 DEF Scoped, Handed, ToRecord, ScopedEntry, Issued, TaskScope
  <1>6. Len(call[c].tokens) \in Nat
    <2>1. call[c].tokens \in Seq(Tokens)
      BY <1>4 DEF ActiveCalls
    <2> QED
      BY <2>1, LenProperties
  <1>7. CallOK(c)'
    BY <1>3, <1>4, <1>5, <1>6 DEF CallOK
  <1> QED
    BY <1>3, <1>7

LEMMA EvictInv ==
    ASSUME Inv, NEW c \in Calls, Evict(c) PROVE Inv'
  <1>0. pc[c] = "evict" /\ Goto(c, "record") /\ UNCHANGED <<call, late, tasks, ghosts>>
    BY DEF Evict
  <1>1. PICK t \in Tokens : t = CallToken(c) /\ Issued(t) /\ tasks[t].state = "closed"
    BY <1>0, Evicting
  <1>2. PICK s \in Stores : s = CallStore(c)
    BY <1>0, CallStoreType
  <1>3. store' = [store EXCEPT ![s] = S!With(store[s], t, None)]
    <2>1. store' = [store EXCEPT ![s] = S!Without(store[s], {t})] /\ store[s] \in S!Contents
      BY <1>1, <1>2 DEF Evict, Inv, TypeOK
    <2> QED
      BY <2>1, WithoutOne
  <1>4. store' \in [Stores -> S!Contents] /\ StoresTrue' /\ Keeps
    BY <1>0, <1>1, <1>3, StoreWrite DEF ghosts
  <1>5. Grows
    BY <1>0, SameTasks
  <1>6. LateTrue' /\ DeliveredHeld'
    BY <1>0, <1>4, <1>5, SameLate, SameDelivered DEF ghosts
  <1>7. /\ pc' \in [Calls -> Steps]
        /\ \A d \in Calls \ {c} : pc'[d] = pc[d] /\ call'[d] = call[d]
        /\ CallOK(c)'
    BY <1>0, EvictedCall
  <1>8. TypeOK'
    BY <1>0, <1>4, <1>7 DEF Inv, TypeOK, ghosts
  <1> QED
    BY <1>4, <1>5, <1>6, <1>7, <1>8, CallStep

LEMMA EvictFailsInv ==
    ASSUME Inv, NEW c \in Calls, EvictFails(c) PROVE Inv'
  <1>0. /\ pc[c] = "evict" /\ Goto(c, "record") /\ Backend = "valkey"
        /\ late' = late \cup {[token |-> CallToken(c), entry |-> None]}
        /\ undeleted' = undeleted \cup {CallToken(c)}
        /\ UNCHANGED <<call, store, tasks, delivered, forgotten, consumed, billed, logged>>
    BY DEF EvictFails
  <1>1. /\ CallToken(c) \in Tokens /\ Issued(CallToken(c))
        /\ tasks[CallToken(c)].state = "closed"
    BY <1>0, Evicting
  <1>2. Grows
    BY <1>0, SameTasks
  <1>3. Keeps /\ StoresTrue' /\ DeliveredHeld'
    BY <1>0, <1>2, SameStores, SameDelivered
  <1>4. LateTrue'
    BY <1>0, <1>1 DEF Inv, LateTrue, Issued, TaskScope
  <1>5. /\ pc' \in [Calls -> Steps]
        /\ \A d \in Calls \ {c} : pc'[d] = pc[d] /\ call'[d] = call[d]
        /\ CallOK(c)'
    BY <1>0, EvictedCall
  <1>6. TypeOK'
    BY <1>0, <1>1, <1>5 DEF Inv, TypeOK
  <1> QED
    BY <1>2, <1>3, <1>4, <1>5, <1>6, CallStep

\* The token a call records next is an issued one, of the caller's scope.
LEMMA RecordingToken ==
    ASSUME Inv, NEW c \in Calls, Recording(c)
    PROVE  /\ call[c].recorded + 1 \in 1..Len(call[c].tokens)
           /\ NextToken(c) = call[c].tokens[call[c].recorded + 1]
           /\ NextToken(c) \in Tokens /\ Issued(NextToken(c))
           /\ TaskScope(NextToken(c)) = ScopedEntry(c)
           /\ ScopedEntry(c) \in Entries /\ ScopedEntry(c) # None
           /\ call[c].queue # Empty
  <1>1. /\ pc[c] = "record" /\ call[c] \in ActiveCalls /\ Handed(c)
        /\ Permitted(call[c].req, call[c].id)
    BY DEF Recording, Inv, CallOK
  <1>2. /\ call[c].tokens \in Seq(Tokens) /\ call[c].recorded \in Nat
        /\ call[c].id \in Identities /\ call[c].queue \in Queues \cup {Empty}
    BY <1>1 DEF ActiveCalls
  <1>3. PICK n \in Nat : n = Len(call[c].tokens)
    BY <1>2, LenProperties
  <1>4. ToRecord(c) = call[c].tokens
    BY <1>1 DEF Handed
  <1>5. call[c].recorded + 1 \in 1..Len(call[c].tokens)
    BY <1>2, <1>3, <1>4 DEF Recording
  <1>6. NextToken(c) = call[c].tokens[call[c].recorded + 1]
    BY <1>4 DEF NextToken
  <1>7. NextToken(c) \in Tokens
    BY <1>2, <1>5, <1>6, ElementOfSeq
  <1>8. /\ Issued(NextToken(c)) /\ TaskScope(NextToken(c)) = ScopedEntry(c)
        /\ call[c].queue # Empty
    BY <1>1, <1>5, <1>6 DEF Handed
  <1>9. call[c].id.valid
    BY <1>1 DEF Permitted
  <1>10. call[c].id.ns \in Namespaces
    BY <1>2, <1>9 DEF Identities
  <1>11. ScopedEntry(c) \in Entries
    BY <1>2, <1>8, <1>10 DEF ScopedEntry, Entry, Entries
  <1> QED
    BY <1>5, <1>6, <1>7, <1>8, <1>11, NoneAssumption

LEMMA RecordInv ==
    ASSUME Inv, NEW c \in Calls, Record(c) PROVE Inv'
  <1>0. Recording(c) /\ pc[c] = "record" /\ UNCHANGED <<late, tasks, ghosts>>
    BY DEF Record, Recording
  <1>1. PICK t \in Tokens : /\ t = NextToken(c) /\ Issued(t)
                            /\ TaskScope(t) = ScopedEntry(c)
                            /\ t = call[c].tokens[call[c].recorded + 1]
    BY <1>0, RecordingToken
  <1>2. PICK e \in Entries : e = ScopedEntry(c) /\ e # None /\ call[c].queue # Empty
    BY <1>0, RecordingToken
  <1>3. PICK s \in Stores : s = CallStore(c)
    BY <1>0, CallStoreType
  <1>4. PICK m \in Nat, n \in Nat : m = call[c].recorded /\ n = Len(call[c].tokens) /\ m < n
    <2>1. call[c] \in ActiveCalls
      BY <1>0 DEF Inv, CallOK
    <2>2. call[c].recorded \in Nat /\ call[c].tokens \in Seq(Tokens)
      BY <2>1 DEF ActiveCalls
    <2>3. Len(call[c].tokens) \in Nat
      BY <2>2, LenProperties
    <2> QED
      BY <1>0, <2>2, <2>3, RecordingToken
  <1>5. /\ store' = [store EXCEPT ![s] = S!With(store[s], t, e)]
        /\ call' = [call EXCEPT ![c] = [call[c] EXCEPT !.recorded = m + 1]]
        /\ UNCHANGED pc
    BY <1>1, <1>2, <1>3, <1>4 DEF Record, Inv, TypeOK
  <1>6. store' \in [Stores -> S!Contents] /\ StoresTrue' /\ Keeps /\ Held(t, s)'
    BY <1>0, <1>1, <1>2, <1>5, StoreWrite DEF ghosts
  <1>7. Grows
    BY <1>0, SameTasks
  <1>8. LateTrue' /\ DeliveredHeld'
    BY <1>0, <1>6, <1>7, SameLate, SameDelivered DEF ghosts
  <1>9. /\ call[c] \in ActiveCalls /\ Permitted(call[c].req, call[c].id)
        /\ Scoped(c) /\ Handed(c) /\ call[c].code # "Internal"
        /\ \A j \in 1..m : Held(call[c].tokens[j], s)
    BY <1>0, <1>3, <1>4 DEF Inv, CallOK
  <1>10. [call[c] EXCEPT !.recorded = m + 1] \in ActiveCalls
    BY <1>9 DEF ActiveCalls
  <1>11. call \in [Calls -> ActiveCalls \cup {NoCall}]
    BY DEF Inv, TypeOK
  <1>12. /\ call' \in [Calls -> ActiveCalls \cup {NoCall}]
         /\ call'[c] = [call[c] EXCEPT !.recorded = m + 1] /\ call'[c] \in ActiveCalls
         /\ \A d \in Calls \ {c} : pc'[d] = pc[d] /\ call'[d] = call[d]
    BY <1>5, <1>10, <1>11
  <1>13. /\ call'[c].req = call[c].req /\ call'[c].id = call[c].id
         /\ call'[c].queue = call[c].queue /\ call'[c].tokens = call[c].tokens
         /\ call'[c].inst = call[c].inst
         /\ call'[c].recorded = m + 1 /\ call'[c].code # "Internal"
    BY <1>9, <1>12 DEF ActiveCalls
  <1>14. Scoped(c)' /\ Handed(c)' /\ CallStore(c)' = s
    BY <1>0, <1>3, <1>9, <1>13
       DEF Scoped, Handed, ToRecord, ScopedEntry, Issued, TaskScope, CallStore
  <1>15. ASSUME NEW j \in 1..(m + 1) PROVE Held(call[c].tokens[j], s)'
    <2>1. CASE j = m + 1
      <3>1. call'[c].tokens[j] = t
        BY <1>1, <1>4, <1>13, <2>1
      <3> QED
        BY <1>6, <3>1 DEF Held
    <2>2. CASE j \in 1..m
      <3>1. j \in 1..Len(call[c].tokens)
        BY <1>4, <2>2
      <3>2. call[c].tokens[j] \in Tokens
        <4>1. call[c].tokens \in Seq(Tokens)
          BY <1>9 DEF ActiveCalls
        <4> QED
          BY <3>1, <4>1, ElementOfSeq
      <3>3. Issued(call[c].tokens[j]) /\ Held(call[c].tokens[j], s)
        BY <1>9, <2>2, <3>1 DEF Handed
      <3>4. PICK u \in Tokens : u = call[c].tokens[j]
        BY <3>2
      <3>5. Held(u, s)'
        BY <1>6, <3>3, <3>4 DEF Keeps, Held
      <3> QED
        BY <1>13, <3>4, <3>5 DEF Held
    <2> QED
      BY <2>1, <2>2
  <1>16. CallOK(c)'
    BY <1>0, <1>4, <1>5, <1>9, <1>12, <1>13, <1>14, <1>15 DEF CallOK, Held
  <1>17. TypeOK'
    BY <1>0, <1>5, <1>6, <1>12 DEF Inv, TypeOK, ghosts
  <1> QED
    BY <1>6, <1>7, <1>8, <1>12, <1>16, <1>17, CallStep

LEMMA RecordFailsInv ==
    ASSUME Inv, NEW c \in Calls, RecordFails(c) PROVE Inv'
  <1>0. /\ Recording(c) /\ pc[c] # "idle" /\ Answer(c, "Unavailable")
        /\ Backend = "valkey"
        /\ late' = late \cup {[token |-> NextToken(c), entry |-> ScopedEntry(c)]}
        /\ UNCHANGED <<store, tasks, ghosts>>
    BY DEF RecordFails, Recording
  <1>1. PICK t \in Tokens, e \in Entries :
          /\ t = NextToken(c) /\ Issued(t) /\ e = ScopedEntry(c) /\ e # None
          /\ TaskScope(t) = e
    BY <1>0, RecordingToken
  <1>2. Grows
    BY <1>0, SameTasks
  <1>3. Keeps /\ StoresTrue' /\ DeliveredHeld'
    BY <1>0, <1>2, SameStores, SameDelivered DEF ghosts
  <1>4. late' = late \cup {[token |-> t, entry |-> e]}
    BY <1>0, <1>1
  <1>5. LateTrue'
    BY <1>0, <1>1, <1>4 DEF Inv, LateTrue, Issued, TaskScope
  <1>6. /\ pc' \in [Calls -> Steps] /\ call' \in [Calls -> ActiveCalls \cup {NoCall}]
        /\ \A d \in Calls \ {c} : pc'[d] = pc[d] /\ call'[d] = call[d]
        /\ CallOK(c)'
    BY <1>0, AnswerOK DEF Codes
  <1>7. TypeOK'
    BY <1>0, <1>4, <1>6 DEF Inv, TypeOK, ghosts
  <1> QED
    BY <1>2, <1>3, <1>5, <1>6, <1>7, CallStep

LEMMA ReplyInv ==
    ASSUME Inv, NEW c \in Calls, Reply(c) PROVE Inv'
  <1>0. /\ pc[c] = "record" /\ call[c].recorded = Len(ToRecord(c)) /\ Answer(c, "ok")
        /\ UNCHANGED <<store, late, tasks, forgotten, undeleted, billed>>
    BY DEF Reply
  <1>1. /\ call[c] \in ActiveCalls /\ Scoped(c) /\ Handed(c)
        /\ \A j \in 1..call[c].recorded : Held(call[c].tokens[j], CallStore(c))
    BY <1>0 DEF Inv, CallOK
  <1>2. PICK s \in Stores : s = CallStore(c)
    BY <1>0, CallStoreType
  <1>3. PICK toks \in Seq(Tokens) : toks = call[c].tokens
    BY <1>1 DEF ActiveCalls
  <1>4. \A j \in 1..Len(toks) : toks[j] \in Tokens /\ Issued(toks[j]) /\ Held(toks[j], s)
    <2>1. call[c].recorded = Len(toks)
      BY <1>0, <1>1, <1>3 DEF Handed
    <2> QED
      BY <1>1, <1>2, <1>3, <2>1, ElementOfSeq DEF Handed
  <1>5. delivered' = delivered \cup {<<toks[j], s>> : j \in 1..Len(toks)}
    BY <1>2, <1>3 DEF Reply
  <1>6. Grows
    BY <1>0, SameTasks
  <1>7. Keeps /\ StoresTrue' /\ LateTrue'
    BY <1>0, <1>6, SameStores, SameLate
  <1>8. DeliveredHeld'
    <2> SUFFICES ASSUME NEW t \in Tokens, NEW x \in Stores, <<t, x>> \in delivered'
                 PROVE  Issued(t)' /\ Held(t, x)'
      BY DEF DeliveredHeld
    <2>1. CASE <<t, x>> \in delivered
      BY <1>6, <1>7, <2>1 DEF Inv, DeliveredHeld, Grows, Keeps
    <2>2. CASE \E j \in 1..Len(toks) : <<t, x>> = <<toks[j], s>>
      <3>1. Issued(t) /\ Held(t, x)
        BY <1>4, <2>2
      <3> QED
        BY <1>6, <1>7, <3>1 DEF Grows, Keeps
    <2> QED
      BY <1>5, <2>1, <2>2
  <1>9. /\ pc' \in [Calls -> Steps] /\ call' \in [Calls -> ActiveCalls \cup {NoCall}]
        /\ \A d \in Calls \ {c} : pc'[d] = pc[d] /\ call'[d] = call[d]
        /\ CallOK(c)'
    BY <1>0, AnswerOK DEF Codes
  <1>10. delivered' \subseteq Tokens \X Stores
    BY <1>4, <1>5 DEF Inv, TypeOK
  <1>11. consumed' \subseteq Tokens
    <2>1. consumed \subseteq Tokens
      BY DEF Inv, TypeOK
    <2>2. Finishes(call[c].req.rpc) => call[c].req.token \in Tokens
      BY <1>1 DEF Scoped, Finishes
    <2>3. consumed' = IF Finishes(call[c].req.rpc)
                      THEN consumed \cup {call[c].req.token} ELSE consumed
      BY DEF Reply
    <2> QED
      BY <2>1, <2>2, <2>3
  <1>12. TypeOK'
    BY <1>0, <1>9, <1>10, <1>11 DEF Inv, TypeOK
  <1> QED
    BY <1>6, <1>7, <1>8, <1>9, <1>12, CallStep

\* A step of no call at all.
LEMMA OutsideStep ==
    ASSUME Inv, Grows, Keeps, UNCHANGED <<pc, call>>,
           TypeOK', StoresTrue', LateTrue', DeliveredHeld'
    PROVE  Inv'
  BY CallKept DEF Inv

LEMMA StoreForgetsInv ==
    ASSUME Inv, NEW s \in Stores, NEW t \in Tokens, StoreForgets(s, t) PROVE Inv'
  <1>0. /\ UNCHANGED <<pc, call, late, tasks, delivered, consumed, undeleted, billed, logged>>
        /\ forgotten' = forgotten \cup {<<t, s>>}
        /\ store' = [store EXCEPT ![s] = S!Without(store[s], {t})]
    BY DEF StoreForgets
  <1>1. store' = [store EXCEPT ![s] = S!With(store[s], t, None)]
    <2>1. store[s] \in S!Contents
      BY DEF Inv, TypeOK
    <2> QED
      BY <1>0, <2>1, WithoutOne
  <1>2. store' \in [Stores -> S!Contents] /\ StoresTrue' /\ Keeps
    BY <1>0, <1>1, StoreWrite
  <1>3. Grows
    BY <1>0, SameTasks
  <1>4. LateTrue' /\ DeliveredHeld'
    BY <1>0, <1>2, <1>3, SameLate, SameDelivered
  <1>5. TypeOK'
    BY <1>0, <1>2 DEF Inv, TypeOK
  <1> QED
    BY <1>0, <1>2, <1>3, <1>4, <1>5, OutsideStep

LEMMA LateWriteInv ==
    ASSUME Inv, NEW w \in late, LateWrite(w) PROVE Inv'
  <1>0. late' = late \ {w} /\ UNCHANGED <<pc, call, tasks, ghosts>>
    BY DEF LateWrite
  <1>1. /\ Backend = "valkey" /\ Issued(w.token)
        /\ w.entry # None => w.entry = TaskScope(w.token)
        /\ w.entry = None => tasks[w.token].state = "closed"
    BY DEF Inv, LateTrue
  <1>2. Shared \in Stores
    BY <1>1 DEF Stores
  <1>3. PICK t \in Tokens, e \in Entries \cup {None} : t = w.token /\ e = w.entry
    BY DEF Inv, TypeOK
  <1>4. store' = [store EXCEPT ![Shared] = S!With(store[Shared], t, e)]
    <2>1. store[Shared] \in S!Contents
      BY <1>2 DEF Inv, TypeOK
    <2> QED
      BY <1>3, <2>1, WithoutOne DEF LateWrite
  <1>5. store' \in [Stores -> S!Contents] /\ StoresTrue' /\ Keeps
    BY <1>0, <1>1, <1>2, <1>3, <1>4, StoreWrite DEF ghosts
  <1>6. Grows
    BY <1>0, SameTasks
  <1>7. DeliveredHeld'
    BY <1>0, <1>5, <1>6, SameDelivered DEF ghosts
  <1>8. LateTrue'
    BY <1>0 DEF Inv, LateTrue, Issued, TaskScope
  <1>9. TypeOK'
    BY <1>0, <1>5 DEF Inv, TypeOK, ghosts
  <1> QED
    BY <1>0, <1>5, <1>6, <1>7, <1>8, <1>9, OutsideStep

LEMMA TaskTimesOutInv ==
    ASSUME Inv, NEW t \in Tokens, TaskTimesOut(t) PROVE Inv'
  <1>0. tasks[t].state = "open" /\ UNCHANGED <<pc, call, store, late, ghosts>>
    BY DEF TaskTimesOut
  <1>1. tasks \in [Tokens -> TaskRecords]
    BY DEF Inv, TypeOK
  <1>2. tasks' = [tasks EXCEPT ![t] = [tasks[t] EXCEPT !.state = "closed"]]
    BY <1>1 DEF TaskTimesOut
  <1>3. tasks[t] \in TaskRecords \ {Unissued}
    BY <1>0, <1>1 DEF Unissued
  <1>4. [tasks[t] EXCEPT !.state = "closed"] \in TaskRecords \ {Unissued}
    BY <1>3 DEF TaskRecords, Unissued
  <1>5. tasks' \in [Tokens -> TaskRecords]
    BY <1>1, <1>2, <1>4
  <1>6. ASSUME NEW u \in Tokens, Issued(u)
        PROVE  /\ Issued(u)' /\ TaskScope(u)' = TaskScope(u)
               /\ tasks'[u].state = "open" => tasks[u].state = "open"
               /\ tasks[u].state = "closed" => tasks'[u].state = "closed"
    <2>1. CASE u = t
      <3>1. tasks'[u] = [tasks[u] EXCEPT !.state = "closed"]
        BY <1>1, <1>2, <2>1
      <3> QED
        BY <1>0, <1>3, <1>4, <2>1, <3>1 DEF Issued, TaskScope, TaskRecords
    <2>2. CASE u # t
      <3>1. tasks'[u] = tasks[u]
        BY <1>1, <1>2, <2>2
      <3> QED
        BY <1>6, <3>1 DEF Issued, TaskScope
    <2> QED
      BY <2>1, <2>2
  <1>7. Grows
    BY <1>6 DEF Grows
  <1>8. Keeps /\ StoresTrue' /\ LateTrue' /\ DeliveredHeld'
    BY <1>0, <1>7, SameStores, SameLate, SameDelivered DEF ghosts
  <1>9. TypeOK'
    BY <1>0, <1>5 DEF Inv, TypeOK, ghosts
  <1> QED
    BY <1>0, <1>7, <1>8, <1>9, OutsideStep

LEMMA CrashInv ==
    ASSUME Inv, NEW i \in Instances, Crash(i) PROVE Inv'
  <1>0. UNCHANGED <<late, tasks, delivered, consumed, undeleted, billed, logged>>
    BY DEF Crash
  <1>1. /\ pc' = [c \in Calls |-> IF c \in {d \in Calls : call[d].inst = i}
                                  THEN "idle" ELSE pc[c]]
        /\ call' = [c \in Calls |-> IF c \in {d \in Calls : call[d].inst = i}
                                    THEN NoCall ELSE call[c]]
    BY DEF Crash
  <1>2. ASSUME NEW c \in Calls
        PROVE  \/ call[c].inst = i /\ pc'[c] = "idle" /\ call'[c] = NoCall
               \/ call[c].inst # i /\ pc'[c] = pc[c] /\ call'[c] = call[c]
    BY <1>1
  <1>3. pc' \in [Calls -> Steps] /\ call' \in [Calls -> ActiveCalls \cup {NoCall}]
    BY <1>1 DEF Inv, TypeOK, Steps
  <1>4. Grows
    BY <1>0, SameTasks
  <1>5. /\ store' \in [Stores -> S!Contents] /\ forgotten' \subseteq Tokens \X Stores
        /\ StoresTrue' /\ Keeps
    <2>1. CASE Backend = "local"
      <3>1. i \in Stores
        BY <2>1 DEF Stores
      <3>2. /\ store' = [store EXCEPT ![i] = S!EmptyStore]
            /\ forgotten' = forgotten \cup (S!Found(store[i]) \X {i})
        BY <2>1 DEF Crash
      <3>3. store \in [Stores -> S!Contents] /\ forgotten \subseteq Tokens \X Stores
        BY DEF Inv, TypeOK
      <3>4. S!EmptyStore \in S!Contents
        BY DEF S!EmptyStore, S!Contents
      <3>5. store' \in [Stores -> S!Contents]
        BY <3>2, <3>3, <3>4
      <3>6. \A s \in Stores, t \in Tokens :
              store'[s][t] = IF s = i THEN None ELSE store[s][t]
        BY <3>2, <3>3 DEF S!EmptyStore
      <3>7. StoresTrue'
        BY <1>0, <3>6 DEF Inv, StoresTrue, Issued, TaskScope
      <3>8. \A t \in Tokens : store[i][t] # None => <<t, i>> \in forgotten'
        BY <3>2 DEF S!Found
      <3>9. Keeps
        BY <1>0, <3>2, <3>6, <3>8 DEF Keeps, Held
      <3>10. forgotten' \subseteq Tokens \X Stores
        BY <3>1, <3>2, <3>3 DEF S!Found
      <3> QED
        BY <3>5, <3>7, <3>9, <3>10
    <2>2. CASE Backend # "local"
      <3>1. UNCHANGED <<store, forgotten>>
        BY <2>2 DEF Crash
      <3> QED
        BY <1>4, <3>1, SameStores DEF Inv, TypeOK
    <2> QED
      BY <2>1, <2>2
  <1>6. LateTrue' /\ DeliveredHeld'
    BY <1>0, <1>4, <1>5, SameLate, SameDelivered
  <1>7. ASSUME NEW c \in Calls PROVE CallOK(c)'
    <2>1. CASE pc'[c] = "idle" /\ call'[c] = NoCall
      BY <2>1 DEF CallOK, NoCall
    <2>2. CASE pc'[c] = pc[c] /\ call'[c] = call[c]
      BY <1>4, <1>5, <2>2, CallKept
    <2> QED
      BY <1>2, <2>1, <2>2
  <1>8. TypeOK'
    BY <1>0, <1>3, <1>5 DEF Inv, TypeOK
  <1> QED
    BY <1>5, <1>6, <1>7, <1>8 DEF Inv
-----------------------------------------------------------------------------
LEMMA InitInv == Init => Inv
  <1> SUFFICES ASSUME Init PROVE Inv
    OBVIOUS
  <1>1. TypeOK
    BY DEF Init, TypeOK, Steps, S!EmptyStore, S!Contents, TaskRecords
  <1>2. StoresTrue
    BY DEF Init, StoresTrue, S!EmptyStore
  <1>3. LateTrue /\ DeliveredHeld
    BY DEF Init, LateTrue, DeliveredHeld
  <1>4. \A c \in Calls : CallOK(c)
    BY DEF Init, CallOK, NoCall
  <1> QED
    BY <1>1, <1>2, <1>3, <1>4 DEF Inv

LEMMA StepInv == Inv /\ [Next]_vars => Inv'
  <1> SUFFICES ASSUME Inv, [Next]_vars PROVE Inv'
    OBVIOUS
  <1>1. ASSUME NEW c \in Calls, Proceed(c) PROVE Inv'
    BY <1>1, LookupHitInv, EarlyReturnInv, UpstreamSucceedsInv, UpstreamResponseLostInv,
       EvictInv, EvictFailsInv, RecordInv, RecordFailsInv, ReplyInv, DoneInv
       DEF Proceed
  <1>2. CASE UNCHANGED vars
    <2>1. UNCHANGED <<pc, call, store, late, tasks, ghosts>>
      BY <1>2 DEF vars, ghosts
    <2>2. Grows
      BY <2>1, SameTasks
    <2>3. Keeps /\ StoresTrue' /\ LateTrue' /\ DeliveredHeld'
      BY <2>1, <2>2, SameStores, SameLate, SameDelivered DEF ghosts
    <2>4. TypeOK'
      BY <2>1 DEF Inv, TypeOK, ghosts
    <2> QED
      BY <2>1, <2>2, <2>3, <2>4, OutsideStep
  <1> QED
    BY <1>1, <1>2, ReceiveInv, StoreForgetsInv, LateWriteInv, TaskTimesOutInv, CrashInv
       DEF Next

\* The inductive invariant holds throughout.
THEOREM Invariance == Spec => []Inv
  BY InitInv, StepInv, PTL DEF Spec

(* TypeOK: the tokens of every call, write and store are tokens, and every   *)
(* recorded scope names a real queue of the caller's namespace.              *)
THEOREM TypeCorrect == Spec => []TypeOK
  <1>1. Inv => TypeOK
    BY DEF Inv
  <1> QED
    BY <1>1, Invariance, PTL

(* CacheMatchesUpstream: what the interceptor records from the caller's      *)
(* scope is what the server issued the token for, in any interleaving, with  *)
(* any store failures, late writes and crashes.                              *)
THEOREM CacheTruth == Spec => []CacheMatchesUpstream
  <1>1. Inv => CacheMatchesUpstream
    BY DEF Inv, StoresTrue, LateTrue, CacheMatchesUpstream
  <1> QED
    BY <1>1, Invariance, PTL

(* OpenTokensStayCached: a token a worker holds is denied only after its     *)
(* task closed or its store lost it.                                         *)
THEOREM OpenTokens == Spec => []OpenTokensStayCached
  <1>1. Inv => OpenTokensStayCached
    BY DEF Inv, DeliveredHeld, Held, OpenTokensStayCached
  <1> QED
    BY <1>1, Invariance, PTL

\* NoInternalError: the interceptor's "missing task queue scope" is unreachable.
THEOREM NoInternal == Spec => []NoInternalError
  <1>1. Inv => NoInternalError
    BY DEF Inv, CallOK, NoInternalError
  <1> QED
    BY <1>1, Invariance, PTL
-----------------------------------------------------------------------------
\* Heartbeats that pass the check name queues of the caller.
LEMMA HeartbeatReach ==
    ASSUME NEW req \in Requests, NEW id, HeartbeatsAllowed(req, id), req.ns = id.ns
    PROVE  {Entry(req.ns, req.heartbeats[j]) : j \in DOMAIN req.heartbeats} \subseteq Own(id)
  <1>1. req.heartbeats \in Seq(Queues \cup {Empty})
    BY RequestAssumption, Zenon
  <1>2. DOMAIN req.heartbeats = 1..Len(req.heartbeats)
    BY <1>1, LenProperties
  <1> QED
    BY <1>2 DEF HeartbeatsAllowed, AllowsTaskQueue, Own, Entry

\* Validated commands stay on the task's queue, wherever the server takes them.
LEMMA CommandReach ==
    ASSUME NEW req \in Requests, NEW ns, NEW queue,
           TaskScope(req.token) = Entry(ns, queue), ValidateCommands(req.commands, ns, queue)
    PROVE  StaysOnTaskQueue(req)
  <1> DEFINE Values == [type : STRING, ns : Namespaces \cup {Empty},
                        queue : Queues \cup {Empty}]
  <1>0. req.commands \in Seq(Values)
    BY RequestAssumption, Zenon
  <1> HIDE DEF Values
  <1>1. DOMAIN req.commands = 1..Len(req.commands)
    BY <1>0, LenProperties
  <1>2. tasks[req.token].ns = ns /\ tasks[req.token].queue = queue
    BY DEF TaskScope, Entry
  <1> SUFFICES ASSUME NEW j \in 1..Len(req.commands)
               PROVE  WorkDirected(req.commands[j], req.token)
                         \subseteq {TaskScope(req.token)}
    BY <1>1 DEF StaysOnTaskQueue
  <1>3. PICK cmd : cmd = req.commands[j]
    OBVIOUS
  <1>4. /\ cmd.type = "ScheduleActivityTask" => cmd.queue = queue
        /\ cmd.type = "StartChildWorkflowExecution" =>
              cmd.queue = queue /\ cmd.ns \in {Empty, ns}
        /\ cmd.type = "ContinueAsNewWorkflowExecution" => cmd.queue \in {Empty, queue}
    BY <1>3 DEF ValidateCommands
  <1>5. WorkDirected(cmd, req.token) \subseteq {Entry(ns, queue)}
    BY <1>2, <1>4 DEF WorkDirected
  <1> QED
    BY <1>3, <1>5

(* WorkStaysInScope: however calls interleave, work is fetched, answered and *)
(* reported on only in the caller's namespace and on its queues, and started *)
(* only on the queue of the task that starts it.                             *)
THEOREM ScopeSafety == Spec => []WorkStaysInScope
  <1>1. Inv => WorkStaysInScope
    <2> SUFFICES ASSUME Inv, NEW c \in Calls, pc[c] = "forward"
                 PROVE  /\ call[c].id.valid /\ call[c].req.rpc \in AllowedRPCs
                        /\ call[c].req.rpc # "GetSystemInfo" => call[c].req.ns = call[c].id.ns
                        /\ WorkTouched(call[c].req) \subseteq Own(call[c].id)
                        /\ StaysOnTaskQueue(call[c].req)
      BY DEF WorkStaysInScope
    <2>1. call[c] \in ActiveCalls /\ Permitted(call[c].req, call[c].id) /\ Scoped(c)
      BY DEF Inv, CallOK
    <2>2. PICK req \in Requests, id \in Identities : req = call[c].req /\ id = call[c].id
      BY <2>1 DEF ActiveCalls
    <2>3. Permitted(req, id) /\ id.valid /\ req.rpc \in AllowedRPCs
      BY <2>1, <2>2 DEF Permitted
    <2>4. CASE req.rpc \in PollRPCs
      <3>1. /\ req.ns = id.ns /\ PollTaskQueueScope(req.tq) \in id.queues
            /\ req.rpc = "PollNexusTaskQueue" => HeartbeatsAllowed(req, id)
        BY <2>3, <2>4, PermittedPoll
      <3>2. Entry(req.ns, QueueServed(req.tq)) \in Own(id)
        BY <3>1 DEF QueueServed, PollTaskQueueScope, Own
      <3>3. req.rpc \notin TokenRPCs /\ req.rpc # "ShutdownWorker"
            /\ req.rpc # "RecordWorkerHeartbeat"
            /\ req.rpc # "RespondWorkflowTaskCompleted"
        BY <2>4 DEF PollRPCs, TokenRPCs
      <3>4. WorkTouched(req) \subseteq Own(id)
        BY <3>1, <3>2, <3>3, HeartbeatReach DEF WorkTouched
      <3> QED
        BY <2>2, <2>3, <3>1, <3>3, <3>4 DEF StaysOnTaskQueue
    <2>5. CASE req.rpc \in TokenRPCs
      <3>1. req.ns = id.ns
        BY <2>3, <2>5, PermittedToken
      <3>2. /\ TaskScope(req.token) = Entry(id.ns, call[c].queue)
            /\ call[c].queue \in id.queues
            /\ req.rpc = "RespondWorkflowTaskCompleted" =>
                  ValidateCommands(req.commands, id.ns, call[c].queue)
        BY <2>1, <2>2, <2>5 DEF Scoped, ScopedEntry
      <3>3. req.rpc \notin PollRPCs /\ req.rpc # "ShutdownWorker"
            /\ req.rpc # "RecordWorkerHeartbeat" /\ req.rpc # "PollNexusTaskQueue"
        BY <2>5 DEF PollRPCs, TokenRPCs
      <3>4. WorkTouched(req) \subseteq Own(id)
        BY <3>2, <3>3 DEF WorkTouched, Own
      <3>5. StaysOnTaskQueue(req)
        BY <3>2, CommandReach DEF StaysOnTaskQueue
      <3> QED
        BY <2>2, <2>3, <3>1, <3>4, <3>5
    <2>6. CASE req.rpc \notin PollRPCs \cup TokenRPCs
      <3>1. /\ req.rpc # "GetSystemInfo" => req.ns = id.ns
            /\ req.rpc = "ShutdownWorker" /\ req.tq.name # Empty => req.tq.name \in id.queues
            /\ req.rpc = "RecordWorkerHeartbeat" => HeartbeatsAllowed(req, id)
        BY <2>3, <2>6, PermittedOther
      <3>2. req.rpc # "RespondWorkflowTaskCompleted" /\ req.rpc # "PollNexusTaskQueue"
        BY <2>6 DEF PollRPCs, TokenRPCs
      <3>3. WorkTouched(req) \subseteq Own(id)
        BY <2>6, <3>1, <3>2, HeartbeatReach DEF WorkTouched, Own
      <3> QED
        BY <2>2, <2>3, <3>1, <3>2, <3>3 DEF StaysOnTaskQueue
    <2> QED
      BY <2>4, <2>5, <2>6
  <1> QED
    BY <1>1, Invariance, PTL
=============================================================================
