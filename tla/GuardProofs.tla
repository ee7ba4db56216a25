---------------------------- MODULE GuardProofs -----------------------------
(***************************************************************************)
(* Proxy implements GuardedServer.  The proof rests on the invariant of     *)
(* ProxyProofs: at the moment the server acts, the request is in the scope  *)
(* of the identity it was forwarded for.                                    *)
(***************************************************************************)
EXTENDS ProxyProofs

\* A step that changes no task and admits no call.
LEMMA QuietGuard ==
    ASSUME UNCHANGED tasks,
           \A c \in Calls : \/ pc'[c] # "forward"
                            \/ pc'[c] = pc[c] /\ call'[c] = call[c]
    PROVE  Guard!Next
  <1> DEFINE D == {c \in Calls : pc'[c] # "forward"}
  <1>1. Forwarded' = [c \in Calls |-> IF c \in D THEN None ELSE Forwarded[c]]
    BY DEF Forwarded
  <1>2. Guard!Abandon(D)
    BY <1>1 DEF Guard!Abandon
  <1> QED
    BY <1>2 DEF Guard!Next

\* A step by which call c, and no other, comes to be forwarded.
LEMMA AdmitGuard ==
    ASSUME NEW c \in Calls, UNCHANGED tasks, pc[c] # "forward", pc'[c] = "forward",
           call'[c].id \in Identities, call'[c].id.valid,
           \A d \in Calls \ {c} : pc'[d] = pc[d] /\ call'[d] = call[d]
    PROVE  Guard!Next
  <1>1. Forwarded' = [Forwarded EXCEPT ![c] = call'[c].id] /\ Forwarded[c] = None
    BY DEF Forwarded
  <1>2. Guard!Admit(c, call'[c].id)
    BY <1>1 DEF Guard!Admit
  <1> QED
    BY <1>2 DEF Guard!Next

\* The early returns and the steps after the server's answer are quiet.
LEMMA AnswerQuiet ==
    ASSUME Inv, NEW c \in Calls, NEW code, Answer(c, code), UNCHANGED tasks
    PROVE  Guard!Next
  <1>1. /\ pc'[c] = "answered"
        /\ \A d \in Calls \ {c} : pc'[d] = pc[d] /\ call'[d] = call[d]
    BY DEF Inv, TypeOK, Answer, Goto
  <1> QED
    BY <1>1, QuietGuard

LEMMA MoveQuiet ==
    ASSUME Inv, NEW c \in Calls, NEW step, step # "forward", Goto(c, step), UNCHANGED tasks,
           \A d \in Calls \ {c} : call'[d] = call[d]
    PROVE  Guard!Next
  <1>1. /\ pc'[c] = step
        /\ \A d \in Calls \ {c} : pc'[d] = pc[d] /\ call'[d] = call[d]
    BY DEF Inv, TypeOK, Goto
  <1> QED
    BY <1>1, QuietGuard

LEMMA ReceiveGuard ==
    ASSUME Inv, NEW c \in Calls, NEW i \in Instances, NEW req \in Requests, Receive(c, i, req)
    PROVE  Guard!Next
  <1>0. /\ pc[c] = "idle" /\ UNCHANGED tasks
        /\ pc \in [Calls -> Steps] /\ call \in [Calls -> ActiveCalls \cup {NoCall}]
    BY DEF Inv, TypeOK, Receive
  <1>1. PICK id \in IdentitiesFor(req) :
          IF Permitted(req, id)
          THEN /\ Goto(c, IF req.rpc \in TokenRPCs THEN "lookup" ELSE "forward")
               /\ call' = [call EXCEPT ![c] = NewCall(i, req, id, ScopedTaskQueue(req), "none")]
          ELSE /\ Goto(c, "answered")
               /\ call' = [call EXCEPT ![c] = NewCall(i, req, id, Empty, "PermissionDenied")]
    BY DEF Receive
  <1>2. CASE ~Permitted(req, id)
    BY <1>0, <1>1, <1>2, MoveQuiet
  <1>3. CASE Permitted(req, id) /\ req.rpc \in TokenRPCs
    BY <1>0, <1>1, <1>3, MoveQuiet
  <1>4. CASE Permitted(req, id) /\ req.rpc \notin TokenRPCs
    <2>1. /\ pc'[c] = "forward" /\ call'[c].id = id
          /\ \A d \in Calls \ {c} : pc'[d] = pc[d] /\ call'[d] = call[d]
      BY <1>0, <1>1, <1>4 DEF Goto, NewCall
    <2>2. id \in Identities /\ id.valid
      BY <1>4, IdentityTypes DEF Permitted
    <2> QED
      BY <1>0, <2>1, <2>2, AdmitGuard
  <1> QED
    BY <1>2, <1>3, <1>4

LEMMA LookupHitGuard ==
    ASSUME Inv, NEW c \in Calls, LookupHit(c)
    PROVE  Guard!Next
  <1>0. /\ pc[c] = "lookup" /\ UNCHANGED tasks
        /\ pc \in [Calls -> Steps] /\ call \in [Calls -> ActiveCalls \cup {NoCall}]
        /\ call[c] \in ActiveCalls /\ Permitted(call[c].req, call[c].id)
    BY DEF Inv, TypeOK, LookupHit, CallOK
  <1> DEFINE entry == store[CallStore(c)][CallToken(c)]
  <1>1. \/ Goto(c, "forward") /\ call' = [call EXCEPT ![c].queue = entry.queue]
        \/ Answer(c, "PermissionDenied")
    BY DEF LookupHit
  <1>2. CASE Answer(c, "PermissionDenied")
    BY <1>0, <1>2, AnswerQuiet
  <1>3. CASE Goto(c, "forward") /\ call' = [call EXCEPT ![c].queue = entry.queue]
    <2> HIDE DEF entry
    <2>1. /\ pc'[c] = "forward" /\ call'[c].id = call[c].id
          /\ \A d \in Calls \ {c} : pc'[d] = pc[d] /\ call'[d] = call[d]
      BY <1>0, <1>3 DEF Goto, ActiveCalls
    <2>2. call[c].id \in Identities /\ call[c].id.valid
      BY <1>0 DEF ActiveCalls, Permitted
    <2> QED
      BY <1>0, <2>1, <2>2, AdmitGuard
  <1> QED
    BY <1>1, <1>2, <1>3
-----------------------------------------------------------------------------
(* What the server does for a forwarded call is in one queue of its caller. *)
LEMMA ServerChange ==
    ASSUME Inv, NEW c \in Calls, pc[c] = "forward", ServerAccepts(call[c].req),
           NEW n \in 0..MaxDispatch, NEW out \in [1..n -> Dispatches],
           MayDispatch(call[c].req, out), tasks' = TasksAfter(call[c].req, out)
    PROVE  \/ UNCHANGED tasks
           \/ /\ call[c].queue \in call[c].id.queues
              /\ \A t \in Tokens : tasks'[t] # tasks[t] =>
                    \/ Guard!Opens(t, call[c].id.ns, call[c].queue)
                    \/ Guard!Closes(t, call[c].id.ns, call[c].queue)
              /\ \A t \in Tokens :
                    tasks'[t] # tasks[t] /\ tasks'[t].state = "closed" => t = call[c].req.token
  <1>0. PICK req \in Requests : req = call[c].req
    BY DEF Inv, CallOK, ActiveCalls
  <1>1. /\ MayDispatch(req, out) /\ ServerAccepts(req) /\ tasks' = TasksAfter(req, out)
        /\ Permitted(req, call[c].id) /\ Scoped(c) /\ tasks \in [Tokens -> TaskRecords]
    BY <1>0 DEF Inv, CallOK, TypeOK
  <1>2. /\ DOMAIN out = 1..n
        /\ \A j \in 1..n : out[j].token \in Tokens /\ tasks[out[j].token] = Unissued
        /\ \A j, k \in 1..n : out[j].token = out[k].token => j = k
    BY <1>1 DEF MayDispatch, Dispatches
  <1>3. Finishes(req.rpc) =>
          /\ req.rpc \in TokenRPCs /\ req.token \in Tokens
          /\ tasks[req.token].state = "open" /\ tasks[req.token] # Unissued
    BY <1>1 DEF Finishes, ServerAccepts, Unissued
  <1>4. ASSUME NEW j \in 1..n
        PROVE  tasks'[out[j].token].state = "open"
    <2>1. (CHOOSE k \in 1..n : out[k].token = out[j].token) = j
      BY <1>2
    <2> QED
      BY <1>1, <1>2, <2>1 DEF TasksAfter
  <1>5. ASSUME NEW t \in Tokens, \A j \in 1..n : out[j].token # t
        PROVE  tasks'[t] = IF Finishes(req.rpc) /\ req.token = t
                           THEN [tasks[t] EXCEPT !.state = "closed"] ELSE tasks[t]
    BY <1>1, <1>2, <1>5 DEF TasksAfter
  <1>6. /\ tasks' \in [Tokens -> TaskRecords]
        /\ \A j \in 1..n : TaskScope(out[j].token)' = ScopedEntry(c)
        /\ n > 0 => req.rpc \in PollRPCs \cup {"RespondWorkflowTaskCompleted"}
    BY <1>0, ServerStep
  <1>7. CASE req.rpc \notin PollRPCs \cup TokenRPCs
    <2>1. n = 0 /\ ~Finishes(req.rpc)
      BY <1>3, <1>6, <1>7 DEF TokenRPCs
    <2>2. \A t \in Tokens : tasks'[t] = tasks[t]
      BY <1>5, <2>1
    <2> QED
      BY <1>1, <1>6, <2>2
  <1>8. CASE req.rpc \in PollRPCs \cup TokenRPCs
    <2>1. call[c].queue \in call[c].id.queues
      BY <1>0, <1>1, <1>8, PermittedPoll DEF Scoped
    <2>2. ASSUME NEW j \in 1..n
          PROVE  Guard!Opens(out[j].token, call[c].id.ns, call[c].queue)
      BY <1>2, <1>4, <1>6 DEF Guard!Opens, TaskScope, ScopedEntry, Entry
    <2>3. ASSUME Finishes(req.rpc), \A j \in 1..n : out[j].token # req.token
          PROVE  Guard!Closes(req.token, call[c].id.ns, call[c].queue)
      <3>1. TaskScope(req.token) = ScopedEntry(c)
        BY <1>0, <1>1, <1>3, <2>3 DEF Scoped
      <3> QED
        BY <1>3, <1>5, <2>3, <3>1 DEF Guard!Closes, TaskScope, ScopedEntry, Entry
    <2>4. ASSUME NEW t \in Tokens, tasks'[t] # tasks[t]
          PROVE  /\ \/ Guard!Opens(t, call[c].id.ns, call[c].queue)
                    \/ Guard!Closes(t, call[c].id.ns, call[c].queue)
                 /\ tasks'[t].state = "closed" => t = req.token
      <3>1. CASE \E j \in 1..n : out[j].token = t
        BY <1>4, <2>2, <3>1
      <3>2. CASE \A j \in 1..n : out[j].token # t
        BY <1>5, <2>3, <2>4, <3>2
      <3> QED
        BY <3>1, <3>2
    <2> QED
      BY <1>0, <2>1, <2>4
  <1> QED
    BY <1>7, <1>8

\* The server has acted for call c, which moves on.
LEMMA ServeGuard ==
    ASSUME Inv, NEW c \in Calls, pc[c] = "forward", ServerAccepts(call[c].req),
           NEW n \in 0..MaxDispatch, NEW out \in [1..n -> Dispatches],
           MayDispatch(call[c].req, out), tasks' = TasksAfter(call[c].req, out),
           pc'[c] # "forward",
           \A d \in Calls \ {c} : pc'[d] = pc[d] /\ call'[d] = call[d]
    PROVE  Guard!Next
  <1>1. CASE UNCHANGED tasks
    BY <1>1, QuietGuard
  <1>2. CASE /\ call[c].queue \in call[c].id.queues
             /\ \A t \in Tokens : tasks'[t] # tasks[t] =>
                   \/ Guard!Opens(t, call[c].id.ns, call[c].queue)
                   \/ Guard!Closes(t, call[c].id.ns, call[c].queue)
             /\ \A t \in Tokens :
                   tasks'[t] # tasks[t] /\ tasks'[t].state = "closed" => t = call[c].req.token
    <2>1. Forwarded' = [Forwarded EXCEPT ![c] = None] /\ Forwarded[c] = call[c].id
      BY DEF Forwarded
    <2>2. call[c].id \in Identities
      BY DEF Inv, CallOK, ActiveCalls
    <2>3. Forwarded[c] # None
      BY <2>1, <2>2, NoneAssumption
    <2>4. Guard!Serve(c)
      BY <1>2, <2>1, <2>3 DEF Guard!Serve
    <2> QED
      BY <2>4 DEF Guard!Next
  <1> QED
    BY <1>1, <1>2, ServerChange

LEMMA UpstreamGuard ==
    ASSUME Inv, NEW c \in Calls, UpstreamSucceeds(c) \/ UpstreamResponseLost(c)
    PROVE  Guard!Next
  <1>0. /\ pc \in [Calls -> Steps] /\ call \in [Calls -> ActiveCalls \cup {NoCall}]
        /\ pc[c] = "forward" /\ ServerAccepts(call[c].req)
    BY DEF Inv, TypeOK, UpstreamSucceeds, UpstreamResponseLost
  <1>1. CASE UpstreamSucceeds(c)
    <2>1. PICK n \in 0..MaxDispatch : \E out \in [1..n -> Dispatches] :
            /\ MayDispatch(call[c].req, out)
            /\ tasks' = TasksAfter(call[c].req, out)
            /\ call' = [call EXCEPT ![c].tokens = [j \in 1..n |-> out[j].token]]
      BY <1>1 DEF UpstreamSucceeds
    <2>2. PICK out \in [1..n -> Dispatches] :
            /\ MayDispatch(call[c].req, out)
            /\ tasks' = TasksAfter(call[c].req, out)
            /\ call' = [call EXCEPT ![c].tokens = [j \in 1..n |-> out[j].token]]
      BY <2>1
    <2>3. /\ pc'[c] # "forward"
          /\ \A d \in Calls \ {c} : pc'[d] = pc[d] /\ call'[d] = call[d]
      BY <1>0, <1>1, <2>2 DEF UpstreamSucceeds, Goto
    <2> QED
      BY <1>0, <2>2, <2>3, ServeGuard
  <1>2. CASE UpstreamResponseLost(c)
    <2>0. PICK n \in 0..MaxDispatch : \E out \in [1..n -> Dispatches] :
            MayDispatch(call[c].req, out) /\ tasks' = TasksAfter(call[c].req, out)
      BY <1>2 DEF UpstreamResponseLost
    <2>1. PICK out \in [1..n -> Dispatches] :
            MayDispatch(call[c].req, out) /\ tasks' = TasksAfter(call[c].req, out)
      BY <2>0
    <2>2. /\ pc'[c] # "forward"
          /\ \A d \in Calls \ {c} : pc'[d] = pc[d] /\ call'[d] = call[d]
      BY <1>0, <1>2 DEF UpstreamResponseLost, Answer, Goto
    <2> QED
      BY <1>0, <2>1, <2>2, ServeGuard
  <1> QED
    BY <1>1, <1>2

\* Record moves no call into or out of forwarding.
LEMMA RecordGuard ==
    ASSUME Inv, NEW c \in Calls, Record(c)
    PROVE  Guard!Next
  <1>0. /\ call \in [Calls -> ActiveCalls \cup {NoCall}]
        /\ pc[c] = "record" /\ UNCHANGED tasks
    BY DEF Inv, TypeOK, Record, Recording
  <1>1. CASE Answer(c, "Internal")
    BY <1>0, <1>1, AnswerQuiet
  <1>2. CASE call' = [call EXCEPT ![c].recorded = @ + 1] /\ UNCHANGED pc
    <2>1. /\ pc'[c] # "forward"
          /\ \A d \in Calls \ {c} : pc'[d] = pc[d] /\ call'[d] = call[d]
      BY <1>0, <1>2
    <2> QED
      BY <1>0, <2>1, QuietGuard
  <1> QED
    BY <1>1, <1>2 DEF Record

LEMMA ProceedGuard ==
    ASSUME Inv, NEW c \in Calls, Proceed(c)
    PROVE  Guard!Next
  <1>0. call \in [Calls -> ActiveCalls \cup {NoCall}]
    BY DEF Inv, TypeOK
  <1>1. CASE LookupHit(c)
    BY <1>1, LookupHitGuard
  <1>2. CASE LookupMiss(c) \/ LookupFails(c) \/ UpstreamFails(c) \/ RecordFails(c) \/ Reply(c)
    BY <1>2, AnswerQuiet DEF LookupMiss, LookupFails, UpstreamFails, RecordFails, Reply
  <1>3. CASE UpstreamSucceeds(c) \/ UpstreamResponseLost(c)
    BY <1>3, UpstreamGuard
  <1>4. CASE Evict(c) \/ EvictFails(c)
    BY <1>4, MoveQuiet DEF Evict, EvictFails
  <1>5. CASE Done(c)
    <2>1. \A d \in Calls \ {c} : call'[d] = call[d]
      BY <1>0, <1>5 DEF Done
    <2> QED
      BY <1>5, <2>1, MoveQuiet DEF Done
  <1>6. CASE Record(c)
    BY <1>6, RecordGuard
  <1> QED
    BY <1>1, <1>2, <1>3, <1>4, <1>5, <1>6 DEF Proceed

\* Stores, late writes and crashes do not touch the server's tasks.
LEMMA OutsideGuard ==
    ASSUME Inv,
           \/ \E s \in Stores, t \in Tokens : StoreForgets(s, t)
           \/ \E w \in late : LateWrite(w)
           \/ \E i \in Instances : Crash(i)
    PROVE  Guard!Next
  <1>1. CASE \/ \E s \in Stores, t \in Tokens : StoreForgets(s, t)
             \/ \E w \in late : LateWrite(w)
    <2>1. UNCHANGED <<pc, call, tasks>>
      BY <1>1 DEF StoreForgets, LateWrite
    <2> QED
      BY <2>1, QuietGuard
  <1>2. CASE \E i \in Instances : Crash(i)
    <2>1. PICK i \in Instances : Crash(i)
      BY <1>2
    <2>2. /\ UNCHANGED tasks
          /\ \A c \in Calls : \/ pc'[c] # "forward"
                              \/ pc'[c] = pc[c] /\ call'[c] = call[c]
      BY <2>1 DEF Crash
    <2> QED
      BY <2>2, QuietGuard
  <1> QED
    BY <1>1, <1>2

LEMMA TaskTimesOutGuard ==
    ASSUME NEW t \in Tokens, TaskTimesOut(t)
    PROVE  Guard!Next
  <1>1. Guard!TimesOut(t)
    BY DEF TaskTimesOut, Guard!TimesOut, Forwarded
  <1> QED
    BY <1>1 DEF Guard!Next

(* For any number of calls, instances, tokens and identities, any requests   *)
(* and both backends, the interceptor with its token store changes the       *)
(* server's tasks only as a server that checks every identity itself would.  *)
THEOREM GuardImplemented == Spec => ImplementsGuard
  <1>1. Init => Guard!Init
    BY DEF Init, Guard!Init, Forwarded
  <1>2. Inv /\ [Next]_vars => [Guard!Next]_(Guard!gvars)
    <2> SUFFICES ASSUME Inv, [Next]_vars
                 PROVE  Guard!Next \/ UNCHANGED Guard!gvars
      OBVIOUS
    <2>1. CASE \E c \in Calls, i \in Instances, req \in Requests : Receive(c, i, req)
      BY <2>1, ReceiveGuard
    <2>2. CASE \E c \in Calls : Proceed(c)
      BY <2>2, ProceedGuard
    <2>3. CASE \/ \E s \in Stores, t \in Tokens : StoreForgets(s, t)
               \/ \E w \in late : LateWrite(w)
               \/ \E i \in Instances : Crash(i)
      BY <2>3, OutsideGuard
    <2>4. CASE \E t \in Tokens : TaskTimesOut(t)
      BY <2>4, TaskTimesOutGuard
    <2>5. CASE UNCHANGED vars
      BY <2>5 DEF vars, Guard!gvars, Forwarded
    <2> QED
      BY <2>1, <2>2, <2>3, <2>4, <2>5 DEF Next
  <1> QED
    BY <1>1, <1>2, Invariance, PTL DEF Spec, ImplementsGuard, Guard!Spec
=============================================================================
