------------------------------- MODULE Scope --------------------------------
(***************************************************************************)
(* internal/scope/scope.go and the scope checks of the interceptor that     *)
(* need no token lookup, as predicates on one request and one identity.     *)
(*                                                                         *)
(* A request is one record for every RPC; a field its message does not have *)
(* is Empty.  Empty also stands for the empty string and the empty token.   *)
(* Its heartbeats are the queues its worker heartbeats name: those of a     *)
(* heartbeat or a nexus poll, which are checked, and the one ShutdownWorker *)
(* may carry, which is not.                                                 *)
(* A task queue is [name, kind, normal]; a command is [type, ns, queue]; an *)
(* identity is [ns, queues].                                                *)
(***************************************************************************)
EXTENDS RpcPolicy, Naturals, Sequences

CONSTANTS Empty

NoQueue == [name |-> Empty, kind |-> "normal", normal |-> Empty]

\* Identity.AllowsTaskQueue and containsTaskQueue.
AllowsTaskQueue(id, queue) == queue \in id.queues

\* RequestNamespace: every request but GetSystemInfo's has the field.
NamespaceMatches(req, id) == req.ns = id.ns

\* RequestTaskToken: the token of a token-scoped request.
RequestTaskToken(req) == req.token

\* Mutant of PollTaskQueueScope: a sticky queue counts under its own name.
StickyByName(tq) == tq.name

\* pollTaskQueueScope: a sticky queue counts as the normal queue it names.
PollTaskQueueScope(tq) == IF tq.kind = "sticky" THEN tq.normal ELSE tq.name

\* ValidateWorkerHeartbeatTaskQueues: each entry names a queue of the caller.
HeartbeatsAllowed(req, id) ==
    \A i \in 1..Len(req.heartbeats) :
        /\ req.heartbeats[i] # Empty
        /\ AllowsTaskQueue(id, req.heartbeats[i])

\* Mutant of ValidateCommands: the commands are not looked at.
CommandsAnywhere(commands, ns, queue) == TRUE

(* ValidateCommands: what a workflow task completion starts stays on the     *)
(* queue the task came from and in the caller's namespace.                   *)
ValidateCommands(commands, ns, queue) ==
    \A i \in 1..Len(commands) :
        LET cmd == commands[i] IN
        /\ cmd.type = "ScheduleActivityTask" => cmd.queue = queue
        /\ cmd.type = "StartChildWorkflowExecution" =>
              cmd.queue = queue /\ cmd.ns \in {Empty, ns}
        /\ cmd.type = "ContinueAsNewWorkflowExecution" => cmd.queue \in {Empty, queue}

(* CollectResponseTaskTokens.  A response is modelled by the sequence of its *)
(* non-empty tokens, the workflow task's before the eager activities'.       *)
CollectResponseTaskTokens(rpc, tokens) ==
    IF rpc \in PollRPCs \cup {"RespondWorkflowTaskCompleted"} THEN tokens ELSE <<>>

\* authorizeRequest, up to the token lookup.
AuthorizeRequest(req, id) ==
    CASE Category(req.rpc) = "poll" ->
            /\ NamespaceMatches(req, id)
            /\ req.tq.name # Empty
            /\ PollTaskQueueScope(req.tq) # Empty
            /\ AllowsTaskQueue(id, PollTaskQueueScope(req.tq))
            /\ req.rpc = "PollNexusTaskQueue" => HeartbeatsAllowed(req, id)
      [] Category(req.rpc) = "token" ->
            NamespaceMatches(req, id) /\ RequestTaskToken(req) # Empty
      [] Category(req.rpc) = "unscoped" -> TRUE
      [] Category(req.rpc) = "namespace" -> NamespaceMatches(req, id)
      [] Category(req.rpc) = "worker" ->
            /\ NamespaceMatches(req, id)
            /\ req.tq.name # Empty => AllowsTaskQueue(id, req.tq.name)
      [] Category(req.rpc) = "heartbeat" ->
            NamespaceMatches(req, id) /\ HeartbeatsAllowed(req, id)

\* Mutant of ScopedTaskQueue: the poll branch returns no queue.
NoPollScope(req) == IF Category(req.rpc) = "worker" THEN req.tq.name ELSE Empty

\* The queue authorizeRequest returns before the token lookup adds its own.
ScopedTaskQueue(req) ==
    CASE Category(req.rpc) = "poll"   -> PollTaskQueueScope(req.tq)
      [] Category(req.rpc) = "worker" -> req.tq.name
      [] OTHER                        -> Empty
=============================================================================
