------------------------------- MODULE Verify -------------------------------
(***************************************************************************)
(* examples/: the end-to-end check of a deployment.  verify-worker (in Go,  *)
(* or its TypeScript port) works through the proxy; verify-client talks to  *)
(* the Temporal server directly, waits for EchoWorkflow's result, starts    *)
(* CrossQueueWorkflow, sleeps, and reads in its history whether the proxy   *)
(* let the forbidden activity through.                                      *)
(*                                                                         *)
(* A deployment fixes what the environment says to each program: w and c    *)
(* are the VERIFY_ variables of worker and client ("" if unset or empty), a *)
(* file variable standing for what the file holds.                          *)
(*                                                                         *)
(* The proxy appears as its decision on each request (Scope); that it knows *)
(* the queue of every task is what Proxy shows.                             *)
(***************************************************************************)
EXTENDS Scope

CONSTANTS
    Deployments,
    Authenticate(_, _)  \* the proxy's authenticator, by TEMPORAL_PROXY_AUTH_MODE

VARIABLES
    dep,      \* the deployment
    worker,   \* the worker process, its credential and the tasks it works on
    client,   \* the client process, whether it saw the activity, its errors
    runs,     \* the server's record of the two workflow runs
    blocked   \* history: the proxy denied CrossQueueWorkflow's completion

vars == <<dep, worker, client, runs, blocked>>
-----------------------------------------------------------------------------
Flows == {"EchoWorkflow", "CrossQueueWorkflow"}
Tasks == {"workflow", "activity"} \X Flows

\* getEnv: an empty variable counts as unset.
GetEnv(v, def) == IF v = "" THEN def ELSE v

Namespace(e) == GetEnv(e.ns, "default")
TaskQueue(e) == GetEnv(e.queue, "proxy-test-queue")

\* strconv.ParseBool and parseBoolEnv; any other text is an error.
Booleans == {"true", "false"}

Options(tls, verify, roots) == [tls |-> tls, verify |-> verify, roots |-> roots]
Plaintext == Options(FALSE, FALSE, "")
Refused   == Options(FALSE, FALSE, "error")

\* Mutant of SkipVerify: any text counts as yes.
AnyTextSkips(e) == e.skip # ""

SkipVerify(e) == e.skip = "true"

\* verifytls.ConnectionOptions, of the Go programs.
ConnectionOptions(e) ==
    IF e.tls \in {"", "plaintext"} THEN Plaintext
    ELSE IF \/ e.tls # "tls"
            \/ e.skip \notin Booleans \cup {""}
            \/ e.ca \notin {"", "certificates"} THEN Refused
    ELSE Options(TRUE, ~SkipVerify(e), e.ca)

(* connectionTLS, of the TypeScript worker: it cannot skip verification, and *)
(* does not look into the CA file.                                           *)
ConnectionTLS(e) ==
    IF e.tls \in {"", "plaintext"} THEN Plaintext
    ELSE IF e.tls # "tls" \/ e.skip \notin {"", "false"} \/ e.ca = "missing" THEN Refused
    ELSE Options(TRUE, TRUE, e.ca)

(* External: the TLS handshake with an endpoint that is "plaintext" or has a *)
(* certificate of a "public" or "private" authority, or of a "stranger"'s.   *)
Proven(roots, endpoint) ==
    <<roots, endpoint>> \in {<<"", "public">>, <<"certificates", "private">>}
Connects(opts, endpoint) ==
    /\ opts # Refused
    /\ opts.tls <=> endpoint # "plaintext"
    /\ opts.verify => Proven(opts.roots, endpoint)

NoCredential == "none"

(* getCloudRunToken: the body of the metadata server's answer, unless there  *)
(* is no answer, it cannot be read or is not OK.                             *)
GetCloudRunToken(e) ==
    IF e.metadata \in {"unreachable", "unreadable", "not OK"} THEN NoCredential ELSE e.metadata

\* resolveCredential; NoCredential where it exits.
ResolveCredential(e) ==
    CASE GetEnv(e.mode, "static") = "static" -> IF e.key = "" THEN NoCredential ELSE e.key
      [] GetEnv(e.mode, "static") = "jwt"    -> GetCloudRunToken(e)
      [] OTHER                               -> NoCredential

\* "a task queue no configured identity is authorized for" (verify-client).
ASSUME ForbiddenAssumption ==
    \A d \in Deployments :
        "forbidden-queue" \notin Authenticate(d.auth, ResolveCredential(d.w)).queues
-----------------------------------------------------------------------------
(* What becomes of a request of the worker. *)

Anonymous == [valid |-> FALSE, ns |-> Empty, queues |-> {}]

WorkerIdentity ==
    IF worker.credential = Empty THEN Anonymous
    ELSE Authenticate(dep.auth, worker.credential)

Request(rpc) ==
    [rpc |-> rpc, ns |-> Namespace(dep.w), tq |-> [NoQueue EXCEPT !.name = TaskQueue(dep.w)],
     token |-> "task token", heartbeats |-> <<>>]

\* Mutant of Permitted: whoever asks is served.
Anybody(rpc) == TRUE

\* The interceptor forwards the request; there is none on a direct route.
Permitted(rpc) ==
    dep.route = "proxy" =>
        /\ rpc \in AllowedRPCs
        /\ WorkerIdentity.valid
        /\ AuthorizeRequest(Request(rpc), WorkerIdentity)

(* EchoWorkflow and CrossQueueWorkflow: run EchoActivity, here or on the     *)
(* forbidden queue, and return its result.                                   *)
Commands(flow) ==
    IF runs[flow].activity = "done"
    THEN <<[type |-> "CompleteWorkflowExecution", ns |-> Empty, queue |-> Empty]>>
    ELSE <<[type |-> "ScheduleActivityTask", ns |-> Empty,
            queue |-> IF flow = "EchoWorkflow" THEN TaskQueue(dep.c) ELSE "forbidden-queue"]>>

CommandsPermitted(flow) ==
    dep.route = "proxy" =>
        ValidateCommands(Commands(flow), WorkerIdentity.ns, TaskQueue(dep.c))
-----------------------------------------------------------------------------
NotStarted == [state |-> "none", task |-> "none", activity |-> "none"]

Init ==
    /\ dep \in Deployments
    /\ worker = [pc |-> "start", credential |-> NoCredential, holds |-> {}]
    /\ client = [pc |-> "start", saw |-> FALSE, failed |-> FALSE, expired |-> FALSE]
    /\ runs = [f \in Flows |-> NotStarted]
    /\ blocked = FALSE

WorkerGoes(pc) == worker' = [worker EXCEPT !.pc = pc]

\* main up to client.Dial: credential and TLS options, each of which may be fatal.
WorkerConfigures ==
    LET opts == IF dep.lang = "go" THEN ConnectionOptions(dep.w) ELSE ConnectionTLS(dep.w)
        credential == ResolveCredential(dep.w)
    IN /\ worker.pc = "start"
       /\ IF credential = NoCredential \/ opts = Refused
          THEN WorkerGoes("fatal")
          ELSE worker' = [worker EXCEPT !.pc = "dial", !.credential = credential]
       /\ UNCHANGED <<dep, client, runs, blocked>>

\* Dial, which asks for GetSystemInfo, and the DescribeNamespace Run begins with.
WorkerConnects ==
    LET opts == IF dep.lang = "go" THEN ConnectionOptions(dep.w) ELSE ConnectionTLS(dep.w)
    IN /\ worker.pc = "dial"
       /\ \/ /\ Connects(opts, dep.endpoint)
             /\ Permitted("GetSystemInfo") /\ Permitted("DescribeNamespace")
             /\ WorkerGoes("running")
          \/ WorkerGoes("fatal")
       /\ UNCHANGED <<dep, client, runs, blocked>>

\* The worker is interrupted, or dies; the tasks it held are not answered.
WorkerStops ==
    /\ worker.pc = "running"
    /\ worker' = [worker EXCEPT !.pc = "stopped", !.holds = {}]
    /\ UNCHANGED <<dep, client, runs, blocked>>

\* A poll is answered with a task of the run.
WorkerTakes(kind, flow) ==
    LET field == IF kind = "workflow" THEN "task" ELSE "activity"
        queue == IF kind = "activity" /\ flow = "CrossQueueWorkflow"
                 THEN "forbidden-queue" ELSE TaskQueue(dep.c)
    IN /\ worker.pc = "running"
       /\ runs[flow].state = "running" /\ runs[flow][field] = "scheduled"
       /\ queue = TaskQueue(dep.w) /\ Namespace(dep.c) = Namespace(dep.w)
       /\ Permitted(IF kind = "workflow" THEN "PollWorkflowTaskQueue" ELSE "PollActivityTaskQueue")
       /\ runs' = [runs EXCEPT ![flow][field] = "started"]
       /\ worker' = [worker EXCEPT !.holds = @ \cup {<<kind, flow>>}]
       /\ UNCHANGED <<dep, client, blocked>>

\* The worker is done with a task.
Drop(task) == worker' = [worker EXCEPT !.holds = @ \ {task}]

(* The workflow code has run: its commands are sent, and carried out unless  *)
(* the proxy denies them or the run is over.  The answer to a denied task    *)
(* is not repeated; the task times out.                                      *)
WorkerCompletesTask(flow) ==
    /\ <<"workflow", flow>> \in worker.holds
    /\ Drop(<<"workflow", flow>>)
    /\ IF ~(Permitted("RespondWorkflowTaskCompleted") /\ CommandsPermitted(flow))
       THEN /\ blocked' = (blocked \/ flow = "CrossQueueWorkflow")
            /\ UNCHANGED runs
       ELSE /\ UNCHANGED blocked
            /\ runs' = IF runs[flow].state # "running" THEN runs
                       ELSE IF runs[flow].activity = "done"
                       THEN [runs EXCEPT ![flow].state = "completed", ![flow].task = "none"]
                       ELSE [runs EXCEPT ![flow].activity = "scheduled", ![flow].task = "none"]
    /\ UNCHANGED <<dep, client>>

\* EchoActivity has run: its result is recorded and the workflow goes on.
WorkerCompletesActivity(flow) ==
    /\ <<"activity", flow>> \in worker.holds
    /\ Drop(<<"activity", flow>>)
    /\ runs' = IF runs[flow].state = "running" /\ Permitted("RespondActivityTaskCompleted")
               THEN [runs EXCEPT ![flow].activity = "done", ![flow].task = "scheduled"]
               ELSE runs
    /\ UNCHANGED <<dep, client, blocked>>

(* External: a task that is not answered in time is scheduled again; an      *)
(* answer that still comes is refused.                                       *)
TaskTimesOut(kind, flow) ==
    LET field == IF kind = "workflow" THEN "task" ELSE "activity"
    IN /\ runs[flow].state = "running" /\ runs[flow][field] = "started"
       /\ runs' = [runs EXCEPT ![flow][field] = "scheduled"]
       /\ Drop(<<kind, flow>>)
       /\ UNCHANGED <<dep, client, blocked>>
-----------------------------------------------------------------------------
Ended == {"fatal", "alarm", "confirmed"}

ClientGoes(pc) == client' = [client EXCEPT !.pc = pc]

\* main up to the start of the first workflow; from here on the deadline runs.
ClientConnects ==
    /\ client.pc = "start"
    /\ \/ Connects(ConnectionOptions(dep.c), dep.upstream) /\ ClientGoes("EchoWorkflow")
       \/ ClientGoes("fatal")
    /\ UNCHANGED <<dep, worker, runs, blocked>>

Started(flow) == [runs EXCEPT ![flow].state = "running", ![flow].task = "scheduled"]

\* ExecuteWorkflow.
ClientStarts(flow) ==
    /\ client.pc = flow /\ ~client.expired
    /\ runs' = Started(flow)
    /\ ClientGoes(IF flow = "EchoWorkflow" THEN "await" ELSE "sleep")
    /\ UNCHANGED <<dep, worker, blocked>>

\* The server starts the workflow and the client does not hear of it.
ClientStartLost(flow) ==
    /\ client.pc = flow /\ ~client.expired
    /\ runs' = Started(flow)
    /\ client' = [client EXCEPT !.pc = "fatal", !.failed = TRUE]
    /\ UNCHANGED <<dep, worker, blocked>>

\* run.Get returns EchoWorkflow's result.
ClientGetsResult ==
    /\ client.pc = "await" /\ ~client.expired
    /\ runs["EchoWorkflow"].state = "completed"
    /\ ClientGoes("CrossQueueWorkflow")
    /\ UNCHANGED <<dep, worker, runs, blocked>>

\* time.Sleep, whatever has or has not happened meanwhile.
ClientWakes ==
    /\ client.pc = "sleep"
    /\ ClientGoes("read")
    /\ UNCHANGED <<dep, worker, runs, blocked>>

\* Mutant of ClientReads: what was seen is reported before cleaning up.
ReportFirst ==
    /\ client.pc = "read" /\ ~client.expired
    /\ IF runs["CrossQueueWorkflow"].activity # "none"
       THEN ClientGoes("alarm") ELSE ClientGoes("terminate")
    /\ UNCHANGED <<dep, worker, runs, blocked>>

\* GetWorkflowHistory: is there an ActivityTaskScheduled event?
ClientReads ==
    /\ client.pc = "read" /\ ~client.expired
    /\ client' = [client EXCEPT
                     !.pc = "terminate", !.saw = runs["CrossQueueWorkflow"].activity # "none"]
    /\ UNCHANGED <<dep, worker, runs, blocked>>

Terminated == [runs EXCEPT !["CrossQueueWorkflow"].state = "terminated"]

ClientTerminates ==
    /\ client.pc = "terminate" /\ ~client.expired
    /\ runs' = Terminated
    /\ ClientGoes("conclude")
    /\ UNCHANGED <<dep, worker, blocked>>

\* TerminateWorkflow fails, with or without effect: a warning.
TerminateFails ==
    /\ client.pc = "terminate"
    /\ runs' \in {runs} \cup (IF client.expired THEN {} ELSE {Terminated})
    /\ client' = [client EXCEPT !.pc = "conclude", !.failed = TRUE]
    /\ UNCHANGED <<dep, worker, blocked>>

ClientConcludes ==
    /\ client.pc = "conclude"
    /\ ClientGoes(IF client.saw THEN "alarm" ELSE "confirmed")
    /\ UNCHANGED <<dep, worker, runs, blocked>>

\* Any other call of the client fails: log.Fatalf.
ClientFails ==
    /\ client.pc \in Flows \cup {"await", "read"}
    /\ client' = [client EXCEPT !.pc = "fatal", !.failed = TRUE]
    /\ UNCHANGED <<dep, worker, runs, blocked>>

\* Mutant of DeadlinePasses: the context has no timeout.
NoDeadline == FALSE /\ UNCHANGED vars

\* The 60 seconds of the context are over.
DeadlinePasses ==
    /\ client.pc \notin Ended \cup {"start"} /\ ~client.expired
    /\ client' = [client EXCEPT !.expired = TRUE]
    /\ UNCHANGED <<dep, worker, runs, blocked>>
-----------------------------------------------------------------------------
ClientStep ==
    \/ ClientConnects \/ ClientGetsResult \/ ClientWakes \/ ClientReads
    \/ \E f \in Flows : ClientStarts(f)
    \/ ClientTerminates \/ ClientConcludes
    \/ client.expired /\ (ClientFails \/ TerminateFails)

WorkerStep ==
    \/ WorkerConfigures \/ WorkerConnects \/ WorkerStops
    \/ \E k \in {"workflow", "activity"}, f \in Flows : WorkerTakes(k, f)
    \/ \E f \in Flows : WorkerCompletesTask(f) \/ WorkerCompletesActivity(f)

Next ==
    \/ WorkerStep \/ ClientStep \/ DeadlinePasses
    \/ ClientFails \/ TerminateFails
    \/ \E f \in Flows : ClientStartLost(f)
    \/ \E k \in {"workflow", "activity"}, f \in Flows : TaskTimesOut(k, f)

Spec == Init /\ [][Next]_vars

(* The client is scheduled and its timer fires.  Nothing obliges the worker  *)
(* to do anything, or a call to fail before the deadline.                    *)
FairSpec == Spec /\ WF_vars(ClientStep) /\ WF_vars(DeadlinePasses)
-----------------------------------------------------------------------------
(* The workflow's activity "was indeed never scheduled" (verify-client): no  *)
(* worker behind the proxy gets it scheduled, whatever its credential, queue *)
(* and settings, and CrossQueueWorkflow never completes.  The alarm, "was    *)
(* scheduled on forbidden-queue", is then never raised over such a worker,   *)
(* and never without that activity.                                          *)
ForbiddenNeverScheduled ==
    /\ dep.route = "proxy" =>
          /\ runs["CrossQueueWorkflow"].activity = "none"
          /\ runs["CrossQueueWorkflow"].state # "completed"
    /\ client.pc = "alarm" => runs["CrossQueueWorkflow"].activity # "none"

(* The result of EchoWorkflow "is only produced once the proxied worker has  *)
(* processed" its tasks (verify-client): whoever got a result through the    *)
(* proxy had a credential for this namespace and queue.                      *)
ResultVouchesForIdentity ==
    dep.route = "proxy" /\ runs["EchoWorkflow"].state = "completed" =>
        LET id == Authenticate(dep.auth, worker.credential)
        IN /\ worker.credential # Empty
           /\ id.valid /\ id.ns = Namespace(dep.c) /\ TaskQueue(dep.c) \in id.queues

(* With VERIFY_TLS_MODE=tls and verification not switched off, no program    *)
(* gets past an endpoint that did not prove itself against the roots it was  *)
(* given; with any text but "plaintext" there, none goes on in plaintext.    *)
ConnectsAsAsked ==
    LET Asked(e, endpoint) ==
            /\ e.tls \notin {"", "plaintext"} => endpoint # "plaintext"
            /\ e.tls = "tls" /\ e.skip # "true" => Proven(e.ca, endpoint)
    IN /\ worker.pc \in {"running", "stopped"} => Asked(dep.w, dep.endpoint)
       /\ client.pc \notin {"start", "fatal"} => Asked(dep.c, dep.upstream)

(* The client "terminates the workflow so it doesn't retry forever": unless  *)
(* one of its calls failed, no run is left behind when it ends.              *)
CleansUp ==
    client.pc \in Ended /\ ~client.failed =>
        \A f \in Flows : runs[f].state # "running"

\* The client comes to an end, worker or no worker.
ClientEnds == <>(client.pc \in Ended)

(* "confirmed: CrossQueueWorkflow's forbidden-queue activity command was     *)
(* blocked by the proxy" (verify-client/main.go:102).                        *)
ConfirmedMeansBlocked == client.pc = "confirmed" => blocked
=============================================================================
