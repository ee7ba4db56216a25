---------------------------- MODULE VerifyProofs ----------------------------
(***************************************************************************)
(* What the end-to-end check can rely on, for all deployments in which no   *)
(* configured identity is authorized for the forbidden queue, and any       *)
(* authenticator.                                                           *)
(*                                                                         *)
(* The invariant ties three things together: a worker that holds a task     *)
(* through the proxy was authorized for the client's queue, the forbidden   *)
(* activity does not exist on that route, and the client's place in its     *)
(* program says which runs can be there.                                    *)
(***************************************************************************)
EXTENDS Verify, TLAPS

\* The options of the worker's program.
WorkerOptions(d) == IF d.lang = "go" THEN ConnectionOptions(d.w) ELSE ConnectionTLS(d.w)

RunRecords ==
    [state : {"none", "running", "completed", "terminated"},
     task : {"none", "scheduled", "started"},
     activity : {"none", "scheduled", "started", "done"}]

TypeOK ==
    /\ dep \in Deployments
    /\ worker = [pc |-> worker.pc, credential |-> worker.credential, holds |-> worker.holds]
    /\ worker.holds \in SUBSET Tasks
    /\ client = [pc |-> client.pc, saw |-> client.saw, failed |-> client.failed,
                 expired |-> client.expired]
    /\ runs \in [Flows -> RunRecords]

\* The credential belongs to an identity with the client's queue.
Authorized ==
    dep.route = "proxy" =>
        LET id == Authenticate(dep.auth, worker.credential)
        IN /\ worker.credential # Empty
           /\ id.valid /\ id.ns = Namespace(dep.c) /\ TaskQueue(dep.c) \in id.queues

WorkerOK ==
    /\ worker.pc \in {"dial", "running", "stopped"} =>
          worker.credential = ResolveCredential(dep.w)
    /\ worker.pc \in {"running", "stopped"} => Connects(WorkerOptions(dep), dep.endpoint)
    /\ worker.holds # {} => worker.pc = "running" /\ Authorized
    /\ \A f \in Flows : <<"activity", f>> \in worker.holds => runs[f].activity # "none"
    /\ runs["EchoWorkflow"].state = "completed" =>
          worker.pc \in {"running", "stopped"} /\ Authorized

ForbiddenOK ==
    /\ dep.route = "proxy" =>
          /\ runs["CrossQueueWorkflow"].activity = "none"
          /\ runs["CrossQueueWorkflow"].state # "completed"
    /\ client.saw => runs["CrossQueueWorkflow"].activity # "none"
    /\ client.pc = "alarm" => client.saw

\* Which runs there are, by the client's place in main.
ClientOK ==
    LET echo == runs["EchoWorkflow"].state
        cross == runs["CrossQueueWorkflow"].state
    IN /\ client.pc \notin {"start", "fatal"} =>
             Connects(ConnectionOptions(dep.c), dep.upstream)
       /\ client.pc \in {"start", "EchoWorkflow"} => echo = "none" /\ cross = "none"
       /\ client.pc = "await" => cross = "none"
       /\ client.pc = "CrossQueueWorkflow" => echo = "completed" /\ cross = "none"
       /\ client.pc \in {"sleep", "read", "terminate", "conclude", "alarm", "confirmed"} =>
             echo = "completed"
       /\ client.pc \in {"conclude", "alarm", "confirmed"} =>
             client.failed \/ cross # "running"
       /\ client.pc = "fatal" => client.failed \/ (echo = "none" /\ cross = "none")

Inv == TypeOK /\ WorkerOK /\ ForbiddenOK /\ ClientOK
-----------------------------------------------------------------------------
\* What was asked of a connection, as in ConnectsAsAsked.
Asked(e, endpoint) ==
    /\ e.tls \notin {"", "plaintext"} => endpoint # "plaintext"
    /\ e.tls = "tls" /\ e.skip # "true" => Proven(e.ca, endpoint)

(* verifytls and connectionTLS give options that keep to what was asked.     *)
LEMMA OptionsKept ==
    ASSUME NEW e, NEW endpoint
    PROVE  /\ Connects(ConnectionOptions(e), endpoint) => Asked(e, endpoint)
           /\ Connects(ConnectionTLS(e), endpoint) => Asked(e, endpoint)
  <1>1. ASSUME Connects(ConnectionOptions(e), endpoint)
        PROVE  Asked(e, endpoint)
    <2>1. CASE e.tls \in {"", "plaintext"}
      BY <2>1 DEF Asked
    <2>2. CASE e.tls \notin {"", "plaintext"}
      <3>1. ConnectionOptions(e) # Refused
        BY <1>1 DEF Connects
      <3>2. e.tls = "tls" /\ ConnectionOptions(e) = Options(TRUE, ~SkipVerify(e), e.ca)
        BY <2>2, <3>1 DEF ConnectionOptions
      <3>3. CASE SkipVerify(e)
        <4>1. ConnectionOptions(e).tls = TRUE
          BY <3>2 DEF Options
        <4>2. endpoint # "plaintext"
          BY <1>1, <4>1 DEF Connects
        <4> QED
          BY <3>3, <4>2 DEF Asked, SkipVerify
      <3>4. CASE ~SkipVerify(e)
        <4>1. ConnectionOptions(e) = Options(TRUE, TRUE, e.ca)
          BY <3>2, <3>4
        <4>2. endpoint # "plaintext" /\ Proven(e.ca, endpoint)
          BY <1>1, <4>1 DEF Connects, Options
        <4> QED
          BY <4>2 DEF Asked
      <3> QED
        BY <3>3, <3>4
    <2> QED
      BY <2>1, <2>2
  <1>2. ASSUME Connects(ConnectionTLS(e), endpoint)
        PROVE  Asked(e, endpoint)
    <2>1. CASE e.tls \in {"", "plaintext"}
      BY <2>1 DEF Asked
    <2>2. CASE e.tls \notin {"", "plaintext"}
      <3>1. ConnectionTLS(e) # Refused
        BY <1>2 DEF Connects
      <3>2. e.tls = "tls" /\ ConnectionTLS(e) = Options(TRUE, TRUE, e.ca)
        BY <2>2, <3>1 DEF ConnectionTLS
      <3>3. endpoint # "plaintext" /\ Proven(e.ca, endpoint)
        BY <1>2, <3>2 DEF Connects, Options
      <3> QED
        BY <3>3 DEF Asked
    <2> QED
      BY <2>1, <2>2
  <1> QED
    BY <1>1, <1>2

(* The checked properties follow from the invariant. *)
LEMMA InvImplies ==
    ASSUME Inv
    PROVE  ForbiddenNeverScheduled /\ ResultVouchesForIdentity /\ ConnectsAsAsked /\ CleansUp
  <1>1. ForbiddenNeverScheduled
    BY DEF Inv, ForbiddenOK, ForbiddenNeverScheduled
  <1>2. ResultVouchesForIdentity
    BY DEF Inv, WorkerOK, Authorized, ResultVouchesForIdentity
  <1>3. ConnectsAsAsked
    <2>1. worker.pc \in {"running", "stopped"} => Asked(dep.w, dep.endpoint)
      BY OptionsKept DEF Inv, WorkerOK, WorkerOptions
    <2>2. client.pc \notin {"start", "fatal"} => Asked(dep.c, dep.upstream)
      BY OptionsKept DEF Inv, ClientOK
    <2> QED
      BY <2>1, <2>2 DEF ConnectsAsAsked, Asked
  <1>4. CleansUp
    BY DEF Inv, TypeOK, ClientOK, CleansUp, Ended, Flows
  <1> QED
    BY <1>1, <1>2, <1>3, <1>4

LEMMA InitInv == Init => Inv
  <1> SUFFICES ASSUME Init PROVE Inv
    OBVIOUS
  <1>1. TypeOK
    BY DEF Init, TypeOK, RunRecords, NotStarted
  <1>2. WorkerOK
    BY DEF Init, WorkerOK, NotStarted, Flows
  <1>3. ForbiddenOK /\ ClientOK
    BY DEF Init, ForbiddenOK, ClientOK, NotStarted, Flows
  <1> QED
    BY <1>1, <1>2, <1>3 DEF Inv

(* Who polls through the proxy is authorized for the queue it polls.         *)
LEMMA PollAuthorized ==
    ASSUME dep.route = "proxy", NEW rpc \in {"PollWorkflowTaskQueue", "PollActivityTaskQueue"},
           Permitted(rpc)
    PROVE  LET id == Authenticate(dep.auth, worker.credential)
           IN /\ worker.credential # Empty
              /\ id.valid /\ id.ns = Namespace(dep.w) /\ TaskQueue(dep.w) \in id.queues
  <1>1. WorkerIdentity.valid /\ AuthorizeRequest(Request(rpc), WorkerIdentity)
    BY DEF Permitted
  <1>2. /\ worker.credential # Empty
        /\ WorkerIdentity = Authenticate(dep.auth, worker.credential)
    BY <1>1 DEF WorkerIdentity, Anonymous
  <1>3. Category(rpc) = "poll"
    BY DEF Category, PollRPCs, TokenRPCs
  <1>4. /\ Request(rpc).rpc = rpc /\ Request(rpc).ns = Namespace(dep.w)
        /\ Request(rpc).tq.kind = "normal" /\ Request(rpc).tq.name = TaskQueue(dep.w)
    BY DEF Request, NoQueue
  <1>5. /\ Namespace(dep.w) = WorkerIdentity.ns
        /\ TaskQueue(dep.w) \in WorkerIdentity.queues
    BY <1>1, <1>3, <1>4 DEF AuthorizeRequest, NamespaceMatches, AllowsTaskQueue,
       PollTaskQueueScope
  <1> QED
    BY <1>1, <1>2, <1>5

\* The queues of the worker's identity, as the deployment configures it.
LEMMA NotForbidden ==
    ASSUME Inv, worker.pc = "running"
    PROVE  "forbidden-queue" \notin Authenticate(dep.auth, worker.credential).queues
  BY ForbiddenAssumption DEF Inv, TypeOK, WorkerOK
-----------------------------------------------------------------------------
\* Only the worker's program counter and credential change, before it has tasks.
LEMMA WorkerStartsInv ==
    ASSUME Inv, WorkerConfigures \/ WorkerConnects
    PROVE  Inv'
  <1>1. /\ worker.pc \in {"start", "dial"} /\ worker.holds = {}
        /\ runs["EchoWorkflow"].state # "completed"
        /\ UNCHANGED <<dep, client, runs, blocked>>
    BY DEF WorkerConfigures, WorkerConnects, Inv, WorkerOK
  <1>2. /\ worker' = [pc |-> worker'.pc, credential |-> worker'.credential,
                      holds |-> worker'.holds]
        /\ worker'.holds = {}
        /\ worker'.pc \in {"fatal", "dial", "running"}
        /\ worker'.pc = "dial" => worker'.credential = ResolveCredential(dep.w)
        /\ worker'.pc = "running" => /\ worker'.credential = worker.credential
                                     /\ worker.pc = "dial"
                                     /\ Connects(WorkerOptions(dep), dep.endpoint)
    BY <1>1 DEF WorkerConfigures, WorkerConnects, WorkerGoes, WorkerOptions, Inv, TypeOK
  <1>3. TypeOK'
    BY <1>1, <1>2 DEF Inv, TypeOK
  <1>4. WorkerOK'
    BY <1>1, <1>2 DEF Inv, WorkerOK
  <1>5. ForbiddenOK' /\ ClientOK'
    BY <1>1 DEF Inv, ForbiddenOK, ClientOK
  <1> QED
    BY <1>3, <1>4, <1>5 DEF Inv

LEMMA WorkerStopsInv ==
    ASSUME Inv, WorkerStops
    PROVE  Inv'
  <1>1. /\ worker.pc = "running" /\ UNCHANGED <<dep, client, runs, blocked>>
        /\ worker' = [worker EXCEPT !.pc = "stopped", !.holds = {}]
    BY DEF WorkerStops
  <1>2. worker'.pc = "stopped" /\ worker'.holds = {} /\ worker'.credential = worker.credential
    BY <1>1 DEF Inv, TypeOK
  <1>3. TypeOK'
    BY <1>1, <1>2 DEF Inv, TypeOK
  <1>4. Authorized' <=> Authorized
    BY <1>1, <1>2 DEF Authorized
  <1>5. WorkerOK'
    BY <1>1, <1>2, <1>4 DEF Inv, WorkerOK
  <1>6. ForbiddenOK' /\ ClientOK'
    BY <1>1 DEF Inv, ForbiddenOK, ClientOK
  <1> QED
    BY <1>3, <1>5, <1>6 DEF Inv

(* A change of the runs and of the tasks the worker holds, by an authorized  *)
(* worker or by the server, leaves the client's place alone if no run starts *)
(* and none that is over changes.                                            *)
LEMMA RunsInv ==
    ASSUME Inv, UNCHANGED <<dep, client>>, runs' \in [Flows -> RunRecords],
           worker'.holds \in SUBSET Tasks,
           worker' = [worker EXCEPT !.holds = worker'.holds],
           worker'.holds # {} => worker.pc = "running" /\ Authorized,
           \A f \in Flows :
              /\ <<"activity", f>> \in worker'.holds => runs'[f].activity # "none"
              /\ runs[f].activity # "none" => runs'[f].activity # "none"
              /\ \/ runs'[f].state = runs[f].state
                 \/ /\ runs[f].state = "running" /\ runs'[f].state = "completed"
                    /\ worker.pc = "running" /\ Authorized,
           dep.route = "proxy" =>
              /\ runs'["CrossQueueWorkflow"].activity = "none"
              /\ runs'["CrossQueueWorkflow"].state # "completed"
    PROVE  Inv'
  <1>1. /\ worker'.pc = worker.pc /\ worker'.credential = worker.credential
        /\ "EchoWorkflow" \in Flows /\ "CrossQueueWorkflow" \in Flows
    BY DEF Inv, TypeOK, Flows
  <1>2. TypeOK'
    BY <1>1 DEF Inv, TypeOK
  <1>3. Authorized' <=> Authorized
    BY <1>1 DEF Authorized
  <1>4. WorkerOK'
    BY <1>1, <1>3 DEF Inv, WorkerOK
  <1>5. ForbiddenOK'
    <2>1. client'.saw = client.saw /\ client'.pc = client.pc /\ dep'.route = dep.route
      OBVIOUS
    <2> QED
      BY <1>1, <2>1 DEF Inv, ForbiddenOK
  <1>6. ClientOK'
    BY <1>1 DEF Inv, ClientOK
  <1> QED
    BY <1>2, <1>4, <1>5, <1>6 DEF Inv

LEMMA WorkerTakesInv ==
    ASSUME Inv, NEW kind \in {"workflow", "activity"}, NEW flow \in Flows, WorkerTakes(kind, flow)
    PROVE  Inv'
  <1> DEFINE field == IF kind = "workflow" THEN "task" ELSE "activity"
             queue == IF kind = "activity" /\ flow = "CrossQueueWorkflow"
                      THEN "forbidden-queue" ELSE TaskQueue(dep.c)
  <1>1. /\ worker.pc = "running" /\ UNCHANGED <<dep, client>>
        /\ runs[flow].state = "running" /\ runs[flow][field] = "scheduled"
        /\ runs' = [runs EXCEPT ![flow][field] = "started"]
        /\ worker' = [worker EXCEPT !.holds = @ \cup {<<kind, flow>>}]
        /\ queue = TaskQueue(dep.w) /\ Namespace(dep.c) = Namespace(dep.w)
        /\ Permitted(IF kind = "workflow" THEN "PollWorkflowTaskQueue"
                                          ELSE "PollActivityTaskQueue")
    BY DEF WorkerTakes
  <1>2. /\ worker'.holds = worker.holds \cup {<<kind, flow>>} /\ worker'.holds \in SUBSET Tasks
        /\ worker' = [worker EXCEPT !.holds = worker'.holds]
    BY <1>1 DEF Inv, TypeOK, Tasks
  <1>3. /\ runs' \in [Flows -> RunRecords]
        /\ \A f \in Flows :
              /\ runs'[f].state = runs[f].state
              /\ runs[f].activity # "none" => runs'[f].activity # "none"
              /\ runs'[f].activity # "none" => runs[f].activity # "none"
        /\ kind = "activity" => runs'[flow].activity # "none"
    <2>1. CASE kind = "workflow"
      BY <1>1, <2>1 DEF Inv, TypeOK, RunRecords
    <2>2. CASE kind = "activity"
      BY <1>1, <2>2 DEF Inv, TypeOK, RunRecords
    <2> QED
      BY <2>1, <2>2
  <1>4. Authorized
    <2>1. CASE dep.route = "proxy"
      <3>1. LET id == Authenticate(dep.auth, worker.credential)
            IN /\ worker.credential # Empty
               /\ id.valid /\ id.ns = Namespace(dep.w) /\ TaskQueue(dep.w) \in id.queues
        BY <1>1, <2>1, PollAuthorized
      <3>2. queue = TaskQueue(dep.c)
        BY <1>1, <3>1, NotForbidden
      <3> QED
        BY <1>1, <3>1, <3>2 DEF Authorized
    <2> QED
      BY <2>1 DEF Authorized
  <1>5. \A f \in Flows : <<"activity", f>> \in worker'.holds => runs'[f].activity # "none"
    BY <1>2, <1>3 DEF Inv, WorkerOK
  <1>6. dep.route = "proxy" => /\ runs'["CrossQueueWorkflow"].activity = "none"
                               /\ runs'["CrossQueueWorkflow"].state # "completed"
    BY <1>3 DEF Inv, ForbiddenOK, Flows
  <1> HIDE DEF field, queue
  <1> QED
    BY <1>1, <1>2, <1>3, <1>4, <1>5, <1>6, RunsInv

\* Dropping a task.
LEMMA DropFacts ==
    ASSUME Inv, NEW task, Drop(task)
    PROVE  /\ worker'.holds = worker.holds \ {task} /\ worker'.holds \in SUBSET Tasks
           /\ worker' = [worker EXCEPT !.holds = worker'.holds]
  BY DEF Drop, Inv, TypeOK

(* The proxy denies the commands of CrossQueueWorkflow's task: the worker    *)
(* that holds it was authorized for the client's queue, and not for the      *)
(* forbidden one.                                                            *)
LEMMA CrossDenied ==
    ASSUME Inv, dep.route = "proxy", <<"workflow", "CrossQueueWorkflow">> \in worker.holds
    PROVE  ~CommandsPermitted("CrossQueueWorkflow")
  <1>1. TaskQueue(dep.c) # "forbidden-queue"
    BY NotForbidden DEF Inv, WorkerOK, Authorized
  <1>2. Commands("CrossQueueWorkflow") =
           <<[type |-> "ScheduleActivityTask", ns |-> Empty, queue |-> "forbidden-queue"]>>
    BY DEF Commands, Inv, ForbiddenOK
  <1>3. ~ValidateCommands(Commands("CrossQueueWorkflow"), WorkerIdentity.ns, TaskQueue(dep.c))
    <2> DEFINE cmd == [type |-> "ScheduleActivityTask", ns |-> Empty, queue |-> "forbidden-queue"]
    <2>1. Len(<<cmd>>) = 1 /\ <<cmd>>[1] = cmd
      OBVIOUS
    <2>2. 1 \in 1..Len(<<cmd>>)
      BY <2>1
    <2>3. cmd.type = "ScheduleActivityTask" /\ cmd.queue = "forbidden-queue"
      OBVIOUS
    <2> HIDE DEF cmd
    <2>4. ~ValidateCommands(<<cmd>>, WorkerIdentity.ns, TaskQueue(dep.c))
      BY <1>1, <2>1, <2>2, <2>3 DEF ValidateCommands
    <2> QED
      BY <1>2, <2>4 DEF cmd
  <1> QED
    BY <1>3 DEF CommandsPermitted

LEMMA WorkerCompletesTaskInv ==
    ASSUME Inv, NEW flow \in Flows, WorkerCompletesTask(flow)
    PROVE  Inv'
  <1>1. /\ <<"workflow", flow>> \in worker.holds /\ Drop(<<"workflow", flow>>)
        /\ UNCHANGED <<dep, client>>
        /\ worker.pc = "running" /\ Authorized
    BY DEF WorkerCompletesTask, Inv, WorkerOK
  <1>2. /\ worker'.holds = worker.holds \ {<<"workflow", flow>>} /\ worker'.holds \in SUBSET Tasks
        /\ worker' = [worker EXCEPT !.holds = worker'.holds]
    BY <1>1, DropFacts
  <1>3. CASE runs' = runs
    BY <1>1, <1>2, <1>3, RunsInv DEF Inv, TypeOK, WorkerOK, ForbiddenOK
  <1>4. CASE runs' # runs
    <2>1. /\ runs[flow].state = "running" /\ CommandsPermitted(flow)
          /\ \/ runs' = [runs EXCEPT ![flow].state = "completed", ![flow].task = "none"]
             \/ runs' = [runs EXCEPT ![flow].activity = "scheduled", ![flow].task = "none"]
      BY <1>4 DEF WorkerCompletesTask
    <2>2. /\ runs' \in [Flows -> RunRecords]
          /\ \A f \in Flows :
                /\ runs[f].activity # "none" => runs'[f].activity # "none"
                /\ \/ runs'[f].state = runs[f].state
                   \/ runs[f].state = "running" /\ runs'[f].state = "completed"
                /\ f # flow => runs'[f] = runs[f]
      <3>1. CASE runs' = [runs EXCEPT ![flow].state = "completed", ![flow].task = "none"]
        <4>1. /\ runs[flow] \in RunRecords /\ runs'[flow].activity = runs[flow].activity
              /\ runs'[flow].state = "completed" /\ runs'[flow] \in RunRecords
          BY <3>1 DEF Inv, TypeOK, RunRecords
        <4>2. \A f \in Flows : f # flow => runs'[f] = runs[f]
          BY <3>1 DEF Inv, TypeOK
        <4>3. runs' \in [Flows -> RunRecords]
          BY <3>1, <4>1, <4>2 DEF Inv, TypeOK
        <4> QED
          BY <2>1, <4>1, <4>2, <4>3
      <3>2. CASE runs' = [runs EXCEPT ![flow].activity = "scheduled", ![flow].task = "none"]
        BY <2>1, <3>2 DEF Inv, TypeOK, RunRecords
      <3> QED
        BY <2>1, <3>1, <3>2
    <2>3. dep.route = "proxy" => flow # "CrossQueueWorkflow"
      BY <1>1, <2>1, CrossDenied
    <2>4. dep.route = "proxy" => /\ runs'["CrossQueueWorkflow"].activity = "none"
                                 /\ runs'["CrossQueueWorkflow"].state # "completed"
      BY <2>2, <2>3 DEF Inv, ForbiddenOK, Flows
    <2>5. \A f \in Flows : <<"activity", f>> \in worker'.holds => runs'[f].activity # "none"
      BY <1>2, <2>2 DEF Inv, WorkerOK
    <2> QED
      BY <1>1, <1>2, <2>2, <2>4, <2>5, RunsInv
  <1> QED
    BY <1>3, <1>4

LEMMA WorkerCompletesActivityInv ==
    ASSUME Inv, NEW flow \in Flows, WorkerCompletesActivity(flow)
    PROVE  Inv'
  <1>1. /\ <<"activity", flow>> \in worker.holds /\ Drop(<<"activity", flow>>)
        /\ UNCHANGED <<dep, client>>
        /\ worker.pc = "running" /\ Authorized
    BY DEF WorkerCompletesActivity, Inv, WorkerOK
  <1>2. /\ worker'.holds = worker.holds \ {<<"activity", flow>>} /\ worker'.holds \in SUBSET Tasks
        /\ worker' = [worker EXCEPT !.holds = worker'.holds]
    BY <1>1, DropFacts
  <1>3. CASE runs' = runs
    BY <1>1, <1>2, <1>3, RunsInv DEF Inv, TypeOK, WorkerOK, ForbiddenOK
  <1>4. CASE runs' # runs
    <2>1. runs' = [runs EXCEPT ![flow].activity = "done", ![flow].task = "scheduled"]
      BY <1>4 DEF WorkerCompletesActivity
    <2>2. /\ runs' \in [Flows -> RunRecords]
          /\ \A f \in Flows :
                /\ runs[f].activity # "none" => runs'[f].activity # "none"
                /\ runs'[f].state = runs[f].state
                /\ f # flow => runs'[f] = runs[f]
      BY <2>1 DEF Inv, TypeOK, RunRecords
    <2>3. dep.route = "proxy" => flow # "CrossQueueWorkflow"
      BY <1>1 DEF Inv, WorkerOK, ForbiddenOK
    <2>4. dep.route = "proxy" => /\ runs'["CrossQueueWorkflow"].activity = "none"
                                 /\ runs'["CrossQueueWorkflow"].state # "completed"
      BY <2>2, <2>3 DEF Inv, ForbiddenOK, Flows
    <2>5. \A f \in Flows : <<"activity", f>> \in worker'.holds => runs'[f].activity # "none"
      BY <1>2, <2>2 DEF Inv, WorkerOK
    <2> QED
      BY <1>1, <1>2, <2>2, <2>4, <2>5, RunsInv
  <1> QED
    BY <1>3, <1>4

LEMMA TaskTimesOutInv ==
    ASSUME Inv, NEW kind \in {"workflow", "activity"}, NEW flow \in Flows, TaskTimesOut(kind, flow)
    PROVE  Inv'
  <1> DEFINE field == IF kind = "workflow" THEN "task" ELSE "activity"
  <1>1. /\ Drop(<<kind, flow>>) /\ UNCHANGED <<dep, client>>
        /\ runs[flow].state = "running" /\ runs[flow][field] = "started"
        /\ runs' = [runs EXCEPT ![flow][field] = "scheduled"]
    BY DEF TaskTimesOut
  <1>2. /\ worker'.holds = worker.holds \ {<<kind, flow>>} /\ worker'.holds \in SUBSET Tasks
        /\ worker' = [worker EXCEPT !.holds = worker'.holds]
    BY <1>1, DropFacts
  <1>3. /\ runs' \in [Flows -> RunRecords]
        /\ \A f \in Flows :
              /\ runs'[f].state = runs[f].state
              /\ runs[f].activity # "none" => runs'[f].activity # "none"
              /\ runs'[f].activity # "none" => runs[f].activity # "none"
    <2>1. CASE kind = "workflow"
      BY <1>1, <2>1 DEF Inv, TypeOK, RunRecords
    <2>2. CASE kind = "activity"
      BY <1>1, <2>2 DEF Inv, TypeOK, RunRecords
    <2> QED
      BY <2>1, <2>2
  <1>4. dep.route = "proxy" => /\ runs'["CrossQueueWorkflow"].activity = "none"
                               /\ runs'["CrossQueueWorkflow"].state # "completed"
    BY <1>3 DEF Inv, ForbiddenOK, Flows
  <1>5. /\ worker'.holds # {} => worker.pc = "running" /\ Authorized
        /\ \A f \in Flows : <<"activity", f>> \in worker'.holds => runs'[f].activity # "none"
    BY <1>2, <1>3 DEF Inv, WorkerOK
  <1> HIDE DEF field
  <1> QED
    BY <1>1, <1>2, <1>3, <1>4, <1>5, RunsInv
-----------------------------------------------------------------------------
(* What a step of the client leaves alone: it schedules no activity and      *)
(* completes no run.                                                         *)
LEMMA ClientStepInv ==
    ASSUME Inv, UNCHANGED <<dep, worker>>, runs' \in [Flows -> RunRecords],
           client' = [pc |-> client'.pc, saw |-> client'.saw, failed |-> client'.failed,
                      expired |-> client'.expired],
           \A f \in Flows : /\ runs'[f].activity = runs[f].activity
                            /\ runs'[f].state = "completed" => runs[f].state = "completed",
           client'.saw => client.saw \/ runs["CrossQueueWorkflow"].activity # "none",
           client'.pc = "alarm" => client'.saw,
           ClientOK'
    PROVE  Inv'
  <1>1. "EchoWorkflow" \in Flows /\ "CrossQueueWorkflow" \in Flows
    BY DEF Flows
  <1>2. TypeOK'
    BY DEF Inv, TypeOK
  <1>3. WorkerOK'
    BY <1>1 DEF Inv, WorkerOK, Authorized
  <1>4. ForbiddenOK'
    BY <1>1 DEF Inv, ForbiddenOK
  <1> QED
    BY <1>2, <1>3, <1>4 DEF Inv

\* Steps that change the client only.
LEMMA ClientMovesInv ==
    ASSUME Inv,
           \/ ClientConnects \/ ClientGetsResult \/ ClientWakes \/ ClientReads
           \/ ClientConcludes \/ ClientFails \/ DeadlinePasses
    PROVE  Inv'
  <1>1. /\ UNCHANGED <<dep, worker, runs>>
    BY DEF ClientConnects, ClientGetsResult, ClientWakes, ClientReads, ClientConcludes,
       ClientFails, DeadlinePasses
  <1>2. client' = [pc |-> client'.pc, saw |-> client'.saw, failed |-> client'.failed,
                   expired |-> client'.expired]
    BY DEF ClientConnects, ClientGetsResult, ClientWakes, ClientReads, ClientConcludes,
       ClientFails, DeadlinePasses, ClientGoes, Inv, TypeOK
  <1>3. /\ client'.saw => client.saw \/ runs["CrossQueueWorkflow"].activity # "none"
        /\ client'.pc = "alarm" => client'.saw
    <2>1. CASE ClientReads
      BY <2>1 DEF ClientReads, Inv, TypeOK
    <2>2. CASE ClientConcludes
      BY <2>2 DEF ClientConcludes, ClientGoes, Inv, TypeOK
    <2>3. CASE ClientConnects \/ ClientGetsResult \/ ClientWakes \/ ClientFails
      BY <2>3 DEF ClientConnects, ClientGetsResult, ClientWakes, ClientFails, ClientGoes, Inv,
         TypeOK
    <2>4. CASE DeadlinePasses
      BY <2>4 DEF DeadlinePasses, Ended, Inv, TypeOK
    <2> QED
      BY <2>1, <2>2, <2>3, <2>4
  <1>4. ClientOK'
    <2>1. CASE ClientConnects
      BY <1>1, <2>1 DEF ClientConnects, ClientGoes, Inv, TypeOK, ClientOK
    <2>2. CASE ClientGetsResult \/ ClientWakes
      BY <1>1, <2>2 DEF ClientGetsResult, ClientWakes, ClientGoes, Inv, TypeOK, ClientOK
    <2>3. CASE ClientReads \/ ClientConcludes
      BY <1>1, <2>3 DEF ClientReads, ClientConcludes, ClientGoes, Inv, TypeOK, ClientOK
    <2>4. CASE ClientFails
      BY <1>1, <2>4 DEF ClientFails, Inv, TypeOK, ClientOK
    <2>5. CASE DeadlinePasses
      <3>1. client'.pc = client.pc /\ client'.failed = client.failed
        BY <2>5 DEF DeadlinePasses, Inv, TypeOK
      <3> QED
        BY <1>1, <3>1 DEF Inv, ClientOK
    <2> QED
      BY <2>1, <2>2, <2>3, <2>4, <2>5
  <1> QED
    BY <1>1, <1>2, <1>3, <1>4, ClientStepInv DEF Inv, TypeOK

LEMMA ClientStartsInv ==
    ASSUME Inv, NEW flow \in Flows, ClientStarts(flow) \/ ClientStartLost(flow)
    PROVE  Inv'
  <1>1. /\ client.pc = flow /\ runs' = Started(flow) /\ UNCHANGED <<dep, worker>>
    BY DEF ClientStarts, ClientStartLost
  <1>2. /\ client' = [pc |-> client'.pc, saw |-> client'.saw, failed |-> client'.failed,
                      expired |-> client'.expired]
        /\ client'.saw = client.saw
        /\ \/ client'.pc = IF flow = "EchoWorkflow" THEN "await" ELSE "sleep"
           \/ client'.pc = "fatal" /\ client'.failed
    BY DEF ClientStarts, ClientStartLost, ClientGoes, Inv, TypeOK
  <1>3. /\ runs'[flow].state = "running" /\ runs'[flow].activity = runs[flow].activity
        /\ runs'[flow] \in RunRecords
        /\ \A f \in Flows : f # flow => runs'[f] = runs[f]
    BY <1>1 DEF Started, Inv, TypeOK, RunRecords
  <1>4. runs' \in [Flows -> RunRecords]
    BY <1>1, <1>3 DEF Started, Inv, TypeOK
  <1>5. ClientOK'
    <2>1. CASE flow = "EchoWorkflow"
      BY <1>1, <1>2, <1>3, <2>1 DEF Inv, ClientOK, Flows
    <2>2. CASE flow = "CrossQueueWorkflow"
      BY <1>1, <1>2, <1>3, <2>2 DEF Inv, ClientOK, Flows
    <2> QED
      BY <2>1, <2>2 DEF Flows
  <1> QED
    BY <1>1, <1>2, <1>3, <1>4, <1>5, ClientStepInv

LEMMA ClientTerminatesInv ==
    ASSUME Inv, ClientTerminates \/ TerminateFails
    PROVE  Inv'
  <1>1. /\ client.pc = "terminate" /\ UNCHANGED <<dep, worker>>
        /\ runs' = Terminated \/ (runs' = runs /\ client'.failed)
    BY DEF ClientTerminates, TerminateFails, Inv, TypeOK
  <1>2. /\ client' = [pc |-> client'.pc, saw |-> client'.saw, failed |-> client'.failed,
                      expired |-> client'.expired]
        /\ client'.saw = client.saw /\ client'.pc = "conclude"
    BY DEF ClientTerminates, TerminateFails, ClientGoes, Inv, TypeOK
  <1>3. ASSUME runs' = Terminated
        PROVE  /\ runs'["CrossQueueWorkflow"].state = "terminated"
               /\ runs'["CrossQueueWorkflow"].activity = runs["CrossQueueWorkflow"].activity
               /\ runs'["EchoWorkflow"] = runs["EchoWorkflow"]
               /\ runs' \in [Flows -> RunRecords]
    BY <1>3 DEF Terminated, Inv, TypeOK, RunRecords, Flows
  <1>4. ClientOK'
    BY <1>1, <1>2, <1>3 DEF Inv, ClientOK
  <1> QED
    BY <1>1, <1>2, <1>3, <1>4, ClientStepInv DEF Inv, TypeOK, Flows
-----------------------------------------------------------------------------
LEMMA StepInv == Inv /\ [Next]_vars => Inv'
  <1> SUFFICES ASSUME Inv, [Next]_vars PROVE Inv'
    OBVIOUS
  <1>1. CASE UNCHANGED vars
    BY <1>1 DEF vars, Inv, TypeOK, WorkerOK, Authorized, ForbiddenOK, ClientOK
  <1>2. CASE WorkerStep
    BY <1>2, WorkerStartsInv, WorkerStopsInv, WorkerTakesInv, WorkerCompletesTaskInv,
       WorkerCompletesActivityInv DEF WorkerStep
  <1>3. CASE ClientStep \/ DeadlinePasses \/ ClientFails \/ TerminateFails
    BY <1>3, ClientMovesInv, ClientStartsInv, ClientTerminatesInv DEF ClientStep
  <1> QED
    BY <1>1, <1>2, <1>3, ClientStartsInv, TaskTimesOutInv DEF Next

(* The inductive invariant of the check, over all deployments.               *)
THEOREM Invariance == Spec => []Inv
  BY InitInv, StepInv, PTL DEF Spec

(* ForbiddenNeverScheduled: no worker behind the proxy gets the activity of  *)
(* CrossQueueWorkflow scheduled, and the client raises no false alarm.       *)
THEOREM NeverScheduled == Spec => []ForbiddenNeverScheduled
  BY Invariance, InvImplies, PTL

(* ResultVouchesForIdentity: a result of EchoWorkflow through the proxy is   *)
(* the work of an identity that was granted the queue.                       *)
THEOREM ResultVouches == Spec => []ResultVouchesForIdentity
  BY Invariance, InvImplies, PTL

(* ConnectsAsAsked: neither implementation of the TLS settings weakens a     *)
(* connection.                                                               *)
THEOREM ConnectionsKept == Spec => []ConnectsAsAsked
  BY Invariance, InvImplies, PTL

(* CleansUp: a client whose calls succeed leaves no run behind.              *)
THEOREM NothingLeftRunning == Spec => []CleansUp
  BY Invariance, InvImplies, PTL
=============================================================================
