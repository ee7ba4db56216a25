----------------------------- MODULE Supervisor -----------------------------
(***************************************************************************)
(* examples/dynamic-worker-ts: run-workers.ts with child-supervisor.ts, one *)
(* worker process per task queue under one Node.js process.                 *)
(*                                                                         *)
(* The supervisor is single-threaded: a callback is one step.  Between two  *)
(* callbacks children exit on their own, fail to start, react to a signal,  *)
(* and signals arrive, and the callbacks of all that run in any order.      *)
(* From Node (external): a child that cannot be started is reported by      *)
(* 'error' and then 'close', one that ended by 'close'; spawn may throw; a  *)
(* signal nobody listens for ends the process.                              *)
(***************************************************************************)
EXTENDS FiniteSets, Naturals

CONSTANTS Children,  \* the child specs
          None

Signals == {"SIGINT", "SIGTERM"}

\* How a child ends: it could not be started, ended untold, or was told to.
Fates == {"unstarted", "crashed", "told"}

ASSUME ChildrenAssumption == Children # {} /\ None \notin Children \cup Signals \cup Fates

VARIABLES
    proc,        \* proc[c]: the process of child c and the event it has pending
    children,    \* the children map: who has not been closed
    stopping,
    failure,     \* the child whose failure is reported, or None
    completion,  \* the promise
    told,        \* told[c]: the signal c was sent, or None
    main,        \* runWorkers
    armed,       \* signals with a process.once listener
    exitCode,    \* process.exitCode
    process,     \* the supervisor's own process
    fate,        \* history: fate[c]: how child c came to its end, or None
    openAtSignal \* history: the children map when the first signal came

vars == <<proc, children, stopping, failure, completion, told, main, armed,
          exitCode, process, fate, openAtSignal>>
history == <<fate, openAtSignal>>
-----------------------------------------------------------------------------
\* "failed": 'error' is pending; "dead": 'close' is pending.
ProcStates == {"unspawned", "running", "failed", "dead", "closed"}

Init ==
    /\ proc = [c \in Children |-> "unspawned"]
    /\ children = {}
    /\ stopping = FALSE
    /\ failure = None
    /\ completion = "pending"
    /\ told = [c \in Children |-> None]
    /\ main = "starting"
    /\ armed = {}
    /\ exitCode = 0
    /\ process = "up"
    /\ fate = [c \in Children |-> None]
    /\ openAtSignal = {}

Up == process = "up"

\* Callbacks run once startChildSupervisor and its caller are through.
EventLoop == Up /\ main # "starting"

\* child.kill: the signal reaches a process that is there.
Kill(S, signal) ==
    told' = [c \in Children |-> IF c \in S /\ proc[c] = "running" /\ told[c] = None
                                THEN signal ELSE told[c]]

\* fail: if (failure === undefined) failure = error.
FirstFailure(c) == IF failure = None THEN c ELSE failure

\* Mutant of KillOthers: the others are left alone.
KillNobody(c, rest) == told' = told

\* fail's loop: SIGTERM to everyone but the child that failed.
KillOthers(c, rest) == Kill(rest \ {c}, "SIGTERM")

\* Mutant of Fail: a failure while stopping is not kept.
FailUnlessStopping(c, rest) ==
    /\ failure' = IF stopping THEN failure ELSE FirstFailure(c)
    /\ stopping' = TRUE
    /\ IF stopping THEN UNCHANGED told ELSE KillOthers(c, rest)

\* fail, called for child c with the given children left.
Fail(c, rest) ==
    /\ failure' = FirstFailure(c)
    /\ stopping' = TRUE
    /\ IF stopping THEN UNCHANGED told ELSE KillOthers(c, rest)

\* Mutant of Settled: the first close settles the promise.
SettledEarly(stop, rest, err) ==
    IF completion = "pending" /\ stop
    THEN IF err = None THEN "resolved" ELSE "rejected"
    ELSE completion

\* finishIfStopped; a promise settles once.
Settled(stop, rest, err) ==
    IF completion = "pending" /\ stop /\ rest = {}
    THEN IF err = None THEN "resolved" ELSE "rejected"
    ELSE completion
-----------------------------------------------------------------------------
\* The loop over the specs: spawn one child and listen to it.
Spawn(c) ==
    /\ Up /\ main = "starting"
    /\ proc[c] = "unspawned"
    /\ \/ proc' = [proc EXCEPT ![c] = "running"] /\ UNCHANGED fate
       \/ /\ proc' = [proc EXCEPT ![c] = "failed"]
          /\ fate' = [fate EXCEPT ![c] = "unstarted"]
    /\ children' = children \cup {c}
    /\ UNCHANGED <<stopping, failure, completion, told, main, armed, exitCode, process,
                   openAtSignal>>

(* spawn throws: runWorkers rejects before it listens for signals.  The      *)
(* children started so far keep their listeners.                             *)
SpawnThrows(c) ==
    /\ Up /\ main = "starting"
    /\ proc[c] = "unspawned"
    /\ main' = "threw"
    /\ exitCode' = 1
    /\ UNCHANGED <<proc, children, stopping, failure, completion, told, armed, process, history>>

\* All children are spawned; runWorkers listens for signals and waits.
Started ==
    /\ Up /\ main = "starting"
    /\ \A c \in Children : proc[c] # "unspawned"
    /\ main' = "waiting"
    /\ armed' = Signals
    /\ UNCHANGED <<proc, children, stopping, failure, completion, told, exitCode, process, history>>

\* The 'error' callback; 'close' follows.
OnError(c) ==
    /\ EventLoop
    /\ proc[c] = "failed"
    /\ proc' = [proc EXCEPT ![c] = "dead"]
    /\ Fail(c, children)
    /\ UNCHANGED <<children, completion, main, armed, exitCode, process, history>>

\* The 'close' callback.
OnClose(c) ==
    /\ EventLoop
    /\ proc[c] = "dead"
    /\ proc' = [proc EXCEPT ![c] = "closed"]
    /\ children' = children \ {c}
    /\ IF stopping THEN UNCHANGED <<stopping, failure, told>> ELSE Fail(c, children')
    /\ completion' = Settled(stopping', children', failure')
    /\ UNCHANGED <<main, armed, exitCode, process, history>>

\* 128 and the number of the signal.
ExitCodeOf(signal) == IF signal = "SIGINT" THEN 130 ELSE 143

\* The listener of a signal: the exit code, then shutdown(signal).
OnSignal(signal) ==
    /\ EventLoop
    /\ signal \in armed
    /\ armed' = armed \ {signal}
    /\ exitCode' = ExitCodeOf(signal)
    /\ IF stopping THEN UNCHANGED <<stopping, told, completion>>
       ELSE /\ stopping' = TRUE
            /\ Kill(children, signal)
            /\ completion' = Settled(TRUE, children, failure)
    /\ openAtSignal' = IF armed = Signals THEN children ELSE openAtSignal
    /\ UNCHANGED <<proc, children, failure, main, process, fate>>

\* A signal without a listener, or a second one of its kind.
Killed(signal) ==
    /\ Up
    /\ signal \notin armed
    /\ process' = "killed"
    /\ UNCHANGED <<proc, children, stopping, failure, completion, told, main, armed,
                   exitCode, history>>

\* Mutant of Resume: the rejection is only printed.
ResumeUnmarked ==
    /\ EventLoop
    /\ main = "waiting" /\ completion # "pending"
    /\ main' = "done"
    /\ UNCHANGED <<proc, children, stopping, failure, completion, told, armed, exitCode,
                   process, history>>

\* await supervisor.completion is over; a rejection is printed and marked.
Resume ==
    /\ EventLoop
    /\ main = "waiting" /\ completion # "pending"
    /\ main' = "done"
    /\ exitCode' = IF completion = "rejected" THEN 1 ELSE exitCode
    /\ UNCHANGED <<proc, children, stopping, failure, completion, told, armed, process, history>>

(* Nothing is left to wait for.  After a throw nobody handles the promise:   *)
(* its rejection ends the process.                                           *)
Ends ==
    /\ EventLoop
    /\ main = "done" \/ (main = "threw" /\ (children = {} \/ completion = "rejected"))
    /\ process' = "ended"
    /\ UNCHANGED <<proc, children, stopping, failure, completion, told, main, armed,
                   exitCode, history>>

\* A child ends: on its own, or because it was told to.
ChildExits(c) ==
    /\ proc[c] = "running"
    /\ proc' = [proc EXCEPT ![c] = "dead"]
    /\ fate' = [fate EXCEPT ![c] = IF told[c] = None THEN "crashed" ELSE "told"]
    /\ UNCHANGED <<children, stopping, failure, completion, told, main, armed, exitCode,
                   process, openAtSignal>>

\* A child that was sent a signal shuts its worker down and ends.
ChildObeys(c) == told[c] # None /\ ChildExits(c)

\* Nothing more can happen: the process is gone and so are its children.
Over ==
    /\ ~Up
    /\ \A c \in Children : proc[c] # "running"
    /\ UNCHANGED vars

Callback ==
    \/ \E c \in Children : OnError(c) \/ OnClose(c)
    \/ Resume \/ Ends

Next ==
    \/ \E c \in Children : Spawn(c) \/ SpawnThrows(c) \/ ChildExits(c)
    \/ \E signal \in Signals : OnSignal(signal) \/ Killed(signal)
    \/ Started \/ Callback \/ Over

Spec == Init /\ [][Next]_vars

(* Node runs pending callbacks, and a worker that is sent SIGINT or SIGTERM  *)
(* shuts down (the SDK's handlers).  No child need exit on its own.          *)
FairSpec ==
    /\ Spec
    /\ WF_vars(Started) /\ WF_vars(Callback)
    /\ \A c \in Children : WF_vars(ChildObeys(c))
-----------------------------------------------------------------------------
(* The promise is settled only once no child is left, in whatever order      *)
(* their errors and closes, a signal and a spawn that threw came; so the     *)
(* process never ends by itself and leaves a worker behind.                  *)
SettledAfterLastChild ==
    /\ completion # "pending" =>
          stopping /\ \A c \in Children : proc[c] \in {"unspawned", "closed"}
    /\ process = "ended" => \A c \in Children : proc[c] \in {"unspawned", "closed"}

(* Once the supervisor is stopping, every child still running has been sent  *)
(* a signal: by shutdown or by the first failure, never by neither.          *)
EveryoneTold ==
    stopping => \A c \in Children : proc[c] = "running" => told[c] # None

(* The promise is rejected with the failure of a child that did not start or *)
(* ended before anyone told it to, never for a child that was told.  It is   *)
(* resolved only if every child started, and a child that ended untold was   *)
(* still to be closed when the first signal came: a failure that is pending  *)
(* at that time is taken for part of the shutdown (the close finds stopping  *)
(* set), an 'error' is reported even then.                                   *)
RejectedForCause ==
    /\ completion = "rejected" => fate[failure] \in {"unstarted", "crashed"}
    /\ completion = "resolved" => \A c \in Children :
          /\ fate[c] # "unstarted"
          /\ fate[c] = "crashed" => c \in openAtSignal

(* A supervisor that ends by itself never exits with 0: a failure shows as   *)
(* 1, or as the code of a signal that came with it.                          *)
NeverSucceeds == process = "ended" => exitCode # 0

(* Once the supervisor is stopping it ends: a failure of one worker takes    *)
(* the others down, and a signal is not lost.                                *)
StopsInTheEnd == stopping ~> process # "up"
=============================================================================
