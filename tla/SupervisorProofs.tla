-------------------------- MODULE SupervisorProofs --------------------------
(***************************************************************************)
(* The safety properties of the child supervisor, for any set of children.  *)
(*                                                                         *)
(* None of them is inductive.  What ties them together is that the children *)
(* map holds exactly the processes whose close has not been handled, that   *)
(* stopping is set by a failure or by a signal that leaves an exit code,    *)
(* that nobody is told and nobody closed before, and that a stop without a  *)
(* failure is the first signal's, which found every child in the map.       *)
(***************************************************************************)
EXTENDS Supervisor, TLAPS

\* A process that is still to be closed.
Live == {"running", "failed", "dead"}

TypeOK ==
    /\ proc \in [Children -> ProcStates]
    /\ children \in SUBSET Children
    /\ stopping \in BOOLEAN
    /\ failure \in Children \cup {None}
    /\ completion \in {"pending", "resolved", "rejected"}
    /\ told \in [Children -> Signals \cup {None}]
    /\ main \in {"starting", "threw", "waiting", "done"}
    /\ armed \in SUBSET Signals
    /\ exitCode \in Nat
    /\ process \in {"up", "killed", "ended"}
    /\ fate \in [Children -> Fates \cup {None}]

\* The children map, and what holds before the event loop runs.
MapOK ==
    /\ \A c \in Children : c \in children <=> proc[c] \in Live
    /\ main = "starting" => ~stopping

\* How a child can have come to its end, and what is kept of it.
FateOK ==
    /\ \A c \in Children : fate[c] # None => proc[c] \notin {"unspawned", "running"}
    /\ \A c \in Children : proc[c] = "failed" => fate[c] = "unstarted"
    /\ ~stopping => \A c \in Children :
          told[c] = None /\ proc[c] # "closed" /\ fate[c] # "told"
    /\ \A c \in Children : proc[c] = "dead" => fate[c] # None

\* The failure that is kept; without one it was the first signal that stopped all.
FailureOK ==
    /\ failure # None => stopping /\ fate[failure] \in {"unstarted", "crashed"}
    /\ failure = None => \A c \in Children : fate[c] = "unstarted" => proc[c] = "failed"
    /\ ~stopping => armed \in {{}, Signals}
    /\ stopping /\ failure = None =>
          /\ armed # Signals
          /\ \A c \in Children : proc[c] # "unspawned" => c \in openAtSignal

\* The promise is settled once, by the last close or the signal after it.
CompletionOK ==
    completion # "pending" =>
        /\ stopping /\ children = {}
        /\ completion = "rejected" <=> failure # None

\* Whoever stops the children, or gives up, leaves an exit code.
ExitOK ==
    /\ stopping /\ failure = None => exitCode # 0
    /\ main = "threw" => exitCode # 0
    /\ main = "done" => completion # "pending" /\ exitCode # 0
    /\ process = "ended" => main \in {"done", "threw"} /\ children = {}

Inv == TypeOK /\ MapOK /\ FateOK /\ FailureOK /\ CompletionOK /\ ExitOK /\ EveryoneTold

(* The four checked properties follow from the invariant. *)
LEMMA InvImplies ==
    ASSUME Inv
    PROVE  SettledAfterLastChild /\ EveryoneTold /\ RejectedForCause /\ NeverSucceeds
  <1>1. children = {} => \A c \in Children : proc[c] \in {"unspawned", "closed"}
    BY DEF Inv, TypeOK, MapOK, Live, ProcStates
  <1>2. SettledAfterLastChild
    BY <1>1 DEF Inv, CompletionOK, ExitOK, SettledAfterLastChild
  <1>3. RejectedForCause
    BY <1>1, ChildrenAssumption
       DEF Inv, TypeOK, CompletionOK, FateOK, FailureOK, RejectedForCause, Fates
  <1>4. NeverSucceeds
    BY DEF Inv, ExitOK, NeverSucceeds
  <1> QED
    BY <1>2, <1>3, <1>4 DEF Inv

LEMMA InitInv == Init => Inv
  <1> SUFFICES ASSUME Init PROVE Inv
    OBVIOUS
  <1>1. TypeOK
    BY DEF Init, TypeOK, ProcStates
  <1>2. MapOK /\ FateOK /\ FailureOK /\ CompletionOK /\ ExitOK /\ EveryoneTold
    BY ChildrenAssumption
       DEF Init, MapOK, FateOK, FailureOK, CompletionOK, ExitOK, EveryoneTold, Live, Fates
  <1> QED
    BY <1>1, <1>2 DEF Inv
-----------------------------------------------------------------------------
\* A signal to all children in S leaves none of them running untold.
LEMMA KillTells ==
    ASSUME TypeOK, NEW S, NEW signal \in Signals, Kill(S, signal)
    PROVE  /\ told' \in [Children -> Signals \cup {None}]
           /\ \A c \in S \cap Children : proc[c] = "running" => told'[c] # None
  BY ChildrenAssumption DEF TypeOK, Kill, Signals

\* What fail leaves behind, for a child that is not running any more.
LEMMA FailFacts ==
    ASSUME Inv, NEW c \in Children, NEW rest \in SUBSET Children, proc[c] # "running",
           children \ {c} \subseteq rest, Fail(c, rest)
    PROVE  /\ stopping' = TRUE
           /\ failure' = FirstFailure(c) /\ failure' \in Children
           /\ told' \in [Children -> Signals \cup {None}]
           /\ \A d \in Children : proc[d] = "running" => told'[d] # None
  <1>1. failure' = FirstFailure(c) /\ failure' \in Children /\ stopping' = TRUE
    BY ChildrenAssumption DEF Inv, TypeOK, Fail, FirstFailure
  <1>2. CASE stopping
    BY <1>1, <1>2 DEF Inv, TypeOK, EveryoneTold, Fail
  <1>3. CASE ~stopping
    <2>1. Kill(rest \ {c}, "SIGTERM")
      BY <1>3 DEF Fail, KillOthers
    <2>2. \A d \in Children : proc[d] = "running" => d \in rest \ {c}
      BY DEF Inv, MapOK, Live
    <2> QED
      BY <1>1, <2>1, <2>2, KillTells DEF Inv, Signals
  <1> QED
    BY <1>2, <1>3

LEMMA SpawnInv ==
    ASSUME Inv, NEW c \in Children, Spawn(c)
    PROVE  Inv'
  BY ChildrenAssumption, SMT DEF Spawn, Inv, TypeOK, MapOK, FateOK, FailureOK, CompletionOK, ExitOK, EveryoneTold, Up,
     ProcStates, Live, Fates

LEMMA SpawnThrowsInv ==
    ASSUME Inv, NEW c \in Children, SpawnThrows(c)
    PROVE  Inv'
  BY SMT DEF SpawnThrows, Inv, TypeOK, MapOK, FateOK, FailureOK, CompletionOK, ExitOK, EveryoneTold, Up,
     history

LEMMA StartedInv ==
    ASSUME Inv, Started
    PROVE  Inv'
  BY SMT DEF Started, Inv, TypeOK, MapOK, FateOK, FailureOK, CompletionOK, ExitOK, EveryoneTold, Up,
     history

LEMMA OnErrorInv ==
    ASSUME Inv, NEW c \in Children, OnError(c)
    PROVE  Inv'
  <1>1. /\ stopping' = TRUE
        /\ failure' = FirstFailure(c) /\ failure' \in Children
        /\ told' \in [Children -> Signals \cup {None}]
        /\ \A d \in Children : proc[d] = "running" => told'[d] # None
    BY FailFacts DEF OnError, Inv, TypeOK
  <1>2. /\ EventLoop /\ proc[c] = "failed" /\ proc' = [proc EXCEPT ![c] = "dead"]
        /\ UNCHANGED <<children, completion, main, armed, exitCode, process, fate, openAtSignal>>
    BY DEF OnError, history
  <1>3. TypeOK' /\ MapOK' /\ EveryoneTold'
    BY <1>1, <1>2 DEF Inv, TypeOK, MapOK, EveryoneTold, ProcStates, Live, EventLoop
  <1>4. FateOK' /\ FailureOK'
    BY <1>1, <1>2, ChildrenAssumption
       DEF Inv, TypeOK, FateOK, FailureOK, FirstFailure, Fates, ProcStates
  <1>5. CompletionOK'
    BY <1>1, <1>2 DEF Inv, MapOK, Live, CompletionOK
  <1>6. ExitOK'
    BY <1>1, <1>2, ChildrenAssumption DEF Inv, ExitOK
  <1> QED
    BY <1>3, <1>4, <1>5, <1>6 DEF Inv

LEMMA OnCloseInv ==
    ASSUME Inv, NEW c \in Children, OnClose(c)
    PROVE  Inv'
  <1>1. /\ EventLoop /\ proc[c] = "dead" /\ proc' = [proc EXCEPT ![c] = "closed"]
        /\ children' = children \ {c} /\ c \in children
        /\ completion' = Settled(stopping', children', failure')
        /\ UNCHANGED <<main, armed, exitCode, process, fate, openAtSignal>>
    BY DEF OnClose, Inv, MapOK, Live, history
  <1>2. /\ stopping' = TRUE
        /\ failure' \in Children \cup {None}
        /\ failure' = IF stopping THEN failure ELSE FirstFailure(c)
        /\ told' \in [Children -> Signals \cup {None}]
        /\ \A d \in Children : proc[d] = "running" => told'[d] # None
    <2>1. CASE stopping
      BY <2>1 DEF OnClose, Inv, TypeOK, EveryoneTold
    <2>2. CASE ~stopping
      <3>1. Fail(c, children')
        BY <2>2 DEF OnClose
      <3>2. children' \in SUBSET Children /\ children \ {c} \subseteq children'
        BY <1>1 DEF Inv, TypeOK
      <3> QED
        BY <1>1, <2>2, <3>1, <3>2, FailFacts
    <2> QED
      BY <2>1, <2>2
  <1>3. FateOK' /\ FailureOK'
    <2>1. ~stopping => fate[c] \in {"unstarted", "crashed"}
      BY <1>1 DEF Inv, TypeOK, FateOK, Fates
    <2>2. FateOK'
      BY <1>1, <1>2 DEF Inv, TypeOK, FateOK, ProcStates
    <2>3. FailureOK'
      BY <1>1, <1>2, <2>1, ChildrenAssumption DEF Inv, TypeOK, FateOK, FailureOK, FirstFailure
    <2> QED
      BY <2>2, <2>3
  <1>4. /\ completion = "pending"
        /\ completion' = IF children' = {} THEN IF failure' = None THEN "resolved" ELSE "rejected"
                         ELSE "pending"
    BY <1>1, <1>2 DEF Inv, CompletionOK, Settled
  <1>5. TypeOK'
    BY <1>1, <1>2, <1>4 DEF Inv, TypeOK, ProcStates
  <1>6. MapOK' /\ EveryoneTold'
    BY <1>1, <1>2 DEF Inv, TypeOK, MapOK, EveryoneTold, Live, EventLoop
  <1>7. CompletionOK'
    BY <1>2, <1>4 DEF CompletionOK
  <1>8. ExitOK'
    BY <1>1, <1>2, <1>4, ChildrenAssumption DEF Inv, ExitOK, FirstFailure, FailureOK, EventLoop, Up
  <1> QED
    BY <1>3, <1>5, <1>6, <1>7, <1>8 DEF Inv

LEMMA OnSignalInv ==
    ASSUME Inv, NEW signal \in Signals, OnSignal(signal)
    PROVE  Inv'
  <1>1. /\ EventLoop /\ armed' = armed \ {signal}
        /\ exitCode' = ExitCodeOf(signal) /\ exitCode' \in Nat /\ exitCode' # 0
        /\ UNCHANGED <<proc, children, failure, main, process, fate>>
        /\ openAtSignal' = IF armed = Signals THEN children ELSE openAtSignal
    BY DEF OnSignal, ExitCodeOf
  <1>2. /\ stopping' = TRUE
        /\ told' \in [Children -> Signals \cup {None}]
        /\ \A d \in Children : proc[d] = "running" => told'[d] # None
    <2>1. CASE stopping
      BY <2>1 DEF OnSignal, Inv, TypeOK, EveryoneTold
    <2>2. CASE ~stopping
      <3>1. stopping' = TRUE /\ Kill(children, signal)
        BY <2>2 DEF OnSignal
      <3>2. \A d \in Children : proc[d] = "running" => d \in children \cap Children
        BY DEF Inv, MapOK, Live
      <3> QED
        BY <3>1, <3>2, KillTells DEF Inv
    <2> QED
      BY <2>1, <2>2
  <1>3. \/ completion' = completion
        \/ children = {} /\ completion' = IF failure = None THEN "resolved" ELSE "rejected"
    BY DEF OnSignal, Settled
  <1>4. TypeOK' /\ MapOK' /\ EveryoneTold'
    BY <1>1, <1>2, <1>3, SMT DEF Inv, TypeOK, MapOK, EveryoneTold, EventLoop
  <1>5. FateOK' /\ CompletionOK'
    BY <1>1, <1>2, <1>3 DEF Inv, FateOK, CompletionOK
  <1>7. FailureOK'
    <2>1. signal \in armed /\ armed' # Signals
      BY <1>1 DEF OnSignal
    <2>2. ~stopping => armed = Signals
      BY <2>1 DEF Inv, FailureOK
    <2>3. ~stopping => \A c \in Children : proc[c] # "unspawned" => c \in children
      BY DEF Inv, TypeOK, MapOK, FateOK, ProcStates, Live
    <2> QED
      BY <1>1, <1>2, <2>1, <2>2, <2>3 DEF Inv, FailureOK
  <1>6. ExitOK'
    BY <1>1, <1>3 DEF Inv, ExitOK
  <1> QED
    BY <1>4, <1>5, <1>6, <1>7 DEF Inv

LEMMA ProcessInv ==
    ASSUME Inv, Resume \/ Ends \/ \E signal \in Signals : Killed(signal)
    PROVE  Inv'
  <1>1. CASE Resume
    BY <1>1, SMT DEF Resume, Inv, TypeOK, MapOK, FateOK, FailureOK, CompletionOK, ExitOK, EveryoneTold,
       EventLoop, Up, history
  <1>2. CASE Ends
    BY <1>2, SMT DEF Ends, Inv, TypeOK, MapOK, FateOK, FailureOK, CompletionOK, ExitOK, EveryoneTold,
       EventLoop, Up, history
  <1>3. CASE \E signal \in Signals : Killed(signal)
    BY <1>3, SMT DEF Killed, Inv, TypeOK, MapOK, FateOK, FailureOK, CompletionOK, ExitOK, EveryoneTold,
       Up, history
  <1> QED
    BY <1>1, <1>2, <1>3

LEMMA ChildExitsInv ==
    ASSUME Inv, NEW c \in Children, ChildExits(c)
    PROVE  Inv'
  BY ChildrenAssumption, SMT DEF Fates, ChildExits, Inv, TypeOK, MapOK, FateOK, FailureOK, CompletionOK, ExitOK, EveryoneTold,
     ProcStates, Live

LEMMA StepInv == Inv /\ [Next]_vars => Inv'
  <1> SUFFICES ASSUME Inv, [Next]_vars PROVE Inv'
    OBVIOUS
  <1>1. CASE UNCHANGED vars
    BY <1>1, SMT DEF vars, Inv, TypeOK, MapOK, FateOK, FailureOK, CompletionOK, ExitOK, EveryoneTold
  <1>2. CASE \E c \in Children : Spawn(c) \/ SpawnThrows(c) \/ ChildExits(c)
    BY <1>2, SpawnInv, SpawnThrowsInv, ChildExitsInv
  <1>3. CASE \E signal \in Signals : OnSignal(signal) \/ Killed(signal)
    BY <1>3, OnSignalInv, ProcessInv
  <1>4. CASE Callback
    BY <1>4, OnErrorInv, OnCloseInv, ProcessInv DEF Callback
  <1> QED
    BY <1>1, <1>2, <1>3, <1>4, StartedInv DEF Next, Over

(* The inductive invariant of the supervisor: the children map, the first    *)
(* failure, the promise and the exit code agree in every state.              *)
THEOREM Invariance == Spec => []Inv
  BY InitInv, StepInv, PTL DEF Spec

(* The promise of startChildSupervisor is settled, and the process ends by   *)
(* itself, only once every child has been closed.                            *)
THEOREM Settling == Spec => []SettledAfterLastChild
  BY Invariance, InvImplies, PTL

(* Shutdown or the first failure has sent every running child a signal.      *)
THEOREM Telling == Spec => []EveryoneTold
  BY Invariance, InvImplies, PTL

(* finishIfStopped rejects with the failure of a child nobody had told to    *)
(* end, and resolves only if every failure of that kind was still pending    *)
(* when the first signal came.                                               *)
THEOREM Rejecting == Spec => []RejectedForCause
  BY Invariance, InvImplies, PTL

(* run-workers never exits with 0 by itself.                                 *)
THEOREM Exiting == Spec => []NeverSucceeds
  BY Invariance, InvImplies, PTL
=============================================================================
