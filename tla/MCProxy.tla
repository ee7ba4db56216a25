------------------------------ MODULE MCProxy -------------------------------
(***************************************************************************)
(* Proxy with concrete identities and request sets.                         *)
(***************************************************************************)
EXTENDS Proxy, TLC

A == INSTANCE Auth

CONSTANTS n1, n2, q1, q2, kA, kB, kBad

TokenSymmetry     == Permutations(Tokens)
CallTokenSymmetry == TokenSymmetry \cup Permutations(Calls)
Symmetry          == CallTokenSymmetry \cup Permutations(Instances)

\* The "keys" section of the auth file: one fleet on q1, one on both queues.
KeySection ==
    kA :> [ns |-> n1, queues |-> <<q1>>] @@ kB :> [ns |-> n1, queues |-> <<q1, q2>>]

ASSUME SectionAssumption == A!SectionLoads(KeySection)

StaticKeys(k) == {A!StaticAuthenticate(KeySection, k)}

Bearer(k) == <<[bearer |-> TRUE, key |-> k]>>

Blank == [rpc |-> "GetSystemInfo", header |-> Bearer(kA), ns |-> n1, tq |-> NoQueue,
          token |-> Empty, commands |-> <<>>, heartbeats |-> <<>>]

Poll(rpc, k, q) ==
    [Blank EXCEPT !.rpc = rpc, !.header = Bearer(k), !.tq.name = q]

Respond(rpc, k, t) ==
    [Blank EXCEPT !.rpc = rpc, !.header = Bearer(k), !.token = t]

Schedule(q) == [type |-> "ScheduleActivityTask", ns |-> Empty, queue |-> q]

Complete(k, t, cmds) ==
    [Respond("RespondWorkflowTaskCompleted", k, t) EXCEPT !.commands = cmds]

(* The life of workflow and activity tasks: polls, completions that schedule *)
(* an activity here or elsewhere, query answers, activity results, with any  *)
(* token at all.                                                             *)
TaskTraffic ==
    {Poll("PollWorkflowTaskQueue", kB, q) : q \in {q1, q2}}
    \cup {Complete(kB, t, cmds) : t \in Tokens, cmds \in {<<Schedule(q1)>>, <<Schedule(q2)>>}}
    \cup {Complete(kA, t, <<>>) : t \in Tokens}
    \cup {Respond("RespondQueryTaskCompleted", kB, t) : t \in Tokens}
    \cup {Respond("RespondActivityTaskCompleted", kB, t) : t \in Tokens}

(* One fleet on one queue: enough traffic for every store call to fail in    *)
(* every phase of a workflow task and of the activity it schedules.          *)
FleetTraffic ==
    {Poll("PollWorkflowTaskQueue", kA, q1)}
    \cup {Complete(kA, t, <<Schedule(q1)>>) : t \in Tokens}
    \cup {Respond("RespondActivityTaskCompleted", kA, t) : t \in Tokens}

\* A completion that asks for more than its queue may give it.
EagerTraffic ==
    FleetTraffic \cup {Complete(kA, t, <<Schedule(q2)>>) : t \in Tokens}

(* Every RPC with every way its scoping fields can be filled in, and every   *)
(* kind of credentials.                                                      *)
Headers ==
    {<<>>, <<[bearer |-> FALSE, key |-> kA]>>, Bearer(kA) \o Bearer(kA)}
        \cup {Bearer(k) : k \in {kA, kB, kBad, Empty}}

AnyQueue == {q1, q2, Empty}
AnyNamespace == {n1, n2, Empty}

QueueMessages ==
    [name : AnyQueue, kind : {"normal"}, normal : {Empty}]
        \cup [name : {q2, Empty}, kind : {"sticky"}, normal : AnyQueue]

Commands ==
    [type : {"ScheduleActivityTask", "ContinueAsNewWorkflowExecution", "StartTimer"},
     ns : {Empty}, queue : AnyQueue]
        \cup [type : {"StartChildWorkflowExecution"}, ns : AnyNamespace, queue : AnyQueue]
        \cup [type : {"SignalExternalWorkflowExecution",
                      "RequestCancelExternalWorkflowExecution"},
              ns : AnyNamespace, queue : {Empty}]

CommandLists ==
    {<<>>} \cup {<<a>> : a \in Commands} \cup {<<Schedule(q1), a>> : a \in Commands}

HeartbeatLists ==
    {<<>>} \cup {<<q>> : q \in AnyQueue} \cup {<<q1, q>> : q \in AnyQueue}

AllTraffic ==
    {[Blank EXCEPT !.header = h] : h \in Headers}
    \cup {[Blank EXCEPT !.rpc = r, !.ns = n] :
             r \in {"DescribeNamespace", "RespondActivityTaskCompletedById"}, n \in AnyNamespace}
    \cup {[Blank EXCEPT !.rpc = r, !.ns = n, !.tq = q, !.header = Bearer(k)] :
             r \in PollRPCs, n \in AnyNamespace, q \in QueueMessages, k \in {kA, kB}}
    \cup {[Blank EXCEPT !.rpc = "PollNexusTaskQueue", !.tq.name = q1, !.heartbeats = h] :
             h \in HeartbeatLists}
    \cup {[Blank EXCEPT !.rpc = "ShutdownWorker", !.ns = n, !.tq.name = q, !.heartbeats = h] :
             n \in AnyNamespace, q \in AnyQueue, h \in {<<>>, <<q1>>, <<q2>>}}
    \cup {[Blank EXCEPT !.rpc = "RecordWorkerHeartbeat", !.ns = n, !.heartbeats = h] :
             n \in AnyNamespace, h \in HeartbeatLists}
    \cup {[Blank EXCEPT !.rpc = r, !.ns = n, !.token = t, !.header = Bearer(k)] :
             r \in TokenRPCs, n \in AnyNamespace, t \in Tokens \cup {Empty}, k \in {kA, kB}}
    \cup {Complete(kA, t, l) : t \in Tokens, l \in CommandLists}

(* The "emails" section, and the claims of each bearer token.  A token that  *)
(* is good now may be rejected at another time: it expires, and the keys to  *)
(* check it with have to be fetched.                                         *)
EmailSection ==
    "a@fleet" :> [ns |-> n1, queues |-> <<q1>>] @@ "b@fleet" :> [ns |-> n1, queues |-> <<q2>>]

ASSUME EmailSectionAssumption == A!SectionLoads(EmailSection)

Claims ==
    kA :> [verified |-> TRUE, email |-> "a@fleet"]
    @@ kB :> [verified |-> TRUE, email |-> "b@fleet"]
    @@ kBad :> [verified |-> FALSE, email |-> "a@fleet"]

BearerTokens(k) == {A!JWTAuthenticate(EmailSection, Claims[k]), A!NoIdentity}
=============================================================================
