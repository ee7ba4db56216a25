----------------------------- MODULE RpcPolicy ------------------------------
(***************************************************************************)
(* internal/rpcpolicy/allowlist.go: the RPCs a worker may call, how each is *)
(* scoped, and which of them end the life of the task token they carry.     *)
(***************************************************************************)

PollRPCs ==
    {"PollWorkflowTaskQueue", "PollActivityTaskQueue", "PollNexusTaskQueue"}

\* Policy.Terminal: success ends the token's life.
TerminalRPCs ==
    {"RespondWorkflowTaskCompleted", "RespondWorkflowTaskFailed",
     "RespondActivityTaskCompleted", "RespondActivityTaskFailed",
     "RespondActivityTaskCanceled", "RespondNexusTaskCompleted",
     "RespondNexusTaskFailed"}

\* CategoryToken.
TokenRPCs ==
    {"RespondWorkflowTaskCompleted", "RespondWorkflowTaskFailed",
     "RespondActivityTaskCompleted", "RespondActivityTaskFailed",
     "RespondActivityTaskCanceled", "RespondNexusTaskCompleted",
     "RespondNexusTaskFailed", "RecordActivityTaskHeartbeat",
     "RespondQueryTaskCompleted"}

\* The keys of Allowed; every other RPC is denied.
AllowedRPCs ==
    PollRPCs \cup TokenRPCs \cup
    {"GetSystemInfo", "DescribeNamespace", "ShutdownWorker", "RecordWorkerHeartbeat"}

Category(rpc) ==
    CASE rpc \in PollRPCs                -> "poll"
      [] rpc \in TokenRPCs               -> "token"
      [] rpc = "GetSystemInfo"           -> "unscoped"
      [] rpc = "DescribeNamespace"       -> "namespace"
      [] rpc = "ShutdownWorker"          -> "worker"
      [] rpc = "RecordWorkerHeartbeat"   -> "heartbeat"
=============================================================================
