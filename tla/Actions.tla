------------------------------ MODULE Actions -------------------------------
(***************************************************************************)
(* internal/actions/actions.go: the billable actions of a forwarded request *)
(* as the number of billed actions it is logged with.                       *)
(***************************************************************************)
EXTENDS Naturals, Sequences, FiniteSets

Billable ==
    {"ScheduleActivityTask", "StartTimer", "StartChildWorkflowExecution",
     "ContinueAsNewWorkflowExecution", "SignalExternalWorkflowExecution",
     "UpsertWorkflowSearchAttributes", "ScheduleNexusOperation",
     "RequestCancelNexusOperation"}

\* fromCommand: a child workflow is billed as two actions.
FromCommand(cmd) ==
    CASE cmd.type = "StartChildWorkflowExecution" -> 2
      [] cmd.type \in Billable \ {"StartChildWorkflowExecution"} -> 1
      [] OTHER -> 0

\* The actions of a completion: as many for each command as it is billed.
CommandActions(commands) ==
    {a \in (1..Len(commands)) \X (1..2) : a[2] <= FromCommand(commands[a[1]])}

\* FromRequest: the counts of the actions of one request, added up.
FromRequest(req) ==
    CASE req.rpc = "RespondWorkflowTaskCompleted" -> Cardinality(CommandActions(req.commands))
      [] req.rpc = "RecordActivityTaskHeartbeat" -> 1
      [] OTHER -> 0
=============================================================================
