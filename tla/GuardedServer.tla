--------------------------- MODULE GuardedServer ----------------------------
(***************************************************************************)
(* What the proxy promises the owner of the Temporal server: workers change *)
(* tasks as if the server itself knew each identity's namespace and queues. *)
(* There is no token store here and nothing to look up: every change is on  *)
(* behalf of one identity, within one of its queues.                        *)
(*                                                                         *)
(* Proxy is shown to implement this specification.                          *)
(***************************************************************************)

CONSTANTS Calls, Tokens, Identities, Unissued, NoOne

VARIABLES tasks,  \* the server's tasks, by token
          caller  \* caller[c]: who call c reached the server for, or NoOne

gvars == <<tasks, caller>>
-----------------------------------------------------------------------------
Init ==
    /\ tasks = [t \in Tokens |-> Unissued]
    /\ caller = [c \in Calls |-> NoOne]

\* A call of an authenticated identity reaches the server.
Admit(c, id) ==
    /\ caller[c] = NoOne
    /\ id.valid
    /\ caller' = [caller EXCEPT ![c] = id]
    /\ UNCHANGED tasks

\* The server hands out a new task of the given namespace and queue.
Opens(t, ns, q) ==
    /\ tasks[t] = Unissued
    /\ tasks'[t].state = "open" /\ tasks'[t].ns = ns /\ tasks'[t].queue = q

\* A task of the given namespace and queue is finished.
Closes(t, ns, q) ==
    /\ tasks[t].state = "open" /\ tasks[t].ns = ns /\ tasks[t].queue = q
    /\ tasks'[t] = [tasks[t] EXCEPT !.state = "closed"]

(* The server carries a call out: whatever tasks it opens or closes are of   *)
(* one queue of the caller, and it closes at most one.                       *)
Serve(c) ==
    /\ caller[c] # NoOne
    /\ \E q \in caller[c].queues : \A t \in Tokens :
          tasks'[t] # tasks[t] =>
              Opens(t, caller[c].ns, q) \/ Closes(t, caller[c].ns, q)
    /\ \A t, u \in Tokens :
          tasks'[t].state = "closed" /\ tasks'[u].state = "closed"
          /\ tasks'[t] # tasks[t] /\ tasks'[u] # tasks[u] => t = u
    /\ caller' = [caller EXCEPT ![c] = NoOne]

\* Calls end without an effect on tasks.
Abandon(D) ==
    /\ caller' = [c \in Calls |-> IF c \in D THEN NoOne ELSE caller[c]]
    /\ UNCHANGED tasks

\* The server gives up on a task by itself.
TimesOut(t) ==
    /\ tasks[t].state = "open"
    /\ tasks' = [tasks EXCEPT ![t].state = "closed"]
    /\ UNCHANGED caller

Next ==
    \/ \E D \in SUBSET Calls : Abandon(D)
    \/ \E c \in Calls, id \in Identities : Admit(c, id)
    \/ \E c \in Calls : Serve(c)
    \/ \E t \in Tokens : TimesOut(t)

Spec == Init /\ [][Next]_gvars
=============================================================================
