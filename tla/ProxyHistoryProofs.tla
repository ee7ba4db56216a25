------------------------- MODULE ProxyHistoryProofs -------------------------
(***************************************************************************)
(* Theorems about what Proxy does over a token's whole life: it is gone for *)
(* good once its task was answered, its actions are never logged more often *)
(* than the server bills them, and no call is denied without cause.         *)
(*                                                                         *)
(* They need more than ProxyProofs' invariant, which is about one state of  *)
(* one call: a token has one way into a store and is used only after it was *)
(* there (Placed), and what a call will log the server has billed (Bills).  *)
(***************************************************************************)
EXTENDS ProxyProofs, FiniteSetTheorems

\* Call c, past the lookup, is about token t.
Uses(c, t) ==
    /\ pc[c] \in {"forward", "evict", "record"}
    /\ call[c].req.rpc \in TokenRPCs
    /\ call[c].req.token = t

\* Call c has finished t's task and is done with deleting t.
Finished(c, t) ==
    pc[c] = "record" /\ Finishes(call[c].req.rpc) /\ call[c].req.token = t

\* Call c has yet to record t, its response's token j.
Waits(c, j, t) ==
    /\ pc[c] \in {"evict", "record"}
    /\ call[c].recorded < j /\ j <= Len(call[c].tokens)
    /\ call[c].tokens[j] = t

\* A Put of t failed and may still be carried out.
Overdue(t) == \E w \in late : w.token = t /\ w.entry # None

Nowhere(t) == \A s \in Stores : store[s][t] = None

\* t has not been in any store, and nobody can have used it.
Unused(t) == Nowhere(t) /\ t \notin consumed /\ \A c \in Calls : ~Uses(c, t)

\* What holds of t's way into a store, and out of it.
Placed(t) ==
    /\ \A c \in Calls, j \in Nat : Waits(c, j, t) => Unused(t)
    /\ \A c, d \in Calls, j, k \in Nat :
          Waits(c, j, t) /\ Waits(d, k, t) => c = d /\ j = k
    /\ Overdue(t) => Unused(t)
    /\ Overdue(t) => \A c \in Calls, j \in Nat : ~Waits(c, j, t)
    /\ \A r, s \in Stores : store[r][t] # None /\ store[s][t] # None => r = s
    /\ \A c \in Calls, s \in Stores : Uses(c, t) /\ s # CallStore(c) => store[s][t] = None
    /\ \A c \in Calls : Finished(c, t) => t \in undeleted \/ Nowhere(t)
    /\ t \in consumed => Issued(t) /\ (t \in undeleted \/ Nowhere(t))

\* The calls that will log a heartbeat of t's activity.
Beating(t) ==
    {c \in Calls : /\ pc[c] \in {"evict", "record"} /\ call[c].req.token = t
                   /\ call[c].req.rpc = "RecordActivityTaskHeartbeat"}

\* The calls that have finished t's task and will log its actions.
Finishing(t) ==
    {c \in Calls : /\ pc[c] \in {"evict", "record"} /\ call[c].req.token = t
                   /\ Finishes(call[c].req.rpc)}

\* What is logged for t, and will be for calls under way, was billed.
Covered(t) ==
    LET due == logged[t] + Cardinality(Beating(t)) IN
    /\ logged[t] \in Nat /\ billed[t] \in Nat
    /\ IsFiniteSet(Beating(t))
    /\ due <= billed[t]
    /\ \A c \in Finishing(t) :
          tasks[t].state = "closed" /\ due + FromRequest(call[c].req) <= billed[t]
    /\ \A c, d \in Finishing(t) : c = d

Bills ==
    /\ billed \in [Tokens -> Nat] /\ logged \in [Tokens -> Nat]
    /\ \A t \in Tokens : Covered(t)

\* A call that has not been answered has no code yet.
Coded == \A c \in Calls : pc[c] # "answered" => call[c].code = "none"

History == Coded /\ Bills /\ \A t \in Tokens : Placed(t)
-----------------------------------------------------------------------------
(* The way of a token into a store and out of it. *)

\* The RPCs that finish a task are the ones whose token is deleted.
LEMMA FinishingRPCs == \A rpc : Finishes(rpc) <=> rpc \in TerminalRPCs
  BY DEF Finishes, TerminalRPCs, TokenRPCs

\* A call that does not move keeps its relations to a token.
LEMMA SameCall ==
    ASSUME NEW c, NEW t, pc'[c] = pc[c], call'[c] = call[c]
    PROVE  /\ Uses(c, t)' = Uses(c, t)
           /\ Finished(c, t)' = Finished(c, t)
           /\ \A j : Waits(c, j, t)' = Waits(c, j, t)
           /\ CallStore(c)' = CallStore(c)
  BY DEF Uses, Finished, Waits, CallStore

\* A call that has ended has none.
LEMMA EndedCall ==
    ASSUME NEW c, NEW t, pc'[c] \notin {"forward", "evict", "record"}
    PROVE  /\ ~Uses(c, t)' /\ ~Finished(c, t)'
           /\ \A j : ~Waits(c, j, t)'
  BY DEF Uses, Finished, Waits

\* A token already in use is on its way nowhere.
LEMMA InUse ==
    ASSUME NEW t, Placed(t), ~Unused(t)
    PROVE  ~Overdue(t) /\ \A c \in Calls, j \in Nat : ~Waits(c, j, t)
  BY DEF Placed

\* A step that only takes away from what a token is in or waited for by.
Recedes(t) ==
    /\ Issued(t) => Issued(t)'
    /\ \A c \in Calls : /\ Uses(c, t)' => Uses(c, t) /\ CallStore(c)' = CallStore(c)
                        /\ Finished(c, t)' => Finished(c, t)
                        /\ \A j \in Nat : Waits(c, j, t)' => Waits(c, j, t)
    /\ Overdue(t)' => Overdue(t)
    /\ \A s \in Stores : store'[s][t] \in {store[s][t], None}
    /\ t \in consumed' <=> t \in consumed
    /\ t \in undeleted => t \in undeleted'

LEMMA RecedesPlaced ==
    ASSUME NEW t \in Tokens, Placed(t), Recedes(t)
    PROVE  Placed(t)'
  <1>1. Nowhere(t) => Nowhere(t)'
    BY DEF Recedes, Nowhere
  <1>2. Unused(t) => Unused(t)'
    BY <1>1 DEF Recedes, Unused
  <1>3. \A c \in Calls, j \in Nat : Waits(c, j, t)' => Unused(t)'
    BY <1>2 DEF Recedes, Placed
  <1>4. \A c, d \in Calls, j, k \in Nat : Waits(c, j, t)' /\ Waits(d, k, t)' => c = d /\ j = k
    BY DEF Recedes, Placed
  <1>5. /\ Overdue(t)' => Unused(t)'
        /\ Overdue(t)' => \A c \in Calls, j \in Nat : ~Waits(c, j, t)'
    BY <1>2 DEF Recedes, Placed
  <1>6. \A r, s \in Stores : store'[r][t] # None /\ store'[s][t] # None => r = s
    BY DEF Recedes, Placed
  <1>7. \A c \in Calls, s \in Stores :
            Uses(c, t)' /\ s # CallStore(c)' => store'[s][t] = None
    BY DEF Recedes, Placed
  <1>8. /\ \A c \in Calls : Finished(c, t)' => t \in undeleted' \/ Nowhere(t)'
        /\ t \in consumed' => Issued(t)' /\ (t \in undeleted' \/ Nowhere(t)')
    BY <1>1 DEF Recedes, Placed
  <1> QED
    BY <1>3, <1>4, <1>5, <1>6, <1>7, <1>8 DEF Placed

\* Nothing but call c moves, and c ends: every token recedes.
LEMMA CallEnds ==
    ASSUME NEW c \in Calls, NEW t \in Tokens, Placed(t),
           \A d \in Calls \ {c} : pc'[d] = pc[d] /\ call'[d] = call[d],
           pc'[c] \notin {"forward", "evict", "record"},
           Issued(t) => Issued(t)', UNCHANGED <<store, late, consumed, undeleted>>
    PROVE  Placed(t)'
  <1>1. ASSUME NEW d \in Calls
        PROVE  /\ Uses(d, t)' => Uses(d, t) /\ CallStore(d)' = CallStore(d)
               /\ Finished(d, t)' => Finished(d, t)
               /\ \A j \in Nat : Waits(d, j, t)' => Waits(d, j, t)
    BY SameCall, EndedCall
  <1>2. Overdue(t)' = Overdue(t)
    BY DEF Overdue
  <1>3. Recedes(t)
    BY <1>1, <1>2 DEF Recedes
  <1> QED
    BY <1>3, RecedesPlaced

\* The steps that end a call early.
LEMMA EarlyReturnPlaced ==
    ASSUME Inv, \A t \in Tokens : Placed(t), NEW c \in Calls,
           LookupMiss(c) \/ LookupFails(c) \/ UpstreamFails(c) \/ UpstreamResponseLost(c)
    PROVE  \A t \in Tokens : Placed(t)'
  <1>1. /\ pc[c] # "idle" /\ UNCHANGED <<store, late, consumed, undeleted>>
        /\ \E code \in Codes \ {"Internal"} : Answer(c, code)
    BY DEF LookupMiss, LookupFails, UpstreamFails, UpstreamResponseLost, Codes, ghosts
  <1>2. /\ \A d \in Calls \ {c} : pc'[d] = pc[d] /\ call'[d] = call[d]
    BY <1>1, AnswerOK
  <1>3. pc'[c] = "answered"
    BY <1>1 DEF Answer, Goto, Inv, TypeOK
  <1>4. Grows
    <2>1. CASE UNCHANGED tasks
      BY <2>1, SameTasks
    <2>2. CASE UpstreamResponseLost(c)
      <3>1. PICK n \in 0..MaxDispatch : \E out \in [1..n -> Dispatches] :
              MayDispatch(call[c].req, out) /\ tasks' = TasksAfter(call[c].req, out)
        BY <2>2 DEF UpstreamResponseLost
      <3> QED
        BY <2>2, <3>1, ServerStep DEF UpstreamResponseLost
    <2> QED
      BY <2>1, <2>2 DEF LookupMiss, LookupFails, UpstreamFails
  <1> QED
    BY <1>1, <1>2, <1>3, <1>4, CallEnds DEF Grows

LEMMA DonePlaced ==
    ASSUME Inv, \A t \in Tokens : Placed(t), NEW c \in Calls, Done(c)
    PROVE  \A t \in Tokens : Placed(t)'
  <1>1. /\ pc'[c] = "idle" /\ \A d \in Calls \ {c} : pc'[d] = pc[d] /\ call'[d] = call[d]
        /\ UNCHANGED <<store, late, consumed, undeleted, tasks>>
    BY DEF Done, Goto, Inv, TypeOK, ghosts
  <1> QED
    BY <1>1, CallEnds DEF Issued

\* A call that was just received uses no token yet.
LEMMA ReceivePlaced ==
    ASSUME Inv, \A t \in Tokens : Placed(t),
           NEW c \in Calls, NEW i \in Instances, NEW req \in Requests, Receive(c, i, req)
    PROVE  \A t \in Tokens : Placed(t)'
  <1>1. /\ \A d \in Calls \ {c} : pc'[d] = pc[d] /\ call'[d] = call[d]
        /\ UNCHANGED <<store, late, consumed, undeleted, tasks>>
    BY DEF Receive, Goto, Inv, TypeOK, ghosts
  <1>2. \/ pc'[c] \in {"lookup", "answered"}
        \/ pc'[c] = "forward" /\ call'[c].req.rpc \notin TokenRPCs
    BY DEF Receive, Goto, NewCall, Inv, TypeOK
  <1> SUFFICES ASSUME NEW t \in Tokens PROVE Placed(t)'
    OBVIOUS
  <1>3. ~Uses(c, t)' /\ ~Finished(c, t)' /\ \A j \in Nat : ~Waits(c, j, t)'
    BY <1>2 DEF Uses, Finished, Waits
  <1>4. Overdue(t)' = Overdue(t) /\ Issued(t)' = Issued(t)
    BY <1>1 DEF Overdue, Issued
  <1>5. Recedes(t)
    BY <1>1, <1>3, <1>4, SameCall DEF Recedes
  <1> QED
    BY <1>5, RecedesPlaced

\* A token is used once it was found in the call's store, and in no other.
LEMMA LookupHitPlaced ==
    ASSUME Inv, \A t \in Tokens : Placed(t), NEW c \in Calls, LookupHit(c)
    PROVE  \A t \in Tokens : Placed(t)'
  <1>0. /\ pc[c] = "lookup" /\ UNCHANGED <<store, late, consumed, undeleted, tasks>>
        /\ store[CallStore(c)][CallToken(c)] # None
    BY DEF LookupHit, ghosts
  <1>1. call \in [Calls -> ActiveCalls \cup {NoCall}] /\ call[c] \in ActiveCalls /\ pc \in [Calls -> Steps]
    BY <1>0 DEF Inv, TypeOK, CallOK
  <1>2. CASE Answer(c, "PermissionDenied")
    <2>1. pc'[c] = "answered" /\ \A d \in Calls \ {c} : pc'[d] = pc[d] /\ call'[d] = call[d]
      BY <1>1, <1>2 DEF Answer, Goto
    <2> QED
      BY <1>0, <2>1, CallEnds DEF Issued
  <1>3. ASSUME NEW q, Goto(c, "forward"), call' = [call EXCEPT ![c].queue = q], NEW t \in Tokens
        PROVE  Placed(t)'
    <2>1. /\ pc'[c] = "forward" /\ call'[c] = [call[c] EXCEPT !.queue = q]
          /\ \A d \in Calls \ {c} : pc'[d] = pc[d] /\ call'[d] = call[d]
      BY <1>1, <1>3 DEF Goto
    <2>2. call'[c].req = call[c].req /\ call'[c].inst = call[c].inst
      BY <1>1, <2>1 DEF ActiveCalls
    <2>3. /\ Uses(c, t)' => t = CallToken(c)
          /\ ~Finished(c, t)' /\ (\A j : ~Waits(c, j, t)') /\ CallStore(c)' = CallStore(c)
      BY <2>1, <2>2 DEF Uses, Finished, Waits, CallToken, RequestTaskToken, CallStore
    <2>4. Overdue(t)' = Overdue(t) /\ Issued(t)' = Issued(t) /\ Nowhere(t)' = Nowhere(t)
      BY <1>0 DEF Overdue, Issued, Nowhere
    <2>5. CASE t # CallToken(c)
      <3>1. Recedes(t)
        BY <1>0, <2>1, <2>3, <2>4, <2>5, SameCall DEF Recedes
      <3> QED
        BY <3>1, RecedesPlaced
    <2>6. CASE t = CallToken(c)
      <3>0. CallStore(c) \in Stores
        BY <1>0, CallStoreType
      <3>1. ~Overdue(t) /\ \A d \in Calls, j \in Nat : ~Waits(d, j, t)
        BY <1>0, <2>6, <3>0, InUse DEF Unused, Nowhere
      <3>2. \A s \in Stores : s # CallStore(c) => store[s][t] = None
        BY <1>0, <2>6, <3>0 DEF Placed
      <3>3. ~Overdue(t)' /\ \A d \in Calls, j \in Nat : ~Waits(d, j, t)'
        BY <2>1, <2>3, <2>4, <3>1, SameCall
      <3>4. \A d \in Calls, s \in Stores : Uses(d, t)' /\ s # CallStore(d)' => store'[s][t] = None
        BY <1>0, <2>1, <2>3, <3>2, SameCall DEF Placed
      <3>5. \A d \in Calls : Finished(d, t)' => t \in undeleted' \/ Nowhere(t)'
        BY <1>0, <2>1, <2>3, <2>4, SameCall DEF Placed
      <3>6. \A r, s \in Stores : store'[r][t] # None /\ store'[s][t] # None => r = s
        BY <1>0 DEF Placed
      <3>7. t \in consumed' => Issued(t)' /\ (t \in undeleted' \/ Nowhere(t)')
        BY <1>0, <2>4 DEF Placed
      <3> QED
        BY <3>3, <3>4, <3>5, <3>6, <3>7 DEF Placed
    <2> QED
      BY <2>5, <2>6
  <1> QED
    BY <1>2, <1>3 DEF LookupHit

\* A task the server has not created yet is known to nobody.
LEMMA UnissuedUnknown ==
    ASSUME Inv, NEW t \in Tokens, Placed(t), ~Issued(t)
    PROVE  /\ Unused(t) /\ ~Overdue(t)
           /\ \A c \in Calls, j \in Nat : ~Waits(c, j, t)
           /\ \A c \in Calls : ~Finished(c, t)
  <1>1. Nowhere(t) /\ t \notin consumed /\ ~Overdue(t)
    BY DEF Inv, StoresTrue, LateTrue, Overdue, Nowhere, Placed
  <1>2. ASSUME NEW c \in Calls PROVE ~Uses(c, t)
    BY DEF Inv, CallOK, Scoped, Uses
  <1>3. ASSUME NEW c \in Calls PROVE ~Finished(c, t)
    BY <1>2 DEF Finished, Finishes, Uses
  <1>4. ASSUME NEW c \in Calls, NEW j \in Nat, Waits(c, j, t) PROVE FALSE
    <2>1. pc[c] \in {"evict", "record"} /\ CallOK(c)
      BY <1>4 DEF Waits, Inv
    <2>2. call[c] \in ActiveCalls /\ Handed(c)
      BY <2>1 DEF CallOK
    <2>3. call[c].recorded \in Nat /\ call[c].tokens \in Seq(Tokens)
      BY <2>2 DEF ActiveCalls
    <2>4. Len(call[c].tokens) \in Nat
      BY <2>3, LenProperties
    <2>5. j \in 1..Len(call[c].tokens)
      BY <1>4, <2>3, <2>4 DEF Waits
    <2> QED
      BY <1>4, <2>2, <2>5 DEF Waits, Handed
  <1> QED
    BY <1>1, <1>2, <1>3, <1>4 DEF Unused

\* The tokens of a response are new: each of them waits in one place.
LEMMA UpstreamSucceedsPlaced ==
    ASSUME Inv, \A t \in Tokens : Placed(t), NEW c \in Calls, UpstreamSucceeds(c)
    PROVE  \A t \in Tokens : Placed(t)'
  <1>0. /\ pc[c] = "forward" /\ ServerAccepts(call[c].req)
        /\ Goto(c, IF call[c].req.rpc \in TerminalRPCs THEN "evict" ELSE "record")
        /\ UNCHANGED <<store, late, consumed, undeleted>>
    BY DEF UpstreamSucceeds
  <1>1. /\ call \in [Calls -> ActiveCalls \cup {NoCall}] /\ pc \in [Calls -> Steps]
        /\ call[c] \in ActiveCalls
    BY <1>0 DEF Inv, TypeOK, CallOK
  <1>a. PICK n \in 0..MaxDispatch : \E out \in [1..n -> Dispatches] :
          /\ MayDispatch(call[c].req, out) /\ tasks' = TasksAfter(call[c].req, out)
          /\ call' = [call EXCEPT ![c].tokens = [j \in 1..n |-> out[j].token]]
    BY DEF UpstreamSucceeds
  <1>2. PICK out \in [1..n -> Dispatches] :
          /\ MayDispatch(call[c].req, out) /\ tasks' = TasksAfter(call[c].req, out)
          /\ call' = [call EXCEPT ![c].tokens = [j \in 1..n |-> out[j].token]]
    BY <1>a
  <1>3. Grows
    BY <1>0, <1>2, ServerStep
  <1>4. /\ \A j \in 1..n : out[j].token \in Tokens /\ ~Issued(out[j].token)
        /\ \A j, k \in 1..n : out[j].token = out[k].token => j = k
    BY <1>2 DEF MayDispatch, Dispatches, Issued
  <1>5. PICK toks : toks = [j \in 1..n |-> out[j].token]
    OBVIOUS
  <1>6. n \in Nat /\ Len(toks) = n /\ \A j \in 1..n : toks[j] = out[j].token
    <2>1. n \in Nat /\ toks \in [1..n -> Tokens]
      BY <1>5, BoundAssumption DEF Dispatches
    <2>2. toks \in Seq(Tokens)
      BY <2>1, SeqDef
    <2> QED
      BY <1>5, <2>1, <2>2, LenProperties
  <1>7. /\ call'[c] = [call[c] EXCEPT !.tokens = toks]
        /\ pc'[c] = IF call[c].req.rpc \in TerminalRPCs THEN "evict" ELSE "record"
        /\ \A d \in Calls \ {c} : pc'[d] = pc[d] /\ call'[d] = call[d]
    BY <1>0, <1>1, <1>2, <1>5 DEF Goto
  <1>8. /\ call'[c].req = call[c].req /\ call'[c].inst = call[c].inst
        /\ call'[c].tokens = toks /\ call'[c].recorded = call[c].recorded
        /\ call[c].recorded = 0
    BY <1>0, <1>1, <1>7 DEF ActiveCalls, Inv, CallOK
  <1> SUFFICES ASSUME NEW t \in Tokens PROVE Placed(t)'
    OBVIOUS
  <1>9. /\ Uses(c, t)' => Uses(c, t)
        /\ ~Finished(c, t)' /\ CallStore(c)' = CallStore(c)
    BY <1>0, <1>7, <1>8, FinishingRPCs DEF Uses, Finished, CallStore
  <1>10. \A j \in Nat : Waits(c, j, t)' => j \in 1..n /\ out[j].token = t
    BY <1>6, <1>8 DEF Waits
  <1>11. Overdue(t)' = Overdue(t) /\ Nowhere(t)' = Nowhere(t) /\ (Issued(t) => Issued(t)')
    BY <1>0, <1>3 DEF Overdue, Nowhere, Grows
  <1>12. CASE Issued(t)
    <2>1. \A j \in Nat : ~Waits(c, j, t)'
      BY <1>4, <1>10, <1>12
    <2>2. Recedes(t)
      BY <1>0, <1>7, <1>9, <1>11, <2>1, SameCall DEF Recedes
    <2> QED
      BY <2>2, RecedesPlaced
  <1>13. CASE ~Issued(t)
    <2>1. /\ Unused(t) /\ ~Overdue(t)
          /\ \A d \in Calls, j \in Nat : ~Waits(d, j, t)
          /\ \A d \in Calls : ~Finished(d, t)
      BY <1>13, UnissuedUnknown
    <2>2. \A d \in Calls : ~Uses(d, t)' /\ ~Finished(d, t)'
      BY <1>7, <1>9, <2>1, SameCall DEF Unused
    <2>3. Unused(t)'
      BY <1>0, <1>11, <2>1, <2>2 DEF Unused
    <2>4. \A d \in Calls, j \in Nat : Waits(d, j, t)' => d = c /\ j \in 1..n /\ out[j].token = t
      BY <1>7, <1>10, <2>1, SameCall
    <2>5. \A d, e \in Calls, j, k \in Nat : Waits(d, j, t)' /\ Waits(e, k, t)' => d = e /\ j = k
      BY <1>4, <2>4
    <2>6. \A r, s \in Stores : store'[r][t] # None /\ store'[s][t] # None => r = s
      BY <2>3 DEF Unused, Nowhere
    <2> QED
      BY <1>11, <2>1, <2>2, <2>3, <2>5, <2>6 DEF Placed, Unused
  <1> QED
    BY <1>12, <1>13

\* What the deletion leaves behind: no store has the token, or it failed.
LEMMA EvictPlaced ==
    ASSUME Inv, \A t \in Tokens : Placed(t), NEW c \in Calls, Evict(c) \/ EvictFails(c)
    PROVE  \A t \in Tokens : Placed(t)'
  <1>0. pc[c] = "evict" /\ Goto(c, "record") /\ UNCHANGED <<call, tasks, consumed>>
    BY DEF Evict, EvictFails, ghosts
  <1>1. /\ pc'[c] = "record" /\ \A d \in Calls \ {c} : pc'[d] = pc[d] /\ call'[d] = call[d]
    BY <1>0 DEF Goto, Inv, TypeOK
  <1>2. CallToken(c) \in Tokens /\ CallStore(c) \in Stores /\ call[c].req.rpc \in TokenRPCs
    BY <1>0, Evicting, CallStoreType DEF Inv, CallOK
  <1> SUFFICES ASSUME NEW t \in Tokens PROVE Placed(t)'
    OBVIOUS
  <1>3. ASSUME NEW d \in Calls
        PROVE  /\ Uses(d, t)' = Uses(d, t) /\ CallStore(d)' = CallStore(d)
               /\ \A j : Waits(d, j, t)' = Waits(d, j, t)
               /\ Finished(d, t)' => Finished(d, t) \/ (d = c /\ t = CallToken(c))
    <2>1. CASE d # c
      BY <1>1, <2>1, SameCall
    <2>2. CASE d = c
      BY <1>0, <1>1, <2>2 DEF Uses, Waits, Finished, CallStore, CallToken, RequestTaskToken
    <2> QED
      BY <2>1, <2>2
  <1>4. /\ Overdue(t)' => Overdue(t)
        /\ undeleted \subseteq undeleted'
        /\ \A s \in Stores : store'[s][t] \in {store[s][t], None}
    <2>1. CASE Evict(c)
      <3>1. UNCHANGED <<late, undeleted>> /\
            store' = [store EXCEPT ![CallStore(c)] = S!Without(store[CallStore(c)], {CallToken(c)})]
        BY <2>1 DEF Evict, ghosts
      <3> QED
        BY <1>2, <3>1 DEF Overdue, S!Without, Inv, TypeOK
    <2>2. CASE EvictFails(c)
      <3>1. UNCHANGED store /\ undeleted \subseteq undeleted'
        BY <2>2 DEF EvictFails
      <3>2. late' = late \cup {[token |-> CallToken(c), entry |-> None]}
        BY <2>2 DEF EvictFails
      <3>3. Overdue(t)' => Overdue(t)
        BY <3>2 DEF Overdue
      <3> QED
        BY <3>1, <3>3
    <2> QED
      BY <2>1, <2>2
  <1>5. Issued(t)' = Issued(t)
    BY <1>0 DEF Issued
  <1>6. CASE t # CallToken(c)
    <2>1. Recedes(t)
      BY <1>0, <1>3, <1>4, <1>5, <1>6 DEF Recedes
    <2> QED
      BY <2>1, RecedesPlaced
  <1>7. CASE t = CallToken(c)
    <2>1. Uses(c, t)
      BY <1>0, <1>2, <1>7 DEF Uses, CallToken, RequestTaskToken
    <2>2. ~Overdue(t) /\ \A d \in Calls, j \in Nat : ~Waits(d, j, t)
      BY <2>1, InUse DEF Unused
    <2>3. \A d \in Calls, s \in Stores : Uses(d, t)' /\ s # CallStore(d)' => store'[s][t] = None
      BY <1>3, <1>4 DEF Placed
    <2>4. t \in undeleted' \/ Nowhere(t)'
      <3>1. CASE Evict(c)
        <4>1. store'[CallStore(c)][t] = None
          BY <1>2, <1>7, <3>1 DEF Evict, S!Without, Inv, TypeOK
        <4>2. \A s \in Stores : s # CallStore(c) => store'[s][t] = None
          BY <1>3, <2>1, <2>3
        <4> QED
          BY <4>1, <4>2 DEF Nowhere
      <3>2. CASE EvictFails(c)
        BY <1>7, <3>2 DEF EvictFails
      <3> QED
        BY <3>1, <3>2
    <2>5. \A r, s \in Stores : store'[r][t] # None /\ store'[s][t] # None => r = s
      BY <1>4 DEF Placed
    <2>6. t \in consumed' => Issued(t)'
      BY <1>0, <1>5 DEF Placed
    <2>7. ~Overdue(t)' /\ \A d \in Calls, j \in Nat : ~Waits(d, j, t)'
      BY <1>3, <1>4, <2>2
    <2> QED
      BY <2>3, <2>4, <2>5, <2>6, <2>7 DEF Placed
  <1> QED
    BY <1>6, <1>7

\* The token a call is about to record waits for it, there and nowhere else.
LEMMA RecordingWaits ==
    ASSUME Inv, NEW c \in Calls, Recording(c)
    PROVE  /\ call[c].recorded \in Nat /\ call[c].recorded + 1 \in Nat
           /\ Waits(c, call[c].recorded + 1, NextToken(c))
  <1>1. pc[c] = "record" /\ call[c] \in ActiveCalls
    BY DEF Recording, Inv, CallOK
  <1>2. call[c].recorded \in Nat /\ call[c].tokens \in Seq(Tokens)
    BY <1>1 DEF ActiveCalls
  <1>3. Len(call[c].tokens) \in Nat
    BY <1>2, LenProperties
  <1>4. call[c].recorded + 1 \in 1..Len(call[c].tokens)
        /\ NextToken(c) = call[c].tokens[call[c].recorded + 1]
    BY RecordingToken
  <1> QED
    BY <1>1, <1>2, <1>3, <1>4 DEF Waits

\* A token nobody uses or waits for any more enters store s.
LEMMA EntersStore ==
    ASSUME NEW t \in Tokens, Unused(t), NEW s \in Stores,
           \A r \in Stores : r # s => store'[r][t] = store[r][t],
           ~Overdue(t)', \A c \in Calls, j \in Nat : ~Waits(c, j, t)',
           \A c \in Calls : Uses(c, t)' => Uses(c, t), UNCHANGED consumed
    PROVE  Placed(t)'
  <1>1. \A r \in Stores : r # s => store'[r][t] = None
    BY DEF Unused, Nowhere
  <1>2. \A c \in Calls : ~Uses(c, t)' /\ ~Finished(c, t)'
    BY DEF Unused, Finished, Finishes, Uses
  <1>3. t \notin consumed'
    BY DEF Unused
  <1>4. \A q, r \in Stores : store'[q][t] # None /\ store'[r][t] # None => q = r
    BY <1>1
  <1> QED
    BY <1>2, <1>3, <1>4 DEF Placed

LEMMA RecordPlaced ==
    ASSUME Inv, \A t \in Tokens : Placed(t), NEW c \in Calls, Record(c)
    PROVE  \A t \in Tokens : Placed(t)'
  <1>0. /\ Recording(c) /\ pc[c] = "record"
        /\ UNCHANGED <<late, tasks, consumed, undeleted>>
    BY DEF Record, Recording, ghosts
  <1>1. PICK u \in Tokens : u = NextToken(c) /\ call[c].queue # Empty
    BY <1>0, RecordingToken
  <1>2. PICK m \in Nat : m = call[c].recorded /\ m + 1 \in Nat /\ Waits(c, m + 1, u)
    BY <1>0, <1>1, RecordingWaits
  <1>3. PICK s \in Stores : s = CallStore(c)
    BY <1>0, CallStoreType
  <1>4. /\ store' = [store EXCEPT ![s] = S!With(store[s], u, ScopedEntry(c))]
        /\ call' = [call EXCEPT ![c] = [call[c] EXCEPT !.recorded = m + 1]]
        /\ UNCHANGED pc
    BY <1>1, <1>2, <1>3 DEF Record, Inv, TypeOK
  <1>5. \A r \in Stores, t \in Tokens : ~(r = s /\ t = u) => store'[r][t] = store[r][t]
    BY <1>4 DEF Inv, TypeOK, S!Contents, S!With
  <1>6. call[c] \in ActiveCalls /\ call \in [Calls -> ActiveCalls \cup {NoCall}]
    BY <1>0 DEF Inv, TypeOK, CallOK
  <1>7. /\ call'[c].req = call[c].req /\ call'[c].inst = call[c].inst
        /\ call'[c].tokens = call[c].tokens /\ call'[c].recorded = m + 1
        /\ \A d \in Calls \ {c} : pc'[d] = pc[d] /\ call'[d] = call[d]
    BY <1>4, <1>6 DEF ActiveCalls
  <1>8. Len(call[c].tokens) \in Nat
    BY <1>6, LenProperties DEF ActiveCalls
  <1> SUFFICES ASSUME NEW t \in Tokens PROVE Placed(t)'
    OBVIOUS
  <1>9. ASSUME NEW d \in Calls
        PROVE  /\ Uses(d, t)' = Uses(d, t) /\ CallStore(d)' = CallStore(d)
               /\ Finished(d, t)' = Finished(d, t)
               /\ \A j \in Nat : Waits(d, j, t)' => Waits(d, j, t) /\ ~(d = c /\ j = m + 1)
    <2>1. CASE d # c
      BY <1>7, <2>1, SameCall
    <2>2. CASE d = c
      BY <1>0, <1>2, <1>4, <1>7, <1>8, <2>2 DEF Uses, Finished, Waits, CallStore
    <2> QED
      BY <2>1, <2>2
  <1>10. Overdue(t)' = Overdue(t) /\ Issued(t)' = Issued(t)
    BY <1>0 DEF Overdue, Issued
  <1>11. CASE t = u
    <2>1. Unused(t) /\ ~Overdue(t)
      BY <1>2, <1>11 DEF Placed
    <2>2. \A d \in Calls, j \in Nat : ~Waits(d, j, t)'
      BY <1>2, <1>9, <1>11 DEF Placed
    <2> QED
      BY <1>0, <1>5, <1>9, <1>10, <2>1, <2>2, EntersStore
  <1>12. CASE t # u
    <2>1. Recedes(t)
      BY <1>0, <1>5, <1>9, <1>10, <1>12 DEF Recedes
    <2> QED
      BY <2>1, RecedesPlaced
  <1> QED
    BY <1>11, <1>12

LEMMA RecordFailsPlaced ==
    ASSUME Inv, \A t \in Tokens : Placed(t), NEW c \in Calls, RecordFails(c)
    PROVE  \A t \in Tokens : Placed(t)'
  <1>0. /\ Recording(c) /\ pc[c] # "idle" /\ Answer(c, "Unavailable")
        /\ late' = late \cup {[token |-> NextToken(c), entry |-> ScopedEntry(c)]}
        /\ UNCHANGED <<store, tasks, consumed, undeleted>>
    BY DEF RecordFails, Recording, ghosts
  <1>1. PICK u \in Tokens : u = NextToken(c)
    BY <1>0, RecordingToken
  <1>2. PICK k \in Nat : Waits(c, k, u)
    BY <1>0, <1>1, RecordingWaits
  <1>3. pc'[c] = "answered" /\ \A d \in Calls \ {c} : pc'[d] = pc[d] /\ call'[d] = call[d]
    BY <1>0 DEF Answer, Goto, Inv, TypeOK
  <1> SUFFICES ASSUME NEW t \in Tokens PROVE Placed(t)'
    OBVIOUS
  <1>4. ASSUME NEW d \in Calls
        PROVE  /\ Uses(d, t)' => Uses(d, t) /\ CallStore(d)' = CallStore(d)
               /\ Finished(d, t)' => Finished(d, t)
               /\ \A j \in Nat : Waits(d, j, t)' => d # c /\ Waits(d, j, t)
    BY <1>3, SameCall, EndedCall
  <1>5. Issued(t)' = Issued(t) /\ Nowhere(t)' = Nowhere(t)
    BY <1>0 DEF Issued, Nowhere
  <1>6. CASE t # u
    <2>1. Overdue(t)' => Overdue(t)
      BY <1>0, <1>1, <1>6 DEF Overdue
    <2>2. Recedes(t)
      BY <1>0, <1>4, <1>5, <2>1 DEF Recedes
    <2> QED
      BY <2>2, RecedesPlaced
  <1>7. CASE t = u
    <2>1. Unused(t) /\ \A d \in Calls, j \in Nat : Waits(d, j, t) => d = c
      BY <1>2, <1>7 DEF Placed
    <2>2. Unused(t)'
      BY <1>0, <1>4, <1>5, <2>1 DEF Unused
    <2>3. \A d \in Calls, j \in Nat : ~Waits(d, j, t)'
      BY <1>4, <2>1
    <2>4. \A d \in Calls : ~Uses(d, t)' /\ ~Finished(d, t)'
      BY <2>2 DEF Unused, Uses, Finished, Finishes
    <2>5. \A r, s \in Stores : store'[r][t] # None /\ store'[s][t] # None => r = s
      BY <2>2 DEF Unused, Nowhere
    <2> QED
      BY <2>2, <2>3, <2>4, <2>5 DEF Placed, Unused
  <1> QED
    BY <1>6, <1>7

\* A token is consumed by the call that finished its task and deleted it.
LEMMA ReplyPlaced ==
    ASSUME Inv, \A t \in Tokens : Placed(t), NEW c \in Calls, Reply(c)
    PROVE  \A t \in Tokens : Placed(t)'
  <1>0. /\ pc[c] = "record" /\ Answer(c, "ok")
        /\ UNCHANGED <<store, late, tasks, undeleted>>
        /\ consumed' = IF Finishes(call[c].req.rpc) THEN consumed \cup {call[c].req.token}
                       ELSE consumed
    BY DEF Reply
  <1>1. pc'[c] = "answered" /\ \A d \in Calls \ {c} : pc'[d] = pc[d] /\ call'[d] = call[d]
    BY <1>0 DEF Answer, Goto, Inv, TypeOK
  <1> SUFFICES ASSUME NEW t \in Tokens PROVE Placed(t)'
    OBVIOUS
  <1>2. CASE t \in consumed' <=> t \in consumed
    <2>1. \A d \in Calls : /\ Uses(d, t)' => Uses(d, t) /\ CallStore(d)' = CallStore(d)
                           /\ Finished(d, t)' => Finished(d, t)
                           /\ \A j \in Nat : Waits(d, j, t)' => Waits(d, j, t)
      BY <1>1, SameCall, EndedCall
    <2>2. Overdue(t)' = Overdue(t) /\ Issued(t)' = Issued(t)
      BY <1>0 DEF Overdue, Issued
    <2>3. Recedes(t)
      BY <1>0, <1>2, <2>1, <2>2 DEF Recedes
    <2> QED
      BY <2>3, RecedesPlaced
  <1>3. CASE t = call[c].req.token /\ Finishes(call[c].req.rpc)
    <2>1. Uses(c, t) /\ Finished(c, t)
      BY <1>0, <1>3 DEF Uses, Finished, Finishes
    <2>2. ~Overdue(t) /\ \A d \in Calls, j \in Nat : ~Waits(d, j, t)
      BY <2>1, InUse DEF Unused
    <2>3. ~Overdue(t)' /\ \A d \in Calls, j \in Nat : ~Waits(d, j, t)'
      <3>1. Overdue(t)' = Overdue(t)
        BY <1>0 DEF Overdue
      <3> QED
        BY <1>1, <2>2, <3>1, SameCall, EndedCall
    <2>4. t \in undeleted' \/ Nowhere(t)'
      BY <1>0, <2>1 DEF Placed, Nowhere
    <2>5. Issued(t)'
      BY <1>0, <1>3 DEF Inv, CallOK, Scoped, Finishes, Issued
    <2>6. \A d \in Calls, s \in Stores : Uses(d, t)' /\ s # CallStore(d)' => store'[s][t] = None
      BY <1>0, <1>1, SameCall, EndedCall DEF Placed
    <2>7. \A r, s \in Stores : store'[r][t] # None /\ store'[s][t] # None => r = s
      BY <1>0 DEF Placed
    <2> QED
      BY <2>3, <2>4, <2>5, <2>6, <2>7 DEF Placed
  <1> QED
    BY <1>0, <1>2, <1>3

\* Steps of no call, but for a late Put.
LEMMA OutsidePlaced ==
    ASSUME Inv, \A t \in Tokens : Placed(t),
           \/ \E s \in Stores, t \in Tokens : StoreForgets(s, t)
           \/ \E t \in Tokens : TaskTimesOut(t)
           \/ UNCHANGED vars
    PROVE  \A t \in Tokens : Placed(t)'
  <1>1. UNCHANGED <<pc, call, late, consumed, undeleted>>
    BY DEF StoreForgets, TaskTimesOut, vars, ghosts
  <1>2. \A s \in Stores, t \in Tokens : store'[s][t] \in {store[s][t], None}
    BY DEF StoreForgets, TaskTimesOut, vars, S!Without, Inv, TypeOK
  <1>3. ASSUME NEW t \in Tokens, Issued(t) PROVE Issued(t)'
    <2>1. CASE UNCHANGED tasks
      BY <1>3, <2>1 DEF Issued
    <2>2. ASSUME NEW u \in Tokens, TaskTimesOut(u) PROVE Issued(t)'
      <3>1. tasks \in [Tokens -> TaskRecords]
        BY DEF Inv, TypeOK
      <3>2. tasks[u] \in TaskRecords /\ tasks[u].state = "open"
        BY <2>2, <3>1 DEF TaskTimesOut
      <3>3. tasks'[t] = IF t = u THEN [tasks[u] EXCEPT !.state = "closed"] ELSE tasks[t]
        BY <2>2, <3>1 DEF TaskTimesOut
      <3>4. [tasks[u] EXCEPT !.state = "closed"].state = "closed"
        BY <3>2 DEF TaskRecords, Unissued
      <3> QED
        BY <1>3, <3>3, <3>4 DEF Issued, Unissued
    <2> QED
      BY <2>1, <2>2 DEF StoreForgets, vars
  <1> SUFFICES ASSUME NEW t \in Tokens PROVE Placed(t)'
    OBVIOUS
  <1>4. Overdue(t)' = Overdue(t)
    BY <1>1 DEF Overdue
  <1>5. Recedes(t)
    BY <1>1, <1>2, <1>3, <1>4, SameCall DEF Recedes
  <1> QED
    BY <1>5, RecedesPlaced

LEMMA LateWritePlaced ==
    ASSUME Inv, \A t \in Tokens : Placed(t), NEW w \in late, LateWrite(w)
    PROVE  \A t \in Tokens : Placed(t)'
  <1>0. late' = late \ {w} /\ UNCHANGED <<pc, call, tasks, consumed, undeleted>>
    BY DEF LateWrite, ghosts
  <1>1. PICK u \in Tokens, e \in Entries \cup {None} : w = [token |-> u, entry |-> e]
    BY DEF Inv, TypeOK
  <1>2. Shared \in Stores /\ w.token = u /\ w.entry = e
    BY <1>1 DEF Inv, LateTrue, Stores
  <1>3. /\ \A s \in Stores, t \in Tokens : ~(s = Shared /\ t = u) => store'[s][t] = store[s][t]
        /\ e = None => store'[Shared][u] = None
    BY <1>2 DEF LateWrite, Inv, TypeOK, S!Contents, S!With, S!Without
  <1> SUFFICES ASSUME NEW t \in Tokens PROVE Placed(t)'
    OBVIOUS
  <1>4. Overdue(t)' => Overdue(t)
    BY <1>0 DEF Overdue
  <1>5. Issued(t)' = Issued(t)
    BY <1>0 DEF Issued
  <1>6. CASE t # u \/ e = None
    <2>1. Recedes(t)
      BY <1>0, <1>3, <1>4, <1>5, <1>6, SameCall DEF Recedes
    <2> QED
      BY <2>1, RecedesPlaced
  <1>7. CASE t = u /\ e # None
    <2>1. Overdue(t)
      BY <1>2, <1>7 DEF Overdue
    <2>2. Unused(t) /\ \A c \in Calls, j \in Nat : ~Waits(c, j, t)
      BY <2>1 DEF Placed
    <2>3. ~Overdue(t)'
      <3>1. ASSUME NEW v \in late, v.token = t, v.entry # None PROVE v = w
        <4>1. v.entry = TaskScope(t) /\ e = TaskScope(t)
          BY <1>2, <1>7, <3>1 DEF Inv, LateTrue
        <4>2. v \in [token : Tokens, entry : Entries \cup {None}]
          BY DEF Inv, TypeOK
        <4> QED
          BY <1>1, <1>7, <3>1, <4>1, <4>2
      <3> QED
        BY <1>0, <3>1 DEF Overdue
    <2>4. /\ \A c \in Calls, j \in Nat : ~Waits(c, j, t)'
          /\ \A c \in Calls : Uses(c, t)' => Uses(c, t)
      BY <1>0, <2>2, SameCall
    <2>5. \A r \in Stores : r # Shared => store'[r][t] = store[r][t]
      BY <1>3
    <2> QED
      BY <1>0, <1>2, <2>2, <2>3, <2>4, <2>5, EntersStore
  <1> QED
    BY <1>6, <1>7

LEMMA CrashPlaced ==
    ASSUME Inv, \A t \in Tokens : Placed(t), NEW i \in Instances, Crash(i)
    PROVE  \A t \in Tokens : Placed(t)'
  <1>0. UNCHANGED <<late, tasks, consumed, undeleted>>
    BY DEF Crash
  <1>1. ASSUME NEW c \in Calls
        PROVE  pc'[c] = "idle" \/ (pc'[c] = pc[c] /\ call'[c] = call[c])
    BY DEF Crash
  <1>2. \A s \in Stores, t \in Tokens : store'[s][t] \in {store[s][t], None}
    BY DEF Crash, S!EmptyStore, Inv, TypeOK
  <1> SUFFICES ASSUME NEW t \in Tokens PROVE Placed(t)'
    OBVIOUS
  <1>3. Overdue(t)' = Overdue(t) /\ Issued(t)' = Issued(t)
    BY <1>0 DEF Overdue, Issued
  <1>4. Recedes(t)
    BY <1>0, <1>1, <1>2, <1>3, SameCall, EndedCall DEF Recedes
  <1> QED
    BY <1>4, RecedesPlaced
-----------------------------------------------------------------------------
(* What is logged and what is billed. *)

\* A request is billed as a number of actions.
LEMMA FromRequestType == \A req \in Requests : FromRequest(req) \in Nat
  <1> SUFFICES ASSUME NEW req \in Requests PROVE FromRequest(req) \in Nat
    OBVIOUS
  <1> DEFINE Values == [type : STRING, ns : Namespaces \cup {Empty}, queue : Queues \cup {Empty}]
             Places == (1..Len(req.commands)) \X (1..2)
  <1>1. req.commands \in Seq(Values)
    BY RequestAssumption, Zenon
  <1> HIDE DEF Values
  <1>2. Len(req.commands) \in Nat
    BY <1>1, LenProperties
  <1>3. IsFiniteSet(1..Len(req.commands)) /\ IsFiniteSet(1..2)
    <2>1. ASSUME NEW a \in Int, NEW b \in Int PROVE IsFiniteSet(a..b)
      BY FS_Interval
    <2>2. 1 \in Int /\ 2 \in Int /\ Len(req.commands) \in Int
      BY <1>2
    <2> HIDE DEF Places
    <2> QED
      BY <2>1, <2>2, Zenon
  <1>4. IsFiniteSet(Places)
    BY <1>3, FS_Product
  <1>5. CommandActions(req.commands) \in SUBSET Places
    BY DEF CommandActions
  <1>6. Cardinality(CommandActions(req.commands)) \in Nat
    BY <1>4, <1>5, FS_Subset, FS_CardinalityType
  <1> QED
    BY <1>6 DEF FromRequest

\* The server has billed what it billed before, and the log has not moved.
LEMMA CoveredStays ==
    ASSUME NEW t \in Tokens, Covered(t),
           logged'[t] = logged[t], billed'[t] \in Nat, billed[t] <= billed'[t],
           Beating(t)' \subseteq Beating(t),
           \A c \in Finishing(t)' : c \in Finishing(t) /\ call'[c].req = call[c].req
                                    /\ FromRequest(call[c].req) \in Nat,
           tasks[t].state = "closed" => tasks'[t].state = "closed"
    PROVE  Covered(t)'
  <1>1. /\ IsFiniteSet(Beating(t)) /\ IsFiniteSet(Beating(t)')
        /\ Cardinality(Beating(t)) \in Nat /\ Cardinality(Beating(t)') \in Nat
        /\ Cardinality(Beating(t)') <= Cardinality(Beating(t))
    BY FS_Subset, FS_CardinalityType DEF Covered
  <1> QED
    BY <1>1 DEF Covered

\* Who will log what is a matter of where the calls are.
LEMMA BeatingMoves ==
    ASSUME NEW c, NEW t, pc'[c] = pc[c], call'[c] = call[c]
    PROVE  (c \in Beating(t)' <=> c \in Beating(t)) /\ (c \in Finishing(t)' <=> c \in Finishing(t))
  BY DEF Beating, Finishing

LEMMA BeatingEnds ==
    ASSUME NEW c, NEW t, pc'[c] \notin {"evict", "record"}
    PROVE  c \notin Beating(t)' /\ c \notin Finishing(t)'
  BY DEF Beating, Finishing

LEMMA FinishingRequest ==
    ASSUME Inv, NEW t, NEW c \in Finishing(t)
    PROVE  c \in Calls /\ call[c].req \in Requests /\ FromRequest(call[c].req) \in Nat
  <1>1. c \in Calls /\ pc[c] \in {"evict", "record"}
    BY DEF Finishing
  <1>2. call[c] \in ActiveCalls
    BY <1>1 DEF Inv, CallOK
  <1>3. call[c].req \in Requests
    BY <1>2 DEF ActiveCalls
  <1> QED
    BY <1>1, <1>3, FromRequestType

\* The steps in which the server bills nothing and nothing is logged.
LEMMA BillsStay ==
    ASSUME Inv, Bills, Grows, UNCHANGED <<billed, logged>>,
           \A t \in Tokens : /\ Beating(t)' \subseteq Beating(t)
                             /\ \A c \in Finishing(t)' :
                                   c \in Finishing(t) /\ call'[c].req = call[c].req
    PROVE  Bills'
  <1>1. ASSUME NEW t \in Tokens PROVE Covered(t)'
    <2>1. Covered(t) /\ billed'[t] \in Nat /\ billed[t] <= billed'[t] /\ logged'[t] = logged[t]
      BY DEF Bills
    <2>2. tasks[t].state = "closed" => tasks'[t].state = "closed"
      BY DEF Grows, Issued, Unissued
    <2> QED
      BY <2>1, <2>2, FinishingRequest, CoveredStays
  <1> QED
    BY <1>1 DEF Bills

\* Steps of call c that neither start nor end the time in which it will log.
LEMMA QuietBills ==
    ASSUME Inv, Bills, NEW c \in Calls, UNCHANGED <<tasks, billed, logged>>,
           \A d \in Calls \ {c} : pc'[d] = pc[d] /\ call'[d] = call[d],
           \/ pc'[c] \notin {"evict", "record"}
           \/ pc[c] \in {"evict", "record"} /\ call'[c].req = call[c].req
    PROVE  Bills'
  <1>1. Grows
    BY SameTasks
  <1>2. ASSUME NEW t \in Tokens, NEW d \in Beating(t)' PROVE d \in Beating(t)
    BY BeatingMoves, BeatingEnds DEF Beating
  <1>3. ASSUME NEW t \in Tokens, NEW d \in Finishing(t)'
        PROVE  d \in Finishing(t) /\ call'[d].req = call[d].req
    BY BeatingMoves, BeatingEnds DEF Finishing
  <1> QED
    BY <1>1, <1>2, <1>3, BillsStay

\* What the steps of a call other than the server's answer and the reply do.
LEMMA CallBills ==
    ASSUME Inv, Bills, NEW c \in Calls,
           \/ LookupHit(c) \/ LookupMiss(c) \/ LookupFails(c) \/ UpstreamFails(c)
           \/ Evict(c) \/ EvictFails(c) \/ Record(c) \/ RecordFails(c) \/ Done(c)
           \/ \E i \in Instances, req \in Requests : Receive(c, i, req)
    PROVE  Bills'
  <1>0. pc \in [Calls -> Steps] /\ call \in [Calls -> ActiveCalls \cup {NoCall}]
    BY DEF Inv, TypeOK
  <1>1. UNCHANGED <<tasks, billed, logged>>
    BY DEF LookupHit, LookupMiss, LookupFails, UpstreamFails, Evict, EvictFails, Record,
           RecordFails, Done, Receive, ghosts
  <1>2. \A d \in Calls \ {c} : pc'[d] = pc[d] /\ call'[d] = call[d]
    BY <1>0 DEF LookupHit, LookupMiss, LookupFails, UpstreamFails, Evict, EvictFails, Record,
                RecordFails, Done, Receive, Answer, Goto
  <1>3. CASE Evict(c) \/ EvictFails(c)
    <2>1. pc[c] = "evict" /\ pc'[c] = "record" /\ call'[c].req = call[c].req
      BY <1>0, <1>3 DEF Evict, EvictFails, Goto
    <2> QED
      BY <1>1, <1>2, <2>1, QuietBills
  <1>4. CASE Record(c) /\ UNCHANGED pc
    <2>1. pc[c] = "record" /\ call[c] \in ActiveCalls
      BY <1>4 DEF Record, Recording, Inv, CallOK
    <2>2. call' = [call EXCEPT ![c] = [call[c] EXCEPT !.recorded = call[c].recorded + 1]]
      BY <1>0, <1>4, <2>1, RecordingToken DEF Record
    <2>3. call'[c].req = call[c].req
      BY <1>0, <2>1, <2>2 DEF ActiveCalls
    <2> QED
      BY <1>1, <1>2, <1>4, <2>1, <2>3, QuietBills
  <1>5. CASE pc'[c] \notin {"evict", "record"}
    BY <1>1, <1>2, <1>5, QuietBills
  <1>6. Evict(c) \/ EvictFails(c) \/ (Record(c) /\ UNCHANGED pc) \/ pc'[c] \notin {"evict", "record"}
    BY <1>0 DEF LookupHit, LookupMiss, LookupFails, UpstreamFails, Record,
                RecordFails, Done, Receive, Answer, Goto
  <1> QED
    BY <1>3, <1>4, <1>5, <1>6

\* The RPCs that carry a token, by what they mean to the bill.
LEMMA TokenRPCBills ==
    ASSUME NEW req, req.rpc \in TokenRPCs
    PROVE  \/ Finishes(req.rpc) /\ req.rpc # "RecordActivityTaskHeartbeat"
           \/ /\ req.rpc = "RecordActivityTaskHeartbeat" /\ ~Finishes(req.rpc)
              /\ FromRequest(req) = 1
           \/ /\ req.rpc = "RespondQueryTaskCompleted" /\ ~Finishes(req.rpc)
              /\ FromRequest(req) = 0
  BY DEF TokenRPCs, Finishes, FromRequest

\* What the server bills for the request of call c.
LEMMA ServerBills ==
    ASSUME Inv, Bills, NEW c \in Calls, pc[c] = "forward", ServerAccepts(call[c].req)
    PROVE  /\ call[c].req \in Requests /\ FromRequest(call[c].req) \in Nat
           /\ BilledAfter(call[c].req) \in [Tokens -> Nat]
           /\ \A t \in Tokens :
                 BilledAfter(call[c].req)[t] =
                    IF call[c].req.rpc \in TokenRPCs /\ t = call[c].req.token
                    THEN billed[t] + FromRequest(call[c].req) ELSE billed[t]
           /\ \A t \in Tokens :
                 call[c].req.rpc \in TokenRPCs /\ t = call[c].req.token => Finishing(t) = {}
  <1>1. call[c] \in ActiveCalls
    BY DEF Inv, CallOK
  <1>2. call[c].req \in Requests /\ FromRequest(call[c].req) \in Nat
    BY <1>1, FromRequestType DEF ActiveCalls
  <1>3. billed \in [Tokens -> Nat]
    BY DEF Bills
  <1>4. call[c].req.rpc \in TokenRPCs =>
          call[c].req.token \in Tokens /\ tasks[call[c].req.token].state = "open"
    BY DEF ServerAccepts
  <1>5. \A t \in Tokens : tasks[t].state = "open" => Finishing(t) = {}
    BY DEF Bills, Covered
  <1> QED
    BY <1>2, <1>3, <1>4, <1>5 DEF BilledAfter

LEMMA UpstreamSucceedsBills ==
    ASSUME Inv, Bills, NEW c \in Calls, UpstreamSucceeds(c)
    PROVE  Bills'
  <1>0. /\ pc[c] = "forward" /\ ServerAccepts(call[c].req) /\ UNCHANGED logged
        /\ billed' = BilledAfter(call[c].req)
        /\ Goto(c, IF call[c].req.rpc \in TerminalRPCs THEN "evict" ELSE "record")
    BY DEF UpstreamSucceeds
  <1>1. PICK n \in 0..MaxDispatch : \E out \in [1..n -> Dispatches] :
          /\ MayDispatch(call[c].req, out) /\ tasks' = TasksAfter(call[c].req, out)
          /\ call' = [call EXCEPT ![c].tokens = [j \in 1..n |-> out[j].token]]
    BY DEF UpstreamSucceeds
  <1>2. Grows /\ (Finishes(call[c].req.rpc) => tasks'[call[c].req.token].state = "closed")
    BY <1>0, <1>1, ServerStep
  <1>3. pc \in [Calls -> Steps] /\ call \in [Calls -> ActiveCalls \cup {NoCall}] /\ call[c] \in ActiveCalls
    BY <1>0 DEF Inv, TypeOK, CallOK
  <1>4. PICK toks : call' = [call EXCEPT ![c] = [call[c] EXCEPT !.tokens = toks]]
    BY <1>1, <1>3
  <1>5. /\ call'[c].req = call[c].req /\ pc'[c] \in {"evict", "record"}
        /\ \A d \in Calls \ {c} : pc'[d] = pc[d] /\ call'[d] = call[d]
    BY <1>0, <1>3, <1>4 DEF Goto, ActiveCalls
  <1>6. PICK req \in Requests : req = call[c].req /\ FromRequest(req) \in Nat
    BY <1>0, ServerBills
  <1>7. ASSUME NEW t \in Tokens PROVE Covered(t)'
    <2>1. /\ Covered(t) /\ billed[t] \in Nat /\ logged[t] \in Nat /\ logged'[t] = logged[t]
          /\ tasks[t].state = "closed" => tasks'[t].state = "closed"
      BY <1>0, <1>2 DEF Bills, Covered, Grows, Issued, Unissued
    <2>2. c \notin Beating(t) /\ c \notin Finishing(t)
      BY <1>0 DEF Beating, Finishing
    <2>3. \A d \in Calls \ {c} : (d \in Beating(t)' <=> d \in Beating(t))
                                 /\ (d \in Finishing(t)' <=> d \in Finishing(t))
      BY <1>5, BeatingMoves
    <2>4. CASE ~(req.rpc \in TokenRPCs /\ t = req.token)
      <3>1. billed'[t] = billed[t]
        BY <1>0, <1>6, <2>4, ServerBills
      <3>2. c \notin Beating(t)' /\ c \notin Finishing(t)'
        BY <1>5, <1>6, <2>4 DEF Beating, Finishing, Finishes, TokenRPCs
      <3>3. Beating(t)' \subseteq Beating(t)
        BY <2>3, <3>2 DEF Beating
      <3>4. \A d \in Finishing(t)' : d \in Finishing(t) /\ call'[d].req = call[d].req
        BY <1>5, <2>3, <3>2 DEF Finishing
      <3> QED
        BY <2>1, <3>1, <3>3, <3>4, FinishingRequest, CoveredStays
    <2>5. CASE req.rpc \in TokenRPCs /\ t = req.token
      <3>1. billed'[t] = billed[t] + FromRequest(req) /\ Finishing(t) = {}
        BY <1>0, <1>6, <2>5, ServerBills
      <3>2. IsFiniteSet(Beating(t)) /\ Cardinality(Beating(t)) \in Nat
            /\ logged[t] + Cardinality(Beating(t)) <= billed[t]
        BY <2>1, FS_CardinalityType DEF Covered
      <3>3. Finishing(t)' \subseteq {c}
        BY <2>3, <3>1 DEF Finishing
      <3>4. CASE Finishes(req.rpc) /\ req.rpc # "RecordActivityTaskHeartbeat"
        <4>1. Beating(t)' = Beating(t)
          BY <1>5, <1>6, <2>2, <2>3, <3>4 DEF Beating
        <4>2. tasks'[t].state = "closed"
          BY <1>2, <1>6, <2>5, <3>4
        <4>3. \A d \in Finishing(t)' : FromRequest(call'[d].req) = FromRequest(req)
          BY <1>5, <1>6, <3>3
        <4> QED
          BY <1>6, <2>1, <3>1, <3>2, <3>3, <4>1, <4>2, <4>3 DEF Covered
      <3>5. CASE /\ req.rpc = "RecordActivityTaskHeartbeat" /\ ~Finishes(req.rpc)
                 /\ FromRequest(req) = 1
        <4>1. Beating(t)' = Beating(t) \cup {c}
          BY <1>5, <1>6, <2>3, <2>5, <3>5 DEF Beating
        <4>2. IsFiniteSet(Beating(t)') /\ Cardinality(Beating(t)') = Cardinality(Beating(t)) + 1
          BY <2>2, <3>2, <4>1, FS_AddElement
        <4>3. Finishing(t)' = {}
          BY <1>5, <1>6, <3>3, <3>5 DEF Finishing
        <4> QED
          BY <2>1, <3>1, <3>2, <3>5, <4>2, <4>3 DEF Covered
      <3>6. CASE /\ req.rpc = "RespondQueryTaskCompleted" /\ ~Finishes(req.rpc)
                 /\ FromRequest(req) = 0
        <4>1. Beating(t)' = Beating(t) /\ Finishing(t)' = {}
          BY <1>5, <1>6, <2>2, <2>3, <3>3, <3>6 DEF Beating, Finishing
        <4> QED
          BY <2>1, <3>1, <3>2, <3>6, <4>1 DEF Covered
      <3> QED
        BY <2>5, <3>4, <3>5, <3>6, TokenRPCBills
    <2> QED
      BY <2>4, <2>5
  <1>8. billed' \in [Tokens -> Nat] /\ logged' \in [Tokens -> Nat]
    BY <1>0, ServerBills DEF Bills
  <1> QED
    BY <1>7, <1>8 DEF Bills

\* A response that is lost was billed, and is never logged.
LEMMA UpstreamResponseLostBills ==
    ASSUME Inv, Bills, NEW c \in Calls, UpstreamResponseLost(c)
    PROVE  Bills'
  <1>0. /\ pc[c] = "forward" /\ ServerAccepts(call[c].req) /\ UNCHANGED logged
        /\ billed' = BilledAfter(call[c].req) /\ Answer(c, "upstream error")
    BY DEF UpstreamResponseLost
  <1>1. PICK n \in 0..MaxDispatch : \E out \in [1..n -> Dispatches] :
          MayDispatch(call[c].req, out) /\ tasks' = TasksAfter(call[c].req, out)
    BY DEF UpstreamResponseLost
  <1>2. Grows
    BY <1>0, <1>1, ServerStep
  <1>3. pc'[c] = "answered" /\ \A d \in Calls \ {c} : pc'[d] = pc[d] /\ call'[d] = call[d]
    BY <1>0 DEF Answer, Goto, Inv, TypeOK
  <1>4. ASSUME NEW t \in Tokens PROVE Covered(t)'
    <2>a. Covered(t) /\ logged'[t] = logged[t] /\ billed[t] \in Nat
      BY <1>0 DEF Bills
    <2>b. tasks[t].state = "closed" => tasks'[t].state = "closed"
      BY <1>2 DEF Grows, Issued, Unissued
    <2>1. PICK x \in Nat : billed'[t] = billed[t] + x \/ billed'[t] = billed[t]
      BY <1>0, ServerBills
    <2>2. billed'[t] \in Nat /\ billed[t] <= billed'[t]
      BY <2>a, <2>1
    <2>3. Beating(t)' \subseteq Beating(t)
      BY <1>3, BeatingMoves, BeatingEnds DEF Beating
    <2>4. \A d \in Finishing(t)' : d \in Finishing(t) /\ call'[d].req = call[d].req
      BY <1>3, BeatingMoves, BeatingEnds DEF Finishing
    <2> QED
      BY <2>a, <2>b, <2>2, <2>3, <2>4, FinishingRequest, CoveredStays
  <1>5. billed' \in [Tokens -> Nat] /\ logged' \in [Tokens -> Nat]
    BY <1>0, ServerBills DEF Bills
  <1> QED
    BY <1>4, <1>5 DEF Bills

\* What a call logs it no longer owes.
LEMMA ReplyBills ==
    ASSUME Inv, Bills, NEW c \in Calls, Reply(c)
    PROVE  Bills'
  <1>0. /\ pc[c] = "record" /\ Answer(c, "ok") /\ UNCHANGED <<tasks, billed>>
        /\ logged' = IF call[c].req.rpc \in TokenRPCs
                     THEN [logged EXCEPT ![call[c].req.token] = @ + FromRequest(call[c].req)]
                     ELSE logged
    BY DEF Reply
  <1>1. pc'[c] = "answered" /\ \A d \in Calls \ {c} : pc'[d] = pc[d] /\ call'[d] = call[d]
    BY <1>0 DEF Answer, Goto, Inv, TypeOK
  <1>2. call[c] \in ActiveCalls /\ Scoped(c)
    BY <1>0 DEF Inv, CallOK
  <1>3. PICK req \in Requests : req = call[c].req /\ FromRequest(req) \in Nat
    BY <1>2, FromRequestType DEF ActiveCalls
  <1>4. req.rpc \in TokenRPCs => req.token \in Tokens
    BY <1>2, <1>3 DEF Scoped
  <1>5. /\ logged' \in [Tokens -> Nat] /\ billed' \in [Tokens -> Nat]
        /\ \A t \in Tokens :
              logged'[t] = IF req.rpc \in TokenRPCs /\ t = req.token
                           THEN logged[t] + FromRequest(req) ELSE logged[t]
    BY <1>0, <1>3, <1>4 DEF Bills
  <1>6. ASSUME NEW t \in Tokens PROVE Covered(t)'
    <2>1. /\ Covered(t) /\ billed[t] \in Nat /\ logged[t] \in Nat /\ billed'[t] = billed[t]
          /\ tasks'[t] = tasks[t]
      BY <1>0 DEF Bills, Covered
    <2>2. c \notin Beating(t)' /\ c \notin Finishing(t)'
      BY <1>1, BeatingEnds
    <2>3. \A d \in Calls \ {c} : /\ (d \in Beating(t)' <=> d \in Beating(t))
                                 /\ (d \in Finishing(t)' <=> d \in Finishing(t))
                                 /\ call'[d].req = call[d].req
      BY <1>1, BeatingMoves
    <2>4. Beating(t)' = Beating(t) \ {c} /\ Finishing(t)' = Finishing(t) \ {c}
      BY <2>2, <2>3 DEF Beating, Finishing
    <2>5. IsFiniteSet(Beating(t)) /\ Cardinality(Beating(t)) \in Nat
          /\ logged[t] + Cardinality(Beating(t)) <= billed[t]
      BY <2>1, FS_CardinalityType DEF Covered
    <2>6. CASE ~(req.rpc \in TokenRPCs /\ t = req.token)
      <3>1. logged'[t] = logged[t]
        BY <1>5, <2>6
      <3>2. \A d \in Finishing(t)' : d \in Finishing(t) /\ call'[d].req = call[d].req
        BY <2>3, <2>4 DEF Finishing
      <3> QED
        BY <2>1, <2>4, <3>1, <3>2, FinishingRequest, CoveredStays
    <2>7. CASE req.rpc \in TokenRPCs /\ t = req.token
      <3>1. logged'[t] = logged[t] + FromRequest(req)
        BY <1>5, <2>7
      <3>2. CASE Finishes(req.rpc) /\ req.rpc # "RecordActivityTaskHeartbeat"
        <4>1. c \in Finishing(t) /\ c \notin Beating(t)
          BY <1>0, <1>3, <2>7, <3>2 DEF Finishing, Beating
        <4>2. logged[t] + Cardinality(Beating(t)) + FromRequest(req) <= billed[t]
          BY <1>3, <2>1, <4>1 DEF Covered
        <4>3. Finishing(t)' = {} /\ Beating(t)' = Beating(t)
          BY <2>1, <2>4, <4>1 DEF Covered
        <4> QED
          BY <1>3, <2>1, <2>5, <3>1, <4>2, <4>3 DEF Covered
      <3>3. CASE /\ req.rpc = "RecordActivityTaskHeartbeat" /\ ~Finishes(req.rpc)
                 /\ FromRequest(req) = 1
        <4>1. c \in Beating(t)
          BY <1>0, <1>3, <2>7, <3>3 DEF Beating
        <4>2. IsFiniteSet(Beating(t)') /\ Cardinality(Beating(t)') = Cardinality(Beating(t)) - 1
          BY <2>4, <2>5, <4>1, FS_RemoveElement
        <4>3. \A d \in Finishing(t)' :
                /\ d \in Finishing(t) /\ FromRequest(call'[d].req) \in Nat
                /\ logged[t] + Cardinality(Beating(t)) + FromRequest(call'[d].req) <= billed[t]
                /\ tasks'[t].state = "closed"
          <5> SUFFICES ASSUME NEW d \in Finishing(t)'
                       PROVE  /\ d \in Finishing(t) /\ FromRequest(call'[d].req) \in Nat
                              /\ logged[t] + Cardinality(Beating(t)) + FromRequest(call'[d].req)
                                    <= billed[t]
                              /\ tasks'[t].state = "closed"
            OBVIOUS
          <5>1. d \in Finishing(t) /\ call'[d].req = call[d].req
            BY <2>3, <2>4 DEF Finishing
          <5> QED
            BY <2>1, <5>1, FinishingRequest DEF Covered
        <4>4. \A d, e \in Finishing(t)' : d = e
          BY <2>1, <2>4 DEF Covered
        <4> QED
          BY <2>1, <2>5, <3>1, <3>3, <4>2, <4>3, <4>4 DEF Covered
      <3>4. CASE /\ req.rpc = "RespondQueryTaskCompleted" /\ ~Finishes(req.rpc)
                 /\ FromRequest(req) = 0
        <4>1. logged'[t] = logged[t]
          BY <2>1, <3>1, <3>4
        <4>2. \A d \in Finishing(t)' : d \in Finishing(t) /\ call'[d].req = call[d].req
          BY <2>3, <2>4 DEF Finishing
        <4> QED
          BY <2>1, <2>4, <4>1, <4>2, FinishingRequest, CoveredStays
      <3> QED
        BY <2>7, <3>2, <3>3, <3>4, TokenRPCBills
    <2> QED
      BY <2>6, <2>7
  <1> QED
    BY <1>5, <1>6 DEF Bills

LEMMA OutsideBills ==
    ASSUME Inv, Bills,
           \/ \E s \in Stores, t \in Tokens : StoreForgets(s, t)
           \/ \E w \in late : LateWrite(w)
           \/ \E t \in Tokens : TaskTimesOut(t)
           \/ \E i \in Instances : Crash(i)
           \/ UNCHANGED vars
    PROVE  Bills'
  <1>1. UNCHANGED <<billed, logged>>
    BY DEF StoreForgets, LateWrite, TaskTimesOut, Crash, vars, ghosts
  <1>2. Grows
    <2>1. CASE UNCHANGED tasks
      BY <2>1, SameTasks
    <2>2. ASSUME NEW u \in Tokens, TaskTimesOut(u) PROVE Grows
      <3>1. tasks \in [Tokens -> TaskRecords]
        BY DEF Inv, TypeOK
      <3>2. tasks[u] \in TaskRecords \ {Unissued} /\ tasks[u].state = "open"
        BY <2>2, <3>1 DEF TaskTimesOut, Unissued
      <3>3. \A t \in Tokens :
              tasks'[t] = IF t = u THEN [tasks[u] EXCEPT !.state = "closed"] ELSE tasks[t]
        BY <2>2, <3>1 DEF TaskTimesOut
      <3>4. /\ [tasks[u] EXCEPT !.state = "closed"].state = "closed"
            /\ [tasks[u] EXCEPT !.state = "closed"].ns = tasks[u].ns
            /\ [tasks[u] EXCEPT !.state = "closed"].queue = tasks[u].queue
        BY <3>2 DEF TaskRecords, Unissued
      <3>5. ASSUME NEW t \in Tokens, Issued(t)
            PROVE  /\ tasks'[t] # Unissued
                   /\ tasks'[t].ns = tasks[t].ns /\ tasks'[t].queue = tasks[t].queue
                   /\ tasks'[t].state = "open" => tasks[t].state = "open"
                   /\ tasks[t].state = "closed" => tasks'[t].state = "closed"
        <4>1. CASE t = u
          <5>1. tasks'[t].state # Unissued.state
            BY <3>3, <3>4, <4>1 DEF Unissued
          <5> QED
            BY <3>2, <3>3, <3>4, <4>1, <5>1
        <4>2. CASE t # u
          BY <3>3, <3>5, <4>2 DEF Issued
        <4> QED
          BY <4>1, <4>2
      <3> QED
        BY <3>5 DEF Grows, Issued, TaskScope
    <2> QED
      BY <2>1, <2>2 DEF StoreForgets, LateWrite, Crash, vars
  <1>3. ASSUME NEW c \in Calls
        PROVE  pc'[c] = "idle" \/ (pc'[c] = pc[c] /\ call'[c] = call[c])
    BY DEF StoreForgets, LateWrite, TaskTimesOut, Crash, vars
  <1>4. ASSUME NEW t \in Tokens
        PROVE  /\ Beating(t)' \subseteq Beating(t)
               /\ \A c \in Finishing(t)' : c \in Finishing(t) /\ call'[c].req = call[c].req
    <2>1. ASSUME NEW c \in Beating(t)' PROVE c \in Beating(t)
      BY <1>3, BeatingMoves, BeatingEnds DEF Beating
    <2>2. ASSUME NEW c \in Finishing(t)' PROVE c \in Finishing(t) /\ call'[c].req = call[c].req
      BY <1>3, BeatingMoves, BeatingEnds DEF Finishing
    <2> QED
      BY <2>1, <2>2
  <1> QED
    BY <1>1, <1>2, <1>4, BillsStay
-----------------------------------------------------------------------------
\* An answered call stays answered until its slot is free again.
LEMMA AnsweredStays ==
    ASSUME Inv, [Next]_vars, NEW c \in Calls, pc[c] = "answered"
    PROVE  pc'[c] = "answered" \/ call'[c] = NoCall
  <1>0. pc \in [Calls -> Steps] /\ call \in [Calls -> ActiveCalls \cup {NoCall}]
    BY DEF Inv, TypeOK
  <1>1. ASSUME NEW d \in Calls, Proceed(d) PROVE pc'[c] = "answered" \/ call'[c] = NoCall
    <2>1. CASE Done(d)
      BY <1>0, <2>1 DEF Done, Goto
    <2>2. CASE ~Done(d)
      <3>1. d # c
        BY <1>1, <2>2 DEF Proceed, LookupHit, LookupMiss, LookupFails, UpstreamSucceeds,
           UpstreamResponseLost, UpstreamFails, Evict, EvictFails, Record, RecordFails,
           Recording, Reply
      <3>2. pc' = pc \/ \E step : pc' = [pc EXCEPT ![d] = step]
        BY <1>1, <2>2 DEF Proceed, LookupHit, LookupMiss, LookupFails, UpstreamSucceeds,
           UpstreamResponseLost, UpstreamFails, Evict, EvictFails, Record, RecordFails,
           Reply, Answer, Goto
      <3> QED
        BY <1>0, <3>1, <3>2
    <2> QED
      BY <2>1, <2>2
  <1>2. ASSUME NEW d \in Calls, NEW i \in Instances, NEW req \in Requests, Receive(d, i, req)
        PROVE  pc'[c] = "answered"
    BY <1>0, <1>2 DEF Receive, Goto
  <1> QED
    BY <1>1, <1>2 DEF Next, StoreForgets, LateWrite, TaskTimesOut, Crash, vars

(* A step leaves a call unanswered and without a code, or answers it; only   *)
(* Receive, LookupHit and LookupMiss deny.                                   *)
LEMMA StepCodes ==
    ASSUME Inv, Coded, [Next]_vars, NEW c \in Calls, pc[c] # "answered"
    PROVE  /\ pc'[c] # "answered" => call'[c].code = "none"
           /\ call'[c].code = "PermissionDenied" =>
                 \/ LookupHit(c) \/ LookupMiss(c)
                 \/ \E i \in Instances, req \in Requests : Receive(c, i, req)
  <1>0. /\ pc \in [Calls -> Steps] /\ call \in [Calls -> ActiveCalls \cup {NoCall}]
        /\ call[c].code = "none" /\ (pc[c] # "idle" => call[c] \in ActiveCalls)
    BY DEF Inv, TypeOK, Coded, CallOK
  <1>1. CASE pc'[c] = pc[c] /\ call'[c] = call[c]
    BY <1>0, <1>1
  <1>2. CASE call'[c] = NoCall
    BY <1>2 DEF NoCall
  <1>3. ASSUME NEW code \in Codes, pc[c] # "idle", Answer(c, code)
        PROVE  pc'[c] = "answered" /\ call'[c].code = code
    <2>1. call' = [call EXCEPT ![c] = [call[c] EXCEPT !.code = code]] /\ pc'[c] = "answered"
      BY <1>0, <1>3 DEF Answer, Goto
    <2> QED
      BY <1>0, <1>3, <2>1 DEF ActiveCalls
  <1>4. ASSUME NEW d \in Calls, NEW i \in Instances, NEW req \in Requests, Receive(d, i, req)
        PROVE  d # c => pc'[c] = pc[c] /\ call'[c] = call[c]
    BY <1>0, <1>4 DEF Receive, Goto
  <1>5. ASSUME NEW d \in Calls, Proceed(d), d # c PROVE pc'[c] = pc[c] /\ call'[c] = call[c]
    <2>1. \/ LookupHit(d) \/ LookupMiss(d) \/ LookupFails(d)
          \/ UpstreamFails(d) \/ UpstreamResponseLost(d) \/ UpstreamSucceeds(d)
          \/ Evict(d) \/ EvictFails(d) \/ Record(d) \/ RecordFails(d) \/ Reply(d) \/ Done(d)
      BY <1>5 DEF Proceed
    <2>2. CASE LookupHit(d) \/ LookupMiss(d) \/ LookupFails(d) \/ UpstreamFails(d)
               \/ UpstreamResponseLost(d)
      BY <1>0, <1>5, <2>2 DEF LookupHit, LookupMiss, LookupFails, UpstreamFails,
                              UpstreamResponseLost, Answer, Goto
    <2>3. CASE UpstreamSucceeds(d)
      BY <1>0, <1>5, <2>3 DEF UpstreamSucceeds, Goto
    <2>4. CASE Evict(d) \/ EvictFails(d) \/ Record(d) \/ RecordFails(d) \/ Reply(d) \/ Done(d)
      BY <1>0, <1>5, <2>4 DEF Evict, EvictFails, Record, RecordFails, Reply, Done, Answer, Goto
    <2> QED
      BY <2>1, <2>2, <2>3, <2>4
  <1>6. ASSUME NEW i \in Instances, NEW req \in Requests, Receive(c, i, req)
        PROVE  pc'[c] # "answered" => call'[c].code = "none"
    BY <1>0, <1>6 DEF Receive, Goto, NewCall
  <1>7. CASE LookupHit(c)
    <2>1. CASE Answer(c, "PermissionDenied")
      BY <1>3, <1>7, <2>1 DEF LookupHit, Codes
    <2>2. ASSUME NEW q, Goto(c, "forward"), call' = [call EXCEPT ![c].queue = q]
          PROVE  call'[c].code = "none"
      <3>1. call'[c] = [call[c] EXCEPT !.queue = q] /\ call[c] \in ActiveCalls
        BY <1>0, <1>7, <2>2 DEF LookupHit
      <3> QED
        BY <1>0, <3>1 DEF ActiveCalls
    <2> QED
      BY <1>7, <2>1, <2>2 DEF LookupHit
  <1>8. CASE LookupMiss(c)
    BY <1>3, <1>8 DEF LookupMiss, Codes
  <1>9. CASE LookupFails(c) \/ UpstreamFails(c) \/ UpstreamResponseLost(c) \/ RecordFails(c) \/ Reply(c)
    BY <1>3, <1>9 DEF LookupFails, UpstreamFails, UpstreamResponseLost, RecordFails, Recording,
                      Reply, Codes
  <1>10. CASE UpstreamSucceeds(c)
    <2>1. PICK n \in 0..MaxDispatch : \E out \in [1..n -> Dispatches] :
            call' = [call EXCEPT ![c].tokens = [j \in 1..n |-> out[j].token]]
      BY <1>10 DEF UpstreamSucceeds
    <2>2. PICK toks : call'[c] = [call[c] EXCEPT !.tokens = toks]
      BY <1>0, <2>1
    <2>3. call[c] \in ActiveCalls
      BY <1>0, <1>10 DEF UpstreamSucceeds
    <2> QED
      BY <1>0, <2>2, <2>3 DEF ActiveCalls
  <1>11. CASE Record(c)
    <2>1. Recording(c) /\ pc[c] = "record" /\ call[c] \in ActiveCalls
      BY <1>0, <1>11 DEF Record, Recording
    <2>2. call'[c] = [call[c] EXCEPT !.recorded = call[c].recorded + 1]
      BY <1>0, <1>11, <2>1, RecordingToken DEF Record
    <2> QED
      BY <1>0, <2>1, <2>2 DEF ActiveCalls
  <1>12. CASE Evict(c) \/ EvictFails(c)
    BY <1>0, <1>12 DEF Evict, EvictFails
  <1>13. CASE Done(c)
    BY <1>0, <1>2, <1>13 DEF Done
  <1>14. ASSUME \/ \E s \in Stores, t \in Tokens : StoreForgets(s, t)
                \/ \E w \in late : LateWrite(w)
                \/ \E t \in Tokens : TaskTimesOut(t)
                \/ \E i \in Instances : Crash(i)
                \/ UNCHANGED vars
         PROVE  call'[c] = NoCall \/ (pc'[c] = pc[c] /\ call'[c] = call[c])
    BY <1>14 DEF StoreForgets, LateWrite, TaskTimesOut, Crash, vars
  <1>15. CASE \E d \in Calls : Proceed(d)
    BY <1>1, <1>5, <1>7, <1>8, <1>9, <1>10, <1>11, <1>12, <1>13, <1>15 DEF Proceed
  <1>16. CASE \E d \in Calls, i \in Instances, req \in Requests : Receive(d, i, req)
    BY <1>1, <1>4, <1>6, <1>16
  <1> QED
    BY <1>1, <1>2, <1>14, <1>15, <1>16 DEF Next

LEMMA InitHistory == Init => History
  <1> SUFFICES ASSUME Init PROVE History
    OBVIOUS
  <1>1. Coded
    BY DEF Init, Coded, NoCall
  <1>2. ASSUME NEW t \in Tokens PROVE Placed(t)
    <2>1. \A c \in Calls : ~Uses(c, t) /\ ~Finished(c, t) /\ \A j : ~Waits(c, j, t)
      BY DEF Init, Uses, Finished, Waits
    <2>2. ~Overdue(t) /\ t \notin consumed /\ \A s \in Stores : store[s][t] = None
      BY DEF Init, Overdue, S!EmptyStore
    <2> QED
      BY <2>1, <2>2 DEF Placed
  <1>3. ASSUME NEW t \in Tokens PROVE Covered(t)
    <2>1. Beating(t) = {} /\ Finishing(t) = {}
      BY DEF Init, Beating, Finishing
    <2>2. logged[t] = 0 /\ billed[t] = 0
      BY DEF Init
    <2> QED
      BY <2>1, <2>2, FS_EmptySet DEF Covered
  <1>4. Bills
    BY <1>3 DEF Bills, Init
  <1> QED
    BY <1>1, <1>2, <1>4 DEF History

LEMMA StepHistory == Inv /\ History /\ [Next]_vars => History'
  <1> SUFFICES ASSUME Inv, History, [Next]_vars PROVE History'
    OBVIOUS
  <1>0. Coded /\ Bills /\ \A t \in Tokens : Placed(t)
    BY DEF History
  <1>1. Coded'
    <2> SUFFICES ASSUME NEW c \in Calls, pc'[c] # "answered" PROVE call'[c].code = "none"
      BY DEF Coded
    <2>1. CASE pc[c] = "answered"
      BY <2>1, AnsweredStays DEF NoCall
    <2>2. CASE pc[c] # "answered"
      BY <1>0, <2>2, StepCodes
    <2> QED
      BY <2>1, <2>2
  <1>2. \A t \in Tokens : Placed(t)'
    <2>1. ASSUME NEW c \in Calls, Proceed(c) PROVE \A t \in Tokens : Placed(t)'
      BY <1>0, <2>1, LookupHitPlaced, EarlyReturnPlaced, UpstreamSucceedsPlaced, EvictPlaced,
         RecordPlaced, RecordFailsPlaced, ReplyPlaced, DonePlaced DEF Proceed
    <2> QED
      BY <1>0, <2>1, ReceivePlaced, OutsidePlaced, LateWritePlaced, CrashPlaced DEF Next
  <1>3. Bills'
    <2>1. ASSUME NEW c \in Calls, Proceed(c) PROVE Bills'
      BY <1>0, <2>1, CallBills, UpstreamSucceedsBills, UpstreamResponseLostBills, ReplyBills
         DEF Proceed
    <2> QED
      BY <1>0, <2>1, CallBills, OutsideBills DEF Next
  <1> QED
    BY <1>1, <1>2, <1>3 DEF History

\* The history invariant holds throughout, on top of ProxyProofs' invariant.
THEOREM HistoryInvariance == Spec => [](Inv /\ History)
  <1>1. Init => Inv /\ History
    BY InitInv, InitHistory
  <1>2. Inv /\ History /\ [Next]_vars => (Inv /\ History)'
    BY StepInv, StepHistory
  <1> QED
    BY <1>1, <1>2, PTL DEF Spec

(* ConsumedTokensForgotten: after the last answer to a task no store has its *)
(* token, whichever store recorded it and whatever writes were late, unless  *)
(* the Delete itself failed.                                                 *)
THEOREM ConsumedGone == Spec => []ConsumedTokensForgotten
  <1>1. Inv /\ History => ConsumedTokensForgotten
    BY DEF Inv, TypeOK, History, Placed, Nowhere, ConsumedTokensForgotten
  <1> QED
    BY <1>1, HistoryInvariance, PTL

(* LogIsLowerBound: for any number of calls racing on a task, with lost      *)
(* responses and crashes, nothing is logged that the server did not bill.    *)
THEOREM LogBounded == Spec => []LogIsLowerBound
  <1>1. History => LogIsLowerBound
    <2> SUFFICES ASSUME History, NEW t \in Tokens PROVE logged[t] <= billed[t]
      BY DEF LogIsLowerBound
    <2>1. /\ logged[t] \in Nat /\ billed[t] \in Nat /\ IsFiniteSet(Beating(t))
          /\ logged[t] + Cardinality(Beating(t)) <= billed[t]
      BY DEF History, Bills, Covered
    <2>2. Cardinality(Beating(t)) \in Nat
      BY <2>1, FS_CardinalityType
    <2> QED
      BY <2>1, <2>2
  <1> QED
    BY <1>1, HistoryInvariance, PTL
-----------------------------------------------------------------------------
(* Denials. *)

LEMMA OwnEntry ==
    ASSUME NEW id, NEW ns, NEW q, Entry(ns, q) \in Own(id)
    PROVE  ns = id.ns /\ q \in id.queues
  BY DEF Own, Entry

\* What an entitled request asks for, the checks before the lookup allow.
LEMMA EntitledPermitted ==
    ASSUME Inv, NEW req \in Requests, NEW id \in Identities, NEW s, Entitled(req, id, s)
    PROVE  Permitted(req, id)
  <1>0. /\ id.valid /\ req.rpc \in AllowedRPCs /\ WorkTouched(req) \subseteq Own(id)
        /\ req.rpc # "GetSystemInfo" => req.ns = id.ns
        /\ req.rpc \in PollRPCs => req.tq.name # Empty
        /\ req.rpc \in TokenRPCs => <<req.token, s>> \in delivered
    BY DEF Entitled
  <1>1. id.queues \subseteq Queues
    BY <1>0 DEF Identities
  <1>2. ASSUME req.rpc \in {"PollNexusTaskQueue", "RecordWorkerHeartbeat"}
        PROVE  HeartbeatsAllowed(req, id)
    <2>1. req.heartbeats \in Seq(Queues \cup {Empty})
      BY RequestAssumption, Zenon
    <2>2. DOMAIN req.heartbeats = 1..Len(req.heartbeats)
      BY <2>1, LenProperties
    <2>3. ASSUME NEW j \in 1..Len(req.heartbeats) PROVE req.heartbeats[j] \in id.queues
      <3>1. Entry(req.ns, req.heartbeats[j]) \in Own(id)
        BY <1>0, <1>2, <2>2 DEF WorkTouched
      <3> QED
        BY <3>1, OwnEntry
    <2> QED
      BY <1>1, <2>3, EmptyAssumption DEF HeartbeatsAllowed, AllowsTaskQueue
  <1>3. CASE req.rpc \in PollRPCs
    <2>1. Entry(req.ns, QueueServed(req.tq)) \in Own(id)
      BY <1>0, <1>3 DEF WorkTouched
    <2>2. PollTaskQueueScope(req.tq) \in id.queues
      BY <2>1, OwnEntry DEF QueueServed, PollTaskQueueScope
    <2>3. Category(req.rpc) = "poll" /\ req.rpc # "GetSystemInfo"
      BY <1>0, <1>3, Categories DEF PollRPCs
    <2> QED
      BY <1>0, <1>1, <1>2, <1>3, <2>2, <2>3, EmptyAssumption
         DEF Permitted, AuthorizeRequest, NamespaceMatches, AllowsTaskQueue
  <1>4. CASE req.rpc \in TokenRPCs
    <2>1. req.token \in Tokens
      BY <1>0, <1>4 DEF Inv, TypeOK
    <2>2. Category(req.rpc) = "token" /\ req.rpc # "GetSystemInfo"
      BY <1>0, <1>4, Categories DEF TokenRPCs
    <2> QED
      BY <1>0, <2>1, <2>2, EmptyAssumption
         DEF Permitted, AuthorizeRequest, NamespaceMatches, RequestTaskToken
  <1>5. CASE req.rpc = "GetSystemInfo"
    BY <1>0, <1>5, Categories DEF Permitted, AuthorizeRequest
  <1>6. CASE req.rpc = "DescribeNamespace"
    BY <1>0, <1>6, Categories DEF Permitted, AuthorizeRequest, NamespaceMatches
  <1>7. CASE req.rpc = "ShutdownWorker"
    <2>1. req.tq.name # Empty => Entry(req.ns, req.tq.name) \in Own(id)
      BY <1>0, <1>7 DEF WorkTouched
    <2>2. req.tq.name # Empty => req.tq.name \in id.queues
      BY <2>1, OwnEntry
    <2> QED
      BY <1>0, <1>7, <2>2, Categories DEF Permitted, AuthorizeRequest, NamespaceMatches, AllowsTaskQueue
  <1>8. CASE req.rpc = "RecordWorkerHeartbeat"
    BY <1>0, <1>2, <1>8, Categories DEF Permitted, AuthorizeRequest, NamespaceMatches
  <1> QED
    BY <1>0, <1>3, <1>4, <1>5, <1>6, <1>7, <1>8 DEF AllowedRPCs

\* Commands that stay on the task's queue pass ValidateCommands.
LEMMA StayingCommands ==
    ASSUME NEW req \in Requests, req.rpc = "RespondWorkflowTaskCompleted",
           StaysOnTaskQueue(req), NEW ns, NEW queue, TaskScope(req.token) = Entry(ns, queue)
    PROVE  ValidateCommands(req.commands, ns, queue)
  <1> DEFINE Values == [type : STRING, ns : Namespaces \cup {Empty},
                        queue : Queues \cup {Empty}]
  <1>0. req.commands \in Seq(Values)
    BY RequestAssumption, Zenon
  <1> HIDE DEF Values
  <1>1. DOMAIN req.commands = 1..Len(req.commands)
    BY <1>0, LenProperties
  <1>2. tasks[req.token].ns = ns /\ tasks[req.token].queue = queue
    BY DEF TaskScope, Entry
  <1>3. ASSUME NEW j \in 1..Len(req.commands)
        PROVE  LET cmd == req.commands[j] IN
               /\ cmd.type = "ScheduleActivityTask" => cmd.queue = queue
               /\ cmd.type = "StartChildWorkflowExecution" =>
                     cmd.queue = queue /\ cmd.ns \in {Empty, ns}
               /\ cmd.type = "ContinueAsNewWorkflowExecution" => cmd.queue \in {Empty, queue}
    <2>1. PICK cmd : cmd = req.commands[j]
      OBVIOUS
    <2>2. WorkDirected(cmd, req.token) \subseteq {Entry(ns, queue)}
      BY <1>1, <2>1 DEF StaysOnTaskQueue
    <2>3. cmd.type = "ScheduleActivityTask" => Entry(ns, cmd.queue) = Entry(ns, queue)
      BY <1>2, <2>2 DEF WorkDirected
    <2>4. cmd.type = "StartChildWorkflowExecution" =>
            Entry(IF cmd.ns = Empty THEN ns ELSE cmd.ns, cmd.queue) = Entry(ns, queue)
      BY <1>2, <2>2 DEF WorkDirected
    <2>5. cmd.type = "ContinueAsNewWorkflowExecution" =>
            Entry(ns, IF cmd.queue = Empty THEN queue ELSE cmd.queue) = Entry(ns, queue)
      BY <1>2, <2>2 DEF WorkDirected
    <2> QED
      BY <2>1, <2>3, <2>4, <2>5 DEF Entry
  <1> QED
    BY <1>3 DEF ValidateCommands

(* DenialsAreDeserved: for every request the server itself would serve the   *)
(* caller, and whatever the other calls do, no check denies it.              *)
THEOREM DenialsForCause == Spec => DenialsAreDeserved
  <1> DEFINE Deserved ==
          \A c \in Calls :
             pc[c] # "answered" /\ call'[c].code = "PermissionDenied" =>
                 ~Entitled(call'[c].req, call'[c].id, StoreOf(call'[c].inst))
  <1>1. ASSUME Inv, History, [Next]_vars, NEW c \in Calls,
               pc[c] # "answered", call'[c].code = "PermissionDenied",
               Entitled(call'[c].req, call'[c].id, StoreOf(call'[c].inst))
        PROVE  FALSE
    <2>0. pc \in [Calls -> Steps] /\ call \in [Calls -> ActiveCalls \cup {NoCall}]
      BY <1>1 DEF Inv, TypeOK
    <2>1. \/ LookupHit(c) \/ LookupMiss(c)
          \/ \E i \in Instances, req \in Requests : Receive(c, i, req)
      BY <1>1, StepCodes DEF History
    <2>2. ASSUME NEW i \in Instances, NEW req \in Requests, Receive(c, i, req) PROVE FALSE
      <3>1. PICK id \in IdentitiesFor(req) :
              /\ ~Permitted(req, id)
              /\ call' = [call EXCEPT ![c] = NewCall(i, req, id, Empty, "PermissionDenied")]
        BY <1>1, <2>0, <2>2 DEF Receive, NewCall
      <3>2. call'[c].req = req /\ call'[c].id = id
        BY <2>0, <3>1 DEF NewCall
      <3>3. id \in Identities
        BY IdentityTypes
      <3> QED
        BY <1>1, <3>1, <3>2, <3>3, EntitledPermitted
    <2>3. ASSUME pc[c] = "lookup", Answer(c, "PermissionDenied"),
                 LookupHit(c) \/ LookupMiss(c)
          PROVE  FALSE
      <3>1. /\ call[c] \in ActiveCalls /\ call[c].req.rpc \in TokenRPCs
        BY <1>1, <2>3 DEF Inv, CallOK
      <3>2. call'[c] = [call[c] EXCEPT !.code = "PermissionDenied"]
        BY <2>0, <2>3 DEF Answer
      <3>3. call'[c].req = call[c].req /\ call'[c].id = call[c].id /\ call'[c].inst = call[c].inst
        BY <3>1, <3>2 DEF ActiveCalls
      <3>4. PICK req \in Requests, id \in Identities : req = call[c].req /\ id = call[c].id
        BY <3>1 DEF ActiveCalls
      <3>5. PICK s \in Stores : s = CallStore(c) /\ s = StoreOf(call'[c].inst)
        BY <1>1, <2>3, <3>3, CallStoreType DEF CallStore
      <3>6. Entitled(req, id, s)
        BY <1>1, <3>3, <3>4, <3>5
      <3>7. PICK t \in Tokens : t = req.token /\ t = CallToken(c)
        BY <1>1, <3>1, <3>4, <3>6 DEF Entitled, Inv, TypeOK, CallToken, RequestTaskToken
      <3>8. /\ <<t, s>> \in delivered \ forgotten /\ tasks[t].state = "open"
            /\ TaskScope(t) \in Own(id) /\ StaysOnTaskQueue(req)
        BY <3>1, <3>4, <3>6, <3>7 DEF Entitled, WorkTouched
      <3>9. store[s][t] # None
        BY <1>1, <3>8 DEF Inv, DeliveredHeld, Held
      <3>10. store[s][t] = TaskScope(t)
        BY <1>1, <3>9 DEF Inv, StoresTrue
      <3>11. PICK ns, queue : TaskScope(t) = Entry(ns, queue)
        BY DEF TaskScope
      <3>12. ns = id.ns /\ queue \in id.queues
        BY <3>8, <3>11, OwnEntry
      <3>13. EntryAuthorized(c, store[s][t])
        BY <3>4, <3>10, <3>11, <3>12 DEF EntryAuthorized, AllowsTaskQueue, Entry
      <3>14. call[c].req.rpc = "RespondWorkflowTaskCompleted" =>
                ValidateCommands(call[c].req.commands, call[c].id.ns, store[s][t].queue)
        <4>1. store[s][t].queue = queue
          BY <3>10, <3>11 DEF Entry
        <4>2. TaskScope(req.token) = Entry(ns, queue) /\ StaysOnTaskQueue(req)
          BY <3>7, <3>8, <3>11
        <4>3. req.rpc = "RespondWorkflowTaskCompleted" => ValidateCommands(req.commands, ns, queue)
          BY <4>2, StayingCommands
        <4> QED
          BY <3>4, <3>12, <4>1, <4>3
      <3>15. LookupHit(c) => Goto(c, "forward")
        BY <3>5, <3>7, <3>13, <3>14 DEF LookupHit
      <3>16. Goto(c, "forward") => FALSE
        BY <2>0, <2>3 DEF Answer, Goto
      <3> QED
        BY <2>3, <3>5, <3>7, <3>9, <3>15, <3>16 DEF LookupMiss
    <2>4. CASE LookupHit(c)
      <3>1. pc[c] = "lookup"
        BY <2>4 DEF LookupHit
      <3>2. CASE Answer(c, "PermissionDenied")
        BY <2>3, <2>4, <3>1, <3>2
      <3>3. ASSUME NEW q, call' = [call EXCEPT ![c].queue = q] PROVE FALSE
        <4>1. call[c] \in ActiveCalls /\ call[c].code = "none"
          BY <1>1, <3>1 DEF Inv, CallOK, History, Coded
        <4>2. call'[c] = [call[c] EXCEPT !.queue = q]
          BY <2>0, <3>3
        <4>3. call'[c].code = "none"
          BY <4>1, <4>2 DEF ActiveCalls
        <4> QED
          BY <1>1, <4>3
      <3> QED
        BY <2>4, <3>2, <3>3 DEF LookupHit
    <2>5. CASE LookupMiss(c)
      BY <2>3, <2>5 DEF LookupMiss
    <2> QED
      BY <2>1, <2>2, <2>4, <2>5
  <1>2. Inv /\ History /\ [Next]_vars => [Deserved]_vars
    BY <1>1
  <1> QED
    BY <1>2, HistoryInvariance, PTL DEF Spec, DenialsAreDeserved
=============================================================================
