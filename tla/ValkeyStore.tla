---------------------------- MODULE ValkeyStore -----------------------------
(***************************************************************************)
(* internal/tokencache/valkey.go: the token store kept in Valkey and shared *)
(* by all proxy instances.                                                  *)
(*                                                                         *)
(* A call of the store sends one command.  The server (external) carries    *)
(* commands out one at a time, in whatever order they reach it; the caller  *)
(* waits for the reply until its deadline or until its own caller goes      *)
(* away.  A command whose caller has given up may still be on its way: it   *)
(* is carried out later, or never.                                          *)
(*                                                                         *)
(* The clock counts in units of which Ms make a millisecond.  TTLs are      *)
(* durations, the server knows whole milliseconds only.                     *)
(***************************************************************************)
EXTENDS Integers

CONSTANTS Tokens, Namespaces, Queues, None,
          Callers,      \* goroutines of any proxy instance
          Orphanage,    \* bound: places for commands that outlive their call
          Ms,           \* clock units in a millisecond
          TTLs,         \* the values of ValkeyOptions.TTL to start with
          ReadTimeout, WriteTimeout,
          MaxTime       \* bound: the clock stops here

\* newValkeyGoClient refuses a TTL that is not positive.
ASSUME TtlAssumption  == TTLs \subseteq Nat \ {0} /\ Ms \in Nat \ {0}
ASSUME TimeAssumption == MaxTime \in Nat /\ ReadTimeout \in Int /\ WriteTimeout \in Int

VARIABLES
    ttl,      \* ValkeyOptions.TTL, of all instances
    now,      \* the server's clock
    db,       \* db[k]: what the server holds under key k, or None
    call,     \* call[c]: the command of c's call and its reply
    orphans,  \* orphans[o]: a command nobody waits for, or None
    open,     \* the client has not been closed
    event,    \* the operation this step carried out, or NoEvent
    touched   \* history: t's last Put, with the time t was last set or read;
              \* None before the first and after it was deleted or lost

vars == <<ttl, now, db, call, orphans, open, event, touched>>
-----------------------------------------------------------------------------
Entries == [ns : Namespaces, queue : Queues]
Times   == 0..MaxTime

\* tokenKey: sha256 is taken to be injective.
TokenKey(t) == <<"temporal-proxy:task-token:", t>>
Keys        == {TokenKey(t) : t \in Tokens}

\* encodeValkeyEntry: the JSON object of an entry.
Encode(e) == [namespace |-> e.ns, task_queue |-> e.queue]

\* A value that is not such an object.
Garbage == [garbage |-> TRUE]

\* Mutant of Decode: the two fields are mixed up.
DecodeSwapped(v) == [ns |-> v.task_queue, queue |-> v.namespace]

\* decodeValkeyEntry, for a value that parses.
Decode(v) == [ns |-> v.namespace, queue |-> v.task_queue]

Values == [namespace : Namespaces, task_queue : Queues] \cup {Garbage}

\* Mutant of TtlMilliseconds: the remainder is dropped.
TruncatedMilliseconds(d) == d \div Ms

\* Mutant of TtlMilliseconds: the duration's own unit is passed on.
UnconvertedDuration(d) == d

\* ttlMilliseconds: rounded up, and at least 1.
TtlMilliseconds(d) ==
    LET ms == IF d % Ms # 0 THEN d \div Ms + 1 ELSE d \div Ms
    IN  IF ms > 1 THEN ms ELSE 1

Px == TtlMilliseconds(ttl)

Items   == [value : Values, expire : Nat]
Touches == [value : Values, at : Times]

Command(op, t, v) == [op |-> op, token |-> t, key |-> TokenKey(t), value |-> v, px |-> Px]

Commands ==
    [op : {"set", "getex", "del"}, token : Tokens, key : Keys,
     value : Values \cup {None}, px : Int]

\* What a call is told: "ok", "nil" (no such key), "refused", or a value.
Reply(kind, v) == [kind |-> kind, value |-> v]
NoReply        == Reply("none", None)
Replies        == [kind : {"none", "ok", "nil", "refused", "value"}, value : Values \cup {None}]

Idle  == [at |-> "idle", cmd |-> None, reply |-> NoReply]
Calls == {Idle} \cup [at : {"waiting"}, cmd : Commands, reply : {NoReply}]
                \cup [at : {"replied"}, cmd : Commands, reply : Replies]

ASSUME NoneAssumption ==
    /\ None \notin Entries /\ None \notin Values /\ None \notin Items
    /\ None \notin Touches /\ None \notin Commands

\* The same labels as TokenStore's.
Event(op, t, e) == [op |-> op, token |-> t, entry |-> e]
NoEvent         == Event("none", None, None)

\* Mutant of Deadline: only calls that read get one.
ReadDeadlineOnly(op) == op = "getex" /\ ReadTimeout > 0

\* contextWithOptionalTimeout: whether the call has a deadline of its own.
Deadline(op) == IF op = "getex" THEN ReadTimeout > 0 ELSE WriteTimeout > 0
-----------------------------------------------------------------------------
(* The Valkey server (external). *)

ServerTime == now \div Ms

\* The server finds k: it is there and its expiry has not passed.
Present(k) == db[k] # None /\ ServerTime <= db[k].expire

\* The reply to a command.
ReplyTo(cmd) ==
    CASE cmd.op \in {"set", "getex"} /\ cmd.px <= 0  -> Reply("refused", None)
      [] cmd.op = "getex" /\ cmd.px > 0 /\ Present(cmd.key) -> Reply("value", db[cmd.key].value)
      [] cmd.op = "getex" /\ cmd.px > 0 /\ ~Present(cmd.key) -> Reply("nil", None)
      [] OTHER -> Reply("ok", None)

\* What the server holds under the command's key after a command.
ItemAfter(cmd) ==
    CASE cmd.op = "del" -> None
      [] cmd.op # "del" /\ cmd.px <= 0 -> db[cmd.key]
      [] cmd.op = "set" /\ cmd.px > 0 -> [value |-> cmd.value, expire |-> ServerTime + cmd.px]
      [] cmd.op = "getex" /\ cmd.px > 0 /\ Present(cmd.key) ->
            [value |-> db[cmd.key].value, expire |-> ServerTime + cmd.px]
      [] OTHER -> None

\* The operation a command amounts to.  Reading garbage amounts to nothing.
EventOf(cmd) ==
    LET reply == ReplyTo(cmd) IN
    CASE reply.kind = "refused" -> NoEvent
      [] cmd.op = "set" /\ reply.kind # "refused" -> Event("put", cmd.token, Decode(cmd.value))
      [] cmd.op = "del" -> Event("delete", cmd.token, None)
      [] reply.kind = "nil" -> Event("get", cmd.token, None)
      [] reply.kind = "value" /\ reply.value # Garbage ->
            Event("get", cmd.token, Decode(reply.value))
      [] OTHER -> NoEvent

\* History: the token was set, read or deleted.
TouchedAfter(cmd) ==
    LET old == touched[cmd.token] IN
    CASE cmd.op = "set" -> [value |-> cmd.value, at |-> now]
      [] cmd.op = "del" -> None
      [] cmd.op = "getex" -> IF ReplyTo(cmd).kind = "value" /\ old # None
                             THEN [old EXCEPT !.at = now] ELSE old

\* The server carries a command out.
CarryOut(cmd) ==
    /\ db' = [db EXCEPT ![cmd.key] = ItemAfter(cmd)]
    /\ event' = EventOf(cmd)
    /\ touched' = [touched EXCEPT ![cmd.token] = TouchedAfter(cmd)]
    /\ UNCHANGED <<ttl, now, open>>

\* Time passes; keys expire by it.
ClockAdvances ==
    /\ now < MaxTime
    /\ now' = now + 1
    /\ event' = NoEvent
    /\ UNCHANGED <<ttl, db, call, orphans, open, touched>>

\* The server loses a key (memory pressure, failover, restart).
ServerLoses(t) ==
    /\ db[TokenKey(t)] # None
    /\ db' = [db EXCEPT ![TokenKey(t)] = None]
    /\ touched' = [touched EXCEPT ![t] = None]
    /\ event' = NoEvent
    /\ UNCHANGED <<ttl, now, call, orphans, open>>

\* Something other than this program writes under a key.
KeyOverwritten(t) ==
    /\ Present(TokenKey(t))
    /\ db' = [db EXCEPT ![TokenKey(t)].value = Garbage]
    /\ touched' = [touched EXCEPT ![t] = None]
    /\ event' = NoEvent
    /\ UNCHANGED <<ttl, now, call, orphans, open>>
-----------------------------------------------------------------------------
Init ==
    /\ ttl \in TTLs
    /\ now = 0
    /\ db = [k \in Keys |-> None]
    /\ call = [c \in Callers |-> Idle]
    /\ orphans = [o \in Orphanage |-> None]
    /\ open = TRUE
    /\ event = NoEvent
    /\ touched = [t \in Tokens |-> None]

Send(c, cmd) ==
    /\ call[c] = Idle
    /\ call' = [call EXCEPT ![c] = [at |-> "waiting", cmd |-> cmd, reply |-> NoReply]]
    /\ event' = NoEvent
    /\ UNCHANGED <<ttl, now, db, orphans, open, touched>>

\* ValkeyStore.Put, Get and Delete, up to the command.
Put(c, t, e) == Send(c, Command("set", t, Encode(e)))
Get(c, t)    == Send(c, Command("getex", t, None))
Delete(c, t) == Send(c, Command("del", t, None))

\* The command reaches the server and the reply the caller.
Served(c) ==
    /\ open
    /\ call[c].at = "waiting"
    /\ CarryOut(call[c].cmd)
    /\ call' = [call EXCEPT ![c] = [at |-> "replied", cmd |-> call[c].cmd,
                                    reply |-> ReplyTo(call[c].cmd)]]
    /\ UNCHANGED orphans

(* Put, Get and Delete with a reply: done, found, not found, or an error for *)
(* a refused command and for a value that does not parse.                    *)
Return(c) ==
    /\ call[c].at = "replied"
    /\ call' = [call EXCEPT ![c] = Idle]
    /\ event' = NoEvent
    /\ UNCHANGED <<ttl, now, db, orphans, open, touched>>

(* The call ends with an error before its reply is there: its command was    *)
(* lost, or stays on its way.                                                *)
GiveUp(c) ==
    /\ call[c].at = "waiting"
    /\ call' = [call EXCEPT ![c] = Idle]
    /\ \/ UNCHANGED orphans
       \/ \E o \in Orphanage :
             orphans[o] = None /\ orphans' = [orphans EXCEPT ![o] = call[c].cmd]
    /\ event' = NoEvent
    /\ UNCHANGED <<ttl, now, db, open, touched>>

\* The deadline of contextWithOptionalTimeout passes.
TimesOut(c) == call[c].at = "waiting" /\ Deadline(call[c].cmd.op) /\ GiveUp(c)

\* The caller's context ends, the connection breaks, or the client is closed.
Aborted(c) == GiveUp(c)

\* The server carries out a command nobody waits for.
ServedLate(o) ==
    /\ orphans[o] # None
    /\ CarryOut(orphans[o])
    /\ orphans' = [orphans EXCEPT ![o] = None]
    /\ UNCHANGED call

\* A command nobody waits for is lost.
NeverServed(o) ==
    /\ orphans[o] # None
    /\ orphans' = [orphans EXCEPT ![o] = None]
    /\ event' = NoEvent
    /\ UNCHANGED <<ttl, now, db, call, open, touched>>

\* Close.
Close ==
    /\ open
    /\ open' = FALSE
    /\ event' = NoEvent
    /\ UNCHANGED <<ttl, now, db, call, orphans, touched>>

Next ==
    \/ \E c \in Callers, t \in Tokens : Get(c, t) \/ Delete(c, t)
    \/ \E c \in Callers, t \in Tokens, e \in Entries : Put(c, t, e)
    \/ \E c \in Callers : Served(c) \/ Return(c) \/ TimesOut(c) \/ Aborted(c)
    \/ \E o \in Orphanage : ServedLate(o) \/ NeverServed(o)
    \/ \E t \in Tokens : ServerLoses(t) \/ KeyOverwritten(t)
    \/ ClockAdvances \/ Close

Spec == Init /\ [][Next]_vars

(* Deadlines pass and goroutines are scheduled.  Nothing is assumed of the   *)
(* server, of the connection or of whoever called the store.                 *)
FairSpec == Spec /\ \A c \in Callers : WF_vars(TimesOut(c)) /\ WF_vars(Return(c))
-----------------------------------------------------------------------------
Events ==
    [op : {"none", "put", "get", "delete"},
     token : Tokens \cup {None}, entry : Entries \cup {None}]

TypeOK ==
    /\ ttl \in TTLs
    /\ now \in Times
    /\ db \in [Keys -> Items \cup {None}]
    /\ call \in [Callers -> Calls]
    /\ orphans \in [Orphanage -> Commands \cup {None}]
    /\ open \in BOOLEAN
    /\ event \in Events
    /\ touched \in [Tokens -> Touches \cup {None}]

(* A token set or read within the last TTL, and neither deleted nor lost     *)
(* since, is found with its last entry.  The server counts whole             *)
(* milliseconds from a clock it truncates: only rounding up in               *)
(* ttlMilliseconds makes up for both, and only its lower bound of 1 keeps    *)
(* the server from refusing every SET when the TTL is below a millisecond.   *)
RetainedForTTL ==
    \A t \in Tokens :
        touched[t] # None /\ now <= touched[t].at + ttl =>
            Present(TokenKey(t)) /\ db[TokenKey(t)].value = touched[t].value

(* Get never finds a token that was deleted since, another entry than the    *)
(* last one set, or a token unused for longer than the TTL and what rounding *)
(* adds (less than two milliseconds), also when commands of calls that       *)
(* failed are carried out late.                                              *)
HitsAreCurrent ==
    [][ \A t \in Tokens, e \in Entries :
           event' = Event("get", t, e) =>
               /\ touched[t] # None
               /\ touched[t].value = Encode(e)
               /\ now <= touched[t].at + ttl + 2 * (Ms - 1) ]_vars

(* Every call of the store returns, even if Valkey never answers.            *)
CallsReturn == \A c \in Callers : call[c].at # "idle" ~> call[c].at = "idle"

\* What the store looks like from outside.
Visible ==
    [t \in Tokens |->
        IF Present(TokenKey(t)) /\ db[TokenKey(t)].value # Garbage
        THEN Decode(db[TokenKey(t)].value) ELSE None]

Store == INSTANCE TokenStore WITH contents <- Visible, event <- event

(* With all the callers, late and lost commands, the store is one atomic     *)
(* store: its operations take effect one by one, in the order the server     *)
(* carries commands out.                                                     *)
ImplementsStore == Store!Spec
=============================================================================
