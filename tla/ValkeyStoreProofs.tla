------------------------- MODULE ValkeyStoreProofs --------------------------
(***************************************************************************)
(* ValkeyStore keeps a token for its TTL and little longer, never returns a *)
(* stale entry, and implements the atomic TokenStore, for any number of     *)
(* callers and late commands, any TTL and any unit of time.                 *)
(*                                                                         *)
(* The invariant relates what the server holds under a key to the last use  *)
(* of the token; what the TTL comes to rests on the arithmetic of           *)
(* ttlMilliseconds and of the server's truncated clock.                     *)
(***************************************************************************)
EXTENDS ValkeyStore, TLAPS

\* Division with remainder by the units in a millisecond.
LEMMA DivMs ==
    ASSUME NEW a \in Nat
    PROVE  /\ a \div Ms \in Nat
           /\ Ms * (a \div Ms) <= a
           /\ a < Ms * (a \div Ms) + Ms
           /\ a % Ms = a - Ms * (a \div Ms)
  BY TtlAssumption

\* Products with Ms are ordered as their factors.
LEMMA MulMs ==
    ASSUME NEW a \in Int, NEW b \in Int
    PROVE  /\ Ms * a \in Int /\ Ms * (a + b) = Ms * a + Ms * b
           /\ a <= b => Ms * a <= Ms * b
           /\ Ms * (a + 1) = Ms * a + Ms
  BY TtlAssumption

(* ttlMilliseconds rounds up: the milliseconds cover the duration, by less   *)
(* than one more, and are never none.                                        *)
LEMMA RoundsUp ==
    ASSUME NEW d \in Nat \ {0}
    PROVE  /\ TtlMilliseconds(d) \in Nat \ {0}
           /\ d <= Ms * TtlMilliseconds(d)
           /\ Ms * TtlMilliseconds(d) <= d + Ms - 1
  <1> DEFINE q == d \div Ms
             r == d % Ms
  <1>1. /\ q \in Nat /\ Ms \in Nat \ {0} /\ Ms * q \in Int /\ Ms * (q + 1) = Ms * q + Ms
        /\ Ms * q <= d /\ d < Ms * q + Ms /\ r = d - Ms * q
    BY DivMs, MulMs, TtlAssumption
  <1>2. Ms * 0 = 0 /\ Ms * 1 = Ms
    BY TtlAssumption
  <1>3. TtlMilliseconds(d) = LET ms == IF r # 0 THEN q + 1 ELSE q IN IF ms > 1 THEN ms ELSE 1
    BY DEF TtlMilliseconds
  <1> HIDE DEF q, r
  <1>4. CASE r # 0
    <2>1. TtlMilliseconds(d) = q + 1
      BY <1>1, <1>3, <1>4
    <2> QED
      BY <1>1, <1>4, <2>1
  <1>5. CASE r = 0
    <2>1. q # 0
      BY <1>1, <1>2, <1>5
    <2>2. TtlMilliseconds(d) = q
      BY <1>1, <1>3, <1>5, <2>1
    <2> QED
      BY <1>1, <1>5, <2>1, <2>2
  <1> QED
    BY <1>4, <1>5

(* A key set at time "at" is still there as long as the TTL has not passed,  *)
(* though the server truncates its clock.                                    *)
LEMMA LastsTheTTL ==
    ASSUME NEW d \in Nat \ {0}, NEW at \in Nat, NEW time \in Nat, time <= at + d
    PROVE  time \div Ms <= at \div Ms + TtlMilliseconds(d)
  <1> DEFINE qa == at \div Ms
             qt == time \div Ms
             px == TtlMilliseconds(d)
  <1>1. /\ qa \in Nat /\ qt \in Nat /\ px \in Nat /\ Ms \in Nat \ {0}
        /\ Ms * qt <= time /\ at < Ms * qa + Ms /\ d <= Ms * px
    BY DivMs, RoundsUp, TtlAssumption
  <1> HIDE DEF qa, qt, px
  <1>2. SUFFICES ASSUME qa + px + 1 <= qt PROVE FALSE
    BY <1>1 DEF qa, qt, px
  <1>3. /\ Ms * (qa + px + 1) <= Ms * qt
        /\ Ms * (qa + px + 1) = Ms * (qa + px) + Ms
        /\ Ms * (qa + px) = Ms * qa + Ms * px
        /\ Ms * qa \in Int /\ Ms * px \in Int /\ Ms * qt \in Int
    <2>1. qa + px \in Int /\ qa + px + 1 \in Int /\ qt \in Int /\ qa \in Int /\ px \in Int
      BY <1>1
    <2> QED
      BY <1>2, <2>1, MulMs
  <1> QED
    BY <1>1, <1>3

(* A key that is still there was set no longer ago than the TTL and what     *)
(* rounding adds, once in ttlMilliseconds and once in the server's clock.    *)
LEMMA LittleLonger ==
    ASSUME NEW d \in Nat \ {0}, NEW at \in Nat, NEW time \in Nat,
           time \div Ms <= at \div Ms + TtlMilliseconds(d)
    PROVE  time <= at + d + 2 * (Ms - 1)
  <1> DEFINE qa == at \div Ms
             qt == time \div Ms
             px == TtlMilliseconds(d)
  <1>1. /\ qa \in Nat /\ qt \in Nat /\ px \in Nat /\ Ms \in Nat \ {0}
        /\ time < Ms * qt + Ms /\ Ms * qa <= at /\ Ms * px <= d + Ms - 1
        /\ qt <= qa + px
    BY DivMs, RoundsUp, TtlAssumption
  <1> HIDE DEF qa, qt, px
  <1>2. /\ Ms * qt <= Ms * (qa + px)
        /\ Ms * (qa + px) = Ms * qa + Ms * px
        /\ Ms * qa \in Int /\ Ms * px \in Int /\ Ms * qt \in Int
    <2>1. qa + px \in Int /\ qt \in Int /\ qa \in Int /\ px \in Int
      BY <1>1
    <2> QED
      BY <1>1, <2>1, MulMs
  <1> QED
    BY <1>1, <1>2
-----------------------------------------------------------------------------
\* An encoded entry.
Objects == [namespace : Namespaces, task_queue : Queues]

\* The commands this program sends with the TTL it runs with.
Sent ==
    {cmd \in Commands : /\ cmd.key = TokenKey(cmd.token) /\ cmd.px = Px
                        /\ cmd.op = "set" => cmd.value \in Objects}

CommandsOK ==
    /\ \A c \in Callers : call[c].at # "idle" => call[c].cmd \in Sent
    /\ \A o \in Orphanage : orphans[o] # None => orphans[o] \in Sent

\* The item is the one t was last set or read with.
Fresh(t) ==
    LET item == db[TokenKey(t)] IN
    /\ item # None
    /\ item.value = touched[t].value
    /\ item.expire = touched[t].at \div Ms + Px

\* t has not been used for so long that its key is gone.
Stale(t) == db[TokenKey(t)] = None /\ ServerTime > touched[t].at \div Ms + Px

KeysOK ==
    \A t \in Tokens :
        LET item == db[TokenKey(t)] IN
        /\ touched[t] # None => touched[t].value \in Objects /\ (Fresh(t) \/ Stale(t))
        /\ item # None => item.value = Garbage \/ touched[t] # None

Inv == TypeOK /\ CommandsOK /\ KeysOK
-----------------------------------------------------------------------------
LEMMA KeyFacts ==
    /\ \A t \in Tokens : TokenKey(t) \in Keys
    /\ \A t, u \in Tokens : TokenKey(t) = TokenKey(u) => t = u
  BY DEF Keys, TokenKey

LEMMA GarbageIsNoObject ==
    /\ Garbage \notin Objects
    /\ Values = Objects \cup {Garbage}
    /\ None \notin Values
  <1>1. ASSUME Garbage \in Objects PROVE FALSE
    <2>1. DOMAIN Garbage = {"garbage"}
      BY DEF Garbage
    <2>2. DOMAIN Garbage = {"namespace", "task_queue"}
      BY <1>1 DEF Objects
    <2> QED
      BY <2>1, <2>2
  <1> QED
    BY <1>1, NoneAssumption DEF Values, Objects

\* Encode and Decode are inverse to each other.
LEMMA RoundTrip ==
    /\ \A e \in Entries : Encode(e) \in Objects /\ Decode(Encode(e)) = e
    /\ \A v \in Objects : Decode(v) \in Entries /\ Encode(Decode(v)) = v
  BY DEF Encode, Decode, Entries, Objects

LEMMA PxType ==
    ASSUME TypeOK
    PROVE  /\ Px \in Nat \ {0} /\ ttl \in Nat \ {0} /\ now \in Nat
           /\ ServerTime \in Nat
  <1>1. ttl \in Nat \ {0} /\ now \in Nat
    BY TtlAssumption, TimeAssumption DEF TypeOK, Times
  <1> QED
    BY <1>1, RoundsUp, DivMs DEF Px, ServerTime

(* The properties follow from the invariant. *)
LEMMA Retention ==
    ASSUME Inv
    PROVE  RetainedForTTL
  <1> SUFFICES ASSUME NEW t \in Tokens, touched[t] # None, now <= touched[t].at + ttl
               PROVE  Present(TokenKey(t)) /\ db[TokenKey(t)].value = touched[t].value
    BY DEF RetainedForTTL
  <1>1. touched[t].at \in Nat /\ ttl \in Nat \ {0} /\ now \in Nat
    BY PxType, TimeAssumption DEF Inv, TypeOK, Touches, Times
  <1>2. now \div Ms <= touched[t].at \div Ms + Px
    BY <1>1, LastsTheTTL DEF Px
  <1>3. now \div Ms \in Nat /\ touched[t].at \div Ms \in Nat /\ Px \in Nat
    BY <1>1, DivMs, PxType DEF Inv
  <1>4. Fresh(t)
    BY <1>2, <1>3 DEF Inv, KeysOK, Stale, ServerTime
  <1> QED
    BY <1>2, <1>4 DEF Fresh, Present, ServerTime
-----------------------------------------------------------------------------
(* What a command does, by the case that applies. *)

SetServed(cmd) ==
    /\ cmd.op = "set"
    /\ db' = [db EXCEPT ![cmd.key] = [value |-> cmd.value, expire |-> ServerTime + Px]]
    /\ touched' = [touched EXCEPT ![cmd.token] = [value |-> cmd.value, at |-> now]]
    /\ event' = Event("put", cmd.token, Decode(cmd.value))

DelServed(cmd) ==
    /\ cmd.op = "del"
    /\ db' = [db EXCEPT ![cmd.key] = None]
    /\ touched' = [touched EXCEPT ![cmd.token] = None]
    /\ event' = Event("delete", cmd.token, None)

MissServed(cmd) ==
    /\ cmd.op = "getex" /\ ~Present(cmd.key)
    /\ db' = [db EXCEPT ![cmd.key] = None]
    /\ touched' = touched
    /\ event' = Event("get", cmd.token, None)

HitServed(cmd) ==
    /\ cmd.op = "getex" /\ Present(cmd.key)
    /\ db' = [db EXCEPT ![cmd.key] = [value |-> db[cmd.key].value, expire |-> ServerTime + Px]]
    /\ touched' = [touched EXCEPT ![cmd.token] =
                      IF touched[cmd.token] # None THEN [touched[cmd.token] EXCEPT !.at = now]
                      ELSE None]
    /\ event' = IF db[cmd.key].value = Garbage THEN NoEvent
                ELSE Event("get", cmd.token, Decode(db[cmd.key].value))

LEMMA CarryOutCases ==
    ASSUME Inv, NEW cmd \in Sent, CarryOut(cmd)
    PROVE  /\ SetServed(cmd) \/ DelServed(cmd) \/ MissServed(cmd) \/ HitServed(cmd)
           /\ UNCHANGED <<ttl, now, open>>
  <1>1. /\ cmd.op \in {"set", "getex", "del"} /\ cmd.token \in Tokens /\ cmd.px = Px
        /\ Px \in Nat /\ Px > 0 /\ cmd.key = TokenKey(cmd.token)
    BY PxType DEF Inv, Sent, Commands
  <1>2. /\ db' = [db EXCEPT ![cmd.key] = ItemAfter(cmd)]
        /\ event' = EventOf(cmd)
        /\ touched' = [touched EXCEPT ![cmd.token] = TouchedAfter(cmd)]
        /\ UNCHANGED <<ttl, now, open>>
    BY DEF CarryOut
  <1>3. CASE cmd.op = "set"
    <2>1. ReplyTo(cmd).kind = "ok"
      BY <1>1, <1>3 DEF ReplyTo, Reply
    <2>2. ItemAfter(cmd) = [value |-> cmd.value, expire |-> ServerTime + Px]
      BY <1>1, <1>3 DEF ItemAfter
    <2>3. EventOf(cmd) = Event("put", cmd.token, Decode(cmd.value))
      BY <1>3, <2>1 DEF EventOf
    <2>4. TouchedAfter(cmd) = [value |-> cmd.value, at |-> now]
      BY <1>3 DEF TouchedAfter
    <2> QED
      BY <1>2, <1>3, <2>2, <2>3, <2>4 DEF SetServed
  <1>4. CASE cmd.op = "del"
    <2>1. ReplyTo(cmd).kind = "ok"
      BY <1>1, <1>4 DEF ReplyTo, Reply
    <2>2. ItemAfter(cmd) = None
      BY <1>4 DEF ItemAfter
    <2>3. EventOf(cmd) = Event("delete", cmd.token, None)
      BY <1>4, <2>1 DEF EventOf
    <2>4. TouchedAfter(cmd) = None
      BY <1>4 DEF TouchedAfter
    <2> QED
      BY <1>2, <1>4, <2>2, <2>3, <2>4 DEF DelServed
  <1>5. CASE cmd.op = "getex" /\ ~Present(cmd.key)
    <2>1. ReplyTo(cmd) = Reply("nil", None) /\ ReplyTo(cmd).kind = "nil"
      BY <1>1, <1>5 DEF ReplyTo, Reply
    <2>2. ItemAfter(cmd) = None
      BY <1>1, <1>5 DEF ItemAfter
    <2>3. EventOf(cmd) = Event("get", cmd.token, None)
      BY <1>5, <2>1 DEF EventOf
    <2>4. TouchedAfter(cmd) = touched[cmd.token]
      BY <1>5, <2>1 DEF TouchedAfter
    <2>5. [touched EXCEPT ![cmd.token] = touched[cmd.token]] = touched
      BY DEF Inv, TypeOK
    <2> QED
      BY <1>2, <1>5, <2>2, <2>3, <2>4, <2>5 DEF MissServed
  <1>6. CASE cmd.op = "getex" /\ Present(cmd.key)
    <2>1. /\ ReplyTo(cmd) = Reply("value", db[cmd.key].value)
          /\ ReplyTo(cmd).kind = "value" /\ ReplyTo(cmd).value = db[cmd.key].value
      BY <1>1, <1>6 DEF ReplyTo, Reply
    <2>2. ItemAfter(cmd) = [value |-> db[cmd.key].value, expire |-> ServerTime + Px]
      BY <1>1, <1>6 DEF ItemAfter
    <2>3. EventOf(cmd) = IF db[cmd.key].value = Garbage THEN NoEvent
                         ELSE Event("get", cmd.token, Decode(db[cmd.key].value))
      BY <1>6, <2>1 DEF EventOf
    <2>4. TouchedAfter(cmd) = IF touched[cmd.token] # None
                              THEN [touched[cmd.token] EXCEPT !.at = now] ELSE None
      BY <1>6, <2>1 DEF TouchedAfter
    <2> QED
      BY <1>2, <1>6, <2>2, <2>3, <2>4 DEF HitServed
  <1> QED
    BY <1>1, <1>2, <1>3, <1>4, <1>5, <1>6

\* Types of what commands and events are made of.
LEMMA EventTypes ==
    /\ NoEvent \in Events
    /\ \A t \in Tokens, e \in Entries :
          Event("put", t, e) \in Events /\ Event("get", t, e) \in Events
    /\ \A t \in Tokens : Event("delete", t, None) \in Events /\ Event("get", t, None) \in Events
  BY DEF NoEvent, Event, Events

LEMMA ReplyType ==
    ASSUME Inv, NEW cmd \in Sent
    PROVE  ReplyTo(cmd) \in Replies
  <1>1. Present(cmd.key) => db[cmd.key].value \in Values
    BY KeyFacts DEF Present, Inv, TypeOK, Items, Sent, Commands
  <1> QED
    BY <1>1 DEF ReplyTo, Reply, Replies

\* A command that is carried out keeps the types of what it changes.
LEMMA CarryOutTypes ==
    ASSUME Inv, NEW cmd \in Sent, CarryOut(cmd)
    PROVE  /\ db' \in [Keys -> Items \cup {None}] /\ event' \in Events
           /\ touched' \in [Tokens -> Touches \cup {None}]
  <1>1. /\ cmd.token \in Tokens /\ cmd.key = TokenKey(cmd.token) /\ cmd.key \in Keys
        /\ ServerTime + Px \in Nat /\ now \in Times
        /\ db \in [Keys -> Items \cup {None}] /\ touched \in [Tokens -> Touches \cup {None}]
    BY KeyFacts, PxType DEF Inv, TypeOK, Sent, Commands
  <1>2. CASE SetServed(cmd)
    <2>1. cmd.value \in Objects /\ cmd.value \in Values
      BY <1>2, GarbageIsNoObject DEF Sent, SetServed
    <2>2. /\ [value |-> cmd.value, expire |-> ServerTime + Px] \in Items
          /\ [value |-> cmd.value, at |-> now] \in Touches
      BY <1>1, <2>1 DEF Items, Touches
    <2>3. event' \in Events
      BY <1>1, <1>2, <2>1, RoundTrip, EventTypes DEF SetServed
    <2> QED
      BY <1>1, <1>2, <2>2, <2>3 DEF SetServed
  <1>3. CASE DelServed(cmd) \/ MissServed(cmd)
    BY <1>1, <1>3, EventTypes DEF DelServed, MissServed
  <1>4. CASE HitServed(cmd)
    <2>1. db[cmd.key] \in Items /\ db[cmd.key].value \in Values
      BY <1>1, <1>4 DEF HitServed, Present, Items
    <2>2. [value |-> db[cmd.key].value, expire |-> ServerTime + Px] \in Items
      BY <1>1, <2>1 DEF Items
    <2>3. touched[cmd.token] # None => [touched[cmd.token] EXCEPT !.at = now] \in Touches
      BY <1>1 DEF Touches
    <2>4. db[cmd.key].value # Garbage => Decode(db[cmd.key].value) \in Entries
      BY <2>1, GarbageIsNoObject, RoundTrip
    <2>5. event' \in Events
      BY <1>1, <1>4, <2>4, EventTypes DEF HitServed
    <2> QED
      BY <1>1, <1>4, <2>2, <2>3, <2>5 DEF HitServed
  <1> QED
    BY <1>2, <1>3, <1>4, CarryOutCases

\* What KeysOK says of one token.
KeyOK(t) ==
    LET item == db[TokenKey(t)] IN
    /\ touched[t] # None => touched[t].value \in Objects /\ (Fresh(t) \/ Stale(t))
    /\ item # None => item.value = Garbage \/ touched[t] # None

LEMMA KeysByToken == KeysOK <=> \A t \in Tokens : KeyOK(t)
  BY DEF KeysOK, KeyOK

\* A token whose item and history do not change, at the same time.
LEMMA KeyUntouched ==
    ASSUME NEW t \in Tokens, KeyOK(t), UNCHANGED <<ttl, now>>,
           db'[TokenKey(t)] = db[TokenKey(t)], touched'[t] = touched[t]
    PROVE  KeyOK(t)'
  <1>1. Px' = Px /\ ServerTime' = ServerTime
    BY DEF Px, ServerTime
  <1>2. (Fresh(t) => Fresh(t)') /\ (Stale(t) => Stale(t)')
    BY <1>1 DEF Fresh, Stale
  <1> QED
    BY <1>2 DEF KeyOK

LEMMA CarryOutKeys ==
    ASSUME Inv, NEW cmd \in Sent, CarryOut(cmd)
    PROVE  KeysOK'
  <1>1. /\ cmd.token \in Tokens /\ cmd.key = TokenKey(cmd.token) /\ cmd.key \in Keys
        /\ Px \in Nat /\ ServerTime \in Nat
        /\ db \in [Keys -> Items \cup {None}] /\ touched \in [Tokens -> Touches \cup {None}]
        /\ None \notin Items /\ \A t \in Tokens : KeyOK(t)
    BY KeyFacts, PxType, NoneAssumption, KeysByToken DEF Inv, TypeOK, Sent, Commands
  <1>2. UNCHANGED <<ttl, now>> /\ Px' = Px /\ ServerTime' = ServerTime
    BY DEF CarryOut, Px, ServerTime
  <1>3. ASSUME NEW t \in Tokens, t # cmd.token PROVE KeyOK(t)'
    <2>1. TokenKey(t) \in Keys /\ TokenKey(t) # cmd.key
      BY <1>1, <1>3, KeyFacts
    <2>2. db'[TokenKey(t)] = db[TokenKey(t)] /\ touched'[t] = touched[t]
      BY <1>1, <1>3, <2>1 DEF CarryOut
    <2> QED
      BY <1>1, <1>2, <2>2, KeyUntouched
  <1> DEFINE u == cmd.token
  <1>4. KeyOK(u)'
    <2>1. CASE SetServed(cmd)
      <3>1. /\ touched'[u] = [value |-> cmd.value, at |-> now]
            /\ db'[TokenKey(u)] = [value |-> cmd.value, expire |-> ServerTime + Px]
            /\ cmd.value \in Objects
        BY <1>1, <2>1 DEF SetServed, Sent
      <3>2. [value |-> cmd.value, expire |-> ServerTime + Px] \in Items
        BY <1>1, <3>1, GarbageIsNoObject DEF Items
      <3>3. Fresh(u)'
        BY <1>1, <1>2, <3>1, <3>2 DEF Fresh, ServerTime
      <3>4. touched'[u] # None
        <4>1. [value |-> cmd.value, at |-> now] \in Touches
          BY <3>1, GarbageIsNoObject DEF Touches, Inv, TypeOK
        <4> QED
          BY <3>1, <4>1, NoneAssumption
      <3> QED
        BY <3>1, <3>3, <3>4 DEF KeyOK
    <2>2. CASE DelServed(cmd)
      BY <1>1, <2>2 DEF DelServed, KeyOK
    <2>3. CASE MissServed(cmd)
      <3>1. touched'[u] = touched[u] /\ db'[TokenKey(u)] = None
        BY <1>1, <2>3 DEF MissServed
      <3>2. touched[u] # None => touched[u].value \in Objects /\ Stale(u)'
        <4>1. CASE touched[u] # None /\ Fresh(u)
          <5>1. /\ db[TokenKey(u)] \in Items /\ db[TokenKey(u)].expire \in Nat
                /\ ServerTime > db[TokenKey(u)].expire
            BY <1>1, <2>3, <4>1 DEF MissServed, Present, Fresh, Items
          <5> QED
            BY <1>1, <1>2, <3>1, <4>1, <5>1 DEF Stale, Fresh, KeyOK
        <4>2. CASE touched[u] # None /\ Stale(u)
          BY <1>1, <1>2, <3>1, <4>2 DEF Stale, KeyOK
        <4> QED
          BY <1>1, <4>1, <4>2 DEF KeyOK
      <3> QED
        BY <3>1, <3>2 DEF KeyOK
    <2>4. CASE HitServed(cmd)
      <3>1. /\ db[TokenKey(u)] \in Items
            /\ db'[TokenKey(u)] = [value |-> db[TokenKey(u)].value, expire |-> ServerTime + Px]
            /\ touched'[u] = IF touched[u] # None THEN [touched[u] EXCEPT !.at = now] ELSE None
        BY <1>1, <2>4 DEF HitServed, Present
      <3>2. CASE touched[u] = None
        BY <1>1, <3>1, <3>2 DEF KeyOK
      <3>3. CASE touched[u] # None
        <4>1. /\ touched[u] \in Touches /\ touched[u].value \in Objects
              /\ db[TokenKey(u)].value = touched[u].value
          BY <1>1, <3>1, <3>3 DEF KeyOK, Fresh, Stale
        <4>2. /\ touched'[u].value = touched[u].value /\ touched'[u].at = now
              /\ db'[TokenKey(u)] \in Items
              /\ db'[TokenKey(u)].value = touched[u].value
              /\ db'[TokenKey(u)].expire = ServerTime + Px
          BY <1>1, <3>1, <3>3, <4>1 DEF Touches, Items
        <4>3. Fresh(u)'
          BY <1>1, <1>2, <4>2 DEF Fresh, ServerTime
        <4>4. touched'[u] # None
          <5>1. touched'[u] \in Touches
            BY <3>1, <3>3, <4>1 DEF Touches, Inv, TypeOK
          <5> QED
            BY <5>1, NoneAssumption
        <4> QED
          BY <4>1, <4>2, <4>3, <4>4 DEF KeyOK
      <3> QED
        BY <3>2, <3>3
    <2> QED
      BY <2>1, <2>2, <2>3, <2>4, CarryOutCases
  <1> QED
    BY <1>3, <1>4 DEF KeysOK, KeyOK
-----------------------------------------------------------------------------
LEMMA InitInv == Init => Inv
  <1> SUFFICES ASSUME Init PROVE Inv
    OBVIOUS
  <1>1. TypeOK
    BY TimeAssumption, EventTypes DEF Init, TypeOK, Times, Calls
  <1>2. CommandsOK /\ KeysOK
    BY KeyFacts DEF Init, CommandsOK, KeysOK, Idle
  <1> QED
    BY <1>1, <1>2 DEF Inv

\* The commands that are on their way keep the TTL they were sent with.
LEMMA SentStays ==
    ASSUME UNCHANGED ttl
    PROVE  Sent' = Sent
  BY DEF Sent, Px, Commands, Values, Objects, Keys, Garbage

\* Steps that leave the server and its history alone.
LEMMA KeysStay ==
    ASSUME KeysOK, UNCHANGED <<ttl, now, db, touched>>
    PROVE  KeysOK'
  BY KeyUntouched DEF KeysOK, KeyOK

LEMMA CommandTypes ==
    ASSUME Inv, NEW t \in Tokens
    PROVE  /\ \A e \in Entries : Command("set", t, Encode(e)) \in Sent
           /\ Command("getex", t, None) \in Sent
           /\ Command("del", t, None) \in Sent
  <1>1. TokenKey(t) \in Keys /\ Px \in Int
    BY KeyFacts, PxType DEF Inv
  <1>2. ASSUME NEW e \in Entries PROVE Command("set", t, Encode(e)) \in Sent
    <2>1. Encode(e) \in Objects /\ Encode(e) \in Values
      BY RoundTrip, GarbageIsNoObject
    <2> HIDE DEF Encode
    <2> QED
      BY <1>1, <2>1 DEF Command, Sent, Commands
  <1> QED
    BY <1>1, <1>2 DEF Command, Sent, Commands

LEMMA SendInv ==
    ASSUME Inv, NEW c \in Callers, NEW cmd \in Sent, Send(c, cmd)
    PROVE  Inv'
  <1>1. /\ call' = [call EXCEPT ![c] = [at |-> "waiting", cmd |-> cmd, reply |-> NoReply]]
        /\ event' = NoEvent /\ UNCHANGED <<ttl, now, db, orphans, open, touched>>
    BY DEF Send
  <1>2. [at |-> "waiting", cmd |-> cmd, reply |-> NoReply] \in Calls
    BY DEF Calls, Sent
  <1>3. TypeOK'
    BY <1>1, <1>2, EventTypes DEF Inv, TypeOK
  <1>4. CommandsOK'
    BY <1>1, SentStays DEF Inv, TypeOK, CommandsOK
  <1> QED
    BY <1>1, <1>3, <1>4, KeysStay DEF Inv

LEMMA ReturnInv ==
    ASSUME Inv, NEW c \in Callers, Return(c)
    PROVE  Inv'
  <1>1. /\ call' = [call EXCEPT ![c] = Idle]
        /\ event' = NoEvent /\ UNCHANGED <<ttl, now, db, orphans, open, touched>>
    BY DEF Return
  <1>2. TypeOK'
    BY <1>1, EventTypes DEF Inv, TypeOK, Calls
  <1>3. CommandsOK'
    BY <1>1, SentStays DEF Inv, TypeOK, CommandsOK, Idle
  <1> QED
    BY <1>1, <1>2, <1>3, KeysStay DEF Inv

LEMMA GiveUpInv ==
    ASSUME Inv, NEW c \in Callers, GiveUp(c)
    PROVE  Inv'
  <1>1. /\ call[c].at = "waiting" /\ call' = [call EXCEPT ![c] = Idle]
        /\ event' = NoEvent /\ UNCHANGED <<ttl, now, db, open, touched>>
        /\ call[c].cmd \in Sent /\ call[c].cmd \in Commands
    BY DEF GiveUp, Inv, CommandsOK, Sent
  <1>2. \/ UNCHANGED orphans
        \/ \E o \in Orphanage : orphans' = [orphans EXCEPT ![o] = call[c].cmd]
    BY DEF GiveUp
  <1>3. TypeOK'
    BY <1>1, <1>2, EventTypes DEF Inv, TypeOK, Calls
  <1>4. CommandsOK'
    BY <1>1, <1>2, SentStays DEF Inv, TypeOK, CommandsOK, Idle
  <1> QED
    BY <1>1, <1>3, <1>4, KeysStay DEF Inv

LEMMA ServedInv ==
    ASSUME Inv, NEW c \in Callers, Served(c)
    PROVE  Inv'
  <1>1. /\ call[c].at = "waiting" /\ CarryOut(call[c].cmd) /\ UNCHANGED <<orphans, ttl, now, open>>
        /\ call' = [call EXCEPT ![c] = [at |-> "replied", cmd |-> call[c].cmd,
                                        reply |-> ReplyTo(call[c].cmd)]]
        /\ call[c].cmd \in Sent /\ call[c].cmd \in Commands
    BY DEF Served, CarryOut, Inv, CommandsOK, Sent
  <1>2. [at |-> "replied", cmd |-> call[c].cmd, reply |-> ReplyTo(call[c].cmd)] \in Calls
    BY <1>1, ReplyType DEF Calls
  <1>3. TypeOK'
    BY <1>1, <1>2, CarryOutTypes DEF Inv, TypeOK
  <1>4. CommandsOK'
    BY <1>1, SentStays DEF Inv, TypeOK, CommandsOK
  <1> QED
    BY <1>1, <1>3, <1>4, CarryOutKeys DEF Inv

LEMMA OrphanInv ==
    ASSUME Inv, NEW o \in Orphanage, ServedLate(o) \/ NeverServed(o)
    PROVE  Inv'
  <1>1. /\ orphans' = [orphans EXCEPT ![o] = None] /\ UNCHANGED <<call, ttl, now, open>>
        /\ orphans[o] \in Sent
    BY DEF ServedLate, NeverServed, CarryOut, Inv, CommandsOK
  <1>2. CommandsOK'
    BY <1>1, SentStays DEF Inv, TypeOK, CommandsOK
  <1>3. CASE ServedLate(o)
    <2>1. CarryOut(orphans[o])
      BY <1>3 DEF ServedLate
    <2>2. TypeOK'
      BY <1>1, <2>1, CarryOutTypes DEF Inv, TypeOK
    <2> QED
      BY <1>1, <1>2, <2>1, <2>2, CarryOutKeys DEF Inv
  <1>4. CASE NeverServed(o)
    <2>1. event' = NoEvent /\ UNCHANGED <<db, touched>>
      BY <1>4 DEF NeverServed
    <2>2. TypeOK'
      BY <1>1, <2>1, EventTypes DEF Inv, TypeOK
    <2> QED
      BY <1>1, <1>2, <2>1, <2>2, KeysStay DEF Inv
  <1> QED
    BY <1>3, <1>4

LEMMA CloseInv ==
    ASSUME Inv, Close
    PROVE  Inv'
  <1>1. open' = FALSE /\ event' = NoEvent /\ UNCHANGED <<ttl, now, db, call, orphans, touched>>
    BY DEF Close
  <1>2. TypeOK' /\ CommandsOK'
    BY <1>1, EventTypes, SentStays DEF Inv, TypeOK, CommandsOK
  <1> QED
    BY <1>1, <1>2, KeysStay DEF Inv

LEMMA ServerInv ==
    ASSUME Inv, NEW t \in Tokens, ServerLoses(t) \/ KeyOverwritten(t)
    PROVE  Inv'
  <1>1. /\ touched' = [touched EXCEPT ![t] = None] /\ event' = NoEvent
        /\ UNCHANGED <<ttl, now, call, orphans, open>>
        /\ db[TokenKey(t)] # None
    BY DEF ServerLoses, KeyOverwritten, Present
  <1>2. PICK item \in Items \cup {None} :
            /\ db' = [db EXCEPT ![TokenKey(t)] = item]
            /\ item # None => item.value = Garbage
    <2>1. CASE ServerLoses(t)
      BY <2>1 DEF ServerLoses
    <2>2. CASE KeyOverwritten(t)
      <3>1. db[TokenKey(t)] \in Items
        BY <1>1, KeyFacts DEF Inv, TypeOK
      <3>2. [db[TokenKey(t)] EXCEPT !.value = Garbage] \in Items
        BY <3>1, GarbageIsNoObject DEF Items
      <3>3. [db[TokenKey(t)] EXCEPT !.value = Garbage].value = Garbage
        BY <3>1 DEF Items
      <3> QED
        BY <2>2, <3>2, <3>3 DEF KeyOverwritten
    <2> QED
      BY <2>1, <2>2
  <1>3. TypeOK'
    BY <1>1, <1>2, EventTypes, KeyFacts DEF Inv, TypeOK
  <1>4. CommandsOK'
    BY <1>1, SentStays DEF Inv, CommandsOK
  <1>5. ASSUME NEW u \in Tokens PROVE KeyOK(u)'
    <2>1. CASE u = t
      BY <1>1, <1>2, <2>1, KeyFacts DEF KeyOK, Inv, TypeOK
    <2>2. CASE u # t
      <3>1. db'[TokenKey(u)] = db[TokenKey(u)] /\ touched'[u] = touched[u]
        BY <1>1, <1>2, <2>2, KeyFacts DEF Inv, TypeOK
      <3> QED
        BY <1>1, <3>1, KeyUntouched DEF Inv, KeysOK, KeyOK
    <2> QED
      BY <2>1, <2>2
  <1>6. KeysOK'
    BY <1>5 DEF KeysOK, KeyOK
  <1> QED
    BY <1>3, <1>4, <1>6 DEF Inv

\* The server's clock does not run backwards.
LEMMA DivMonotone ==
    ASSUME NEW a \in Nat
    PROVE  a \div Ms <= (a + 1) \div Ms
  <1> DEFINE q == a \div Ms
             p == (a + 1) \div Ms
  <1>1. /\ q \in Nat /\ p \in Nat /\ Ms \in Nat \ {0}
        /\ Ms * q <= a /\ a + 1 < Ms * p + Ms
    <2>1. q \in Nat /\ Ms * q <= a
      BY DivMs
    <2>2. a + 1 \in Nat
      OBVIOUS
    <2>3. p \in Nat /\ a + 1 < Ms * p + Ms
      BY <2>2, DivMs
    <2> QED
      BY <2>1, <2>3, TtlAssumption
  <1> HIDE DEF q, p
  <1>2. SUFFICES ASSUME p + 1 <= q PROVE FALSE
    BY <1>1 DEF q, p
  <1>3. Ms * (p + 1) <= Ms * q /\ Ms * (p + 1) = Ms * p + Ms /\ Ms * p \in Int /\ Ms * q \in Int
    <2>1. p + 1 \in Int /\ p \in Int /\ q \in Int
      BY <1>1
    <2> QED
      BY <1>2, <2>1, MulMs
  <1> QED
    BY <1>1, <1>3

LEMMA ClockInv ==
    ASSUME Inv, ClockAdvances
    PROVE  Inv' /\ ServerTime <= ServerTime'
  <1>1. /\ now < MaxTime /\ now' = now + 1 /\ event' = NoEvent
        /\ UNCHANGED <<ttl, db, call, orphans, open, touched>>
    BY DEF ClockAdvances
  <1>2. now \in Nat /\ now' \in Times /\ ServerTime \in Nat /\ Px \in Nat
    BY <1>1, PxType, TimeAssumption DEF Inv, Times
  <1>3. ServerTime <= ServerTime' /\ ServerTime' \in Nat /\ Px' = Px
    BY <1>1, <1>2, DivMonotone, DivMs DEF ServerTime, Px
  <1>4. TypeOK'
    BY <1>1, <1>2, EventTypes DEF Inv, TypeOK
  <1>5. CommandsOK'
    BY <1>1, SentStays DEF Inv, CommandsOK
  <1>6. ASSUME NEW t \in Tokens PROVE KeyOK(t)'
    <2>1. KeyOK(t)
      BY DEF Inv, KeysOK, KeyOK
    <2>2. Fresh(t) => Fresh(t)'
      BY <1>1, <1>3 DEF Fresh
    <2>3. touched[t] # None /\ Stale(t) => Stale(t)'
      <3>1. touched[t] # None => touched[t].at \div Ms \in Nat
        BY DivMs, TimeAssumption DEF Inv, TypeOK, Touches, Times
      <3> QED
        BY <1>1, <1>2, <1>3, <3>1 DEF Stale
    <2> QED
      BY <1>1, <2>1, <2>2, <2>3 DEF KeyOK
  <1>7. KeysOK'
    BY <1>6 DEF KeysOK, KeyOK
  <1> QED
    BY <1>3, <1>4, <1>5, <1>7 DEF Inv

LEMMA StepInv == Inv /\ [Next]_vars => Inv'
  <1> SUFFICES ASSUME Inv, [Next]_vars PROVE Inv'
    OBVIOUS
  <1>1. CASE UNCHANGED vars
    BY <1>1, KeysStay, SentStays DEF vars, Inv, TypeOK, CommandsOK
  <1>2. CASE \E c \in Callers, t \in Tokens : Get(c, t) \/ Delete(c, t)
    BY <1>2, CommandTypes, SendInv DEF Get, Delete
  <1>3. CASE \E c \in Callers, t \in Tokens, e \in Entries : Put(c, t, e)
    BY <1>3, CommandTypes, SendInv DEF Put
  <1>4. CASE \E c \in Callers : Served(c) \/ Return(c) \/ TimesOut(c) \/ Aborted(c)
    BY <1>4, ServedInv, ReturnInv, GiveUpInv DEF TimesOut, Aborted
  <1>5. CASE \E o \in Orphanage : ServedLate(o) \/ NeverServed(o)
    BY <1>5, OrphanInv
  <1>6. CASE \E t \in Tokens : ServerLoses(t) \/ KeyOverwritten(t)
    BY <1>6, ServerInv
  <1> QED
    BY <1>1, <1>2, <1>3, <1>4, <1>5, <1>6, ClockInv, CloseInv DEF Next

(* The inductive invariant: commands on their way carry the TTL and the key  *)
(* of their token, and an item expires with the last use of its token.       *)
THEOREM Invariance == Spec => []Inv
  BY InitInv, StepInv, PTL DEF Spec

(* TypeOK: what is decoded is an entry, and every expiry is a point in time. *)
THEOREM TypeCorrect == Spec => []TypeOK
  <1>1. Inv => TypeOK
    BY DEF Inv
  <1> QED
    BY <1>1, Invariance, PTL

(* RetainedForTTL: rounding up in ttlMilliseconds makes up for the server's  *)
(* whole milliseconds, whatever the TTL.                                     *)
THEOREM RetainedInv == Spec => []RetainedForTTL
  BY Invariance, Retention, PTL
-----------------------------------------------------------------------------
(* The steps, as a caller sees them. *)

\* What a Get of t would find.
Seen(t) ==
    IF Present(TokenKey(t)) /\ db[TokenKey(t)].value # Garbage
    THEN Decode(db[TokenKey(t)].value) ELSE None

\* No token is found that was not, or with another entry.
Forgets == \A t \in Tokens : Seen(t)' = Seen(t) \/ Seen(t)' = None

LEMMA SeenStays ==
    ASSUME NEW t \in Tokens, UNCHANGED now, db'[TokenKey(t)] = db[TokenKey(t)]
    PROVE  Seen(t)' = Seen(t)
  BY DEF Seen, Present, ServerTime

(* A step carries out a command this program sent, or it is not an operation *)
(* of the store and can only make it forget.                                 *)
LEMMA StepCases ==
    ASSUME Inv, Next
    PROVE  \/ \E cmd \in Sent : CarryOut(cmd)
           \/ event' = NoEvent /\ Forgets
  <1>1. CASE event' = NoEvent /\ UNCHANGED <<now, db>>
    BY <1>1, SeenStays DEF Forgets
  <1>2. ASSUME NEW c \in Callers, Served(c) PROVE \E cmd \in Sent : CarryOut(cmd)
    BY <1>2 DEF Served, Inv, CommandsOK
  <1>3. ASSUME NEW o \in Orphanage, ServedLate(o) PROVE \E cmd \in Sent : CarryOut(cmd)
    BY <1>3 DEF ServedLate, Inv, CommandsOK
  <1>4. ASSUME NEW t \in Tokens, ServerLoses(t) \/ KeyOverwritten(t)
        PROVE  event' = NoEvent /\ Forgets
    <2>1. event' = NoEvent /\ UNCHANGED now
      BY <1>4 DEF ServerLoses, KeyOverwritten
    <2>2. db \in [Keys -> Items \cup {None}] /\ TokenKey(t) \in Keys
      BY KeyFacts DEF Inv, TypeOK
    <2>3. Seen(t)' = None
      <3>1. CASE ServerLoses(t)
        BY <2>2, <3>1 DEF ServerLoses, Seen, Present
      <3>2. CASE KeyOverwritten(t)
        <4>1. db[TokenKey(t)] \in Items
          BY <2>2, <3>2 DEF KeyOverwritten, Present
        <4>2. db'[TokenKey(t)].value = Garbage
          BY <2>2, <3>2, <4>1 DEF KeyOverwritten, Items
        <4> QED
          BY <4>2 DEF Seen
      <3> QED
        BY <1>4, <3>1, <3>2
    <2>4. ASSUME NEW u \in Tokens, u # t PROVE db'[TokenKey(u)] = db[TokenKey(u)]
      BY <1>4, <2>2, <2>4, KeyFacts DEF ServerLoses, KeyOverwritten
    <2> QED
      BY <2>1, <2>3, <2>4, SeenStays DEF Forgets
  <1>5. CASE ClockAdvances
    <2>1. event' = NoEvent /\ UNCHANGED db /\ ServerTime <= ServerTime'
      BY <1>5, ClockInv DEF ClockAdvances
    <2>2. ServerTime \in Nat /\ ServerTime' \in Nat
      BY <1>5, PxType, ClockInv, DivMs, TimeAssumption DEF Inv, TypeOK, Times, ClockAdvances, ServerTime
    <2>3. ASSUME NEW t \in Tokens PROVE Present(TokenKey(t))' => Present(TokenKey(t))
      <3>1. db[TokenKey(t)] # None => db[TokenKey(t)].expire \in Nat
        BY KeyFacts DEF Inv, TypeOK, Items
      <3> QED
        BY <2>1, <2>2, <3>1 DEF Present
    <2> QED
      BY <2>1, <2>3 DEF Forgets, Seen
  <1> QED
    BY <1>1, <1>2, <1>3, <1>4, <1>5
    DEF Next, Get, Delete, Put, Send, Return, TimesOut, Aborted, GiveUp, NeverServed, Close

\* What a command makes a caller find.
LEMMA CarryOutSeen ==
    ASSUME Inv, NEW cmd \in Sent, CarryOut(cmd)
    PROVE  /\ \A u \in Tokens : u # cmd.token => Seen(u)' = Seen(u)
           /\ SetServed(cmd) => Seen(cmd.token)' = Decode(cmd.value)
           /\ DelServed(cmd) \/ MissServed(cmd) => Seen(cmd.token)' = None
           /\ HitServed(cmd) => Seen(cmd.token)' = Seen(cmd.token)
  <1>1. /\ cmd.token \in Tokens /\ cmd.key = TokenKey(cmd.token) /\ cmd.key \in Keys
        /\ db \in [Keys -> Items \cup {None}] /\ UNCHANGED now
        /\ ServerTime \in Nat /\ Px \in Nat
    BY KeyFacts, PxType DEF Inv, TypeOK, Sent, Commands, CarryOut
  <1>2. ASSUME NEW u \in Tokens, u # cmd.token PROVE Seen(u)' = Seen(u)
    <2>1. TokenKey(u) # cmd.key /\ TokenKey(u) \in Keys
      BY <1>1, <1>2, KeyFacts
    <2>2. db'[TokenKey(u)] = db[TokenKey(u)]
      BY <1>1, <2>1 DEF CarryOut
    <2> QED
      BY <1>1, <2>2, SeenStays
  <1>3. ASSUME NEW v \in Values,
               db'[cmd.key] = [value |-> v, expire |-> ServerTime + Px]
        PROVE  Seen(cmd.token)' = IF v # Garbage THEN Decode(v) ELSE None
    <2>1. [value |-> v, expire |-> ServerTime + Px] \in Items
      BY <1>1 DEF Items
    <2>2. db'[cmd.key] # None /\ db'[cmd.key].value = v /\ db'[cmd.key].expire = ServerTime + Px
      BY <1>3, <2>1, NoneAssumption
    <2>3. ServerTime' = ServerTime
      BY <1>1 DEF ServerTime
    <2>4. Present(cmd.key)'
      BY <1>1, <2>2, <2>3 DEF Present
    <2> QED
      BY <1>1, <2>2, <2>4 DEF Seen, Present, TokenKey
  <1>4. ASSUME SetServed(cmd) PROVE Seen(cmd.token)' = Decode(cmd.value)
    <2>1. cmd.value \in Values /\ cmd.value # Garbage
      BY <1>4, GarbageIsNoObject DEF SetServed, Sent
    <2>2. db'[cmd.key] = [value |-> cmd.value, expire |-> ServerTime + Px]
      BY <1>1, <1>4 DEF SetServed
    <2> QED
      BY <1>3, <2>1, <2>2
  <1>5. ASSUME DelServed(cmd) \/ MissServed(cmd) PROVE Seen(cmd.token)' = None
    <2>1. db'[cmd.key] = None
      BY <1>1, <1>5 DEF DelServed, MissServed
    <2> QED
      BY <1>1, <2>1 DEF Seen, Present
  <1>6. ASSUME HitServed(cmd) PROVE Seen(cmd.token)' = Seen(cmd.token)
    <2>1. /\ db[cmd.key].value \in Values
          /\ db'[cmd.key] = [value |-> db[cmd.key].value, expire |-> ServerTime + Px]
          /\ Present(cmd.key)
      BY <1>1, <1>6 DEF HitServed, Present, Items
    <2> QED
      BY <1>1, <1>3, <2>1 DEF Seen
  <1> QED
    BY <1>2, <1>4, <1>5, <1>6
-----------------------------------------------------------------------------
\* What a hit finds was the last entry set, not too long ago.
LEMMA HitIsCurrent ==
    ASSUME Inv, NEW cmd \in Sent, HitServed(cmd), db[cmd.key].value # Garbage
    PROVE  /\ touched[cmd.token] # None
           /\ db[cmd.key].value \in Objects
           /\ touched[cmd.token].value = db[cmd.key].value
           /\ now <= touched[cmd.token].at + ttl + 2 * (Ms - 1)
  <1> DEFINE t == cmd.token
  <1>1. /\ t \in Tokens /\ cmd.key = TokenKey(t) /\ cmd.key \in Keys
        /\ db[cmd.key] # None /\ ServerTime <= db[cmd.key].expire
    BY KeyFacts DEF Sent, Commands, HitServed, Present
  <1>2. touched[t] # None /\ Fresh(t)
    BY <1>1 DEF Inv, KeysOK, Stale
  <1>3. touched[t].at \in Nat /\ ttl \in Nat \ {0} /\ now \in Nat
    BY <1>1, <1>2, PxType, TimeAssumption DEF Inv, TypeOK, Touches, Times
  <1>4. now \div Ms <= touched[t].at \div Ms + TtlMilliseconds(ttl)
    BY <1>1, <1>2 DEF Fresh, ServerTime, Px
  <1>5. now <= touched[t].at + ttl + 2 * (Ms - 1)
    BY <1>3, <1>4, LittleLonger
  <1> QED
    BY <1>1, <1>2, <1>5 DEF Fresh, Inv, KeysOK

(* HitsAreCurrent: whatever calls failed and whenever their commands are     *)
(* carried out, Get finds the last entry set, and only for the TTL and what  *)
(* rounding adds.                                                            *)
THEOREM HitsCurrent == Spec => HitsAreCurrent
  <1> DEFINE Current ==
          \A t \in Tokens, e \in Entries :
             event' = Event("get", t, e) =>
                 /\ touched[t] # None
                 /\ touched[t].value = Encode(e)
                 /\ now <= touched[t].at + ttl + 2 * (Ms - 1)
  <1>1. ASSUME Inv, Next PROVE Current
    <2> SUFFICES ASSUME NEW t \in Tokens, NEW e \in Entries, event' = Event("get", t, e)
                 PROVE  /\ touched[t] # None
                        /\ touched[t].value = Encode(e)
                        /\ now <= touched[t].at + ttl + 2 * (Ms - 1)
      OBVIOUS
    <2>1. e # None /\ event'.op = "get" /\ event'.token = t /\ event'.entry = e
      BY NoneAssumption DEF Event
    <2>2. event' # NoEvent
      BY <2>1 DEF NoEvent, Event
    <2>3. PICK cmd \in Sent : CarryOut(cmd)
      BY <1>1, <2>2, StepCases
    <2>4. HitServed(cmd) /\ db[cmd.key].value # Garbage
      BY <1>1, <2>1, <2>2, <2>3, CarryOutCases
      DEF SetServed, DelServed, MissServed, HitServed, Event
    <2>5. t = cmd.token /\ e = Decode(db[cmd.key].value)
      BY <2>1, <2>4 DEF HitServed, Event
    <2> QED
      BY <1>1, <2>4, <2>5, HitIsCurrent, RoundTrip
  <1>2. Inv /\ [Next]_vars => [Current]_vars
    BY <1>1
  <1> QED
    BY <1>2, Invariance, PTL DEF Spec, HitsAreCurrent
-----------------------------------------------------------------------------
LEMMA VisibleSeen ==
    /\ Visible = [t \in Tokens |-> Seen(t)]
    /\ Visible' = [t \in Tokens |-> Seen(t)']
  BY DEF Visible, Seen, Present, ServerTime, TokenKey

\* Every step is a step of the atomic store.
LEMMA StepRefines == Inv /\ [Next]_vars => [Store!Next]_<<Visible, event>>
  <1> SUFFICES ASSUME Inv, [Next]_vars PROVE [Store!Next]_<<Visible, event>>
    OBVIOUS
  <1>r. NoEvent = Store!NoEvent /\ \A op, t, e : Event(op, t, e) = Store!Event(op, t, e)
    BY DEF NoEvent, Event, Store!NoEvent, Store!Event
  <1>1. ASSUME event' = NoEvent, Forgets PROVE Store!Next
    <2> DEFINE D == {t \in Tokens : Seen(t)' = None}
    <2>1. Visible' = Store!Without(Visible, D)
      BY <1>1, VisibleSeen DEF Forgets, Store!Without
    <2>2. Store!Forget
      BY <1>1, <1>r, <2>1 DEF Store!Forget
    <2> QED
      BY <2>2 DEF Store!Next
  <1>2. ASSUME NEW cmd \in Sent, CarryOut(cmd) PROVE Store!Next
    <2> DEFINE t == cmd.token
    <2>0. t \in Tokens
      BY DEF Sent, Commands
    <2>1. CASE SetServed(cmd)
      <3>1. Decode(cmd.value) \in Entries
        BY <2>1, RoundTrip DEF SetServed, Sent
      <3>2. Visible' = Store!Without(Store!With(Visible, t, Decode(cmd.value)), {})
        BY <1>2, <2>0, <2>1, VisibleSeen, CarryOutSeen DEF Store!Without, Store!With
      <3>3. event' = Store!Event("put", t, Decode(cmd.value))
        BY <1>r, <2>1 DEF SetServed
      <3>4. Store!Put(t, Decode(cmd.value))
        BY <3>2, <3>3 DEF Store!Put
      <3> QED
        BY <2>0, <3>1, <3>4 DEF Store!Next
    <2>2. CASE DelServed(cmd) \/ MissServed(cmd)
      <3>1. Visible' = Store!Without(Visible, {t})
        BY <1>2, <2>0, <2>2, VisibleSeen, CarryOutSeen DEF Store!Without
      <3>2. event' = Store!Event("delete", t, None) \/ event' = Store!Event("get", t, None)
        BY <1>r, <2>2 DEF DelServed, MissServed
      <3>3. Store!Delete(t) \/ Store!Miss(t)
        BY <3>1, <3>2 DEF Store!Delete, Store!Miss
      <3> QED
        BY <2>0, <3>3 DEF Store!Next
    <2>3. CASE HitServed(cmd)
      <3>1. Visible' = Visible
        BY <1>2, <2>0, <2>3, VisibleSeen, CarryOutSeen
      <3>2. CASE db[cmd.key].value = Garbage
        BY <1>1, <1>2, <2>0, <2>3, <3>2, CarryOutSeen DEF HitServed, Forgets
      <3>3. CASE db[cmd.key].value # Garbage
        <4>1. Seen(t) = Decode(db[cmd.key].value) /\ Seen(t) \in Entries
          BY <2>3, <3>3, HitIsCurrent, RoundTrip DEF Seen, HitServed, Sent
        <4>2. event' = Store!Event("get", t, Visible[t]) /\ Visible[t] # None
          BY <1>r, <2>0, <2>3, <3>3, <4>1, VisibleSeen, NoneAssumption DEF HitServed
        <4>3. Store!Hit(t)
          BY <3>1, <4>2 DEF Store!Hit
        <4> QED
          BY <2>0, <4>3 DEF Store!Next
      <3> QED
        BY <3>2, <3>3
    <2> QED
      BY <1>2, <2>1, <2>2, <2>3, CarryOutCases
  <1>3. CASE UNCHANGED vars
    <2>1. Visible' = Visible
      BY <1>3, VisibleSeen, SeenStays DEF vars
    <2> QED
      BY <1>3, <2>1 DEF vars
  <1> QED
    BY <1>1, <1>2, <1>3, StepCases

(* ImplementsStore: with any number of callers and of late or lost commands, *)
(* the store is the atomic one the interceptor relies on.                    *)
THEOREM Implementation == Spec => ImplementsStore
  <1>1. Init => Store!Init
    <2> SUFFICES ASSUME Init PROVE Store!Init
      OBVIOUS
    <2>1. \A t \in Tokens : Seen(t) = None
      BY KeyFacts DEF Init, Seen, Present
    <2> QED
      BY <2>1, VisibleSeen DEF Init, Store!Init, Store!EmptyStore, NoEvent, Event,
                               Store!NoEvent, Store!Event
  <1>2. Inv /\ [Next]_vars => [Store!Next]_<<Visible, event>>
    BY StepRefines
  <1> QED
    BY <1>1, <1>2, Invariance, PTL DEF Spec, ImplementsStore, Store!Spec
=============================================================================
