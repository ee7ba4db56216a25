----------------------------- MODULE LocalCache -----------------------------
(***************************************************************************)
(* internal/tokencache/cache.go: the sharded in-memory store with a sliding *)
(* TTL, LRU eviction per shard and a janitor goroutine.                     *)
(*                                                                         *)
(* Every method of a shard runs under the shard's mutex, so one call is one *)
(* step; callers on any number of goroutines interleave step by step.  The  *)
(* janitor is not one step: it takes a tick that may be old by the time it  *)
(* is received, and sweeps the shards one after the other with that same    *)
(* time, while callers run in between.                                      *)
(***************************************************************************)
EXTENDS Integers, Sequences, FiniteSets

CONSTANTS Tokens, Entries, None,
          NumShards,  \* numShards (32 in the code)
          MaxSize,    \* the maxSize argument of New
          TTL,        \* the ttl argument of New, in clock units
          MaxTime     \* bound: the clock stops here

ASSUME TimeAssumption == TTL \in Nat \ {0} /\ MaxTime \in Nat
ASSUME SizeAssumption == NumShards \in Nat \ {0} /\ MaxSize \in Nat

VARIABLES
    now,      \* the monotonic clock behind time.Now()
    shardOf,  \* the shard the random hash seed gives each token
    items,    \* items[s][t]: what shard s's map holds for t, or None
    ll,       \* ll[s]: shard s's recency list, front = most recently used
    tick,     \* the ticker's one-slot channel: a time, or None
    janitor,  \* the janitor goroutine
    closed,   \* stopJanitor is closed
    event,    \* the call this step completed and its entry, or NoEvent
    granted,  \* history: t's last Put, with the time of t's last touch; None
              \* before the first Put and after a Delete
    since     \* history: since[t]: the other tokens touched since t's last touch

vars == <<now, shardOf, items, ll, tick, janitor, closed, event, granted, since>>
-----------------------------------------------------------------------------
Shards == 1..NumShards
Times  == 0..MaxTime

\* New: the size cap of one shard.
PerShard == IF MaxSize \div NumShards > 1 THEN MaxSize \div NumShards ELSE 1

Item(e, x) == [entry |-> e, expiresAt |-> x]
Items      == [entry : Entries, expiresAt : 0..(MaxTime + TTL)]

Grants == [entry : Entries, at : Times]

\* None is told apart from every value it stands in for.
ASSUME NoneAssumption ==
    None \notin Entries /\ None \notin Items /\ None \notin Grants /\ None \notin Times

JanitorStates ==
    [at : {"select", "stopped"}, time : {0}, shard : {0}]
        \cup [at : {"sweep"}, time : Times, shard : Shards]

Select == [at |-> "select", time |-> 0, shard |-> 0]

\* The tokens of shard s's map.
Keys(s) == {t \in Tokens : items[s][t] # None}

\* Mutant of Expired: !now.Before(expiresAt).
ExpiredAtDeadline(it, time) == time >= it.expiresAt

\* Mutant of Expired: the check is missing.
NeverExpires(it, time) == FALSE

\* now.After(expiresAt): strictly later.
Expired(it, time) == time > it.expiresAt

\* The tokens of a list.
Elements(list) == {list[i] : i \in 1..Len(list)}

(* list.Remove of every token of D: the k-th token of the result is the k-th *)
(* that stays.  Positions, and not SelectSeq, so that it can be reasoned     *)
(* about.                                                                    *)
Removed(list, D) ==
    LET Staying == {i \in 1..Len(list) : list[i] \notin D}
        Rank(i) == Cardinality({j \in Staying : j <= i})
    IN  [k \in 1..Cardinality(Staying) |-> list[CHOOSE i \in Staying : Rank(i) = k]]

\* Mutant of MoveToFront: a use does not count as recent.
LeftInPlace(t, list) == list

\* list.MoveToFront.
MoveToFront(t, list) == <<t>> \o Removed(list, {t})

\* put's loop: elements go from the back until no more than maxSize are left.
DropFromBack(list) ==
    IF Len(list) > PerShard THEN SubSeq(list, 1, PerShard) ELSE list

\* Mutant of RemoveElements: the list element is left behind.
RemoveFromMapOnly(s, D) ==
    /\ items' = [items EXCEPT ![s] = [t \in Tokens |-> IF t \in D THEN None ELSE @[t]]]
    /\ UNCHANGED ll

\* removeElement, for every token of D.
RemoveElements(s, D) ==
    /\ ll'    = [ll EXCEPT ![s] = Removed(@, D)]
    /\ items' = [items EXCEPT ![s] = [t \in Tokens |-> IF t \in D THEN None ELSE @[t]]]

Events ==
    [op : {"none", "put", "get", "delete"},
     token : Tokens \cup {None}, entry : Entries \cup {None}]

Event(op, t, e) == [op |-> op, token |-> t, entry |-> e]

NoEvent == Event("none", None, None)

\* History: t is used at the given time with entry e.
Touch(t, e, time) ==
    /\ granted' = [granted EXCEPT ![t] = [entry |-> e, at |-> time]]
    /\ since'   = [u \in Tokens |-> IF u = t THEN {} ELSE since[u] \cup {t}]
-----------------------------------------------------------------------------
\* New: empty shards, a random seed, the janitor started.
Init ==
    /\ now = 0
    /\ shardOf \in [Tokens -> Shards]
    /\ items = [s \in Shards |-> [t \in Tokens |-> None]]
    /\ ll = [s \in Shards |-> <<>>]
    /\ tick = None
    /\ janitor = Select
    /\ closed = FALSE
    /\ event = NoEvent
    /\ granted = [t \in Tokens |-> None]
    /\ since = [t \in Tokens |-> {}]

\* Mutant of Renewed: the old entry stays.
RenewedExpiryOnly(t, e) == Item(items[shardOf[t]][t].entry, now + TTL)

\* The item of t after a Put: the new entry, and a TTL from now.
Renewed(t, e) == Item(e, now + TTL)

(* shard.put for a token the map already holds: new entry, new expiry, moved *)
(* to the front of the list.                                                 *)
PutExisting(t, e) ==
    LET s == shardOf[t] IN
    /\ t \in Keys(s)
    /\ items' = [items EXCEPT ![s][t] = Renewed(t, e)]
    /\ ll' = [ll EXCEPT ![s] = MoveToFront(t, @)]
    /\ event' = Event("put", t, e)
    /\ Touch(t, e, now)
    /\ UNCHANGED <<now, shardOf, tick, janitor, closed>>

(* shard.put for a new token: pushed to the front, then elements are removed *)
(* from the back until the map is no larger than the shard's maxSize, which  *)
(* is at least 1: the new token stays.                                       *)
PutNew(t, e) ==
    LET s    == shardOf[t]
        kept == DropFromBack(<<t>> \o ll[s])
    IN
    /\ t \notin Keys(s)
    /\ ll' = [ll EXCEPT ![s] = kept]
    /\ items' = [items EXCEPT ![s] =
                    [u \in Tokens |-> IF u = t THEN Item(e, now + TTL)
                                      ELSE IF u \in Elements(kept) THEN @[u] ELSE None]]
    /\ event' = Event("put", t, e)
    /\ Touch(t, e, now)
    /\ UNCHANGED <<now, shardOf, tick, janitor, closed>>

(* shard.get on a live token.  time.Now() is read again for the new expiry,  *)
(* so the clock may have moved on since the check.                           *)
GetHit(t) ==
    LET s == shardOf[t] IN
    /\ t \in Keys(s)
    /\ ~Expired(items[s][t], now)
    /\ \E later \in now..MaxTime :
          /\ now' = later
          /\ items' = [items EXCEPT ![s][t] = Item(items[s][t].entry, later + TTL)]
          /\ Touch(t, items[s][t].entry, later)
    /\ ll' = [ll EXCEPT ![s] = MoveToFront(t, @)]
    /\ event' = Event("get", t, items[s][t].entry)
    /\ UNCHANGED <<shardOf, tick, janitor, closed>>

\* shard.get on an expired token: removed on the spot and reported missing.
GetExpired(t) ==
    LET s == shardOf[t] IN
    /\ t \in Keys(s)
    /\ Expired(items[s][t], now)
    /\ RemoveElements(s, {t})
    /\ event' = Event("get", t, None)
    /\ UNCHANGED <<now, shardOf, tick, janitor, closed, granted, since>>

\* shard.get on a token the map does not hold.
GetAbsent(t) ==
    /\ t \notin Keys(shardOf[t])
    /\ event' = Event("get", t, None)
    /\ UNCHANGED <<now, shardOf, items, ll, tick, janitor, closed, granted, since>>

\* shard.delete: the token goes if it is there.
Delete(t) ==
    /\ RemoveElements(shardOf[t], {t} \cap Keys(shardOf[t]))
    /\ event' = Event("delete", t, None)
    /\ granted' = [granted EXCEPT ![t] = None]
    /\ UNCHANGED <<now, shardOf, tick, janitor, closed, since>>
-----------------------------------------------------------------------------
ClockAdvances ==
    /\ now < MaxTime
    /\ now' = now + 1
    /\ event' = NoEvent
    /\ UNCHANGED <<shardOf, items, ll, tick, janitor, closed, granted, since>>

(* The ticker sends the current time into its one-slot channel, or drops the *)
(* tick when the last one has not been received.  The interval of New is     *)
(* abstracted to "at any time".                                              *)
TickerFires ==
    /\ janitor.at # "stopped"
    /\ tick = None
    /\ tick' = now
    /\ event' = NoEvent
    /\ UNCHANGED <<now, shardOf, items, ll, janitor, closed, granted, since>>

\* runJanitor receives a tick, whose time may be long past.
JanitorWakes ==
    /\ janitor.at = "select"
    /\ tick # None
    /\ janitor' = [at |-> "sweep", time |-> tick, shard |-> 1]
    /\ tick' = None
    /\ event' = NoEvent
    /\ UNCHANGED <<now, shardOf, items, ll, closed, granted, since>>

\* Mutant of AfterSweep: the loop runs past the last shard.
SweepOneTooMany(s) ==
    IF s > NumShards THEN Select ELSE [janitor EXCEPT !.shard = s + 1]

\* Mutant of AfterSweep: the loop ends after one shard.
SweepFirstShardOnly(s) == Select

\* runJanitor's loop over the shards: on to the next one, or back to select.
AfterSweep(s) ==
    IF s = NumShards THEN Select ELSE [janitor EXCEPT !.shard = s + 1]

\* evictExpired on one shard.
JanitorSweeps ==
    LET s == janitor.shard IN
    /\ janitor.at = "sweep"
    /\ RemoveElements(s, {t \in Keys(s) : Expired(items[s][t], janitor.time)})
    /\ janitor' = AfterSweep(s)
    /\ event' = NoEvent
    /\ UNCHANGED <<now, shardOf, tick, closed, granted, since>>

\* Close, called once.
Close ==
    /\ ~closed
    /\ closed' = TRUE
    /\ event' = NoEvent
    /\ UNCHANGED <<now, shardOf, items, ll, tick, janitor, granted, since>>

\* runJanitor sees the closed channel in its select and stops its ticker.
JanitorStops ==
    /\ janitor.at = "select"
    /\ closed
    /\ janitor' = [janitor EXCEPT !.at = "stopped"]
    /\ event' = NoEvent
    /\ UNCHANGED <<now, shardOf, items, ll, tick, closed, granted, since>>

Get(t) == GetHit(t) \/ GetExpired(t) \/ GetAbsent(t)

Put(t, e) == PutExisting(t, e) \/ PutNew(t, e)

Janitor == JanitorWakes \/ JanitorSweeps \/ JanitorStops

Next ==
    \/ \E t \in Tokens, e \in Entries : Put(t, e)
    \/ \E t \in Tokens : Get(t) \/ Delete(t)
    \/ ClockAdvances \/ TickerFires \/ Close
    \/ Janitor

Spec == Init /\ [][Next]_vars

(* Time passes, the runtime delivers ticks, and the janitor goroutine is     *)
(* scheduled.  Nothing obliges anyone to call Put, Get, Delete or Close.     *)
Fairness == WF_vars(ClockAdvances) /\ WF_vars(TickerFires) /\ WF_vars(Janitor)

FairSpec == Spec /\ Fairness
-----------------------------------------------------------------------------
TypeOK ==
    /\ now \in Times
    /\ shardOf \in [Tokens -> Shards]
    /\ items \in [Shards -> [Tokens -> Items \cup {None}]]
    /\ ll \in [Shards -> Seq(Tokens)]
    /\ tick \in Times \cup {None}
    /\ janitor \in JanitorStates
    /\ closed \in BOOLEAN
    /\ event \in Events
    /\ granted \in [Tokens -> Grants \cup {None}]
    /\ since \in [Tokens -> SUBSET Tokens]

(* The list and the map of a shard hold the same tokens, each once, none     *)
(* hashed elsewhere, and no more of them than the shard's cap: put, get,     *)
(* delete and evictExpired keep the two structures of a shard in step.       *)
ListMatchesMap ==
    \A s \in Shards :
        /\ Elements(ll[s]) = Keys(s)
        /\ Len(ll[s]) = Cardinality(Keys(s))
        /\ Keys(s) \subseteq {t \in Tokens : shardOf[t] = s}
        /\ Len(ll[s]) <= PerShard

\* The other tokens of t's shard that have been used since t was.
SinceInShard(t) == {u \in since[t] : shardOf[u] = shardOf[t]}

(* t was put, not deleted since, used within the last TTL, and fewer than    *)
(* cap other tokens of its shard have been used since.                       *)
Owed(t, cap) ==
    /\ granted[t] # None
    /\ now <= granted[t].at + TTL
    /\ Cardinality(SinceInShard(t)) < cap

RetainedUpTo(cap) ==
    \A t \in Tokens : Owed(t, cap) =>
        /\ t \in Keys(shardOf[t])
        /\ items[shardOf[t]][t].entry = granted[t].entry

(* The retention guarantee: a token used within the TTL and among the        *)
(* PerShard most recently used of its shard is in the cache, whatever the    *)
(* janitor sweeps with a stale tick and whatever other tokens come and go.   *)
LiveTokensRetained == RetainedUpTo(PerShard)

(* cache.go:141-142 says the effective cap is maxSize rounded up to a        *)
(* multiple of the shard count: a shard would keep that share of it.         *)
DocumentedCap == (MaxSize + NumShards - 1) \div NumShards

RetainedUpToDocumentedCap == RetainedUpTo(DocumentedCap)

(* No Get ever answers with a token that was deleted since its last Put,     *)
(* with an entry other than the last one put, or after more than TTL without *)
(* a use: what get hands out is checked against the history of the calls.    *)
HitsAreCurrent ==
    [][ \A t \in Tokens, e \in Entries :
           event' = Event("get", t, e) =>
               /\ granted[t] # None
               /\ granted[t].entry = e
               /\ now <= granted[t].at + TTL ]_vars

(* A token leaves the cache only because it was deleted, because its TTL has *)
(* run out by the real clock, or because its shard was full and the token    *)
(* was its least recently used.  In particular the janitor, which compares   *)
(* with the time of its tick, never removes a token renewed after the tick.  *)
RemovalsAreJustified ==
    [][ \A t \in Tokens :
           LET s == shardOf[t] IN
           t \in Keys(s) /\ items'[s][t] = None =>
               \/ granted'[t] = None
               \/ now > items[s][t].expiresAt
               \/ /\ Len(ll[s]) = PerShard
                  /\ ll[s][PerShard] = t ]_vars

(* Every token whose expiry has come is removed or renewed in the end, even  *)
(* if nobody asks for it again: unless Close stopped the janitor, memory     *)
(* does not fill with tokens of tasks that were never answered.              *)
ExpiredAreSwept ==
    \A t \in Tokens, x \in 0..(MaxTime - 1) :
        LET Lingers == /\ items[shardOf[t]][t] # None
                       /\ items[shardOf[t]][t].expiresAt = x
        IN Lingers ~> (~Lingers \/ closed)

(* What the store looks like from outside: the tokens of their shards' maps. *)
Visible == [t \in Tokens |-> IF items[shardOf[t]][t] = None THEN None
                             ELSE items[shardOf[t]][t].entry]

Store == INSTANCE TokenStore WITH contents <- Visible, event <- event

(* The sharded cache implements the contract the interceptor relies on.      *)
ImplementsStore == Store!Spec
=============================================================================
