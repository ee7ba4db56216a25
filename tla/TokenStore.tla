----------------------------- MODULE TokenStore -----------------------------
(***************************************************************************)
(* What tokencache.Store promises its one caller, the interceptor, whatever *)
(* the backend: a token is found with the entry of its last Put or not      *)
(* found at all.  A store may forget any token at any moment (expiry, LRU   *)
(* eviction, a restart); it never invents a token and never changes an      *)
(* entry on its own.                                                        *)
(*                                                                         *)
(* LocalCache is shown to implement this specification, and Proxy calls its *)
(* stores through the same operators (StoreValues).                         *)
(***************************************************************************)
EXTENDS StoreValues

VARIABLES contents, \* [Tokens -> Entries \cup {None}]
          event     \* the call this step completed and its entry, or NoEvent

Event(op, t, e) == [op |-> op, token |-> t, entry |-> e]

NoEvent == Event("none", None, None)
-----------------------------------------------------------------------------
Init == contents = EmptyStore /\ event = NoEvent

\* Put stores e under t; the store may make room by forgetting other tokens.
Put(t, e) ==
    /\ \E D \in SUBSET (Tokens \ {t}) :
          contents' = Without(With(contents, t, e), D)
    /\ event' = Event("put", t, e)

\* Get finds the entry of the last Put.
Hit(t) ==
    /\ contents[t] # None
    /\ event' = Event("get", t, contents[t])
    /\ UNCHANGED contents

\* Get finds nothing, and from then on the token is forgotten.
Miss(t) ==
    /\ contents' = Without(contents, {t})
    /\ event' = Event("get", t, None)

Delete(t) ==
    /\ contents' = Without(contents, {t})
    /\ event' = Event("delete", t, None)

\* The store forgets tokens on its own.
Forget ==
    /\ \E D \in SUBSET Tokens : contents' = Without(contents, D)
    /\ event' = NoEvent

Next ==
    \/ \E t \in Tokens : Hit(t) \/ Miss(t) \/ Delete(t)
    \/ \E t \in Tokens, e \in Entries : Put(t, e)
    \/ Forget

Spec == Init /\ [][Next]_<<contents, event>>
=============================================================================
