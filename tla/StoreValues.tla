---------------------------- MODULE StoreValues -----------------------------
(***************************************************************************)
(* The value of a token store, as its callers see it: for each token the    *)
(* entry it was last put with, or None.                                     *)
(***************************************************************************)

CONSTANTS Tokens,   \* opaque task tokens
          Entries,  \* tokencache.Entry: the namespace and queue of a token
          None      \* no entry

Contents == [Tokens -> Entries \cup {None}]

EmptyStore == [t \in Tokens |-> None]

\* The tokens of a store value.
Found(c) == {t \in Tokens : c[t] # None}

\* c after a Put of e under token t.
With(c, t, e) == [c EXCEPT ![t] = e]

\* c without the tokens of D.
Without(c, D) == [t \in Tokens |-> IF t \in D THEN None ELSE c[t]]
=============================================================================
