--------------------------- MODULE MCValkeyStore ----------------------------
(* ValkeyStore on a small instance: TTLs of half a millisecond and of one    *)
(* and a half.                                                               *)
EXTENDS ValkeyStore
=============================================================================
