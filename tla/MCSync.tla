------------------------------- MODULE MCSync -------------------------------
(* A hub with one change, a client that has cloned it and one that has not.
   The hub's people write its branch, the clients' write everything.         *)
EXTENDS Sync

MCWrites == {<<Hub, "head">>} \cup (Clients \X Names)
=============================================================================
