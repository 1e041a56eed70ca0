---------------------------- MODULE MCLifecycle ----------------------------
(* One client of the RPC server. *)
EXTENDS Lifecycle

CONSTANT c1

MCConns == {c1}
=============================================================================
