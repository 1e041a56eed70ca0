--------------------------- MODULE MCConnection ---------------------------
(* Headers of two chunks; version carries two more, verack none, others one. *)
EXTENDS Connection

MCKinds   == {"version", "oldversion", "verack", "headers"}
MCPayload == [k \in MCKinds |-> CASE k = "verack" -> 0 [] k = "headers" -> 1 [] OTHER -> 2]
=============================================================================
