--------------------------- MODULE MC_EventStore -----------------------------
(* Two writers race on one flow of a small instance of EventStore. *)
EXTENDS EventStore
==============================================================================
