--------------------------- MODULE MCServerSleep ---------------------------
(* Instances of ServerSleep for TLC: threads are model values. *)
EXTENDS ServerSleep
=============================================================================
