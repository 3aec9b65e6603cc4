--------------------------- MODULE MCEventStream ---------------------------
(* TLC instance of EventStream.  Pages do not interact: each has its own   *)
(* connection, and the bus treats them alike, so one page is enough.       *)
EXTENDS EventStream

CONSTANT p1
OnePage == {p1}
=============================================================================
