---------------------------- MODULE MCDispatcher ----------------------------
(* Instances of Dispatcher for TLC. *)
EXTENDS Dispatcher

NoHeader == {Absent}
(* A header that asks for longer than the configured pause after 429. *)
LongOrAbsent == {Absent, 2}
=============================================================================
