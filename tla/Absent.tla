-------------------------------- MODULE Absent --------------------------------
(* The missing value of an optional field, shared by the collectors.       *)
CONSTANT None
=============================================================================
