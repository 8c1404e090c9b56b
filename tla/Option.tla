------------------------------- MODULE Option --------------------------------
(* The value that is not there.                                             *)
CONSTANT Absent           \* Option::None, or what is returned for an error
=============================================================================
