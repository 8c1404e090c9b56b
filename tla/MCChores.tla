------------------------------ MODULE MCChores ------------------------------
(* Either what follows the statistics may fail, or the statistics, or what  *)
(* comes before them and storing.                                           *)
EXTENDS Chores

Kinds == {{"connect", "load"}, {"stats_file", "statsd"}, {"network", "store"}}
TwoAndOne == [k \in Key |-> IF k = Dropped THEN 1 ELSE 2]
=============================================================================
