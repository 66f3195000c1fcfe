--------------------------- MODULE MCMySqlRestore ---------------------------
(* MySqlRestore for TLC: executions of the same item are interchangeable,   *)
(* and every property of the safety run is indifferent to their names.      *)
EXTENDS MySqlRestore, TLC

AttemptSymmetry == Permutations(Attempts)

=============================================================================
