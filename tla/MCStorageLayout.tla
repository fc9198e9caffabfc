-------------------------- MODULE MCStorageLayout --------------------------
(***************************************************************************)
(* StorageLayout for the model checker: a pairing function in the place of *)
(* the hash, above all the numbers that are used as slots.                 *)
(***************************************************************************)
EXTENDS StorageLayout

MCkeccak(a, b) == ((a + b) * (a + b + 1)) \div 2 + b + 11 * SHIFT + 1

=============================================================================
