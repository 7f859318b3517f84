--------------------------- MODULE CachedVaultMC ---------------------------
(* Instances of CachedVault for TLC: a directory of two files, reached by   *)
(* canonical paths, by a second spelling of one of them, or rejected.       *)
EXTENDS CachedVault, TLC

ClientSymmetry == Permutations(Clients)

CanonicalFileOf == [p \in Paths |-> IF p = "a" THEN "A" ELSE IF p = "b" THEN "B" ELSE NoFile]

\* "./a" reaches the file of "a" under another key, and past its schema.
AliasedFileOf == [p \in Paths |-> "A"]
=============================================================================
