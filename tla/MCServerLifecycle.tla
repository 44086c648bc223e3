-------------------------- MODULE MCServerLifecycle --------------------------
(* Instances of ServerLifecycle for TLC. *)
EXTENDS ServerLifecycle, TLC

CONSTANTS o, a, b

\* A new file, and one from before version 8 with rows in it.
FreshOrSeven == {DatabaseAt(0), DatabaseAt(7)}
Seven        == {DatabaseAt(7)}

\* The processes without -skip-if-running start alike.
Alike == Permutations({o, a})
=============================================================================
