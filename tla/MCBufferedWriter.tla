-------------------------- MODULE MCBufferedWriter --------------------------
(* Instances of BufferedWriter for TLC. *)
EXTENDS BufferedWriter, TLC

CONSTANTS h1, h2

TwoHandlers == {h1, h2}
OneHandler  == {h1}

NoPoison  == {}
\* The second row of the first table can never be mapped.
OnePoison == {<<1, 2>>}

\* Handlers are interchangeable (safety runs only).
HandlerSymmetry == Permutations(Handlers)
=============================================================================
