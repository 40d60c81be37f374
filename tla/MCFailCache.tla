---------------------------- MODULE MCFailCache ----------------------------
(* Instances of FailCache for TLC.                                         *)
EXTENDS FailCache, TLC

\* Workers are alike, and so are the questions that share the slot.
Symmetric == Permutations(Workers) \cup Permutations(Keys)

=============================================================================
