-------------------------- MODULE MCFileLifecycle ---------------------------
(* Instances of FileLifecycle for TLC. *)
EXTENDS FileLifecycle, TLC

CONSTANTS e1, e2

\* One event per batch, so that a second flush may repeat the first.
MCSingles == {{e} : e \in Event}

MCSymmetry == Permutations(Event)

=============================================================================
