----------------------------- MODULE MCSandbox -----------------------------
(* Small instances of Sandbox for TLC. *)
EXTENDS Sandbox, TLC

\* DefaultFileSystem: each sandbox has a root of its own.
PrivateRoots == [s \in Sandboxes |-> s]

\* StaticFileSystem with a mount at "/": all sandboxes have the same root.
SharedRoot == [s \in Sandboxes |-> CHOOSE r \in Roots : TRUE]

Symmetry == Permutations(Callers) \cup Permutations(Cells)
=============================================================================
