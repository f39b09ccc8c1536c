-------------------------- MODULE MCResourceManager --------------------------
(* ResourceManager for TLC: names and handles are interchangeable.         *)
EXTENDS ResourceManager, TLC

Interchangeable == Permutations(Names) \cup Permutations(Handles)
=============================================================================
