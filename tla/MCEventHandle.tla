--------------------------- MODULE MCEventHandle ---------------------------
(* TLC instance of EventHandle: three handles, three events, two handlers.   *)
EXTENDS EventHandle, TLC

\* Handles, addresses and handlers are interchangeable.
Symmetry == Permutations(Handle) \cup Permutations(Impl) \cup Permutations(Hdl)

=============================================================================
