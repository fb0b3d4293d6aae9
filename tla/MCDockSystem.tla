----------------------------- MODULE MCDockSystem -----------------------------
(* Instances of DockSystem for model checking. *)
EXTENDS DockSystem, TLC

EmptyFile == {<<>>}

Symmetry == Permutations(Classes) \cup Permutations(Windows)

\* A disk that answers before anything else happens: the order of the writes is
\* DockState's matter and changes nothing that DockSystem's properties speak of.
PromptDiskSpec == Init /\ [][Next /\ (saves # <<>> => SaveStep)]_vars

=============================================================================
