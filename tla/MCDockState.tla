----------------------------- MODULE MCDockState -----------------------------
(* Instances of DockState for model checking. *)
EXTENDS DockState, TLC

\* Every pinned.json of at most two entries, a repeated class included.
AllFiles == UNION {[1 .. n -> Classes] : n \in 0 .. 2}

\* Every pinned.json that the program itself may have written.
WrittenFiles == {f \in UNION {[1 .. n -> Classes] : n \in 0 .. 2} : IsInjective(f)}

EmptyFile == {<<>>}

Symmetry == Permutations(Classes) \cup Permutations(Windows)

\* Without drag and drop, and with a disk that does not fail.
MenuOnlyNext ==
    \/ LoadNext
    \/ WindowEvent
    \/ UseMenu
    \/ \E i \in DOMAIN saves : CompleteSave(i)
    \/ Restart

MenuOnlySpec == Init /\ [][MenuOnlyNext]_vars

\* Every step of the dock, with a disk that answers before anything else
\* happens; overlapping writes are the matter of the other instances.
PromptDiskNext ==
    /\ Next
    /\ saves # <<>> => Restart \/ \E i \in DOMAIN saves : CompleteSave(i) \/ FailSave(i)

PromptDiskSpec == Init /\ [][PromptDiskNext]_vars

=============================================================================
