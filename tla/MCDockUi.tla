------------------------------- MODULE MCDockUi -------------------------------
(* Instances of DockUi for model checking. *)
EXTENDS DockUi

\* Two files of one application, of which the second replaces the first, and a
\* class without any.
Local  == [id |-> "files", name |-> "Files", icon |-> "none",
           exec |-> <<"files", " ", "%", "i", " ", "%", "U">>]
System == [id |-> "files", name |-> "Files", icon |-> "folder",
           exec |-> <<"files", " ", "%", "f", "%", "i", " ", "--title", " ", "%", "c", "%", "u">>]

Disk == {<<System, Local>>, <<Local, System>>}

\* What the theorem about launches asks of the files
ASSUME CommandsAssumption == WellFormedCommands

=============================================================================
