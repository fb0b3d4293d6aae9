------------------------------- MODULE Taskbar -------------------------------
(***************************************************************************)
(* What the dock promises its user, without lists, maps or buckets: which  *)
(* classes are pinned, which windows each class has, and which pins a      *)
(* restart brings back.  DockState implements this specification.          *)
(***************************************************************************)
CONSTANTS Classes, Windows, InitPins

VARIABLES
    pinned,     \* the pinned classes
    open,       \* the open windows of each class
    saved,      \* the pins on disk
    writing     \* the sets of pins being written to disk

vars == <<pinned, open, saved, writing>>

Init ==
    /\ saved \in InitPins
    /\ pinned = saved
    /\ open = [c \in Classes |-> {}]
    /\ writing = {}

OpenWindow(c, w) ==
    /\ open' = [open EXCEPT ![c] = @ \cup {w}]
    /\ UNCHANGED <<pinned, saved, writing>>

CloseWindow(c, w) ==
    /\ open' = [open EXCEPT ![c] = @ \ {w}]
    /\ UNCHANGED <<pinned, saved, writing>>

\* Arranging the dock by hand may pin or unpin one class.
Arrange(c) ==
    /\ pinned' \in {pinned \cup {c}, pinned \ {c}}
    /\ UNCHANGED <<open, saved, writing>>

\* The menu pins or unpins one class and starts writing the pins.
Choose(c) ==
    /\ pinned' \in {pinned \cup {c}, pinned \ {c}}
    /\ writing' = writing \cup {pinned'}
    /\ UNCHANGED <<open, saved>>

\* A write may end while another of the same pins goes on.
Forget(s) == writing' \in {writing, writing \ {s}}

WriteDone(s) ==
    /\ saved' = s
    /\ Forget(s)
    /\ UNCHANGED <<pinned, open>>

WriteFails(s) ==
    /\ Forget(s)
    /\ UNCHANGED <<pinned, open, saved>>

Restart ==
    /\ pinned' = saved
    /\ open' = [c \in Classes |-> {}]
    /\ writing' = {}
    /\ UNCHANGED saved

Next ==
    \/ \E c \in Classes, w \in Windows : OpenWindow(c, w) \/ CloseWindow(c, w)
    \/ \E c \in Classes : Arrange(c) \/ Choose(c)
    \/ \E s \in writing : WriteDone(s) \/ WriteFails(s)
    \/ Restart

Spec == Init /\ [][Next]_vars

=============================================================================
