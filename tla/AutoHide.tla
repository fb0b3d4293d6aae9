------------------------------- MODULE AutoHide -------------------------------
(***************************************************************************)
(* The bar that slides in and out under the pointer, and the popover menus *)
(* that keep it in (rain-dock/src/ui/bar.rs, factory.rs).                  *)
(*                                                                         *)
(* The handlers of enter and leave read two things other code writes: the  *)
(* lists of buckets and the flag popup_is_open, one for all popovers.      *)
(***************************************************************************)
CONSTANTS Classes, NoClass

VARIABLES pointer,      \* "in" or "out" of the box that holds bar and trigger
          revealed,     \* reveal_child of the bar's Revealer
          popover,      \* the class whose menu is open, or NoClass
          popupIsOpen   \* DockState.popup_is_open

hvars == <<pointer, revealed, popover, popupIsOpen>>

\* The property's default; no code changes it.
AutoHideOn == TRUE

\* The dock is built before any bucket is loaded.
HideInit ==
    /\ pointer = "out"
    /\ revealed = FALSE
    /\ popover = NoClass
    /\ popupIsOpen = FALSE

\* onDock: the classes with a bucket
Enter(onDock) ==
    /\ pointer = "out"
    /\ pointer' = "in"
    /\ revealed' = (revealed \/ (AutoHideOn /\ onDock # {}))
    /\ UNCHANGED <<popover, popupIsOpen>>

\* Faulty variant: a leave for the menu hides the bar too.
HidesOnLeaveAlways == AutoHideOn

\* Does a leave hide the bar?
HidesOnLeave == AutoHideOn /\ ~popupIsOpen

Leave ==
    /\ pointer = "in"
    /\ pointer' = "out"
    /\ revealed' = (revealed /\ ~HidesOnLeave)
    /\ UNCHANGED <<popover, popupIsOpen>>

\* A right click on the button of class c: the popover is shown, and its show
\* handler sets the flag.  GTK lets the click that dismisses an open popover
\* reach nothing else, so no other is open.
RightClick(c) ==
    /\ pointer = "in" /\ revealed /\ popover = NoClass
    /\ popover' = c
    /\ popupIsOpen' = TRUE
    /\ UNCHANGED <<pointer, revealed>>

\* popdown, by a button of the menu, Escape or a click elsewhere: the hide
\* handler clears the flag.
Popdown ==
    /\ popover' = NoClass
    /\ popupIsOpen' = FALSE
    /\ UNCHANGED <<pointer, revealed>>

\* The item of class c leaves its list and its button is unbound: an open menu
\* goes with it.  Whether GTK runs the hide handler of a popover it unparents is
\* GTK's matter: both are possible.
Unbind(c) ==
    /\ \/ popover # c /\ UNCHANGED <<popover, popupIsOpen>>
       \/ popover = c /\ popover' = NoClass /\ popupIsOpen' \in BOOLEAN
    /\ UNCHANGED <<pointer, revealed>>

=============================================================================
