-------------------------- MODULE DockSystem_proofs --------------------------
(***************************************************************************)
(* Proofs about DockSystem, for any windows, classes, capacity and bounds: *)
(* every event finds the dock where DockState assumes it; the windows the  *)
(* dock shows converge to those on the screen, and the one it takes for    *)
(* active to the one that has the focus.                                   *)
(*                                                                         *)
(* Every step of the system is a step of the pipeline and of the dock, or  *)
(* leaves one of them alone, so the invariants proved of Toplevel and      *)
(* DockState hold here.  What is new relates the two: what the module has  *)
(* reported of a window is what the dock has applied and what is still in  *)
(* the channel; and what it knows of the focus of a reported window is     *)
(* what the last of those events says, unless a done is still to come.     *)
(***************************************************************************)
EXTENDS DockSystem, SequenceFacts

TP == INSTANCE Toplevel_proofs
DP == INSTANCE DockState_proofs

-----------------------------------------------------------------------------
(* The instances of the proof modules are those of DockSystem. *)

LEMMA SamePipeline ==
    /\ Wl!Init <=> TP!Init
    /\ Wl!Compositor <=> TP!Compositor
    /\ Wl!Dispatch <=> TP!Dispatch
    /\ Wl!Receive <=> TP!Receive
    /\ Wl!Reconnect <=> TP!Reconnect
    /\ Wl!CaughtUp <=> TP!CaughtUp
    /\ Wl!OpenWindows = TP!OpenWindows
<1>1. Wl!Compositor <=> TP!Compositor
  BY DEF Wl!Compositor, Wl!Change, Wl!Introduce, Wl!WindowChange, Wl!Map, Wl!SetTitle,
         Wl!SetAppId, Wl!Activate, Wl!Deactivate, Wl!Unmap, Wl!Sends, Wl!Introduction,
         Wl!Focus, Wl!Msg, Wl!AppIdMsg, Wl!StateMsg,
         TP!Compositor, TP!Change, TP!Introduce, TP!WindowChange, TP!Map, TP!SetTitle,
         TP!SetAppId, TP!Activate, TP!Deactivate, TP!Unmap, TP!Sends, TP!Introduction,
         TP!Focus, TP!Msg, TP!AppIdMsg, TP!StateMsg
<1>2. Wl!Dispatch <=> TP!Dispatch
  BY DEF Wl!Dispatch, Wl!HandleToplevel, Wl!HandleTitle, Wl!HandleAppId, Wl!HandleState,
         Wl!HandleClosed, Wl!HandleDone, Wl!Update, Wl!Known, Wl!NewPending, Wl!Described,
         Wl!HasRoom, Wl!Report, Wl!AfterReport, Wl!Forgotten,
         TP!Dispatch, TP!HandleToplevel, TP!HandleTitle, TP!HandleAppId, TP!HandleState,
         TP!HandleClosed, TP!HandleDone, TP!Update, TP!Known, TP!NewPending, TP!Described,
         TP!HasRoom, TP!Report, TP!AfterReport, TP!Forgotten
<1>3. Wl!OpenWindows = TP!OpenWindows
  BY DEF Wl!OpenWindows, TP!OpenWindows
<1>4. Wl!Init <=> TP!Init
  BY DEF Wl!Init, TP!Init
<1>5. Wl!Receive <=> TP!Receive
  BY DEF Wl!Receive, TP!Receive
<1>6. Wl!Reconnect <=> TP!Reconnect
  BY <1>3 DEF Wl!Reconnect, TP!Reconnect
<1>7. Wl!CaughtUp <=> TP!CaughtUp
  BY DEF Wl!CaughtUp, TP!CaughtUp
<1> QED BY <1>1, <1>2, <1>3, <1>4, <1>5, <1>6, <1>7

\* Looking a bucket up, and changing it in place
LEMMA SameLookup ==
    ASSUME NEW d, NEW c
    PROVE  /\ Dock!Located(d, c) <=> DP!Located(d, c)
           /\ Dock!IsPinned(d, c) <=> DP!IsPinned(d, c)
           /\ Dock!Index(d, c) = DP!Index(d, c)
           /\ Dock!FindBucket(d, c) = DP!FindBucket(d, c)
           /\ Dock!WinsOf(d, c) = DP!WinsOf(d, c)
           /\ \A b : Dock!SetBucket(d, c, b) = DP!SetBucket(d, c, b)
<1>1. Dock!Located(d, c) <=> DP!Located(d, c)
  BY DEF Dock!Located, Dock!HasClass, Dock!ListOf, DP!Located, DP!HasClass, DP!ListOf
<1>2. Dock!IsPinned(d, c) <=> DP!IsPinned(d, c)
  BY DEF Dock!IsPinned, DP!IsPinned
<1>3. Dock!Index(d, c) = DP!Index(d, c)
  BY DEF Dock!Index, Dock!FirstOf, Dock!ListOf, DP!Index, DP!FirstOf, DP!ListOf
<1>4. Dock!FindBucket(d, c) = DP!FindBucket(d, c)
  BY <1>3 DEF Dock!FindBucket, Dock!ListOf, DP!FindBucket, DP!ListOf
<1>5. Dock!WinsOf(d, c) = DP!WinsOf(d, c)
  BY <1>1, <1>4 DEF Dock!WinsOf, DP!WinsOf
<1>6. \A b : Dock!SetBucket(d, c, b) = DP!SetBucket(d, c, b)
  BY <1>3 DEF Dock!SetBucket, DP!SetBucket
<1> QED BY <1>1, <1>2, <1>3, <1>4, <1>5, <1>6

LEMMA SameFocusChange ==
    ASSUME NEW d, NEW c
    PROVE  /\ \A flag : Dock!SetFocused(d, c, flag) = DP!SetFocused(d, c, flag)
           /\ Dock!ChangeFocus(d, c) = DP!ChangeFocus(d, c)
<1>1. \A e, x, flag : Dock!SetFocused(e, x, flag) = DP!SetFocused(e, x, flag)
  BY SameLookup DEF Dock!SetFocused, DP!SetFocused
<1>2. Dock!ClearOldFocus(d) = DP!ClearOldFocus(d)
  BY <1>1, SameLookup DEF Dock!ClearOldFocus, DP!ClearOldFocus
<1>3. Dock!ChangeFocus(d, c) = DP!ChangeFocus(d, c)
  BY <1>1, <1>2, SameLookup DEF Dock!ChangeFocus, DP!ChangeFocus
<1> QED BY <1>1, <1>3

LEMMA SameMoves ==
    ASSUME NEW d, NEW c
    PROVE  /\ Dock!RemoveBucket(d, c) = DP!RemoveBucket(d, c)
           /\ \A i, l : Dock!MoveBucket(d, c, i, l) = DP!MoveBucket(d, c, i, l)
           /\ Dock!PinInRam(d, c) = DP!PinInRam(d, c)
           /\ Dock!Unpin(d, c) = DP!Unpin(d, c)
<1>1. \A e, x : Dock!RemoveBucket(e, x) = DP!RemoveBucket(e, x)
  <2> TAKE e, x
  <2>1. (Dock!Located(e, x) <=> DP!Located(e, x)) /\ Dock!Index(e, x) = DP!Index(e, x)
        /\ Dock!FindBucket(e, x) = DP!FindBucket(e, x)
    BY SameLookup
  <2>2. CASE DP!Located(e, x)
    BY <2>1, <2>2 DEF Dock!RemoveBucket, Dock!RemoveAt, DP!RemoveBucket, DP!RemoveAt
  <2>3. CASE ~DP!Located(e, x)
    BY <2>1, <2>3 DEF Dock!RemoveBucket, DP!RemoveBucket
  <2> QED BY <2>2, <2>3
<1>2. \A e, b, i, l : Dock!InsertBucket(e, b, i, l) = DP!InsertBucket(e, b, i, l)
  <2> TAKE e, b, i, l
  <2>1. \A s : Dock!InsertAtPosition(s, i, b) = DP!InsertAtPosition(s, i, b)
    BY DEF Dock!InsertAtPosition, Dock!InsertAt, Dock!AtEnd, DP!InsertAtPosition, DP!InsertAt, DP!AtEnd
  <2> QED BY <2>1 DEF Dock!InsertBucket, DP!InsertBucket
<1>3. \A i, l : Dock!MoveBucket(d, c, i, l) = DP!MoveBucket(d, c, i, l)
  BY <1>1, <1>2, SameLookup DEF Dock!MoveBucket, DP!MoveBucket
<1>4. Dock!PinInRam(d, c) = DP!PinInRam(d, c)
  BY <1>2, <1>3 DEF Dock!PinInRam, Dock!NewBucket, Dock!AtEnd, DP!PinInRam, DP!NewBucket, DP!AtEnd
<1>5. Dock!Unpin(d, c) = DP!Unpin(d, c)
  BY <1>3, SameLookup DEF Dock!Unpin, Dock!AtEnd, DP!Unpin, DP!AtEnd
<1> QED BY <1>1, <1>3, <1>4, <1>5

LEMMA SameEvents ==
    ASSUME NEW c, NEW w
    PROVE  /\ \A f : Dock!Opened(c, w, f) <=> DP!Opened(c, w, f)
           /\ \A f : Dock!StateChanged(c, w, f) <=> DP!StateChanged(c, w, f)
           /\ Dock!Closed(c, w) <=> DP!Closed(c, w)
<1>1. \A b, f : Dock!Inserted(b, w, f) = DP!Inserted(b, w, f) /\ Dock!Updated(b, w, f) = DP!Updated(b, w, f)
  BY DEF Dock!Inserted, Dock!Updated, Dock!WithActive, DP!Inserted, DP!Updated, DP!WithActive
<1>2. \A b, f : Dock!Removed(b, w, f) = DP!Removed(b, w, f) /\ Dock!NextFocus(b, w) = DP!NextFocus(b, w)
  BY DEF Dock!Removed, Dock!NextFocus, DP!Removed, DP!NextFocus
<1>3. Dock!Running <=> DP!Running
  BY DEF Dock!Running, DP!Running
<1>4. \A d, f : Dock!PlaceApp(d, c, w, f) = DP!PlaceApp(d, c, w, f)
  BY <1>1, SameLookup DEF Dock!PlaceApp, Dock!NewBucket, DP!PlaceApp, DP!NewBucket
<1>5. \A d, f : Dock!AddApp(d, c, w, f) = DP!AddApp(d, c, w, f)
  BY <1>4, SameFocusChange DEF Dock!AddApp, DP!AddApp
<1>6. \A d, f : Dock!RemoveApp(d, c, w, f) = DP!RemoveApp(d, c, w, f)
  BY <1>2, SameLookup, SameMoves DEF Dock!RemoveApp, DP!RemoveApp
<1>7. \A d, f : Dock!ProcessStateChanged(d, c, w, f) = DP!ProcessStateChanged(d, c, w, f)
  <2> TAKE d, f
  <2> PICK u, v : /\ u = Dock!SetBucket(d, c, Dock!Updated(Dock!FindBucket(d, c), w, f))
                  /\ v = DP!SetBucket(d, c, DP!Updated(DP!FindBucket(d, c), w, f))
    OBVIOUS
  <2>1. u = v
    BY <1>1, SameLookup
  <2>2. /\ Dock!Located(d, c) <=> DP!Located(d, c)
        /\ Dock!ChangeFocus(u, c) = DP!ChangeFocus(u, c)
        /\ Dock!SetFocused(u, c, FALSE) = DP!SetFocused(u, c, FALSE)
    BY SameLookup, SameFocusChange
  <2>3. CASE ~DP!Located(d, c)
    BY <2>2, <2>3 DEF Dock!ProcessStateChanged, DP!ProcessStateChanged
  <2>4. CASE DP!Located(d, c) /\ f /\ d.focus # c
    BY <2>1, <2>2, <2>4 DEF Dock!ProcessStateChanged, DP!ProcessStateChanged
  <2>5. CASE DP!Located(d, c) /\ ~f /\ d.focus = c
    BY <2>1, <2>2, <2>5 DEF Dock!ProcessStateChanged, DP!ProcessStateChanged
  <2>6. CASE DP!Located(d, c) /\ (f <=> d.focus = c)
    BY <2>1, <2>2, <2>6 DEF Dock!ProcessStateChanged, DP!ProcessStateChanged
  <2> QED BY <2>3, <2>4, <2>5, <2>6
<1>8. \A d : Dock!DismissedWith(d) <=> DP!DismissedWith(d)
  BY SameLookup DEF Dock!DismissedWith, DP!DismissedWith
<1>9. \A f : Dock!Opened(c, w, f) <=> DP!Opened(c, w, f)
  BY <1>3, <1>5 DEF Dock!Opened, DP!Opened
<1>10. \A f : Dock!StateChanged(c, w, f) <=> DP!StateChanged(c, w, f)
  BY <1>3, <1>7 DEF Dock!StateChanged, DP!StateChanged
<1>11. Dock!Closed(c, w) <=> DP!Closed(c, w)
  BY <1>2, <1>3, <1>6, <1>8, SameLookup DEF Dock!Closed, DP!Closed
<1> QED BY <1>9, <1>10, <1>11

LEMMA SameDock ==
    /\ Dock!Init <=> DP!Init
    /\ Dock!LoadNext <=> DP!LoadNext
    /\ Dock!UseMenu <=> DP!UseMenu
    /\ Dock!UseDrag <=> DP!UseDrag
    /\ \A i : Dock!CompleteSave(i) <=> DP!CompleteSave(i)
    /\ \A i : Dock!FailSave(i) <=> DP!FailSave(i)
    /\ Dock!Restart <=> DP!Restart
<1>1. Dock!Init <=> DP!Init
  BY DEF Dock!Init, Dock!NewDock, Dock!Lists, DP!Init, DP!NewDock, DP!Lists
<1>2. Dock!LoadNext <=> DP!LoadNext
  BY SameMoves DEF Dock!LoadNext, DP!LoadNext
<1>3. \A d : Dock!SavePinned(d) <=> DP!SavePinned(d)
  BY DEF Dock!SavePinned, Dock!PinnedClasses, DP!SavePinned, DP!PinnedClasses
<1>4. Dock!UseMenu <=> DP!UseMenu
  <2>1. \A c : Dock!RightClick(c) <=> DP!RightClick(c)
    <3> TAKE c
    <3>1. Dock!IsPinned(dock, c) = DP!IsPinned(dock, c)
      BY DEF Dock!IsPinned, DP!IsPinned
    <3> QED BY <3>1, SameLookup DEF Dock!RightClick, Dock!Running, DP!RightClick, DP!Running
  <2>2. Dock!DismissMenu <=> DP!DismissMenu
    BY DEF Dock!DismissMenu, DP!DismissMenu
  <2>3. Dock!ClickPin <=> DP!ClickPin
    BY <1>3, SameMoves DEF Dock!ClickPin, DP!ClickPin
  <2>4. Dock!ClickUnpin <=> DP!ClickUnpin
    BY <1>3, SameLookup, SameMoves DEF Dock!ClickUnpin, DP!ClickUnpin
  <2> QED BY <2>1, <2>2, <2>3, <2>4 DEF Dock!UseMenu, DP!UseMenu
<1>5. Dock!UseDrag <=> DP!UseDrag
  <2>1. \A c : Dock!PrepareDrag(c) <=> DP!PrepareDrag(c)
    BY SameLookup DEF Dock!PrepareDrag, Dock!Running, DP!PrepareDrag, DP!Running
  <2>2. Dock!CancelDrag <=> DP!CancelDrag
    BY DEF Dock!CancelDrag, DP!CancelDrag
  <2>3. \A c : Dock!Drop(c) <=> DP!Drop(c)
    BY SameLookup, SameMoves DEF Dock!Drop, DP!Drop
  <2> QED BY <2>1, <2>2, <2>3 DEF Dock!UseDrag, DP!UseDrag
<1>6. \A i : /\ Dock!CompleteSave(i) <=> DP!CompleteSave(i)
             /\ Dock!FailSave(i) <=> DP!FailSave(i)
  <2> TAKE i
  <2>1. Dock!CompleteSave(i) <=> DP!CompleteSave(i)
    BY DEF Dock!CompleteSave, Dock!WithoutSave, Dock!RemoveAt, DP!CompleteSave, DP!WithoutSave, DP!RemoveAt
  <2>2. Dock!FailSave(i) <=> DP!FailSave(i)
    BY DEF Dock!FailSave, Dock!WithoutSave, Dock!RemoveAt, DP!FailSave, DP!WithoutSave, DP!RemoveAt
  <2> QED BY <2>1, <2>2
<1>7. Dock!Restart <=> DP!Restart
  BY DEF Dock!Restart, Dock!NewDock, Dock!Lists, DP!Restart, DP!NewDock, DP!Lists
<1> QED BY <1>1, <1>2, <1>4, <1>5, <1>6, <1>7

-----------------------------------------------------------------------------
(* What the dock has heard of a window: the events it has taken and those in *)
(* the channel.                                                              *)

Heard(w) == w \in announced \/ \E k \in DOMAIN chan : chan[k].win = w

Leaving(w) == \E k \in DOMAIN chan : chan[k].win = w /\ chan[k].type = "Closed"

\* The first event of a window, and no other, is Opened; Closed is the last.
Ordered(w) ==
    /\ \A k \in DOMAIN chan : chan[k].win = w =>
         (chan[k].type = "Opened" <=>
             w \notin announced /\ \A j \in 1 .. k - 1 : chan[j].win # w)
    /\ \A k, j \in DOMAIN chan :
         chan[k].win = w /\ chan[k].type = "Closed" /\ k < j => chan[j].win # w

\* The dock has heard of the windows the module has reported, and of no other.
Followed(w) ==
    /\ TP!Unreported(w) => ~Heard(w)
    /\ TP!Reported(w) <=> Heard(w) /\ ~Leaving(w)
    /\ Ordered(w)

\* When app_ids do not change, the bucket of a class holds its windows.
ShowsAnnounced ==
    ~AppIdChanges =>
        \A c \in Classes : DP!WinsOf(dock, c) = {w \in announced : screen[w].appId = c}

\* The dock takes w for an active window.
Marked(w) == \E c \in Classes : w \in DP!ActiveOf(dock, c)

\* It will take w for what f says when the events in the channel are applied: the
\* last of them decides, or what the dock holds if there is none.
Believes(w, f) ==
    /\ \A k \in DOMAIN chan :
         chan[k].win = w /\ (\A j \in DOMAIN chan : k < j => chan[j].win # w) =>
             chan[k].focused = f
    /\ (\A k \in DOMAIN chan : chan[k].win # w) => (Marked(w) <=> f)

\* What the module knows of the focus of a reported window is what the dock will
\* take it for, unless a done is still to come.
FocusTold(w) ==
    TP!Known(w) /\ pending[w].type = "StateChanged" /\ ~TP!Has(wire, "done", w) =>
        Believes(w, pending[w].focused)

\* The focus is with a class of which some window is active.
FocusHeld == dock.focus # NoClass => DP!ActiveOf(dock, dock.focus) # {}

FocusFollowed == ~AppIdChanges => FocusHeld /\ \A w \in Windows : FocusTold(w)

IInv ==
    /\ TP!Orderly /\ DP!IInv
    /\ \A w \in Windows : Followed(w)
    /\ ShowsAnnounced
    /\ FocusFollowed

LEMMA Appended ==
    ASSUME NEW S, chan \in Seq(S), NEW e \in S, chan' = Append(chan, e), announced' = announced, NEW w
    PROVE  /\ e.win # w => /\ (Heard(w)' <=> Heard(w)) /\ (Leaving(w)' <=> Leaving(w))
                           /\ Ordered(w) => Ordered(w)'
           /\ e.win = w => /\ Heard(w)' /\ (Leaving(w)' <=> Leaving(w) \/ e.type = "Closed")
                           /\ Ordered(w) /\ ~Leaving(w) /\ (e.type = "Opened" <=> ~Heard(w)) =>
                                Ordered(w)'
<1> PICK s, t, n : s = chan /\ t = chan' /\ n = Len(chan)
  OBVIOUS
<1>1. /\ n \in Nat /\ DOMAIN s = 1 .. n /\ DOMAIN t = 1 .. n + 1
      /\ \A k \in 1 .. n : t[k] = s[k]
      /\ t[n + 1] = e
  BY AppendFacts
<1>2. /\ n + 1 \in DOMAIN t /\ n + 1 \notin DOMAIN s /\ DOMAIN s \subseteq DOMAIN t
      /\ \A k \in DOMAIN t : k \in DOMAIN s \/ k = n + 1
      /\ \A k \in DOMAIN s : t[k] = s[k] /\ k < n + 1 /\ ~(n + 1 < k)
      /\ \A k \in DOMAIN s : \A j \in 1 .. k - 1 : t[j] = s[j]
      /\ \A j \in 1 .. (n + 1) - 1 : j \in DOMAIN s /\ t[j] = s[j]
      /\ \A j \in DOMAIN s : j \in 1 .. (n + 1) - 1
  BY <1>1
<1>3. (\E k \in DOMAIN t : t[k].win = w) <=> (\E k \in DOMAIN s : s[k].win = w) \/ e.win = w
  BY <1>1, <1>2
<1>4. Heard(w)' <=> Heard(w) \/ e.win = w
  BY <1>3 DEF Heard
<1>5. Leaving(w)' <=> Leaving(w) \/ (e.win = w /\ e.type = "Closed")
  BY <1>1, <1>2 DEF Leaving
<1>6. ASSUME Ordered(w), e.win = w => ~Leaving(w) /\ (e.type = "Opened" <=> ~Heard(w))
      PROVE  Ordered(w)'
  <2>1. ASSUME NEW k \in DOMAIN t, t[k].win = w
        PROVE  t[k].type = "Opened" <=> w \notin announced' /\ \A j \in 1 .. k - 1 : t[j].win # w
    <3>1. CASE k \in DOMAIN s
      BY <1>2, <1>6, <2>1, <3>1 DEF Ordered
    <3>2. CASE k = n + 1
      <4>1. e.win = w /\ (t[k].type = "Opened" <=> ~Heard(w))
        BY <1>1, <1>6, <2>1, <3>2
      <4>2. ~Heard(w) <=> w \notin announced /\ \A j \in DOMAIN s : s[j].win # w
        BY DEF Heard
      <4>3. (\A j \in DOMAIN s : s[j].win # w) <=> \A j \in 1 .. k - 1 : t[j].win # w
        BY <1>2, <3>2
      <4> QED BY <4>1, <4>2, <4>3
    <3> QED BY <1>2, <3>1, <3>2
  <2>2. ASSUME NEW k \in DOMAIN t, NEW j \in DOMAIN t, t[k].win = w, t[k].type = "Closed", k < j
        PROVE  t[j].win # w
    <3>1. k \in DOMAIN s /\ s[k] = t[k]
      BY <1>1, <2>2
    <3>2. CASE j \in DOMAIN s
      BY <1>2, <1>6, <2>2, <3>1, <3>2 DEF Ordered
    <3>3. CASE j = n + 1
      <4>1. Leaving(w)
        BY <2>2, <3>1 DEF Leaving
      <4> QED BY <1>1, <1>6, <3>3, <4>1
    <3> QED BY <1>2, <3>2, <3>3
  <2> QED BY <2>1, <2>2 DEF Ordered
<1> QED BY <1>4, <1>5, <1>6

LEMMA Taken ==
    ASSUME NEW S, chan \in Seq(S), chan # <<>>, NEW e, e = Head(chan), chan' = Tail(chan),
           NEW w, Ordered(w),
           e.win # w => (w \in announced' <=> w \in announced),
           e.win = w => (w \in announced' <=> e.type # "Closed")
    PROVE  /\ Ordered(w)'
           /\ Heard(w)' => Heard(w)
           /\ Heard(w)' /\ ~Leaving(w)' <=> Heard(w) /\ ~Leaving(w)
           /\ e.win = w => (e.type = "Opened" <=> w \notin announced)
<1> PICK s, t, n : s = chan /\ t = chan' /\ n = Len(chan)
  OBVIOUS
<1>1. /\ n \in Nat \ {0} /\ DOMAIN s = 1 .. n /\ e = s[1] /\ DOMAIN t = 1 .. n - 1
      /\ \A k \in 1 .. n - 1 : t[k] = s[k + 1]
  BY TailFacts
<1>2. /\ 1 \in DOMAIN s
      /\ \A k \in DOMAIN t : k \in Nat /\ k + 1 \in DOMAIN s /\ t[k] = s[k + 1] /\ 1 < k + 1
      /\ \A k \in DOMAIN s : k = 1 \/ (k - 1 \in DOMAIN t /\ t[k - 1] = s[k])
  <2>1. ASSUME NEW k \in DOMAIN s, k # 1 PROVE k - 1 \in DOMAIN t /\ t[k - 1] = s[k]
    <3>1. k - 1 \in 1 .. n - 1 /\ (k - 1) + 1 = k
      BY <1>1, <2>1
    <3> QED BY <1>1, <3>1
  <2> QED BY <1>1, <2>1
<1>3. /\ (\E k \in DOMAIN s : s[k].win = w) <=> e.win = w \/ \E k \in DOMAIN t : t[k].win = w
      /\ Leaving(w) <=> (e.win = w /\ e.type = "Closed")
                        \/ \E k \in DOMAIN t : t[k].win = w /\ t[k].type = "Closed"
  BY <1>1, <1>2 DEF Leaving
<1>4. e.win = w => (e.type = "Opened" <=> w \notin announced)
  BY <1>1, <1>2 DEF Ordered
<1>5. e.win = w /\ e.type = "Closed" => \A k \in DOMAIN t : t[k].win # w
  BY <1>1, <1>2 DEF Ordered
<1>6. Ordered(w)'
  <2>1. ASSUME NEW k \in DOMAIN t, t[k].win = w
        PROVE  t[k].type = "Opened" <=> w \notin announced' /\ \A j \in 1 .. k - 1 : t[j].win # w
    <3>1. /\ k + 1 \in DOMAIN s /\ s[k + 1] = t[k] /\ k \in Nat
          /\ t[k].type = "Opened" <=> w \notin announced /\ \A j \in 1 .. (k + 1) - 1 : s[j].win # w
      BY <1>2, <2>1 DEF Ordered
    <3>2. (\A j \in 1 .. (k + 1) - 1 : s[j].win # w) <=> e.win # w /\ \A j \in 1 .. k - 1 : t[j].win # w
      <4>1. \A j \in 1 .. k - 1 : j + 1 \in 1 .. (k + 1) - 1 /\ t[j] = s[j + 1]
        BY <1>1, <3>1, <2>1
      <4>2. 1 \in 1 .. (k + 1) - 1
        BY <1>1, <3>1, <2>1
      <4>3. \A j \in 1 .. (k + 1) - 1 : j = 1 \/ (j - 1 \in 1 .. k - 1 /\ t[j - 1] = s[j])
        <5> TAKE j \in 1 .. (k + 1) - 1
        <5>1. j # 1 => j - 1 \in 1 .. k - 1 /\ (j - 1) + 1 = j
          BY <3>1
        <5> QED BY <4>1, <5>1
      <4> QED BY <1>1, <4>1, <4>2, <4>3
    <3>3. e.win = w => w \in announced'
      BY <1>5, <2>1
    <3> QED BY <3>1, <3>2, <3>3, <1>4
  <2>2. ASSUME NEW k \in DOMAIN t, NEW j \in DOMAIN t, t[k].win = w, t[k].type = "Closed", k < j
        PROVE  t[j].win # w
    <3>1. k + 1 \in DOMAIN s /\ j + 1 \in DOMAIN s /\ k + 1 < j + 1 /\ s[k + 1] = t[k] /\ s[j + 1] = t[j]
      BY <1>2, <2>2
    <3> QED BY <2>2, <3>1 DEF Ordered
  <2> QED BY <2>1, <2>2 DEF Ordered
<1>7. Heard(w)' => Heard(w)
  BY <1>3 DEF Heard
<1>8. Heard(w)' /\ ~Leaving(w)' <=> Heard(w) /\ ~Leaving(w)
  <2>1. Leaving(w)' <=> \E k \in DOMAIN t : t[k].win = w /\ t[k].type = "Closed"
    BY DEF Leaving
  <2>2. CASE e.win # w
    BY <1>3, <2>1, <2>2 DEF Heard
  <2>3. CASE e.win = w /\ e.type = "Closed"
    BY <1>3, <1>5, <2>3 DEF Heard
  <2>4. CASE e.win = w /\ e.type # "Closed"
    BY <1>3, <2>1, <2>4 DEF Heard
  <2> QED BY <2>2, <2>3, <2>4
<1> QED BY <1>4, <1>6, <1>7, <1>8

LEMMA BeliefAppended ==
    ASSUME NEW S, chan \in Seq(S), NEW e \in S, chan' = Append(chan, e), dock' = dock,
           NEW w, NEW f
    PROVE  /\ e.win # w /\ Believes(w, f) => Believes(w, f)'
           /\ e.win = w /\ e.focused = f => Believes(w, f)'
<1> PICK s, t, n : s = chan /\ t = chan' /\ n = Len(chan)
  OBVIOUS
<1>1. /\ n \in Nat /\ DOMAIN s = 1 .. n /\ DOMAIN t = 1 .. n + 1
      /\ \A k \in 1 .. n : t[k] = s[k]
      /\ t[n + 1] = e
  BY AppendFacts
<1>2. /\ n + 1 \in DOMAIN t
      /\ \A k \in DOMAIN t : k \in DOMAIN s \/ k = n + 1
      /\ \A k \in DOMAIN s : k \in DOMAIN t /\ t[k] = s[k] /\ k < n + 1
  BY <1>1
<1>3. Marked(w)' <=> Marked(w)
  BY DEF Marked
<1>4. ASSUME e.win # w, Believes(w, f) PROVE Believes(w, f)'
  <2>1. ASSUME NEW k \in DOMAIN t, t[k].win = w, \A j \in DOMAIN t : k < j => t[j].win # w
        PROVE  t[k].focused = f
    <3>1. k \in DOMAIN s /\ s[k] = t[k]
      BY <1>1, <1>2, <1>4, <2>1
    <3>2. \A j \in DOMAIN s : k < j => s[j].win # w
      BY <1>2, <2>1
    <3> QED BY <1>4, <2>1, <3>1, <3>2 DEF Believes
  <2>2. (\A k \in DOMAIN t : t[k].win # w) => (Marked(w)' <=> f)
    BY <1>2, <1>3, <1>4 DEF Believes
  <2> QED BY <2>1, <2>2 DEF Believes
<1>5. ASSUME e.win = w, e.focused = f PROVE Believes(w, f)'
  <2>1. ASSUME NEW k \in DOMAIN t, t[k].win = w, \A j \in DOMAIN t : k < j => t[j].win # w
        PROVE  t[k].focused = f
    <3>1. k = n + 1
      BY <1>1, <1>2, <1>5, <2>1
    <3> QED BY <1>1, <1>5, <3>1
  <2>2. \E k \in DOMAIN t : t[k].win = w
    BY <1>1, <1>2, <1>5
  <2> QED BY <2>1, <2>2 DEF Believes
<1> QED BY <1>4, <1>5

LEMMA BeliefTaken ==
    ASSUME NEW S, chan \in Seq(S), chan # <<>>, NEW e, e = Head(chan), chan' = Tail(chan),
           NEW w, NEW f, Believes(w, f),
           e.win # w => (Marked(w)' <=> Marked(w)),
           e.win = w => (Marked(w)' <=> e.focused)
    PROVE  Believes(w, f)'
<1> PICK s, t, n : s = chan /\ t = chan' /\ n = Len(chan)
  OBVIOUS
<1>1. /\ n \in Nat \ {0} /\ DOMAIN s = 1 .. n /\ e = s[1] /\ DOMAIN t = 1 .. n - 1
      /\ \A k \in 1 .. n - 1 : t[k] = s[k + 1]
  BY TailFacts
<1>2. /\ 1 \in DOMAIN s
      /\ \A k \in DOMAIN t : k \in Nat /\ k + 1 \in DOMAIN s /\ t[k] = s[k + 1]
      /\ \A k \in DOMAIN s : k \in Nat /\ (k = 1 \/ (k - 1 \in DOMAIN t /\ t[k - 1] = s[k]))
  <2>1. ASSUME NEW k \in DOMAIN s, k # 1 PROVE k - 1 \in DOMAIN t /\ t[k - 1] = s[k]
    <3>1. k - 1 \in 1 .. n - 1 /\ (k - 1) + 1 = k
      BY <1>1, <2>1
    <3> QED BY <1>1, <3>1
  <2> QED BY <1>1, <2>1
<1>3. ASSUME NEW k \in DOMAIN t, t[k].win = w, \A j \in DOMAIN t : k < j => t[j].win # w
      PROVE  t[k].focused = f
  <2>1. k + 1 \in DOMAIN s /\ s[k + 1] = t[k] /\ k \in Nat
    BY <1>2
  <2>2. ASSUME NEW j \in DOMAIN s, k + 1 < j PROVE s[j].win # w
    <3>1. j \in Nat /\ j # 1 /\ k < j - 1
      BY <1>2, <2>1, <2>2
    <3> QED BY <1>2, <1>3, <3>1
  <2> QED BY <1>3, <2>1, <2>2 DEF Believes
<1>4. ASSUME \A k \in DOMAIN t : t[k].win # w PROVE Marked(w)' <=> f
  <2>1. ASSUME NEW k \in DOMAIN s, k # 1 PROVE s[k].win # w
    <3>1. k - 1 \in DOMAIN t /\ t[k - 1] = s[k]
      BY <1>2, <2>1
    <3>2. t[k - 1].win # w
      BY <1>4, <3>1
    <3> QED BY <3>1, <3>2
  <2>2. CASE e.win # w
    <3>1. \A k \in DOMAIN s : s[k].win # w
      BY <1>1, <2>1, <2>2
    <3> QED BY <2>2, <3>1 DEF Believes
  <2>3. CASE e.win = w
    <3>1. s[1].win = w /\ \A j \in DOMAIN s : 1 < j => s[j].win # w
      BY <1>1, <2>1, <2>3
    <3>2. s[1].focused = f
      BY <1>2, <3>1 DEF Believes
    <3> QED BY <1>1, <2>3, <3>2
  <2> QED BY <2>2, <2>3
<1> QED BY <1>3, <1>4 DEF Believes

-----------------------------------------------------------------------------
(* The steps *)

\* A step of the system is one of the pipeline and one of the dock, or leaves
\* one of them as it is.
LEMMA StepOfBoth ==
    ASSUME TP!IInv, [Next]_vars
    PROVE  [TP!Next]_(TP!tvars) /\ [DP!Next]_(DP!vars)
<1>1. CASE WaylandStep
  <2>1. TP!Compositor \/ TP!Dispatch
    BY <1>1, SamePipeline DEF WaylandStep
  <2>2. UNCHANGED DP!vars
    BY <1>1 DEF WaylandStep, dockvars, DP!vars
  <2> QED BY <2>1, <2>2 DEF TP!Next
<1>2. CASE Deliver
  <2>1. TP!Receive
    BY <1>2, SamePipeline DEF Deliver
  <2> PICK e : e = Head(chan)
    OBVIOUS
  <2>2. e.class \in Classes /\ e.win \in Windows /\ e.focused \in BOOLEAN
    <3>1. chan \in Seq(TP!Event) /\ chan # <<>>
      BY <1>2 DEF Deliver, TP!IInv, TP!Typed, TP!TypeOK
    <3>2. e \in TP!Event
      BY <3>1, TailFacts
    <3> QED BY <3>2 DEF TP!Event
  <2>3. \/ DP!Opened(e.class, e.win, e.focused)
        \/ DP!StateChanged(e.class, e.win, e.focused)
        \/ DP!Closed(e.class, e.win)
    BY <1>2, SameEvents DEF Deliver
  <2> QED BY <2>1, <2>2, <2>3 DEF TP!Next, DP!Next, DP!WindowEvent
<1>3. CASE DockStep
  <2>1. UNCHANGED TP!tvars
    BY <1>3 DEF DockStep, wlvars, TP!tvars
  <2>2. \/ DP!LoadNext \/ DP!UseMenu \/ DP!UseDrag
        \/ \E i \in DOMAIN saves : DP!CompleteSave(i) \/ DP!FailSave(i)
    BY <1>3, SameDock DEF DockStep, SaveStep
  <2> QED BY <2>1, <2>2 DEF DP!Next
<1>4. CASE Restart
  BY <1>4, SamePipeline, SameDock DEF Restart, TP!Next, DP!Next
<1>5. CASE UNCHANGED vars
  BY <1>5 DEF vars, wlvars, dockvars, TP!tvars, DP!vars
<1> QED BY <1>1, <1>2, <1>3, <1>4, <1>5 DEF Next

\* Nothing but the events changes what the dock shows and has been told, and only
\* an event gives the focus to anyone.
GestureOnly ==
    announced' = announced /\ DP!SameWins(dock, dock') /\ DP!FocusKept(dock, dock')

LEMMA GesturesKeepWindows ==
    ASSUME DP!IInv, DockStep
    PROVE  GestureOnly
<1>0. /\ DP!GoodDock(dock) /\ toLoad \in Seq(Classes) /\ drag \in Classes \cup {NoClass}
      /\ menu # NoMenu => menu.class \in Classes
  BY DP!GoodDockMeans, PipelineAssumption, DockAssumption
     DEF DP!IInv, DP!TypeOK, DP!Consistent, DP!FocusPointerValid, DP!Menu
<1>1. ASSUME DP!LoadNext PROVE GestureOnly
  <2>1. Head(toLoad) \in Classes
    BY <1>0, <1>1, HeadTailProperties DEF DP!LoadNext
  <2> QED BY <1>0, <1>1, <2>1, DP!PinInRamLemma, PipelineAssumption, DockAssumption DEF DP!LoadNext, GestureOnly
<1>2. ASSUME DP!UseMenu PROVE GestureOnly
  <2>1. CASE DP!ClickPin
    BY <1>0, <2>1, DP!PinInRamLemma, PipelineAssumption, DockAssumption DEF DP!ClickPin, GestureOnly
  <2>2. CASE DP!ClickUnpin
    BY <1>0, <2>2, DP!UnpinLemma, PipelineAssumption, DockAssumption DEF DP!ClickUnpin, GestureOnly
  <2>3. CASE DP!DismissMenu \/ \E c \in Classes : DP!RightClick(c)
    BY <2>3 DEF DP!DismissMenu, DP!RightClick, DP!SameWins, DP!FocusKept, GestureOnly
  <2> QED BY <1>2, <2>1, <2>2, <2>3 DEF DP!UseMenu
<1>3. ASSUME DP!UseDrag PROVE GestureOnly
  <2>1. ASSUME NEW t \in Classes, DP!Drop(t) PROVE GestureOnly
    <3>1. drag \in Classes /\ dock.map[t] \in DP!Lists
      BY <1>0, <2>1, DP!FindsBucket, DP!GoodParts, PipelineAssumption, DockAssumption DEF DP!Drop
    <3>2. DP!Index(dock, t) \in 0 .. Len(dock.list[dock.map[t]])
                                     + (IF dock.map[t] = dock.map[drag] THEN 0 ELSE 1)
      BY <1>0, <3>1, DP!TargetInRange, PipelineAssumption, DockAssumption
    <3> QED BY <1>0, <2>1, <3>1, <3>2, DP!MoveBucketLemma, PipelineAssumption, DockAssumption DEF DP!Drop, GestureOnly
  <2>2. CASE DP!CancelDrag \/ \E c \in Classes : DP!PrepareDrag(c)
    BY <2>2 DEF DP!CancelDrag, DP!PrepareDrag, DP!SameWins, DP!FocusKept, GestureOnly
  <2> QED BY <1>3, <2>1, <2>2 DEF DP!UseDrag
<1>4. ASSUME NEW i, DP!CompleteSave(i) \/ DP!FailSave(i)
      PROVE  GestureOnly
  BY <1>4 DEF DP!CompleteSave, DP!FailSave, DP!SameWins, DP!FocusKept, GestureOnly
<1> QED BY <1>1, <1>2, <1>3, <1>4, SameDock DEF DockStep, SaveStep

\* What an event does to the windows the dock shows
LEMMA EventsMoveWindows ==
    ASSUME DP!IInv, NEW c \in Classes, NEW w \in Windows
    PROVE  /\ \A f \in BOOLEAN : DP!Opened(c, w, f) =>
                /\ announced' = announced \cup {w}
                /\ DP!GainsWindow(dock, dock', c, w, f)
           /\ \A f \in BOOLEAN : DP!StateChanged(c, w, f) =>
                /\ announced' = announced /\ w \in announced
                /\ DP!ChangesState(dock, dock', c, w, f)
           /\ DP!Closed(c, w) =>
                /\ announced' = announced \ {w}
                /\ DP!LosesWindow(dock, dock', c, w)
<1>0. DP!GoodDock(dock)
  BY DP!GoodDockMeans, PipelineAssumption, DockAssumption
     DEF DP!IInv, DP!TypeOK, DP!Consistent, DP!FocusPointerValid
<1>1. ASSUME NEW f \in BOOLEAN, DP!Opened(c, w, f)
      PROVE  announced' = announced \cup {w} /\ DP!GainsWindow(dock, dock', c, w, f)
  <2>1. dock' = DP!AddApp(dock, c, w, f) /\ announced' = announced \cup {w}
    BY <1>1 DEF DP!Opened
  <2> QED BY <1>0, <2>1, DP!AddAppLemma, PipelineAssumption, DockAssumption
<1>2. ASSUME NEW f \in BOOLEAN, DP!StateChanged(c, w, f)
      PROVE  announced' = announced /\ w \in announced /\ DP!ChangesState(dock, dock', c, w, f)
  <2>1. dock' = DP!ProcessStateChanged(dock, c, w, f) /\ announced' = announced /\ w \in announced
    BY <1>2 DEF DP!StateChanged
  <2> QED BY <1>0, <2>1, DP!ProcessStateChangedLemma, PipelineAssumption, DockAssumption
<1>3. ASSUME DP!Closed(c, w)
      PROVE  announced' = announced \ {w} /\ DP!LosesWindow(dock, dock', c, w)
  <2>1. PICK f \in IF DP!Located(dock, c) THEN DP!NextFocus(DP!FindBucket(dock, c), w) ELSE {NoWindow} :
             dock' = DP!RemoveApp(dock, c, w, f)
    BY <1>3 DEF DP!Closed
  <2>2. DP!Located(dock, c) => f \in DP!NextFocus(DP!FindBucket(dock, c), w)
    OBVIOUS
  <2>3. DP!LosesWindow(dock, dock', c, w)
    BY <1>0, <2>1, <2>2, DP!RemoveAppLemma, PipelineAssumption, DockAssumption
  <2>4. announced' = announced \ {w}
    BY <1>3 DEF DP!Closed
  <2> QED BY <2>3, <2>4
<1> QED BY <1>1, <1>2, <1>3

LEMMA CompositorFollowed ==
    ASSUME IInv, TP!Compositor, announced' = announced, dock' = dock
    PROVE  (\A w \in Windows : Followed(w)') /\ ShowsAnnounced'
<1>1. /\ chan' = chan
      /\ \A v \in Windows : TP!Unreported(v)' => TP!Unreported(v)
      /\ \A v \in Windows : TP!Reported(v)' <=> TP!Reported(v)
  BY TP!SentReports, PipelineAssumption DEF IInv, TP!Orderly
<1>2. ASSUME NEW w \in Windows PROVE Followed(w)'
  <2>1. /\ Heard(w)' <=> Heard(w)
        /\ Leaving(w)' <=> Leaving(w)
        /\ Ordered(w)' <=> Ordered(w)
    BY <1>1 DEF Heard, Leaving, Ordered
  <2>2. Followed(w)
    BY DEF IInv
  <2> QED BY <1>1, <2>1, <2>2 DEF Followed
<1>3. ASSUME ~AppIdChanges PROVE \A w \in announced : screen'[w].appId = screen[w].appId
  <2> TAKE w \in announced
  <2>1. w \in Windows /\ screen[w].life # "unborn"
    <3>1. w \in Windows
      BY DEF IInv, DP!IInv, DP!TypeOK
    <3>2. ~TP!Unreported(w)
      BY <3>1 DEF IInv, Followed, Heard
    <3> QED BY <3>1, <3>2 DEF TP!Unreported
  <2>2. PICK b : TP!Adds(b)
    BY TP!CompositorSays, PipelineAssumption DEF IInv, TP!Orderly
  <2> QED BY <1>3, <2>1, <2>2 DEF TP!Adds
<1>4. ShowsAnnounced'
  BY <1>3 DEF IInv, ShowsAnnounced
<1> QED BY <1>2, <1>4

LEMMA DispatchFollowed ==
    ASSUME IInv, TP!Dispatch, announced' = announced, dock' = dock
    PROVE  (\A w \in Windows : Followed(w)') /\ ShowsAnnounced'
<1>1. screen' = screen /\ TP!IInv /\ TP!InOrder /\ chan \in Seq(TP!Event) /\ chan' \in Seq(TP!Event)
  <2>1. TP!IInv /\ TP!InOrder
    BY DEF IInv, TP!Orderly
  <2>2. TP!IInv'
    BY <2>1, TP!DispatchStep, PipelineAssumption
  <2> QED BY <2>1, <2>2 DEF TP!Dispatch, TP!IInv, TP!Typed, TP!TypeOK
<1>2. /\ \A v \in Windows : TP!Unreported(v)' => TP!Unreported(v)
      /\ \/ chan' = chan /\ \A v \in Windows : TP!Reported(v)' <=> TP!Reported(v)
         \/ \E w \in Windows :
              /\ chan' = Append(chan, TP!Report(w)) /\ TP!Known(w) /\ TP!Described(w)
              /\ ~TP!Unreported(w)'
              /\ IF TP!Report(w).type = "Opened" THEN TP!Unreported(w) ELSE TP!Reported(w)
              /\ IF TP!Report(w).type = "Closed" THEN ~TP!Reported(w)' ELSE TP!Reported(w)'
              /\ \A v \in Windows \ {w} : TP!Reported(v)' <=> TP!Reported(v)
  BY <1>1, TP!DispatchReports, PipelineAssumption
<1>3. ShowsAnnounced'
  BY <1>1 DEF IInv, ShowsAnnounced
<1>4. ASSUME chan' = chan, \A v \in Windows : TP!Reported(v)' <=> TP!Reported(v), NEW w \in Windows
      PROVE  Followed(w)'
  <2>1. /\ Heard(w)' <=> Heard(w)
        /\ Leaving(w)' <=> Leaving(w)
        /\ Ordered(w)' <=> Ordered(w)
    BY <1>4 DEF Heard, Leaving, Ordered
  <2>2. Followed(w)
    BY DEF IInv
  <2> QED BY <1>2, <1>4, <2>1, <2>2 DEF Followed
<1>5. ASSUME NEW w \in Windows,
             chan' = Append(chan, TP!Report(w)), TP!Known(w), TP!Described(w),
             ~TP!Unreported(w)',
             IF TP!Report(w).type = "Opened" THEN TP!Unreported(w) ELSE TP!Reported(w),
             IF TP!Report(w).type = "Closed" THEN ~TP!Reported(w)' ELSE TP!Reported(w)',
             \A v \in Windows \ {w} : TP!Reported(v)' <=> TP!Reported(v),
             NEW v \in Windows
      PROVE  Followed(v)'
  <2> PICK e : e = TP!Report(w)
    OBVIOUS
  <2>1. e.win = w /\ e \in TP!Event
    <3>1. w \in DOMAIN pending /\ pending[w] \in TP!Pending /\ pending[w].appId # NoClass
      BY <1>1, <1>5 DEF TP!Known, TP!Described, TP!IInv, TP!Typed, TP!TypeOK
    <3>2. /\ pending[w].type \in {"Opened", "StateChanged", "Closed"}
          /\ pending[w].appId \in Classes /\ pending[w].focused \in BOOLEAN
      BY <3>1 DEF TP!Pending
    <3> QED BY <3>2 DEF TP!Report, TP!Event
  <2>2. /\ e.win # v => /\ (Heard(v)' <=> Heard(v)) /\ (Leaving(v)' <=> Leaving(v))
                        /\ Ordered(v) => Ordered(v)'
        /\ e.win = v => /\ Heard(v)' /\ (Leaving(v)' <=> Leaving(v) \/ e.type = "Closed")
                        /\ Ordered(v) /\ ~Leaving(v) /\ (e.type = "Opened" <=> ~Heard(v)) =>
                             Ordered(v)'
    <3>1. chan \in Seq(TP!Event) /\ e \in TP!Event /\ chan' = Append(chan, e) /\ announced' = announced
      BY <1>1, <1>5, <2>1
    <3> QED BY ONLY <3>1, Appended
  <2>3. Followed(v) /\ Followed(w)
    BY DEF IInv
  <2>4. CASE v # w
    BY <1>2, <1>5, <2>1, <2>2, <2>3, <2>4 DEF Followed
  <2>5. CASE v = w
    <3>1. IF e.type = "Opened" THEN TP!Unreported(w) ELSE TP!Reported(w)
      BY <1>5
    <3>2. IF e.type = "Closed" THEN ~TP!Reported(w)' ELSE TP!Reported(w)'
      BY <1>5
    <3>3. ~Leaving(w) /\ (e.type = "Opened" <=> ~Heard(w))
      <4>1. CASE e.type = "Opened"
        <5>1. ~Heard(w)
          BY <2>3, <3>1, <4>1 DEF Followed
        <5> QED BY <4>1, <5>1 DEF Heard, Leaving
      <4>2. CASE e.type # "Opened"
        BY <2>3, <3>1, <4>2 DEF Followed
      <4> QED BY <4>1, <4>2
    <3>4. Ordered(w)' /\ Heard(w)' /\ (Leaving(w)' <=> e.type = "Closed")
      BY <2>1, <2>2, <2>3, <2>5, <3>3 DEF Followed
    <3> QED BY <1>5, <2>5, <3>2, <3>4 DEF Followed
  <2> QED BY <2>4, <2>5
<1> QED BY <1>2, <1>3, <1>4, <1>5

\* The head of the channel: an event the dock expects, of the class its window has
LEMMA HeadExpected ==
    ASSUME IInv, chan # <<>>, NEW e, e = Head(chan)
    PROVE  /\ chan \in Seq(TP!Event) /\ e \in TP!Event
           /\ e.win \in announced <=> e.type # "Opened"
           /\ ~AppIdChanges => e.class = screen[e.win].appId
<1>1. chan \in Seq(TP!Event)
  BY DEF IInv, TP!Orderly, TP!IInv, TP!Typed, TP!TypeOK
<1>2. e = chan[1] /\ e \in TP!Event /\ 1 \in DOMAIN chan
  <2>1. /\ Len(chan) \in Nat \ {0} /\ DOMAIN chan = 1 .. Len(chan)
        /\ e = chan[1] /\ e \in TP!Event
    BY <1>1, TailFacts
  <2> QED BY <2>1
<1>3. e.type = "Opened" <=> e.win \notin announced
  <2>1. e.win \in Windows
    BY <1>2 DEF TP!Event
  <2>2. Ordered(e.win)
    BY <2>1 DEF IInv, Followed
  <2> QED BY <1>2, <2>2 DEF Ordered
<1>4. ~AppIdChanges => e.class = screen[e.win].appId
  BY <1>2 DEF IInv, TP!Orderly, TP!ClassesTrue
<1> QED BY <1>1, <1>2, <1>3, <1>4

LEMMA DeliverFollowed ==
    ASSUME IInv, Deliver
    PROVE  (\A w \in Windows : Followed(w)') /\ ShowsAnnounced'
<1> PICK e : e = Head(chan)
  OBVIOUS
<1>1. /\ chan # <<>> /\ chan' = Tail(chan)
      /\ UNCHANGED <<screen, active, untold, wire, pending>>
      /\ \/ e.type = "Opened" /\ DP!Opened(e.class, e.win, e.focused)
         \/ e.type = "StateChanged" /\ DP!StateChanged(e.class, e.win, e.focused)
         \/ e.type = "Closed" /\ DP!Closed(e.class, e.win)
  BY SamePipeline, SameEvents DEF Deliver, TP!Receive
<1>2. /\ chan \in Seq(TP!Event)
      /\ ~AppIdChanges => e.class = screen[e.win].appId
      /\ e.class \in Classes /\ e.win \in Windows /\ e.focused \in BOOLEAN
  BY <1>1, HeadExpected DEF TP!Event
<1> PICK c, w, f : c = e.class /\ w = e.win /\ f = e.focused
  OBVIOUS
<1>3. \/ /\ e.type = "Opened" /\ announced' = announced \cup {w}
         /\ \A x \in Classes : DP!WinsOf(dock', x) =
               IF x = c THEN DP!WinsOf(dock, x) \cup {w} ELSE DP!WinsOf(dock, x)
      \/ /\ e.type = "StateChanged" /\ announced' = announced /\ w \in announced
         /\ \A x \in Classes : DP!WinsOf(dock', x) = DP!WinsOf(dock, x)
      \/ /\ e.type = "Closed" /\ announced' = announced \ {w}
         /\ \A x \in Classes : DP!WinsOf(dock', x) =
               IF x = c THEN DP!WinsOf(dock, x) \ {w} ELSE DP!WinsOf(dock, x)
  <2>1. DP!IInv /\ c \in Classes /\ w \in Windows /\ f \in BOOLEAN
    BY <1>2 DEF IInv
  <2>2. CASE e.type = "Opened" /\ DP!Opened(c, w, f)
    <3>1. announced' = announced \cup {w} /\ DP!GainsWindow(dock, dock', c, w, f)
      BY ONLY <2>1, <2>2, EventsMoveWindows
    <3> QED BY <2>2, <3>1 DEF DP!GainsWindow
  <2>3. CASE e.type = "StateChanged" /\ DP!StateChanged(c, w, f)
    <3>1. announced' = announced /\ w \in announced /\ DP!ChangesState(dock, dock', c, w, f)
      BY ONLY <2>1, <2>3, EventsMoveWindows
    <3> QED BY <2>3, <3>1 DEF DP!ChangesState
  <2>4. CASE e.type = "Closed" /\ DP!Closed(c, w)
    <3>1. announced' = announced \ {w} /\ DP!LosesWindow(dock, dock', c, w)
      BY ONLY <2>1, <2>4, EventsMoveWindows
    <3> QED BY <2>4, <3>1 DEF DP!LosesWindow
  <2> QED BY <1>1, <2>2, <2>3, <2>4
<1>4. ASSUME NEW v \in Windows PROVE Followed(v)'
  <2>1. Followed(v)
    BY DEF IInv
  <2>2. /\ e.win # v => (v \in announced' <=> v \in announced)
        /\ e.win = v => (v \in announced' <=> e.type # "Closed")
    BY <1>3
  <2>3. /\ Ordered(v)' /\ (Heard(v)' => Heard(v))
        /\ Heard(v)' /\ ~Leaving(v)' <=> Heard(v) /\ ~Leaving(v)
    <3>1. /\ chan \in Seq(TP!Event) /\ chan # <<>> /\ e = Head(chan) /\ chan' = Tail(chan) /\ Ordered(v)
      BY <1>1, <1>2, <2>1 DEF Followed
    <3> QED BY ONLY <3>1, <2>2, Taken
  <2>4. TP!Unreported(v)' = TP!Unreported(v) /\ TP!Reported(v)' = TP!Reported(v)
    BY <1>1 DEF TP!Unreported, TP!Reported, TP!Known, TP!Described, TP!Has
  <2> QED BY <2>1, <2>3, <2>4 DEF Followed
<1>5. ASSUME ~AppIdChanges, NEW x \in Classes
      PROVE  DP!WinsOf(dock', x) = {v \in announced' : screen'[v].appId = x}
  <2>1. /\ DP!WinsOf(dock, x) = {v \in announced : screen[v].appId = x}
        /\ screen' = screen /\ screen[w].appId = c
    BY <1>1, <1>2, <1>5 DEF IInv, ShowsAnnounced
  <2>2. CASE x = c
    BY <1>3, <2>1, <2>2
  <2>3. CASE x # c
    BY <1>3, <2>1, <2>3
  <2> QED BY <2>2, <2>3
<1> QED BY <1>4, <1>5 DEF ShowsAnnounced

\* Only messages and events change what is known of a focus.
LEMMA CompositorTold ==
    ASSUME IInv, TP!Compositor, dock' = dock
    PROVE  FocusFollowed'
<1> SUFFICES ASSUME ~AppIdChanges PROVE FocusHeld' /\ \A w \in Windows : FocusTold(w)'
  BY DEF FocusFollowed
<1>1. FocusHeld /\ \A w \in Windows : FocusTold(w)
  BY DEF IInv, FocusFollowed
<1> PICK b : TP!Adds(b)
  BY TP!CompositorSays, PipelineAssumption DEF IInv, TP!Orderly
<1>2. /\ b \in Seq(TP!Message) /\ wire \in Seq(TP!Message) /\ wire' = wire \o b
      /\ pending' = pending /\ chan' = chan
  BY DEF IInv, TP!Orderly, TP!IInv, TP!Typed, TP!Adds
<1>3. \A w : TP!Has(wire, "done", w) => TP!Has(wire', "done", w)
  BY <1>2, TP!SentSays, PipelineAssumption
<1>4. ASSUME NEW w \in Windows PROVE FocusTold(w)'
  <2>1. \A f : Believes(w, f)' <=> Believes(w, f)
    BY <1>2 DEF Believes, Marked
  <2>2. FocusTold(w)
    BY <1>1
  <2> QED BY <1>2, <1>3, <2>1, <2>2 DEF FocusTold, TP!Known
<1> QED BY <1>1, <1>4 DEF FocusHeld

LEMMA DispatchTold ==
    ASSUME IInv, TP!Dispatch, dock' = dock
    PROVE  FocusFollowed'
<1> SUFFICES ASSUME ~AppIdChanges PROVE FocusHeld' /\ \A w \in Windows : FocusTold(w)'
  BY DEF FocusFollowed
<1>1. /\ FocusHeld /\ \A w \in Windows : FocusTold(w)
      /\ TP!IInv /\ chan \in Seq(TP!Event)
  BY DEF IInv, FocusFollowed, TP!Orderly, TP!IInv, TP!Typed, TP!TypeOK
<1>2. ASSUME NEW w \in Windows, NEW f, f = pending'[w].focused,
             TP!Known(w)', pending'[w].type = "StateChanged", ~TP!Has(wire', "done", w)
      PROVE  Believes(w, f)'
  <2>1. \/ /\ chan' = chan \/ \E e \in TP!Event : chan' = Append(chan, e) /\ e.win # w
           /\ TP!Known(w) /\ pending[w].type = "StateChanged" /\ ~TP!Has(wire, "done", w)
           /\ f = pending[w].focused
        \/ \E e \in TP!Event : chan' = Append(chan, e) /\ e.win = w /\ e.focused = f
    BY <1>1, <1>2, TP!DispatchTells, PipelineAssumption
  <2>2. ASSUME NEW e \in TP!Event, chan' = Append(chan, e)
        PROVE  /\ e.win # w /\ Believes(w, f) => Believes(w, f)'
               /\ e.win = w /\ e.focused = f => Believes(w, f)'
    <3>1. chan \in Seq(TP!Event) /\ dock' = dock
      BY <1>1
    <3> QED BY ONLY <2>2, <3>1, BeliefAppended
  <2>3. chan' = chan => (Believes(w, f)' <=> Believes(w, f))
    BY DEF Believes, Marked
  <2>4. TP!Known(w) /\ pending[w].type = "StateChanged" /\ ~TP!Has(wire, "done", w)
        /\ f = pending[w].focused => Believes(w, f)
    <3>1. FocusTold(w)
      BY <1>1
    <3> QED BY <3>1 DEF FocusTold
  <2> QED BY <2>1, <2>2, <2>3, <2>4
<1>3. ASSUME NEW w \in Windows PROVE FocusTold(w)'
  <2> SUFFICES ASSUME TP!Known(w)', pending'[w].type = "StateChanged", ~TP!Has(wire', "done", w)
               PROVE  Believes(w, pending[w].focused)'
    BY DEF FocusTold
  <2> PICK f : f = pending'[w].focused
    OBVIOUS
  <2>1. Believes(w, f)'
    BY <1>2
  <2> QED BY <2>1 DEF Believes
<1> QED BY <1>1, <1>3 DEF FocusHeld

LEMMA DeliverTold ==
    ASSUME IInv, Deliver
    PROVE  FocusFollowed'
<1> SUFFICES ASSUME ~AppIdChanges PROVE FocusHeld' /\ \A v \in Windows : FocusTold(v)'
  BY DEF FocusFollowed
<1> PICK e : e = Head(chan)
  OBVIOUS
<1>1. /\ chan # <<>> /\ chan' = Tail(chan)
      /\ UNCHANGED <<screen, active, untold, wire, pending>>
      /\ \/ e.type = "Opened" /\ DP!Opened(e.class, e.win, e.focused)
         \/ e.type = "StateChanged" /\ DP!StateChanged(e.class, e.win, e.focused)
         \/ e.type = "Closed" /\ DP!Closed(e.class, e.win)
  BY SamePipeline, SameEvents DEF Deliver, TP!Receive
<1>2. /\ chan \in Seq(TP!Event) /\ e.class = screen[e.win].appId
      /\ e.win \in announced <=> e.type # "Opened"
      /\ e.class \in Classes /\ e.win \in Windows /\ e.focused \in BOOLEAN
  BY <1>1, HeadExpected DEF TP!Event
<1> PICK c, w, f : c = e.class /\ w = e.win /\ f = e.focused
  OBVIOUS
<1>3. \/ e.type = "Opened" /\ DP!GainsWindow(dock, dock', c, w, f)
      \/ e.type = "StateChanged" /\ DP!ChangesState(dock, dock', c, w, f)
      \/ e.type = "Closed" /\ DP!LosesWindow(dock, dock', c, w)
  <2>1. DP!IInv /\ c \in Classes /\ w \in Windows /\ f \in BOOLEAN
    BY <1>2 DEF IInv
  <2>2. CASE e.type = "Opened" /\ DP!Opened(c, w, f)
    BY ONLY <2>1, <2>2, EventsMoveWindows
  <2>3. CASE e.type = "StateChanged" /\ DP!StateChanged(c, w, f)
    BY ONLY <2>1, <2>3, EventsMoveWindows
  <2>4. CASE e.type = "Closed" /\ DP!Closed(c, w)
    BY ONLY <2>1, <2>4, EventsMoveWindows
  <2> QED BY <1>1, <2>2, <2>3, <2>4
<1>4. /\ DP!GoodDock(dock)
      /\ dock.focus \in Classes \cup {NoClass}
      /\ \A x \in Classes : DP!ActiveOf(dock, x) \subseteq DP!WinsOf(dock, x)
      /\ dock.focus \in Classes => dock.map[dock.focus] # "none"
  <2>1. DP!GoodDock(dock)
    BY DP!GoodDockMeans, PipelineAssumption, DockAssumption
       DEF IInv, DP!IInv, DP!TypeOK, DP!Consistent, DP!FocusPointerValid
  <2> QED BY <2>1, DP!GoodParts, DP!ActiveAreShown, PipelineAssumption, DockAssumption
<1>5. /\ \A x \in Classes : DP!WinsOf(dock, x) = {v \in announced : screen[v].appId = x}
      /\ w \in announced <=> e.type # "Opened"
      /\ screen[w].appId = c /\ c \in Classes /\ w \in Windows /\ f \in BOOLEAN
  BY <1>2 DEF IInv, ShowsAnnounced
<1>6. \A x \in Classes : DP!ActiveOf(dock', x) =
         IF x # c THEN DP!ActiveOf(dock, x)
         ELSE IF e.type = "Closed" \/ ~f THEN DP!ActiveOf(dock, x) \ {w}
         ELSE DP!ActiveOf(dock, x) \cup {w}
  <2>1. e.type = "StateChanged" => w \in DP!WinsOf(dock, c)
    BY <1>5
  <2> QED BY <1>3, <1>5, <2>1
          DEF DP!GainsWindow, DP!ChangesState, DP!LosesWindow, DP!WithActive
<1>7. FocusHeld'
  BY <1>3, <1>4, <1>5, <1>6, PipelineAssumption
     DEF DP!GainsWindow, DP!ChangesState, DP!LosesWindow, DP!FocusKept, FocusHeld, IInv, FocusFollowed
<1>8. ASSUME NEW v \in Windows PROVE FocusTold(v)'
  <2> SUFFICES ASSUME TP!Known(v), pending[v].type = "StateChanged", ~TP!Has(wire, "done", v)
               PROVE  Believes(v, pending[v].focused)'
    BY <1>1 DEF FocusTold, TP!Known
  <2> PICK g : g = pending[v].focused
    OBVIOUS
  <2>1. Believes(v, g)
    BY DEF IInv, FocusFollowed, FocusTold
  <2>2. ~Leaving(v)
    <3>1. TP!Reported(v) /\ Followed(v)
      BY DEF TP!Reported, IInv
    <3> QED BY <3>1 DEF Followed
  <2>3. e.win # v => (Marked(v)' <=> Marked(v))
    BY <1>6 DEF Marked
  <2>4. e.win = v => (Marked(v)' <=> e.focused)
    <3>1. SUFFICES ASSUME e.win = v PROVE Marked(v)' <=> e.focused
      OBVIOUS
    <3>2. e.type # "Closed"
      <4>1. 1 \in DOMAIN chan /\ e = chan[1]
        <5>1. DOMAIN chan = 1 .. Len(chan) /\ Len(chan) \in Nat \ {0} /\ e = chan[1]
          BY <1>1, <1>2, TailFacts
        <5> QED BY <5>1
      <4> QED BY <2>2, <3>1, <4>1 DEF Leaving
    <3>3. \A x \in Classes : v \in DP!ActiveOf(dock, x) => x = c
      BY <1>4, <1>5, <3>1
    <3>4. \A x \in Classes : v \in DP!ActiveOf(dock', x) <=> x = c /\ f
      BY <1>6, <3>1, <3>2, <3>3
    <3> QED BY <1>5, <3>4 DEF Marked
  <2>5. Believes(v, g)'
    <3>1. chan \in Seq(TP!Event) /\ chan # <<>> /\ e = Head(chan) /\ chan' = Tail(chan)
      BY <1>1, <1>2
    <3> QED BY ONLY <2>1, <2>3, <2>4, <3>1, BeliefTaken
  <2> QED BY <1>1, <2>5
<1> QED BY <1>7, <1>8

\* A window of which nothing is known, and no event under way
LEMMA Unheard ==
    ASSUME chan = <<>>, announced = {}, pending = <<>>, dock.focus = NoClass,
           \A x \in Classes : dock.map[x] = "none"
    PROVE  (\A w : Followed(w)) /\ ShowsAnnounced /\ FocusFollowed
<1>1. DOMAIN chan = {} /\ DOMAIN pending = {}
  OBVIOUS
<1>2. ASSUME NEW w PROVE Followed(w)
  <2>1. ~Heard(w) /\ Ordered(w) /\ ~TP!Reported(w)
    BY <1>1 DEF Heard, Ordered, TP!Reported, TP!Known
  <2> QED BY <2>1 DEF Followed
<1>3. \A x \in Classes : DP!WinsOf(dock, x) = {}
  BY DEF DP!WinsOf, DP!Located
<1>4. FocusFollowed
  BY <1>1 DEF FocusFollowed, FocusHeld, FocusTold, TP!Known
<1> QED BY <1>2, <1>3, <1>4 DEF ShowsAnnounced

LEMMA InitIInv == Init => IInv
<1> SUFFICES ASSUME Init PROVE IInv
  OBVIOUS
<1>1. TP!Init /\ DP!Init
  BY SamePipeline, SameDock DEF Init
<1>2. TP!Orderly
  BY <1>1, TP!InitIInv, TP!InitInOrder, TP!InitClasses, PipelineAssumption DEF TP!Orderly
<1>3. DP!IInv
  BY <1>1, DP!InitIInv, PipelineAssumption, DockAssumption
<1>4. (\A w : Followed(w)) /\ ShowsAnnounced /\ FocusFollowed
  <2>1. chan = <<>> /\ announced = {} /\ pending = <<>> /\ dock.focus = NoClass
        /\ \A x \in Classes : dock.map[x] = "none"
    BY <1>1 DEF TP!Init, DP!Init, DP!NewDock
  <2> QED BY <2>1, Unheard
<1> QED BY <1>2, <1>3, <1>4 DEF IInv

LEMMA StepIInv == IInv /\ [Next]_vars => IInv'
<1> SUFFICES ASSUME IInv, [Next]_vars PROVE IInv'
  OBVIOUS
<1>1. TP!Orderly' /\ DP!IInv'
  <2>1. TP!IInv /\ TP!InOrder /\ TP!ClassesTrue /\ DP!IInv
    BY DEF IInv, TP!Orderly
  <2>2. [TP!Next]_(TP!tvars) /\ [DP!Next]_(DP!vars)
    BY <2>1, StepOfBoth
  <2>3. TP!IInv'
    BY <2>1, <2>2, TP!StepIInv, PipelineAssumption
  <2>4. TP!InOrder' /\ TP!ClassesTrue'
    BY <2>1, <2>2, TP!StepInOrder, TP!StepClasses, PipelineAssumption
  <2>5. DP!IInv'
    BY <2>1, <2>2, DP!StepIInv, PipelineAssumption, DockAssumption
  <2> QED BY <2>3, <2>4, <2>5 DEF TP!Orderly
<1>2. (\A w \in Windows : Followed(w)') /\ ShowsAnnounced' /\ FocusFollowed'
  <2>1. CASE WaylandStep
    <3>1. (TP!Compositor \/ TP!Dispatch) /\ announced' = announced /\ dock' = dock
      BY <2>1, SamePipeline DEF WaylandStep, dockvars
    <3> QED BY <3>1, CompositorFollowed, DispatchFollowed, CompositorTold, DispatchTold
  <2>2. CASE Deliver
    BY <2>2, DeliverFollowed, DeliverTold
  <2>3. CASE DockStep \/ UNCHANGED vars
    <3>1. UNCHANGED wlvars /\ GestureOnly
      <4>1. CASE DockStep
        BY <4>1, GesturesKeepWindows DEF IInv, DockStep
      <4>2. CASE UNCHANGED vars
        BY <4>2 DEF vars, dockvars, GestureOnly, DP!SameWins, DP!FocusKept
      <4> QED BY <2>3, <4>1, <4>2
    <3>2. ASSUME NEW w \in Windows PROVE Followed(w)'
      <4>1. /\ TP!Unreported(w)' = TP!Unreported(w) /\ TP!Reported(w)' = TP!Reported(w)
            /\ (Heard(w)' <=> Heard(w)) /\ (Leaving(w)' <=> Leaving(w)) /\ (Ordered(w)' <=> Ordered(w))
        BY <3>1 DEF wlvars, GestureOnly, TP!Unreported, TP!Reported, TP!Known, TP!Described, TP!Has,
                    Heard, Leaving, Ordered
      <4>2. Followed(w)
        BY DEF IInv
      <4> QED BY <4>1, <4>2 DEF Followed
    <3>3. ShowsAnnounced'
      BY <3>1 DEF wlvars, GestureOnly, DP!SameWins, IInv, ShowsAnnounced
    <3>4. FocusFollowed'
      <4>1. FocusHeld => FocusHeld'
        <5>1. dock.focus \in Classes \cup {NoClass}
          BY DP!GoodDockMeans, DP!GoodParts, PipelineAssumption, DockAssumption
             DEF IInv, DP!IInv, DP!TypeOK, DP!Consistent, DP!FocusPointerValid
        <5> QED BY <3>1, <5>1 DEF GestureOnly, DP!SameWins, DP!FocusKept, FocusHeld
      <4>2. ASSUME NEW w \in Windows, FocusTold(w) PROVE FocusTold(w)'
        <5>1. \A f : Believes(w, f)' <=> Believes(w, f)
          BY <3>1 DEF wlvars, GestureOnly, DP!SameWins, Believes, Marked
        <5> QED BY <3>1, <4>2, <5>1 DEF wlvars, FocusTold, TP!Known, TP!Has
      <4> QED BY <4>1, <4>2 DEF IInv, FocusFollowed
    <3> QED BY <3>2, <3>3, <3>4
  <2>4. CASE Restart
    <3>1. TP!Reconnect /\ DP!Restart
      BY <2>4, SamePipeline, SameDock DEF Restart
    <3>2. /\ chan' = <<>> /\ announced' = {} /\ pending' = <<>>
          /\ dock'.focus = NoClass /\ \A x \in Classes : dock'.map[x] = "none"
      BY <3>1 DEF TP!Reconnect, DP!Restart, DP!NewDock
    <3>3. DOMAIN chan' = {} /\ DOMAIN pending' = {}
      BY <3>2
    <3>4. ASSUME NEW w \in Windows PROVE Followed(w)'
      <4>1. ~Heard(w)' /\ Ordered(w)' /\ ~TP!Reported(w)'
        BY <3>2, <3>3 DEF Heard, Ordered, TP!Reported, TP!Known
      <4> QED BY <4>1 DEF Followed
    <3>5. \A x \in Classes : DP!WinsOf(dock', x) = {}
      BY <3>2 DEF DP!WinsOf, DP!Located
    <3>6. FocusFollowed'
      BY <3>2, <3>3 DEF FocusFollowed, FocusHeld, FocusTold, TP!Known
    <3> QED BY <3>2, <3>4, <3>5, <3>6 DEF ShowsAnnounced
  <2> QED BY <2>1, <2>2, <2>3, <2>4 DEF Next
<1> QED BY <1>1, <1>2 DEF IInv

\* The inductive invariant of the composition holds in every state, whatever the
\* interleaving of the compositor, the Wayland thread, the dock and its restarts.
THEOREM SystemInvariant == Spec => []IInv
BY InitIInv, StepIInv, PTL DEF Spec

\* Every event finds the dock where its handler expects it (module.rs:75-120): the
\* assumption under which DockState models recv_wayland_events is discharged.
THEOREM EventsAlwaysLegal == Spec => []EventsLegal
<1>1. IInv => EventsLegal
  BY HeadExpected DEF EventsLegal
<1> QED BY <1>1, SystemInvariant, PTL

-----------------------------------------------------------------------------
(* When the pipeline is empty *)

\* The windows the dock was told of are those the compositor has described.
LEMMA QuietAnnounced ==
    ASSUME IInv, Quiet, DoneAfterClosed
    PROVE  announced = {w \in Wl!OpenWindows : screen[w].titled}
<1>1. /\ wire = <<>> /\ DOMAIN wire = {} /\ untold = {} /\ chan = <<>> /\ DOMAIN chan = {}
      /\ announced \subseteq Windows /\ screen \in [Windows -> TP!Screen] /\ TP!TypeOK
  <2>1. wire = <<>> /\ untold = {} /\ chan = <<>>
    BY DEF Quiet, Wl!CaughtUp
  <2> QED BY <2>1 DEF IInv, TP!Orderly, TP!IInv, TP!Typed, TP!TypeOK, DP!IInv, DP!TypeOK
<1>2. ASSUME NEW w \in Windows
      PROVE  w \in announced <=> screen[w].life = "open" /\ screen[w].titled
  <2>1. w \in announced <=> TP!Reported(w)
    BY <1>1 DEF IInv, Followed, Heard, Leaving
  <2>2. TP!InStep(w) /\ \A m : ~TP!Has(wire, m, w)
    BY <1>1 DEF IInv, TP!Orderly, TP!IInv, TP!Placed, TP!Has
  <2>3. screen[w].life \in {"unborn", "open", "gone"} /\ screen[w].titled \in BOOLEAN
    BY <1>1 DEF TP!Screen, TP!Life
  <2>4. TP!Known(w) => pending[w] \in TP!Pending
    BY <1>1 DEF TP!TypeOK, TP!Known
  <2>5. CASE screen[w].life = "unborn"
    BY <2>1, <2>2, <2>5 DEF TP!InStep, TP!BornFirst, TP!Reported
  <2>6. CASE screen[w].life = "gone"
    <3>1. TP!Known(w) => pending[w].type = "Closed" /\ ~TP!Described(w)
      BY <2>2, <2>6 DEF TP!InStep, TP!GoneIsClosed, TP!ReportFollows
    <3>2. ~TP!Reported(w)
      BY <3>1 DEF TP!Reported
    <3> QED BY <2>1, <2>6, <3>2
  <2>7. CASE screen[w].life = "open"
    <3>1. TP!Known(w) /\ pending[w].type \in {"Opened", "StateChanged"}
      BY <2>2, <2>4, <2>7 DEF TP!InStep, TP!OpenIsKnown, TP!Pending
    <3>2. pending[w].appId # NoClass
      BY <2>2, <2>7, <3>1, PipelineAssumption DEF TP!InStep, TP!BornFirst, TP!AppIdArrives
    <3>3. pending[w].titled <=> screen[w].titled
      BY <2>2, <3>1 DEF TP!InStep, TP!TitleArrives
    <3>4. TP!Described(w) <=> screen[w].titled
      BY <3>1, <3>2, <3>3 DEF TP!Described
    <3>5. pending[w].type = "StateChanged" <=> screen[w].titled
      BY <2>2, <3>1, <3>4 DEF TP!InStep, TP!ReportFollows
    <3> QED BY <2>1, <2>7, <3>1, <3>5 DEF TP!Reported
  <2> QED BY <2>3, <2>5, <2>6, <2>7
<1> QED BY <1>1, <1>2 DEF Wl!OpenWindows

\* Whatever the user does to the buckets and however the events interleave, the
\* dock comes to show the windows on the screen (manager.rs:125-152, 190-206) if
\* no window changes its app_id and the compositor ends with done: the runs show
\* what happens when one does, and when it does not.
THEOREM WindowsAlwaysConverge == Spec => [](~AppIdChanges /\ DoneAfterClosed => WindowsConverge)
<1>1. IInv => (~AppIdChanges /\ DoneAfterClosed => WindowsConverge)
  <2> SUFFICES ASSUME IInv, ~AppIdChanges, DoneAfterClosed, Quiet, NEW c \in Classes
               PROVE  Dock!WinsOf(dock, c) = Shown(c)
    BY DEF WindowsConverge
  <2>1. DP!WinsOf(dock, c) = {w \in announced : screen[w].appId = c}
    BY DEF IInv, ShowsAnnounced
  <2>2. announced = {w \in Wl!OpenWindows : screen[w].titled}
    BY QuietAnnounced
  <2>3. Dock!WinsOf(dock, c) = DP!WinsOf(dock, c)
    BY SameLookup
  <2> QED BY <2>1, <2>2, <2>3 DEF Shown
<1> QED BY <1>1, SystemInvariant, PTL

\* What the module knows of an open window, and so what the dock takes it for
LEMMA QuietMarked ==
    ASSUME IInv, Quiet, DoneAfterClosed, ~AppIdChanges, NEW w \in announced
    PROVE  Marked(w) <=> w = active
<1>1. /\ wire = <<>> /\ DOMAIN wire = {} /\ untold = {} /\ chan = <<>> /\ DOMAIN chan = {}
      /\ w \in Windows /\ screen[w].life = "open"
  <2>1. wire = <<>> /\ untold = {} /\ chan = <<>>
    BY DEF Quiet, Wl!CaughtUp
  <2>2. w \in Wl!OpenWindows
    BY QuietAnnounced
  <2> QED BY <2>1, <2>2 DEF Wl!OpenWindows
<1>2. TP!Reported(w)
  BY <1>1 DEF IInv, Followed, Heard, Leaving
<1>3. TP!InStep(w) /\ \A m : ~TP!Has(wire, m, w)
  BY <1>1 DEF IInv, TP!Orderly, TP!IInv, TP!Placed, TP!Has
<1>4. TP!Known(w) /\ pending[w].type = "StateChanged" /\ pending[w].focused = (w = active)
  <2>1. TP!Known(w) /\ pending[w].type # "Closed"
    BY <1>1, <1>3 DEF TP!InStep, TP!OpenIsKnown
  <2>2. pending[w].type # "Opened"
    BY <1>2, <1>3 DEF TP!Reported, TP!InStep, TP!ReportFollows
  <2>3. pending[w] \in TP!Pending
    BY <2>1 DEF IInv, TP!Orderly, TP!IInv, TP!Typed, TP!TypeOK, TP!Known
  <2>4. pending[w].type = "StateChanged"
    BY <2>1, <2>2, <2>3 DEF TP!Pending
  <2>5. pending[w].focused = (w = active)
    BY <1>1, <1>3, <2>1 DEF TP!InStep, TP!FocusArrives
  <2> QED BY <2>1, <2>4, <2>5
<1>5. Believes(w, pending[w].focused)
  BY <1>1, <1>3, <1>4 DEF IInv, FocusFollowed, FocusTold
<1>6. Marked(w) <=> pending[w].focused
  BY <1>1, <1>5 DEF Believes
<1> QED BY <1>4, <1>6

LEMMA QuietActive ==
    ASSUME IInv, Quiet, DoneAfterClosed, ~AppIdChanges, NEW c \in Classes
    PROVE  DP!ActiveOf(dock, c) = Shown(c) \cap {active}
<1>1. \A x \in Classes : DP!ActiveOf(dock, x) \subseteq DP!WinsOf(dock, x)
  <2>1. DP!GoodDock(dock)
    BY DP!GoodDockMeans, PipelineAssumption, DockAssumption
       DEF IInv, DP!IInv, DP!TypeOK, DP!Consistent, DP!FocusPointerValid
  <2> QED BY <2>1, DP!ActiveAreShown, PipelineAssumption, DockAssumption
<1>2. \A x \in Classes : DP!WinsOf(dock, x) = {w \in announced : screen[w].appId = x}
  BY DEF IInv, ShowsAnnounced
<1>3. Shown(c) = DP!WinsOf(dock, c)
  BY <1>2, QuietAnnounced DEF Shown
<1>4. ASSUME NEW w \in DP!ActiveOf(dock, c) PROVE w \in Shown(c) /\ w = active
  <2>1. w \in Shown(c) /\ w \in announced
    BY <1>1, <1>2, <1>3
  <2>2. Marked(w)
    BY DEF Marked
  <2> QED BY <2>1, <2>2, QuietMarked
<1>5. ASSUME NEW w \in Shown(c), w = active PROVE w \in DP!ActiveOf(dock, c)
  <2>1. w \in announced /\ screen[w].appId = c
    BY <1>2, <1>3
  <2>2. Marked(w)
    BY <1>5, <2>1, QuietMarked
  <2> PICK x \in Classes : w \in DP!ActiveOf(dock, x)
    BY <2>2 DEF Marked
  <2>3. x = c
    BY <1>1, <1>2, <2>1
  <2> QED BY <2>3
<1> QED BY <1>4, <1>5

\* Under the same conditions the dock marks as active the window that has the
\* focus and no other (bucket.rs:135-151), so that a click minimizes that one.
THEOREM ActiveAlwaysConverges == Spec => [](~AppIdChanges /\ DoneAfterClosed => ActiveConverges)
<1>1. IInv => (~AppIdChanges /\ DoneAfterClosed => ActiveConverges)
  <2> SUFFICES ASSUME IInv, ~AppIdChanges, DoneAfterClosed, Quiet,
                      NEW c \in Classes, Dock!Located(dock, c)
               PROVE  Dock!FindBucket(dock, c).active = Shown(c) \cap {active}
    BY DEF ActiveConverges
  <2>1. DP!ActiveOf(dock, c) = Shown(c) \cap {active}
    BY QuietActive
  <2>2. Dock!FindBucket(dock, c).active = DP!ActiveOf(dock, c)
    BY SameLookup DEF DP!ActiveOf
  <2> QED BY <2>1, <2>2
<1> QED BY <1>1, SystemInvariant, PTL

\* ... and when it says that an application has the focus, one of its windows has:
\* neither a pin, a drag or a closing, nor the two events of a focus change in
\* either order, leaves bucket_focused behind (manager.rs:677-720).
THEOREM FocusAlwaysTruthful == Spec => [](~AppIdChanges /\ DoneAfterClosed => FocusTruthful)
<1>1. IInv => (~AppIdChanges /\ DoneAfterClosed => FocusTruthful)
  <2> SUFFICES ASSUME IInv, ~AppIdChanges, DoneAfterClosed, Quiet, dock.focus # NoClass
               PROVE  active \in Shown(dock.focus)
    BY DEF FocusTruthful
  <2>1. dock.focus \in Classes
    BY DP!GoodDockMeans, DP!GoodParts, PipelineAssumption, DockAssumption
       DEF IInv, DP!IInv, DP!TypeOK, DP!Consistent, DP!FocusPointerValid
  <2>2. DP!ActiveOf(dock, dock.focus) # {}
    BY DEF IInv, FocusFollowed, FocusHeld
  <2>3. DP!ActiveOf(dock, dock.focus) = Shown(dock.focus) \cap {active}
    BY <2>1, QuietActive
  <2> QED BY <2>2, <2>3
<1> QED BY <1>1, SystemInvariant, PTL
=============================================================================
