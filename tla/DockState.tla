------------------------------ MODULE DockState ------------------------------
(***************************************************************************)
(* The state of the dock: rain-dock/src/state/manager.rs (DockState),      *)
(* rain-dock/src/state/bucket.rs (DockBucket), the pinned.json persistence *)
(* and the two user interfaces that move buckets (the popover menu and     *)
(* drag and drop).                                                         *)
(*                                                                         *)
(* Everything here runs on the GTK main loop, one callback at a time, so   *)
(* one callback is one action.  What interleaves is the order of the       *)
(* callbacks: window events, clicks, drags, the completions of the         *)
(* asynchronous saves, and a crash of the process between any two.         *)
(*                                                                         *)
(* The manager's methods are operators on one record-valued state `dock',  *)
(* so that a handler is written as the composition of the methods it       *)
(* calls, and a lemma about a method serves every handler that calls it.   *)
(***************************************************************************)
EXTENDS Integers, FiniteSets, SequencesExt

CONSTANTS
    Classes,    \* the application classes (app_id)
    Windows,    \* the window ids
    NoClass,    \* bucket_focused = None, no drag
    NoWindow,   \* the 0 that last_focus holds for no window
    NoMenu,     \* no popover is open
    InitFiles,  \* the contents of pinned.json the process may start from
    MaxSaves    \* bound on the saves in flight at one time

ASSUME NoClassAssumption  == NoClass \notin Classes
ASSUME NoWindowAssumption == NoWindow \notin Windows
ASSUME NoMenuAssumption   == NoMenu \notin [class : Classes, isPinned : BOOLEAN]
ASSUME FilesAssumption    == InitFiles \subseteq Seq(Classes)
ASSUME SavesAssumption    == MaxSaves \in Nat

VARIABLES
    dock,       \* the DockState object: two lists, the map, the focus
    announced,  \* windows whose Opened event has been delivered
    toLoad,     \* the rest of pinned.json that DockState::new has yet to pin
    menu,       \* the open popover, with the pinned flag its button captured
    drag,       \* the class in the drag payload
    file,       \* the contents of pinned.json
    saves       \* the snapshots whose asynchronous write has not finished

vars == <<dock, announced, toLoad, menu, drag, file, saves>>

-----------------------------------------------------------------------------
(* The values of the state. *)

Lists == {"pinned", "free"}

Bucket == [class     : Classes,
           wins      : SUBSET Windows,
           active    : SUBSET Windows,  \* the apps with is_focused set
           lastFocus : Windows \cup {NoWindow},
           isFocused : BOOLEAN,
           isRunning : BOOLEAN]

Dock == [list  : [Lists -> Seq(Bucket)],
         map   : [Classes -> Lists \cup {"none"}],
         focus : Classes \cup {NoClass}]

Menu == [class : Classes, isPinned : BOOLEAN] \cup {NoMenu}

NewDock == [list  |-> [l \in Lists |-> <<>>],
            map   |-> [c \in Classes |-> "none"],
            focus |-> NoClass]

-----------------------------------------------------------------------------
(* DockBucket *)

NewBucket(c) == [class |-> c, wins |-> {}, active |-> {}, lastFocus |-> NoWindow,
                 isFocused |-> FALSE, isRunning |-> FALSE]

WithActive(active, w, focused) == IF focused THEN active \cup {w} ELSE active \ {w}

\* DockBucket::insert
Inserted(b, w, focused) ==
    [b EXCEPT !.wins = @ \cup {w},
              !.active = WithActive(@, w, focused),
              !.lastFocus = w,
              !.isRunning = TRUE]

\* The values last_focus may take in DockBucket::remove: when the last focused
\* window goes, the first value of the hash map in its arbitrary order, taken
\* before the window is removed from it.
NextFocus(b, w) ==
    IF b.lastFocus # w THEN {b.lastFocus}
    ELSE IF b.wins = {} THEN {NoWindow} ELSE b.wins

\* DockBucket::remove, with f the new last_focus
Removed(b, w, f) ==
    [b EXCEPT !.wins = @ \ {w},
              !.active = @ \ {w},
              !.lastFocus = f,
              !.isRunning = @ /\ b.wins \ {w} # {}]

\* Faulty: an update that does not touch the app's state
UpdatedPointerOnly(b, w, focused) == [b EXCEPT !.lastFocus = IF focused THEN w ELSE @]

\* DockBucket::update_app: the app is updated only if it is in the bucket,
\* last_focus whether it is or not.
Updated(b, w, focused) ==
    [b EXCEPT !.active = IF w \in b.wins THEN WithActive(@, w, focused) ELSE @,
              !.lastFocus = IF focused THEN w ELSE @]

-----------------------------------------------------------------------------
(* DockState: looking a bucket up *)

IsPinned(d, c) == d.map[c] = "pinned"

\* The list the map names for a class; "none" names no list.
ListOf(d, c) == d.list[d.map[c]]

HasClass(s, c) == \E i \in DOMAIN s : s[i].class = c

\* DockState::find_bucket_location finds a bucket of this class
Located(d, c) == d.map[c] # "none" /\ HasClass(ListOf(d, c), c)

\* ... and this is the index it returns (1-based): the first of the class.
FirstOf(s, c) ==
    CHOOSE i \in DOMAIN s : s[i].class = c /\ \A j \in 1 .. (i - 1) : s[j].class # c

Index(d, c) == FirstOf(ListOf(d, c), c)

FindBucket(d, c) == ListOf(d, c)[Index(d, c)]

\* The lists hold references: a setter on the bucket found changes it in place.
SetBucket(d, c, b) == [d EXCEPT !.list[d.map[c]][Index(d, c)] = b]

-----------------------------------------------------------------------------
(* DockState: the methods *)

AtEnd == 0   \* the index None: append

SetFocused(d, c, flag) == SetBucket(d, c, [FindBucket(d, c) EXCEPT !.isFocused = flag])

ClearOldFocus(d) ==
    IF d.focus # NoClass /\ Located(d, d.focus)
    THEN SetFocused(d, d.focus, FALSE)
    ELSE d

ChangeFocus(d, c) ==
    LET cleared == ClearOldFocus(d)
    IN  IF Located(cleared, c)
        THEN [SetFocused(cleared, c, TRUE) EXCEPT !.focus = c]
        ELSE [cleared EXCEPT !.focus = NoClass]

PlaceApp(d, c, w, focused) ==
    IF Located(d, c)
    THEN SetBucket(d, c, Inserted(FindBucket(d, c), w, focused))
    ELSE [d EXCEPT !.map[c] = "free",
                   !.list["free"] = Append(@, Inserted(NewBucket(c), w, focused))]

AddApp(d, c, w, focused) ==
    LET placed == PlaceApp(d, c, w, focused)
    IN  IF focused THEN ChangeFocus(placed, c) ELSE placed

\* Faulty: the position is corrected for the removal, once too often
InsertOneBefore(s, i, b) ==
    IF i = AtEnd THEN Append(s, b)
    ELSE IF i > 1 THEN InsertAt(s, i - 1, b) ELSE InsertAt(s, i, b)

\* gio::ListStore::insert ignores a position beyond the end.
InsertAtPosition(s, i, b) ==
    IF i = AtEnd THEN Append(s, b)
    ELSE IF i <= Len(s) + 1 THEN InsertAt(s, i, b) ELSE s

InsertBucket(d, b, i, l) ==
    IF l = "free" /\ b.wins = {}
    THEN d
    ELSE [d EXCEPT !.map[b.class] = l, !.list[l] = InsertAtPosition(@, i, b)]

\* Faulty: the map entry stays
RemoveBucketKeepMap(d, c) ==
    IF Located(d, c)
    THEN [d EXCEPT !.focus = IF FindBucket(d, c).isFocused THEN NoClass ELSE @,
                   !.list[d.map[c]] = RemoveAt(@, Index(d, c))]
    ELSE d

\* Faulty: bucket_focused keeps the name of the removed bucket
RemoveBucketKeepFocus(d, c) ==
    IF Located(d, c)
    THEN [d EXCEPT !.list[d.map[c]] = RemoveAt(@, Index(d, c)), !.map[c] = "none"]
    ELSE d

\* Faulty: bucket_focused becomes the empty name instead of None
RemoveBucketEmptyFocus(d, c) ==
    IF Located(d, c)
    THEN [d EXCEPT !.focus = IF FindBucket(d, c).isFocused THEN "" ELSE @,
                   !.list[d.map[c]] = RemoveAt(@, Index(d, c)),
                   !.map[c] = "none"]
    ELSE d

\* The bucket leaves its list; the removed object keeps its is_focused flag.
RemoveBucket(d, c) ==
    IF Located(d, c)
    THEN [d EXCEPT !.focus = IF FindBucket(d, c).isFocused THEN NoClass ELSE @,
                   !.list[d.map[c]] = RemoveAt(@, Index(d, c)),
                   !.map[c] = "none"]
    ELSE d

\* Faulty: closing a window of the focused bucket keeps the focus
RemoveAppKeepFocus(d, c, w, f) ==
    LET left    == Removed(FindBucket(d, c), w, f)
        updated == SetBucket(d, c, left)
    IN  IF ~Located(d, c) THEN d
        ELSE IF left.wins = {} /\ ~IsPinned(d, c) THEN RemoveBucket(updated, c)
        ELSE updated

\* f is the last_focus that DockBucket::remove leaves
RemoveApp(d, c, w, f) ==
    LET unfocused == [d EXCEPT !.focus = IF FindBucket(d, c).isFocused THEN NoClass ELSE @]
        left      == Removed(FindBucket(d, c), w, f)
        updated   == SetBucket(unfocused, c, left)
    IN  IF ~Located(d, c) THEN d
        ELSE IF left.wins = {} /\ ~IsPinned(d, c) THEN RemoveBucket(updated, c)
        ELSE updated

\* Faulty: a new bucket is inserted instead of the one removed
MoveNewBucket(d, c, i, l) ==
    IF Located(d, c)
    THEN InsertBucket(RemoveBucket(d, c), NewBucket(c), i, l)
    ELSE d

\* move_bucket, and the body of pin_bucket_in_ram and unpin_bucket
MoveBucket(d, c, i, l) ==
    IF Located(d, c)
    THEN InsertBucket(RemoveBucket(d, c), FindBucket(d, c), i, l)
    ELSE d

PinInRam(d, c) ==
    CASE d.map[c] = "free"   -> MoveBucket(d, c, AtEnd, "pinned")
      [] d.map[c] = "none"   -> InsertBucket(d, NewBucket(c), AtEnd, "pinned")
      [] d.map[c] = "pinned" -> d

Unpin(d, c) == IF IsPinned(d, c) THEN MoveBucket(d, c, AtEnd, "free") ELSE d

ProcessStateChanged(d, c, w, focused) ==
    LET updated == SetBucket(d, c, Updated(FindBucket(d, c), w, focused))
    IN  CASE ~Located(d, c)            -> d
          [] Located(d, c) /\ focused /\ d.focus # c  -> ChangeFocus(updated, c)
          [] Located(d, c) /\ ~focused /\ d.focus = c ->
                 [SetFocused(updated, c, FALSE) EXCEPT !.focus = NoClass]
          [] Located(d, c) /\ (focused <=> d.focus = c) -> updated

\* What save_pinned_buckets writes: the classes of the pinned list, in order.
PinnedClasses(d) == [i \in DOMAIN d.list["pinned"] |-> d.list["pinned"][i].class]

-----------------------------------------------------------------------------
Init ==
    /\ dock = NewDock
    /\ announced = {}
    /\ file \in InitFiles
    /\ toLoad = file
    /\ menu = NoMenu
    /\ drag = NoClass
    /\ saves = <<>>

\* DockState::new returns when load_pinned_buckets has pinned every class.
Running == toLoad = <<>>

LoadNext ==
    /\ toLoad # <<>>
    /\ dock' = PinInRam(dock, Head(toLoad))
    /\ toLoad' = Tail(toLoad)
    /\ UNCHANGED <<announced, menu, drag, file, saves>>

-----------------------------------------------------------------------------
(* The events of the Wayland thread (recv_wayland_events).  The class is the *)
(* app_id the window has when the event is sent, which may differ from the   *)
(* one it was opened with; a window may be closed before it was announced.   *)

Opened(c, w, focused) ==
    /\ Running
    /\ w \notin announced
    /\ announced' = announced \cup {w}
    /\ dock' = AddApp(dock, c, w, focused)
    /\ UNCHANGED <<toLoad, menu, drag, file, saves>>

StateChanged(c, w, focused) ==
    /\ Running
    /\ w \in announced
    /\ dock' = ProcessStateChanged(dock, c, w, focused)
    /\ UNCHANGED <<announced, toLoad, menu, drag, file, saves>>

\* Faulty: the popover outlives its bucket
NeverDismissed(d) == FALSE

\* A popover is unparented when the list item of its bucket is unbound.
DismissedWith(d) == menu # NoMenu /\ ~Located(d, menu.class)

Closed(c, w) ==
    /\ Running
    /\ announced' = announced \ {w}
    /\ \E f \in IF Located(dock, c) THEN NextFocus(FindBucket(dock, c), w) ELSE {NoWindow} :
          dock' = RemoveApp(dock, c, w, f)
    /\ menu' = IF DismissedWith(dock') THEN NoMenu ELSE menu
    /\ UNCHANGED <<toLoad, drag, file, saves>>

-----------------------------------------------------------------------------
(* The popover menu *)

\* The menu is built on the right click; its pin button captures is_pinned.
RightClick(c) ==
    /\ Running /\ menu = NoMenu /\ drag = NoClass
    /\ Located(dock, c)
    /\ menu' = [class |-> c, isPinned |-> IsPinned(dock, c)]
    /\ UNCHANGED <<dock, announced, toLoad, drag, file, saves>>

DismissMenu ==
    /\ menu # NoMenu
    /\ menu' = NoMenu
    /\ UNCHANGED <<dock, announced, toLoad, drag, file, saves>>

\* Faulty: the snapshot is taken before the change
SaveOldPinned(d) == saves' = Append(saves, PinnedClasses(dock))

\* save_pinned_buckets: the snapshot is taken now and written later.
SavePinned(d) == saves' = Append(saves, PinnedClasses(d))

\* pin_bucket saves even when the bucket was already pinned.
ClickPin ==
    /\ menu # NoMenu /\ ~menu.isPinned
    /\ Len(saves) < MaxSaves
    /\ dock' = PinInRam(dock, menu.class)
    /\ SavePinned(dock')
    /\ menu' = NoMenu
    /\ UNCHANGED <<announced, toLoad, drag, file>>

ClickUnpin ==
    /\ menu # NoMenu /\ menu.isPinned
    /\ Len(saves) < MaxSaves
    /\ dock' = Unpin(dock, menu.class)
    /\ IF IsPinned(dock, menu.class) THEN SavePinned(dock') ELSE UNCHANGED saves
    /\ menu' = NoMenu
    /\ UNCHANGED <<announced, toLoad, drag, file>>

-----------------------------------------------------------------------------
(* Drag and drop.  While the pointer drags, window events still arrive. *)

PrepareDrag(c) ==
    /\ Running /\ menu = NoMenu /\ drag = NoClass
    /\ Located(dock, c)
    /\ drag' = c
    /\ UNCHANGED <<dock, announced, toLoad, menu, file, saves>>

CancelDrag ==
    /\ drag # NoClass
    /\ drag' = NoClass
    /\ UNCHANGED <<dock, announced, toLoad, menu, file, saves>>

\* Dropped on the bucket of class t: the source takes the target's position
\* in the target's list.  Nothing is saved.
Drop(t) ==
    /\ drag # NoClass /\ t # drag
    /\ Located(dock, t)
    /\ dock' = MoveBucket(dock, drag, Index(dock, t), dock.map[t])
    /\ drag' = NoClass
    /\ UNCHANGED <<announced, toLoad, menu, file, saves>>

-----------------------------------------------------------------------------
(* The asynchronous writes of pinned.json: each replaces the whole file and  *)
(* they finish in any order.  The process may die at any time; what had not  *)
(* been written is lost, and the next process starts from the file.          *)

WithoutSave(i) == saves' = RemoveAt(saves, i)

CompleteSave(i) ==
    /\ file' = saves[i]
    /\ WithoutSave(i)
    /\ UNCHANGED <<dock, announced, toLoad, menu, drag>>

FailSave(i) ==
    /\ WithoutSave(i)
    /\ UNCHANGED <<dock, announced, toLoad, menu, drag, file>>

Restart ==
    /\ dock' = NewDock
    /\ announced' = {}
    /\ toLoad' = file
    /\ menu' = NoMenu
    /\ drag' = NoClass
    /\ saves' = <<>>
    /\ UNCHANGED file

-----------------------------------------------------------------------------
WindowEvent ==
    \E c \in Classes, w \in Windows :
        \/ \E focused \in BOOLEAN : Opened(c, w, focused) \/ StateChanged(c, w, focused)
        \/ Closed(c, w)

UseMenu == (\E c \in Classes : RightClick(c)) \/ DismissMenu \/ ClickPin \/ ClickUnpin

UseDrag == (\E c \in Classes : PrepareDrag(c) \/ Drop(c)) \/ CancelDrag

Next ==
    \/ LoadNext
    \/ WindowEvent
    \/ UseMenu
    \/ UseDrag
    \/ \E i \in DOMAIN saves : CompleteSave(i) \/ FailSave(i)
    \/ Restart

Spec == Init /\ [][Next]_vars

-----------------------------------------------------------------------------
(* Properties *)

\* Every variable stays in its type.
TypeOK ==
    /\ dock \in Dock
    /\ announced \in SUBSET Windows
    /\ toLoad \in Seq(Classes)
    /\ menu \in Menu
    /\ drag \in Classes \cup {NoClass}
    /\ file \in Seq(Classes)
    /\ saves \in Seq(Seq(Classes))

\* The lists hold at most one bucket of a class.
Distinct(d) ==
    \A l \in Lists : \A i, j \in DOMAIN d.list[l] :
        d.list[l][i].class = d.list[l][j].class => i = j

\* The map names the list a bucket is in ...
Indexed(d) == \A l \in Lists : \A i \in DOMAIN d.list[l] : d.map[d.list[l][i].class] = l

\* ... and names no list for a class that has no bucket.
Found(d) == \A c \in Classes : d.map[c] # "none" => HasClass(ListOf(d, c), c)

\* An unpinned bucket has a window; "running" says whether a bucket has one; only
\* windows of a bucket are active in it.
Occupied(d) ==
    /\ \A i \in DOMAIN d.list["free"] : d.list["free"][i].wins # {}
    /\ \A l \in Lists : \A i \in DOMAIN d.list[l] :
          /\ d.list[l][i].isRunning <=> d.list[l][i].wins # {}
          /\ d.list[l][i].active \subseteq d.list[l][i].wins

ConsistentDock(d) == Distinct(d) /\ Indexed(d) /\ Found(d) /\ Occupied(d)

\* map_is_pinned, the two ListStores and the buckets' running flags, which
\* every method updates one after the other, always describe the same dock.
\* A lost map entry makes find_bucket blind to a bucket that is on screen; a
\* second bucket of a class makes it unreachable (manager.rs:344-363).
Consistent == ConsistentDock(dock)

PointedBucketIsFocused(d) ==
    d.focus # NoClass => Located(d, d.focus) /\ FindBucket(d, d.focus).isFocused

\* bucket_focused never outlives the bucket it names: change_focus finds the old
\* bucket through this pointer to clear its flag (manager.rs:679-684).
FocusPointerValid == PointedBucketIsFocused(dock)

\* The flag the pin button captured when the menu was built is still the
\* bucket's when the button is clicked, although window events arrive between
\* the two (popover_menu.rs:138-152): "Pin" never unpins and "Unpin" never pins.
MenuMatchesDock ==
    menu # NoMenu => Located(dock, menu.class) /\ menu.isPinned = IsPinned(dock, menu.class)

\* A menu or a drag exists only in a loaded dock, and never both.
OneGesture ==
    /\ menu # NoMenu \/ drag # NoClass => Running
    /\ menu # NoMenu => drag = NoClass

\* The inductive invariant
IInv == TypeOK /\ Consistent /\ FocusPointerValid /\ MenuMatchesDock /\ OneGesture

-----------------------------------------------------------------------------
(* The dock as its user sees it *)

\* The windows the dock shows for a class
WinsOf(d, c) == IF Located(d, c) THEN FindBucket(d, c).wins ELSE {}

PinnedSet(d) == {c \in Classes : IsPinned(d, c)}

\* A class that is still to be loaded counts as pinned.
Board == INSTANCE Taskbar WITH
    InitPins <- {ToSet(f) : f \in InitFiles},
    pinned   <- PinnedSet(dock) \cup ToSet(toLoad),
    open     <- [c \in Classes |-> WinsOf(dock, c)],
    saved    <- ToSet(file),
    writing  <- {ToSet(saves[i]) : i \in DOMAIN saves}

\* The dock implements the taskbar its user sees: taking a bucket out of one
\* list and putting it into another (pin, unpin, drop) never loses a window or
\* a pin, only a Closed event takes a window away, and a restart brings back
\* the pins of the last write that finished (manager.rs:229-338, 472-565).
ImplementsTaskbar == Board!Spec

\* The buckets of all classes but c are those they were, in the order they had.
SameOthers(d, e, c) ==
    /\ \A x \in Classes \ {c} :
          e.map[x] = d.map[x] /\ (Located(d, x) => FindBucket(e, x) = FindBucket(d, x))
    /\ \A x, y \in Classes \ {c} :
          Located(d, x) /\ Located(d, y) /\ d.map[x] = d.map[y] =>
             (Index(e, x) < Index(e, y) <=> Index(d, x) < Index(d, y))

\* The source stands where the target stood, in the target's list.
TakesPlace(d, e, c, t) ==
    /\ e.map[c] = d.map[t] /\ Index(e, c) = Index(d, t)
    /\ FindBucket(e, c) = FindBucket(d, c)

\* After a drop the source stands where the target stood, in the target's list,
\* and the order of all other buckets is as before, although the removal may
\* have shifted the target (manager.rs:255-259, drag_and_drop.rs:94-103).
DropMoves ==
    \A t \in Classes :
        Drop(t) /\ Located(dock, drag) /\ (WinsOf(dock, drag) # {} \/ IsPinned(dock, t)) =>
            TakesPlace(dock, dock', drag, t) /\ SameOthers(dock, dock', drag)

DropTakesTargetPlace == [][DropMoves]_vars

\* Once no write is in flight, pinned.json holds the pinned list in its order
\* (manager.rs:313, 503).
SavedWhenQuiet == Running /\ saves = <<>> => file = PinnedClasses(dock)

=============================================================================
