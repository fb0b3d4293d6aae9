--------------------------------- MODULE Appd ---------------------------------
(***************************************************************************)
(* The application daemon: its index of desktop entries and the answers it *)
(* gives over D-Bus (rain-appd/src/state/state.rs, server/daemon.rs), with *)
(* the entry as the dock receives it and the command it launches           *)
(* (rain-client/src/dto/app.rs).                                           *)
(*                                                                         *)
(* A provider thread reads the desktop files directory by directory and    *)
(* sends them through a bounded channel to one consumer task, which fills  *)
(* the index.  The daemon serves requests while the index is filling.      *)
(*                                                                         *)
(* Text is a sequence of tokens: a character where %-codes are told apart, *)
(* else a whole name.                                                      *)
(***************************************************************************)
EXTENDS Naturals, Sequences, SequencesExt

CONSTANTS Classes,      \* application ids, the classes of windows
          NoEntry,      \* no entry under an id
          ChannelCap,   \* the places of the channel (128 in the code)
          FilesOnDisk   \* the possible orders of the desktop files read

VARIABLES scan,         \* the files the provider has still to read
          queue,        \* the channel between provider and consumer
          index         \* desktop_entries: class -> entry or NoEntry

appdvars == <<scan, queue, index>>

NoField == "none"

\* A desktop file: its id and the fields it has; NoField where it has none.
AppdInit ==
    /\ scan \in FilesOnDisk
    /\ queue = <<>>
    /\ index = [c \in Classes |-> NoEntry]

\* Faulty variant: the channel has no bound.
HasPlaceAlways == TRUE

\* blocking_send waits for a place in the channel.
HasPlace == Len(queue) < ChannelCap

Provide ==
    /\ scan # <<>> /\ HasPlace
    /\ queue' = Append(queue, Head(scan))
    /\ scan' = Tail(scan)
    /\ UNCHANGED index

\* A file read later replaces one of the same id.
Consume ==
    /\ queue # <<>>
    /\ index' = [index EXCEPT ![Head(queue).id] = Head(queue)]
    /\ queue' = Tail(queue)
    /\ UNCHANGED scan

\* The files of class c that are not in the index yet
Unindexed(c) == {f \in Range(queue) \cup Range(scan) : f.id = c}

-----------------------------------------------------------------------------
(* Entries as they travel *)

Field(v) == IF v = NoField THEN "" ELSE v
ExecField(v) == IF v = NoField THEN <<>> ELSE v

FromEntry(f) == [name |-> Field(f.name), icon |-> Field(f.icon), exec |-> ExecField(f.exec)]

\* get_entry: what the daemon knows of class c at the moment of the request
GetEntry(c) == IF index[c] = NoEntry THEN NoEntry ELSE FromEntry(index[c])

-----------------------------------------------------------------------------
(* Launching *)

\* Every occurrence of % and the letter code in s replaced by r, from the left
Replaced(s, code, r) ==
    LET from[i \in 1..Len(s) + 1] ==
            IF i > Len(s) THEN <<>>
            ELSE IF s[i] = "%" /\ i < Len(s) /\ s[i + 1] = code
            THEN r \o from[i + 2]
            ELSE <<s[i]>> \o from[i + 1]
    IN from[1]

Without(s, code) == Replaced(s, code, <<>>)

\* Faulty variant: an argument also for an entry without an icon
IconArgAlways(e) == <<"--icon", " ", e.icon>>

\* What %i stands for
IconArg(e) == IF e.icon = "" THEN <<>> ELSE <<"--icon", " ", e.icon>>

\* The command line without its codes: the codes of files and URLs go one after
\* the other, then the name and the icon take the place of theirs.
GetSanitizeExecCmd(e) ==
    LET bare == Without(Without(Without(Without(e.exec, "u"), "U"), "f"), "F")
    IN Replaced(Replaced(bare, "c", <<e.name>>), "i", IconArg(e))

\* The words so far, the last one included unless it is empty
Closed(cut) == IF cut.word = <<>> THEN cut.words ELSE Append(cut.words, cut.word)

\* split_whitespace: the non-empty runs of tokens between blanks
SplitWhitespace(s) ==
    LET cut[i \in 0..Len(s)] ==
            IF i = 0 THEN [words |-> <<>>, word |-> <<>>]
            ELSE IF s[i] = " " THEN [words |-> Closed(cut[i - 1]), word |-> <<>>]
            ELSE [cut[i - 1] EXCEPT !.word = Append(@, s[i])]
    IN Closed(cut[Len(s)])

\* The program and its arguments that launch_with_gtk runs; none when empty
LaunchWithGtk(e) == SplitWhitespace(GetSanitizeExecCmd(e))

=============================================================================
