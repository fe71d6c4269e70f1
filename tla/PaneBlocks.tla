----------------------------- MODULE PaneBlocks -----------------------------
(***************************************************************************)
(* The blocks of one session as the panes of the app show them: the        *)
(* session thread that stores and announces a block (vtermd/src/session.rs *)
(* and vt-store/src/blocks.rs), the calls that list, bookmark and clear    *)
(* (rpc.rs), and the pane: PaneController and its extensions, Blocks.swift.*)
(* Two apps may show the session, a pane each.                             *)
(*                                                                         *)
(* A call is synchronous on the app's main thread, which hears broadcasts, *)
(* from another connection, only between two of its own turns.             *)
(***************************************************************************)
EXTENDS Naturals, Sequences, SequencesExt

CONSTANTS Apps,
          Marking,      (* those whose user sets bookmarks                  *)
          Nothing,      (* no command, no block, no sequence number         *)
          ScreenRows,   (* rows of the visible grid                         *)
          MaxHistory,   (* rows of scrollback before the oldest is pruned   *)
          MaxRuns,      (* bound: commands                                  *)
          MaxToggles,   (* bound: bookmarks set or taken away               *)
          MaxAttaches,  (* bound: panes opened, of all apps                 *)
          MaxClears     (* bound: clears of the scrollback                  *)

(* A block as it is announced; one the store failed to take has no number. *)
Told == [seq : 1..MaxRuns \cup {Nothing}, of : 1..MaxRuns, start : 1..(ScreenRows + MaxHistory), bookmarked : {FALSE}]

ASSUME PaneBlocksAssumption ==
    /\ Marking \subseteq Apps /\ Nothing \notin Nat /\ Nothing \notin Told
    /\ ScreenRows \in Nat \ {0} /\ MaxHistory \in Nat
    /\ MaxRuns \in Nat /\ MaxToggles \in Nat /\ MaxAttaches \in Nat /\ MaxClears \in Nat

VARIABLES
    running,   (* the command whose block is open, or Nothing              *)
    runs,      (* how many commands there were                             *)
    lines,     (* the terminal core's rows: whose command line is on each  *)
    began,     (* the row on which the running command began               *)
    stored,    (* the table blocks, in the order of seq                    *)
    telling,   (* the block stored, or not, and not yet broadcast          *)
    warned,    (* whether the marks were found corrupted, and it was said  *)
    wire,      (* per app: broadcasts on their way to its main thread      *)
    pane,      (* per app: PaneController                                  *)
    call,      (* per app: what its main thread waits for                  *)
    toggles, attaches, clears,
    cut        (* history: rows have been renumbered                       *)

shellVars == <<running, runs, lines, began, cut>>
storeVars == <<stored, telling, warned>>
countVars == <<toggles, attaches, clears>>
paneVars == <<shellVars, storeVars, wire, pane, call, countVars>>

Idle == [is |-> "idle"]
Loading == [is |-> "loading"]
Marked(seq, on) == [is |-> "marked", seq |-> seq, on |-> on]

ShownBlock(seq, of, row, on) == [seq |-> seq, of |-> of, start |-> row, bookmarked |-> on]
BlockEvent(b) == [is |-> "block", block |-> b]
BlockChanged(seq, on) == [is |-> "changed", seq |-> seq, on |-> on]
BlocksDegraded == [is |-> "degraded"]

(* A pane that is open: degraded of its BlockList, the phase it believes   *)
(* in, who has the keyboard, and, as history, whether the marks were still *)
(* good when it attached.                                                  *)
Closed == [open |-> FALSE, blocks |-> <<>>, degraded |-> FALSE, phase |-> "unknown", keyboard |-> "editor", early |-> FALSE]
NewPane(early) == [Closed EXCEPT !.open = TRUE, !.early = early]

PaneInit ==
    /\ running = Nothing /\ runs = 0 /\ lines = <<>> /\ began = 1 /\ cut = FALSE
    /\ stored = <<>> /\ telling = Nothing /\ warned = FALSE
    /\ wire = [a \in Apps |-> <<>>] /\ pane = [a \in Apps |-> Closed] /\ call = [a \in Apps |-> Idle]
    /\ toggles = 0 /\ attaches = 0 /\ clears = 0

(* server.rs, broadcast: to every connection.                              *)
Announced(event) == wire' = [a \in Apps |-> Append(wire[a], event)]

-----------------------------------------------------------------------------
(* The session thread.                                                     *)

(* The last n rows: what is left of the numbering is the order.            *)
LastRows(rows, n) == SubSeq(rows, IF Len(rows) > n THEN Len(rows) - n + 1 ELSE 1, Len(rows))

(* A command line on a new row; the oldest row is pruned when the          *)
(* scrollback is full.                                                     *)
Begins ==
    /\ running = Nothing /\ telling = Nothing /\ runs < MaxRuns
    /\ running' = runs + 1 /\ runs' = runs + 1
    /\ lines' = LastRows(Append(lines, runs + 1), ScreenRows + MaxHistory)
    /\ began' = Len(lines')
    /\ cut' = (cut \/ Len(lines) = ScreenRows + MaxHistory)

(* It was typed in the grid, or in another viewer.                         *)
CommandStarts == Begins /\ UNCHANGED <<storeVars, wire, pane, call, countVars>>

(* The table blocks: append_block and set_block_bookmark.                  *)
AppendBlock(of, row) == Append(stored, [of |-> of, start |-> row, bookmarked |-> FALSE])
SetBlockBookmark(seq, on) == [stored EXCEPT ![seq].bookmarked = on]
StoredBlocks == [seq \in DOMAIN stored |-> ShownBlock(seq, stored[seq].of, stored[seq].start, stored[seq].bookmarked)]

(* emit_block: append_block under the store's lock, which may fail, then   *)
(* the broadcast; a segmenter that has seen too much hands over nothing.   *)
CommandEnds(works) ==
    /\ running # Nothing /\ telling = Nothing
    /\ running' = Nothing
    /\ IF warned THEN UNCHANGED storeVars
       ELSE /\ stored' = IF works THEN AppendBlock(running, began) ELSE stored
            /\ telling' = ShownBlock(IF works THEN Len(stored) + 1 ELSE Nothing, running, began, FALSE)
            /\ UNCHANGED warned
    /\ UNCHANGED <<runs, lines, began, cut, wire, pane, call, countVars>>

TellBlock ==
    /\ telling # Nothing
    /\ Announced(BlockEvent(telling)) /\ telling' = Nothing
    /\ UNCHANGED <<shellVars, stored, warned, pane, call, countVars>>

(* segment, Corrupted: said once, and not kept.                            *)
FindsCorrupted ==
    /\ ~warned /\ telling = Nothing
    /\ warned' = TRUE /\ Announced(BlocksDegraded)
    /\ UNCHANGED <<shellVars, stored, telling, pane, call, countVars>>

-----------------------------------------------------------------------------
(* BlockList.                                                              *)

Before(b, c) == b.start < c.start \/ (b.start = c.start /\ b.seq < c.seq)

(* sort: the same blocks, none before one that comes after it.             *)
IsOrder(list, order) == \A i, j \in DOMAIN list : i < j => ~Before(list[order[j]], list[order[i]])
Sorted(list) ==
    LET order == CHOOSE p \in Bijection(DOMAIN list, DOMAIN list) : IsOrder(list, p)
    IN  [i \in DOMAIN list |-> list[order[i]]]

Replaced == Sorted(StoredBlocks)

(* Mutation: no look at what is there already. *)
AppendedAnyway(list, b) == Sorted(Append(list, b))

Appended(list, b) == IF \E i \in DOMAIN list : list[i].seq = b.seq THEN list ELSE Sorted(Append(list, b))

WithBookmark(list, seq, on) == [i \in DOMAIN list |-> IF list[i].seq = seq THEN [list[i] EXCEPT !.bookmarked = on] ELSE list[i]]

(* handle(event:): a block without a number is no block to the parser.     *)
(* Nothing in the daemon sends the events "prompt" and "command_started"   *)
(* that would set the phase.                                               *)
Heard(p, event) ==
    CASE event.is = "block" /\ event.block.seq # Nothing -> [p EXCEPT !.blocks = Appended(@, event.block)]
      [] event.is = "block" /\ event.block.seq = Nothing -> p
      [] event.is = "changed" -> [p EXCEPT !.blocks = WithBookmark(@, event.seq, event.on)]
      [] event.is = "degraded" -> [p EXCEPT !.degraded = TRUE]

-----------------------------------------------------------------------------
(* The main thread of an app.                                              *)
Free(a) == call[a] = Idle

Hear(a) ==
    /\ Free(a) /\ wire[a] # <<>>
    /\ wire' = [wire EXCEPT ![a] = Tail(@)]
    /\ pane' = [pane EXCEPT ![a] = IF @.open THEN Heard(@, Head(wire[a])) ELSE @]
    /\ UNCHANGED <<shellVars, storeVars, call, countVars>>

(* attach: the pane has its session, and asks for the blocks there are.    *)
Attach(a) ==
    /\ Free(a) /\ ~pane[a].open /\ attaches < MaxAttaches
    /\ pane' = [pane EXCEPT ![a] = NewPane(~warned)]
    /\ call' = [call EXCEPT ![a] = Loading]
    /\ attaches' = attaches + 1
    /\ UNCHANGED <<shellVars, storeVars, wire, toggles, clears>>

(* session.blocks, under the store's lock, and loadBlocks.                 *)
LoadBlocks(a) ==
    /\ call[a] = Loading
    /\ pane' = [pane EXCEPT ![a].blocks = Replaced]
    /\ call' = [call EXCEPT ![a] = Idle]
    /\ UNCHANGED <<shellVars, storeVars, wire, countVars>>

(* clearScrollback: the session thread keeps the visible grid only, and    *)
(* the blocks are asked for again.  The segmenter hears nothing of it.     *)
ClearScrollback(a) ==
    /\ Free(a) /\ pane[a].open /\ telling = Nothing /\ clears < MaxClears
    /\ lines' = LastRows(lines, ScreenRows)
    /\ cut' = (cut \/ Len(lines) > ScreenRows)
    /\ call' = [call EXCEPT ![a] = Loading]
    /\ clears' = clears + 1
    /\ UNCHANGED <<running, runs, began, storeVars, wire, pane, toggles, attaches>>

(* perform(.bookmark): the row is set under the store's lock, the change   *)
(* is broadcast without it, and the pane follows the reply.                *)
SetBookmark(a, i) ==
    /\ Free(a) /\ pane[a].open /\ a \in Marking /\ toggles < MaxToggles
    /\ LET b == pane[a].blocks[i]
       IN  /\ stored' = SetBlockBookmark(b.seq, ~b.bookmarked)
           /\ call' = [call EXCEPT ![a] = Marked(b.seq, ~b.bookmarked)]
    /\ toggles' = toggles + 1
    /\ UNCHANGED <<shellVars, telling, warned, wire, pane, attaches, clears>>

BookmarkSet(a) ==
    /\ call[a].is = "marked"
    /\ Announced(BlockChanged(call[a].seq, call[a].on))
    /\ pane' = [pane EXCEPT ![a].blocks = WithBookmark(@, call[a].seq, call[a].on)]
    /\ call' = [call EXCEPT ![a] = Idle]
    /\ UNCHANGED <<shellVars, storeVars, countVars>>

(* send: a line from the editor, and the grid has the keyboard.  A shell   *)
(* begins the command, a program that runs takes the line for its input.   *)
Send(a) ==
    /\ Free(a) /\ pane[a].open /\ pane[a].keyboard = "editor"
    /\ Begins \/ (running # Nothing /\ UNCHANGED shellVars)
    /\ pane' = [pane EXCEPT ![a].phase = "running", ![a].keyboard = "grid"]
    /\ UNCHANGED <<storeVars, wire, call, countVars>>

(* focus: the pane is chosen again, with Warp's editor.                    *)
Focus(a) ==
    /\ Free(a) /\ pane[a].open
    /\ pane' = [pane EXCEPT ![a].keyboard = IF pane[a].phase # "running" THEN "editor" ELSE "grid"]
    /\ UNCHANGED <<shellVars, storeVars, wire, call, countVars>>

(* mouseDown in the grid.                                                  *)
ClickGrid(a) ==
    /\ Free(a) /\ pane[a].open
    /\ pane' = [pane EXCEPT ![a].keyboard = "grid"]
    /\ UNCHANGED <<shellVars, storeVars, wire, call, countVars>>

Close(a) ==
    /\ Free(a) /\ pane[a].open
    /\ pane' = [pane EXCEPT ![a] = Closed]
    /\ UNCHANGED <<shellVars, storeVars, wire, call, countVars>>

PaneNext ==
    \/ CommandStarts \/ (\E works \in BOOLEAN : CommandEnds(works)) \/ TellBlock \/ FindsCorrupted
    \/ \E a \in Apps : \/ Hear(a) \/ Attach(a) \/ LoadBlocks(a) \/ ClearScrollback(a)
                       \/ (\E i \in DOMAIN pane[a].blocks : SetBookmark(a, i)) \/ BookmarkSet(a)
                       \/ Send(a) \/ Focus(a) \/ ClickGrid(a) \/ Close(a)

PaneSpec == PaneInit /\ [][PaneNext]_paneVars

(* The session thread goes on, and so does a main thread that has events   *)
(* or waits for a reply.                                                   *)
PaneFairness ==
    /\ WF_paneVars(TellBlock)
    /\ \A a \in Apps : WF_paneVars(Hear(a)) /\ WF_paneVars(LoadBlocks(a)) /\ WF_paneVars(BookmarkSet(a))

-----------------------------------------------------------------------------
Events == {BlocksDegraded} \cup {BlockEvent(b) : b \in Told}
          \cup {BlockChanged(seq, on) : seq \in 1..MaxRuns, on \in BOOLEAN}
PaneTypeOK ==
    /\ running \in 1..MaxRuns \cup {Nothing} /\ runs \in 0..MaxRuns
    /\ \A r \in DOMAIN lines : lines[r] \in 1..MaxRuns
    /\ \A a \in Apps : /\ \A i \in DOMAIN wire[a] : wire[a][i] \in Events
                       /\ pane[a].phase \in {"unknown", "running"} /\ pane[a].keyboard \in {"editor", "grid"}
                       /\ call[a] \in {Idle, Loading} \cup {Marked(seq, on) : seq \in 1..MaxRuns, on \in BOOLEAN}

(* Nothing the app a has not heard of is under way.                        *)
Settled(a) == pane[a].open /\ Free(a) /\ wire[a] = <<>> /\ telling = Nothing /\ \A c \in Apps : call[c].is # "marked"

(* session.rs, emit_block: "a viewer can merge both without duplicates."   *)
(* Whatever order the list, the live blocks and the user's own bookmarks   *)
(* came in, a pane that has heard everything shows each stored block once, *)
(* in the order of its rows, with the bookmark it has.                     *)
ShowsTheStore(a) ==
    /\ \A i, j \in DOMAIN pane[a].blocks : i < j => Before(pane[a].blocks[i], pane[a].blocks[j])
    /\ Len(pane[a].blocks) = Len(stored)
    /\ \A i \in DOMAIN pane[a].blocks :
           LET b == pane[a].blocks[i]
           IN  /\ b.seq \in DOMAIN stored /\ b.of = stored[b.seq].of /\ b.start = stored[b.seq].start
               /\ Marking \subseteq {a} => b.bookmarked = stored[b.seq].bookmarked

(* Blocks.swift: corruption is "Shown to the user, never hidden"; it is    *)
(* not shown for nothing.                                                  *)
DegradedIsShown(a) == (pane[a].degraded => warned) /\ (warned /\ pane[a].early => pane[a].degraded)

(* As long as no row was dropped, a block is where its command is.         *)
RowsHold(a) == ~cut => \A i \in DOMAIN pane[a].blocks : lines[pane[a].blocks[i].start] = pane[a].blocks[i].of

PanesAreTrue == PaneTypeOK /\ \A a \in Apps : RowsHold(a) /\ (Settled(a) => ShowsTheStore(a) /\ DegradedIsShown(a))

-----------------------------------------------------------------------------
(* Promises of comments and documents that the code breaks.                *)

(* session.rs, rpc.rs: a bookmark is the daemon's, "stored by the daemon"; *)
(* of two apps one may show it otherwise for good.                         *)
BookmarksAgree == \A a \in Apps : Settled(a) => \A i \in DOMAIN pane[a].blocks : pane[a].blocks[i].bookmarked = stored[pane[a].blocks[i].seq].bookmarked

(* docs/12, A13: "blocks below the cut are marked `cleared`"; docs/07:     *)
(* blocks that drift "are treated as unmapped, not redrawn wrong".         *)
RowsAreMapped == \A a \in Apps : \A i \in DOMAIN pane[a].blocks : pane[a].blocks[i].start \in DOMAIN lines => lines[pane[a].blocks[i].start] = pane[a].blocks[i].of

(* Blocks.swift: "Shown to the user, never hidden", to a pane that is      *)
(* opened later too.                                                       *)
NeverHidden == \A a \in Apps : Settled(a) /\ warned => pane[a].degraded

(* PaneController.swift: "The editor takes the keyboard while the shell    *)
(* reads a line".  The events that say so are never sent.                  *)
KeyboardComesBack == \A a \in Apps : (pane[a].open /\ pane[a].phase = "running" /\ running = Nothing) ~> (pane[a].phase # "running" \/ running # Nothing \/ ~pane[a].open)

(* "the grid takes it while a command runs", in a pane attached meanwhile  *)
(* as well.                                                                *)
KeysGoToTheCommand == \A a \in Apps : pane[a].open /\ running # Nothing => pane[a].keyboard = "grid"
=============================================================================
