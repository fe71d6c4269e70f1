----------------------------- MODULE Segmenter -----------------------------
(***************************************************************************)
(* vt-blocks/src/segment.rs: shell-integration marks in, blocks out, one   *)
(* action per mark.  Any program can print marks, so they come in any      *)
(* order.  A command line is the number of the input that brought it.      *)
(***************************************************************************)
EXTENDS Integers, Sequences

CONSTANTS None,          (* Option::None                                    *)
          CorruptLimit,  (* CORRUPT_LIMIT                                   *)
          Exits,         (* exit statuses                                   *)
          RowsMayFall,   (* whether the cursor can go up: clear, a full     *)
                         (* screen program                                  *)
          MaxRow,        (* bound: absolute rows                            *)
          MaxInputs      (* bound: marks and outputs fed                    *)

VARIABLES
    open,            (* Segmenter.open                                      *)
    pendingCmdline,  (* Segmenter.pending_cmdline                           *)
    disorder,        (* Segmenter.disorder                                  *)
    corrupted,       (* Segmenter.corrupted                                 *)
    blocks,          (* the blocks handed over, as the store appends them   *)
    warnings,        (* how often Corrupted was returned                    *)
    row,             (* the row of the last input                           *)
    inputs           (* inputs so far                                       *)

segVars == <<open, pendingCmdline, disorder, corrupted, blocks, warnings>>
vars == <<segVars, row, inputs>>

Rows     == 0..MaxRow
Optional(S) == S \cup {None}

Open == [kind : {"prompt", "command"}, start : Nat, cmdline : Optional(Nat),
         executed : BOOLEAN, output : Optional(Nat)]

Block == [kind : {"prompt", "command", "background"}, confidence : {"marked", "heuristic"},
          start : Nat, end : Nat, cmdline : Optional(Nat), exit : Optional(Exits),
          timed : BOOLEAN, output : Optional(Nat)]

ASSUME SegmenterAssumption ==
    /\ CorruptLimit \in Nat \ {0} /\ MaxRow \in Nat /\ MaxInputs \in Nat
    /\ RowsMayFall \in BOOLEAN /\ None \notin Nat \cup Exits \cup Open

Init ==
    /\ open = None /\ pendingCmdline = None /\ disorder = 0 /\ corrupted = FALSE
    /\ blocks = <<>> /\ warnings = 0 /\ row = 0 /\ inputs = 0

-----------------------------------------------------------------------------
InCommand == open # None /\ open.kind = "command"
InPrompt  == open # None /\ open.kind = "prompt"

Opened(kind, r, cmdline) ==
    [kind |-> kind, start |-> r, cmdline |-> cmdline, executed |-> FALSE, output |-> None]

Above(r) == IF r = 0 THEN 0 ELSE r - 1

(* block_of: closed by the next prompt or command, not by a D. *)
BlockOf(o, end) ==
    [kind |-> o.kind, confidence |-> "marked",
     start |-> o.start, end |-> IF end < o.start THEN o.start ELSE end,
     cmdline |-> IF o.kind = "command" THEN o.cmdline ELSE None, exit |-> None,
     timed |-> FALSE, output |-> None]

HandOver(b) == blocks' = Append(blocks, b)

(* note_disorder *)
NoteDisorder ==
    /\ disorder' = disorder + 1
    /\ IF disorder + 1 >= CorruptLimit THEN corrupted' = TRUE /\ warnings' = warnings + 1
       ELSE UNCHANGED <<corrupted, warnings>>

InOrder == UNCHANGED <<disorder, corrupted, warnings>>

(* 633;E: attaches to the open command, or waits for the next. *)
CommandLine(cmdline) ==
    /\ IF InCommand
         THEN open' = [open EXCEPT !.cmdline = cmdline] /\ UNCHANGED pendingCmdline
         ELSE pendingCmdline' = cmdline /\ UNCHANGED open
    /\ UNCHANGED blocks /\ InOrder

(* 133;A closes whatever is open, a running command too. *)
PromptStart(r) ==
    /\ IF open = None THEN UNCHANGED blocks ELSE HandOver(BlockOf(open, Above(r)))
    /\ open' = Opened("prompt", r, None)
    /\ UNCHANGED pendingCmdline /\ InOrder

(* Mutation: the pending command line is used and kept. *)
CommandStartKeeping(r) ==
    /\ IF InPrompt THEN HandOver(BlockOf(open, Above(r))) ELSE UNCHANGED blocks
    /\ open' = Opened("command", r, pendingCmdline)
    /\ UNCHANGED pendingCmdline /\ InOrder

(* 133;B closes an open prompt and takes the place of an open command. *)
CommandStart(r) ==
    /\ IF InPrompt THEN HandOver(BlockOf(open, Above(r))) ELSE UNCHANGED blocks
    /\ open' = Opened("command", r, pendingCmdline) /\ pendingCmdline' = None
    /\ InOrder

(* 133;C: without an open command it is disorder, and opens one unless the *)
(* limit is reached. *)
CommandExecuted(r) ==
    LET Executed(o) == [o EXCEPT !.executed = TRUE, !.output = r] IN
    /\ \/ InCommand /\ open' = Executed(open) /\ UNCHANGED pendingCmdline /\ InOrder
       \/ /\ ~InCommand /\ NoteDisorder
          /\ IF corrupted' THEN UNCHANGED <<open, pendingCmdline>>
             ELSE /\ open' = Executed(Opened("command", r, pendingCmdline))
                  /\ pendingCmdline' = None
    /\ UNCHANGED blocks

(* 133;D closes the open command, executed or not. *)
CommandFinished(r, exit) ==
    /\ \/ /\ InCommand /\ open' = None /\ InOrder
          /\ HandOver([kind |-> "command", confidence |-> "marked",
                       start |-> open.start, end |-> r, cmdline |-> open.cmdline,
                       exit |-> exit, timed |-> open.executed, output |-> open.output])
       \/ ~InCommand /\ NoteDisorder /\ UNCHANGED <<open, blocks>>
    /\ UNCHANGED pendingCmdline

Malformed == NoteDisorder /\ UNCHANGED <<open, pendingCmdline, blocks>>

Fed(mark, r) ==
    \/ mark.kind = "E" /\ CommandLine(mark.cmdline)
    \/ mark.kind = "A" /\ PromptStart(r)
    \/ mark.kind = "B" /\ CommandStart(r)
    \/ mark.kind = "C" /\ CommandExecuted(r)
    \/ mark.kind = "D" /\ CommandFinished(r, mark.exit)
    \/ mark.kind = "malformed" /\ Malformed

(* on_mark: a corrupted segmenter ignores every mark. *)
OnMark(mark, r) == IF corrupted THEN UNCHANGED segVars ELSE Fed(mark, r)

(* at_prompt *)
AtPrompt == ~corrupted /\ (InPrompt \/ (InCommand /\ ~open.executed))

(* Output without marks and keystrokes moved the cursor from first to      *)
(* last. *)
OnOutput(first, last) ==
    /\ IF AtPrompt /\ last > first
         THEN HandOver([kind |-> "background", confidence |-> "heuristic", start |-> first,
                        end |-> last, cmdline |-> None, exit |-> None, timed |-> FALSE,
                        output |-> None])
         ELSE UNCHANGED blocks
    /\ UNCHANGED <<open, pendingCmdline, disorder, corrupted, warnings>>

-----------------------------------------------------------------------------
Marks == [kind : {"A", "B", "C", "malformed"}]
         \cup [kind : {"D"}, exit : Optional(Exits)]
         \cup [kind : {"E"}, cmdline : {inputs + 1}]

Reachable(r) == r \in Rows /\ (RowsMayFall \/ r >= row)

FeedMark(mark, r) ==
    /\ inputs < MaxInputs /\ Reachable(r)
    /\ OnMark(mark, r) /\ row' = r /\ inputs' = inputs + 1

FeedOutput(first, last) ==
    /\ inputs < MaxInputs /\ Reachable(first) /\ last \in Rows
    /\ (RowsMayFall \/ last >= first)
    /\ OnOutput(first, last) /\ row' = last /\ inputs' = inputs + 1

Next == \/ \E mark \in Marks, r \in Rows : FeedMark(mark, r)
        \/ \E first, last \in Rows : FeedOutput(first, last)

Spec == Init /\ [][Next]_vars

-----------------------------------------------------------------------------
(* Types of the segmenter's state and of the blocks. *)
TypeOK ==
    /\ open \in Optional(Open) /\ pendingCmdline \in Optional(Nat)
    /\ disorder \in 0..CorruptLimit /\ corrupted \in BOOLEAN
    /\ blocks \in Seq(Block) /\ warnings \in Nat
    /\ row \in Nat /\ inputs \in Nat

(* The caller is told of corruption exactly once, at the limit (segment.rs *)
(* on Corrupted: "switch this session to heuristic segmentation and warn   *)
(* once"). *)
WarnedOnce ==
    /\ corrupted <=> disorder >= CorruptLimit
    /\ warnings = IF corrupted THEN 1 ELSE 0

IsMarked(i) == i \in DOMAIN blocks /\ blocks[i].confidence = "marked"

(* While the cursor does not go up, the blocks built from marks are        *)
(* ranges of rows that follow one another, and a command's output starts   *)
(* inside its block, whatever the order of the marks. *)
BlocksInOrder == RowsMayFall \/
    /\ \A i \in DOMAIN blocks : blocks[i].start <= blocks[i].end
    /\ \A i, j \in DOMAIN blocks :
           i < j /\ IsMarked(i) /\ IsMarked(j) => blocks[i].end <= blocks[j].start
    /\ \A i \in DOMAIN blocks : blocks[i].output # None =>
           blocks[i].start <= blocks[i].output /\ blocks[i].output <= blocks[i].end

(* A command line titles at most one block, and the titles come in the     *)
(* order the command lines came in. *)
CmdlinesInOrder ==
    \A i, j \in DOMAIN blocks :
        i < j /\ blocks[i].cmdline # None /\ blocks[j].cmdline # None
            => blocks[i].cmdline < blocks[j].cmdline

(* Blocks, titles and the warning keep the order of the session, whatever  *)
(* order the marks come in. *)
OrderKept == WarnedOnce /\ BlocksInOrder /\ CmdlinesInOrder

-----------------------------------------------------------------------------
(* What the documentation says and the code does not do. *)

(* Marks out of order, a D with no C, a second A mid-command, are counted. *)
DisorderCounted ==
    [][ /\ InCommand /\ open.executed /\ open' # None /\ open'.kind = "prompt"
            => disorder' = disorder + 1
        /\ InCommand /\ ~open.executed /\ open' = None => disorder' = disorder + 1 ]_vars

(* The lines of a block run from its first to its last. *)
BlocksAreRanges == \A i \in DOMAIN blocks : blocks[i].start <= blocks[i].end

(* A corrupted session falls back to heuristic segmentation: output that   *)
(* moves the cursor still ends up in some block. *)
FallsBack ==
    [][\A first, last \in Rows :
          corrupted /\ first < last /\ FeedOutput(first, last) => Len(blocks') > Len(blocks)]_vars
=============================================================================
