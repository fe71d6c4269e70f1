-------------------------- MODULE Segmenter_proofs --------------------------
(***************************************************************************)
(* Proofs about Segmenter for every limit of disorder, every set of exit   *)
(* statuses, and marks in any order; and, below, about PaneBlocks for any  *)
(* number of apps, commands, rows, bookmarks and clears.                   *)
(***************************************************************************)
EXTENDS Segmenter, PaneBlocks, FiniteSetTheorems, WellFoundedInduction, TLAPS

(* What is handed over goes to the end of the blocks. *)
LEMMA HandedOver ==
    ASSUME blocks \in Seq(Block), NEW b \in Block, HandOver(b)
    PROVE  /\ blocks' \in Seq(Block) /\ Len(blocks) \in Nat
           /\ DOMAIN blocks = 1..Len(blocks) /\ DOMAIN blocks' = 1..Len(blocks) + 1
           /\ \A i \in 1..Len(blocks) : blocks'[i] = blocks[i] /\ blocks[i] \in Block
           /\ blocks'[Len(blocks) + 1] = b
<1>1. blocks' = Append(blocks, b)
  BY DEF HandOver
<1> QED BY <1>1

(* The limit is at least one, and None is nothing else. *)
LEMMA Limits == /\ CorruptLimit \in Nat /\ CorruptLimit > 0 /\ RowsMayFall \in BOOLEAN
                /\ MaxRow \in Nat /\ None \notin Nat /\ None \notin Open
  BY SegmenterAssumption

-----------------------------------------------------------------------------
(***************************************************************************)
(* Types, and the one warning: while the marks are believed the disorder   *)
(* is below the limit.                                                     *)
(***************************************************************************)
TypeInv == TypeOK /\ WarnedOnce

(* A segmenter starts with nothing open and nothing believed wrong. *)
LEMMA InitType == Init => TypeInv
<1> SUFFICES ASSUME Init PROVE TypeInv
  OBVIOUS
<1>1. ~(0 >= CorruptLimit)
  BY Limits
<1>2. TypeOK
  <2>1. open \in Optional(Open) /\ pendingCmdline \in Optional(Nat)
    BY DEF Init, Optional
  <2>2. disorder \in 0..CorruptLimit /\ warnings \in Nat /\ row \in Nat /\ inputs \in Nat
    BY Limits DEF Init
  <2>3. corrupted \in BOOLEAN
    BY DEF Init
  <2>4. blocks \in Seq(Block)
    BY DEF Init
  <2> QED BY <2>1, <2>2, <2>3, <2>4 DEF TypeOK
<1>3. WarnedOnce
  BY <1>1 DEF Init, WarnedOnce
<1> QED BY <1>2, <1>3 DEF TypeInv

(* Every way a mark can change the counters. *)
LEMMA Disorder ==
    ASSUME TypeInv, ~corrupted, NoteDisorder \/ InOrder
    PROVE  /\ disorder' \in 0..CorruptLimit /\ corrupted' \in BOOLEAN /\ warnings' \in Nat
           /\ WarnedOnce'
<1>1. disorder \in Nat /\ disorder < CorruptLimit /\ warnings = 0
  BY Limits DEF TypeInv, TypeOK, WarnedOnce
<1>2. CASE InOrder
  BY <1>2 DEF InOrder, TypeInv, TypeOK, WarnedOnce
<1>3. CASE NoteDisorder /\ disorder + 1 >= CorruptLimit
  <2>1. disorder' = disorder + 1 /\ corrupted' = TRUE /\ warnings' = warnings + 1
    BY <1>3 DEF NoteDisorder
  <2>2. disorder' \in 0..CorruptLimit /\ disorder' >= CorruptLimit /\ warnings' = 1
    BY <1>1, <1>3, <2>1, Limits
  <2> QED BY <2>1, <2>2 DEF WarnedOnce
<1>4. CASE NoteDisorder /\ ~(disorder + 1 >= CorruptLimit)
  <2>1. disorder' = disorder + 1 /\ corrupted' = corrupted /\ warnings' = warnings
    BY <1>4 DEF NoteDisorder
  <2>2. disorder' \in 0..CorruptLimit /\ ~(disorder' >= CorruptLimit) /\ warnings' = 0
    BY <1>1, <1>4, <2>1, Limits
  <2>3. corrupted' \in BOOLEAN /\ ~corrupted'
    BY <2>1 DEF TypeInv, TypeOK
  <2> QED BY <2>2, <2>3 DEF WarnedOnce
<1> QED BY <1>2, <1>3, <1>4

(* A region opened is an open region. *)
LEMMA OpenedType ==
    ASSUME NEW kind \in {"prompt", "command"}, NEW r \in Nat, NEW cmdline \in Optional(Nat)
    PROVE  Opened(kind, r, cmdline) \in Open
  BY DEF Opened, Open, Optional

(* A region that gives way is a block. *)
LEMMA BlockOfType ==
    ASSUME NEW o \in Open, NEW end \in Nat
    PROVE  BlockOf(o, end) \in Block
  BY DEF BlockOf, Open, Block, Optional

(* The row above a row is not below it. *)
LEMMA AboveType == ASSUME NEW r \in Nat PROVE Above(r) \in Nat /\ Above(r) <= r
  BY DEF Above

(* A mark keeps the types. *)
LEMMA MarkType ==
    ASSUME TypeInv, ~corrupted, NEW mark \in Marks, NEW r \in Nat, Fed(mark, r)
    PROVE  /\ open' \in Optional(Open) /\ pendingCmdline' \in Optional(Nat)
           /\ blocks' \in Seq(Block) /\ (NoteDisorder \/ InOrder)
<1> USE DEF TypeInv
<1>0. /\ open = None \/ open \in Open
      /\ pendingCmdline \in Optional(Nat) /\ blocks \in Seq(Block) /\ inputs \in Nat /\ None \in Optional(Nat)
  BY DEF TypeOK, Optional
<1>1. \A o \in Open : /\ o.kind \in {"prompt", "command"} /\ o.start \in Nat
                      /\ o.cmdline \in Optional(Nat) /\ o.executed \in BOOLEAN
                      /\ o.output \in Optional(Nat)
  BY DEF Open
<1>2. CASE mark.kind = "E" /\ CommandLine(mark.cmdline)
  <2>1. mark.cmdline \in Nat
    BY <1>0, <1>2 DEF Marks
  <2>2. CASE InCommand
    BY <1>0, <1>1, <1>2, <2>1, <2>2 DEF CommandLine, InCommand, Open, Optional
  <2>3. CASE ~InCommand
    BY <1>0, <1>2, <2>1, <2>3 DEF CommandLine, TypeOK, Optional
  <2> QED BY <2>2, <2>3
<1>3. CASE PromptStart(r)
  <2>1. open' \in Open
    BY <1>3, <1>0, OpenedType DEF PromptStart
  <2>2. blocks' \in Seq(Block)
    <3>1. CASE open = None
      BY <1>0, <1>3, <3>1 DEF PromptStart
    <3>2. CASE open # None
      <4>1. HandOver(BlockOf(open, Above(r))) /\ BlockOf(open, Above(r)) \in Block
        BY <1>0, <1>3, <3>2, BlockOfType, AboveType DEF PromptStart
      <4> QED BY <1>0, <4>1, HandedOver
    <3> QED BY <3>1, <3>2
  <2> QED BY <1>3, <1>0, <2>1, <2>2 DEF PromptStart, Optional
<1>4. CASE CommandStart(r)
  <2>1. open' \in Open
    BY <1>4, <1>0, OpenedType DEF CommandStart
  <2>2. blocks' \in Seq(Block)
    <3>1. CASE ~InPrompt
      BY <1>0, <1>4, <3>1 DEF CommandStart
    <3>2. CASE InPrompt
      <4>1. HandOver(BlockOf(open, Above(r))) /\ BlockOf(open, Above(r)) \in Block
        BY <1>0, <1>4, <3>2, BlockOfType, AboveType DEF CommandStart, InPrompt
      <4> QED BY <1>0, <4>1, HandedOver
    <3> QED BY <3>1, <3>2
  <2> QED BY <1>4, <1>0, <2>1, <2>2 DEF CommandStart, Optional
<1>5. CASE CommandExecuted(r)
  <2>1. Opened("command", r, pendingCmdline) \in Open
    BY <1>0, OpenedType
  <2>2. \A o \in Open : [o EXCEPT !.executed = TRUE, !.output = r] \in Open
    BY DEF Open, Optional
  <2> QED BY <1>5, <1>0, <2>1, <2>2 DEF CommandExecuted, InCommand, Optional
<1>6. CASE mark.kind = "D" /\ CommandFinished(r, mark.exit)
  <2>1. mark.exit \in Optional(Exits)
    BY <1>6 DEF Marks
  <2>2. CASE InCommand /\ open' = None /\ InOrder
    <3>1. HandOver([kind |-> "command", confidence |-> "marked",
                       start |-> open.start, end |-> r, cmdline |-> open.cmdline,
                       exit |-> mark.exit, timed |-> open.executed, output |-> open.output])
      BY <1>6, <2>2 DEF CommandFinished
    <3>2. open \in Open
      BY <1>0, <2>2 DEF InCommand
    <3>3. [kind |-> "command", confidence |-> "marked", start |-> open.start, end |-> r,
           cmdline |-> open.cmdline, exit |-> mark.exit, timed |-> open.executed,
           output |-> open.output] \in Block
      BY <1>1, <2>1, <3>2 DEF Block
    <3> QED BY <1>0, <1>6, <2>2, <3>1, <3>3, HandedOver DEF CommandFinished, Optional
  <2>3. CASE ~InCommand
    BY <1>0, <1>6, <2>3 DEF CommandFinished, Optional
  <2> QED BY <1>6, <2>2, <2>3 DEF CommandFinished
<1>7. CASE Malformed
  BY <1>0, <1>7 DEF Malformed, Optional
<1> QED BY <1>2, <1>3, <1>4, <1>5, <1>6, <1>7 DEF Fed

(* Every input keeps the types and warns once. *)
LEMMA NextType == TypeInv /\ [Next]_vars => TypeInv'
<1> SUFFICES ASSUME TypeInv, [Next]_vars PROVE TypeInv'
  OBVIOUS
<1>0. /\ open \in Optional(Open) /\ pendingCmdline \in Optional(Nat) /\ blocks \in Seq(Block)
      /\ row \in Nat /\ inputs \in Nat
  BY DEF TypeInv, TypeOK
<1>r. \A x \in Rows : x \in Nat
  BY Limits DEF Rows
<1>1. ASSUME NEW mark \in Marks, NEW r \in Rows, FeedMark(mark, r) PROVE TypeInv'
  <2>1. row' \in Nat /\ inputs' \in Nat
    BY <1>0, <1>1, <1>r DEF FeedMark
  <2>2. CASE corrupted
    <3>1. UNCHANGED segVars
      BY <1>1, <2>2 DEF FeedMark, OnMark
    <3> QED BY <2>1, <3>1 DEF segVars, TypeInv, TypeOK, WarnedOnce
  <2>3. CASE ~corrupted
    <3>1. Fed(mark, r)
      BY <1>1, <2>3 DEF FeedMark, OnMark
    <3>2. /\ open' \in Optional(Open) /\ pendingCmdline' \in Optional(Nat)
          /\ blocks' \in Seq(Block) /\ (NoteDisorder \/ InOrder)
      BY <1>r, <2>3, <3>1, MarkType
    <3>3. /\ disorder' \in 0..CorruptLimit /\ corrupted' \in BOOLEAN /\ warnings' \in Nat
          /\ WarnedOnce'
      BY <2>3, <3>2, Disorder
    <3> QED BY <2>1, <3>2, <3>3 DEF TypeInv, TypeOK
  <2> QED BY <2>2, <2>3
<1>2. ASSUME NEW first \in Rows, NEW last \in Rows, FeedOutput(first, last) PROVE TypeInv'
  <2>1. row' \in Nat /\ inputs' \in Nat
    BY <1>0, <1>2, <1>r DEF FeedOutput
  <2>2. UNCHANGED <<open, pendingCmdline, disorder, corrupted, warnings>>
    BY <1>2 DEF FeedOutput, OnOutput
  <2>3. blocks' \in Seq(Block)
    <3>1. [kind |-> "background", confidence |-> "heuristic", start |-> first, end |-> last,
           cmdline |-> None, exit |-> None, timed |-> FALSE, output |-> None] \in Block
      BY <1>r DEF Block, Optional
    <3>2. CASE AtPrompt /\ last > first
      BY <1>0, <1>2, <3>1, <3>2, HandedOver DEF FeedOutput, OnOutput
    <3>3. CASE ~(AtPrompt /\ last > first)
      BY <1>0, <1>2, <3>3 DEF FeedOutput, OnOutput
    <3> QED BY <3>2, <3>3
  <2> QED BY <2>1, <2>2, <2>3 DEF TypeInv, TypeOK, WarnedOnce
<1>3. CASE UNCHANGED vars
  BY <1>3 DEF vars, segVars, TypeInv, TypeOK, WarnedOnce
<1> QED BY <1>1, <1>2, <1>3 DEF Next

(* The segmenter's state and its blocks keep their types. *)
THEOREM TypeCorrect == Spec => []TypeOK
<1>1. TypeInv => TypeOK
  BY DEF TypeInv
<1> QED BY <1>1, InitType, NextType, PTL DEF Spec

(* The caller is told of corruption once, at the limit and never before,   *)
(* whatever the marks. *)
THEOREM WarnedOnceHolds == Spec => []WarnedOnce
<1>1. TypeInv => WarnedOnce
  BY DEF TypeInv
<1> QED BY <1>1, InitType, NextType, PTL DEF Spec

(* Both together, as the later arguments use them. *)
THEOREM TypeInvariant == Spec => []TypeInv
  BY InitType, NextType, PTL DEF Spec

-----------------------------------------------------------------------------
(***************************************************************************)
(* Rows.  Every marked block ends where the open region starts or above,   *)
(* and where nothing is open, at the last row or above.                    *)
(***************************************************************************)
Fits(b) == /\ b.start <= b.end
           /\ b.output # None => b.start <= b.output /\ b.output <= b.end

UpTo(n) ==
    /\ \A i \in DOMAIN blocks :
          Fits(blocks[i]) /\ (blocks[i].confidence = "marked" => blocks[i].end <= n)
    /\ \A i, j \in DOMAIN blocks :
          i < j /\ blocks[i].confidence = "marked" /\ blocks[j].confidence = "marked"
              => blocks[i].end <= blocks[j].start

Base == IF open = None THEN row ELSE open.start

OpenFits == open # None =>
    /\ open.start <= row
    /\ open.output # None => open.start <= open.output /\ open.output <= row

RowInv == ~RowsMayFall => OpenFits /\ UpTo(Base)

(* The fields of a block. *)
LEMMA BlockParts == \A b \in Block : /\ b.start \in Nat /\ b.end \in Nat
                                     /\ b.output = None \/ b.output \in Nat
                                     /\ b.cmdline = None \/ b.cmdline \in Nat
  BY DEF Block, Optional

(* The fields of an open region. *)
LEMMA OpenParts == \A o \in Open : /\ o.kind \in {"prompt", "command"} /\ o.start \in Nat
                                   /\ o.output = None \/ o.output \in Nat
                                   /\ o.cmdline = None \/ o.cmdline \in Nat
  BY DEF Open, Optional

(* A block that starts where the others end keeps them in order. *)
LEMMA Extended ==
    ASSUME blocks \in Seq(Block), NEW n \in Nat, NEW m \in Nat, n <= m, UpTo(n),
           NEW b \in Block, HandOver(b), Fits(b),
           b.confidence = "marked" => n <= b.start /\ b.end <= m
    PROVE  UpTo(m)'
<1>1. /\ Len(blocks) \in Nat /\ DOMAIN blocks = 1..Len(blocks)
      /\ DOMAIN blocks' = 1..Len(blocks) + 1
      /\ \A i \in 1..Len(blocks) : blocks'[i] = blocks[i] /\ blocks[i] \in Block
      /\ blocks'[Len(blocks) + 1] = b
  BY HandedOver
<1>2. ASSUME NEW i \in DOMAIN blocks'
      PROVE  Fits(blocks'[i]) /\ (blocks'[i].confidence = "marked" => blocks'[i].end <= m)
  <2>1. CASE i = Len(blocks) + 1
    BY <1>1, <2>1
  <2>2. CASE i \in 1..Len(blocks)
    <3>1. blocks[i].end \in Nat
      BY <1>1, <2>2, BlockParts
    <3> QED BY <1>1, <2>2, <3>1 DEF UpTo
  <2> QED BY <1>1, <2>1, <2>2
<1>3. ASSUME NEW i \in DOMAIN blocks', NEW j \in DOMAIN blocks', i < j,
             blocks'[i].confidence = "marked", blocks'[j].confidence = "marked"
      PROVE  blocks'[i].end <= blocks'[j].start
  <2>1. i \in 1..Len(blocks)
    BY <1>1, <1>3
  <2>2. CASE j \in 1..Len(blocks)
    BY <1>1, <1>3, <2>1, <2>2 DEF UpTo
  <2>3. CASE j = Len(blocks) + 1
    <3>1. blocks[i].end \in Nat /\ b.start \in Nat /\ blocks[i].end <= n
      BY <1>1, <1>3, <2>1, BlockParts DEF UpTo
    <3> QED BY <1>1, <1>3, <2>1, <2>3, <3>1
  <2> QED BY <1>1, <2>2, <2>3
<1>4. \A x : Fits(x)' <=> Fits(x)
  BY DEF Fits
<1> QED BY <1>2, <1>3, <1>4 DEF UpTo, Fits

(* So does leaving them alone. *)
LEMMA Kept ==
    ASSUME blocks \in Seq(Block), NEW n \in Nat, NEW m \in Nat, n <= m, UpTo(n), blocks' = blocks
    PROVE  UpTo(m)'
<1>1. \A i \in DOMAIN blocks : blocks[i].end \in Nat
  BY BlockParts
<1>2. \A i \in DOMAIN blocks : blocks[i].confidence = "marked" => blocks[i].end <= m
  BY <1>1 DEF UpTo
<1> QED BY <1>2 DEF UpTo, Fits

(* What gives way to a prompt or a command. *)
LEMMA GivesWay ==
    ASSUME NEW o \in Open, NEW r \in Nat, o.start <= r
    PROVE  /\ Fits(BlockOf(o, Above(r))) /\ BlockOf(o, Above(r)) \in Block
           /\ BlockOf(o, Above(r)).start = o.start /\ BlockOf(o, Above(r)).end <= r
<1>1. Above(r) \in Nat /\ Above(r) <= r
  BY AboveType
<1>2. BlockOf(o, Above(r)) \in Block
  BY <1>1, BlockOfType
<1> QED BY <1>1, <1>2, OpenParts DEF BlockOf, Fits

(* No block, no order to keep. *)
LEMMA InitRow == Init => RowInv
<1> SUFFICES ASSUME Init PROVE UpTo(0) /\ open = None /\ row = 0
  BY DEF RowInv, OpenFits, Base
<1> QED BY DEF Init, UpTo

(* A prompt or a command opened at r, after whatever it closed. *)
LEMMA OpensAt ==
    ASSUME NEW r \in Nat, row' = r, UpTo(r)', open' \in Open, open'.start = r,
           open'.output = None \/ open'.output = r
    PROVE  OpenFits' /\ UpTo(Base)'
<1>1. open' # None => Base' = r
  BY DEF Base
<1>2. CASE open' = None
  BY <1>2 DEF OpenFits, Base
<1>3. CASE open' # None
  BY <1>1, <1>3 DEF OpenFits, UpTo
<1> QED BY <1>2, <1>3

(* Leaving the open region's rows and the blocks alone, further down. *)
LEMMA MovesDown ==
    ASSUME TypeOK, OpenFits, UpTo(Base), NEW r \in Nat, row <= r, row' = r,
           open' = open, blocks' = blocks
    PROVE  OpenFits' /\ UpTo(Base)'
<1>0. row \in Nat /\ blocks \in Seq(Block) /\ (open = None \/ open \in Open)
  BY DEF TypeOK, Optional
<1>1. OpenFits'
  BY <1>0, OpenParts DEF OpenFits
<1>2. Base \in Nat /\ Base' \in Nat /\ Base <= Base'
  BY <1>0, OpenParts DEF Base
<1>3. \A i \in DOMAIN blocks : blocks[i].confidence = "marked" => blocks[i].end <= Base'
  <2>1. \A i \in DOMAIN blocks : blocks[i].end \in Nat
    BY <1>0, BlockParts
  <2> QED BY <1>2, <2>1 DEF UpTo
<1>4. UpTo(Base)'
  BY <1>3 DEF UpTo, Fits
<1> QED BY <1>1, <1>4

(* What is closed ends above the row of the mark that closes it, so the    *)
(* next region may start there. *)
LEMMA ClosesAt ==
    ASSUME TypeOK, OpenFits, UpTo(Base), NEW r \in Nat, row <= r, NEW b \in Block,
           HandOver(b), Fits(b), b.confidence = "marked" => Base <= b.start /\ b.end <= r
    PROVE  UpTo(r)'
<1>0. row \in Nat /\ blocks \in Seq(Block) /\ (open = None \/ open \in Open)
  BY DEF TypeOK, Optional
<1>1. Base \in Nat /\ Base <= r
  BY <1>0, OpenParts DEF Base, OpenFits
<1>2. PICK n \in Nat : n = Base
  BY <1>1
<1>3. UpTo(n)
  BY <1>2
<1> QED BY <1>0, <1>1, <1>2, <1>3, Extended

(* Where nothing is closed, the open region is replaced by one further     *)
(* down. *)
LEMMA TakesPlace ==
    ASSUME TypeOK, OpenFits, UpTo(Base), NEW r \in Nat, row <= r, blocks' = blocks
    PROVE  UpTo(r)'
<1>0. row \in Nat /\ blocks \in Seq(Block) /\ (open = None \/ open \in Open)
  BY DEF TypeOK, Optional
<1>1. Base \in Nat /\ Base <= r
  BY <1>0, OpenParts DEF Base, OpenFits
<1>2. PICK n \in Nat : n = Base
  BY <1>1
<1>3. UpTo(n)
  BY <1>2
<1> QED BY <1>0, <1>1, <1>2, <1>3, Kept

(* A mark keeps the rows in order. *)
LEMMA MarkRow ==
    ASSUME TypeInv, OpenFits, UpTo(Base), ~corrupted, NEW mark \in Marks, NEW r \in Nat,
           row <= r, row' = r, Fed(mark, r)
    PROVE  OpenFits' /\ UpTo(Base)'
<1>0. /\ open = None \/ open \in Open
      /\ pendingCmdline \in Optional(Nat) /\ blocks \in Seq(Block) /\ inputs \in Nat /\ row \in Nat /\ TypeOK
  BY DEF TypeOK, TypeInv, Optional
<1>t. open' \in Optional(Open)
  BY MarkType
<1>f. \A k \in {"prompt", "command"}, c \in Optional(Nat) :
          /\ Opened(k, r, c).start = r /\ Opened(k, r, c).output = None
          /\ Opened(k, r, c) \in Open
  BY OpenedType DEF Opened
<1>g. open # None => /\ Fits(BlockOf(open, Above(r))) /\ BlockOf(open, Above(r)) \in Block
                     /\ BlockOf(open, Above(r)).start = Base
                     /\ BlockOf(open, Above(r)).end <= r
  <2> SUFFICES ASSUME open # None PROVE open \in Open /\ open.start <= r /\ Base = open.start
    BY GivesWay
  <2> QED BY <1>0, OpenParts DEF OpenFits, Base
<1>h. ASSUME open # None, HandOver(BlockOf(open, Above(r))) PROVE UpTo(r)'
  <2>1. Base \in Nat
    BY <1>0, OpenParts DEF Base
  <2> QED BY <1>0, <1>g, <1>h, <2>1, ClosesAt
<1>1. CASE mark.kind = "E" /\ CommandLine(mark.cmdline)
  <2>1. CASE InCommand
    <3>1. /\ open' = [open EXCEPT !.cmdline = mark.cmdline] /\ blocks' = blocks
          /\ open \in Open /\ open # None
      BY <1>0, <1>1, <2>1 DEF CommandLine, InCommand
    <3>2. open'.start = open.start /\ open'.output = open.output
      BY <3>1 DEF Open
    <3>3. open' # None
      <4>1. mark.cmdline \in Optional(Nat)
        BY <1>0, <1>1 DEF Marks, Optional
      <4>2. open' \in Open
        BY <3>1, <4>1 DEF Open
      <4> QED BY <4>2, Limits
    <3>4. OpenFits'
      BY <1>0, <3>1, <3>2, OpenParts DEF OpenFits
    <3>5. Base' = Base
      BY <3>1, <3>2, <3>3 DEF Base
    <3> QED BY <3>1, <3>4, <3>5 DEF UpTo, Fits
  <2>2. CASE ~InCommand
    BY <1>0, <1>1, <2>2, MovesDown DEF CommandLine
  <2> QED BY <2>1, <2>2
<1>2. CASE PromptStart(r)
  <2>1. open' = Opened("prompt", r, None)
    BY <1>2 DEF PromptStart
  <2>2. UpTo(r)'
    <3>1. CASE open = None
      BY <1>0, <1>2, <3>1, TakesPlace DEF PromptStart
    <3>2. CASE open # None
      BY <1>2, <1>h, <3>2 DEF PromptStart
    <3> QED BY <3>1, <3>2
  <2>3. open' \in Open /\ open'.start = r /\ open'.output = None
    BY <1>f, <2>1 DEF Optional
  <2> QED BY <2>2, <2>3, OpensAt
<1>3. CASE CommandStart(r)
  <2>1. open' = Opened("command", r, pendingCmdline)
    BY <1>3 DEF CommandStart
  <2>2. UpTo(r)'
    <3>1. CASE InPrompt
      BY <1>3, <1>h, <3>1 DEF CommandStart, InPrompt
    <3>2. CASE ~InPrompt
      BY <1>0, <1>3, <3>2, TakesPlace DEF CommandStart
    <3> QED BY <3>1, <3>2
  <2>3. open' \in Open /\ open'.start = r /\ open'.output = None
    BY <1>0, <1>f, <2>1
  <2> QED BY <2>2, <2>3, OpensAt
<1>4. CASE CommandExecuted(r)
  <2>0. blocks' = blocks
    BY <1>4 DEF CommandExecuted
  <2>1. CASE InCommand
    <3>1. open' = [open EXCEPT !.executed = TRUE, !.output = r] /\ open \in Open
      BY <1>0, <1>4, <2>1 DEF CommandExecuted, InCommand
    <3>2. open' \in Open /\ open'.start = open.start /\ open'.output = r
      BY <3>1 DEF Open, Optional
    <3>3. open # None /\ open' # None
      BY <3>1, <3>2, Limits
    <3>4. OpenFits'
      BY <1>0, <3>1, <3>2, <3>3, OpenParts DEF OpenFits
    <3>5. Base' = Base
      BY <3>2, <3>3 DEF Base
    <3> QED BY <2>0, <3>4, <3>5 DEF UpTo, Fits
  <2>2. CASE ~InCommand /\ corrupted'
    BY <1>0, <1>4, <2>2, <2>0, MovesDown DEF CommandExecuted
  <2>3. CASE ~InCommand /\ ~corrupted'
    <3>1. open' = [Opened("command", r, pendingCmdline) EXCEPT !.executed = TRUE, !.output = r]
      BY <1>4, <2>3 DEF CommandExecuted
    <3>2. Opened("command", r, pendingCmdline) \in Open
          /\ Opened("command", r, pendingCmdline).start = r
      BY <1>0, <1>f
    <3>3. open' \in Open /\ open'.start = r /\ open'.output = r
      BY <3>1, <3>2 DEF Open, Optional
    <3>4. UpTo(r)'
      BY <1>0, <2>0, TakesPlace
    <3> QED BY <3>3, <3>4, OpensAt
  <2> QED BY <2>1, <2>2, <2>3
<1>5. CASE mark.kind = "D" /\ CommandFinished(r, mark.exit)
  <2>1. CASE InCommand
    <3> DEFINE b == [kind |-> "command", confidence |-> "marked", start |-> open.start,
                     end |-> r, cmdline |-> open.cmdline, exit |-> mark.exit,
                     timed |-> open.executed, output |-> open.output]
    <3>1. open' = None /\ HandOver(b)
      BY <1>5, <2>1 DEF CommandFinished
    <3>2. open \in Open /\ open # None
      BY <1>0, <2>1 DEF InCommand
    <3>3. b \in Block
      <4>1. mark.exit \in Optional(Exits)
        BY <1>5 DEF Marks
      <4> QED BY <3>2, <4>1 DEF Block, Open
    <3>4. open.start \in Nat /\ Base = open.start /\ open.start <= r
      BY <1>0, <3>2, OpenParts DEF Base, OpenFits
    <3>5. Fits(b) /\ Base <= b.start /\ b.end <= r
      BY <1>0, <3>2, <3>4, OpenParts DEF OpenFits, Fits
    <3>6. UpTo(r)'
      BY <1>0, <3>1, <3>3, <3>5, ClosesAt
    <3>7. Base' = r /\ OpenFits'
      BY <3>1 DEF Base, OpenFits
    <3> QED BY <3>6, <3>7 DEF UpTo
  <2>2. CASE ~InCommand
    BY <1>0, <1>5, <2>2, MovesDown DEF CommandFinished
  <2> QED BY <2>1, <2>2
<1>6. CASE Malformed
  BY <1>0, <1>6, MovesDown DEF Malformed
<1> QED BY <1>1, <1>2, <1>3, <1>4, <1>5, <1>6 DEF Fed

(* Every input keeps the rows in order while the cursor does not go up. *)
LEMMA NextRow == TypeInv /\ RowInv /\ [Next]_vars => RowInv'
<1> SUFFICES ASSUME TypeInv, RowInv, [Next]_vars, ~RowsMayFall PROVE OpenFits' /\ UpTo(Base)'
  BY DEF RowInv
<1>0. /\ OpenFits /\ UpTo(Base) /\ TypeOK /\ row \in Nat /\ blocks \in Seq(Block)
      /\ open = None \/ open \in Open
  BY DEF RowInv, TypeInv, TypeOK, Optional
<1>r. \A x \in Rows : x \in Nat
  BY Limits DEF Rows
<1>1. ASSUME NEW mark \in Marks, NEW r \in Rows, FeedMark(mark, r)
      PROVE  OpenFits' /\ UpTo(Base)'
  <2>1. row <= r /\ row' = r
    BY <1>1 DEF FeedMark, Reachable
  <2>2. CASE corrupted
    <3>1. open' = open /\ blocks' = blocks
      BY <1>1, <2>2 DEF FeedMark, OnMark, segVars
    <3> QED BY <1>0, <1>r, <2>1, <3>1, MovesDown
  <2>3. CASE ~corrupted
    <3>1. Fed(mark, r)
      BY <1>1, <2>3 DEF FeedMark, OnMark
    <3> QED BY <1>0, <1>r, <2>1, <2>3, <3>1, MarkRow
  <2> QED BY <2>2, <2>3
<1>2. ASSUME NEW first \in Rows, NEW last \in Rows, FeedOutput(first, last)
      PROVE  OpenFits' /\ UpTo(Base)'
  <2>1. /\ first \in Nat /\ last \in Nat /\ row <= first /\ first <= last /\ row' = last
        /\ open' = open
    BY <1>2, <1>r DEF FeedOutput, OnOutput, Reachable
  <2>2. CASE ~(AtPrompt /\ last > first)
    <3>1. blocks' = blocks
      BY <1>2, <2>2 DEF FeedOutput, OnOutput
    <3> QED BY <1>0, <2>1, <3>1, MovesDown
  <2>3. CASE AtPrompt /\ last > first
    <3> DEFINE b == [kind |-> "background", confidence |-> "heuristic", start |-> first,
                     end |-> last, cmdline |-> None, exit |-> None, timed |-> FALSE,
                     output |-> None]
    <3>1. HandOver(b)
      BY <1>2, <2>3 DEF FeedOutput, OnOutput
    <3>2. b \in Block /\ Fits(b) /\ b.confidence # "marked"
      BY <2>1 DEF Block, Optional, Fits
    <3>3. open # None
      BY <2>3 DEF AtPrompt, InPrompt, InCommand
    <3>4. Base \in Nat /\ Base' = Base
      BY <1>0, <2>1, <3>3, OpenParts DEF Base
    <3>5. PICK n \in Nat : n = Base
      BY <3>4
    <3>6. UpTo(n)
      BY <1>0, <3>5
    <3>7. UpTo(n)'
      BY <1>0, <3>1, <3>2, <3>6, Extended
    <3>8. OpenFits'
      BY <1>0, <2>1, <3>3, OpenParts DEF OpenFits
    <3> QED BY <3>4, <3>5, <3>7, <3>8 DEF UpTo
  <2> QED BY <2>2, <2>3
<1>3. CASE UNCHANGED vars
  <2>1. open' = open /\ blocks' = blocks /\ row' = row
    BY <1>3 DEF vars, segVars
  <2> QED BY <1>0, <2>1 DEF OpenFits, UpTo, Base, Fits
<1> QED BY <1>1, <1>2, <1>3 DEF Next

(* Marks in any order give blocks whose rows follow one another, as long   *)
(* as the cursor does not go up. *)
THEOREM BlocksInOrderHolds == Spec => []BlocksInOrder
<1>1. RowInv => BlocksInOrder
  BY DEF RowInv, UpTo, Fits, BlocksInOrder, IsMarked
<1> QED BY <1>1, InitType, NextType, InitRow, NextRow, PTL DEF Spec

-----------------------------------------------------------------------------
(***************************************************************************)
(* Titles.  The command lines still ahead of the blocks (the one that      *)
(* waits, the open command's, the next to come) are newer than every title *)
(* already given, and an open command leaves none waiting, so that no two  *)
(* can overtake each other.                                                *)
(***************************************************************************)
Titled(n) == \A i \in DOMAIN blocks : blocks[i].cmdline # None => blocks[i].cmdline < n

Ahead(n) == n = inputs + 1 \/ n = pendingCmdline \/ (open # None /\ n = open.cmdline)

CmdInv ==
    /\ CmdlinesInOrder
    /\ InCommand => pendingCmdline = None
    /\ InPrompt => open.cmdline = None
    /\ \A n \in Nat : Ahead(n) => n <= inputs + 1 /\ Titled(n)

(* Nothing is titled before the first input. *)
LEMMA InitCmd == Init => CmdInv
<1> SUFFICES ASSUME Init PROVE CmdInv
  OBVIOUS
<1>1. open = None /\ pendingCmdline = None /\ inputs = 0 /\ blocks = <<>>
  BY DEF Init
<1>2. \A n \in Nat : Ahead(n) => n = 1
  BY <1>1, Limits DEF Ahead
<1>3. \A n \in Nat : Titled(n)
  BY <1>1 DEF Titled
<1>4. CmdlinesInOrder
  BY <1>1 DEF CmdlinesInOrder
<1> QED BY <1>1, <1>2, <1>3, <1>4 DEF CmdInv, InCommand, InPrompt

(* A block without a title leaves the titles as they were; one that takes  *)
(* a title still ahead leaves only later ones ahead. *)
LEMMA Entitled ==
    ASSUME TypeOK, CmdInv, inputs' = inputs + 1,
           \A n \in Nat : Ahead(n)' => n = inputs + 2 \/ Ahead(n),
           \/ blocks' = blocks
           \/ \E b \in Block : /\ HandOver(b)
                               /\ b.cmdline # None => /\ Ahead(b.cmdline)
                                                      /\ \A n \in Nat : Ahead(n)' => n = inputs + 2
    PROVE  CmdlinesInOrder' /\ \A n \in Nat : Ahead(n)' => n <= inputs' + 1 /\ Titled(n)'
<1>0. inputs \in Nat /\ blocks \in Seq(Block)
  BY DEF TypeOK
<1>1. \A i \in DOMAIN blocks : blocks[i].cmdline = None \/ blocks[i].cmdline \in Nat
  BY <1>0, BlockParts
<1>2. Titled(inputs + 1)
  BY <1>0 DEF CmdInv, Ahead
<1>3. \A n \in Nat : Ahead(n)' => n <= inputs' + 1
  BY <1>0 DEF CmdInv
<1>4. \A n \in Nat : Ahead(n)' => Titled(n)
  <2> SUFFICES ASSUME NEW n \in Nat, n = inputs + 2 PROVE Titled(n)
    BY DEF CmdInv
  <2> QED BY <1>0, <1>1, <1>2 DEF Titled
<1>5. CASE blocks' = blocks
  BY <1>3, <1>4, <1>5 DEF CmdInv, CmdlinesInOrder, Titled
<1>6. ASSUME NEW b \in Block, HandOver(b),
             b.cmdline # None => /\ Ahead(b.cmdline)
                                 /\ \A n \in Nat : Ahead(n)' => n = inputs + 2
      PROVE  CmdlinesInOrder' /\ \A n \in Nat : Ahead(n)' => Titled(n)'
  <2>1. /\ Len(blocks) \in Nat /\ DOMAIN blocks = 1..Len(blocks)
        /\ DOMAIN blocks' = 1..Len(blocks) + 1
        /\ \A i \in 1..Len(blocks) : blocks'[i] = blocks[i]
        /\ blocks'[Len(blocks) + 1] = b
    BY <1>0, <1>6, HandedOver
  <2>2. b.cmdline # None => b.cmdline \in Nat /\ b.cmdline <= inputs + 1 /\ Titled(b.cmdline)
    <3>1. b.cmdline = None \/ b.cmdline \in Nat
      BY BlockParts
    <3> QED BY <1>6, <3>1 DEF CmdInv
  <2>3. ASSUME NEW i \in DOMAIN blocks', NEW j \in DOMAIN blocks', i < j,
               blocks'[i].cmdline # None, blocks'[j].cmdline # None
        PROVE  blocks'[i].cmdline < blocks'[j].cmdline
    <3>1. i \in 1..Len(blocks)
      BY <2>1, <2>3
    <3>2. CASE j \in 1..Len(blocks)
      BY <2>1, <2>3, <3>1, <3>2 DEF CmdInv, CmdlinesInOrder
    <3>3. CASE j = Len(blocks) + 1
      BY <2>1, <2>2, <2>3, <3>1, <3>3 DEF Titled
    <3> QED BY <2>1, <3>2, <3>3
  <2>4. ASSUME NEW n \in Nat, Ahead(n)' PROVE Titled(n)'
    <3>1. \A i \in 1..Len(blocks) : blocks[i].cmdline # None => blocks[i].cmdline < n
      BY <1>4, <2>1, <2>4 DEF Titled
    <3>2. b.cmdline # None => b.cmdline < n
      BY <1>0, <1>6, <2>2, <2>4
    <3> QED BY <2>1, <3>1, <3>2 DEF Titled
  <2> QED BY <2>3, <2>4 DEF CmdlinesInOrder
<1> QED BY <1>3, <1>5, <1>6

(* What a closed region takes with it: a prompt no title, a command its    *)
(* own. *)
LEMMA TitleOf ==
    ASSUME TypeOK, CmdInv, open # None, NEW end \in Nat
    PROVE  /\ BlockOf(open, end) \in Block /\ open.kind \in {"prompt", "command"}
           /\ open.kind = "prompt" => BlockOf(open, end).cmdline = None
           /\ BlockOf(open, end).cmdline # None => Ahead(BlockOf(open, end).cmdline)
<1>1. open \in Open
  BY DEF TypeOK, Optional
<1> QED BY <1>1, BlockOfType, OpenParts DEF BlockOf, Ahead

(* A mark keeps the titles in order. *)
LEMMA MarkCmd ==
    ASSUME TypeInv, CmdInv, ~corrupted, NEW mark \in Marks, NEW r \in Nat,
           inputs' = inputs + 1, Fed(mark, r)
    PROVE  CmdInv'
<1>0. /\ open = None \/ open \in Open
      /\ pendingCmdline \in Optional(Nat) /\ blocks \in Seq(Block) /\ inputs \in Nat
      /\ TypeOK /\ Above(r) \in Nat
  BY AboveType DEF TypeOK, TypeInv, Optional
<1>f. \A k \in {"prompt", "command"}, c \in Optional(Nat) :
          /\ Opened(k, r, c).kind = k /\ Opened(k, r, c).cmdline = c
          /\ Opened(k, r, c) \in Open /\ Opened(k, r, c) # None
  BY OpenedType, Limits DEF Opened
<1>g. open' = open /\ pendingCmdline' = pendingCmdline
          => /\ \A n \in Nat : Ahead(n)' => n = inputs + 2 \/ Ahead(n)
             /\ (InCommand' => pendingCmdline' = None) /\ (InPrompt' => open'.cmdline = None)
  BY <1>0 DEF CmdInv, Ahead, InCommand, InPrompt
<1>1. CASE mark.kind = "E" /\ CommandLine(mark.cmdline)
  <2>0. mark.cmdline = inputs + 1 /\ blocks' = blocks
    BY <1>1 DEF Marks, CommandLine
  <2>1. CASE InCommand
    <3>1. /\ open' = [open EXCEPT !.cmdline = mark.cmdline] /\ open \in Open /\ open # None
          /\ pendingCmdline' = pendingCmdline /\ pendingCmdline = None
      BY <1>0, <1>1, <2>1 DEF CommandLine, InCommand, CmdInv
    <3>2. open'.kind = "command" /\ open'.cmdline = inputs + 1
      BY <2>0, <2>1, <3>1 DEF Open, InCommand
    <3>3. \A n \in Nat : Ahead(n)' => n = inputs + 2 \/ Ahead(n)
      BY <1>0, <3>1, <3>2, Limits DEF Ahead
    <3> QED BY <1>0, <2>0, <3>1, <3>2, <3>3, Entitled DEF CmdInv, InCommand, InPrompt
  <2>2. CASE ~InCommand
    <3>1. open' = open /\ pendingCmdline' = inputs + 1
      BY <1>1, <2>0, <2>2 DEF CommandLine
    <3>2. \A n \in Nat : Ahead(n)' => n = inputs + 2 \/ Ahead(n)
      BY <1>0, <3>1 DEF Ahead
    <3> QED BY <1>0, <2>0, <2>2, <3>1, <3>2, Entitled DEF CmdInv, InCommand, InPrompt
  <2> QED BY <2>1, <2>2
<1>2. CASE PromptStart(r)
  <2>1. /\ open' # None /\ open'.kind = "prompt" /\ open'.cmdline = None
        /\ pendingCmdline' = pendingCmdline
    BY <1>2, <1>f DEF PromptStart, Optional
  <2>2. \A n \in Nat : Ahead(n)' => n = inputs + 2 \/ n = pendingCmdline
    BY <1>0, <2>1, Limits DEF Ahead
  <2>3. \A n \in Nat : Ahead(n)' => n = inputs + 2 \/ Ahead(n)
    BY <2>2 DEF Ahead
  <2>4. CmdlinesInOrder' /\ \A n \in Nat : Ahead(n)' => n <= inputs' + 1 /\ Titled(n)'
    <3>1. CASE open = None
      BY <1>0, <1>2, <2>3, <3>1, Entitled DEF PromptStart
    <3>2. CASE open # None
      <4>1. HandOver(BlockOf(open, Above(r)))
        BY <1>2, <3>2 DEF PromptStart
      <4>2. BlockOf(open, Above(r)).cmdline # None => InCommand
        BY <1>0, <3>2, TitleOf DEF InCommand
      <4>3. BlockOf(open, Above(r)).cmdline # None => \A n \in Nat : Ahead(n)' => n = inputs + 2
        BY <2>2, <4>2, Limits DEF CmdInv
      <4> QED BY <1>0, <2>3, <3>2, <4>1, <4>3, TitleOf, Entitled
    <3> QED BY <3>1, <3>2
  <2> QED BY <2>1, <2>4 DEF CmdInv, InCommand, InPrompt
<1>3. CASE CommandStart(r)
  <2>1. /\ open' # None /\ open'.kind = "command" /\ open'.cmdline = pendingCmdline
        /\ pendingCmdline' = None
    BY <1>0, <1>3, <1>f DEF CommandStart
  <2>2. \A n \in Nat : Ahead(n)' => n = inputs + 2 \/ Ahead(n)
    BY <1>0, <2>1, Limits DEF Ahead
  <2>3. CmdlinesInOrder' /\ \A n \in Nat : Ahead(n)' => n <= inputs' + 1 /\ Titled(n)'
    <3>1. CASE InPrompt
      <4>1. HandOver(BlockOf(open, Above(r))) /\ open # None /\ open.kind = "prompt"
        BY <1>3, <3>1 DEF CommandStart, InPrompt
      <4>2. BlockOf(open, Above(r)) \in Block /\ BlockOf(open, Above(r)).cmdline = None
        BY <1>0, <4>1, TitleOf
      <4> QED BY <1>0, <2>2, <4>1, <4>2, Entitled
    <3>2. CASE ~InPrompt
      BY <1>0, <1>3, <2>2, <3>2, Entitled DEF CommandStart
    <3> QED BY <3>1, <3>2
  <2> QED BY <2>1, <2>3 DEF CmdInv, InCommand, InPrompt
<1>4. CASE CommandExecuted(r)
  <2>0. blocks' = blocks
    BY <1>4 DEF CommandExecuted
  <2>1. CASE InCommand
    <3>1. /\ open' = [open EXCEPT !.executed = TRUE, !.output = r] /\ open \in Open
          /\ open # None /\ pendingCmdline' = pendingCmdline /\ pendingCmdline = None
      BY <1>0, <1>4, <2>1 DEF CommandExecuted, InCommand, CmdInv
    <3>2. open'.kind = "command" /\ open'.cmdline = open.cmdline
      BY <2>1, <3>1 DEF Open, InCommand
    <3>3. \A n \in Nat : Ahead(n)' => n = inputs + 2 \/ Ahead(n)
      BY <1>0, <3>1, <3>2 DEF Ahead
    <3> QED BY <1>0, <2>0, <3>1, <3>2, <3>3, Entitled DEF CmdInv, InCommand, InPrompt
  <2>2. CASE ~InCommand /\ corrupted'
    <3>1. open' = open /\ pendingCmdline' = pendingCmdline
      BY <1>4, <2>2 DEF CommandExecuted
    <3> QED BY <1>0, <1>g, <2>0, <3>1, Entitled DEF CmdInv
  <2>3. CASE ~InCommand /\ ~corrupted'
    <3>1. /\ open' = [Opened("command", r, pendingCmdline) EXCEPT !.executed = TRUE, !.output = r]
          /\ pendingCmdline' = None
      BY <1>4, <2>3 DEF CommandExecuted
    <3>2. open'.kind = "command" /\ open'.cmdline = pendingCmdline
      BY <1>0, <1>f, <3>1 DEF Open
    <3>3. \A n \in Nat : Ahead(n)' => n = inputs + 2 \/ Ahead(n)
      BY <1>0, <3>1, <3>2, Limits DEF Ahead
    <3> QED BY <1>0, <2>0, <3>1, <3>2, <3>3, Entitled DEF CmdInv, InCommand, InPrompt
  <2> QED BY <2>1, <2>2, <2>3
<1>5. CASE mark.kind = "D" /\ CommandFinished(r, mark.exit)
  <2>1. CASE InCommand
    <3> DEFINE b == [kind |-> "command", confidence |-> "marked", start |-> open.start,
                     end |-> r, cmdline |-> open.cmdline, exit |-> mark.exit,
                     timed |-> open.executed, output |-> open.output]
    <3>1. /\ open' = None /\ HandOver(b) /\ pendingCmdline' = pendingCmdline
          /\ pendingCmdline = None
      BY <1>5, <2>1 DEF CommandFinished, CmdInv
    <3>2. open \in Open /\ open # None
      BY <1>0, <2>1 DEF InCommand
    <3>3. b \in Block
      <4>1. mark.exit \in Optional(Exits)
        BY <1>5 DEF Marks
      <4> QED BY <3>2, <4>1 DEF Block, Open
    <3>4. \A n \in Nat : Ahead(n)' => n = inputs + 2
      BY <1>0, <3>1, Limits DEF Ahead
    <3>5. Ahead(b.cmdline)
      BY <3>2 DEF Ahead
    <3>6. CmdlinesInOrder' /\ \A n \in Nat : Ahead(n)' => n <= inputs' + 1 /\ Titled(n)'
      <4> HIDE DEF b
      <4> QED BY <1>0, <3>1, <3>3, <3>4, <3>5, Entitled
    <3> QED BY <3>1, <3>6 DEF CmdInv, InCommand, InPrompt
  <2>2. CASE ~InCommand
    <3>1. open' = open /\ pendingCmdline' = pendingCmdline /\ blocks' = blocks
      BY <1>5, <2>2 DEF CommandFinished
    <3> QED BY <1>0, <1>g, <3>1, Entitled DEF CmdInv
  <2> QED BY <2>1, <2>2
<1>6. CASE Malformed
  <2>1. open' = open /\ pendingCmdline' = pendingCmdline /\ blocks' = blocks
    BY <1>6 DEF Malformed
  <2> QED BY <1>0, <1>g, <2>1, Entitled DEF CmdInv
<1> QED BY <1>1, <1>2, <1>3, <1>4, <1>5, <1>6 DEF Fed

(* Every input keeps the titles in order. *)
LEMMA NextCmd == TypeInv /\ CmdInv /\ [Next]_vars => CmdInv'
<1> SUFFICES ASSUME TypeInv, CmdInv, [Next]_vars PROVE CmdInv'
  OBVIOUS
<1>0. TypeOK /\ inputs \in Nat
  BY DEF TypeInv, TypeOK
<1>r. \A x \in Rows : x \in Nat
  BY Limits DEF Rows
<1>g. open' = open /\ pendingCmdline' = pendingCmdline /\ inputs' = inputs + 1
          => /\ \A n \in Nat : Ahead(n)' => n = inputs + 2 \/ Ahead(n)
             /\ (InCommand' => pendingCmdline' = None) /\ (InPrompt' => open'.cmdline = None)
  BY <1>0 DEF CmdInv, Ahead, InCommand, InPrompt
<1>1. ASSUME NEW mark \in Marks, NEW r \in Rows, FeedMark(mark, r) PROVE CmdInv'
  <2>1. inputs' = inputs + 1
    BY <1>1 DEF FeedMark
  <2>2. CASE corrupted
    <3>1. open' = open /\ pendingCmdline' = pendingCmdline /\ blocks' = blocks
      BY <1>1, <2>2 DEF FeedMark, OnMark, segVars
    <3> QED BY <1>0, <1>g, <2>1, <3>1, Entitled DEF CmdInv
  <2>3. CASE ~corrupted
    <3>1. Fed(mark, r)
      BY <1>1, <2>3 DEF FeedMark, OnMark
    <3> QED BY <1>r, <2>1, <2>3, <3>1, MarkCmd
  <2> QED BY <2>2, <2>3
<1>2. ASSUME NEW first \in Rows, NEW last \in Rows, FeedOutput(first, last) PROVE CmdInv'
  <2>1. open' = open /\ pendingCmdline' = pendingCmdline /\ inputs' = inputs + 1
    BY <1>2 DEF FeedOutput, OnOutput
  <2>2. blocks' = blocks \/ \E b \in Block : HandOver(b) /\ b.cmdline = None
    <3> DEFINE b == [kind |-> "background", confidence |-> "heuristic", start |-> first,
                     end |-> last, cmdline |-> None, exit |-> None, timed |-> FALSE,
                     output |-> None]
    <3>1. b \in Block /\ b.cmdline = None
      BY <1>r DEF Block, Optional
    <3>2. blocks' = blocks \/ HandOver(b)
      BY <1>2 DEF FeedOutput, OnOutput
    <3> QED BY <3>1, <3>2
  <2> QED BY <1>0, <1>g, <2>1, <2>2, Entitled DEF CmdInv
<1>3. CASE UNCHANGED vars
  BY <1>3 DEF vars, segVars, CmdInv, CmdlinesInOrder, InCommand, InPrompt, Ahead, Titled
<1> QED BY <1>1, <1>2, <1>3 DEF Next

(* However the marks are ordered, a command line titles at most one block, *)
(* and the titles come in the order the command lines came in. *)
THEOREM CmdlinesInOrderHolds == Spec => []CmdlinesInOrder
<1>1. CmdInv => CmdlinesInOrder
  BY DEF CmdInv
<1> QED BY <1>1, InitType, NextType, InitCmd, NextCmd, PTL DEF Spec

(* Whatever order the marks come in, the warning comes once, the marked     *)
(* blocks do not overlap and their titles come in order.                   *)
THEOREM OrderKeptHolds == Spec => []OrderKept
<1>1. WarnedOnce /\ BlocksInOrder /\ CmdlinesInOrder => OrderKept
  BY DEF OrderKept
<1> QED BY <1>1, WarnedOnceHolds, BlocksInOrderHolds, CmdlinesInOrderHolds, PTL

-----------------------------------------------------------------------------
(***************************************************************************)
(* PaneBlocks.  What the table and the session thread are.                 *)
(***************************************************************************)
Cap == ScreenRows + MaxHistory
Rowed == [of : 1..MaxRuns, start : 1..Cap, bookmarked : BOOLEAN]
Shown == [seq : 1..MaxRuns, of : 1..MaxRuns, start : 1..Cap, bookmarked : BOOLEAN]

(* The block b is the one of that number in the table.                     *)
IsStored(b) ==
    /\ b.seq \in DOMAIN stored
    /\ b.of = stored[b.seq].of /\ b.start = stored[b.seq].start

StoreInv ==
    /\ running \in 1..MaxRuns \cup {Nothing} /\ runs \in 0..MaxRuns
    /\ lines \in Seq(1..MaxRuns) /\ Len(lines) <= Cap /\ began \in 1..Cap
    /\ cut \in BOOLEAN /\ warned \in BOOLEAN
    /\ stored \in Seq(Rowed) /\ Len(stored) <= runs /\ (running # Nothing => Len(stored) < runs)
    /\ telling # Nothing => telling \in Told /\ (telling.seq # Nothing => IsStored(telling))

(* Until rows are dropped a block of the table is where its command is,    *)
(* and so is the command that runs.                                        *)
LineInv ==
    ~cut => /\ \A s \in DOMAIN stored :
                   stored[s].start <= Len(lines) /\ lines[stored[s].start] = stored[s].of
            /\ running # Nothing => began <= Len(lines) /\ lines[began] = running

(* What is on its way was true when it was sent.                           *)
IsNews(e) ==
    \/ e = BlocksDegraded /\ warned
    \/ \E b \in Told : e = BlockEvent(b) /\ (b.seq # Nothing => IsStored(b))
    \/ \E s \in DOMAIN stored, on \in BOOLEAN : e = BlockChanged(s, on)

WireInv(a) == wire[a] \in Seq(Events) /\ \A k \in DOMAIN wire[a] : IsNews(wire[a][k])

(* A pane that is closed is empty and waits for nothing; one that is open  *)
(* shows blocks of the table, in order.                                    *)
Panes == [open : BOOLEAN, blocks : Seq(Shown), degraded : BOOLEAN, phase : {"unknown", "running"},
          keyboard : {"editor", "grid"}, early : BOOLEAN]
InOrderOfRows(list) == \A i, j \in DOMAIN list : i < j => Before(list[i], list[j])

ListInv(a) ==
    /\ pane[a] \in Panes
    /\ \/ call[a] \in {Idle, Loading}
       \/ a \in Marking /\ \E s \in DOMAIN stored, on \in BOOLEAN : call[a] = Marked(s, on)
    /\ ~pane[a].open => pane[a] = Closed /\ call[a] = Idle
    /\ InOrderOfRows(pane[a].blocks)
    /\ \A i \in DOMAIN pane[a].blocks : IsStored(pane[a].blocks[i])

(* A block of the table is in the pane, or about to be announced, or on    *)
(* its way, unless the list is being loaded.                               *)
Listed(a, s) == \E i \in DOMAIN pane[a].blocks : pane[a].blocks[i].seq = s
Brings(e, s) == e.is = "block" /\ e.block.seq = s
FullInv(a) ==
    pane[a].open /\ call[a] # Loading =>
        \A s \in DOMAIN stored :
            \/ Listed(a, s) \/ (telling # Nothing /\ telling.seq = s)
            \/ \E k \in DOMAIN wire[a] : Brings(wire[a][k], s)

(* The label follows the warning.                                          *)
LabelInv(a) ==
    /\ pane[a].degraded => warned
    /\ warned /\ pane[a].early => pane[a].degraded \/ \E k \in DOMAIN wire[a] : wire[a][k] = BlocksDegraded

(* The bookmarks of the one app that sets any: the last change of a block  *)
(* on its way is what the table says, and without one the pane says it; a  *)
(* block that has not reached the pane has no bookmark.                    *)
Asked(a, s) == call[a].is = "marked" /\ call[a].seq = s
Changes(e, s) == e.is = "changed" /\ e.seq = s
AskedRight(a, s) == Asked(a, s) => call[a].on = stored[s].bookmarked
LastIsRight(a, s) ==
    \A k \in DOMAIN wire[a] :
        /\ ~Asked(a, s) /\ Changes(wire[a][k], s)
        /\ \A m \in DOMAIN wire[a] : Changes(wire[a][m], s) => m <= k
        => wire[a][k].on = stored[s].bookmarked
NewIsBare(a, s) == pane[a].open /\ call[a] # Loading /\ ~Listed(a, s) => ~stored[s].bookmarked
ShownIsRight(a, i) ==
    LET b == pane[a].blocks[i]
    IN  ~Asked(a, b.seq) /\ (\A k \in DOMAIN wire[a] : ~Changes(wire[a][k], b.seq))
            => b.bookmarked = stored[b.seq].bookmarked

MarksInv(a) == Marking \subseteq {a} =>
    /\ \A s \in DOMAIN stored : AskedRight(a, s) /\ LastIsRight(a, s) /\ NewIsBare(a, s)
    /\ \A i \in DOMAIN pane[a].blocks : ShownIsRight(a, i)

AppInv(a) == WireInv(a) /\ ListInv(a) /\ FullInv(a) /\ LabelInv(a) /\ MarksInv(a)

PanesInv ==
    /\ StoreInv /\ LineInv
    /\ DOMAIN wire = Apps /\ DOMAIN pane = Apps /\ DOMAIN call = Apps
    /\ \A a \in Apps : AppInv(a)

(* The bounds are numbers, and Nothing is none.                            *)
LEMMA PaneLimits == /\ Marking \subseteq Apps /\ Nothing \notin Nat /\ Nothing \notin Told /\ MaxRuns \in Nat
                    /\ ScreenRows \in Nat /\ ScreenRows > 0 /\ MaxHistory \in Nat /\ Cap \in Nat /\ Cap > 0
  BY PaneBlocksAssumption DEF Cap

(* No block comes before itself, and no two before each other.             *)
LEMMA BeforeIrreflexive == \A b, c \in Shown : ~Before(b, b) /\ (Before(b, c) => ~Before(c, b))
<1>1. \A b \in Shown : b.start \in Nat /\ b.seq \in Nat
  BY PaneLimits DEF Shown
<1> QED BY <1>1 DEF Before
-----------------------------------------------------------------------------
(* Sorting.                                                                *)

(* The blocks of a list have numbers of their own.                         *)
Distinct(list) == \A i, j \in DOMAIN list : list[i].seq = list[j].seq => i = j

(* Of two blocks with numbers of their own one comes before the other.     *)
LEMMA BeforeIsOrder ==
    /\ \A b, c \in Shown : b.seq # c.seq => (Before(b, c) <=> ~Before(c, b))
    /\ \A b, c, d \in Shown : ~Before(c, b) /\ ~Before(d, c) => ~Before(d, b)
<1>1. \A b \in Shown : b.start \in Nat /\ b.seq \in Nat
  BY PaneLimits DEF Shown
<1> QED BY <1>1 DEF Before

(* A set of numbers that is not empty has a least one.                     *)
LEMMA LeastOf ==
    ASSUME NEW S \in SUBSET Nat, S # {}
    PROVE  \E n \in S : \A m \in S : n <= m
<1>1. PICK n \in S : \A m \in S : ~(<<m, n>> \in OpToRel(<, Nat))
  BY NatLessThanWellFounded, WFMin
<1>2. \A m \in S : ~(m < n)
  BY <1>1 DEF OpToRel
<1> QED
  BY <1>2

(* A list in order with one more block can be put in order.                *)
LEMMA OrderGrows ==
    ASSUME NEW n \in Nat, NEW f \in [1..n + 1 -> Shown],
           NEW p \in Bijection(1..n, 1..n),
           \A i, j \in 1..n : i < j => ~Before(f[p[j]], f[p[i]])
    PROVE  \E q \in Bijection(1..n + 1, 1..n + 1) :
               \A i, j \in 1..n + 1 : i < j => ~Before(f[q[j]], f[q[i]])
<1> DEFINE x == f[n + 1]
           After == {i \in 1..n + 1 : i = n + 1 \/ Before(x, f[p[i]])}
<1>1. PICK k \in After : \A m \in After : k <= m
  <2>1. After \in SUBSET Nat /\ n + 1 \in After
    OBVIOUS
  <2> HIDE DEF After
  <2> QED BY <2>1, LeastOf
<1>2. k \in 1..n + 1 /\ (k # n + 1 => Before(x, f[p[k]])) /\ \A i \in 1..n : i < k => ~Before(x, f[p[i]])
  BY <1>1
<1> HIDE DEF After
<1>3. /\ p \in [1..n -> 1..n]
      /\ \A i, j \in 1..n : p[i] = p[j] => i = j
      /\ \A t \in 1..n : \E s \in 1..n : p[s] = t
  BY DEF Bijection, Injection, Surjection, IsInjective
<1> DEFINE q == [i \in 1..n + 1 |-> IF i < k THEN p[i] ELSE IF i = k THEN n + 1 ELSE p[i - 1]]
<1>q. /\ \A i \in 1..n + 1 : i < k => i \in 1..n /\ q[i] = p[i]
      /\ q[k] = n + 1
      /\ \A i \in 1..n + 1 : i > k => i - 1 \in 1..n /\ q[i] = p[i - 1]
  BY <1>2
<1>4. q \in [1..n + 1 -> 1..n + 1]
  <2>1. ASSUME NEW i \in 1..n + 1 PROVE q[i] \in 1..n + 1
    <3> HIDE DEF q
    <3>1. \A m \in 1..n : p[m] \in 1..n + 1
      BY <1>3
    <3>2. i < k \/ i = k \/ i > k
      BY <1>2
    <3> QED BY <1>q, <3>1, <3>2, <1>2
  <2>2. q = [i \in 1..n + 1 |-> q[i]]
    OBVIOUS
  <2> HIDE DEF q
  <2> QED BY <2>1, <2>2
<1> HIDE DEF q
<1>5. \A i, j \in 1..n + 1 : q[i] = q[j] => i = j
  <2>0. ASSUME NEW i \in 1..n + 1, NEW j \in 1..n + 1, i < j, q[i] = q[j]
        PROVE  FALSE
    <3>1. CASE j < k
      BY <2>0, <3>1, <1>2, <1>3, <1>q
    <3>2. CASE i < k /\ j = k
      BY <2>0, <3>2, <1>2, <1>3, <1>q
    <3>3. CASE i < k /\ j > k
      <4>1. i \in 1..n /\ j - 1 \in 1..n /\ i # j - 1 /\ p[i] = p[j - 1]
        BY <2>0, <3>3, <1>2, <1>q
      <4> QED BY <4>1, <1>3
    <3>4. CASE i = k
      BY <2>0, <3>4, <1>2, <1>3, <1>q
    <3>5. CASE i > k
      <4>1. i - 1 \in 1..n /\ j - 1 \in 1..n /\ i - 1 # j - 1 /\ p[i - 1] = p[j - 1]
        BY <2>0, <3>5, <1>2, <1>q
      <4> QED BY <4>1, <1>3
    <3> QED BY <2>0, <3>1, <3>2, <3>3, <3>4, <3>5, <1>2
  <2>1. \A i, j \in 1..n + 1 : i = j \/ i < j \/ j < i
    OBVIOUS
  <2> QED BY <2>0, <2>1
<1>6. \A t \in 1..n + 1 : \E s \in 1..n + 1 : q[s] = t
  <2> TAKE t \in 1..n + 1
  <2>1. CASE t = n + 1
    BY <1>2, <1>q, <2>1
  <2>2. CASE t # n + 1
    <3>1. PICK s \in 1..n : p[s] = t
      BY <1>3, <2>2
    <3>2. CASE s < k
      BY <3>1, <3>2, <1>q
    <3>3. CASE ~(s < k)
      <4>1. s + 1 \in 1..n + 1 /\ q[s + 1] = p[s]
        BY <3>1, <3>3, <1>2, <1>q
      <4> QED BY <4>1, <3>1
    <3> QED BY <3>2, <3>3
  <2> QED BY <2>1, <2>2
<1>7. q \in Bijection(1..n + 1, 1..n + 1)
  BY <1>4, <1>5, <1>6 DEF Bijection, Injection, Surjection, IsInjective
<1>8. \A i, j \in 1..n + 1 : i < j => ~Before(f[q[j]], f[q[i]])
  <2> SUFFICES ASSUME NEW i \in 1..n + 1, NEW j \in 1..n + 1, i < j
               PROVE  ~Before(f[q[j]], f[q[i]])
    OBVIOUS
  <2>0. x \in Shown /\ \A m \in 1..n : f[p[m]] \in Shown
    BY <1>3
  <2>1. CASE i < k /\ j < k
    BY <1>q, <1>2, <2>1
  <2>2. CASE i < k /\ j = k
    <3>1. f[q[j]] = x /\ f[q[i]] = f[p[i]] /\ i \in 1..n
      BY <1>q, <1>2, <2>2
    <3> QED BY <3>1, <1>2, <2>2
  <2>3. CASE i < k /\ j > k
    <3>1. q[i] = p[i] /\ q[j] = p[j - 1] /\ i \in 1..n /\ j - 1 \in 1..n /\ i < j - 1
      BY <1>q, <1>2, <2>3
    <3> QED BY <3>1
  <2>4. CASE i = k
    <3>1. k \in 1..n /\ j - 1 \in 1..n /\ k <= j - 1 /\ q[j] = p[j - 1] /\ f[q[i]] = x
      BY <1>q, <1>2, <2>4
    <3>2. Before(x, f[p[k]])
      BY <1>q, <1>2, <3>1
    <3>3. ~Before(f[p[j - 1]], f[p[k]])
      <4>1. CASE k = j - 1
        BY <4>1, <2>0, <3>1, BeforeIrreflexive
      <4>2. CASE k < j - 1
        BY <4>2, <3>1
      <4> QED BY <4>1, <4>2, <3>1
    <3>4. ~Before(f[p[k]], x)
      BY <2>0, <3>1, <3>2, BeforeIrreflexive
    <3>5. ~Before(f[p[j - 1]], x)
      BY <2>0, <3>1, <3>3, <3>4, BeforeIsOrder
    <3> QED BY <3>1, <3>5
  <2>5. CASE i > k
    <3>1. q[i] = p[i - 1] /\ q[j] = p[j - 1] /\ i - 1 \in 1..n /\ j - 1 \in 1..n /\ i - 1 < j - 1
      BY <1>q, <1>2, <2>5
    <3> QED BY <3>1
  <2>6. i \in Nat /\ j \in Nat /\ k \in Nat
    BY <1>q, <1>2
  <2> QED BY <2>1, <2>2, <2>3, <2>4, <2>5, <2>6
<1> QED BY <1>7, <1>8

(* Every list of blocks can be put in order.                               *)
LEMMA OrderExists ==
    ASSUME NEW n \in Nat, NEW f \in [1..n -> Shown]
    PROVE  \E p \in Bijection(1..n, 1..n) : \A i, j \in 1..n : i < j => ~Before(f[p[j]], f[p[i]])
<1> DEFINE Can(m, g) == \E p \in Bijection(1..m, 1..m) : \A i, j \in 1..m : i < j => ~Before(g[p[j]], g[p[i]])
           Bad == {m \in Nat : \E g \in [1..m -> Shown] : ~Can(m, g)}
<1>1. ASSUME Bad # {} PROVE FALSE
  <2>1. PICK m \in Bad : \A l \in Bad : m <= l
    <3>1. Bad \in SUBSET Nat
      OBVIOUS
    <3> HIDE DEF Bad
    <3> QED BY <3>1, <1>1, LeastOf
  <2>2. PICK g \in [1..m -> Shown] : ~Can(m, g)
    OBVIOUS
  <2>3. CASE m = 0
    <3>1. 1..m = {}
      BY <2>3
    <3>2. [i \in {} |-> i] \in Bijection({}, {})
      BY DEF Bijection, Injection, Surjection, IsInjective
    <3> QED BY <2>2, <3>1, <3>2
  <2>4. CASE m # 0
    <3>1. m - 1 \in Nat /\ m \in Nat
      BY <2>4
    <3>2. m - 1 \notin Bad
      <4>1. m - 1 \in Bad => m <= m - 1
        BY <2>1
      <4> QED BY <4>1, <3>1
    <3> DEFINE h == [i \in 1..m - 1 |-> g[i]]
    <3>3. h \in [1..m - 1 -> Shown]
      BY <3>1
    <3>4. Can(m - 1, h)
      BY <3>1, <3>2, <3>3
    <3>5. PICK p \in Bijection(1..m - 1, 1..m - 1) : \A i, j \in 1..m - 1 : i < j => ~Before(h[p[j]], h[p[i]])
      BY <3>4
    <3>6. p \in [1..m - 1 -> 1..m - 1]
      BY <3>5 DEF Bijection, Injection
    <3>7. \A i, j \in 1..m - 1 : i < j => ~Before(g[p[j]], g[p[i]])
      BY <3>1, <3>5, <3>6
    <3>8. m - 1 + 1 = m
      BY <3>1
    <3>9. g \in [1..(m - 1) + 1 -> Shown]
      BY <3>8
    <3> QED BY <3>1, <3>5, <3>7, <3>8, <3>9, <2>2, OrderGrows
  <2> QED BY <2>3, <2>4
<1> QED BY <1>1

(* A list that is sorted has the same blocks, in order.                    *)
LEMMA SortedList ==
    ASSUME NEW list \in Seq(Shown)
    PROVE  /\ Sorted(list) \in Seq(Shown) /\ Len(Sorted(list)) = Len(list)
           /\ \A i \in DOMAIN Sorted(list) : \E j \in DOMAIN list : Sorted(list)[i] = list[j]
           /\ \A j \in DOMAIN list : \E i \in DOMAIN Sorted(list) : Sorted(list)[i] = list[j]
           /\ Distinct(list) => InOrderOfRows(Sorted(list))
<1> DEFINE n == Len(list)
           order == CHOOSE p \in Bijection(DOMAIN list, DOMAIN list) : IsOrder(list, p)
<1>1. n \in Nat /\ DOMAIN list = 1..n /\ list \in [1..n -> Shown]
  OBVIOUS
<1>2. \E p \in Bijection(1..n, 1..n) : IsOrder(list, p)
  <2> HIDE DEF n
  <2> QED BY <1>1, OrderExists DEF IsOrder
<1>3. order \in Bijection(1..n, 1..n) /\ IsOrder(list, order)
  BY <1>1, <1>2
<1> HIDE DEF order
<1>4. /\ order \in [1..n -> 1..n]
      /\ \A i, j \in 1..n : order[i] = order[j] => i = j
      /\ \A t \in 1..n : \E s \in 1..n : order[s] = t
  BY <1>3 DEF Bijection, Injection, Surjection, IsInjective
<1>5. Sorted(list) = [i \in 1..n |-> list[order[i]]]
  BY <1>1 DEF Sorted, order
<1>6. Sorted(list) \in [1..n -> Shown]
  BY <1>1, <1>4, <1>5
<1>7. Sorted(list) \in Seq(Shown) /\ Len(Sorted(list)) = n /\ DOMAIN Sorted(list) = 1..n
  BY <1>1, <1>6
<1>8. Distinct(list) => InOrderOfRows(Sorted(list))
  <2> SUFFICES ASSUME Distinct(list), NEW i \in 1..n, NEW j \in 1..n, i < j
               PROVE  Before(Sorted(list)[i], Sorted(list)[j])
    BY <1>7 DEF InOrderOfRows
  <2>1. ~Before(list[order[j]], list[order[i]])
    BY <1>1, <1>3 DEF IsOrder
  <2>2. list[order[i]] \in Shown /\ list[order[j]] \in Shown /\ order[i] # order[j]
    BY <1>1, <1>4
  <2>3. list[order[i]].seq # list[order[j]].seq
    BY <2>2, <1>1, <1>4 DEF Distinct
  <2> QED BY <2>1, <2>2, <2>3, <1>5, BeforeIsOrder
<1>9. \A i \in 1..n : \E j \in 1..n : Sorted(list)[i] = list[j]
  BY <1>4, <1>5
<1>10. \A j \in 1..n : \E i \in 1..n : Sorted(list)[i] = list[j]
  BY <1>4, <1>5
<1> QED BY <1>1, <1>7, <1>8, <1>9, <1>10
-----------------------------------------------------------------------------
(* The session thread: the table, the rows and what was announced.         *)

(* The table only grows, a warning stays.                                  *)
Grows ==
    /\ DOMAIN stored \subseteq DOMAIN stored'
    /\ \A s \in DOMAIN stored : stored'[s].of = stored[s].of /\ stored'[s].start = stored[s].start
    /\ warned => warned'

(* What was in the table, and what was true to say, is so still.           *)
LEMMA NewsStays ==
    ASSUME Grows
    PROVE  /\ \A b : IsStored(b) => IsStored(b)'
           /\ \A e : IsNews(e) => IsNews(e)'
<1>1. ASSUME NEW b, IsStored(b) PROVE IsStored(b)'
  BY <1>1 DEF IsStored, Grows
<1>2. ASSUME NEW e, IsNews(e) PROVE IsNews(e)'
  <2>1. CASE e = BlocksDegraded /\ warned
    BY <2>1 DEF IsNews, Grows
  <2>2. CASE \E b \in Told : e = BlockEvent(b) /\ (b.seq # Nothing => IsStored(b))
    BY <2>2, <1>1 DEF IsNews
  <2>3. CASE \E s \in DOMAIN stored, on \in BOOLEAN : e = BlockChanged(s, on)
    BY <2>3 DEF IsNews, Grows
  <2> QED BY <1>2, <2>1, <2>2, <2>3 DEF IsNews
<1> QED BY <1>1, <1>2

(* A row more, and the oldest gone when there are too many.                *)
LEMMA LastRowsOf ==
    ASSUME NEW S, NEW rows \in Seq(S), NEW n \in Nat, n > 0
    PROVE  /\ LastRows(rows, n) \in Seq(S) /\ Len(LastRows(rows, n)) <= n
           /\ Len(rows) <= n => LastRows(rows, n) = rows
           /\ rows # <<>> => Len(LastRows(rows, n)) > 0
<1>1. CASE Len(rows) <= n
  <2>1. SubSeq(rows, 1, Len(rows)) = rows /\ Len(rows) \in Nat /\ (rows # <<>> => Len(rows) > 0)
    OBVIOUS
  <2>2. LastRows(rows, n) = rows
    <3>1. ~(Len(rows) > n)
      BY <1>1, <2>1
    <3>2. LastRows(rows, n) = SubSeq(rows, 1, Len(rows))
      BY <3>1 DEF LastRows
    <3> QED BY <2>1, <3>2
  <2> QED BY <1>1, <2>1, <2>2
<1>2. CASE Len(rows) > n
  <2> DEFINE m == Len(rows) - n + 1
  <2>1. m \in 1..Len(rows) /\ LastRows(rows, n) = SubSeq(rows, m, Len(rows))
    BY <1>2 DEF LastRows
  <2>2. SubSeq(rows, m, Len(rows)) \in Seq(S) /\ Len(SubSeq(rows, m, Len(rows))) = n
    <3>1. Len(rows) \in Nat /\ m \in Nat /\ Len(rows) - m + 1 = n
      BY <1>2
    <3>2. \A i \in m..Len(rows) : rows[i] \in S
      <4>1. \A i \in 1..Len(rows) : rows[i] \in S
        OBVIOUS
      <4>2. m..Len(rows) \subseteq 1..Len(rows)
        BY <3>1, <2>1
      <4> HIDE DEF m
      <4> QED BY <4>1, <4>2
    <3> HIDE DEF m
    <3> QED BY <2>1, <3>1, <3>2
  <2>3. ~(Len(rows) <= n) /\ n <= n
    BY <1>2
  <2> HIDE DEF m
  <2> QED BY <2>1, <2>2, <2>3
<1>3. Len(rows) \in Nat
  OBVIOUS
<1> QED BY <1>1, <1>2, <1>3

(* A command begins on the last row, and moves no other until one is full. *)
LEMMA BeginsStore ==
    ASSUME StoreInv, LineInv, Begins, UNCHANGED storeVars
    PROVE  StoreInv' /\ LineInv' /\ Grows
<1> DEFINE more == Append(lines, runs + 1)
<1>1. /\ runs + 1 \in 1..MaxRuns /\ lines \in Seq(1..MaxRuns) /\ Len(lines) <= Cap /\ Cap \in Nat /\ Cap > 0
      /\ lines' = LastRows(more, Cap) /\ began' = Len(lines')
  BY PaneLimits DEF StoreInv, Begins, Cap
<1>2. more \in Seq(1..MaxRuns) /\ more # <<>> /\ Len(more) = Len(lines) + 1
      /\ (\A r \in 1..Len(lines) : more[r] = lines[r]) /\ more[Len(more)] = runs + 1
  BY <1>1
<1> HIDE DEF more
<1>3. lines' \in Seq(1..MaxRuns) /\ Len(lines') <= Cap /\ began' \in 1..Cap
  BY <1>1, <1>2, LastRowsOf
<1>4. running' \in 1..MaxRuns \cup {Nothing} /\ runs' \in 0..MaxRuns /\ Len(stored) < runs' /\ cut' \in BOOLEAN
  BY <1>1, PaneLimits DEF StoreInv, Begins
<1>5. StoreInv'
  BY <1>3, <1>4 DEF StoreInv, storeVars, IsStored
<1>6. LineInv'
  <2> SUFFICES ASSUME ~cut' PROVE LineInv'
    BY DEF LineInv
  <2>1. ~cut /\ Len(lines) # Cap
    BY DEF Begins, Cap
  <2>2. Len(lines) \in Nat /\ Len(more) <= Cap
    BY <1>1, <1>2, <2>1
  <2>3. lines' = more
    BY <1>1, <1>2, <2>2, LastRowsOf
  <2>4. \A s \in DOMAIN stored : stored[s].start \in Nat /\ stored[s].start > 0
    <3>1. \A s \in DOMAIN stored : stored[s] \in Rowed
      BY DEF StoreInv
    <3> QED BY <3>1, PaneLimits DEF Rowed
  <2>5. running' = runs + 1 /\ stored' = stored
    BY DEF Begins, storeVars
  <2> QED BY <1>1, <1>2, <2>1, <2>2, <2>3, <2>4, <2>5 DEF LineInv
<1>7. Grows
  BY DEF Grows, storeVars
<1> QED BY <1>5, <1>6, <1>7

(* A command that ends is put into the table, or the store fails.          *)
LEMMA EndsStore ==
    ASSUME StoreInv, LineInv, NEW works \in BOOLEAN, CommandEnds(works)
    PROVE  /\ StoreInv' /\ LineInv' /\ Grows
           /\ \A s \in DOMAIN stored' \ DOMAIN stored : telling' # Nothing /\ telling'.seq = s /\ ~stored'[s].bookmarked
           /\ \A s \in DOMAIN stored : stored'[s] = stored[s]
<1>0. /\ running \in 1..MaxRuns /\ running # Nothing /\ running' = Nothing /\ telling = Nothing
      /\ UNCHANGED <<runs, lines, began, cut>>
      /\ Len(stored) < runs /\ runs \in 0..MaxRuns /\ stored \in Seq(Rowed) /\ began \in 1..Cap
  BY DEF CommandEnds, StoreInv
<1>1. CASE warned
  <2>1. UNCHANGED storeVars
    BY <1>1 DEF CommandEnds
  <2>2. StoreInv'
    BY <1>0, <2>1 DEF StoreInv, storeVars, IsStored
  <2>3. LineInv'
    BY <1>0, <2>1 DEF LineInv, storeVars
  <2> QED BY <1>0, <2>1, <2>2, <2>3 DEF Grows, storeVars
<1>2. CASE ~warned /\ works
  <2> DEFINE new == [of |-> running, start |-> began, bookmarked |-> FALSE]
             n == Len(stored) + 1
  <2>1. stored' = Append(stored, new) /\ telling' = ShownBlock(n, running, began, FALSE) /\ warned' = warned
    BY <1>2 DEF CommandEnds, AppendBlock
  <2>2. new \in Rowed
    BY <1>0 DEF Rowed
  <2>3. /\ stored' \in Seq(Rowed) /\ Len(stored') = n /\ n \in 1..MaxRuns /\ n <= runs
        /\ DOMAIN stored' = DOMAIN stored \cup {n} /\ n \notin DOMAIN stored
        /\ \A s \in DOMAIN stored : stored'[s] = stored[s]
        /\ stored'[n] = new
    BY <1>0, <2>1, <2>2, PaneLimits
  <2> HIDE DEF n
  <2>4. telling' \in Told /\ IsStored(telling)' /\ telling' # Nothing
    <3>1. telling' \in Told
      BY <1>0, <2>1, <2>3 DEF Told, ShownBlock, Cap
    <3>2. telling'.seq = n /\ telling'.of = running /\ telling'.start = began
      BY <2>1 DEF ShownBlock
    <3>3. IsStored(telling)'
      BY <3>2, <2>3 DEF IsStored
    <3>4. telling' # Nothing
      BY <3>1, PaneLimits
    <3> QED BY <3>1, <3>3, <3>4
  <2>5. StoreInv'
    BY <1>0, <1>2, <2>1, <2>3, <2>4 DEF StoreInv
  <2>6. LineInv'
    <3> SUFFICES ASSUME ~cut PROVE LineInv'
      BY <1>0 DEF LineInv
    <3>1. began <= Len(lines) /\ lines[began] = running
      BY <1>0 DEF LineInv
    <3>2. \A s \in DOMAIN stored' : stored'[s].start <= Len(lines) /\ lines[stored'[s].start] = stored'[s].of
      BY <3>1, <2>3 DEF LineInv
    <3> QED BY <1>0, <3>2 DEF LineInv
  <2>7. Grows
    BY <2>1, <2>3 DEF Grows
  <2>8. telling'.seq = n /\ ~stored'[n].bookmarked
    BY <2>1, <2>3 DEF ShownBlock
  <2> QED BY <2>3, <2>4, <2>5, <2>6, <2>7, <2>8
<1>3. CASE ~warned /\ ~works
  <2>1. stored' = stored /\ telling' = ShownBlock(Nothing, running, began, FALSE) /\ warned' = warned
    BY <1>3 DEF CommandEnds
  <2>2. telling' \in Told /\ telling'.seq = Nothing
    BY <1>0, <2>1 DEF Told, ShownBlock, Cap
  <2>3. StoreInv'
    BY <1>0, <2>1, <2>2 DEF StoreInv, IsStored
  <2>4. LineInv'
    BY <1>0, <2>1 DEF LineInv
  <2> QED BY <2>1, <2>3, <2>4 DEF Grows
<1> QED BY <1>1, <1>2, <1>3

(* The broadcast, and the warning.                                         *)
LEMMA TellStore ==
    ASSUME StoreInv, LineInv, TellBlock \/ FindsCorrupted
    PROVE  /\ StoreInv' /\ LineInv' /\ Grows /\ stored' = stored
<1>0. UNCHANGED <<shellVars, stored>> /\ (telling' = telling \/ telling' = Nothing) /\ (warned' = warned \/ warned' = TRUE)
  BY DEF TellBlock, FindsCorrupted
<1>1. StoreInv'
  BY <1>0 DEF StoreInv, shellVars, IsStored
<1>2. LineInv'
  BY <1>0 DEF LineInv, shellVars
<1> QED BY <1>0, <1>1, <1>2 DEF Grows, StoreInv

(* Clearing drops rows, and says so, or there were none to drop.           *)
LEMMA ClearStore ==
    ASSUME StoreInv, LineInv, NEW a \in Apps, ClearScrollback(a)
    PROVE  StoreInv' /\ LineInv' /\ Grows /\ stored' = stored
<1>0. /\ UNCHANGED <<running, runs, began, storeVars>> /\ lines' = LastRows(lines, ScreenRows)
      /\ cut' = (cut \/ Len(lines) > ScreenRows)
  BY DEF ClearScrollback
<1>1. lines \in Seq(1..MaxRuns) /\ ScreenRows \in Nat /\ ScreenRows > 0 /\ MaxHistory \in Nat /\ cut' \in BOOLEAN
  BY <1>0, PaneLimits DEF StoreInv
<1>2. lines' \in Seq(1..MaxRuns) /\ Len(lines') <= Cap
  <2>1. lines' \in Seq(1..MaxRuns) /\ Len(lines') <= ScreenRows
    BY <1>0, <1>1, LastRowsOf
  <2> QED BY <2>1, <1>1 DEF Cap
<1>3. StoreInv'
  BY <1>0, <1>1, <1>2 DEF StoreInv, storeVars, IsStored
<1>4. LineInv'
  <2> SUFFICES ASSUME ~cut' PROVE LineInv'
    BY DEF LineInv
  <2>1. ~cut /\ ~(Len(lines) > ScreenRows)
    BY <1>0
  <2>3. Len(lines) \in Nat
    BY <1>1
  <2>2. lines' = lines
    BY <1>0, <1>1, <2>1, <2>3, LastRowsOf
  <2> QED BY <1>0, <2>1, <2>2 DEF LineInv, storeVars
<1> QED BY <1>0, <1>3, <1>4 DEF Grows, storeVars

(* A bookmark is set in its row alone.                                     *)
LEMMA BookmarkStore ==
    ASSUME StoreInv, LineInv, NEW s \in DOMAIN stored, NEW on \in BOOLEAN,
           stored' = SetBlockBookmark(s, on), UNCHANGED <<shellVars, telling, warned>>
    PROVE  /\ StoreInv' /\ LineInv' /\ Grows
           /\ DOMAIN stored' = DOMAIN stored /\ stored'[s].bookmarked = on
           /\ \A r \in DOMAIN stored \ {s} : stored'[r] = stored[r]
<1>1. stored \in Seq(Rowed) /\ stored' = [stored EXCEPT ![s].bookmarked = on]
  BY DEF StoreInv, SetBlockBookmark
<1>2. /\ DOMAIN stored' = DOMAIN stored
      /\ \A r \in DOMAIN stored \ {s} : stored'[r] = stored[r]
      /\ stored'[s] = [stored[s] EXCEPT !.bookmarked = on]
  BY <1>1
<1>3. stored[s] \in Rowed
  BY <1>1
<1>4. stored'[s] \in Rowed /\ stored'[s].of = stored[s].of /\ stored'[s].start = stored[s].start
      /\ stored'[s].bookmarked = on
  BY <1>2, <1>3 DEF Rowed
<1>5. stored' \in Seq(Rowed) /\ Len(stored') = Len(stored)
  <2>1. DOMAIN stored = 1..Len(stored) /\ Len(stored) \in Nat
    BY <1>1
  <2>2. stored' \in [1..Len(stored) -> Rowed]
    <3>1. \A r \in 1..Len(stored) : stored'[r] \in Rowed
      BY <1>1, <1>2, <1>4, <2>1
    <3>2. stored' = [r \in 1..Len(stored) |-> stored'[r]]
      BY <1>1, <2>1
    <3> HIDE DEF Rowed
    <3> QED BY <3>1, <3>2
  <2> QED BY <2>1, <2>2
<1>6. Grows
  BY <1>2, <1>4 DEF Grows
<1>7. StoreInv'
  <2>1. telling # Nothing => telling \in Told /\ (telling.seq # Nothing => IsStored(telling)')
    <3>1. IsStored(telling) => IsStored(telling)'
      BY <1>6 DEF Grows, IsStored
    <3> QED BY <3>1 DEF StoreInv
  <2> QED BY <1>5, <2>1 DEF StoreInv, shellVars, IsStored
<1>8. LineInv'
  <2>1. UNCHANGED <<running, lines, began, cut>>
    BY DEF shellVars
  <2>2. \A r \in DOMAIN stored' : stored'[r].start = stored[r].start /\ stored'[r].of = stored[r].of
    BY <1>2, <1>4
  <2> QED BY <1>2, <2>1, <2>2 DEF LineInv
<1> QED BY <1>2, <1>4, <1>6, <1>7, <1>8
-----------------------------------------------------------------------------
(* The lists of the panes.                                                 *)

(* A row of the table has its number and its parts.                        *)
LEMMA StoredParts ==
    ASSUME StoreInv
    PROVE  \A s \in DOMAIN stored :
               /\ s \in 1..MaxRuns /\ s \in Nat /\ stored[s].of \in 1..MaxRuns
               /\ stored[s].start \in 1..Cap /\ stored[s].bookmarked \in BOOLEAN
<1>1. \A s \in DOMAIN stored : s \in 1..MaxRuns /\ s \in Nat
  BY PaneLimits DEF StoreInv
<1>2. \A s \in DOMAIN stored : stored[s] \in Rowed
  BY DEF StoreInv
<1> QED BY <1>1, <1>2 DEF Rowed

(* Blocks of the table that are in order have numbers of their own.        *)
LEMMA OwnNumbers ==
    ASSUME NEW list \in Seq(Shown), InOrderOfRows(list), \A i \in DOMAIN list : IsStored(list[i])
    PROVE  Distinct(list)
<1> SUFFICES ASSUME NEW i \in DOMAIN list, NEW j \in DOMAIN list, list[i].seq = list[j].seq, i # j
             PROVE  FALSE
  BY DEF Distinct
<1>1. list[i] \in Shown /\ list[j] \in Shown /\ list[i].start = list[j].start
  BY DEF IsStored
<1>2. ~Before(list[i], list[j]) /\ ~Before(list[j], list[i])
  <2>1. list[i].seq \in Nat /\ list[i].start \in Nat
    BY <1>1, PaneLimits DEF Shown
  <2> QED BY <1>1, <2>1 DEF Before
<1>3. i \in Nat /\ j \in Nat
  OBVIOUS
<1> QED BY <1>2, <1>3 DEF InOrderOfRows

(* The list the daemon answers with: every row of the table, in order.     *)
LEMMA ReplacedList ==
    ASSUME StoreInv
    PROVE  /\ Replaced \in Seq(Shown) /\ InOrderOfRows(Replaced)
           /\ \A i \in DOMAIN Replaced :
                  IsStored(Replaced[i]) /\ Replaced[i].bookmarked = stored[Replaced[i].seq].bookmarked
           /\ \A s \in DOMAIN stored : \E i \in DOMAIN Replaced : Replaced[i].seq = s
<1>1. DOMAIN stored = 1..Len(stored) /\ Len(stored) \in Nat
  BY DEF StoreInv
<1>2. \A s \in DOMAIN stored : StoredBlocks[s] = ShownBlock(s, stored[s].of, stored[s].start, stored[s].bookmarked)
  BY DEF StoredBlocks
<1>3. \A s \in DOMAIN stored : StoredBlocks[s] \in Shown
  <2> TAKE s \in DOMAIN stored
  <2>1. s \in 1..MaxRuns /\ stored[s].of \in 1..MaxRuns /\ stored[s].start \in 1..Cap /\ stored[s].bookmarked \in BOOLEAN
    BY StoredParts
  <2>2. ShownBlock(s, stored[s].of, stored[s].start, stored[s].bookmarked) \in Shown
    BY <2>1 DEF ShownBlock, Shown
  <2> QED BY <1>2, <2>2
<1>4. StoredBlocks \in Seq(Shown) /\ DOMAIN StoredBlocks = DOMAIN stored
  <2>1. StoredBlocks = [s \in 1..Len(stored) |-> StoredBlocks[s]]
    BY <1>1 DEF StoredBlocks
  <2>2. StoredBlocks \in [1..Len(stored) -> Shown]
    BY <1>1, <1>3, <2>1
  <2> QED BY <1>1, <2>2
<1>5. \A s \in DOMAIN stored :
          /\ StoredBlocks[s].seq = s /\ IsStored(StoredBlocks[s])
          /\ StoredBlocks[s].bookmarked = stored[StoredBlocks[s].seq].bookmarked
  <2> TAKE s \in DOMAIN stored
  <2>1. StoredBlocks[s] = [seq |-> s, of |-> stored[s].of, start |-> stored[s].start, bookmarked |-> stored[s].bookmarked]
    BY <1>2 DEF ShownBlock
  <2>2. /\ StoredBlocks[s].seq = s /\ StoredBlocks[s].of = stored[s].of
        /\ StoredBlocks[s].start = stored[s].start /\ StoredBlocks[s].bookmarked = stored[s].bookmarked
    BY <2>1
  <2> QED BY <2>2 DEF IsStored
<1>6. Distinct(StoredBlocks)
  BY <1>4, <1>5 DEF Distinct
<1>7. /\ Replaced \in Seq(Shown) /\ InOrderOfRows(Replaced)
      /\ \A i \in DOMAIN Replaced : \E j \in DOMAIN StoredBlocks : Replaced[i] = StoredBlocks[j]
      /\ \A j \in DOMAIN StoredBlocks : \E i \in DOMAIN Replaced : Replaced[i] = StoredBlocks[j]
  BY <1>4, <1>6, SortedList DEF Replaced
<1>8. \A i \in DOMAIN Replaced :
          IsStored(Replaced[i]) /\ Replaced[i].bookmarked = stored[Replaced[i].seq].bookmarked
  BY <1>4, <1>5, <1>7
<1>9. \A s \in DOMAIN stored : \E i \in DOMAIN Replaced : Replaced[i].seq = s
  BY <1>4, <1>5, <1>7
<1> QED BY <1>7, <1>8, <1>9

(* A block that is announced is in the list once.                          *)
LEMMA AppendedList ==
    ASSUME NEW list \in Seq(Shown), InOrderOfRows(list), \A i \in DOMAIN list : IsStored(list[i]),
           NEW b \in Shown, IsStored(b)
    PROVE  /\ Appended(list, b) \in Seq(Shown) /\ InOrderOfRows(Appended(list, b))
           /\ \A i \in DOMAIN Appended(list, b) : IsStored(Appended(list, b)[i])
           /\ \A i \in DOMAIN list : \E j \in DOMAIN Appended(list, b) : Appended(list, b)[j] = list[i]
           /\ \E j \in DOMAIN Appended(list, b) : Appended(list, b)[j].seq = b.seq
<1>1. CASE \E i \in DOMAIN list : list[i].seq = b.seq
  BY <1>1 DEF Appended
<1>2. CASE ~ \E i \in DOMAIN list : list[i].seq = b.seq
  <2> DEFINE more == Append(list, b)
  <2>1. /\ more \in Seq(Shown) /\ DOMAIN list = 1..Len(list) /\ Len(list) \in Nat
        /\ DOMAIN more = 1..Len(list) + 1
        /\ \A i \in 1..Len(list) : more[i] = list[i]
        /\ more[Len(list) + 1] = b
    OBVIOUS
  <2>2. Appended(list, b) = Sorted(more)
    BY <1>2 DEF Appended
  <2> HIDE DEF more
  <2>3. \A i \in DOMAIN more : i \in DOMAIN list \/ i = Len(list) + 1
    BY <2>1
  <2>4. Distinct(more)
    <3> SUFFICES ASSUME NEW i \in DOMAIN more, NEW j \in DOMAIN more, more[i].seq = more[j].seq PROVE i = j
      BY DEF Distinct
    <3>1. CASE i \in DOMAIN list /\ j \in DOMAIN list
      <4>1. Distinct(list)
        BY OwnNumbers
      <4> QED BY <3>1, <4>1, <2>1 DEF Distinct
    <3>2. CASE i \in DOMAIN list /\ j = Len(list) + 1
      BY <3>2, <2>1, <1>2
    <3>3. CASE i = Len(list) + 1 /\ j \in DOMAIN list
      BY <3>3, <2>1, <1>2
    <3> QED BY <2>3, <3>1, <3>2, <3>3
  <2>5. \A i \in DOMAIN more : IsStored(more[i])
    BY <2>1, <2>3
  <2>6. DOMAIN list \subseteq DOMAIN more /\ Len(list) + 1 \in DOMAIN more
    BY <2>1
  <2>7. /\ Sorted(more) \in Seq(Shown) /\ InOrderOfRows(Sorted(more))
        /\ \A i \in DOMAIN Sorted(more) : \E j \in DOMAIN more : Sorted(more)[i] = more[j]
        /\ \A j \in DOMAIN more : \E i \in DOMAIN Sorted(more) : Sorted(more)[i] = more[j]
    BY <2>1, <2>4, SortedList
  <2>8. \A i \in DOMAIN Sorted(more) : IsStored(Sorted(more)[i])
    BY <2>5, <2>7
  <2>9. \A i \in DOMAIN list : \E j \in DOMAIN Sorted(more) : Sorted(more)[j] = list[i]
    BY <2>1, <2>6, <2>7
  <2>10. \E j \in DOMAIN Sorted(more) : Sorted(more)[j].seq = b.seq
    BY <2>1, <2>6, <2>7
  <2> QED BY <2>2, <2>7, <2>8, <2>9, <2>10
<1> QED BY <1>1, <1>2

(* What is in the list then was there, or is the block.                    *)
LEMMA AppendedFrom ==
    ASSUME NEW list \in Seq(Shown), NEW b \in Shown, NEW j \in DOMAIN Appended(list, b)
    PROVE  \/ \E i \in DOMAIN list : Appended(list, b)[j] = list[i]
           \/ Appended(list, b)[j] = b /\ \A i \in DOMAIN list : list[i].seq # b.seq
<1>1. CASE \E i \in DOMAIN list : list[i].seq = b.seq
  BY <1>1 DEF Appended
<1>2. CASE ~ \E i \in DOMAIN list : list[i].seq = b.seq
  <2>1. PICK more : more = Append(list, b)
    OBVIOUS
  <2>2. Appended(list, b) = Sorted(more) /\ more \in Seq(Shown)
    BY <1>2, <2>1 DEF Appended
  <2>3. PICK k \in DOMAIN more : Sorted(more)[j] = more[k]
    BY <2>2, SortedList
  <2>4. CASE k \in DOMAIN list
    BY <2>1, <2>2, <2>3, <2>4
  <2>5. CASE k = Len(list) + 1
    BY <1>2, <2>1, <2>2, <2>3, <2>5
  <2>6. k \in DOMAIN list \/ k = Len(list) + 1
    BY <2>1
  <2> QED BY <2>4, <2>5, <2>6
<1> QED BY <1>1, <1>2

(* A bookmark changes no order and no other block.                         *)
LEMMA BookmarkedList ==
    ASSUME NEW list \in Seq(Shown), InOrderOfRows(list), \A i \in DOMAIN list : IsStored(list[i]),
           NEW s, NEW on \in BOOLEAN
    PROVE  /\ WithBookmark(list, s, on) \in Seq(Shown) /\ InOrderOfRows(WithBookmark(list, s, on))
           /\ DOMAIN WithBookmark(list, s, on) = DOMAIN list
           /\ \A i \in DOMAIN list :
                  /\ WithBookmark(list, s, on)[i].seq = list[i].seq
                  /\ IsStored(WithBookmark(list, s, on)[i])
                  /\ WithBookmark(list, s, on)[i].bookmarked = IF list[i].seq = s THEN on ELSE list[i].bookmarked
<1> DEFINE new == WithBookmark(list, s, on)
<1>1. DOMAIN list = 1..Len(list) /\ Len(list) \in Nat /\ \A i \in DOMAIN list : list[i] \in Shown
  OBVIOUS
<1>2. DOMAIN new = DOMAIN list /\ new = [i \in 1..Len(list) |-> new[i]]
  BY <1>1 DEF WithBookmark
<1>3. ASSUME NEW i \in DOMAIN list
      PROVE  /\ new[i] \in Shown /\ new[i].seq = list[i].seq /\ new[i].of = list[i].of /\ new[i].start = list[i].start
             /\ new[i].bookmarked = IF list[i].seq = s THEN on ELSE list[i].bookmarked
  <2>1. new[i] = IF list[i].seq = s THEN [list[i] EXCEPT !.bookmarked = on] ELSE list[i]
    BY DEF WithBookmark
  <2>2. list[i] \in Shown
    BY <1>1
  <2> HIDE DEF new
  <2> QED BY <2>1, <2>2 DEF Shown
<1>4. new \in Seq(Shown)
  <2>1. new \in [1..Len(list) -> Shown]
    BY <1>1, <1>2, <1>3
  <2> QED BY <1>1, <2>1
<1>5. InOrderOfRows(new)
  <2> SUFFICES ASSUME NEW i \in DOMAIN list, NEW j \in DOMAIN list, i < j PROVE Before(new[i], new[j])
    BY <1>2 DEF InOrderOfRows
  <2>1. Before(list[i], list[j])
    BY DEF InOrderOfRows
  <2>2. /\ new[i].seq = list[i].seq /\ new[i].start = list[i].start
        /\ new[j].seq = list[j].seq /\ new[j].start = list[j].start
    BY <1>3
  <2> HIDE DEF new
  <2> QED BY <2>1, <2>2 DEF Before
<1>6. \A i \in DOMAIN list : IsStored(new[i])
  BY <1>3 DEF IsStored
<1> QED BY <1>2, <1>3, <1>4, <1>5, <1>6

(* What comes after the first.                                             *)
LEMMA TailOf ==
    ASSUME NEW S, NEW w \in Seq(S), w # <<>>
    PROVE  /\ Tail(w) \in Seq(S) /\ Head(w) = w[1] /\ 1 \in DOMAIN w /\ DOMAIN w \subseteq Nat
           /\ \A k \in DOMAIN Tail(w) : k + 1 \in DOMAIN w /\ Tail(w)[k] = w[k + 1] /\ k \in Nat
           /\ \A k \in DOMAIN w : k = 1 \/ (k - 1 \in DOMAIN Tail(w) /\ Tail(w)[k - 1] = w[k])
<1>1. Len(w) \in Nat /\ Len(w) > 0 /\ DOMAIN w = 1..Len(w) /\ Len(Tail(w)) = Len(w) - 1 /\ Tail(w) \in Seq(S)
  OBVIOUS
<1>2. DOMAIN Tail(w) = 1..Len(w) - 1
  BY <1>1
<1>3. \A k \in 1..Len(w) - 1 : Tail(w)[k] = w[k + 1]
  BY <1>1
<1> QED BY <1>1, <1>2, <1>3

(* What is sent comes after all the rest.                                  *)
LEMMA AppendOf ==
    ASSUME NEW S, NEW w \in Seq(S), NEW e \in S
    PROVE  /\ Append(w, e) \in Seq(S) /\ Len(w) + 1 \in DOMAIN Append(w, e) /\ Append(w, e)[Len(w) + 1] = e
           /\ \A k \in DOMAIN w : k \in DOMAIN Append(w, e) /\ Append(w, e)[k] = w[k] /\ k < Len(w) + 1
           /\ \A k \in DOMAIN Append(w, e) : k \in DOMAIN w \/ k = Len(w) + 1
           /\ Len(w) \in Nat /\ DOMAIN Append(w, e) \subseteq Nat
<1>1. DOMAIN Append(w, e) = 1..Len(w) + 1 /\ DOMAIN w = 1..Len(w) /\ Len(w) \in Nat
  OBVIOUS
<1> QED BY <1>1
-----------------------------------------------------------------------------
(* One step, seen by one app.                                              *)

(* News that is sent, or heard, leaves only news on the way.               *)
LEMMA WireStays ==
    ASSUME NEW c \in Apps, WireInv(c), Grows,
           \/ wire'[c] = wire[c]
           \/ \E e \in Events : IsNews(e)' /\ wire'[c] = Append(wire[c], e)
           \/ wire[c] # <<>> /\ wire'[c] = Tail(wire[c])
    PROVE  WireInv(c)'
<1>0. wire[c] \in Seq(Events) /\ \A k \in DOMAIN wire[c] : IsNews(wire[c][k])
  BY DEF WireInv
<1>1. \A e : (\E k \in DOMAIN wire[c] : wire[c][k] = e) => IsNews(e)'
  BY <1>0, NewsStays
<1>2. ASSUME wire'[c] \in Seq(Events), \A e : (\E k \in DOMAIN wire'[c] : wire'[c][k] = e) => IsNews(e)'
      PROVE  WireInv(c)'
  BY <1>2 DEF WireInv
<1>3. CASE wire'[c] = wire[c]
  BY <1>0, <1>1, <1>2, <1>3
<1>4. CASE \E e \in Events : IsNews(e)' /\ wire'[c] = Append(wire[c], e)
  <2>1. PICK e \in Events : IsNews(e)' /\ wire'[c] = Append(wire[c], e)
    BY <1>4
  <2>2. /\ wire'[c] \in Seq(Events) /\ wire'[c][Len(wire[c]) + 1] = e
        /\ \A k \in DOMAIN wire[c] : wire'[c][k] = wire[c][k]
        /\ \A k \in DOMAIN wire'[c] : k \in DOMAIN wire[c] \/ k = Len(wire[c]) + 1
    BY <1>0, <2>1, AppendOf
  <2>3. ASSUME NEW f, \E k \in DOMAIN wire'[c] : wire'[c][k] = f
        PROVE  f = e \/ \E k \in DOMAIN wire[c] : wire[c][k] = f
    BY <2>2, <2>3
  <2>4. \A f : (\E k \in DOMAIN wire'[c] : wire'[c][k] = f) => IsNews(f)'
    BY <1>1, <2>1, <2>3
  <2> QED BY <2>2, <2>4, <1>2
<1>5. CASE wire[c] # <<>> /\ wire'[c] = Tail(wire[c])
  <2>1. /\ wire'[c] \in Seq(Events)
        /\ \A k \in DOMAIN wire'[c] : k + 1 \in DOMAIN wire[c] /\ wire'[c][k] = wire[c][k + 1]
    BY <1>0, <1>5, TailOf
  <2>2. \A f : (\E k \in DOMAIN wire'[c] : wire'[c][k] = f) => IsNews(f)'
    BY <2>1, <1>1
  <2> QED BY <2>1, <2>2, <1>2
<1> QED BY <1>3, <1>4, <1>5

(* A pane whose list stays, and whose app waits for nothing new.           *)
LEMMA ListStays ==
    ASSUME NEW c \in Apps, ListInv(c), Grows, call'[c] = call[c],
           pane'[c] \in Panes, pane'[c].blocks = pane[c].blocks,
           pane'[c] = pane[c] \/ pane'[c].open
    PROVE  ListInv(c)'
<1>1. \A i \in DOMAIN pane[c].blocks : IsStored(pane[c].blocks[i])'
  BY NewsStays DEF ListInv
<1>2. \/ call'[c] \in {Idle, Loading}
      \/ c \in Marking /\ \E s \in DOMAIN stored', on \in BOOLEAN : call'[c] = Marked(s, on)
  BY DEF ListInv, Grows
<1>3. ~pane'[c].open => pane'[c] = Closed /\ call'[c] = Idle
  BY DEF ListInv
<1> QED BY <1>1, <1>2, <1>3 DEF ListInv

(* Nothing that concerns the app: a pane that keeps its list and label.    *)
LEMMA AppStays ==
    ASSUME NEW c \in Apps, AppInv(c), UNCHANGED <<stored, telling, warned>>,
           wire'[c] = wire[c], call'[c] = call[c], pane'[c] \in Panes,
           pane'[c].open = pane[c].open, pane'[c].blocks = pane[c].blocks,
           pane'[c].degraded = pane[c].degraded, pane'[c].early = pane[c].early,
           pane'[c] = pane[c] \/ pane'[c].open
    PROVE  AppInv(c)'
<1>0. Grows
  BY DEF Grows
<1>1. WireInv(c)'
  BY <1>0, WireStays DEF AppInv
<1>2. ListInv(c)'
  BY <1>0, ListStays DEF AppInv
<1>3. FullInv(c)'
  BY DEF AppInv, FullInv, Listed
<1>4. LabelInv(c)'
  BY DEF AppInv, LabelInv
<1>5. MarksInv(c)'
  BY DEF AppInv, MarksInv, AskedRight, LastIsRight, NewIsBare, ShownIsRight, Listed, Asked
<1> QED BY <1>1, <1>2, <1>3, <1>4, <1>5 DEF AppInv

(* The parts of a pane, and what a change of one leaves alone.             *)
LEMMA PaneParts ==
    ASSUME NEW p \in Panes
    PROVE  p.open \in BOOLEAN /\ p.blocks \in Seq(Shown) /\ p.degraded \in BOOLEAN /\ p.early \in BOOLEAN
           /\ p.phase \in {"unknown", "running"} /\ p.keyboard \in {"editor", "grid"}
  BY DEF Panes

LEMMA PaneTyped ==
    ASSUME NEW p \in Panes, NEW phase \in {"unknown", "running"}, NEW keys \in {"editor", "grid"}
    PROVE  /\ [p EXCEPT !.keyboard = keys] \in Panes
           /\ [p EXCEPT !.phase = phase, !.keyboard = keys] \in Panes
           /\ \A q \in {[p EXCEPT !.keyboard = keys], [p EXCEPT !.phase = phase, !.keyboard = keys]} :
                  q.open = p.open /\ q.blocks = p.blocks /\ q.degraded = p.degraded /\ q.early = p.early
<1> DEFINE L == Seq(Shown)
<1>1. Panes = [open : BOOLEAN, blocks : L, degraded : BOOLEAN, phase : {"unknown", "running"},
               keyboard : {"editor", "grid"}, early : BOOLEAN]
  BY DEF Panes
<1> HIDE DEF L
<1> QED BY <1>1

LEMMA PaneChanged ==
    ASSUME NEW p \in Panes, NEW list \in Seq(Shown)
    PROVE  /\ [p EXCEPT !.blocks = list] \in Panes /\ [p EXCEPT !.blocks = list].open = p.open
           /\ [p EXCEPT !.blocks = list].blocks = list
           /\ [p EXCEPT !.blocks = list].degraded = p.degraded /\ [p EXCEPT !.blocks = list].early = p.early
           /\ [p EXCEPT !.degraded = TRUE] \in Panes /\ [p EXCEPT !.degraded = TRUE].open = p.open
           /\ [p EXCEPT !.degraded = TRUE].blocks = p.blocks
           /\ [p EXCEPT !.degraded = TRUE].degraded /\ [p EXCEPT !.degraded = TRUE].early = p.early
<1> DEFINE L == Seq(Shown)
<1>1. Panes = [open : BOOLEAN, blocks : L, degraded : BOOLEAN, phase : {"unknown", "running"},
               keyboard : {"editor", "grid"}, early : BOOLEAN] /\ list \in L
  BY DEF Panes
<1> HIDE DEF L
<1> QED BY <1>1

(* A pane that is closed, and one that opens.                              *)
LEMMA ClosedParts ==
    /\ Closed \in Panes /\ ~Closed.open /\ Closed.blocks = <<>> /\ ~Closed.degraded /\ ~Closed.early
    /\ \A early \in BOOLEAN :
           /\ NewPane(early) \in Panes /\ NewPane(early).open /\ NewPane(early).blocks = <<>>
           /\ ~NewPane(early).degraded /\ NewPane(early).early = early
<1>1. <<>> \in Seq(Shown)
  OBVIOUS
<1> DEFINE L == Seq(Shown)
<1>2. Panes = [open : BOOLEAN, blocks : L, degraded : BOOLEAN, phase : {"unknown", "running"},
               keyboard : {"editor", "grid"}, early : BOOLEAN] /\ <<>> \in L
  BY <1>1 DEF Panes
<1> HIDE DEF L
<1> QED BY <1>2 DEF Closed, NewPane

(* The keyboard, and a command that begins.                                *)
LEMMA QuietStep ==
    ASSUME PanesInv, NEW a \in Apps, CommandStarts \/ Send(a) \/ Focus(a) \/ ClickGrid(a)
    PROVE  PanesInv'
<1>0. UNCHANGED <<storeVars, wire, call>> /\ UNCHANGED <<stored, telling, warned>>
  BY DEF CommandStarts, Send, Focus, ClickGrid, storeVars
<1>1. StoreInv' /\ LineInv'
  <2>1. CASE Begins
    BY <1>0, <2>1, BeginsStore DEF PanesInv
  <2>2. CASE UNCHANGED shellVars
    BY <1>0, <2>2 DEF PanesInv, StoreInv, LineInv, shellVars, IsStored
  <2> QED BY <2>1, <2>2 DEF CommandStarts, Send, Focus, ClickGrid
<1>2. ASSUME NEW c \in Apps
      PROVE  /\ pane'[c] \in Panes /\ pane'[c].open = pane[c].open /\ pane'[c].blocks = pane[c].blocks
             /\ pane'[c].degraded = pane[c].degraded /\ pane'[c].early = pane[c].early
             /\ pane'[c] = pane[c] \/ pane'[c].open
  <2>0. pane[c] \in Panes /\ DOMAIN pane = Apps
    BY DEF PanesInv, AppInv, ListInv
  <2>1. CASE pane'[c] = pane[c]
    BY <2>0, <2>1
  <2>2. CASE pane[c].open /\ pane'[c] = [pane[c] EXCEPT !.phase = "running", !.keyboard = "grid"]
    <3>1. pane'[c] \in Panes /\ pane'[c] \in {[pane[c] EXCEPT !.keyboard = "grid"], [pane[c] EXCEPT !.phase = "running", !.keyboard = "grid"]}
      BY <2>0, <2>2, PaneTyped
    <3>2. /\ pane'[c].open = pane[c].open /\ pane'[c].blocks = pane[c].blocks
          /\ pane'[c].degraded = pane[c].degraded /\ pane'[c].early = pane[c].early
      BY <2>0, <3>1, PaneTyped
    <3> QED BY <2>2, <3>1, <3>2
  <2>3. CASE pane[c].open /\ \E k \in {"editor", "grid"} : pane'[c] = [pane[c] EXCEPT !.keyboard = k]
    <3>1. PICK k \in {"editor", "grid"} : pane'[c] = [pane[c] EXCEPT !.keyboard = k]
      BY <2>3
    <3>2. pane'[c] \in Panes /\ pane'[c] \in {[pane[c] EXCEPT !.keyboard = k], [pane[c] EXCEPT !.phase = "running", !.keyboard = k]}
      BY <2>0, <3>1, PaneTyped
    <3>3. /\ pane'[c].open = pane[c].open /\ pane'[c].blocks = pane[c].blocks
          /\ pane'[c].degraded = pane[c].degraded /\ pane'[c].early = pane[c].early
      BY <2>0, <3>1 DEF Panes
    <3> QED BY <2>3, <3>2, <3>3
  <2>4. CASE c # a \/ CommandStarts
    BY <2>0, <2>1, <2>4 DEF CommandStarts, Send, Focus, ClickGrid
  <2>5. CASE c = a /\ Send(a)
    BY <2>0, <2>2, <2>5 DEF Send
  <2>6. CASE c = a /\ Focus(a)
    BY <2>0, <2>3, <2>6 DEF Focus
  <2>7. CASE c = a /\ ClickGrid(a)
    BY <2>0, <2>3, <2>7 DEF ClickGrid
  <2> QED BY <2>4, <2>5, <2>6, <2>7
<1>3. \A c \in Apps : AppInv(c)'
  BY <1>0, <1>2, AppStays DEF PanesInv
<1>4. DOMAIN wire' = Apps /\ DOMAIN pane' = Apps /\ DOMAIN call' = Apps
  BY <1>0 DEF PanesInv, CommandStarts, Send, Focus, ClickGrid
<1> QED BY <1>1, <1>3, <1>4 DEF PanesInv
(* What news can be.                                                       *)
LEMMA NewsKinds ==
    ASSUME NEW e, IsNews(e)
    PROVE  \/ e = BlocksDegraded /\ e.is = "degraded" /\ warned
           \/ e.is = "block" /\ e.block \in Told /\ (e.block.seq # Nothing => IsStored(e.block))
           \/ e.is = "changed" /\ e.seq \in DOMAIN stored /\ e.on \in BOOLEAN
<1>1. CASE e = BlocksDegraded /\ warned
  BY <1>1 DEF BlocksDegraded
<1>2. CASE \E b \in Told : e = BlockEvent(b) /\ (b.seq # Nothing => IsStored(b))
  BY <1>2 DEF BlockEvent
<1>3. CASE \E s \in DOMAIN stored, on \in BOOLEAN : e = BlockChanged(s, on)
  BY <1>3 DEF BlockChanged
<1> QED BY <1>1, <1>2, <1>3 DEF IsNews

(* The end of a command: a block that the table has got and no app.        *)
LEMMA EndsStep ==
    ASSUME PanesInv, NEW works \in BOOLEAN, CommandEnds(works)
    PROVE  PanesInv'
<1>0. UNCHANGED <<wire, pane, call>> /\ warned' = warned /\ telling = Nothing
  BY DEF CommandEnds, storeVars
<1>1. /\ StoreInv' /\ LineInv' /\ Grows
      /\ \A s \in DOMAIN stored' \ DOMAIN stored : telling' # Nothing /\ telling'.seq = s /\ ~stored'[s].bookmarked
      /\ \A s \in DOMAIN stored : stored'[s] = stored[s]
  BY EndsStore DEF PanesInv
<1>2. ASSUME NEW c \in Apps PROVE AppInv(c)'
  <2>0. WireInv(c) /\ ListInv(c) /\ FullInv(c) /\ LabelInv(c) /\ MarksInv(c)
    BY DEF PanesInv, AppInv
  <2>1. WireInv(c)'
    BY <1>0, <1>1, <2>0, WireStays
  <2>2. ListInv(c)'
    <3>1. pane[c] \in Panes
      BY <2>0 DEF ListInv
    <3> QED BY <1>0, <1>1, <2>0, <3>1, ListStays
  <2>3. FullInv(c)'
    <3> SUFFICES ASSUME pane[c].open, call[c] # Loading, NEW s \in DOMAIN stored'
                 PROVE  (Listed(c, s) \/ (telling # Nothing /\ telling.seq = s) \/ \E k \in DOMAIN wire[c] : Brings(wire[c][k], s))'
      BY <1>0 DEF FullInv
    <3>1. CASE s \in DOMAIN stored
      BY <1>0, <2>0, <3>1 DEF FullInv, Listed
    <3>2. CASE s \notin DOMAIN stored
      BY <1>1, <3>2
    <3> QED BY <3>1, <3>2
  <2>4. LabelInv(c)'
    BY <1>0, <2>0 DEF LabelInv
  <2>5. MarksInv(c)'
    <3> SUFFICES ASSUME Marking \subseteq {c} PROVE MarksInv(c)'
      BY DEF MarksInv
    <3>1. ASSUME NEW s \in DOMAIN stored' \ DOMAIN stored
          PROVE  /\ ~Asked(c, s) /\ ~stored'[s].bookmarked
                 /\ \A k \in DOMAIN wire[c] : ~Changes(wire[c][k], s)
      <4>1. ~Asked(c, s)
        <5>1. CASE call[c] \in {Idle, Loading}
          BY <5>1 DEF Asked, Idle, Loading
        <5>2. CASE \E r \in DOMAIN stored, on \in BOOLEAN : call[c] = Marked(r, on)
          BY <5>2 DEF Asked, Marked
        <5> QED BY <5>1, <5>2, <2>0 DEF ListInv
      <4>2. ASSUME NEW k \in DOMAIN wire[c] PROVE ~Changes(wire[c][k], s)
        <5>1. IsNews(wire[c][k])
          BY <2>0 DEF WireInv
        <5> QED BY <5>1, NewsKinds DEF Changes
      <4> QED BY <1>1, <4>1, <4>2
    <3>2. \A i \in DOMAIN pane[c].blocks : pane[c].blocks[i].seq \in DOMAIN stored
      BY <2>0 DEF ListInv, IsStored
    <3>3. \A s : Asked(c, s)' <=> Asked(c, s)
      BY <1>0 DEF Asked
    <3>4. \A s \in DOMAIN stored : AskedRight(c, s)' /\ LastIsRight(c, s)' /\ NewIsBare(c, s)'
      BY <1>0, <1>1, <2>0, <3>3 DEF MarksInv, AskedRight, LastIsRight, NewIsBare, Listed
    <3>5. \A s \in DOMAIN stored' \ DOMAIN stored : AskedRight(c, s)' /\ LastIsRight(c, s)' /\ NewIsBare(c, s)'
      BY <1>0, <3>1, <3>3 DEF AskedRight, LastIsRight, NewIsBare
    <3>6. \A i \in DOMAIN pane[c].blocks : ShownIsRight(c, i)'
      BY <1>0, <1>1, <2>0, <3>2, <3>3 DEF MarksInv, ShownIsRight
    <3> QED BY <1>0, <3>4, <3>5, <3>6 DEF MarksInv
  <2> QED BY <2>1, <2>2, <2>3, <2>4, <2>5 DEF AppInv
<1>3. DOMAIN wire' = Apps /\ DOMAIN pane' = Apps /\ DOMAIN call' = Apps
  BY <1>0 DEF PanesInv
<1> QED BY <1>1, <1>2, <1>3 DEF PanesInv

(* What is announced is sent to every app.                                 *)
LEMMA AnnouncedTo ==
    ASSUME NEW e \in Events, Announced(e), NEW c \in Apps, WireInv(c)
    PROVE  /\ wire'[c] = Append(wire[c], e)
           /\ Len(wire[c]) + 1 \in DOMAIN wire'[c] /\ wire'[c][Len(wire[c]) + 1] = e
           /\ \A k \in DOMAIN wire[c] : k \in DOMAIN wire'[c] /\ wire'[c][k] = wire[c][k] /\ k < Len(wire[c]) + 1
           /\ \A k \in DOMAIN wire'[c] : k \in DOMAIN wire[c] \/ k = Len(wire[c]) + 1
           /\ DOMAIN wire'[c] \subseteq Nat /\ Len(wire[c]) \in Nat
<1>1. wire'[c] = Append(wire[c], e) /\ wire[c] \in Seq(Events)
  BY DEF Announced, WireInv
<1> QED BY <1>1, AppendOf

(* The broadcasts of the session thread.                                   *)
LEMMA TellStep ==
    ASSUME PanesInv, TellBlock \/ FindsCorrupted
    PROVE  PanesInv'
<1>0. /\ UNCHANGED <<pane, call>> /\ stored' = stored /\ StoreInv' /\ LineInv' /\ Grows
  BY TellStore DEF PanesInv, TellBlock, FindsCorrupted
<1> DEFINE e == IF TellBlock THEN BlockEvent(telling) ELSE BlocksDegraded
<1>1. /\ Announced(e) /\ e \in Events /\ e.is # "changed"
      /\ e.is = "block" \/ e = BlocksDegraded
      /\ warned' = warned \/ (e = BlocksDegraded /\ ~warned)
      /\ telling' = telling \/ (telling # Nothing /\ \A s : telling.seq = s => Brings(e, s))
  <2>1. CASE TellBlock
    <3>1. telling \in Told /\ e = BlockEvent(telling) /\ warned' = warned /\ Announced(e) /\ telling # Nothing
      BY <2>1 DEF TellBlock, PanesInv, StoreInv
    <3>2. e.is = "block" /\ e.block = telling /\ e.is # "changed"
      BY <3>1 DEF BlockEvent
    <3>3. e \in Events
      BY <3>1 DEF Events
    <3>4. \A s : telling.seq = s => Brings(e, s)
      BY <3>2 DEF Brings
    <3> HIDE DEF e
    <3>5. telling' = telling \/ (telling # Nothing /\ \A s : telling.seq = s => Brings(e, s))
      BY <3>1, <3>4
    <3>6. warned' = warned \/ (e = BlocksDegraded /\ ~warned)
      BY <3>1
    <3>7. e.is = "block" \/ e = BlocksDegraded
      BY <3>2
    <3> QED BY <3>1, <3>2, <3>3, <3>5, <3>6, <3>7
  <2>2. CASE ~TellBlock /\ FindsCorrupted
    <3>1. e = BlocksDegraded /\ ~warned /\ telling' = telling /\ Announced(e)
      BY <2>2 DEF FindsCorrupted
    <3>2. e.is = "degraded"
      BY <3>1 DEF BlocksDegraded
    <3> QED BY <3>1, <3>2 DEF Events
  <2> QED BY <2>1, <2>2
<1>2. \E f \in Events : IsNews(f)' /\ Announced(f) /\ f = e
  <2>1. CASE TellBlock
    <3>1. PICK b \in Told : b = telling
      BY <2>1 DEF TellBlock, PanesInv, StoreInv
    <3>2. b.seq # Nothing => IsStored(b)
      BY <2>1, <3>1 DEF TellBlock, PanesInv, StoreInv
    <3>3. b.seq # Nothing => IsStored(b)'
      BY <1>0, <3>2, NewsStays
    <3>4. IsNews(BlockEvent(b))'
      BY <3>3 DEF IsNews
    <3>5. e = BlockEvent(b)
      BY <2>1, <3>1
    <3>6. BlockEvent(b) \in Events
      BY DEF Events
    <3> QED BY <1>1, <3>4, <3>5, <3>6
  <2>2. CASE ~TellBlock /\ FindsCorrupted
    <3>1. e = BlocksDegraded /\ warned'
      BY <2>2 DEF FindsCorrupted
    <3>2. IsNews(BlocksDegraded)'
      BY <3>1 DEF IsNews
    <3>3. BlocksDegraded \in Events
      BY DEF Events
    <3> QED BY <1>1, <3>1, <3>2, <3>3
  <2> QED BY <2>1, <2>2
<1> HIDE DEF e
<1>3. ASSUME NEW c \in Apps PROVE AppInv(c)'
  <2>0. WireInv(c) /\ ListInv(c) /\ FullInv(c) /\ LabelInv(c) /\ MarksInv(c)
    BY DEF PanesInv, AppInv
  <2>a. /\ wire'[c] = Append(wire[c], e)
        /\ Len(wire[c]) + 1 \in DOMAIN wire'[c] /\ wire'[c][Len(wire[c]) + 1] = e
        /\ \A k \in DOMAIN wire[c] : k \in DOMAIN wire'[c] /\ wire'[c][k] = wire[c][k] /\ k < Len(wire[c]) + 1
        /\ \A k \in DOMAIN wire'[c] : k \in DOMAIN wire[c] \/ k = Len(wire[c]) + 1
    BY <1>1, <2>0, AnnouncedTo
  <2>1. WireInv(c)'
    BY <1>0, <1>2, <2>0, <2>a, WireStays
  <2>2. ListInv(c)'
    <3>1. pane[c] \in Panes
      BY <2>0 DEF ListInv
    <3> QED BY <1>0, <2>0, <3>1, ListStays
  <2>3. FullInv(c)'
    <3> SUFFICES ASSUME pane[c].open, call[c] # Loading, NEW s \in DOMAIN stored
                 PROVE  (Listed(c, s) \/ (telling # Nothing /\ telling.seq = s) \/ \E k \in DOMAIN wire[c] : Brings(wire[c][k], s))'
      BY <1>0 DEF FullInv
    <3>1. CASE Listed(c, s)
      BY <1>0, <3>1 DEF Listed
    <3>2. CASE telling # Nothing /\ telling.seq = s
      BY <1>1, <2>a, <3>2
    <3>3. CASE \E k \in DOMAIN wire[c] : Brings(wire[c][k], s)
      BY <2>a, <3>3
    <3> QED BY <2>0, <3>1, <3>2, <3>3 DEF FullInv
  <2>4. LabelInv(c)'
    BY <1>0, <1>1, <2>0, <2>a DEF LabelInv, Grows
  <2>5. MarksInv(c)'
    <3>1. \A s : ~Changes(e, s)
      BY <1>1 DEF Changes
    <3>2. \A s : \A k \in DOMAIN wire'[c] : Changes(wire'[c][k], s) => k \in DOMAIN wire[c] /\ Changes(wire[c][k], s)
      BY <3>1, <2>a
    <3>3. \A s : \A k \in DOMAIN wire[c] : Changes(wire[c][k], s) => k \in DOMAIN wire'[c] /\ Changes(wire'[c][k], s)
      BY <2>a
    <3>4. \A s : Asked(c, s)' <=> Asked(c, s)
      BY <1>0 DEF Asked
    <3> SUFFICES ASSUME Marking \subseteq {c} PROVE MarksInv(c)'
      BY DEF MarksInv
    <3>5. \A s \in DOMAIN stored : AskedRight(c, s)' /\ NewIsBare(c, s)'
      BY <1>0, <2>0, <3>4 DEF MarksInv, AskedRight, NewIsBare, Listed
    <3>6. \A s \in DOMAIN stored : LastIsRight(c, s)'
      <4> TAKE s \in DOMAIN stored
      <4>1. LastIsRight(c, s)
        BY <2>0 DEF MarksInv
      <4> QED BY <1>0, <2>a, <3>2, <3>3, <3>4, <4>1 DEF LastIsRight
    <3>7. \A i \in DOMAIN pane[c].blocks : ShownIsRight(c, i)'
      BY <1>0, <2>0, <3>3, <3>4 DEF MarksInv, ShownIsRight
    <3> QED BY <1>0, <3>5, <3>6, <3>7 DEF MarksInv
  <2> QED BY <2>1, <2>2, <2>3, <2>4, <2>5 DEF AppInv
<1>4. DOMAIN wire' = Apps /\ DOMAIN pane' = Apps /\ DOMAIN call' = Apps
  BY <1>0, <1>1 DEF PanesInv, Announced
<1> QED BY <1>0, <1>3, <1>4 DEF PanesInv
(* What an app can wait for.                                               *)
LEMMA CallKinds ==
    ASSUME NEW c \in Apps, ListInv(c)
    PROVE  \/ call[c] = Idle /\ call[c] # Loading /\ call[c].is = "idle" /\ \A s : ~Asked(c, s)
           \/ call[c] = Loading /\ call[c] # Idle /\ call[c].is = "loading" /\ pane[c].open /\ \A s : ~Asked(c, s)
           \/ /\ call[c].is = "marked" /\ call[c] # Idle /\ call[c] # Loading /\ c \in Marking /\ pane[c].open
              /\ call[c].seq \in DOMAIN stored /\ call[c].on \in BOOLEAN
<1>1. CASE call[c] = Idle
  BY <1>1 DEF Idle, Loading, Asked
<1>2. CASE call[c] = Loading
  <2>1. call[c] # Idle
    BY <1>2 DEF Idle, Loading
  <2>2. pane[c].open
    BY <2>1 DEF ListInv
  <2>3. call[c].is = "loading"
    BY <1>2 DEF Loading
  <2> QED BY <1>2, <2>1, <2>2, <2>3 DEF Asked
<1>3. CASE c \in Marking /\ \E s \in DOMAIN stored, on \in BOOLEAN : call[c] = Marked(s, on)
  <2>1. PICK s \in DOMAIN stored, on \in BOOLEAN : call[c] = Marked(s, on)
    BY <1>3
  <2>2. call[c].is = "marked" /\ call[c].seq = s /\ call[c].on = on
    BY <2>1 DEF Marked
  <2>3. call[c] # Idle /\ call[c] # Loading
    BY <2>2 DEF Idle, Loading
  <2>4. pane[c].open
    BY <2>3 DEF ListInv
  <2> QED BY <1>3, <2>2, <2>3, <2>4
<1> QED BY <1>1, <1>2, <1>3 DEF ListInv

(* A block of that number is in the list.                                  *)
HasNumber(list, s) == \E i \in DOMAIN list : list[i].seq = s

(* A block of the pane has the bookmark of the event, or the one it had,   *)
(* or it is new and has none.                                              *)
HeardAs(a, list, b, e) ==
    \/ Changes(e, b.seq) /\ b.bookmarked = e.on
    \/ ~Changes(e, b.seq) /\ \E i \in DOMAIN list : list[i].seq = b.seq /\ list[i].bookmarked = b.bookmarked
    \/ ~Changes(e, b.seq) /\ ~Listed(a, b.seq) /\ b.bookmarked = FALSE

(* What an open pane makes of an event: q of p.                            *)
HeardWell(a, p, q, e) ==
    /\ q \in Panes /\ q.open /\ q.early = p.early
    /\ InOrderOfRows(q.blocks) /\ \A i \in DOMAIN q.blocks : IsStored(q.blocks[i])
    /\ \A i \in DOMAIN p.blocks : HasNumber(q.blocks, p.blocks[i].seq)
    /\ \A s \in DOMAIN stored : Brings(e, s) => HasNumber(q.blocks, s)
    /\ q.degraded <=> (p.degraded \/ e = BlocksDegraded)
    /\ \A j \in DOMAIN q.blocks : HeardAs(a, p.blocks, q.blocks[j], e)

(* It makes that of it.                                                    *)
LEMMA HeardPane ==
    ASSUME StoreInv, NEW a \in Apps, ListInv(a), pane[a].open, NEW e, IsNews(e),
           NEW p, p = pane[a], NEW q, q = Heard(p, e)
    PROVE  HeardWell(a, p, q, e)
<1> USE DEF HeardWell
<1>0. /\ p \in Panes /\ p.open /\ p.open \in BOOLEAN /\ p.degraded \in BOOLEAN /\ p.blocks \in Seq(Shown)
      /\ InOrderOfRows(p.blocks) /\ \A i \in DOMAIN p.blocks : IsStored(p.blocks[i])
  BY PaneParts DEF ListInv
<1>1. CASE e = BlocksDegraded /\ e.is = "degraded"
  <2>1. q = [p EXCEPT !.degraded = TRUE]
    BY <1>1 DEF Heard
  <2>2. q \in Panes /\ q.open = p.open /\ q.blocks = p.blocks /\ q.degraded /\ q.early = p.early
    <3>1. <<>> \in Seq(Shown)
      OBVIOUS
    <3> QED BY <1>0, <2>1, <3>1, PaneChanged
  <2>3. \A s : ~Brings(e, s) /\ ~Changes(e, s)
    BY <1>1 DEF Brings, Changes
  <2> QED BY <1>0, <1>1, <2>2, <2>3 DEF HeardAs, HasNumber
<1>2. CASE e.is = "block" /\ e.block.seq = Nothing
  <2>1. q = p
    BY <1>2 DEF Heard
  <2>2. \A s \in DOMAIN stored : ~Brings(e, s)
    BY <1>2, StoredParts, PaneLimits DEF Brings
  <2>3. e # BlocksDegraded /\ \A s : ~Changes(e, s)
    BY <1>2 DEF BlocksDegraded, Changes
  <2> QED BY <1>0, <2>1, <2>2, <2>3 DEF HeardAs, HasNumber
<1>3. CASE e.is = "block" /\ e.block.seq # Nothing /\ e.block \in Told /\ IsStored(e.block)
  <2>0. PICK b \in Told : b = e.block
    BY <1>3
  <2> DEFINE list == Appended(p.blocks, b)
  <2>1. q = [p EXCEPT !.blocks = list]
    BY <1>3, <2>0 DEF Heard
  <2>2. b \in Shown /\ b.bookmarked = FALSE
    BY <1>3, <2>0 DEF Told, Shown, Cap
  <2>3. /\ list \in Seq(Shown) /\ InOrderOfRows(list) /\ \A i \in DOMAIN list : IsStored(list[i])
        /\ \A i \in DOMAIN p.blocks : \E j \in DOMAIN list : list[j] = p.blocks[i]
        /\ \E j \in DOMAIN list : list[j].seq = b.seq
        /\ \A j \in DOMAIN list :
               \/ \E i \in DOMAIN p.blocks : list[j] = p.blocks[i]
               \/ list[j] = b /\ \A i \in DOMAIN p.blocks : p.blocks[i].seq # b.seq
    <3>1. p.blocks \in Seq(Shown) /\ InOrderOfRows(p.blocks) /\ \A i \in DOMAIN p.blocks : IsStored(p.blocks[i])
      BY <1>0
    <3>2. b \in Shown /\ IsStored(b)
      BY <1>3, <2>0, <2>2 DEF IsStored
    <3>3. PICK l : l = p.blocks
      OBVIOUS
    <3>4. l \in Seq(Shown) /\ InOrderOfRows(l) /\ \A i \in DOMAIN l : IsStored(l[i])
      BY <3>1, <3>3
    <3>5. /\ Appended(l, b) \in Seq(Shown) /\ InOrderOfRows(Appended(l, b))
          /\ \A i \in DOMAIN Appended(l, b) : IsStored(Appended(l, b)[i])
      BY <3>2, <3>4, AppendedList
    <3>6. /\ \A i \in DOMAIN l : \E j \in DOMAIN Appended(l, b) : Appended(l, b)[j] = l[i]
          /\ \E j \in DOMAIN Appended(l, b) : Appended(l, b)[j].seq = b.seq
      BY <3>2, <3>4, AppendedList
    <3>7. \A j \in DOMAIN Appended(l, b) :
              \/ \E i \in DOMAIN l : Appended(l, b)[j] = l[i]
              \/ Appended(l, b)[j] = b /\ \A i \in DOMAIN l : l[i].seq # b.seq
      BY <3>2, <3>4, AppendedFrom
    <3> QED BY <3>3, <3>5, <3>6, <3>7
  <2> HIDE DEF list
  <2>4. q \in Panes /\ q.open = p.open /\ q.blocks = list /\ q.degraded = p.degraded /\ q.early = p.early
    <3>1. [p EXCEPT !.blocks = list] \in Panes
      BY <1>0, <2>3, PaneChanged
    <3> QED BY <1>0, <2>1, <3>1 DEF Panes
  <2>5. \A s : Brings(e, s) => s = b.seq
    BY <2>0 DEF Brings
  <2>6. e # BlocksDegraded /\ \A s : ~Changes(e, s)
    BY <1>3 DEF BlocksDegraded, Changes
  <2>7. \A j \in DOMAIN list :
            \/ \E i \in DOMAIN p.blocks : p.blocks[i].seq = list[j].seq /\ p.blocks[i].bookmarked = list[j].bookmarked
            \/ ~Listed(a, list[j].seq) /\ list[j].bookmarked = FALSE
    BY <2>2, <2>3 DEF Listed
  <2> QED BY <1>0, <2>3, <2>4, <2>5, <2>6, <2>7 DEF HeardAs, HasNumber
<1>4. CASE e.is = "changed" /\ e.seq \in DOMAIN stored /\ e.on \in BOOLEAN
  <2> DEFINE list == WithBookmark(p.blocks, e.seq, e.on)
  <2>1. q = [p EXCEPT !.blocks = list]
    BY <1>4 DEF Heard
  <2>2. /\ list \in Seq(Shown) /\ InOrderOfRows(list) /\ DOMAIN list = DOMAIN p.blocks
        /\ \A i \in DOMAIN p.blocks :
               /\ list[i].seq = p.blocks[i].seq /\ IsStored(list[i])
               /\ list[i].bookmarked = IF p.blocks[i].seq = e.seq THEN e.on ELSE p.blocks[i].bookmarked
    <3> QED BY <1>0, <1>4, BookmarkedList
  <2> HIDE DEF list
  <2>3. q \in Panes /\ q.open = p.open /\ q.blocks = list /\ q.degraded = p.degraded /\ q.early = p.early
    <3>1. [p EXCEPT !.blocks = list] \in Panes
      BY <1>0, <2>2, PaneChanged
    <3> QED BY <1>0, <2>1, <3>1 DEF Panes
  <2>4. e # BlocksDegraded /\ (\A s : ~Brings(e, s)) /\ \A s : Changes(e, s) <=> e.seq = s
    BY <1>4 DEF BlocksDegraded, Brings, Changes
  <2>5. \A j \in DOMAIN list :
            \/ Changes(e, list[j].seq) /\ list[j].bookmarked = e.on
            \/ ~Changes(e, list[j].seq) /\ p.blocks[j].seq = list[j].seq /\ p.blocks[j].bookmarked = list[j].bookmarked
    BY <2>2, <2>4
  <2> QED BY <1>0, <2>2, <2>3, <2>4, <2>5 DEF HeardAs, HasNumber
<1> QED BY <1>1, <1>2, <1>3, <1>4, NewsKinds
(* An app hears what was sent first.                                       *)
LEMMA HearStep ==
    ASSUME PanesInv, NEW a \in Apps, Hear(a)
    PROVE  PanesInv'
<1>0. /\ UNCHANGED <<shellVars, storeVars, call>> /\ UNCHANGED <<stored, telling, warned>>
      /\ call[a] = Idle /\ wire[a] # <<>> /\ Grows
      /\ StoreInv /\ WireInv(a) /\ ListInv(a) /\ FullInv(a) /\ LabelInv(a) /\ MarksInv(a)
      /\ DOMAIN wire = Apps /\ DOMAIN pane = Apps /\ DOMAIN call = Apps
  BY DEF Hear, Free, storeVars, Grows, PanesInv, AppInv
<1>1. StoreInv' /\ LineInv'
  BY <1>0 DEF PanesInv, StoreInv, LineInv, shellVars, storeVars, IsStored
<1>2. /\ wire'[a] = Tail(wire[a]) /\ DOMAIN wire' = Apps /\ DOMAIN pane' = Apps
      /\ pane'[a] = IF pane[a].open THEN Heard(pane[a], Head(wire[a])) ELSE pane[a]
      /\ \A c \in Apps \ {a} : wire'[c] = wire[c] /\ pane'[c] = pane[c]
  BY <1>0 DEF Hear
<1>3. PICK e : e = Head(wire[a])
  OBVIOUS
<1>4. /\ wire[a] \in Seq(Events) /\ e = wire[a][1] /\ 1 \in DOMAIN wire[a] /\ IsNews(e) /\ DOMAIN wire[a] \subseteq Nat
      /\ \A k \in DOMAIN wire'[a] : k + 1 \in DOMAIN wire[a] /\ wire'[a][k] = wire[a][k + 1] /\ k \in Nat
      /\ \A k \in DOMAIN wire[a] : k = 1 \/ (k - 1 \in DOMAIN wire'[a] /\ wire'[a][k - 1] = wire[a][k])
  BY <1>0, <1>2, <1>3, TailOf DEF WireInv
<1>5. \A c \in Apps \ {a} : AppInv(c)'
  <2> TAKE c \in Apps \ {a}
  <2>1. pane[c] \in Panes
    BY DEF PanesInv, AppInv, ListInv
  <2> QED BY <1>0, <1>2, <2>1, AppStays DEF PanesInv
<1>6. WireInv(a)'
  BY <1>0, <1>2, WireStays
<1>7. \A s : ~Asked(a, s) /\ ~Asked(a, s)'
  BY <1>0, CallKinds DEF Asked
<1>8. \A s : AskedRight(a, s)'
  BY <1>7 DEF AskedRight
<1>9. ASSUME Marking \subseteq {a}, NEW s \in DOMAIN stored PROVE LastIsRight(a, s)'
  <2>1. LastIsRight(a, s)
    BY <1>0, <1>9 DEF MarksInv
  <2> SUFFICES ASSUME NEW k \in DOMAIN wire'[a], Changes(wire'[a][k], s),
                      \A m \in DOMAIN wire'[a] : Changes(wire'[a][m], s) => m <= k
               PROVE  wire'[a][k].on = stored[s].bookmarked
    BY <1>0 DEF LastIsRight
  <2>2. k + 1 \in DOMAIN wire[a] /\ wire[a][k + 1] = wire'[a][k] /\ k \in Nat
    BY <1>4
  <2>3. ASSUME NEW m \in DOMAIN wire[a], Changes(wire[a][m], s) PROVE m <= k + 1
    <3>1. CASE m = 1
      BY <2>2, <3>1
    <3>2. CASE m # 1
      <4>1. m - 1 \in DOMAIN wire'[a] /\ Changes(wire'[a][m - 1], s) /\ m \in Nat
        BY <1>4, <2>3, <3>2
      <4>2. m - 1 <= k
        BY <4>1
      <4> QED BY <2>2, <4>1, <4>2
    <3> QED BY <3>1, <3>2
  <2> QED BY <1>7, <2>1, <2>2, <2>3 DEF LastIsRight
<1>10. CASE ~pane[a].open
  <2>1. pane'[a] = pane[a] /\ pane[a] \in Panes /\ pane[a] = Closed
    BY <1>0, <1>2, <1>10 DEF ListInv
  <2>2. ListInv(a)'
    BY <1>0, <2>1, ListStays
  <2>3. FullInv(a)' /\ LabelInv(a)'
    BY <2>1, <1>10, ClosedParts DEF FullInv, LabelInv
  <2>4. MarksInv(a)'
    BY <1>0, <1>8, <1>9, <1>10, <2>1, ClosedParts DEF MarksInv, NewIsBare
  <2> QED BY <1>0, <1>1, <1>2, <1>5, <1>6, <2>2, <2>3, <2>4 DEF PanesInv, AppInv
<1>11. CASE pane[a].open
  <2>0. StoreInv /\ ListInv(a) /\ pane[a].open /\ IsNews(e)
    BY <1>0, <1>4, <1>11
  <2>1. PICK p, q : p = pane[a] /\ q = Heard(p, e)
    OBVIOUS
  <2>2. pane'[a] = q
    BY <1>2, <1>3, <1>11, <2>1
  <2>3. /\ q \in Panes /\ q.open /\ q.early = p.early
        /\ InOrderOfRows(q.blocks) /\ \A i \in DOMAIN q.blocks : IsStored(q.blocks[i])
        /\ \A i \in DOMAIN p.blocks : HasNumber(q.blocks, p.blocks[i].seq)
        /\ \A s \in DOMAIN stored : Brings(e, s) => HasNumber(q.blocks, s)
        /\ q.degraded <=> (p.degraded \/ e = BlocksDegraded)
        /\ \A j \in DOMAIN q.blocks : HeardAs(a, p.blocks, q.blocks[j], e)
    <3>1. HeardWell(a, p, q, e)
      BY <2>0, <2>1, HeardPane
    <3> QED BY <3>1 DEF HeardWell
  <2>4. \A s : Listed(a, s) => HasNumber(q.blocks, s)
    BY <2>1, <2>3 DEF Listed
  <2>5. \A j \in DOMAIN q.blocks : HeardAs(a, p.blocks, q.blocks[j], e)
    BY <2>3
  <2>6. ListInv(a)'
    <3>1. \A i \in DOMAIN pane'[a].blocks : (IsStored(pane[a].blocks[i]))'
      BY <1>0, <2>2, <2>3 DEF IsStored
    <3>2. InOrderOfRows(pane[a].blocks)'
      BY <2>2, <2>3 DEF InOrderOfRows
    <3> QED BY <1>0, <2>2, <2>3, <3>1, <3>2 DEF ListInv
  <2>7. \A s : Listed(a, s) => Listed(a, s)'
    BY <2>2, <2>4 DEF Listed, HasNumber
  <2>8. FullInv(a)'
    <3> SUFFICES ASSUME NEW s \in DOMAIN stored
                 PROVE  (Listed(a, s) \/ (telling # Nothing /\ telling.seq = s) \/ \E k \in DOMAIN wire[a] : Brings(wire[a][k], s))'
      BY <1>0 DEF FullInv
    <3>0. call[a] # Loading
      BY <1>0 DEF Idle, Loading
    <3>1. CASE Listed(a, s)
      BY <2>7, <3>1
    <3>2. CASE telling # Nothing /\ telling.seq = s
      BY <1>0, <3>2
    <3>3. CASE \E k \in DOMAIN wire[a] : Brings(wire[a][k], s)
      <4>1. PICK k \in DOMAIN wire[a] : Brings(wire[a][k], s)
        BY <3>3
      <4>2. CASE k = 1
        BY <1>4, <2>2, <2>3, <4>1, <4>2 DEF Listed, HasNumber
      <4>3. CASE k # 1
        BY <1>4, <4>1, <4>3
      <4> QED BY <4>2, <4>3
    <3> QED BY <1>0, <1>11, <3>0, <3>1, <3>2, <3>3 DEF FullInv
  <2>9. LabelInv(a)'
    <3>1. e = BlocksDegraded => warned
      BY <1>4, NewsKinds DEF BlocksDegraded
    <3>2. ASSUME NEW k \in DOMAIN wire[a], wire[a][k] = BlocksDegraded
          PROVE  q.degraded \/ \E m \in DOMAIN wire'[a] : wire'[a][m] = BlocksDegraded
      BY <1>4, <2>3, <3>2
    <3> QED BY <1>0, <2>1, <2>2, <2>3, <3>1, <3>2 DEF LabelInv
  <2>10. MarksInv(a)'
    <3> SUFFICES ASSUME Marking \subseteq {a} PROVE MarksInv(a)'
      BY DEF MarksInv
    <3>1. \A s \in DOMAIN stored : NewIsBare(a, s)'
      BY <1>0, <1>11, <2>7 DEF MarksInv, NewIsBare
    <3>2. \A j \in DOMAIN pane'[a].blocks : ShownIsRight(a, j)'
      <4> SUFFICES ASSUME NEW j \in DOMAIN q.blocks, \A k \in DOMAIN wire'[a] : ~Changes(wire'[a][k], q.blocks[j].seq)
                   PROVE  q.blocks[j].bookmarked = stored[q.blocks[j].seq].bookmarked
        BY <1>0, <2>2 DEF ShownIsRight
      <4>0. PICK s \in DOMAIN stored : s = q.blocks[j].seq
        BY <2>3 DEF IsStored
      <4>1. CASE Changes(e, s) /\ q.blocks[j].bookmarked = e.on
        <5>1. \A m \in DOMAIN wire[a] : Changes(wire[a][m], s) => m <= 1
          BY <1>4, <4>0
        <5>2. LastIsRight(a, s)
          BY <1>0 DEF MarksInv
        <5>3. wire[a][1].on = stored[s].bookmarked
          BY <1>4, <1>7, <4>1, <5>1, <5>2 DEF LastIsRight
        <5> QED BY <1>4, <4>0, <4>1, <5>3
      <4>2. CASE ~Changes(e, s)
        <5>0. \A k \in DOMAIN wire[a] : ~Changes(wire[a][k], s)
          BY <1>4, <4>0, <4>2
        <5>1. CASE \E i \in DOMAIN p.blocks : p.blocks[i].seq = s /\ p.blocks[i].bookmarked = q.blocks[j].bookmarked
          <6>1. PICK i \in DOMAIN p.blocks : p.blocks[i].seq = s /\ p.blocks[i].bookmarked = q.blocks[j].bookmarked
            BY <5>1
          <6>2. ShownIsRight(a, i)
            BY <1>0, <2>1, <6>1 DEF MarksInv
          <6> QED BY <1>7, <2>1, <4>0, <5>0, <6>1, <6>2 DEF ShownIsRight
        <5>2. CASE ~Listed(a, s) /\ q.blocks[j].bookmarked = FALSE
          <6>1. ~stored[s].bookmarked
            BY <1>0, <1>11, <5>2 DEF MarksInv, NewIsBare, Idle, Loading
          <6>2. stored[s].bookmarked \in BOOLEAN
            BY <1>0, StoredParts
          <6> QED BY <4>0, <5>2, <6>1, <6>2
        <5> QED BY <2>5, <4>0, <4>2, <5>1, <5>2 DEF HeardAs
      <4> QED BY <2>5, <4>0, <4>1, <4>2 DEF HeardAs
    <3> QED BY <1>0, <1>8, <1>9, <3>1, <3>2 DEF MarksInv
  <2> QED BY <1>0, <1>1, <1>2, <1>5, <1>6, <2>6, <2>8, <2>9, <2>10 DEF PanesInv, AppInv
<1> QED BY <1>10, <1>11
(* What concerns one app only, and neither its wire nor the table.         *)
LEMMA OwnStep ==
    ASSUME PanesInv, NEW a \in Apps, UNCHANGED <<stored, telling, warned, wire>>,
           StoreInv', LineInv', DOMAIN pane' = Apps, DOMAIN call' = Apps,
           \A c \in Apps \ {a} : pane'[c] = pane[c] /\ call'[c] = call[c],
           ListInv(a)', FullInv(a)', LabelInv(a)', MarksInv(a)'
    PROVE  PanesInv'
<1>0. Grows /\ DOMAIN wire' = Apps
  BY DEF Grows, PanesInv
<1>1. WireInv(a)'
  BY <1>0, WireStays DEF PanesInv, AppInv
<1>2. \A c \in Apps \ {a} : AppInv(c)'
  <2> TAKE c \in Apps \ {a}
  <2>1. pane[c] \in Panes
    BY DEF PanesInv, AppInv, ListInv
  <2> QED BY <2>1, AppStays DEF PanesInv
<1> QED BY <1>0, <1>1, <1>2 DEF PanesInv, AppInv

(* An empty list is in order.                                              *)
LEMMA EmptyList == InOrderOfRows(<<>>) /\ DOMAIN <<>> = {}
<1>1. DOMAIN <<>> = {}
  OBVIOUS
<1> QED BY <1>1 DEF InOrderOfRows

(* A pane opens, and one is closed.                                        *)
LEMMA OpenCloseStep ==
    ASSUME PanesInv, NEW a \in Apps, Attach(a) \/ Close(a)
    PROVE  PanesInv'
<1>0. /\ UNCHANGED <<stored, telling, warned, wire>> /\ UNCHANGED <<shellVars, storeVars>>
      /\ call[a] = Idle /\ DOMAIN pane = Apps /\ DOMAIN call = Apps
      /\ StoreInv /\ ListInv(a) /\ FullInv(a) /\ LabelInv(a) /\ MarksInv(a)
  BY DEF Attach, Close, Free, storeVars, PanesInv, AppInv
<1>1. StoreInv' /\ LineInv'
  BY <1>0 DEF PanesInv, StoreInv, LineInv, shellVars, storeVars, IsStored
<1>2. /\ DOMAIN pane' = Apps /\ DOMAIN call' = Apps
      /\ \A c \in Apps \ {a} : pane'[c] = pane[c] /\ call'[c] = call[c]
      /\ \/ pane'[a] = NewPane(~warned) /\ call'[a] = Loading
         \/ pane'[a] = Closed /\ call'[a] = Idle
  BY <1>0 DEF Attach, Close
<1>3. (~warned) \in BOOLEAN /\ Idle # Loading
  BY DEF Idle, Loading
<1>4. /\ pane'[a] \in Panes /\ pane'[a].blocks = <<>> /\ ~pane'[a].degraded /\ (pane'[a].early => ~warned)
      /\ call'[a] \in {Idle, Loading} /\ (~pane'[a].open => pane'[a] = Closed /\ call'[a] = Idle)
      /\ (pane'[a].open => call'[a] = Loading)
  BY <1>2, <1>3, ClosedParts
<1>5. ListInv(a)'
  BY <1>4, EmptyList DEF ListInv
<1>6. FullInv(a)' /\ LabelInv(a)'
  BY <1>0, <1>4 DEF FullInv, LabelInv
<1>7. \A s : ~Asked(a, s) /\ ~Asked(a, s)'
  BY <1>0, <1>4 DEF Asked, Idle, Loading
<1>8. MarksInv(a)'
  <2> SUFFICES ASSUME Marking \subseteq {a} PROVE MarksInv(a)'
    BY DEF MarksInv
  <2>1. \A s \in DOMAIN stored : LastIsRight(a, s)'
    BY <1>0, <1>7 DEF MarksInv, LastIsRight
  <2>2. \A s : AskedRight(a, s)' /\ NewIsBare(a, s)'
    BY <1>4, <1>7 DEF AskedRight, NewIsBare
  <2> QED BY <1>0, <1>4, <2>1, <2>2, EmptyList DEF MarksInv
<1> QED BY <1>0, <1>1, <1>2, <1>5, <1>6, <1>8, OwnStep

(* The daemon answers with the list.                                       *)
LEMMA LoadStep ==
    ASSUME PanesInv, NEW a \in Apps, LoadBlocks(a)
    PROVE  PanesInv'
<1>0. /\ UNCHANGED <<stored, telling, warned, wire>> /\ UNCHANGED <<shellVars, storeVars>>
      /\ call[a] = Loading /\ DOMAIN pane = Apps /\ DOMAIN call = Apps
      /\ StoreInv /\ ListInv(a) /\ FullInv(a) /\ LabelInv(a) /\ MarksInv(a)
  BY DEF LoadBlocks, storeVars, PanesInv, AppInv
<1>1. StoreInv' /\ LineInv'
  BY <1>0 DEF PanesInv, StoreInv, LineInv, shellVars, storeVars, IsStored
<1>2. /\ DOMAIN pane' = Apps /\ DOMAIN call' = Apps
      /\ \A c \in Apps \ {a} : pane'[c] = pane[c] /\ call'[c] = call[c]
      /\ pane'[a] = [pane[a] EXCEPT !.blocks = Replaced] /\ call'[a] = Idle
  BY <1>0 DEF LoadBlocks
<1>3. pane[a].open /\ pane[a] \in Panes
  BY <1>0, CallKinds DEF ListInv, Idle, Loading
<1>4. PICK list : list = Replaced
  OBVIOUS
<1>5. /\ list \in Seq(Shown) /\ InOrderOfRows(list)
      /\ \A i \in DOMAIN list : IsStored(list[i]) /\ list[i].bookmarked = stored[list[i].seq].bookmarked
      /\ \A s \in DOMAIN stored : \E i \in DOMAIN list : list[i].seq = s
  BY <1>0, <1>4, ReplacedList
<1>6. /\ pane'[a] \in Panes /\ pane'[a].open /\ pane'[a].blocks = list
      /\ pane'[a].degraded = pane[a].degraded /\ pane'[a].early = pane[a].early
  <2>1. [pane[a] EXCEPT !.blocks = list] \in Panes
    BY <1>3, <1>5, PaneChanged
  <2> QED BY <1>2, <1>3, <1>4, <2>1 DEF Panes
<1>7. ListInv(a)'
  <2>1. \A i \in DOMAIN list : IsStored(list[i])'
    BY <1>0, <1>5 DEF IsStored
  <2> QED BY <1>2, <1>5, <1>6, <2>1 DEF ListInv
<1>8. \A s \in DOMAIN stored : Listed(a, s)'
  BY <1>5, <1>6 DEF Listed
<1>9. FullInv(a)' /\ LabelInv(a)'
  BY <1>0, <1>6, <1>8 DEF FullInv, LabelInv
<1>10. \A s : ~Asked(a, s) /\ ~Asked(a, s)'
  BY <1>0, <1>2 DEF Asked, Idle, Loading
<1>11. MarksInv(a)'
  <2> SUFFICES ASSUME Marking \subseteq {a} PROVE MarksInv(a)'
    BY DEF MarksInv
  <2>1. \A s \in DOMAIN stored : LastIsRight(a, s)' /\ AskedRight(a, s)' /\ NewIsBare(a, s)'
    BY <1>0, <1>8, <1>10 DEF MarksInv, LastIsRight, AskedRight, NewIsBare
  <2>2. \A i \in DOMAIN list : ShownIsRight(a, i)'
    BY <1>0, <1>5, <1>6 DEF ShownIsRight
  <2> QED BY <1>0, <1>6, <2>1, <2>2 DEF MarksInv
<1> QED BY <1>0, <1>1, <1>2, <1>7, <1>9, <1>11, OwnStep

(* The scrollback is cleared, and the list asked for again.                *)
LEMMA ClearStep ==
    ASSUME PanesInv, NEW a \in Apps, ClearScrollback(a)
    PROVE  PanesInv'
<1>0. /\ UNCHANGED <<stored, telling, warned, wire>> /\ UNCHANGED pane
      /\ call[a] = Idle /\ pane[a].open /\ DOMAIN pane = Apps /\ DOMAIN call = Apps /\ Grows
      /\ StoreInv /\ ListInv(a) /\ FullInv(a) /\ LabelInv(a) /\ MarksInv(a)
  BY DEF ClearScrollback, Free, storeVars, PanesInv, AppInv, Grows
<1>1. StoreInv' /\ LineInv'
  BY ClearStore DEF PanesInv
<1>2. DOMAIN call' = Apps /\ call'[a] = Loading /\ \A c \in Apps \ {a} : call'[c] = call[c]
  BY <1>0 DEF ClearScrollback
<1>3. \A s : ~Asked(a, s) /\ ~Asked(a, s)'
  BY <1>0, <1>2 DEF Asked, Idle, Loading
<1>4. ListInv(a)'
  <2>1. \A i \in DOMAIN pane[a].blocks : IsStored(pane[a].blocks[i])'
    BY <1>0 DEF ListInv, IsStored
  <2> QED BY <1>0, <1>2, <2>1 DEF ListInv
<1>5. FullInv(a)' /\ LabelInv(a)'
  BY <1>0, <1>2 DEF FullInv, LabelInv
<1>6. MarksInv(a)'
  BY <1>0, <1>2, <1>3 DEF MarksInv, LastIsRight, AskedRight, NewIsBare, ShownIsRight
<1> QED BY <1>0, <1>1, <1>2, <1>4, <1>5, <1>6, OwnStep
(* A bookmark is set in the table.                                         *)
LEMMA SetStep ==
    ASSUME PanesInv, NEW a \in Apps, NEW i \in DOMAIN pane[a].blocks, SetBookmark(a, i)
    PROVE  PanesInv'
<1>0. /\ UNCHANGED <<shellVars, telling, warned, wire, pane>> /\ a \in Marking
      /\ call[a] = Idle /\ pane[a].open /\ DOMAIN pane = Apps /\ DOMAIN call = Apps
      /\ StoreInv /\ LineInv
      /\ stored' = SetBlockBookmark(pane[a].blocks[i].seq, ~pane[a].blocks[i].bookmarked)
      /\ call' = [call EXCEPT ![a] = Marked(pane[a].blocks[i].seq, ~pane[a].blocks[i].bookmarked)]
  BY DEF SetBookmark, Free, PanesInv
<1>1. PICK s, on : s = pane[a].blocks[i].seq /\ on = ~pane[a].blocks[i].bookmarked
  OBVIOUS
<1>2. s \in DOMAIN stored /\ on \in BOOLEAN /\ Listed(a, s)
  BY <1>1 DEF PanesInv, AppInv, ListInv, IsStored, Listed
<1>3. stored' = SetBlockBookmark(s, on) /\ call'[a] = Marked(s, on) /\ DOMAIN call' = Apps
      /\ \A c \in Apps \ {a} : call'[c] = call[c]
  BY <1>0, <1>1
<1>4. /\ StoreInv' /\ LineInv' /\ Grows
      /\ DOMAIN stored' = DOMAIN stored /\ stored'[s].bookmarked = on
      /\ \A r \in DOMAIN stored \ {s} : stored'[r] = stored[r]
  BY <1>0, <1>2, <1>3, BookmarkStore
<1>5. Marked(s, on) # Loading /\ Marked(s, on) # Idle /\ Idle # Loading
      /\ Marked(s, on).is = "marked" /\ Marked(s, on).seq = s /\ Marked(s, on).on = on
  BY DEF Marked, Loading, Idle
<1>6. ASSUME NEW c \in Apps PROVE AppInv(c)'
  <2>0. WireInv(c) /\ ListInv(c) /\ FullInv(c) /\ LabelInv(c) /\ MarksInv(c) /\ wire'[c] = wire[c] /\ pane'[c] = pane[c]
    BY <1>0 DEF PanesInv, AppInv
  <2>1. WireInv(c)'
    BY <1>4, <2>0, WireStays
  <2>2. ListInv(c)'
    <3>1. CASE c # a
      <4>1. call'[c] = call[c] /\ pane'[c] \in Panes
        BY <1>3, <2>0, <3>1 DEF ListInv
      <4> QED BY <1>4, <2>0, <4>1, ListStays
    <3>2. CASE c = a
      <4>1. \A j \in DOMAIN pane[c].blocks : IsStored(pane[c].blocks[j])'
        BY <1>4, <2>0 DEF ListInv, IsStored, Grows
      <4>2. \E r \in DOMAIN stored', b \in BOOLEAN : call'[c] = Marked(r, b)
        BY <1>2, <1>3, <1>4, <3>2
      <4> QED BY <1>0, <2>0, <3>2, <4>1, <4>2 DEF ListInv
    <3> QED BY <3>1, <3>2
  <2>3. FullInv(c)' /\ LabelInv(c)'
    BY <1>0, <1>3, <1>4, <1>5, <2>0 DEF FullInv, LabelInv, Listed
  <2>4. MarksInv(c)'
    <3> SUFFICES ASSUME Marking \subseteq {c} PROVE MarksInv(c)'
      BY DEF MarksInv
    <3>0. c = a
      BY <1>0
    <3>1. \A r : Asked(c, r)' <=> r = s
      BY <1>3, <1>5, <3>0 DEF Asked
    <3>2. \A r : ~Asked(c, r)
      BY <1>0, <3>0 DEF Asked, Idle
    <3>3. ASSUME NEW r \in DOMAIN stored
          PROVE  AskedRight(c, r)' /\ LastIsRight(c, r)' /\ NewIsBare(c, r)'
      <4>1. AskedRight(c, r)'
        BY <1>3, <1>4, <1>5, <3>0, <3>1 DEF AskedRight
      <4>2. LastIsRight(c, r)'
        <5>1. CASE r = s
          BY <3>1, <5>1 DEF LastIsRight
        <5>2. CASE r # s
          BY <1>4, <2>0, <3>2, <5>2 DEF MarksInv, LastIsRight
        <5> QED BY <5>1, <5>2
      <4>3. NewIsBare(c, r)'
        <5>1. CASE r = s
          BY <1>2, <2>0, <3>0, <5>1 DEF NewIsBare, Listed
        <5>2. CASE r # s
          BY <1>0, <1>4, <1>5, <2>0, <3>0, <5>2 DEF MarksInv, NewIsBare, Listed
        <5> QED BY <5>1, <5>2
      <4> QED BY <4>1, <4>2, <4>3
    <3>4. ASSUME NEW j \in DOMAIN pane[c].blocks PROVE ShownIsRight(c, j)'
      <4>1. pane[c].blocks[j].seq \in DOMAIN stored /\ ShownIsRight(c, j)
        BY <2>0 DEF ListInv, IsStored, MarksInv
      <4> QED BY <1>4, <2>0, <3>1, <3>2, <4>1 DEF ShownIsRight
    <3> QED BY <1>4, <2>0, <3>3, <3>4 DEF MarksInv
  <2> QED BY <2>1, <2>2, <2>3, <2>4 DEF AppInv
<1>7. DOMAIN wire' = Apps /\ DOMAIN pane' = Apps
  BY <1>0 DEF PanesInv
<1> QED BY <1>3, <1>4, <1>6, <1>7 DEF PanesInv

(* The change is broadcast, and the app follows the reply.                 *)
LEMMA ReplyStep ==
    ASSUME PanesInv, NEW a \in Apps, BookmarkSet(a)
    PROVE  PanesInv'
<1>0. /\ UNCHANGED <<stored, telling, warned>> /\ UNCHANGED <<shellVars, storeVars>>
      /\ call[a].is = "marked" /\ DOMAIN pane = Apps /\ DOMAIN call = Apps /\ Grows
      /\ StoreInv /\ ListInv(a)
      /\ Announced(BlockChanged(call[a].seq, call[a].on))
  BY DEF BookmarkSet, storeVars, PanesInv, AppInv, Grows
<1>1. StoreInv' /\ LineInv'
  BY <1>0 DEF PanesInv, StoreInv, LineInv, shellVars, storeVars, IsStored
<1>2. PICK s \in DOMAIN stored, on \in BOOLEAN : s = call[a].seq /\ on = call[a].on /\ a \in Marking /\ pane[a].open
  BY <1>0, CallKinds
<1>3. PICK e : e = BlockChanged(s, on)
  OBVIOUS
<1>4. /\ e.is = "changed" /\ e.seq = s /\ e.on = on /\ e \in Events /\ Announced(e) /\ e # BlocksDegraded
      /\ \A r : (Changes(e, r) <=> r = s) /\ ~Brings(e, r)
  <2>1. e.is = "changed" /\ e.seq = s /\ e.on = on /\ e # BlocksDegraded
    BY <1>3 DEF BlockChanged, BlocksDegraded
  <2>2. s \in 1..MaxRuns
    BY <1>0, StoredParts
  <2>3. e \in Events
    BY <1>3, <2>2 DEF Events
  <2> QED BY <1>0, <1>2, <1>3, <2>1, <2>3 DEF Changes, Brings
<1>5. IsNews(e)'
  BY <1>0, <1>3 DEF IsNews
<1>6. /\ DOMAIN wire' = Apps /\ DOMAIN pane' = Apps /\ DOMAIN call' = Apps
      /\ \A c \in Apps \ {a} : pane'[c] = pane[c] /\ call'[c] = call[c]
      /\ pane'[a] = [pane[a] EXCEPT !.blocks = WithBookmark(pane[a].blocks, s, on)] /\ call'[a] = Idle
  BY <1>0, <1>2 DEF BookmarkSet, Announced
<1>7. PICK list : list = WithBookmark(pane[a].blocks, s, on)
  OBVIOUS
<1>8. pane[a] \in Panes /\ pane[a].blocks \in Seq(Shown) /\ InOrderOfRows(pane[a].blocks)
      /\ \A i \in DOMAIN pane[a].blocks : IsStored(pane[a].blocks[i])
  BY <1>0, PaneParts DEF ListInv
<1>9. /\ list \in Seq(Shown) /\ InOrderOfRows(list) /\ DOMAIN list = DOMAIN pane[a].blocks
      /\ \A i \in DOMAIN pane[a].blocks :
             /\ list[i].seq = pane[a].blocks[i].seq /\ IsStored(list[i])
             /\ list[i].bookmarked = IF pane[a].blocks[i].seq = s THEN on ELSE pane[a].blocks[i].bookmarked
  BY <1>7, <1>8, BookmarkedList
<1>10. /\ pane'[a] \in Panes /\ pane'[a].open /\ pane'[a].blocks = list
       /\ pane'[a].degraded = pane[a].degraded /\ pane'[a].early = pane[a].early
  <2>1. [pane[a] EXCEPT !.blocks = list] \in Panes
    BY <1>8, <1>9, PaneChanged
  <2> QED BY <1>2, <1>6, <1>7, <1>8, <2>1 DEF Panes
<1>11. ASSUME NEW c \in Apps
       PROVE  /\ pane'[c].open = pane[c].open /\ DOMAIN pane'[c].blocks = DOMAIN pane[c].blocks
              /\ \A i \in DOMAIN pane[c].blocks : pane'[c].blocks[i].seq = pane[c].blocks[i].seq
              /\ pane'[c].degraded = pane[c].degraded /\ pane'[c].early = pane[c].early
              /\ call'[c] = Loading <=> call[c] = Loading
  <2>1. Idle # Loading /\ call[a] # Loading
    BY <1>0 DEF Idle, Loading
  <2>2. CASE c = a
    BY <1>2, <1>6, <1>9, <1>10, <2>1, <2>2
  <2>3. CASE c # a
    BY <1>6, <2>3
  <2> QED BY <2>2, <2>3
<1>12. ASSUME NEW c \in Apps PROVE AppInv(c)'
  <2>0. WireInv(c) /\ ListInv(c) /\ FullInv(c) /\ LabelInv(c) /\ MarksInv(c)
    BY DEF PanesInv, AppInv
  <2>a. /\ wire'[c] = Append(wire[c], e)
        /\ Len(wire[c]) + 1 \in DOMAIN wire'[c] /\ wire'[c][Len(wire[c]) + 1] = e
        /\ \A k \in DOMAIN wire[c] : k \in DOMAIN wire'[c] /\ wire'[c][k] = wire[c][k] /\ k < Len(wire[c]) + 1
        /\ \A k \in DOMAIN wire'[c] : k \in DOMAIN wire[c] \/ k = Len(wire[c]) + 1
        /\ DOMAIN wire'[c] \subseteq Nat /\ Len(wire[c]) \in Nat
    BY <1>4, <2>0, AnnouncedTo
  <2>1. WireInv(c)'
    BY <1>0, <1>4, <1>5, <2>0, <2>a, WireStays
  <2>2. ListInv(c)'
    <3>1. CASE c # a
      <4>1. pane'[c] = pane[c] /\ call'[c] = call[c] /\ pane'[c] \in Panes
        BY <1>6, <2>0, <3>1 DEF ListInv
      <4> QED BY <1>0, <2>0, <4>1, ListStays
    <3>2. CASE c = a
      <4>1. \A i \in DOMAIN list : IsStored(list[i])'
        BY <1>0, <1>9 DEF IsStored
      <4> QED BY <1>6, <1>9, <1>10, <3>2, <4>1 DEF ListInv
    <3> QED BY <3>1, <3>2
  <2>3. \A r : Listed(c, r)' <=> Listed(c, r)
    BY <1>11 DEF Listed
  <2>4. FullInv(c)'
    <3> SUFFICES ASSUME pane[c].open, call[c] # Loading, NEW r \in DOMAIN stored
                 PROVE  (Listed(c, r) \/ (telling # Nothing /\ telling.seq = r) \/ \E k \in DOMAIN wire[c] : Brings(wire[c][k], r))'
      BY <1>0, <1>11 DEF FullInv
    <3> QED BY <1>0, <2>0, <2>3, <2>a DEF FullInv
  <2>5. LabelInv(c)'
    BY <1>0, <1>11, <2>0, <2>a DEF LabelInv
  <2>6. MarksInv(c)'
    <3> SUFFICES ASSUME Marking \subseteq {c} PROVE MarksInv(c)'
      BY DEF MarksInv
    <3>0. c = a
      BY <1>2
    <3>1. \A r : (Asked(c, r) <=> r = s) /\ ~Asked(c, r)'
      BY <1>0, <1>2, <1>6, <3>0 DEF Asked, Idle
    <3>2. stored[s].bookmarked = on
      BY <1>2, <2>0, <3>0, <3>1 DEF MarksInv, AskedRight
    <3>3. ASSUME NEW r \in DOMAIN stored PROVE AskedRight(c, r)' /\ LastIsRight(c, r)' /\ NewIsBare(c, r)'
      <4>1. AskedRight(c, r)'
        BY <3>1 DEF AskedRight
      <4>2. NewIsBare(c, r)'
        BY <1>0, <1>11, <2>0, <2>3 DEF MarksInv, NewIsBare
      <4>3. LastIsRight(c, r)'
        <5> SUFFICES ASSUME NEW k \in DOMAIN wire'[c], Changes(wire'[c][k], r),
                            \A m \in DOMAIN wire'[c] : Changes(wire'[c][m], r) => m <= k
                     PROVE  wire'[c][k].on = stored[r].bookmarked
          BY <1>0 DEF LastIsRight
        <5>1. CASE k = Len(wire[c]) + 1
          BY <1>4, <2>a, <3>2, <5>1
        <5>2. CASE k \in DOMAIN wire[c]
          <6>1. r # s
            <7>1. k < Len(wire[c]) + 1 /\ k \in Nat
              BY <2>a, <5>2
            <7>2. r = s => Len(wire[c]) + 1 <= k
              BY <1>4, <2>a
            <7> QED BY <2>a, <7>1, <7>2
          <6>2. LastIsRight(c, r) /\ ~Asked(c, r)
            BY <2>0, <3>1, <6>1 DEF MarksInv
          <6>3. wire[c][k] = wire'[c][k] /\ \A m \in DOMAIN wire[c] : Changes(wire[c][m], r) => m <= k
            BY <2>a, <5>2
          <6> QED BY <5>2, <6>2, <6>3 DEF LastIsRight
        <5> QED BY <2>a, <5>1, <5>2
      <4> QED BY <4>1, <4>2, <4>3
    <3>4. ASSUME NEW i \in DOMAIN list PROVE ShownIsRight(c, i)'
      <4> SUFFICES ASSUME \A k \in DOMAIN wire'[c] : ~Changes(wire'[c][k], list[i].seq)
                   PROVE  list[i].bookmarked = stored[list[i].seq].bookmarked
        BY <1>0, <1>10, <3>0 DEF ShownIsRight
      <4>1. list[i].seq # s
        BY <1>4, <2>a
      <4>2. ShownIsRight(c, i) /\ list[i].seq = pane[c].blocks[i].seq /\ list[i].bookmarked = pane[c].blocks[i].bookmarked
        BY <1>9, <2>0, <3>0, <4>1 DEF MarksInv
      <4>3. \A k \in DOMAIN wire[c] : ~Changes(wire[c][k], list[i].seq)
        BY <2>a
      <4> QED BY <3>1, <4>1, <4>2, <4>3 DEF ShownIsRight
    <3> QED BY <1>0, <1>10, <3>0, <3>3, <3>4 DEF MarksInv
  <2> QED BY <2>1, <2>2, <2>4, <2>5, <2>6 DEF AppInv
<1> QED BY <1>1, <1>6, <1>12 DEF PanesInv

(* At first nothing is stored, on its way or shown.                        *)
LEMMA PanesInit == PaneInit => PanesInv
<1> SUFFICES ASSUME PaneInit PROVE PanesInv
  OBVIOUS
<1>1. StoreInv
  <2>1. running = Nothing /\ runs = 0 /\ lines = <<>> /\ began = 1 /\ cut = FALSE /\ stored = <<>> /\ telling = Nothing /\ warned = FALSE
    BY DEF PaneInit
  <2>2. lines \in Seq(1..MaxRuns) /\ Len(lines) = 0 /\ stored \in Seq(Rowed) /\ Len(stored) = 0
    BY <2>1
  <2>3. 1 \in 1..Cap /\ 0 \in 0..MaxRuns /\ 0 <= Cap
    BY PaneLimits
  <2>4. running \in 1..MaxRuns \cup {Nothing} /\ runs \in 0..MaxRuns /\ began \in 1..Cap
    BY <2>1, <2>3
  <2>5. Len(lines) <= Cap /\ Len(stored) <= runs
    BY <2>1, <2>2, <2>3
  <2>6. cut \in BOOLEAN /\ warned \in BOOLEAN
    BY <2>1
  <2> QED
    BY <2>1, <2>2, <2>4, <2>5, <2>6, ZenonT(30) DEF StoreInv
<1>2. LineInv
  BY DEF PaneInit, LineInv
<1>3. /\ DOMAIN wire = Apps /\ DOMAIN pane = Apps /\ DOMAIN call = Apps
      /\ stored = <<>> /\ warned = FALSE /\ DOMAIN stored = {}
  BY DEF PaneInit
<1>4. ASSUME NEW a \in Apps
      PROVE  AppInv(a)
  <2>1. wire[a] = <<>> /\ pane[a] = Closed /\ call[a] = Idle
    BY DEF PaneInit
  <2>2. WireInv(a)
    BY <2>1 DEF WireInv
  <2>3. ListInv(a)
    BY <2>1, ClosedParts, EmptyList DEF ListInv
  <2>4. FullInv(a) /\ LabelInv(a)
    BY <1>3, <2>1, ClosedParts DEF FullInv, LabelInv
  <2>5. MarksInv(a)
    BY <1>3, <2>1, ClosedParts, EmptyList DEF MarksInv
  <2> QED
    BY <2>2, <2>3, <2>4, <2>5 DEF AppInv
<1> QED
  BY <1>1, <1>2, <1>3, <1>4 DEF PanesInv

(* Every step of the session thread and of the main threads keeps it.      *)
LEMMA PanesNext == PanesInv /\ [PaneNext]_paneVars => PanesInv'
<1> SUFFICES ASSUME PanesInv, [PaneNext]_paneVars PROVE PanesInv'
  OBVIOUS
<1>1. CASE UNCHANGED paneVars
  <2>1. /\ UNCHANGED <<running, runs, lines, began, cut, stored, telling, warned, wire, pane, call>>
    BY <1>1 DEF paneVars, shellVars, storeVars
  <2>2. StoreInv' /\ LineInv'
    <3>1. StoreInv /\ LineInv
      BY DEF PanesInv
    <3>2. StoreInv'
      BY <2>1, <3>1 DEF StoreInv, IsStored
    <3>3. LineInv'
      BY <2>1, <3>1 DEF LineInv
    <3> QED
      BY <3>2, <3>3
  <2>3. ASSUME NEW c \in Apps PROVE AppInv(c)'
    <3>1. AppInv(c) /\ pane[c] \in Panes
      BY DEF PanesInv, AppInv, ListInv
    <3> QED
      BY <2>1, <3>1, AppStays
  <2> QED
    BY <2>1, <2>2, <2>3 DEF PanesInv
<1>2. CASE CommandStarts
  <2>1. CASE Apps = {}
    BY <1>2, <2>1, BeginsStore DEF PanesInv, CommandStarts
  <2>2. CASE Apps # {}
    BY <1>2, <2>2, QuietStep
  <2> QED
    BY <2>1, <2>2
<1>3. ASSUME NEW works \in BOOLEAN, CommandEnds(works) PROVE PanesInv'
  BY <1>3, EndsStep
<1>4. CASE TellBlock \/ FindsCorrupted
  BY <1>4, TellStep
<1>5. ASSUME NEW a \in Apps, Hear(a) PROVE PanesInv'
  BY <1>5, HearStep
<1>6. ASSUME NEW a \in Apps, Attach(a) \/ Close(a) PROVE PanesInv'
  BY <1>6, OpenCloseStep
<1>7. ASSUME NEW a \in Apps, LoadBlocks(a) PROVE PanesInv'
  BY <1>7, LoadStep
<1>8. ASSUME NEW a \in Apps, ClearScrollback(a) PROVE PanesInv'
  BY <1>8, ClearStep
<1>9. ASSUME NEW a \in Apps, NEW i \in DOMAIN pane[a].blocks, SetBookmark(a, i) PROVE PanesInv'
  BY <1>9, SetStep
<1>10. ASSUME NEW a \in Apps, BookmarkSet(a) PROVE PanesInv'
  BY <1>10, ReplyStep
<1>11. ASSUME NEW a \in Apps, Send(a) \/ Focus(a) \/ ClickGrid(a) PROVE PanesInv'
  BY <1>11, QuietStep
<1> QED
  BY <1>1, <1>2, <1>3, <1>4, <1>5, <1>6, <1>7, <1>8, <1>9, <1>10, <1>11 DEF PaneNext

(* Blocks with numbers of their own, one for each number, are as many.     *)
LEMMA AsMany ==
    ASSUME NEW list \in Seq(Shown), NEW n \in Nat, Distinct(list),
           \A i \in DOMAIN list : list[i].seq \in 1..n,
           \A s \in 1..n : \E i \in DOMAIN list : list[i].seq = s
    PROVE  Len(list) = n
<1> DEFINE f == [i \in 1..Len(list) |-> list[i].seq]
<1>1. Len(list) \in Nat /\ DOMAIN list = 1..Len(list)
  OBVIOUS
<1>2. f \in [1..Len(list) -> 1..n]
  BY <1>1
<1>3. \A i, j \in 1..Len(list) : f[i] = f[j] => i = j
  BY <1>1 DEF Distinct
<1>4. \A s \in 1..n : \E i \in 1..Len(list) : f[i] = s
  BY <1>1
<1>5. IsFiniteSet(1..Len(list)) /\ Cardinality(1..Len(list)) = Len(list)
  BY <1>1, FS_Interval
<1>6. IsFiniteSet(1..n) /\ Cardinality(1..n) = n
  BY FS_Interval
<1>7. ExistsBijection(1..Len(list), 1..n)
  <2> HIDE DEF f
  <2>1. f \in Injection(1..Len(list), 1..n)
    BY <1>2, <1>3 DEF Injection, IsInjective
  <2>2. f \in Surjection(1..Len(list), 1..n)
    BY <1>2, <1>4 DEF Surjection
  <2> QED
    BY <2>1, <2>2 DEF ExistsBijection, Bijection
<1>8. Cardinality(1..Len(list)) = Cardinality(1..n)
  BY <1>5, <1>6, <1>7, FS_Bijection
<1> QED
  BY <1>5, <1>6, <1>8

(* What holds of the pieces is what the run checks of the whole.           *)
LEMMA PanesTrue == PanesInv => PanesAreTrue
<1> SUFFICES ASSUME PanesInv PROVE PanesAreTrue
  OBVIOUS
<1>1. StoreInv /\ LineInv /\ \A a \in Apps : AppInv(a)
  BY DEF PanesInv
<1>2. PaneTypeOK
  <2>1. running \in 1..MaxRuns \cup {Nothing} /\ runs \in 0..MaxRuns /\ \A r \in DOMAIN lines : lines[r] \in 1..MaxRuns
    <3>1. running \in 1..MaxRuns \cup {Nothing} /\ runs \in 0..MaxRuns /\ lines \in Seq(1..MaxRuns)
      BY <1>1 DEF StoreInv
    <3>2. \A S, q : q \in Seq(S) => \A r \in DOMAIN q : q[r] \in S
      OBVIOUS
    <3>3. \A r \in DOMAIN lines : lines[r] \in 1..MaxRuns
      BY <3>1, <3>2
    <3> QED
      BY <3>1, <3>3
  <2>2. ASSUME NEW a \in Apps
        PROVE  /\ \A i \in DOMAIN wire[a] : wire[a][i] \in Events
               /\ pane[a].phase \in {"unknown", "running"} /\ pane[a].keyboard \in {"editor", "grid"}
    <3>1. wire[a] \in Seq(Events) /\ pane[a] \in Panes
      BY <1>1 DEF AppInv, WireInv, ListInv
    <3> QED
      BY <3>1, PaneParts
  <2>3. ASSUME NEW a \in Apps
        PROVE  call[a] \in {Idle, Loading} \cup {Marked(seq, on) : seq \in 1..MaxRuns, on \in BOOLEAN}
    <3>1. \/ call[a] \in {Idle, Loading}
          \/ \E s \in DOMAIN stored, on \in BOOLEAN : call[a] = Marked(s, on)
      BY <1>1 DEF AppInv, ListInv
    <3>2. \A s \in DOMAIN stored : s \in 1..MaxRuns
      BY <1>1, StoredParts
    <3> QED
      BY <3>1, <3>2
  <2> QED
    BY <2>1, <2>2, <2>3 DEF PaneTypeOK
<1>3. ASSUME NEW a \in Apps
      PROVE  /\ RowsHold(a)
             /\ Settled(a) => ShowsTheStore(a) /\ DegradedIsShown(a)
  <2>1. ListInv(a) /\ FullInv(a) /\ LabelInv(a) /\ MarksInv(a)
    BY <1>1 DEF AppInv
  <2>2. /\ pane[a].blocks \in Seq(Shown) /\ InOrderOfRows(pane[a].blocks)
        /\ \A i \in DOMAIN pane[a].blocks : IsStored(pane[a].blocks[i])
    BY <2>1, PaneParts DEF ListInv
  <2>3. RowsHold(a)
    BY <1>1, <2>2 DEF RowsHold, LineInv, IsStored
  <2>4. ASSUME Settled(a) PROVE ShowsTheStore(a) /\ DegradedIsShown(a)
    <3>1. /\ pane[a].open /\ call[a] # Loading /\ wire[a] = <<>> /\ DOMAIN wire[a] = {} /\ telling = Nothing
          /\ call[a].is # "marked" /\ \A s : ~Asked(a, s)
      BY <2>4 DEF Settled, Free, Idle, Loading, Asked
    <3>2. \A i, j \in DOMAIN pane[a].blocks : i < j => Before(pane[a].blocks[i], pane[a].blocks[j])
      BY <2>2 DEF InOrderOfRows
    <3>3. Len(pane[a].blocks) = Len(stored)
      <4>1. Len(stored) \in Nat /\ DOMAIN stored = 1..Len(stored)
        BY <1>1 DEF StoreInv
      <4>2. \A s \in 1..Len(stored) : \E i \in DOMAIN pane[a].blocks : pane[a].blocks[i].seq = s
        BY <2>1, <3>1, <4>1 DEF FullInv, Listed
      <4>3. \A i \in DOMAIN pane[a].blocks : pane[a].blocks[i].seq \in 1..Len(stored)
        BY <2>2, <4>1 DEF IsStored
      <4> QED
        BY <2>2, <4>1, <4>2, <4>3, OwnNumbers, AsMany
    <3>4. \A i \in DOMAIN pane[a].blocks :
             Marking \subseteq {a} => pane[a].blocks[i].bookmarked = stored[pane[a].blocks[i].seq].bookmarked
      BY <2>1, <3>1 DEF MarksInv, ShownIsRight
    <3>5. DegradedIsShown(a)
      BY <2>1, <3>1 DEF LabelInv, DegradedIsShown
    <3> QED
      BY <2>2, <3>2, <3>3, <3>4, <3>5 DEF ShowsTheStore, IsStored
  <2> QED
    BY <2>3, <2>4
<1> QED
  BY <1>2, <1>3 DEF PanesAreTrue

(* In every state of the session thread, its store and the apps the        *)
(* invariant holds.                                                        *)
THEOREM PanesInvariant == PaneSpec => []PanesInv
<1> QED
  BY PanesInit, PanesNext, PTL DEF PaneSpec

(* Whatever order the list, the live blocks and the user's own bookmarks   *)
(* come in, for any number of apps, commands, rows and clears: a pane that *)
(* has heard everything shows each block of the table once, in the order   *)
(* of its rows and with its bookmark, says that blocks are missing when it *)
(* was told so, and has each block on the row of its command until rows    *)
(* are dropped.                                                            *)
THEOREM PanesShowTheStore == PaneSpec => []PanesAreTrue
<1> QED
  BY PanesInvariant, PanesTrue, PTL
=============================================================================
