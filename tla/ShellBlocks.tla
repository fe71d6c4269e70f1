---------------------------- MODULE ShellBlocks ----------------------------
(***************************************************************************)
(* The marks' whole way: a shell with the integration of vt-shell emits    *)
(* them, the PTY carries them, the session thread's segmenter turns them   *)
(* into stored blocks, and Agent Mode (vtermd/src/agent_mode.rs, execute)  *)
(* looks at the segmenter and at the store to run a command of its own in  *)
(* a session somebody else may be typing in.                               *)
(*                                                                         *)
(* A line is the number of its being typed; Enter on an empty line is 0.   *)
(* Rows do not matter here.                                                *)
(***************************************************************************)
EXTENDS Integers, Sequences, FiniteSets

CONSTANTS Nothing, CorruptLimit, Exits,
          Shells,      (* which of zsh, bash, fish and hooked_bash, a bash  *)
                       (* whose PROMPT_COMMAND already had something in it  *)
          MaxLines,    (* bound: lines the user types                       *)
          MaxRedraws,  (* bound: times the shell redraws its prompt         *)
          MaxCrashes   (* bound: restarts of the daemon                     *)

Enter     == 0
AgentLine == MaxLines + 1
Lines     == 1..AgentLine

VARIABLES
    shell,     (* which one                                                 *)
    stage,     (* the shell: precmd, hook, prompt, edit or running          *)
    active,    (* __vt_cmd_active                                           *)
    current,   (* the line it runs, and once it has run, ran                *)
    status,    (* $?                                                        *)
    tty,       (* lines typed and not read yet                              *)
    pty,       (* marks on their way to the session thread                  *)
    typed,     (* lines the user has typed                                  *)
    redraws,   (* prompts redrawn                                           *)
    daemon,    (* up or down                                                *)
    crashes,   (* how often it went down                                    *)
    agent,     (* execute: idle, settled, counted, waiting, done, gave_up   *)
    after,     (* execute: last_seq                                         *)
    result,    (* execute: the block it found                               *)
    open, pendingCmdline, disorder, corrupted, blocks, warnings,
    ran,       (* history: the lines that ran and how they ended            *)
    titled,    (* history: the line the last E named                        *)
    quiet      (* history: the agent found the prompt idle, and nobody has  *)
               (* typed since                                               *)

shellVars == <<shell, stage, active, current, status, tty, pty, redraws, ran, titled>>
agentVars == <<agent, after, result, quiet>>
segVars   == <<open, pendingCmdline, disorder, corrupted, blocks, warnings>>
wayVars == <<shellVars, agentVars, segVars, typed, daemon, crashes>>

Seg == INSTANCE Segmenter WITH None <- Nothing, row <- 0, inputs <- 0, RowsMayFall <- TRUE, MaxRow <- 0,
                               MaxInputs <- 0

ASSUME ShellBlocksAssumption ==
    /\ Shells # {} /\ Shells \subseteq {"zsh", "bash", "fish", "hooked_bash"}
    /\ CorruptLimit \in Nat \ {0, 1} /\ Nothing \notin Nat \cup Exits \cup Seg!Open
    /\ MaxLines \in Nat /\ MaxRedraws \in Nat /\ MaxCrashes \in Nat

A == [kind |-> "A"]
B == [kind |-> "B"]
C == [kind |-> "C"]
D(exit) == [kind |-> "D", exit |-> exit]
E(line) == [kind |-> "E", cmdline |-> line]

ShellInit ==
    /\ shell \in Shells
    /\ stage = "precmd" /\ active = FALSE /\ current = Enter /\ status \in Exits
    /\ tty = <<>> /\ pty = <<>> /\ typed = 0 /\ redraws = 0
    /\ daemon = "up" /\ crashes = 0
    /\ agent = "idle" /\ after = 0 /\ result = Nothing
    /\ Seg!Init
    /\ ran = <<>> /\ titled = Enter /\ quiet = FALSE

Emit(marks) == pty' = pty \o marks

-----------------------------------------------------------------------------
(* The shell.  zsh and bash close the previous command in precmd, fish in  *)
(* postexec.                                                               *)

(* Mutation: precmd closes a command every time. *)
PrecmdAlways ==
    /\ stage = "precmd" /\ stage' = IF shell = "hooked_bash" THEN "hook" ELSE "prompt"
    /\ Emit(IF shell # "fish" THEN <<D(status), A>> ELSE <<A>>) /\ active' = FALSE
    /\ UNCHANGED <<shell, current, status, tty, redraws, ran, titled, agentVars, segVars, typed,
                   daemon, crashes>>

Precmd ==
    /\ stage = "precmd" /\ stage' = IF shell = "hooked_bash" THEN "hook" ELSE "prompt"
    /\ Emit(IF active /\ shell # "fish" THEN <<D(status), A>> ELSE <<A>>) /\ active' = FALSE
    /\ UNCHANGED <<shell, current, status, tty, redraws, ran, titled, agentVars, segVars, typed,
                   daemon, crashes>>

(* bash: the DEBUG trap fires for what PROMPT_COMMAND held before, which   *)
(* runs after precmd; the trap names the last line of the history.         *)
Hook ==
    /\ stage = "hook" /\ stage' = "prompt"
    /\ Emit(<<E(current), C>>) /\ active' = TRUE /\ titled' = current
    /\ UNCHANGED <<shell, current, status, tty, redraws, ran, agentVars, segVars, typed, daemon, crashes>>

(* The prompt itself carries the B. *)
Prompt ==
    /\ stage = "prompt" /\ stage' = "edit" /\ Emit(<<B>>)
    /\ UNCHANGED <<shell, active, current, status, tty, redraws, ran, titled, agentVars, segVars, typed,
                   daemon, crashes>>

(* The line editor draws the prompt again: a resize, a repaint. *)
Redraw ==
    /\ stage = "edit" /\ redraws < MaxRedraws /\ redraws' = redraws + 1 /\ Emit(<<B>>)
    /\ UNCHANGED <<shell, stage, active, current, status, tty, ran, titled, agentVars, segVars, typed,
                   daemon, crashes>>

(* A line is read: an empty one brings the next prompt, another one is     *)
(* announced by preexec and runs.  bash's trap is silent while active.     *)
ReadLine ==
    /\ stage = "edit" /\ tty # <<>> /\ tty' = Tail(tty)
    /\ IF Head(tty) = Enter
         THEN stage' = "precmd" /\ UNCHANGED <<active, current, pty, titled>>
         ELSE /\ stage' = "running" /\ current' = Head(tty) /\ active' = TRUE
              /\ IF shell \in {"bash", "hooked_bash"} /\ active THEN UNCHANGED <<pty, titled>>
                 ELSE Emit(<<E(Head(tty)), C>>) /\ titled' = Head(tty)
    /\ UNCHANGED <<shell, status, redraws, ran, agentVars, segVars, typed, daemon, crashes>>

(* The command ends. *)
CommandEnds(exit) ==
    /\ stage = "running" /\ stage' = "precmd" /\ status' = exit
    /\ ran' = Append(ran, <<current, exit>>)
    /\ IF shell = "fish" THEN Emit(<<D(exit)>>) ELSE UNCHANGED pty
    /\ UNCHANGED <<shell, active, current, tty, redraws, titled, agentVars, segVars, typed, daemon, crashes>>

(* The program reads a line meant for the shell, or for it. *)
ProgramReads ==
    /\ stage = "running" /\ tty # <<>> /\ tty' = Tail(tty)
    /\ UNCHANGED <<shell, stage, active, current, status, pty, redraws, ran, titled, agentVars, segVars,
                   typed, daemon, crashes>>

UserTypes(line) ==
    /\ daemon = "up" /\ typed < MaxLines /\ typed' = typed + 1 /\ line \in {Enter, typed + 1}
    /\ tty' = Append(tty, line) /\ quiet' = FALSE
    /\ UNCHANGED <<shell, stage, active, current, status, pty, redraws, ran, titled, agent, after, result, segVars,
                   daemon, crashes>>

-----------------------------------------------------------------------------
(* The session thread: the next mark. *)
Segment ==
    /\ daemon = "up" /\ pty # <<>>
    /\ Seg!OnMark(Head(pty), 0) /\ pty' = Tail(pty)
    /\ UNCHANGED <<shell, stage, active, current, status, tty, redraws, ran, titled, agentVars, typed,
                   daemon, crashes>>

(* The daemon goes down, and with it Agent Mode's run. *)
Crash ==
    /\ daemon = "up" /\ crashes < MaxCrashes /\ crashes' = crashes + 1 /\ daemon' = "down"
    /\ agent' = IF agent = "idle" THEN agent ELSE "gave_up"
    /\ UNCHANGED <<shellVars, after, result, quiet, segVars, typed>>

(* session.rs, Replay: the marks of what the holder buffered are dropped,  *)
(* and the segmenter starts afresh.                                        *)
Readopt ==
    /\ daemon = "down" /\ daemon' = "up" /\ pty' = <<>>
    /\ open' = Nothing /\ pendingCmdline' = Nothing /\ disorder' = 0 /\ corrupted' = FALSE
    /\ UNCHANGED <<shell, stage, active, current, status, tty, redraws, ran, titled, agentVars, blocks,
                   warnings, typed, crashes>>

-----------------------------------------------------------------------------
(* agent_mode.rs: execute. *)
AgentStep(from, to) == daemon = "up" /\ agent = from /\ agent' = to

(* Is the shell at its prompt, as the segmenter sees it?  Otherwise wait,  *)
(* three seconds at most.                                                  *)
Settle ==
    /\ \/ AgentStep("idle", "settled") /\ Seg!AtPrompt
       \/ AgentStep("idle", "gave_up") /\ ~Seg!AtPrompt
    /\ quiet' = (stage = "edit" /\ tty = <<>> /\ pty = <<>>)
    /\ UNCHANGED <<shellVars, after, result, segVars, typed, daemon, crashes>>

(* Mutation: whatever the store has counts. *)
CountBlocksNone ==
    /\ AgentStep("settled", "counted") /\ after' = 0
    /\ UNCHANGED <<shellVars, result, quiet, segVars, typed, daemon, crashes>>

CountBlocks ==
    /\ AgentStep("settled", "counted") /\ after' = Len(blocks)
    /\ UNCHANGED <<shellVars, result, quiet, segVars, typed, daemon, crashes>>

TypeCommand ==
    /\ AgentStep("counted", "waiting") /\ tty' = Append(tty, AgentLine)
    /\ UNCHANGED <<shell, stage, active, current, status, pty, redraws, ran, titled, after, result, quiet,
                   segVars, typed, daemon, crashes>>

HasExit(b) == b.kind = "command" /\ b.exit # Nothing

(* Mutation: looks one block further. *)
FindAfterNext ==
    /\ AgentStep("waiting", "done")
    /\ \E i \in after + 2..Len(blocks) :
           HasExit(blocks[i]) /\ (\A j \in after + 2..i - 1 : ~HasExit(blocks[j]))
           /\ result' = blocks[i]
    /\ UNCHANGED <<shellVars, after, quiet, segVars, typed, daemon, crashes>>

(* The first finished command after what was there before. *)
Find ==
    /\ AgentStep("waiting", "done")
    /\ \E i \in after + 1..Len(blocks) :
           HasExit(blocks[i]) /\ (\A j \in after + 1..i - 1 : ~HasExit(blocks[j]))
           /\ result' = blocks[i]
    /\ UNCHANGED <<shellVars, after, quiet, segVars, typed, daemon, crashes>>

(* COMMAND_TIMEOUT *)
Timeout ==
    /\ AgentStep("waiting", "gave_up")
    /\ UNCHANGED <<shellVars, after, result, quiet, segVars, typed, daemon, crashes>>

ShellNext ==
    \/ Precmd \/ Hook \/ Prompt \/ Redraw \/ ReadLine \/ ProgramReads
    \/ \E exit \in Exits : CommandEnds(exit)
    \/ \E line \in Enter..MaxLines : UserTypes(line)
    \/ Segment \/ Crash \/ Readopt
    \/ Settle \/ CountBlocks \/ TypeCommand \/ Find \/ Timeout

ShellSpec == ShellInit /\ [][ShellNext]_wayVars

(* The shell's own steps and the session thread's are taken; nobody has to *)
(* type, and a command need not end. *)
Fairness == /\ WF_wayVars(Precmd \/ Hook \/ Prompt) /\ WF_wayVars(Segment) /\ WF_wayVars(Readopt)
            /\ WF_wayVars(Find) /\ WF_wayVars(ReadLine)

-----------------------------------------------------------------------------
(* Types. *)
BlocksTypeOK ==
    /\ shell \in Shells /\ stage \in {"precmd", "hook", "prompt", "edit", "running"} /\ active \in BOOLEAN
    /\ quiet \in BOOLEAN /\ current \in Lines \cup {Enter} /\ titled \in Lines \cup {Enter} /\ status \in Exits
    /\ tty \in Seq(Lines \cup {Enter})
    /\ pty \in Seq({A, B, C} \cup {D(x) : x \in Exits} \cup {E(l) : l \in Lines \cup {Enter}})
    /\ typed \in 0..MaxLines /\ redraws \in 0..MaxRedraws /\ crashes \in 0..MaxCrashes
    /\ daemon \in {"up", "down"} /\ after \in Nat
    /\ agent \in {"idle", "settled", "counted", "waiting", "done", "gave_up"}
    /\ ran \in Seq(Lines \X Exits)

(* The integration never makes the segmenter believe its own marks are     *)
(* corrupted, also when prompts are redrawn and lines are empty or typed   *)
(* ahead; a restart of the daemon between a C and its D costs one mark.    *)
OwnMarksInOrder == shell # "hooked_bash" => ~corrupted /\ disorder <= crashes

(* What the store says ran, ran: its finished commands are, in order and   *)
(* each once, lines the shell ran, with the status they ended with; none   *)
(* is missing once the marks are through. *)
Finished == {i \in DOMAIN blocks : HasExit(blocks[i])}
Nth(i) == Cardinality({j \in Finished : j <= i})

BlocksFollowCommands ==
    crashes = 0 /\ shell # "hooked_bash" =>
        /\ \A i \in Finished : Nth(i) <= Len(ran) /\ ran[Nth(i)] = <<blocks[i].cmdline, blocks[i].exit>>
        /\ pty = <<>> /\ stage = "edit" => Cardinality(Finished) = Len(ran)

(* Once the marks are through, at_prompt is TRUE only when no command      *)
(* runs, also after a restart in the middle of one: whoever looks before   *)
(* typing does not type into a program. *)
PromptIsHonest ==
    shell # "hooked_bash" /\ pty = <<>> /\ daemon = "up" /\ Seg!AtPrompt => stage # "running"

(* An agent that finds the prompt idle and that nobody interrupts takes    *)
(* the finished block of its own command, whatever ran before. *)
AgentAlone ==
    shell # "hooked_bash" /\ quiet /\ result # Nothing => result.cmdline = AgentLine

(* A command Agent Mode typed and that ended comes back to it, or it gives *)
(* up. *)
AgentHears ==
    shell # "hooked_bash" /\ agent = "waiting" /\ (\E i \in DOMAIN ran : ran[i][1] = AgentLine)
        ~> agent # "waiting"

(* A bash whose own prompt commands set the trap off is found out: fewer   *)
(* finished blocks than the limit of disorder name no line.  A restart     *)
(* forgets the disorder seen so far. *)
Untitled == {i \in Finished : blocks[i].cmdline \notin Lines}
WrongBlocksAreFew == crashes = 0 => Cardinality(Untitled) < CorruptLimit

(* The blocks that are kept and the prompt that is seen are those of the   *)
(* shell. *)
BlocksAreTrue == BlocksTypeOK /\ BlocksFollowCommands /\ PromptIsHonest /\ WrongBlocksAreFew /\ OwnMarksInOrder

-----------------------------------------------------------------------------
(* What the documentation says and the code does not do. *)

(* execute types the command at the prompt. *)
TypedAtPrompt == [][TypeCommand => stage # "running"]_wayVars

(* It waits for the block of that command. *)
ResultIsOwn == result # Nothing => result.cmdline = AgentLine

(* The first simple command after a prompt is the user's command line: the *)
(* marks name the line that runs. *)
TrapNamesTheLine == stage = "running" => titled = current

(* What is replayed to a re-adopting daemon has been seen. *)
ReplayIsHistory == [][daemon = "down" /\ daemon' = "up" => pty = <<>>]_wayVars
=============================================================================
