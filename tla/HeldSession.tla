----------------------------- MODULE HeldSession -----------------------------
(***************************************************************************)
(* One session of vtermd, from the row in the store to the child process:  *)
(* the holder process that owns the PTY (vtermd/src/bin/hold.rs), the      *)
(* daemon's end of its control socket (holder.rs), the session thread      *)
(* (session.rs), and the registry that creates and re-adopts the session   *)
(* (registry.rs) over the sessions table (vt-store/src/sessions.rs).       *)
(*                                                                         *)
(* Daemon, holder and child fail and end independently.  Daemons follow    *)
(* one another (launchd keeps one alive); each opens one connection, named *)
(* by the number of its start.  Output is a sequence of numbered chunks.   *)
(* The holder's main loop keeps the grain of the code: what poll(2) said   *)
(* is stale by the time it is acted upon.                                  *)
(***************************************************************************)
EXTENDS Integers, Sequences, FiniteSets

CONSTANTS Codes,        (* exit codes of the child                          *)
          NoCode,       (* Option::None: killed by a signal, or not known   *)
          Unset,        (* not reported, not recorded, no file, no client   *)
          MaxStarts,    (* bound: starts of the daemon                      *)
          MaxOutput,    (* bound: chunks the child writes                   *)
          RingChunks,   (* RING_BYTES, in chunks                            *)
          HolderMayDie  (* whether the holder can be killed                 *)

ASSUME HeldSessionAssumption ==
    /\ MaxStarts \in Nat \ {0} /\ MaxOutput \in Nat /\ RingChunks \in Nat \ {0}
    /\ HolderMayDie \in BOOLEAN
    /\ Codes \cap {"unborn", "running", "signalled"} = {}
    /\ NoCode \notin Codes /\ Unset \notin Codes \cup {NoCode} /\ Unset \notin Nat

Starts == 1..MaxStarts

VARIABLES
    child,      (* the child process: its exit status once it has exited    *)
    ttyOpen,    (* some process still holds the slave side of the PTY       *)
    written,    (* chunks written to the PTY so far                         *)
    hold,       (* where the holder's main loop is                          *)
    reaped,     (* hold.rs: exited                                          *)
    drained,    (* hold.rs: master_eof                                      *)
    read,       (* chunks the holder has read, and pushed to its ring       *)
    ready,      (* what poll reported                                       *)
    client,     (* hold.rs: client, the start whose connection it is        *)
    exitFile,   (* <socket>.exit                                            *)
    conn,       (* per start: none, queued, open or closed by the holder    *)
    chan,       (* per start: frames sent and not yet read                  *)
    start,      (* how often a daemon has started                           *)
    dpc,        (* where the daemon's create or readopt_all is              *)
    creating,   (* it is create, not readopt_all                            *)
    thread,     (* the session thread: none, run, stored, done              *)
    handle,     (* Registry.sessions has the session                        *)
    screen,     (* chunks fed to the terminal core, in order                *)
    exitSeen,   (* session.rs: exit_code, the outer option                  *)
    eof,        (* session.rs: eof                                          *)
    row         (* the session's row in the store                           *)

childVars  == <<child, ttyOpen, written>>
holderVars == <<hold, reaped, drained, read, ready, client, exitFile>>
connVars   == <<conn, chan>>
threadVars == <<thread, screen, exitSeen, eof>>
daemonVars == <<start, dpc, creating, handle>>
vars == <<childVars, holderVars, connVars, threadVars, daemonVars, row>>

-----------------------------------------------------------------------------
Up == dpc # "down"

\* The daemon's end of a connection is open as long as that daemon lives.
Alive(d) == d = start /\ Up

\* connect(2) succeeds: the socket is bound and the process exists.
Listening == hold \in {"spawn", "top", "poll", "serve", "probe", "finish", "leaving"}

\* ExitStatus::code, None for a child killed by a signal.
ExitCode == IF child \in Codes THEN child ELSE NoCode

Exited == child \notin {"unborn", "running"}

\* The last RING_BYTES the holder has read.
Ring == LET n == IF read > RingChunks THEN RingChunks ELSE read
        IN  [i \in 1..n |-> read - n + i]

\* What a new connection is sent after the descriptor.
Replay(d) == <<"replay", Ring>>

\* Mutant: a reported exit ends the session, drained or not.
EndOnExit == eof \/ exitSeen # Unset

\* Mutant: without a report from the holder the session does not end.
EndOnReport == eof /\ exitSeen # Unset

\* The PTY drained and the holder reported the exit, or stayed silent for
\* two seconds.
MayEnd == eof

Init ==
    /\ child = "unborn" /\ ttyOpen = FALSE /\ written = 0
    /\ hold = "none" /\ reaped = FALSE /\ drained = FALSE /\ read = 0
    /\ ready = {} /\ client = Unset /\ exitFile = Unset
    /\ conn = [d \in Starts |-> "none"] /\ chan = [d \in Starts |-> <<>>]
    /\ start = 1 /\ dpc = "idle" /\ creating = FALSE
    /\ thread = "none" /\ handle = FALSE
    /\ screen = <<>> /\ exitSeen = Unset /\ eof = FALSE
    /\ row = [present |-> FALSE, ended |-> FALSE, exit |-> NoCode,
              orphaned |-> FALSE, socket |-> FALSE]

-----------------------------------------------------------------------------
(***************************************************************************)
(* The child, and whatever it leaves running on the terminal.              *)
(***************************************************************************)
Write ==
    /\ ttyOpen /\ written < MaxOutput
    /\ written' = written + 1
    /\ UNCHANGED <<child, ttyOpen, holderVars, connVars, threadVars, daemonVars, row>>

ChildExits(status) ==
    /\ child = "running"
    /\ child' = status
    /\ UNCHANGED <<ttyOpen, written, holderVars, connVars, threadVars, daemonVars, row>>

\* The last slave descriptor is closed: usually by the child's exit, earlier
\* by a child that detaches, later by a job it leaves behind.
TtyCloses ==
    /\ ttyOpen
    /\ ttyOpen' = FALSE
    /\ UNCHANGED <<child, written, holderVars, connVars, threadVars, daemonVars, row>>

-----------------------------------------------------------------------------
(***************************************************************************)
(* The holder.                                                             *)
(***************************************************************************)
Bind ==
    /\ hold = "starting"
    /\ hold' = "spawn"
    /\ UNCHANGED <<childVars, reaped, drained, read, ready, client, exitFile,
                   connVars, threadVars, daemonVars, row>>

\* The holder's sockets go away with it.
HangUp == conn' = [d \in Starts |-> IF conn[d] = "none" THEN "none" ELSE "closed"]

SpawnChild ==
    /\ hold = "spawn"
    /\ hold' = "top"
    /\ child' = "running" /\ ttyOpen' = TRUE
    /\ UNCHANGED <<written, reaped, drained, read, ready, client, exitFile,
                   connVars, threadVars, daemonVars, row>>

\* No such program, no such directory: the socket is removed, exit(2).
SpawnFails ==
    /\ hold = "spawn"
    /\ hold' = "gone"
    /\ HangUp
    /\ UNCHANGED <<childVars, reaped, drained, read, ready, client, exitFile,
                   chan, threadVars, daemonVars, row>>

\* The loop ends when the child is reaped and its output is drained.
Top ==
    /\ hold = "top"
    /\ reaped' = Exited
    /\ hold' = IF reaped' /\ drained THEN "finish" ELSE "poll"
    /\ UNCHANGED <<childVars, drained, read, ready, client, exitFile, connVars,
                   threadVars, daemonVars, row>>

\* An exit frame to the client, whether or not it arrives; a file otherwise.
Finish ==
    /\ hold = "finish"
    /\ hold' = "leaving"
    /\ exitFile' = IF client = Unset THEN ExitCode ELSE exitFile
    /\ chan' = IF client # Unset /\ Alive(client)
               THEN [chan EXCEPT ![client] = Append(@, <<"exit", ExitCode>>)]
               ELSE chan
    /\ UNCHANGED <<childVars, reaped, drained, read, ready, client, conn,
                   threadVars, daemonVars, row>>

\* The socket is removed and the process ends.
Leave ==
    /\ hold = "leaving"
    /\ hold' = "gone"
    /\ HangUp
    /\ UNCHANGED <<childVars, reaped, drained, read, ready, client, exitFile,
                   chan, threadVars, daemonVars, row>>

Queued == {d \in Starts : conn[d] = "queued"}

Poll ==
    /\ hold = "poll"
    /\ hold' = "serve"
    /\ ready' = {x \in {"listener", "master", "client"} :
                   \/ x = "listener" /\ Queued # {}
                   \/ x = "master" /\ ~drained /\ (read < written \/ ~ttyOpen)
                   \/ x = "client" /\ client # Unset /\ ~Alive(client)}
    /\ UNCHANGED <<childVars, reaped, drained, read, client, exitFile, connVars,
                   threadVars, daemonVars, row>>

\* One daemon at a time: the newer connection replaces the older one, unless
\* the descriptor cannot be sent because that daemon is dead already.
Accept ==
    /\ hold = "serve" /\ "listener" \in ready
    /\ hold' = "top"
    /\ LET d == CHOOSE q \in Queued : \A p \in Queued : q <= p
       IN  IF Alive(d)
           THEN /\ client' = d
                /\ conn' = [e \in Starts |-> IF e = d THEN "open" ELSE
                                             IF e = client THEN "closed" ELSE conn[e]]
                /\ chan' = [chan EXCEPT ![d] =
                     @ \o << <<"fd", IF reaped THEN ExitCode ELSE NoCode>>,
                             Replay(d) >>]
           ELSE /\ conn' = [conn EXCEPT ![d] = "closed"]
                /\ UNCHANGED <<client, chan>>
    /\ UNCHANGED <<childVars, reaped, drained, read, ready, exitFile, threadVars,
                   daemonVars, row>>

\* A chunk goes to the ring and to the client; a failed write forgets the
\* client.  A read that returns nothing is the end of the output.
ReadMaster ==
    /\ hold = "serve" /\ "listener" \notin ready /\ "master" \in ready
    /\ hold' = "probe"
    /\ IF read < written
       THEN /\ read' = read + 1
            /\ UNCHANGED drained
            /\ IF client = Unset THEN UNCHANGED <<client, conn, chan>>
               ELSE IF Alive(client)
               THEN /\ chan' = [chan EXCEPT ![client] = Append(@, <<"output", read + 1>>)]
                    /\ UNCHANGED <<client, conn>>
               ELSE /\ client' = Unset
                    /\ conn' = [conn EXCEPT ![client] = "closed"]
                    /\ UNCHANGED chan
       ELSE /\ drained' = TRUE
            /\ UNCHANGED <<read, client, conn, chan>>
    /\ UNCHANGED <<childVars, reaped, ready, exitFile, threadVars, daemonVars, row>>

NoMaster ==
    /\ hold = "serve" /\ ready \cap {"listener", "master"} = {}
    /\ hold' = "probe"
    /\ UNCHANGED <<childVars, reaped, drained, read, ready, client, exitFile,
                   connVars, threadVars, daemonVars, row>>

\* Anything readable on the control socket means the daemon went away.
Probe ==
    /\ hold = "probe"
    /\ hold' = "top"
    /\ IF "client" \in ready /\ client # Unset
       THEN /\ client' = Unset
            /\ conn' = [conn EXCEPT ![client] = "closed"]
       ELSE UNCHANGED <<client, conn>>
    /\ UNCHANGED <<childVars, reaped, drained, read, ready, exitFile, chan,
                   threadVars, daemonVars, row>>

\* kill -9, or the machine's memory: nothing is reported, nothing is filed.
HolderDies ==
    /\ HolderMayDie /\ hold \notin {"none", "gone", "killed"}
    /\ hold' = "killed"
    /\ HangUp
    /\ UNCHANGED <<childVars, reaped, drained, read, ready, client, exitFile,
                   chan, threadVars, daemonVars, row>>

-----------------------------------------------------------------------------
(***************************************************************************)
(* The daemon's main line: Registry::create on an RPC thread of the first  *)
(* start, Registry::readopt_all before a later start accepts clients.      *)
(***************************************************************************)
Step(from, to) == dpc = from /\ dpc' = to

\* The row is written before anything runs: no holder, no exit code.
Provision ==
    /\ Step("idle", "launch")
    /\ ~row.present
    /\ creating' = TRUE
    /\ row' = [row EXCEPT !.present = TRUE]
    /\ UNCHANGED <<childVars, holderVars, connVars, threadVars, start, handle>>

\* The holder is spawned in a session of its own.
Launch ==
    /\ Step("launch", "connect")
    /\ hold' = "starting"
    /\ exitFile' = Unset
    /\ UNCHANGED <<childVars, reaped, drained, read, ready, client, connVars,
                   threadVars, start, creating, handle, row>>

\* readopt_all takes the rows that have not ended.
Readopt ==
    /\ Step("boot", IF row.present /\ ~row.ended
                    THEN IF row.socket THEN "connect" ELSE "unreachable"
                    ELSE "idle")
    /\ creating' = FALSE
    /\ UNCHANGED <<childVars, holderVars, connVars, threadVars, start, handle, row>>

Connect ==
    /\ Step("connect", "handshake")
    /\ Listening
    /\ conn' = [conn EXCEPT ![start] = "queued"]
    /\ UNCHANGED <<childVars, holderVars, chan, threadVars, start, creating, handle, row>>

\* The holder is gone and left the exit of its child: a re-adopted session
\* ends with that code, a session being created fails to be.
FindExit ==
    /\ Step("connect", "idle")
    /\ ~Listening /\ exitFile # Unset
    /\ row' = IF creating THEN row ELSE [row EXCEPT !.ended = TRUE, !.exit = exitFile]
    /\ UNCHANGED <<childVars, holderVars, connVars, threadVars, start, creating, handle>>

\* Nobody answers for 5 s, or 500 ms.
GiveUp ==
    /\ Step("connect", "unreachable")
    /\ ~Listening /\ exitFile = Unset
    /\ UNCHANGED <<childVars, holderVars, connVars, threadVars, start, creating,
                   handle, row>>

HandshakeFails ==
    /\ Step("handshake", "unreachable")
    /\ conn[start] = "closed" /\ chan[start] = <<>>
    /\ UNCHANGED <<childVars, holderVars, connVars, threadVars, start, creating,
                   handle, row>>

\* Mutant: a session that cannot be re-adopted is skipped.
UnreachableSkipped ==
    /\ Step("unreachable", "idle")
    /\ UNCHANGED <<childVars, holderVars, connVars, threadVars, start, creating,
                   handle, row>>

Unreachable ==
    /\ Step("unreachable", "idle")
    /\ row' = IF creating THEN row ELSE [row EXCEPT !.orphaned = TRUE]
    /\ UNCHANGED <<childVars, holderVars, connVars, threadVars, start, creating, handle>>

\* The descriptor arrives and session::start runs the thread; an exit in the
\* header is queued before the first frame.
Handshake ==
    /\ Step("handshake", "insert")
    /\ chan[start] # <<>>
    /\ chan' = [chan EXCEPT ![start] = Tail(@)]
    /\ thread' = "run"
    /\ exitSeen' = LET exited == Head(chan[start])[2]
                   IN  IF exited = NoCode THEN Unset ELSE exited
    /\ UNCHANGED <<childVars, holderVars, conn, screen, eof, start, creating,
                   handle, row>>

Insert ==
    /\ Step("insert", IF creating THEN "record" ELSE "idle")
    /\ handle' = TRUE
    /\ UNCHANGED <<childVars, holderVars, connVars, threadVars, start, creating, row>>

\* Mutant: the upsert also writes ended_at.
RecordRevives ==
    /\ Step("record", "idle")
    /\ row' = [row EXCEPT !.socket = TRUE, !.exit = NoCode, !.ended = FALSE]
    /\ UNCHANGED <<childVars, holderVars, connVars, threadVars, start, creating, handle>>

\* The second upsert of create adds the holder's socket, and writes the exit
\* code of a session it takes for running; ended_at is left as it is.
Record ==
    /\ Step("record", "idle")
    /\ row' = [row EXCEPT !.socket = TRUE, !.exit = NoCode]
    /\ UNCHANGED <<childVars, holderVars, connVars, threadVars, start, creating, handle>>

-----------------------------------------------------------------------------
(***************************************************************************)
(* The session thread, with the reader thread that feeds it.               *)
(***************************************************************************)
Frame ==
    /\ thread = "run" /\ ~eof
    /\ chan[start] # <<>>
    /\ LET f == Head(chan[start])
       IN  CASE f[1] = "replay" -> screen' = screen \o f[2] /\ UNCHANGED <<exitSeen, eof>>
             [] f[1] = "output" -> screen' = Append(screen, f[2]) /\ UNCHANGED <<exitSeen, eof>>
             [] f[1] = "exit"   -> exitSeen' = f[2] /\ eof' = TRUE /\ UNCHANGED screen
    /\ chan' = [chan EXCEPT ![start] = Tail(@)]
    /\ UNCHANGED <<childVars, holderVars, conn, thread, daemonVars, row>>

\* The holder closed the connection.
Eof ==
    /\ thread = "run" /\ ~eof
    /\ chan[start] = <<>> /\ conn[start] = "closed"
    /\ eof' = TRUE
    /\ UNCHANGED <<childVars, holderVars, connVars, thread, screen, exitSeen,
                   daemonVars, row>>

\* readopt_all holds the store until the session is listed;
\* create does not.
End ==
    /\ thread = "run" /\ MayEnd
    /\ ~(dpc = "insert" /\ ~creating)
    /\ thread' = "stored"
    /\ row' = [row EXCEPT !.ended = TRUE,
                          !.exit = IF exitSeen = Unset THEN NoCode ELSE exitSeen]
    /\ UNCHANGED <<childVars, holderVars, connVars, screen, exitSeen, eof, daemonVars>>

Remove ==
    /\ thread = "stored"
    /\ thread' = "done"
    /\ handle' = FALSE
    /\ UNCHANGED <<childVars, holderVars, connVars, screen, exitSeen, eof, start,
                   dpc, creating, row>>

-----------------------------------------------------------------------------
(***************************************************************************)
(* The daemon dies with everything it has in memory, and is started again. *)
(***************************************************************************)
Crash ==
    /\ Up /\ start < MaxStarts
    /\ dpc' = "down"
    /\ thread' = "none" /\ handle' = FALSE
    /\ screen' = <<>> /\ exitSeen' = Unset /\ eof' = FALSE
    /\ UNCHANGED <<childVars, holderVars, connVars, start, creating, row>>

Restart ==
    /\ Step("down", "boot")
    /\ start' = start + 1
    /\ UNCHANGED <<childVars, holderVars, connVars, threadVars, creating, handle, row>>

-----------------------------------------------------------------------------
Holder == \/ Bind \/ SpawnChild \/ SpawnFails \/ Top \/ Finish \/ Leave \/ Poll
          \/ Accept \/ ReadMaster \/ NoMaster \/ Probe

Daemon == \/ Launch \/ Readopt \/ Connect \/ FindExit \/ GiveUp \/ HandshakeFails
          \/ Unreachable \/ Handshake \/ Insert \/ Record \/ Restart

Thread == Frame \/ Eof \/ End \/ Remove

Environment == \/ Write \/ (\E status \in Codes \cup {"signalled"} : ChildExits(status))
               \/ TtyCloses \/ HolderDies \/ Crash \/ Provision

Next == Holder \/ Daemon \/ Thread \/ Environment

Spec == Init /\ [][Next]_vars

(***************************************************************************)
(* Every process that can run does; launchd restarts a daemon that died.   *)
(* The child need not write, exit or close anything.                       *)
(***************************************************************************)
FairSpec == Spec /\ WF_vars(Holder) /\ WF_vars(Daemon) /\ WF_vars(Thread)

-----------------------------------------------------------------------------
(***************************************************************************)
(* Properties.                                                             *)
(***************************************************************************)
Status == Codes \cup {NoCode, Unset}

Frames == ({"fd", "exit"} \X (Codes \cup {NoCode})) \cup ({"output"} \X (1..MaxOutput))
          \cup ({"replay"} \X UNION {[1..n -> 1..MaxOutput] : n \in 0..RingChunks})

\* Types of every variable.
TypeOK ==
    /\ child \in {"unborn", "running", "signalled"} \cup Codes
    /\ ttyOpen \in BOOLEAN /\ written \in 0..MaxOutput
    /\ hold \in {"none", "starting", "spawn", "top", "poll", "serve", "probe",
                 "finish", "leaving", "gone", "killed"}
    /\ reaped \in BOOLEAN /\ drained \in BOOLEAN /\ read \in 0..written
    /\ ready \subseteq {"listener", "master", "client"}
    /\ client \in Starts \cup {Unset} /\ exitFile \in Status
    /\ conn \in [Starts -> {"none", "queued", "open", "closed"}]
    /\ chan \in [Starts -> Seq(Frames)]
    /\ start \in Starts
    /\ dpc \in {"down", "boot", "idle", "launch", "connect", "handshake",
                "unreachable", "insert", "record"}
    /\ creating \in BOOLEAN /\ handle \in BOOLEAN
    /\ thread \in {"none", "run", "stored", "done"}
    /\ screen \in Seq(1..MaxOutput)
    /\ exitSeen \in Status /\ eof \in BOOLEAN
    /\ row \in [present : BOOLEAN, ended : BOOLEAN, exit : Codes \cup {NoCode},
                orphaned : BOOLEAN, socket : BOOLEAN]

\* The grid is what the child wrote: the replay and the live output join
\* without a gap or a repetition, also after any number of restarts.
ScreenIsOutput ==
    \A i \in 1..Len(screen) :
        screen[i] = screen[1] + i - 1 /\ (screen[1] = 1 \/ screen[1] <= read - RingChunks + 1)

\* Nothing the holder has read is missing from the grid of an attached
\* daemon that has caught up.
GridIsCurrent ==
    (thread = "run" /\ chan[start] = <<>> /\ read > 0 /\ hold # "killed" /\ conn[start] = "open")
    => screen # <<>> /\ screen[Len(screen)] = read

\* A session that ends keeps the last thing its child wrote, and ends with
\* the code its holder reported, unless the holder was killed.
EndsDrained ==
    (thread \in {"stored", "done"} /\ hold # "killed")
    => /\ Exited /\ ~ttyOpen
       /\ exitSeen = ExitCode
       /\ written > 0 => screen # <<>> /\ screen[Len(screen)] = written

\* A session is never given up while its child runs, and never with the
\* wrong code.
EndedIsTrue == row.ended /\ hold # "killed" => Exited /\ row.exit \in {ExitCode, NoCode}

\* What a session shows and what its row says is what its child wrote and
\* how it ended, over every restart.
SessionIsTrue == TypeOK /\ ScreenIsOutput /\ GridIsCurrent /\ EndsDrained /\ EndedIsTrue

\* An end is final: nothing that happens later makes the session live again.
EndIsFinal == [][row.ended => row'.ended]_vars

\* A child that has exited is noticed: its session ends, or is orphaned.
ExitSurfaces == (thread = "run" /\ Exited /\ ~ttyOpen) ~> (row.ended \/ row.orphaned)

\* readopt_all decides about every session: it is adopted, ended or orphaned,
\* never silently dropped.
NeverDropped ==
    (dpc = "boot" /\ row.present) ~> (thread = "run" \/ row.ended \/ row.orphaned)

-----------------------------------------------------------------------------
\* "When the child exits and no daemon is attached, <socket>.exit is written
\* with the exit code so the next daemon can close the session honestly."
ExitFiledWhenAlone ==
    [][ (hold = "finish" /\ hold' = "leaving" /\ ~Up) => exitFile' # Unset ]_vars

\* "A holder that recorded an exit closes the session with that code."
RecordedExitCloses == (exitFile # Unset /\ row.orphaned) => row.ended

\* "A holder that cannot be reached (reboot, killed) is what orphaned means."
OrphanIsUnreachable == row.orphaned => hold \in {"gone", "killed"}

\* "A live session as the daemon sees it": a session the registry lists as
\* live has a thread that serves it.
HandleIsLive == (handle /\ dpc = "idle") => thread # "done"
=============================================================================
