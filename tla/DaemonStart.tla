----------------------------- MODULE DaemonStart -----------------------------
(***************************************************************************)
(* How vtermd starts, and what starts share: main of vtermd/src/main.rs,   *)
(* the migrations, the sweep and the rows of vt-store, the receiver's port *)
(* and the socket file.  A process dies where it pleases, the next one     *)
(* starts on what it left, and nothing keeps two from running at once.     *)
(* SQLite is external: a transaction holds the one write lock until it     *)
(* commits, and is gone with its process.                                  *)
(***************************************************************************)
EXTENDS Integers, Sequences, FiniteSets, FiniteSetsExt

CONSTANTS Starts,       (* processes, in the order they start              *)
          Supports,     (* CURRENT_VERSION of the binary of each           *)
          Sessions, Ports,
          OtherPorts,   (* bound: those another program may take           *)
          MaxEvents,    (* bound: events appended                          *)
          Page          (* rows a client asks for at a time                *)

ASSUME DaemonStartAssumption ==
    /\ Starts \subseteq Nat \ {0} /\ Supports \in [Starts -> Nat \ {0}]
    /\ Ports \subseteq Nat \ {0} /\ Cardinality(Ports) > Cardinality(Starts)
    /\ OtherPorts \subseteq Ports
    /\ MaxEvents \in Nat /\ Page \in Nat \ {0}

Nobody == 0

VARIABLES
    version,    (* PRAGMA user_version                                     *)
    applied,    (* migrations committed, in order                          *)
    lock,       (* the process in a migration's transaction                *)
    rows,       (* sessions: "none", "live", "ended", "old" (ended before  *)
                (* the cutoff)                                             *)
    events,     (* agent_events: seq, session, number, old                 *)
    lastSeq,    (* sqlite_sequence                                         *)
    appended,   (* events appended so far                                  *)
    pc,         (* a process: where main is, "dead" or "failed" in the end *)
    reached,    (* the version its migrate() has come to                   *)
    lists,      (* Registry.sessions                                       *)
    wanted,     (* the port it read from receiver.port, until it listens   *)
    port,       (* what its receiver listens on                            *)
    portFile,   (* receiver.port; 0 while it is not there or empty         *)
    busyPort,   (* taken by some other program                             *)
    hooks,      (* the port in a session's settings file                   *)
    socket,     (* the process whose listener the socket file is           *)
    cursor, seen, (* a client's after_seq, and the events it was given     *)
    alone,      (* no two processes have run at once so far                *)
    portLost,   (* a start found the port of live sessions taken           *)
    portCut     (* a write of receiver.port failed, or its process died in *)
                (* it while sessions were live                             *)

dbVars == <<version, applied, lock>>
rowVars == <<rows, events, lastSeq, appended>>
procVars == <<pc, reached>>
portVars == <<wanted, port, portFile, hooks, portLost, portCut>>
clientVars == <<cursor, seen>>
vars == <<dbVars, rowVars, procVars, lists, portVars, busyPort, socket, clientVars, alone>>

Main == <<"open", "migrate", "commit", "sweep events", "sweep sessions",
          "receiver", "listen", "record", "write", "readopt", "bind", "serve">>
Running == {p \in Starts : pc[p] \notin {"unborn", "dead", "failed"}}
Live == {s \in Sessions : rows[s] = "live"}

TypeOK ==
    /\ version \in Nat /\ applied \in Seq(Nat) /\ lock \in Starts \cup {Nobody}
    /\ rows \in [Sessions -> {"none", "live", "ended", "old"}]
    /\ events \subseteq [seq : Nat, session : Sessions, number : 1..MaxEvents, old : BOOLEAN]
    /\ lastSeq \in Nat /\ appended \in 0..MaxEvents
    /\ pc \in [Starts -> {"unborn", "dead", "failed"} \cup {Main[i] : i \in DOMAIN Main}]
    /\ reached \in [Starts -> Nat] /\ lists \in [Starts -> SUBSET Sessions]
    /\ wanted \in [Starts -> Ports \cup {0}]
    /\ port \in [Starts -> Ports \cup {0}] /\ portFile \in Ports \cup {0}
    /\ busyPort \in Ports \cup {0} /\ hooks \in [Sessions -> Ports \cup {0}]
    /\ socket \in Starts \cup {Nobody} /\ cursor \in [Sessions -> Nat] /\ seen \subseteq 1..MaxEvents
    /\ alone \in BOOLEAN /\ portLost \in BOOLEAN /\ portCut \in BOOLEAN

Init ==
    /\ version = 0 /\ applied = <<>> /\ lock = Nobody
    /\ rows = [s \in Sessions |-> "none"] /\ events = {} /\ lastSeq = 0 /\ appended = 0
    /\ pc = [p \in Starts |-> "unborn"] /\ reached = [p \in Starts |-> 0]
    /\ lists = [p \in Starts |-> {}]
    /\ wanted = [p \in Starts |-> 0]
    /\ port = [p \in Starts |-> 0] /\ portFile = 0 /\ busyPort = 0
    /\ hooks = [s \in Sessions |-> 0] /\ portLost = FALSE /\ portCut = FALSE
    /\ socket = Nobody /\ cursor = [s \in Sessions |-> 0] /\ seen = {} /\ alone = TRUE

Goes(p, to) == pc' = [pc EXCEPT ![p] = to]

-----------------------------------------------------------------------------
(* main, up to the socket. *)

Start(p) ==
    /\ pc[p] = "unborn" /\ \A q \in Starts : q < p => pc[q] # "unborn"
    /\ Goes(p, "open") /\ alone' = (alone /\ Running = {})
    /\ UNCHANGED <<dbVars, rowVars, reached, lists, portVars, busyPort, socket, clientVars>>

(* Store::open, and what migrate() reads before its first transaction. *)
Open(p) ==
    /\ pc[p] = "open" /\ reached' = [reached EXCEPT ![p] = version]
    /\ Goes(p, IF version > Supports[p] THEN "failed" ELSE "migrate")
    /\ UNCHANGED <<dbVars, rowVars, lists, portVars, busyPort, socket, clientVars, alone>>

(* The next migration's statements.  Some other start may have run them    *)
(* since: its tables and columns are there, and this start is over.        *)
Migrate(p) ==
    /\ pc[p] = "migrate" /\ reached[p] < Supports[p] /\ lock = Nobody
    /\ IF reached[p] + 1 \in {applied[i] : i \in DOMAIN applied}
       THEN Goes(p, "failed") /\ UNCHANGED lock
       ELSE Goes(p, "commit") /\ lock' = p
    /\ UNCHANGED <<version, applied, rowVars, reached, lists, portVars, busyPort, socket, clientVars, alone>>

BumpApart(p) ==
    /\ pc[p] = "commit" /\ lock' = Nobody /\ applied' = Append(applied, reached[p] + 1)
    /\ \/ Goes(p, "dead") /\ UNCHANGED <<version, reached>>
       \/ Goes(p, "migrate") /\ version' = reached[p] + 1 /\ reached' = [reached EXCEPT ![p] = @ + 1]
    /\ UNCHANGED <<rowVars, lists, portVars, busyPort, socket, clientVars, alone>>

(* user_version is set in the transaction of the statements. *)
Commit(p) ==
    /\ pc[p] = "commit" /\ Goes(p, "migrate")
    /\ reached' = [reached EXCEPT ![p] = @ + 1]
    /\ version' = reached[p] + 1 /\ applied' = Append(applied, reached[p] + 1) /\ lock' = Nobody
    /\ UNCHANGED <<rowVars, lists, portVars, busyPort, socket, clientVars, alone>>

Migrated(p) ==
    /\ pc[p] = "migrate" /\ reached[p] >= Supports[p]
    /\ \/ Goes(p, "sweep events")
       \/ Goes(p, "receiver")       (* prune_on_start is off *)
    /\ UNCHANGED <<dbVars, rowVars, reached, lists, portVars, busyPort, socket, clientVars, alone>>

(* Store::sweep, a transaction each.  Blocks go as events do.  A session's *)
(* events go with it (ON DELETE CASCADE).                                  *)
Sweep(p) ==
    /\ lock = Nobody
    /\ \/ /\ pc[p] = "sweep events" /\ Goes(p, "sweep sessions")
          /\ events' = {e \in events : ~e.old} /\ UNCHANGED rows
       \/ /\ pc[p] = "sweep sessions" /\ Goes(p, "receiver")
          /\ rows' = [s \in Sessions |-> IF rows[s] = "old" THEN "none" ELSE rows[s]]
          /\ events' = {e \in events : rows[e.session] # "old"}
    /\ UNCHANGED <<dbVars, lastSeq, appended, reached, lists, portVars, busyPort, socket, clientVars, alone>>

Free(n) == n # busyPort /\ \A q \in Running : port[q] # n

(* The file of the last start: one that is missing or empty asks for no    *)
(* port in particular.                                                     *)
ReadPort(p) ==
    /\ pc[p] = "receiver" /\ Goes(p, "listen") /\ wanted' = [wanted EXCEPT ![p] = portFile]
    /\ UNCHANGED <<dbVars, rowVars, reached, lists, port, portFile, hooks, portLost, portCut, busyPort, socket,
                   clientVars, alone>>

(* The wanted port if it can be had; some other one if not.                *)
Receiver(p) ==
    /\ pc[p] = "listen" /\ Goes(p, "record")
    /\ \E n \in Ports :
           /\ Free(n) /\ (wanted[p] # 0 /\ Free(wanted[p]) => n = wanted[p])
           /\ port' = [port EXCEPT ![p] = n] /\ wanted' = [wanted EXCEPT ![p] = 0]
    /\ portLost' = (portLost \/ (Live # {} /\ wanted[p] # 0 /\ ~Free(wanted[p])))
    /\ UNCHANGED <<dbVars, rowVars, reached, lists, portFile, hooks, portCut, busyPort, socket, clientVars, alone>>

(* fs::write of receiver.port: the file is emptied, if it can be opened,   *)
(* and then written, if there is room.  Nobody looks at its error.         *)
Truncate(p) ==
    /\ pc[p] = "record"
    /\ \/ Goes(p, "write") /\ portFile' = 0 /\ UNCHANGED portCut
       \/ /\ Goes(p, "readopt") /\ UNCHANGED portFile
          /\ portCut' = (portCut \/ portFile # port[p])
    /\ UNCHANGED <<dbVars, rowVars, reached, lists, wanted, port, hooks, portLost, busyPort, socket, clientVars, alone>>

RecordPort(p) ==
    /\ pc[p] = "write" /\ Goes(p, "readopt")
    /\ \/ portFile' = port[p] /\ UNCHANGED portCut
       \/ UNCHANGED portFile /\ portCut' = TRUE
    /\ UNCHANGED <<dbVars, rowVars, reached, lists, wanted, port, hooks, portLost, busyPort, socket, clientVars, alone>>

ReadoptLater(p) ==
    /\ \/ pc[p] = "readopt" /\ Goes(p, "bind") /\ UNCHANGED lists
       \/ pc[p] = "serve" /\ lists' = [lists EXCEPT ![p] = Live] /\ UNCHANGED pc
    /\ UNCHANGED <<dbVars, rowVars, reached, portVars, busyPort, socket, clientVars, alone>>

(* readopt_all: "before accepting clients so the first session.list is     *)
(* true".                                                                  *)
Readopt(p) ==
    /\ pc[p] = "readopt" /\ Goes(p, "bind") /\ lists' = [lists EXCEPT ![p] = Live]
    /\ UNCHANGED <<dbVars, rowVars, reached, portVars, busyPort, socket, clientVars, alone>>

(* Server::start removes whatever socket file there is. *)
Bind(p) ==
    /\ pc[p] = "bind" /\ Goes(p, "serve") /\ socket' = p
    /\ UNCHANGED <<dbVars, rowVars, reached, lists, portVars, busyPort, clientVars, alone>>

(* Its memory is gone; the kernel takes its lock and its port back.        *)
Die(p) ==
    /\ p \in Running /\ Goes(p, "dead")
    /\ reached' = [reached EXCEPT ![p] = 0] /\ lists' = [lists EXCEPT ![p] = {}]
    /\ wanted' = [wanted EXCEPT ![p] = 0] /\ port' = [port EXCEPT ![p] = 0]
    /\ lock' = IF lock = p THEN Nobody ELSE lock
    /\ portCut' = (portCut \/ (pc[p] = "write" /\ Live # {}))
    /\ UNCHANGED <<version, applied, rowVars, portFile, hooks, portLost, busyPort, socket, clientVars, alone>>

-----------------------------------------------------------------------------
(* The process a client reaches through the socket file. *)

Reached(p) == socket = p /\ pc[p] = "serve" /\ lock = Nobody

Create(p, s) ==
    /\ Reached(p) /\ rows[s] = "none" /\ hooks[s] = 0
    /\ rows' = [rows EXCEPT ![s] = "live"] /\ lists' = [lists EXCEPT ![p] = @ \cup {s}]
    /\ hooks' = [hooks EXCEPT ![s] = port[p]]
    /\ UNCHANGED <<dbVars, events, lastSeq, appended, procVars, wanted, port, portFile, portLost, portCut,
                   busyPort, socket, clientVars, alone>>

End(p, s) ==
    /\ pc[p] = "serve" /\ lock = Nobody /\ s \in lists[p] /\ rows[s] = "live"
    /\ rows' = [rows EXCEPT ![s] = "ended"] /\ lists' = [lists EXCEPT ![p] = @ \ {s}]
    /\ UNCHANGED <<dbVars, events, lastSeq, appended, procVars, portVars, busyPort, socket, clientVars, alone>>

(* AUTOINCREMENT: a number above every number there has ever been. *)
NextSeq == lastSeq + 1

AppendEvent(p, s) ==
    /\ pc[p] = "serve" /\ lock = Nobody /\ s \in lists[p] /\ rows[s] # "none" /\ appended < MaxEvents
    /\ appended' = appended + 1 /\ lastSeq' = NextSeq
    /\ events' = events \cup {[seq |-> NextSeq, session |-> s, number |-> appended + 1, old |-> FALSE]}
    /\ UNCHANGED <<dbVars, rows, procVars, lists, portVars, busyPort, socket, clientVars, alone>>

(* events() and blocks(): the rows after the cursor, in order, a page.     *)
ReadPage(p, s) ==
    /\ Reached(p)
    /\ LET after == {e \in events : e.session = s /\ e.seq > cursor[s]}
           page == {e \in after : Cardinality({f \in after : f.seq < e.seq}) < Page}
       IN  /\ page # {}
           /\ seen' = seen \cup {e.number : e \in page}
           /\ cursor' = [cursor EXCEPT ![s] = Max({e.seq : e \in page})]
    /\ UNCHANGED <<dbVars, rowVars, procVars, lists, portVars, busyPort, socket, alone>>

(* The windows pass for everything there is. *)
DaysPass ==
    /\ events' = {[e EXCEPT !.old = TRUE] : e \in events}
    /\ rows' = [s \in Sessions |-> IF rows[s] = "ended" THEN "old" ELSE rows[s]]
    /\ <<events, rows>>' # <<events, rows>>
    /\ UNCHANGED <<dbVars, lastSeq, appended, procVars, lists, portVars, busyPort, socket, clientVars, alone>>

(* Bound: one such program, and it stays. *)
OtherProgram ==
    /\ busyPort = 0 /\ \E n \in OtherPorts : Free(n) /\ busyPort' = n
    /\ UNCHANGED <<dbVars, rowVars, procVars, lists, portVars, socket, clientVars, alone>>

Starting(p) ==
    \/ Open(p) \/ Migrate(p) \/ Commit(p) \/ Migrated(p) \/ Sweep(p)
    \/ ReadPort(p) \/ Receiver(p) \/ Truncate(p) \/ RecordPort(p)
    \/ Readopt(p) \/ Bind(p)

Next ==
    \/ \E p \in Starts : Start(p) \/ Starting(p) \/ Die(p)
    \/ \E p \in Starts, s \in Sessions : Create(p, s) \/ End(p, s) \/ AppendEvent(p, s) \/ ReadPage(p, s)
    \/ DaysPass \/ OtherProgram

Spec == Init /\ [][Next]_vars

(* main goes on; nobody has to start or to end anything. *)
Fairness == \A p \in Starts : WF_vars(Starting(p))
FairSpec == Spec /\ Fairness

-----------------------------------------------------------------------------
(* migrations.rs, "a crash midway re-runs the same step next time": the    *)
(* version is the migrations there are, each once, in order, whoever ran   *)
(* them and wherever it died.                                              *)
VersionIsSchema == applied = [i \in 1..version |-> i]

(* A client that pages with after_seq is given every row that is there     *)
(* below its cursor: a sweep must not make numbers free for new rows.      *)
EveryRowSeen == \A e \in events : e.seq <= cursor[e.session] => e.number \in seen

(* main.rs, "so the first session.list is true": whoever can be reached    *)
(* lists every live session, from the first client on.                     *)
FirstListIsTrue == \A p \in Starts : alone /\ socket = p /\ pc[p] = "serve" => lists[p] = Live

(* main.rs, the port "must survive daemon restarts": the hooks of every    *)
(* session it lists come to the daemon, wherever the ones before it died,  *)
(* unless somebody took their port or the file that keeps it was emptied   *)
(* and never written (AlwaysSamePort).                                     *)
PortSurvives ==
    \A p \in Starts : alone /\ ~portLost /\ ~portCut /\ socket = p /\ pc[p] = "serve"
                          => \A s \in lists[p] : hooks[s] = port[p]

(* What a start leaves, wherever it dies: a schema of the version it has;  *)
(* and what a client sees of the next: every row, every session, and, but  *)
(* for a port that was taken or a file cut short, one the hooks still find. *)
StartIsTrue == TypeOK /\ VersionIsSchema /\ EveryRowSeen /\ FirstListIsTrue /\ PortSurvives

(* A start that is alone, on a schema it knows, comes to serve: nothing    *)
(* its predecessors left half done stops it.                               *)
StartsAgain ==
    \A p \in Starts : (pc[p] = "open" /\ Running = {p} /\ version <= Supports[p])
                          ~> (pc[p] \in {"serve", "dead"} \/ Running \ {p} # {})

-----------------------------------------------------------------------------
(* Promises TLC refutes. *)

(* The same of a start that is not alone: a migration another start ran    *)
(* meanwhile ends it.                                                      *)
EveryStartServes ==
    \A p \in Starts : (pc[p] = "open" /\ version <= Supports[p]) ~> (pc[p] \in {"serve", "dead"})

(* retention.rs, "Live sessions are never touched": the events and blocks  *)
(* of a live session are.                                                  *)
LiveUntouched ==
    [][\A p \in Starts : Sweep(p) => \A e \in events : rows[e.session] = "live" => e \in events']_vars

(* main.rs, "it must survive daemon restarts. The chosen port is           *)
(* remembered": a daemon that dies between the truncation of the file and  *)
(* its write, or that could not write it, leaves no port or another one,   *)
(* and the hooks of the sessions that live on find nobody.                 *)
AlwaysSamePort ==
    \A p \in Starts : alone /\ ~portLost /\ socket = p /\ pc[p] = "serve"
                          => \A s \in lists[p] : hooks[s] = port[p]

(* hold.rs, "One daemon at a time": a second start takes the socket file   *)
(* and the sessions of the first, which goes on.                           *)
OneServes == Cardinality({p \in Starts : pc[p] = "serve"}) <= 1
=============================================================================
