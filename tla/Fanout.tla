------------------------------- MODULE Fanout -------------------------------
(***************************************************************************)
(* How one session's screen reaches its viewers: the session thread's      *)
(* flush (vtermd/src/session.rs), the connections of the RPC server and    *)
(* their outboxes (vt-ipc/src/server.rs), the attach handler (rpc.rs), the *)
(* client library (vt-ipc/src/client.rs) and the viewer that applies the   *)
(* deltas (vt-ffi/src/viewer.rs; vterm/src/attach.rs has the same shape).  *)
(*                                                                         *)
(* A viewer has two connections: the stream, attached to the session, and  *)
(* the input, on which it calls and never waits for notifications.  A row  *)
(* of the grid is the number of times it was written.                      *)
(***************************************************************************)
EXTENDS Integers, SequencesExt

CONSTANTS Viewers,
          Rows,        (* rows of the grid                                  *)
          Capacity,    (* OUTBOX_CAPACITY                                   *)
          Buffer,      (* messages the kernel buffers on a socket           *)
          Stalled,     (* viewers that may stop reading for good            *)
          MayStop,     (* whether the daemon can stop                       *)
          MayLeave,    (* whether viewers detach or die                     *)
          MaxWrites,   (* bound: writes to one row                          *)
          MaxFlushes,  (* bound: deltas published                           *)
          MaxEvents,   (* bound: other broadcasts                           *)
          MaxCalls     (* bound: calls of a viewer on its input connection  *)

ASSUME FanoutAssumption ==
    /\ Rows # {} /\ Stalled \subseteq Viewers /\ {MayStop, MayLeave} \subseteq BOOLEAN
    /\ Capacity \in Nat \ {0} /\ Buffer \in Nat \ {0}
    /\ MaxWrites \in Nat /\ MaxFlushes \in Nat /\ MaxEvents \in Nat /\ MaxCalls \in Nat

Stream(v) == <<v, "stream">>
Input(v)  == <<v, "input">>
Conns     == Viewers \X {"stream", "input"}

VARIABLES
    screen,    (* the rows of the terminal core                             *)
    pending,   (* session.rs: pending, the rows damaged since the flush     *)
    seq,       (* session.rs: seq                                           *)
    session,   (* the session thread: run, exiting, gone                    *)
    events,    (* broadcasts other than the session's end so far            *)
    listed,    (* server.rs: conns                                          *)
    subs,      (* the connections subscribed to the session                 *)
    outbox,    (* per connection: lines waiting for its writer thread       *)
    writer,    (* the connections whose writer thread runs                  *)
    thread,    (* per connection: where its serving thread is               *)
    reply,     (* per connection: the response, or the snapshot it will be  *)
    request,   (* per connection: requests sent and not yet read            *)
    socket,    (* per connection: lines in the kernel on their way back     *)
    shut,      (* the connections one end has shut down                     *)
    reader,    (* per viewer: where its reader thread is                    *)
    grid,      (* per viewer: Grid, the rows it shows                       *)
    queue,     (* per viewer: Client.pending of its stream                  *)
    told,      (* the viewers whose disconnected flag is set                *)
    input,     (* per viewer: the input client, idle, waiting or none       *)
    calls,     (* per viewer: calls made on the input connection            *)
    gap        (* history: rows published between snapshot and subscription *)

sessionVars == <<screen, pending, seq, session, events>>
serverVars  == <<listed, subs, outbox, writer, thread, reply>>
wireVars    == <<request, socket, shut>>
viewerVars  == <<reader, grid, queue, told, input, calls>>
vars == <<sessionVars, serverVars, wireVars, viewerVars, gap>>

(* An OutputDelta (some rows, and its number), the end of the session, any *)
(* other notification, and what answers a call.                            *)
Delta(cells, n) == [kind |-> "delta", cells |-> cells, seq |-> n]
Exited   == [kind |-> "exited"]
Event    == [kind |-> "event"]
Snap(s)  == [kind |-> "snapshot", cells |-> s]
Gone     == [kind |-> "gone"]
Done     == [kind |-> "done"]
NoReply  == [kind |-> "none"]

Counts   == 0..MaxWrites
Notices  == [kind : {"delta"}, cells : UNION {[R -> Counts] : R \in (SUBSET Rows) \ {{}}},
             seq : 1..MaxFlushes] \cup {Exited, Event}
Replies  == [kind : {"snapshot"}, cells : [Rows -> Counts]] \cup {Gone, Done}
Messages == Notices \cup Replies

IsNotice(m) == m.kind \in {"delta", "exited", "event"}

Init ==
    /\ screen = [r \in Rows |-> 0] /\ pending = {} /\ seq = 0
    /\ session = "run" /\ events = 0
    /\ listed = {} /\ subs = {} /\ writer = {}
    /\ outbox = [c \in Conns |-> <<>>] /\ socket = [c \in Conns |-> <<>>]
    /\ request = [c \in Conns |-> <<>>] /\ shut = {}
    /\ thread = [c \in Conns |-> "none"] /\ reply = [c \in Conns |-> NoReply]
    /\ reader = [v \in Viewers |-> "off"] /\ grid = [v \in Viewers |-> screen]
    /\ queue = [v \in Viewers |-> <<>>] /\ told = {}
    /\ input = [v \in Viewers |-> "none"] /\ calls = [v \in Viewers |-> 0]
    /\ gap = [v \in Viewers |-> {}]

-----------------------------------------------------------------------------
(* server.rs: deliver, under the lock on conns.  A connection whose outbox *)
(* is full or whose writer has ended is dropped from conns; nothing else   *)
(* is done to it.                                                          *)
Refuses(c) == c \notin writer \/ Len(outbox[c]) = Capacity

(* Mutation: a full outbox skips the message and stays listed. *)
DeliverSkipping(m, selected) ==
    /\ outbox' = [c \in Conns |-> IF c \in listed \cap selected /\ ~Refuses(c)
                                  THEN Append(outbox[c], m) ELSE outbox[c]]
    /\ UNCHANGED <<listed, subs>>

Deliver(m, selected) ==
    LET dropped == {c \in listed \cap selected : Refuses(c)}
    IN  /\ outbox' = [c \in Conns |-> IF c \in (listed \cap selected) \ dropped
                                      THEN Append(outbox[c], m) ELSE outbox[c]]
        /\ listed' = listed \ dropped /\ subs' = subs \ dropped

Broadcast(m) == Deliver(m, Conns)

-----------------------------------------------------------------------------
(* The session thread.                                                     *)

(* Bytes from the program change some rows. *)
Output(R) ==
    /\ session = "run" /\ R # {} /\ \A r \in R : screen[r] < MaxWrites
    /\ seq < MaxFlushes
    /\ screen' = [r \in Rows |-> screen[r] + IF r \in R THEN 1 ELSE 0]
    /\ pending' = pending \cup R
    /\ UNCHANGED <<seq, session, events, serverVars, wireVars, viewerVars, gap>>

(* A resize, a scroll or a clear damages every row. *)
Redraw ==
    /\ session = "run" /\ pending # Rows /\ seq < MaxFlushes
    /\ pending' = Rows
    /\ UNCHANGED <<screen, seq, session, events, serverVars, wireVars, viewerVars, gap>>

(* One delta of the damaged rows, numbered n, to every subscriber. *)
PublishDamage(n) ==
    /\ session = "run" /\ pending # {}
    /\ seq' = seq + 1 /\ pending' = {}
    /\ Deliver(Delta([r \in pending |-> screen[r]], n), subs)
    /\ gap' = [v \in Viewers |-> IF thread[Stream(v)] = "snapped" THEN gap[v] \cup pending
                                 ELSE IF Stream(v) \in subs THEN gap[v] \ pending
                                 ELSE gap[v]]
    /\ UNCHANGED <<screen, session, events, writer, thread, reply, wireVars, viewerVars>>

(* Mutation: the flush waits for room in every outbox. *)
FlushBlocking == (\A c \in subs : Len(outbox[c]) < Capacity) /\ PublishDamage(seq + 1)

Flush == PublishDamage(seq + 1)

(* A notification to everyone: a bell, a title, an inbox item. *)
Announce ==
    /\ events < MaxEvents /\ events' = events + 1
    /\ Broadcast(Event)
    /\ UNCHANGED <<screen, pending, seq, session, writer, thread, reply, wireVars,
                   viewerVars, gap>>

(* The session ends, in the turn of the loop that may not have flushed:    *)
(* the last flush can be less than FLUSH_INTERVAL ago.  SESSION_CHANGED    *)
(* and the removal from the registry follow.                               *)
End ==
    /\ session = "run" /\ session' = "exiting" /\ Deliver(Exited, Conns)
    /\ UNCHANGED <<screen, pending, seq, events, writer, thread, reply, wireVars,
                   viewerVars, gap>>

Unregister ==
    /\ session = "exiting" /\ session' = "gone" /\ Broadcast(Event)
    /\ UNCHANGED <<screen, pending, seq, events, writer, thread, reply, wireVars,
                   viewerVars, gap>>

-----------------------------------------------------------------------------
(* The server, per connection.                                             *)

(* The accept thread: the connection is listed and gets its two threads.   *)
Accept(c) ==
    /\ thread[c] = "backlog"
    /\ listed' = listed \cup {c} /\ writer' = writer \cup {c}
    /\ thread' = [thread EXCEPT ![c] = "read"]
    /\ UNCHANGED <<sessionVars, subs, outbox, reply, wireVars, viewerVars, gap>>

Take(c, what) ==
    /\ thread[c] = "read" /\ request[c] # <<>> /\ Head(request[c]) = what
    /\ request' = [request EXCEPT ![c] = Tail(@)]

(* session.attach, its first half: the session thread answers with the     *)
(* screen as it is, or the session is gone.                                *)
Snapshot(c) ==
    /\ Take(c, "attach")
    /\ IF session = "run"
         THEN /\ reply'  = [reply EXCEPT ![c] = Snap(screen)]
              /\ thread' = [thread EXCEPT ![c] = "snapped"]
         ELSE /\ reply'  = [reply EXCEPT ![c] = Gone]
              /\ thread' = [thread EXCEPT ![c] = "reply"]
    /\ UNCHANGED <<sessionVars, listed, subs, outbox, writer, socket, shut, viewerVars, gap>>

(* Its second half: subscribe, which finds nothing for a dropped           *)
(* connection.                                                             *)
Subscribe(c) ==
    /\ thread[c] = "snapped"
    /\ subs' = subs \cup ({c} \cap listed)
    /\ thread' = [thread EXCEPT ![c] = "reply"]
    /\ UNCHANGED <<sessionVars, listed, outbox, writer, reply, wireVars, viewerVars, gap>>

(* session.detach is a notification: no response. *)
Detach(c) ==
    /\ Take(c, "detach")
    /\ subs' = subs \ {c}
    /\ UNCHANGED <<sessionVars, listed, outbox, writer, thread, reply, socket, shut,
                   viewerVars, gap>>

(* Any other call: a key, a resize. *)
Handle(c) ==
    /\ Take(c, "call")
    /\ reply' = [reply EXCEPT ![c] = Done] /\ thread' = [thread EXCEPT ![c] = "reply"]
    /\ UNCHANGED <<sessionVars, listed, subs, outbox, writer, socket, shut, viewerVars, gap>>

(* The response goes through the outbox; the thread waits for room in it,  *)
(* also when the connection is not listed any more.                        *)
Send(c, to) ==
    /\ thread[c] = "reply" /\ c \in to /\ Len(outbox[c]) < Capacity
    /\ outbox' = [outbox EXCEPT ![c] = Append(@, reply[c])]
    /\ reply'  = [reply EXCEPT ![c] = NoReply]
    /\ thread' = [thread EXCEPT ![c] = "read"]
    /\ UNCHANGED <<sessionVars, listed, subs, writer, wireVars, viewerVars, gap>>

(* Mutation: a dropped connection gets no responses. *)
RespondListed(c) == Send(c, writer \cap listed)

Respond(c) == Send(c, writer)

(* The serving thread ends: end of file, or nobody to respond through.     *)
Disconnect(c) ==
    /\ \/ /\ thread[c] = "read" /\ request[c] = <<>> /\ c \in shut
       \/ /\ thread[c] = "reply" /\ c \notin writer
    /\ shut' = shut \cup {c} /\ listed' = listed \ {c} /\ subs' = subs \ {c}
    /\ thread' = [thread EXCEPT ![c] = "ended"] /\ reply' = [reply EXCEPT ![c] = NoReply]
    /\ UNCHANGED <<sessionVars, outbox, writer, request, socket, viewerVars, gap>>

(* The writer thread: the only one that writes to the socket. *)
Write(c) ==
    /\ c \in writer \ shut /\ outbox[c] # <<>> /\ Len(socket[c]) < Buffer
    /\ socket' = [socket EXCEPT ![c] = Append(@, Head(outbox[c]))]
    /\ outbox' = [outbox EXCEPT ![c] = Tail(@)]
    /\ UNCHANGED <<sessionVars, listed, subs, writer, thread, reply, request, shut,
                   viewerVars, gap>>

(* Mutation: a write error is ignored. *)
WriterEndsClean(c) ==
    /\ c \in writer
    /\ c \notin listed /\ thread[c] = "ended" /\ outbox[c] = <<>>
    /\ writer' = writer \ {c} /\ outbox' = [outbox EXCEPT ![c] = <<>>] /\ shut' = shut \cup {c}
    /\ UNCHANGED <<sessionVars, listed, subs, thread, reply, request, socket, viewerVars, gap>>

(* It ends on a write error, or when no sender is left: the one in conns   *)
(* and the one of the serving thread.                                      *)
WriterEnds(c) ==
    /\ c \in writer
    /\ \/ /\ c \in shut /\ outbox[c] # <<>>
       \/ /\ c \notin listed /\ thread[c] = "ended" /\ outbox[c] = <<>>
    /\ writer' = writer \ {c} /\ outbox' = [outbox EXCEPT ![c] = <<>>] /\ shut' = shut \cup {c}
    /\ UNCHANGED <<sessionVars, listed, subs, thread, reply, request, socket, viewerVars, gap>>

(* The daemon stops: the kernel closes its ends. *)
Stop ==
    /\ MayStop /\ \E c \in Conns : thread[c] \notin {"none", "ended"}
    /\ listed' = {} /\ subs' = {} /\ writer' = {} /\ session' = "gone"
    /\ outbox' = [c \in Conns |-> <<>>] /\ request' = [c \in Conns |-> <<>>]
    /\ shut'   = shut \cup {c \in Conns : thread[c] # "none"}
    /\ thread' = [c \in Conns |-> IF thread[c] = "none" THEN "none" ELSE "ended"]
    /\ reply'  = [c \in Conns |-> NoReply]
    /\ UNCHANGED <<screen, pending, seq, events, socket, viewerVars, gap>>

-----------------------------------------------------------------------------
(* A viewer.                                                               *)

(* viewer.rs: attach connects twice and calls session.attach. *)
Attach(v) ==
    /\ reader[v] = "off"
    /\ reader'  = [reader EXCEPT ![v] = "attaching"] /\ input' = [input EXCEPT ![v] = "idle"]
    /\ thread'  = [c \in Conns |-> IF c[1] = v THEN "backlog" ELSE thread[c]]
    /\ request' = [request EXCEPT ![Stream(v)] = <<"attach">>]
    /\ UNCHANGED <<sessionVars, listed, subs, outbox, writer, reply, socket, shut, grid,
                   queue, told, calls, gap>>

(* The viewer's end of a connection closes. *)
Close(S) == /\ shut' = shut \cup S
            /\ socket' = [c \in Conns |-> IF c \in S THEN <<>> ELSE socket[c]]

Read(c) == socket' = [socket EXCEPT ![c] = Tail(@)]

(* viewer.rs: Grid::apply. *)
Apply(g, m) ==
    [r \in Rows |-> IF m.kind = "delta" /\ r \in DOMAIN m.cells THEN m.cells[r] ELSE g[r]]

(* client.rs: call, on the stream.  Notifications that come before the     *)
(* response are queued; the response is the first grid; an error or the    *)
(* end of the connection fails the attach, which closes both.              *)
AwaitSnapshot(v) ==
    LET s == Stream(v) IN
    /\ reader[v] = "attaching"
    /\ \/ /\ socket[s] # <<>> /\ IsNotice(Head(socket[s]))
          /\ queue' = [queue EXCEPT ![v] = Append(@, Head(socket[s]))]
          /\ Read(s) /\ UNCHANGED <<reader, grid, input, shut>>
       \/ /\ socket[s] # <<>> /\ Head(socket[s]).kind = "snapshot"
          /\ grid' = [grid EXCEPT ![v] = Head(socket[s]).cells]
          /\ reader' = [reader EXCEPT ![v] = "reading"]
          /\ Read(s) /\ UNCHANGED <<queue, input, shut>>
       \/ /\ IF socket[s] = <<>> THEN s \in shut ELSE Head(socket[s]) = Gone
          /\ reader' = [reader EXCEPT ![v] = "done"] /\ input' = [input EXCEPT ![v] = "none"]
          /\ Close({s, Input(v)}) /\ UNCHANGED <<queue, grid>>
    /\ UNCHANGED <<sessionVars, serverVars, request, told, calls, gap>>

(* The reader thread's turn: the next notification, queued ones first.     *)
(* After vt_viewer_free it ends at the next turn of its loop, and with it  *)
(* the stream.                                                             *)
Notified(v, m, queued) ==
    LET s == Stream(v)
        last == reader[v] = "freed" \/ m.kind = "exited"
    IN
    /\ reader[v] \in {"reading", "freed"}
    /\ grid' = [grid EXCEPT ![v] = Apply(@, m)]
    /\ told' = told \cup IF m.kind = "exited" THEN {v} ELSE {}
    /\ reader' = [reader EXCEPT ![v] = IF last THEN "done" ELSE @]
    /\ queue' = [queue EXCEPT ![v] = IF last THEN <<>> ELSE IF queued THEN Tail(@) ELSE @]
    /\ IF last THEN Close({s})
       ELSE /\ UNCHANGED shut
            /\ IF queued THEN UNCHANGED socket ELSE Read(s)
    /\ UNCHANGED <<sessionVars, serverVars, request, input, calls, gap>>

(* Mutation: the socket is read before the queue. *)
SocketFirst(v) ==
    \/ socket[Stream(v)] # <<>> /\ Notified(v, Head(socket[Stream(v)]), FALSE)
    \/ socket[Stream(v)] = <<>> /\ queue[v] # <<>> /\ Notified(v, Head(queue[v]), TRUE)

NextNotification(v) ==
    \/ queue[v] # <<>> /\ Notified(v, Head(queue[v]), TRUE)
    \/ queue[v] = <<>> /\ socket[Stream(v)] # <<>> /\ Notified(v, Head(socket[Stream(v)]), FALSE)

EndOfStream(v) ==
    /\ reader[v] \in {"reading", "freed"} /\ queue[v] = <<>> /\ socket[Stream(v)] = <<>>
    /\ Stream(v) \in shut
    /\ told' = told \cup {v} /\ reader' = [reader EXCEPT ![v] = "done"]
    /\ UNCHANGED <<sessionVars, serverVars, wireVars, grid, queue, input, calls, gap>>

(* vt_viewer_send_key and the like: a call on the input connection.  If it *)
(* fails, the client is given up.                                          *)
GiveUp(v) == input' = [input EXCEPT ![v] = "none"] /\ told' = told \cup {v}

Call(v) ==
    /\ reader[v] \in {"reading", "done"} /\ input[v] = "idle" /\ calls[v] < MaxCalls
    /\ calls' = [calls EXCEPT ![v] = @ + 1]
    /\ IF Input(v) \in shut
         THEN GiveUp(v) /\ UNCHANGED request
         ELSE /\ input' = [input EXCEPT ![v] = "waiting"]
              /\ request' = [request EXCEPT ![Input(v)] = Append(@, "call")]
              /\ UNCHANGED told
    /\ UNCHANGED <<sessionVars, serverVars, socket, shut, reader, grid, queue, gap>>

(* Notifications on this connection are queued and never looked at. *)
AwaitAnswer(v) ==
    LET c == Input(v) IN
    /\ input[v] = "waiting"
    /\ IF socket[c] = <<>>
         THEN c \in shut /\ GiveUp(v) /\ UNCHANGED socket
         ELSE /\ Read(c) /\ UNCHANGED told
              /\ input' = [input EXCEPT ![v] = IF IsNotice(Head(socket[c])) THEN @ ELSE "idle"]
    /\ UNCHANGED <<sessionVars, serverVars, request, shut, reader, grid, queue, calls, gap>>

(* vt_viewer_free: the flag, a detach on the input connection, and that    *)
(* connection is closed.  The reader thread is not waited for.             *)
Free(v) ==
    /\ MayLeave /\ (reader[v] = "reading" \/ (reader[v] = "done" /\ input[v] = "idle"))
    /\ input[v] \in {"idle", "none"}
    /\ reader' = [reader EXCEPT ![v] = IF @ = "reading" THEN "freed" ELSE @]
    /\ input' = [input EXCEPT ![v] = "none"]
    /\ request' = [request EXCEPT ![Input(v)] = IF input[v] = "idle" /\ Input(v) \notin shut
                                               THEN Append(@, "detach") ELSE @]
    /\ Close({Input(v)})
    /\ UNCHANGED <<sessionVars, serverVars, grid, queue, told, calls, gap>>

(* The viewer's process ends: a detach from vterm attach, a crash. *)
Quit(v) ==
    /\ MayLeave /\ reader[v] # "off" /\ (reader[v] # "done" \/ input[v] # "none")
    /\ reader' = [reader EXCEPT ![v] = "done"] /\ input' = [input EXCEPT ![v] = "none"]
    /\ queue' = [queue EXCEPT ![v] = <<>>]
    /\ Close({Stream(v), Input(v)})
    /\ UNCHANGED <<sessionVars, serverVars, request, grid, told, calls, gap>>

-----------------------------------------------------------------------------
Serve(c) == Accept(c) \/ Snapshot(c) \/ Subscribe(c) \/ Detach(c) \/ Handle(c)
            \/ Respond(c) \/ Disconnect(c)
Reads(v) == AwaitSnapshot(v) \/ NextNotification(v) \/ EndOfStream(v)

Next ==
    \/ \E R \in SUBSET Rows : Output(R)
    \/ Redraw \/ Flush \/ Announce \/ End \/ Unregister \/ Stop
    \/ \E c \in Conns : Serve(c) \/ Write(c) \/ WriterEnds(c)
    \/ \E v \in Viewers : Attach(v) \/ Reads(v) \/ Call(v) \/ AwaitAnswer(v) \/ Free(v) \/ Quit(v)

Spec == Init /\ [][Next]_vars

(* Threads run; the session thread flushes and winds up what it began; a   *)
(* viewer that is not stalled reads.  The program need not write, the      *)
(* session need not end, and nobody has to attach, call or leave.          *)
Fairness ==
    /\ WF_vars(Flush) /\ WF_vars(Unregister)
    /\ \A c \in Conns : WF_vars(Serve(c)) /\ WF_vars(Write(c)) /\ WF_vars(WriterEnds(c))
    /\ \A v \in Viewers \ Stalled : WF_vars(Reads(v)) /\ WF_vars(AwaitAnswer(v))

FairSpec == Spec /\ Fairness

-----------------------------------------------------------------------------
(* Properties.                                                             *)

(* Types: no outbox holds more than its capacity, and only a listed        *)
(* connection is subscribed.                                               *)
TypeOK ==
    /\ screen \in [Rows -> Counts] /\ pending \subseteq Rows
    /\ seq \in 0..MaxFlushes /\ session \in {"run", "exiting", "gone"}
    /\ events \in 0..MaxEvents
    /\ listed \subseteq Conns /\ subs \subseteq listed
    /\ writer \subseteq Conns /\ shut \subseteq Conns
    /\ thread \in [Conns -> {"none", "backlog", "read", "snapped", "reply", "ended"}]
    /\ reply \in [Conns -> Replies \cup {NoReply}]
    /\ outbox \in [Conns -> Seq(Messages)] /\ \A c \in Conns : Len(outbox[c]) <= Capacity
    /\ socket \in [Conns -> Seq(Messages)] /\ \A c \in Conns : Len(socket[c]) <= Buffer
    /\ request \in [Conns -> Seq({"attach", "detach", "call"})]
    /\ reader \in [Viewers -> {"off", "attaching", "reading", "freed", "done"}]
    /\ grid \in [Viewers -> [Rows -> Counts]]
    /\ queue \in [Viewers -> Seq(Notices)]
    /\ told \subseteq Viewers
    /\ input \in [Viewers -> {"idle", "waiting", "none"}]
    /\ calls \in [Viewers -> 0..MaxCalls]
    /\ gap \in [Viewers -> SUBSET Rows]

Watching(v) == reader[v] = "reading"

(* What is on its way to the viewer, in the order it will be applied; the  *)
(* deltas of it, and those that write a row.                               *)
Flight(v)    == queue[v] \o socket[Stream(v)] \o outbox[Stream(v)]
IsDelta(m)   == m.kind = "delta"
Deltas(q)    == {i \in DOMAIN q : IsDelta(q[i])}
Writes(q, r) == {i \in Deltas(q) : r \in DOMAIN q[i].cells}

(* The last of q that writes row r, or the grid g, has it as n. *)
Shows(q, g, r, n) ==
    IF Writes(q, r) = {} THEN g[r] = n
    ELSE \E i \in Writes(q, r) : q[i].cells[r] = n /\ \A j \in Writes(q, r) : j <= i

(* A viewer whose stream is listed is not left behind: with everything on  *)
(* its way applied it shows every row as the session has it, except rows   *)
(* still to be flushed and rows it missed between snapshot and             *)
(* subscription (server.rs: "the honest alternative to silently dropping   *)
(* deltas").                                                               *)
GridFollows ==
    \A v \in Viewers : Watching(v) /\ Stream(v) \in listed =>
        \A r \in Rows \ (pending \cup gap[v]) : Shows(Flight(v), grid[v], r, screen[r])

(* The deltas of q have consecutive numbers and the last has number n. *)
Consecutive(q, n) ==
    \A i \in Deltas(q) :
        \/ q[i].seq = n /\ \A j \in Deltas(q) : j <= i
        \/ \E j \in Deltas(q) : /\ i < j /\ q[j].seq = q[i].seq + 1
                               /\ \A k \in Deltas(q) : k <= i \/ j <= k

(* The deltas on their way to a subscriber are consecutive and end with    *)
(* the last one published: none is lost, repeated or overtaken.            *)
NoHole ==
    \A v \in Viewers : Watching(v) /\ Stream(v) \in subs => Consecutive(Flight(v), seq)

(* Every viewer that is listed follows the session, and no queue is longer *)
(* than the code lets it be.                                               *)
ViewersFollow == TypeOK /\ GridFollows /\ NoHole

(* A viewer never goes back to an older state of a row, in particular not  *)
(* when deltas overtook the answer to its attach: the snapshot is taken    *)
(* before the subscription, so a queued delta is never older than it.      *)
NeverBackwards ==
    [][\A v \in Viewers : Watching(v) => \A r \in Rows : grid'[v][r] >= grid[v][r]]_vars

(* Dropped by deliver while its connection still stands. *)
Dropped(c) == thread[c] \in {"read", "snapped", "reply"} /\ c \notin listed

Settled(v) == \/ ~Watching(v) \/ Dropped(Stream(v))
              \/ session # "run"
              \/ \A r \in Rows \ gap[v] : grid[v][r] = screen[r]

(* A viewer that reads comes to show what the session shows, whatever the  *)
(* other viewers do: a publisher never waits for a slow reader.            *)
ReaderCatchesUp == \A v \in Viewers \ Stalled : []<>Settled(v)

(* The end of the session reaches every viewer that still reads, also one  *)
(* that was attaching while the session ended.                             *)
EndIsTold ==
    \A v \in Viewers \ Stalled :
        reader[v] \in {"attaching", "reading"} /\ session # "run"
            ~> reader[v] \in {"freed", "done"} \/ Dropped(Stream(v))

(* A client that does not read holds nobody else up.                       *)
OneStallsAlone == ReaderCatchesUp /\ EndIsTold

(* A call is answered, also when the connection has fallen behind: the     *)
(* serving thread keeps its own sender.                                    *)
CallAnswered ==
    \A v \in Viewers \ Stalled : input[v] = "waiting" ~> input[v] # "waiting"

(* What a viewer leaves behind is cleaned up: a closed connection is not   *)
(* served for ever, although its writer may be blocked on it and its       *)
(* serving thread on the full outbox.                                      *)
ClosedIsReleased ==
    \A c \in Conns : c \in shut ~> c \notin writer /\ c \notin listed /\ thread[c] = "ended"

-----------------------------------------------------------------------------
(* What the code's documentation says and the code does not do.            *)

(* A viewer that has applied all there is and was not told of a gap shows  *)
(* the session's screen. *)
NoSilentGap ==
    \A v \in Viewers :
        Watching(v) /\ Flight(v) = <<>> /\ Stream(v) \in subs /\ pending = {} /\ session = "run"
            => grid[v] = screen

(* A viewer that falls behind is disconnected, and so learns of it. *)
DroppedIsTold ==
    \A v \in Viewers : Watching(v) /\ Dropped(Stream(v)) ~> ~Watching(v)

(* A viewer told of the session's end shows its last screen. *)
LastOutputShown ==
    \A v \in Viewers : v \in told /\ gap[v] = {} /\ session \in {"exiting", "gone"}
        => grid[v] = screen

(* A freed viewer detaches. *)
FreedDetaches == \A v \in Viewers : reader[v] = "freed" ~> Stream(v) \notin subs
=============================================================================
