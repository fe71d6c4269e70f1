---------------------------- MODULE Fanout_proofs ----------------------------
(***************************************************************************)
(* Proofs about Fanout, for any number of viewers and rows and any size of *)
(* the queues.                                                             *)
(***************************************************************************)
EXTENDS Fanout, SequenceTheorems, TLAPS

-----------------------------------------------------------------------------
(* The inductive invariant.                                                *)

(* A delta may still be numbered.                                          *)
FlushInv == pending # {} => seq < MaxFlushes

(* A serving thread that is to answer has the answer.                      *)
ReplyInv ==
    \A c \in Conns : thread[c] \in {"snapped", "reply"} => reply[c] \in Replies

(* The answer to the attach is on its way, from the serving thread on.     *)
Coming(v, m) ==
    m \in {reply[Stream(v)]} \cup Range(outbox[Stream(v)]) \cup Range(socket[Stream(v)])

(* The attach has not been read.                                           *)
Fresh(v) == thread[Stream(v)] \in {"none", "backlog"} \/ request[Stream(v)] # <<>>

(* A stream is used for one request, and no delta is on its way before the *)
(* subscription; no answer, before the request is read.                    *)
StreamInv(v) ==
    /\ request[Stream(v)] # <<>> => /\ request[Stream(v)] = <<"attach">>
                                    /\ thread[Stream(v)] \in {"backlog", "read"}
    /\ thread[Stream(v)] \in {"none", "backlog"} => Stream(v) \notin listed \cup writer
    /\ Fresh(v) => /\ reader[v] # "reading"
                   /\ \A s \in [Rows -> Counts] : ~Coming(v, Snap(s))
    /\ Fresh(v) \/ thread[Stream(v)] = "snapped" => Stream(v) \notin subs /\ Deltas(Flight(v)) = {}
    /\ reader[v] = "off" => thread[Stream(v)] = "none" /\ Stream(v) \notin shut
    /\ Stream(v) \in shut /\ reader[v] \in {"attaching", "reading"} =>
           Stream(v) \notin listed /\ thread[Stream(v)] # "backlog"

(* The grid the deltas on their way will be applied to: what the viewer    *)
(* shows, or the snapshot it waits for.                                    *)
AppliesTo(v, g) ==
    \/ reader[v] = "reading" /\ g = grid[v]
    \/ reader[v] = "attaching" /\ Coming(v, Snap(g))

(* No delta of q takes a row of g back, or of a delta before it, or has a  *)
(* row as it never was.                                                    *)
GoesForward(q, g, s) ==
    \A r \in Rows :
        /\ g[r] <= s[r]
        /\ \A i \in Writes(q, r) :
             /\ g[r] <= q[i].cells[r] /\ q[i].cells[r] <= s[r]
             /\ \A j \in Writes(q, r) : i <= j => q[i].cells[r] <= q[j].cells[r]

ViewInv(v) ==
    \A g \in [Rows -> Counts] : AppliesTo(v, g) =>
        /\ Stream(v) \in listed /\ thread[Stream(v)] # "snapped" => Stream(v) \in subs
        /\ GoesForward(Flight(v), g, screen)
        /\ Stream(v) \in listed =>
             \A r \in Rows \ (pending \cup gap[v]) : Shows(Flight(v), g, r, screen[r])
        /\ Stream(v) \in subs => Consecutive(Flight(v), seq)

FanoutInv ==
    /\ TypeOK /\ FlushInv /\ ReplyInv
    /\ \A v \in Viewers : StreamInv(v) /\ ViewInv(v)

-----------------------------------------------------------------------------
(* Lemmas about the operators.                                             *)

(* What the kind of a message says of it. *)
LEMMA MessageKinds ==
    ASSUME NEW m \in Messages
    PROVE  /\ IsNotice(m) => m \in Notices
           /\ IsDelta(m) => \E R \in SUBSET Rows : m.cells \in [R -> Counts]
           /\ m.kind = "snapshot" => m.cells \in [Rows -> Counts] /\ m = Snap(m.cells)
<1>1. CASE m \in Replies
  <2>1. ~IsNotice(m) /\ ~IsDelta(m)
    BY <1>1 DEF Replies, Gone, Done, IsNotice, IsDelta
  <2>2. m.kind = "snapshot" => m.cells \in [Rows -> Counts] /\ m = Snap(m.cells)
    BY <1>1 DEF Replies, Gone, Done, Snap
  <2> QED
    BY <2>1, <2>2
<1>2. CASE m \in Notices
  <2>1. m.kind # "snapshot"
    BY <1>2 DEF Notices, Exited, Event
  <2>2. IsDelta(m) => \E R \in SUBSET Rows : m.cells \in [R -> Counts]
    BY <1>2 DEF Notices, Exited, Event, IsDelta
  <2> QED
    BY <1>2, <2>1, <2>2
<1> QED
  BY <1>1, <1>2 DEF Messages

(* The snapshot is an answer. *)
LEMMA SnapType ==
    ASSUME NEW s \in [Rows -> Counts]
    PROVE  Snap(s) \in Replies /\ Snap(s).kind = "snapshot" /\ Snap(s).cells = s
  BY DEF Replies, Snap

(* What a flush publishes of damaged rows is a notification. *)
LEMMA DeltaType ==
    ASSUME NEW R \in SUBSET Rows, R # {}, NEW s \in [Rows -> Counts], NEW n \in 1..MaxFlushes
    PROVE  /\ Delta([r \in R |-> s[r]], n) \in Notices
           /\ IsDelta(Delta([r \in R |-> s[r]], n))
<1>1. [r \in R |-> s[r]] \in UNION {[Q -> Counts] : Q \in (SUBSET Rows) \ {{}}}
  <2>0. \A r \in R : s[r] \in Counts
    OBVIOUS
  <2>1. R \in (SUBSET Rows) \ {{}} /\ [r \in R |-> s[r]] \in [R -> Counts]
    BY <2>0
  <2> QED
    BY <2>1
<1>2. Delta([r \in R |-> s[r]], n) \in Notices
  BY <1>1 DEF Notices, Delta
<1> QED
  BY <1>2 DEF Delta, IsDelta

(* The messages that are neither. *)
LEMMA OtherTypes ==
    /\ {Exited, Event} \subseteq Notices /\ {Gone, Done} \subseteq Replies
    /\ \A m \in {Exited, Event, NoReply} \cup Replies : ~IsDelta(m)
    /\ \A s : ~(NoReply = Snap(s)) /\ ~(Gone = Snap(s)) /\ ~(Done = Snap(s))
  BY DEF Notices, Replies, Exited, Event, Gone, Done, NoReply, Snap, IsDelta

(* Grid::apply. *)
LEMMA ApplyType ==
    ASSUME NEW m \in Messages, NEW g \in [Rows -> Counts]
    PROVE  /\ Apply(g, m) \in [Rows -> Counts]
           /\ ~IsDelta(m) => Apply(g, m) = g
           /\ IsDelta(m) => \A r \in Rows :
                Apply(g, m)[r] = IF r \in DOMAIN m.cells THEN m.cells[r] ELSE g[r]
<1>1. CASE ~IsDelta(m)
  BY <1>1 DEF Apply, IsDelta
<1>2. CASE IsDelta(m)
  BY <1>2, MessageKinds DEF Apply, IsDelta
<1> QED
  BY <1>1, <1>2

(* Concatenation, and the first message of a queue. *)
LEMMA Pieces ==
    ASSUME NEW S
    PROVE  /\ \A p, q, r \in Seq(S) : (p \o q) \o r = p \o (q \o r)
           /\ \A p, q \in Seq(S) : p \o q \in Seq(S)
           /\ \A m \in S : <<m>> \in Seq(S) /\ \A p \in Seq(S) : Append(p, m) = p \o <<m>>
           /\ \A p \in Seq(S) : p # <<>> => /\ Head(p) \in S /\ Tail(p) \in Seq(S)
                                            /\ p = <<Head(p)>> \o Tail(p)
           /\ \A m \in S, p \in Seq(S) : Head(<<m>> \o p) = m /\ Tail(<<m>> \o p) = p /\ <<m>> \o p # <<>>
<1>1. \A p, q, r \in Seq(S) : (p \o q) \o r = p \o (q \o r)
  <2> TAKE p, q, r \in Seq(S)
  <2> QED
    BY ONLY ConcatAssociative, p \in Seq(S), q \in Seq(S), r \in Seq(S)
<1>2. \A p, q \in Seq(S) : p \o q \in Seq(S)
  BY ConcatProperties
<1>3. \A m \in S : <<m>> \in Seq(S) /\ \A p \in Seq(S) : Append(p, m) = p \o <<m>>
  BY AppendIsConcat
<1>4. \A p \in Seq(S) : p # <<>> => /\ Head(p) \in S /\ Tail(p) \in Seq(S)
                                    /\ p = <<Head(p)>> \o Tail(p)
  <2> SUFFICES ASSUME NEW p \in Seq(S), p # <<>>
               PROVE  /\ Head(p) \in S /\ Tail(p) \in Seq(S)
                      /\ p = <<Head(p)>> \o Tail(p)
    OBVIOUS
  <2>1. /\ Head(p) \in S /\ Tail(p) \in Seq(S) /\ Len(Tail(p)) = Len(p) - 1
        /\ \A i \in 1..Len(Tail(p)) : Tail(p)[i] = p[i + 1]
    BY HeadTailProperties
  <2>2. <<Head(p)>> \in Seq(S) /\ Len(<<Head(p)>>) = 1 /\ <<Head(p)>>[1] = p[1]
    BY <2>1
  <2>3. Len(p) \in Nat
    BY LenProperties
  <2>4. /\ <<Head(p)>> \o Tail(p) \in Seq(S) /\ Len(<<Head(p)>> \o Tail(p)) = Len(p)
        /\ \A i \in 1..Len(p) : (<<Head(p)>> \o Tail(p))[i] = p[i]
    BY ONLY <2>1, <2>2, <2>3, ConcatProperties
  <2> QED
    BY <2>1, <2>4, SeqEqual
<1>5. \A m \in S, p \in Seq(S) : Head(<<m>> \o p) = m /\ Tail(<<m>> \o p) = p /\ <<m>> \o p # <<>>
  <2> SUFFICES ASSUME NEW m \in S, NEW p \in Seq(S)
               PROVE  Head(<<m>> \o p) = m /\ Tail(<<m>> \o p) = p /\ <<m>> \o p # <<>>
    OBVIOUS
  <2>0. <<m>> \in Seq(S) /\ Len(<<m>>) = 1 /\ <<m>>[1] = m /\ Len(p) \in Nat
    BY LenProperties
  <2>1. /\ <<m>> \o p \in Seq(S) /\ Len(<<m>> \o p) = 1 + Len(p) /\ (<<m>> \o p)[1] = m
        /\ \A i \in 2..(1 + Len(p)) : (<<m>> \o p)[i] = p[i - 1]
    BY ONLY <2>0, ConcatProperties
  <2>2. <<m>> \o p # <<>>
    BY <2>0, <2>1
  <2>3. /\ Tail(<<m>> \o p) \in Seq(S) /\ Len(Tail(<<m>> \o p)) = Len(p)
        /\ \A i \in 1..Len(p) : Tail(<<m>> \o p)[i] = p[i]
    BY ONLY <2>0, <2>1, <2>2, HeadTailProperties
  <2> QED
    BY <2>1, <2>2, <2>3, SeqEqual
<1> QED
  BY <1>1, <1>2, <1>3, <1>4, <1>5

(* How a message moves along the three queues. *)
LEMMA MoveWritten ==
    ASSUME NEW S, NEW a \in Seq(S), NEW b \in Seq(S), NEW c \in Seq(S), c # <<>>,
           NEW h \in S, h = Head(c), NEW t \in Seq(S), t = Tail(c)
    PROVE  a \o Append(b, h) \o t = a \o b \o c
<1> DEFINE x == <<h>>
           y == a \o b
<1>1. x \in Seq(S)
  OBVIOUS
<1>2. c = x \o t /\ Append(b, h) = b \o x
  BY Pieces
<1>3. y \in Seq(S)
  BY ConcatProperties
<1> HIDE DEF x
<1>4. a \o (b \o x) = (a \o b) \o x
  BY ONLY <1>1, ConcatAssociative, a \in Seq(S), b \in Seq(S)
<1>5. a \o Append(b, h) = y \o x /\ a \o b = y
  BY ONLY <1>2, <1>4
<1> HIDE DEF y
<1>6. (y \o x) \o t = y \o (x \o t)
  BY ONLY <1>1, <1>3, ConcatAssociative, t \in Seq(S)
<1> QED
  BY ONLY <1>2, <1>5, <1>6

(* The same for the other moves: in at the end, out at the front. *)
LEMMA Moves ==
    ASSUME NEW S, NEW a \in Seq(S), NEW b \in Seq(S), NEW c \in Seq(S)
    PROVE  /\ a \o b \o c \in Seq(S)
           /\ b # <<>> => Append(a, Head(b)) \o Tail(b) \o c = a \o b \o c
           /\ \A m \in S : a \o b \o Append(c, m) = Append(a \o b \o c, m)
           /\ a # <<>> => /\ Tail(a) \o b \o c = Tail(a \o b \o c)
                          /\ Head(a) = Head(a \o b \o c) /\ a \o b \o c # <<>>
           /\ a = <<>> /\ b # <<>> =>
                /\ a \o Tail(b) \o c = Tail(a \o b \o c)
                /\ Head(b) = Head(a \o b \o c) /\ a \o b \o c # <<>>
<1>1. \A p, q, r \in Seq(S) : (p \o q) \o r = p \o (q \o r)
  <2> TAKE p, q, r \in Seq(S)
  <2> QED
    BY ONLY ConcatAssociative, p \in Seq(S), q \in Seq(S), r \in Seq(S)
<1>2. \A p, q \in Seq(S) : p \o q \in Seq(S)
  BY Pieces
<1>3. \A m \in S : <<m>> \in Seq(S) /\ \A p \in Seq(S) : Append(p, m) = p \o <<m>>
  BY Pieces
<1>4. \A p \in Seq(S) : p # <<>> => /\ Head(p) \in S /\ Tail(p) \in Seq(S)
                                    /\ p = <<Head(p)>> \o Tail(p)
  BY Pieces
<1>5. \A m \in S, p \in Seq(S) : Head(<<m>> \o p) = m /\ Tail(<<m>> \o p) = p /\ <<m>> \o p # <<>>
  BY Pieces
<1>7. b # <<>> => Append(a, Head(b)) \o Tail(b) \o c = a \o b \o c
  BY ONLY <1>1, <1>2, <1>3, <1>4, a \in Seq(S), b \in Seq(S), c \in Seq(S)
<1>8. \A m \in S : a \o b \o Append(c, m) = Append(a \o b \o c, m)
  BY ONLY <1>1, <1>2, <1>3, a \in Seq(S), b \in Seq(S), c \in Seq(S)
<1>9. ASSUME NEW p \in Seq(S), NEW q \in Seq(S), p # <<>>
      PROVE  Tail(p) \o q = Tail(p \o q) /\ Head(p) = Head(p \o q) /\ p \o q # <<>>
  <2>1. /\ Head(p) \in S /\ Tail(p) \in Seq(S) /\ p = <<Head(p)>> \o Tail(p)
        /\ <<Head(p)>> \in Seq(S)
    BY <1>3, <1>4, <1>9
  <2>2. Tail(p) \o q \in Seq(S) /\ p \o q = <<Head(p)>> \o (Tail(p) \o q)
    BY ONLY <2>1, <1>1, <1>2, q \in Seq(S)
  <2> QED
    BY ONLY <2>1, <2>2, <1>5
<1>10. /\ b \o c \in Seq(S) /\ a \o (b \o c) = a \o b \o c
       /\ Tail(a) \in Seq(S) => Tail(a) \o (b \o c) = Tail(a) \o b \o c
  <2>1. b \o c \in Seq(S)
    BY <1>2
  <2>2. a \o (b \o c) = (a \o b) \o c
    BY <1>1
  <2>3. Tail(a) \in Seq(S) => Tail(a) \o (b \o c) = (Tail(a) \o b) \o c
    BY <1>1
  <2> QED
    BY <2>1, <2>2, <2>3
<1>11. a # <<>> => /\ Tail(a) \o b \o c = Tail(a \o b \o c)
                   /\ Head(a) = Head(a \o b \o c) /\ a \o b \o c # <<>>
  BY <1>4, <1>9, <1>10
<1>12. a = <<>> => a \o b \o c = b \o c /\ \A p \in Seq(S) : a \o p = p
  BY ConcatEmptySeq
<1>13. a = <<>> /\ b # <<>> =>
         /\ a \o Tail(b) \o c = Tail(a \o b \o c)
         /\ Head(b) = Head(a \o b \o c) /\ a \o b \o c # <<>>
  BY <1>4, <1>9, <1>12
<1> QED
  BY <1>2, <1>7, <1>8, <1>11, <1>13

-----------------------------------------------------------------------------
(* What each change of a queue of messages keeps.                          *)

(* The deltas of a queue that grows, shrinks or is cut off.                *)
LEMMA DeltasOfAppend ==
    ASSUME NEW q \in Seq(Messages), NEW m \in Messages
    PROVE  /\ Len(q) \in Nat /\ Append(q, m)[Len(q) + 1] = m
           /\ \A i \in Deltas(q) : i \in 1..Len(q) /\ Append(q, m)[i] = q[i]
           /\ Deltas(Append(q, m)) = IF IsDelta(m) THEN Deltas(q) \cup {Len(q) + 1} ELSE Deltas(q)
<1>1. /\ Len(q) \in Nat /\ DOMAIN q = 1..Len(q)
      /\ Append(q, m) \in Seq(Messages) /\ Len(Append(q, m)) = Len(q) + 1
      /\ DOMAIN Append(q, m) = 1..(Len(q) + 1)
  BY LenProperties, AppendProperties
<1>2. /\ Append(q, m)[Len(q) + 1] = m
      /\ \A i \in 1..Len(q) : Append(q, m)[i] = q[i]
  BY AppendProperties
<1> QED
  BY <1>1, <1>2 DEF Deltas

(* ... or loses its first message, *)
LEMMA DeltasOfTail ==
    ASSUME NEW q \in Seq(Messages), q # <<>>
    PROVE  /\ Head(q) \in Messages /\ Tail(q) \in Seq(Messages)
           /\ 1 \in DOMAIN q /\ q[1] = Head(q) /\ Deltas(q) \subseteq Nat \ {0}
           /\ \A i \in Deltas(Tail(q)) : i \in Nat \ {0} /\ i + 1 \in Deltas(q) /\ Tail(q)[i] = q[i + 1]
           /\ \A i \in Deltas(q) : i # 1 => i - 1 \in Deltas(Tail(q)) /\ Tail(q)[i - 1] = q[i]
<1>1. /\ Len(q) \in Nat \ {0} /\ DOMAIN q = 1..Len(q)
      /\ Head(q) \in Messages /\ Tail(q) \in Seq(Messages)
      /\ Len(Tail(q)) = Len(q) - 1
      /\ \A i \in 1..Len(Tail(q)) : Tail(q)[i] = q[i + 1]
  BY LenProperties, EmptySeq, HeadTailProperties
<1>2. DOMAIN Tail(q) = 1..(Len(q) - 1)
  BY <1>1, LenProperties
<1>3. q[1] = Head(q)
  BY <1>1
<1> QED
  BY <1>1, <1>2, <1>3 DEF Deltas

(* ... or its end. *)
LEMMA DeltasOfPrefix ==
    ASSUME NEW q \in Seq(Messages), NEW p \in Seq(Messages)
    PROVE  \A i \in Deltas(q) : i \in Deltas(q \o p) /\ (q \o p)[i] = q[i]
<1>1. /\ Len(q) \in Nat /\ DOMAIN q = 1..Len(q) /\ Len(p) \in Nat
      /\ q \o p \in Seq(Messages) /\ Len(q \o p) = Len(q) + Len(p)
      /\ DOMAIN (q \o p) = 1..(Len(q) + Len(p))
  BY LenProperties, ConcatProperties
<1>2. \A i \in 1..Len(q) : (q \o p)[i] = q[i]
  BY ConcatProperties, <1>1
<1> QED
  BY <1>1, <1>2 DEF Deltas

(* A message that is no delta changes nothing of what is to come. *)
LEMMA OtherAppended ==
    ASSUME NEW q \in Seq(Messages), NEW m \in Messages, ~IsDelta(m)
    PROVE  /\ Deltas(Append(q, m)) = Deltas(q)
           /\ \A g, s : GoesForward(q, g, s) => GoesForward(Append(q, m), g, s)
           /\ \A g, r, n : Shows(q, g, r, n) => Shows(Append(q, m), g, r, n)
           /\ \A n : Consecutive(q, n) => Consecutive(Append(q, m), n)
<1> DEFINE p == Append(q, m)
<1>1. Deltas(p) = Deltas(q) /\ \A i \in Deltas(q) : p[i] = q[i]
  BY DeltasOfAppend
<1> HIDE DEF p
<1>2. \A r : /\ Writes(p, r) = Writes(q, r)
             /\ \A i \in Writes(q, r) : p[i] = q[i]
  BY <1>1 DEF Writes
<1>3. ASSUME NEW g, NEW s, GoesForward(q, g, s) PROVE GoesForward(p, g, s)
  <2> SUFFICES ASSUME NEW r \in Rows
               PROVE  /\ g[r] <= s[r]
                      /\ \A i \in Writes(p, r) :
                           /\ g[r] <= p[i].cells[r] /\ p[i].cells[r] <= s[r]
                           /\ \A j \in Writes(p, r) : i <= j => p[i].cells[r] <= p[j].cells[r]
    BY DEF GoesForward
  <2>1. /\ g[r] <= s[r]
        /\ \A i \in Writes(q, r) :
             /\ g[r] <= q[i].cells[r] /\ q[i].cells[r] <= s[r]
             /\ \A j \in Writes(q, r) : i <= j => q[i].cells[r] <= q[j].cells[r]
    BY <1>3 DEF GoesForward
  <2> QED
    BY <2>1, <1>2
<1>4. ASSUME NEW g, NEW r, NEW n, Shows(q, g, r, n) PROVE Shows(p, g, r, n)
  <2>1. Writes(p, r) = Writes(q, r) /\ \A i \in Writes(q, r) : p[i] = q[i]
    BY <1>2
  <2> QED
    BY <2>1, <1>4 DEF Shows
<1>5. \A n : Consecutive(q, n) => Consecutive(p, n)
  BY <1>1 DEF Consecutive
<1> QED
  BY <1>1, <1>3, <1>4, <1>5 DEF p

(* A delta of what changed is newer than all before it. *)
LEMMA DeltaAppended ==
    ASSUME NEW q \in Seq(Messages), NEW R \in SUBSET Rows, R # {},
           NEW s \in [Rows -> Counts], NEW n \in 0..MaxFlushes, n < MaxFlushes,
           NEW g \in [Rows -> Counts], GoesForward(q, g, s)
    PROVE  LET p == Append(q, Delta([r \in R |-> s[r]], n + 1)) IN
           /\ GoesForward(p, g, s)
           /\ \A r \in R : Shows(p, g, r, s[r])
           /\ \A r \in Rows \ R : \A k : Shows(q, g, r, k) => Shows(p, g, r, k)
           /\ Consecutive(q, n) => Consecutive(p, n + 1)
<1> DEFINE m == Delta([r \in R |-> s[r]], n + 1)
           p == Append(q, m)
           l == Len(q) + 1
<1>1. m \in Messages /\ IsDelta(m)
  BY DeltaType, FanoutAssumption DEF Messages
<1>2. m.cells = [r \in R |-> s[r]] /\ DOMAIN m.cells = R /\ m.seq = n + 1
  BY DEF Delta
<1> HIDE DEF m
<1>3. /\ Len(q) \in Nat /\ p[l] = m /\ \A i \in Deltas(q) : i \in 1..Len(q) /\ p[i] = q[i]
      /\ Deltas(p) = Deltas(q) \cup {l}
  BY <1>1, DeltasOfAppend
<1> HIDE DEF p
<1>4. /\ l \in Nat /\ \A i \in Deltas(q) : i \in Nat /\ i < l
      /\ p[l].cells = [r \in R |-> s[r]] /\ DOMAIN p[l].cells = R /\ p[l].seq = n + 1
  BY <1>2, <1>3
<1> HIDE DEF l
<1>5. \A r \in R : Writes(p, r) = Writes(q, r) \cup {l}
  BY <1>3, <1>4 DEF Writes
<1>6. \A r \in Rows \ R : Writes(p, r) = Writes(q, r)
  BY <1>3, <1>4 DEF Writes
<1>7. \A r \in Rows : \A i \in Writes(q, r) : i \in Nat /\ i < l /\ p[i] = q[i]
  BY <1>3, <1>4 DEF Writes
<1>8. \A r \in R : p[l].cells[r] = s[r] /\ s[r] \in Nat
  BY <1>4 DEF Counts
<1>9. GoesForward(p, g, s)
  <2> SUFFICES ASSUME NEW r \in Rows
               PROVE  /\ g[r] <= s[r]
                      /\ \A i \in Writes(p, r) :
                           /\ g[r] <= p[i].cells[r] /\ p[i].cells[r] <= s[r]
                           /\ \A j \in Writes(p, r) : i <= j => p[i].cells[r] <= p[j].cells[r]
    BY DEF GoesForward
  <2>1. /\ g[r] <= s[r]
        /\ \A i \in Writes(q, r) :
             /\ g[r] <= q[i].cells[r] /\ q[i].cells[r] <= s[r]
             /\ \A j \in Writes(q, r) : i <= j => q[i].cells[r] <= q[j].cells[r]
    BY DEF GoesForward
  <2>2. CASE r \in R
    BY <2>1, <2>2, <1>5, <1>7, <1>8, <1>4
  <2>3. CASE r \notin R
    BY <2>1, <2>3, <1>6, <1>7
  <2> QED
    BY <2>2, <2>3
<1>10. \A r \in R : Shows(p, g, r, s[r])
  BY <1>4, <1>5, <1>7, <1>8 DEF Shows
<1>11. \A r \in Rows \ R : \A k : Shows(q, g, r, k) => Shows(p, g, r, k)
  BY <1>6, <1>7 DEF Shows
<1>12. ASSUME Consecutive(q, n) PROVE Consecutive(p, n + 1)
  <2> SUFFICES ASSUME NEW i \in Deltas(p)
               PROVE  \/ p[i].seq = n + 1 /\ \A j \in Deltas(p) : j <= i
                      \/ \E j \in Deltas(p) : /\ i < j /\ p[j].seq = p[i].seq + 1
                                             /\ \A k \in Deltas(p) : k <= i \/ j <= k
    BY DEF Consecutive
  <2>1. CASE i = l
    BY <2>1, <1>3, <1>4
  <2>2. CASE i # l
    <3>1. i \in Deltas(q) /\ p[i] = q[i] /\ i \in Nat /\ i < l
      BY <2>2, <1>3, <1>4
    <3>2. CASE q[i].seq = n /\ \A j \in Deltas(q) : j <= i
      <4>1. /\ l \in Deltas(p) /\ p[l].seq = p[i].seq + 1
            /\ \A k \in Deltas(p) : k <= i \/ l <= k
        BY <3>1, <3>2, <1>3, <1>4
      <4> QED
        BY <4>1, <3>1
    <3>3. ASSUME NEW j \in Deltas(q), i < j, q[j].seq = q[i].seq + 1,
                 \A k \in Deltas(q) : k <= i \/ j <= k
          PROVE  /\ j \in Deltas(p) /\ p[j].seq = p[i].seq + 1
                 /\ \A k \in Deltas(p) : k <= i \/ j <= k
      BY <3>1, <3>3, <1>3, <1>4
    <3> QED
      BY <3>1, <3>2, <3>3, <1>12 DEF Consecutive
  <2> QED
    BY <2>1, <2>2
<1> QED
  BY <1>9, <1>10, <1>11, <1>12 DEF p, m

(* Applying the first message of a queue. *)
LEMMA FirstApplied ==
    ASSUME NEW q \in Seq(Messages), q # <<>>, NEW g \in [Rows -> Counts], NEW s,
           GoesForward(q, g, s)
    PROVE  /\ \A r \in Rows : g[r] <= Apply(g, Head(q))[r]
           /\ GoesForward(Tail(q), Apply(g, Head(q)), s)
           /\ \A r \in Rows : \A n : Shows(q, g, r, n) => Shows(Tail(q), Apply(g, Head(q)), r, n)
           /\ \A n : Consecutive(q, n) => Consecutive(Tail(q), n)
<1> DEFINE h == Apply(g, Head(q))
           t == Tail(q)
<1>1. /\ Head(q) \in Messages /\ 1 \in DOMAIN q /\ q[1] = Head(q) /\ Deltas(q) \subseteq Nat \ {0}
      /\ \A i \in Deltas(t) : i \in Nat \ {0} /\ i + 1 \in Deltas(q) /\ t[i] = q[i + 1]
      /\ \A i \in Deltas(q) : i # 1 => i - 1 \in Deltas(t) /\ t[i - 1] = q[i]
  BY DeltasOfTail
<1>2. \A r \in Rows : h[r] = IF 1 \in Writes(q, r) THEN q[1].cells[r] ELSE g[r]
  BY <1>1, ApplyType DEF Writes, Deltas
<1> HIDE DEF h, t
<1>3. \A r \in Rows :
        /\ Writes(q, r) \subseteq Nat \ {0}
        /\ \A i \in Writes(t, r) : i \in Nat \ {0} /\ i + 1 \in Writes(q, r) /\ t[i] = q[i + 1]
        /\ \A i \in Writes(q, r) : i # 1 => i - 1 \in Writes(t, r) /\ t[i - 1] = q[i]
  BY <1>1 DEF Writes
<1>4. \A r \in Rows :
        /\ g[r] <= s[r] /\ g[r] \in Nat
        /\ \A i \in Writes(q, r) :
             /\ g[r] <= q[i].cells[r] /\ q[i].cells[r] <= s[r]
             /\ \A j \in Writes(q, r) : i <= j => q[i].cells[r] <= q[j].cells[r]
  BY DEF GoesForward, Counts
<1>5. \A r \in Rows : g[r] <= h[r]
  BY <1>2, <1>4
<1>6. GoesForward(t, h, s)
  <2> SUFFICES ASSUME NEW r \in Rows
               PROVE  /\ h[r] <= s[r]
                      /\ \A i \in Writes(t, r) :
                           /\ h[r] <= t[i].cells[r] /\ t[i].cells[r] <= s[r]
                           /\ \A j \in Writes(t, r) : i <= j => t[i].cells[r] <= t[j].cells[r]
    BY DEF GoesForward
  <2>1. h[r] <= s[r]
    BY <1>2, <1>4
  <2>2. ASSUME NEW i \in Writes(t, r)
        PROVE  /\ h[r] <= t[i].cells[r] /\ t[i].cells[r] <= s[r]
               /\ \A j \in Writes(t, r) : i <= j => t[i].cells[r] <= t[j].cells[r]
    <3>1. i \in Nat \ {0} /\ i + 1 \in Writes(q, r) /\ t[i] = q[i + 1]
      BY <1>3
    <3>2. \A j \in Writes(t, r) : j \in Nat \ {0} /\ j + 1 \in Writes(q, r) /\ t[j] = q[j + 1]
      BY <1>3
    <3>3. h[r] <= q[i + 1].cells[r]
      BY <1>2, <1>4, <3>1
    <3> QED
      BY <1>4, <3>1, <3>2, <3>3
  <2> QED
    BY <2>1, <2>2
<1>7. ASSUME NEW r \in Rows, NEW n, Shows(q, g, r, n)
      PROVE  Shows(t, h, r, n)
  <2>1. CASE Writes(q, r) = {}
    BY <2>1, <1>2, <1>3, <1>7 DEF Shows
  <2>2. CASE Writes(q, r) # {}
    <3>1. PICK i \in Writes(q, r) : q[i].cells[r] = n /\ \A j \in Writes(q, r) : j <= i
      BY <2>2, <1>7 DEF Shows
    <3>2. CASE i = 1
      <4>1. Writes(t, r) = {}
        <5> SUFFICES ASSUME NEW j \in Writes(t, r) PROVE FALSE
          OBVIOUS
        <5>1. j \in Nat \ {0} /\ j + 1 \in Writes(q, r)
          BY <1>3
        <5> QED
          BY <5>1, <3>1, <3>2
      <4> QED
        BY <4>1, <3>1, <3>2, <1>2 DEF Shows
    <3>3. CASE i # 1
      <4>1. /\ i - 1 \in Writes(t, r) /\ t[i - 1].cells[r] = n
            /\ \A j \in Writes(t, r) : j <= i - 1
        BY <3>1, <3>3, <1>3
      <4> QED
        BY <4>1 DEF Shows
    <3> QED
      BY <3>2, <3>3
  <2> QED
    BY <2>1, <2>2
<1>8. ASSUME NEW n, Consecutive(q, n)
      PROVE  Consecutive(t, n)
  <2> SUFFICES ASSUME NEW i \in Deltas(t)
               PROVE  \/ t[i].seq = n /\ \A j \in Deltas(t) : j <= i
                      \/ \E j \in Deltas(t) : /\ i < j /\ t[j].seq = t[i].seq + 1
                                             /\ \A k \in Deltas(t) : k <= i \/ j <= k
    BY DEF Consecutive
  <2>1. i \in Nat \ {0} /\ i + 1 \in Deltas(q) /\ t[i] = q[i + 1]
    BY <1>1 DEF t
  <2>2. \A j \in Deltas(t) : j \in Nat \ {0} /\ j + 1 \in Deltas(q)
    BY <1>1 DEF t
  <2>3. CASE q[i + 1].seq = n /\ \A j \in Deltas(q) : j <= i + 1
    BY <2>1, <2>2, <2>3
  <2>4. ASSUME NEW j \in Deltas(q), i + 1 < j, q[j].seq = q[i + 1].seq + 1,
               \A k \in Deltas(q) : k <= i + 1 \/ j <= k
        PROVE  /\ j - 1 \in Deltas(t) /\ i < j - 1 /\ t[j - 1].seq = t[i].seq + 1
               /\ \A k \in Deltas(t) : k <= i \/ j - 1 <= k
    <3>1. j \in Nat /\ j # 1 /\ j - 1 \in Deltas(t) /\ t[j - 1] = q[j]
      <4>1. j \in Nat /\ j # 1
        BY <1>1, <2>1, <2>4
      <4> QED
        BY <4>1, <1>1
    <3> QED
      BY <3>1, <2>1, <2>2, <2>4
  <2> QED
    BY <2>1, <2>3, <2>4, <1>8 DEF Consecutive
<1> QED
  BY <1>5, <1>6, <1>7, <1>8 DEF h, t

(* A queue that is cut off still goes forward. *)
LEMMA CutOff ==
    ASSUME NEW q \in Seq(Messages), NEW p \in Seq(Messages)
    PROVE  /\ Deltas(q \o p) = {} => Deltas(q) = {}
           /\ \A g, s : GoesForward(q \o p, g, s) => GoesForward(q, g, s)
<1>1. \A i \in Deltas(q) : i \in Deltas(q \o p) /\ (q \o p)[i] = q[i]
  BY DeltasOfPrefix
<1>2. \A r : \A i \in Writes(q, r) : i \in Writes(q \o p, r) /\ (q \o p)[i] = q[i]
  BY <1>1 DEF Writes
<1> QED
  BY <1>1, <1>2 DEF GoesForward

(* Without a delta a grid stays what it is. *)
LEMMA NothingToApply ==
    ASSUME NEW q, Deltas(q) = {}
    PROVE  /\ \A s \in [Rows -> Counts] : GoesForward(q, s, s)
           /\ \A g, r : Shows(q, g, r, g[r])
           /\ \A n : Consecutive(q, n)
<1>1. \A r : Writes(q, r) = {}
  BY DEF Writes
<1> QED
  BY <1>1 DEF GoesForward, Shows, Consecutive, Counts

-----------------------------------------------------------------------------
(* Types.                                                                  *)

(* The two connections of a viewer are its own. *)
LEMMA ConnsAre ==
    ASSUME NEW v \in Viewers
    PROVE  /\ Stream(v) \in Conns /\ Input(v) \in Conns
           /\ \A w \in Viewers : Input(w) # Stream(v) /\ (Stream(w) = Stream(v) => w = v)
           /\ \A c \in Conns : c[1] = v => c = Stream(v) \/ c = Input(v)
           /\ Stream(v)[1] = v
  BY DEF Conns, Stream, Input

(* All queues hold messages. *)
LEMMA QueuesAre ==
    ASSUME TypeOK
    PROVE  /\ \A c \in Conns : outbox[c] \in Seq(Messages) /\ socket[c] \in Seq(Messages)
           /\ \A v \in Viewers : queue[v] \in Seq(Messages) /\ Flight(v) \in Seq(Messages)
<1>1. \A c \in Conns : outbox[c] \in Seq(Messages) /\ socket[c] \in Seq(Messages)
  BY DEF TypeOK
<1>2. ASSUME NEW v \in Viewers
      PROVE  queue[v] \in Seq(Messages)
  <2>1. queue[v] \in Seq(Notices) /\ Notices \subseteq Messages
    BY DEF TypeOK, Messages
  <2> QED
    BY ONLY <2>1, SeqMonotonic
<1>3. ASSUME NEW v \in Viewers
      PROVE  Flight(v) \in Seq(Messages)
  <2>1. Stream(v) \in Conns
    BY ConnsAre
  <2> QED
    BY <1>1, <1>2, <2>1, Moves DEF Flight
<1> QED
  BY <1>1, <1>2, <1>3

(* deliver, to the connections it selects. *)
LEMMA Delivered ==
    ASSUME TypeOK, NEW m \in Messages, NEW selected, Deliver(m, selected)
    PROVE  /\ outbox' \in [Conns -> Seq(Messages)]
           /\ \A c \in Conns : Len(outbox'[c]) <= Capacity
           /\ listed' \subseteq listed /\ subs' \subseteq subs /\ subs' \subseteq listed'
           /\ \A c \in Conns : outbox'[c] = outbox[c] \/ (c \in selected /\ outbox'[c] = Append(outbox[c], m))
           /\ \A c \in listed' \cap selected : outbox'[c] = Append(outbox[c], m)
           /\ \A c \in listed' : c \in subs => c \in subs'
           /\ \A c \in Conns : c \notin listed \cap selected => outbox'[c] = outbox[c]
<1>1. outbox' \in [Conns -> Seq(Messages)]
  BY DEF Deliver, TypeOK
<1>2. ASSUME NEW c \in Conns PROVE Len(outbox'[c]) <= Capacity
  <2>1. /\ outbox[c] \in Seq(Messages) /\ Len(outbox[c]) \in Nat /\ Len(outbox[c]) <= Capacity
        /\ Capacity \in Nat
    BY FanoutAssumption, LenProperties DEF TypeOK
  <2>2. CASE c \in listed \cap selected /\ ~Refuses(c)
    BY <2>1, <2>2 DEF Deliver, Refuses
  <2>3. CASE ~(c \in listed \cap selected /\ ~Refuses(c))
    BY <2>1, <2>3 DEF Deliver
  <2> QED
    BY <2>2, <2>3
<1>3. /\ listed' \subseteq listed /\ subs' \subseteq subs /\ subs' \subseteq listed'
      /\ \A c \in listed' : c \in subs => c \in subs'
  BY DEF Deliver, TypeOK
<1>4. ASSUME NEW c \in Conns
      PROVE  /\ outbox'[c] = outbox[c] \/ (c \in selected /\ outbox'[c] = Append(outbox[c], m))
             /\ c \notin listed \cap selected => outbox'[c] = outbox[c]
  <2>1. outbox'[c] = IF c \in (listed \cap selected) \ {d \in listed \cap selected : Refuses(d)}
                     THEN Append(outbox[c], m) ELSE outbox[c]
    BY DEF Deliver
  <2> QED
    BY <2>1
<1>5. ASSUME NEW c \in listed' \cap selected PROVE outbox'[c] = Append(outbox[c], m)
  <2>1. c \in Conns /\ c \in listed
    BY <1>3 DEF TypeOK
  <2> QED
    BY <2>1 DEF Deliver
<1> QED
  BY <1>1, <1>2, <1>3, <1>4, <1>5

(* What has a type of its own, apart from the rest. *)
LEMMA TypeInit == Init => TypeOK /\ FlushInv /\ ReplyInv
<1> SUFFICES ASSUME Init PROVE TypeOK /\ FlushInv /\ ReplyInv
  OBVIOUS
<1>1. screen \in [Rows -> Counts]
  BY FanoutAssumption DEF Init, Counts
<1>2. \A v \in Viewers : grid[v] = screen
  BY DEF Init
<1>3. NoReply \in Replies \cup {NoReply} /\ <<>> \in Seq(Messages) /\ Len(<<>>) = 0
  OBVIOUS
<1>4. TypeOK
  BY <1>1, <1>2, <1>3, FanoutAssumption DEF Init, TypeOK
<1> QED
  BY <1>4 DEF Init, FlushInv, ReplyInv

(* The steps of the session keep the types, *)
LEMMA SessionTypes ==
    ASSUME TypeOK, FlushInv, ReplyInv,
           (\E R \in SUBSET Rows : Output(R)) \/ Redraw \/ Flush \/ Announce \/ End \/ Unregister \/ Stop
    PROVE  TypeOK' /\ FlushInv' /\ ReplyInv'
<1> USE FanoutAssumption
<1>1. ASSUME NEW R \in SUBSET Rows, Output(R) PROVE TypeOK' /\ FlushInv' /\ ReplyInv'
  <2>1. screen' \in [Rows -> Counts]
    BY <1>1 DEF Output, TypeOK, Counts
  <2> QED
    BY <1>1, <2>1 DEF Output, TypeOK, FlushInv, ReplyInv, serverVars, wireVars, viewerVars
<1>2. CASE Redraw
  BY <1>2 DEF Redraw, TypeOK, FlushInv, ReplyInv, serverVars, wireVars, viewerVars
<1>3. CASE Flush
  <2> DEFINE m == Delta([r \in pending |-> screen[r]], seq + 1)
  <2>1. m \in Messages /\ Deliver(m, subs) /\ seq + 1 \in 1..MaxFlushes
    <3>1. Deliver(m, subs) /\ pending # {} /\ pending \in SUBSET Rows /\ screen \in [Rows -> Counts]
      BY <1>3 DEF Flush, PublishDamage, TypeOK
    <3>2. seq + 1 \in 1..MaxFlushes
      BY <3>1 DEF TypeOK, FlushInv
    <3>3. m \in Notices
      BY ONLY <3>1, <3>2, DeltaType DEF m
    <3> QED
      BY <3>1, <3>2, <3>3 DEF Messages
  <2> HIDE DEF m
  <2>2. gap' \in [Viewers -> SUBSET Rows]
    BY <1>3 DEF Flush, PublishDamage, TypeOK
  <2>3. /\ outbox' \in [Conns -> Seq(Messages)] /\ \A c \in Conns : Len(outbox'[c]) <= Capacity
        /\ listed' \subseteq listed /\ subs' \subseteq listed'
    BY <2>1, Delivered
  <2> QED
    BY <1>3, <2>1, <2>2, <2>3
    DEF Flush, PublishDamage, TypeOK, FlushInv, ReplyInv, wireVars, viewerVars
<1>4. CASE Announce \/ End \/ Unregister
  <2>1. PICK m \in {Event, Exited} : Deliver(m, Conns)
    BY <1>4 DEF Announce, End, Unregister, Broadcast
  <2>2. m \in Messages
    BY OtherTypes DEF Messages
  <2>3. /\ outbox' \in [Conns -> Seq(Messages)] /\ \A c \in Conns : Len(outbox'[c]) <= Capacity
        /\ listed' \subseteq listed /\ subs' \subseteq listed'
    BY <2>1, <2>2, Delivered
  <2> QED
    BY <1>4, <2>3 DEF Announce, End, Unregister, TypeOK, FlushInv, ReplyInv, wireVars, viewerVars
<1>5. CASE Stop
  <2>1. <<>> \in Seq(Messages) /\ Len(<<>>) = 0 /\ <<>> \in Seq({"attach", "detach", "call"})
    OBVIOUS
  <2> QED
    BY <1>5, <2>1 DEF Stop, TypeOK, FlushInv, ReplyInv, viewerVars
<1> QED
  BY <1>1, <1>2, <1>3, <1>4, <1>5

(* ... those of the server for a connection, *)
LEMMA ServerTypes ==
    ASSUME TypeOK, FlushInv, ReplyInv, NEW c \in Conns, Serve(c) \/ Write(c) \/ WriterEnds(c)
    PROVE  TypeOK' /\ FlushInv' /\ ReplyInv'
<1> USE FanoutAssumption DEF sessionVars, wireVars, viewerVars
<1>1. CASE Accept(c)
  BY <1>1 DEF Accept, TypeOK, FlushInv, ReplyInv
<1>2. CASE Snapshot(c)
  <2>1. Snap(screen) \in Replies /\ Gone \in Replies
    BY SnapType, OtherTypes DEF TypeOK
  <2> QED
    <3>1. request' \in [Conns -> Seq({"attach", "detach", "call"})]
      BY <1>2 DEF Snapshot, Take, TypeOK
    <3>2. PICK m \in Replies, to \in {"snapped", "reply"} :
              reply' = [reply EXCEPT ![c] = m] /\ thread' = [thread EXCEPT ![c] = to]
      BY <1>2, <2>1 DEF Snapshot
    <3>3. /\ reply' \in [Conns -> Replies \cup {NoReply}]
          /\ thread' \in [Conns -> {"none", "backlog", "read", "snapped", "reply", "ended"}]
      BY <3>2 DEF TypeOK
    <3>4. ReplyInv'
      BY <3>2, <3>3 DEF ReplyInv, TypeOK
    <3> QED
      BY <1>2, <3>1, <3>3, <3>4 DEF Snapshot, TypeOK, FlushInv
<1>3. CASE Subscribe(c)
  BY <1>3 DEF Subscribe, TypeOK, FlushInv, ReplyInv
<1>4. CASE Detach(c)
  BY <1>4 DEF Detach, Take, TypeOK, FlushInv, ReplyInv
<1>5. CASE Handle(c)
  BY <1>5, OtherTypes DEF Handle, Take, TypeOK, FlushInv, ReplyInv
<1>6. CASE Respond(c)
  <2>1. reply[c] \in Messages /\ outbox[c] \in Seq(Messages) /\ Len(outbox[c]) < Capacity
    BY <1>6 DEF Respond, Send, ReplyInv, TypeOK, Messages
  <2>2. Append(outbox[c], reply[c]) \in Seq(Messages) /\ Len(Append(outbox[c], reply[c])) <= Capacity
    BY <2>1, LenProperties, AppendProperties
  <2> QED
    BY <1>6, <2>2 DEF Respond, Send, TypeOK, FlushInv, ReplyInv
<1>7. CASE Disconnect(c)
  BY <1>7 DEF Disconnect, TypeOK, FlushInv, ReplyInv
<1>8. CASE Write(c)
  <2>1. /\ outbox[c] \in Seq(Messages) /\ outbox[c] # <<>> /\ Len(outbox[c]) <= Capacity
        /\ socket[c] \in Seq(Messages) /\ Len(socket[c]) < Buffer
    BY <1>8 DEF Write, TypeOK
  <2>2. /\ Head(outbox[c]) \in Messages /\ Tail(outbox[c]) \in Seq(Messages)
        /\ Len(Tail(outbox[c])) <= Capacity
    BY <2>1, LenProperties, HeadTailProperties
  <2>3. /\ Append(socket[c], Head(outbox[c])) \in Seq(Messages)
        /\ Len(Append(socket[c], Head(outbox[c]))) <= Buffer
    BY <2>1, <2>2, LenProperties, AppendProperties
  <2> QED
    BY <1>8, <2>2, <2>3 DEF Write, TypeOK, FlushInv, ReplyInv
<1>9. CASE WriterEnds(c)
  <2>1. <<>> \in Seq(Messages) /\ Len(<<>>) = 0
    OBVIOUS
  <2> QED
    BY <1>9, <2>1 DEF WriterEnds, TypeOK, FlushInv, ReplyInv
<1> QED
  BY <1>1, <1>2, <1>3, <1>4, <1>5, <1>6, <1>7, <1>8, <1>9 DEF Serve

(* Close and Read. *)
LEMMA Closed ==
    ASSUME TypeOK, NEW S \in SUBSET Conns, Close(S)
    PROVE  /\ shut' \subseteq Conns /\ socket' \in [Conns -> Seq(Messages)]
           /\ \A c \in Conns : Len(socket'[c]) <= Buffer
<1>1. <<>> \in Seq(Messages) /\ Len(<<>>) = 0
  OBVIOUS
<1> QED
  BY <1>1, FanoutAssumption DEF Close, TypeOK

(* client.rs reads one message off a socket. *)
LEMMA ReadOff ==
    ASSUME TypeOK, NEW c \in Conns, socket[c] # <<>>, Read(c)
    PROVE  /\ Head(socket[c]) \in Messages
           /\ socket' \in [Conns -> Seq(Messages)] /\ \A d \in Conns : Len(socket'[d]) <= Buffer
<1>1. socket[c] \in Seq(Messages) /\ Len(socket[c]) <= Buffer
  BY DEF TypeOK
<1>2. /\ Head(socket[c]) \in Messages /\ Tail(socket[c]) \in Seq(Messages)
      /\ Len(Tail(socket[c])) <= Buffer
  BY <1>1, LenProperties, HeadTailProperties, FanoutAssumption
<1> QED
  BY <1>2 DEF Read, TypeOK

(* A notification keeps the types, *)
LEMMA NotifiedTypes ==
    ASSUME TypeOK, FlushInv, ReplyInv, NEW v \in Viewers, NEW m \in Messages, NEW queued \in BOOLEAN,
           Notified(v, m, queued), queued => queue[v] # <<>>, ~queued => socket[Stream(v)] # <<>>
    PROVE  TypeOK' /\ FlushInv' /\ ReplyInv'
<1>1. Stream(v) \in Conns
  BY ConnsAre
<1>2. grid' \in [Viewers -> [Rows -> Counts]]
  BY ApplyType DEF Notified, TypeOK
<1>3. queue' \in [Viewers -> Seq(Notices)]
  <2>1. queue[v] \in Seq(Notices) /\ <<>> \in Seq(Notices)
    BY DEF TypeOK
  <2>2. queued => Tail(queue[v]) \in Seq(Notices)
    BY <2>1, HeadTailProperties
  <2> QED
    BY <2>1, <2>2 DEF Notified, TypeOK
<1>4. /\ shut' \subseteq Conns /\ socket' \in [Conns -> Seq(Messages)]
      /\ \A c \in Conns : Len(socket'[c]) <= Buffer
  <2>1. \/ Close({Stream(v)})
        \/ UNCHANGED <<shut, socket>>
        \/ ~queued /\ UNCHANGED shut /\ Read(Stream(v))
    BY DEF Notified
  <2> QED
    BY <2>1, <1>1, Closed, ReadOff DEF TypeOK
<1>5. reader' \in [Viewers -> {"off", "attaching", "reading", "freed", "done"}] /\ told' \subseteq Viewers
  BY DEF Notified, TypeOK
<1> QED
  BY <1>2, <1>3, <1>4, <1>5
  DEF Notified, TypeOK, FlushInv, ReplyInv, sessionVars, serverVars

(* ... the turn of an attach that waits for its answer, *)
LEMMA AwaitTypes ==
    ASSUME TypeOK, FlushInv, ReplyInv, NEW v \in Viewers, AwaitSnapshot(v)
    PROVE  TypeOK' /\ FlushInv' /\ ReplyInv'
<1> DEFINE s == Stream(v)
<1>1. s \in Conns /\ {s, Input(v)} \in SUBSET Conns
  BY ConnsAre
<1>2. CASE socket[s] # <<>> /\ IsNotice(Head(socket[s])) /\ Read(s)
           /\ queue' = [queue EXCEPT ![v] = Append(@, Head(socket[s]))] /\ UNCHANGED <<reader, grid, input, shut>>
  <2>1. Head(socket[s]) \in Notices
    BY <1>1, <1>2, ReadOff, MessageKinds
  <2>2. queue' \in [Viewers -> Seq(Notices)]
    BY <1>2, <2>1 DEF TypeOK
  <2> QED
    BY <1>1, <1>2, <2>2, ReadOff
    DEF AwaitSnapshot, TypeOK, FlushInv, ReplyInv, sessionVars, serverVars
<1>3. CASE socket[s] # <<>> /\ Head(socket[s]).kind = "snapshot" /\ Read(s)
           /\ grid' = [grid EXCEPT ![v] = Head(socket[s]).cells]
           /\ reader' = [reader EXCEPT ![v] = "reading"] /\ UNCHANGED <<queue, input, shut>>
  <2>1. Head(socket[s]).cells \in [Rows -> Counts]
    BY <1>1, <1>3, ReadOff, MessageKinds
  <2> QED
    BY <1>1, <1>3, <2>1, ReadOff
    DEF AwaitSnapshot, TypeOK, FlushInv, ReplyInv, sessionVars, serverVars
<1>4. CASE /\ reader' = [reader EXCEPT ![v] = "done"] /\ input' = [input EXCEPT ![v] = "none"]
           /\ Close({s, Input(v)}) /\ UNCHANGED <<queue, grid>>
  BY <1>1, <1>4, Closed
  DEF AwaitSnapshot, TypeOK, FlushInv, ReplyInv, sessionVars, serverVars
<1> QED
  BY <1>2, <1>3, <1>4 DEF AwaitSnapshot

(* ... and every step of a viewer. *)
LEMMA ViewerTypes ==
    ASSUME TypeOK, FlushInv, ReplyInv, NEW v \in Viewers,
           Attach(v) \/ Reads(v) \/ Call(v) \/ AwaitAnswer(v) \/ Free(v) \/ Quit(v)
    PROVE  TypeOK' /\ FlushInv' /\ ReplyInv'
<1> USE DEF sessionVars, serverVars, wireVars
<1>0. Stream(v) \in Conns /\ Input(v) \in Conns
  BY ConnsAre
<1>1. CASE Attach(v)
  <2>1. <<"attach">> \in Seq({"attach", "detach", "call"})
    OBVIOUS
  <2> QED
    BY <1>0, <1>1, <2>1 DEF Attach, TypeOK, FlushInv, ReplyInv
<1>2. CASE AwaitSnapshot(v)
  BY <1>2, AwaitTypes
<1>3. CASE NextNotification(v)
  <2>1. CASE queue[v] # <<>> /\ Notified(v, Head(queue[v]), TRUE)
    <3>1. Head(queue[v]) \in Messages
      BY <2>1, QueuesAre, HeadTailProperties
    <3> QED
      BY <2>1, <3>1, NotifiedTypes
  <2>2. CASE socket[Stream(v)] # <<>> /\ Notified(v, Head(socket[Stream(v)]), FALSE)
    <3>1. Head(socket[Stream(v)]) \in Messages
      BY <1>0, <2>2, QueuesAre, HeadTailProperties
    <3> QED
      BY <2>2, <3>1, NotifiedTypes
  <2> QED
    BY <1>3, <2>1, <2>2 DEF NextNotification
<1>4. CASE EndOfStream(v)
  BY <1>4 DEF EndOfStream, TypeOK, FlushInv, ReplyInv
<1>5. CASE Call(v)
  <2>1. calls' \in [Viewers -> 0..MaxCalls]
    BY <1>5, FanoutAssumption DEF Call, TypeOK
  <2>2. CASE Input(v) \in shut
    BY <1>5, <2>1, <2>2 DEF Call, GiveUp, TypeOK, FlushInv, ReplyInv
  <2>3. CASE Input(v) \notin shut
    <3>1. request' \in [Conns -> Seq({"attach", "detach", "call"})]
      <4>1. request[Input(v)] \in Seq({"attach", "detach", "call"})
        BY <1>0 DEF TypeOK
      <4>2. Append(request[Input(v)], "call") \in Seq({"attach", "detach", "call"})
        BY ONLY <4>1
      <4> QED
        BY <1>0, <1>5, <2>3, <4>2 DEF Call, TypeOK
    <3> QED
      BY <1>5, <2>1, <2>3, <3>1 DEF Call, TypeOK, FlushInv, ReplyInv
  <2> QED
    BY <2>2, <2>3
<1>6. CASE AwaitAnswer(v)
  <2>1. CASE socket[Input(v)] = <<>>
    BY <1>6, <2>1 DEF AwaitAnswer, GiveUp, TypeOK, FlushInv, ReplyInv
  <2>2. CASE socket[Input(v)] # <<>>
    <3>1. Read(Input(v))
      BY <1>6, <2>2 DEF AwaitAnswer
    <3>2. socket' \in [Conns -> Seq(Messages)] /\ \A d \in Conns : Len(socket'[d]) <= Buffer
      BY <1>0, <2>2, <3>1, ReadOff
    <3> QED
      BY <1>6, <2>2, <3>2 DEF AwaitAnswer, TypeOK, FlushInv, ReplyInv
  <2> QED
    BY <2>1, <2>2
<1>7. CASE Free(v)
  <2>1. {Input(v)} \in SUBSET Conns /\ Close({Input(v)})
    BY <1>0, <1>7 DEF Free
  <2>2. request' \in [Conns -> Seq({"attach", "detach", "call"})]
    BY <1>0, <1>7 DEF Free, TypeOK
  <2> QED
    BY <1>7, <2>1, <2>2, Closed DEF Free, TypeOK, FlushInv, ReplyInv
<1>8. CASE Quit(v)
  <2>1. {Stream(v), Input(v)} \in SUBSET Conns /\ Close({Stream(v), Input(v)})
    BY <1>0, <1>8 DEF Quit
  <2>2. /\ shut' \subseteq Conns /\ socket' \in [Conns -> Seq(Messages)]
        /\ \A c \in Conns : Len(socket'[c]) <= Buffer
    BY <2>1, Closed
  <2>3. queue' \in [Viewers -> Seq(Notices)]
    BY <1>8 DEF Quit, TypeOK
  <2> QED
    BY <1>8, <2>2, <2>3 DEF Quit, TypeOK, FlushInv, ReplyInv
<1> QED
  BY <1>1, <1>2, <1>3, <1>4, <1>5, <1>6, <1>7, <1>8 DEF Reads

(* So every step keeps them. *)
LEMMA TypeNext == TypeOK /\ FlushInv /\ ReplyInv /\ [Next]_vars => TypeOK' /\ FlushInv' /\ ReplyInv'
<1> SUFFICES ASSUME TypeOK, FlushInv, ReplyInv, [Next]_vars
             PROVE  TypeOK' /\ FlushInv' /\ ReplyInv'
  OBVIOUS
<1>1. CASE UNCHANGED vars
  BY <1>1 DEF vars, sessionVars, serverVars, wireVars, viewerVars, TypeOK, FlushInv, ReplyInv
<1>2. CASE Next
  BY <1>2, SessionTypes, ServerTypes, ViewerTypes DEF Next
<1> QED
  BY <1>1, <1>2

-----------------------------------------------------------------------------
(* Streams and views, when a step hands the stream no delta.               *)

(* The messages of a queue. *)
LEMMA RangeOf ==
    ASSUME NEW S, NEW q \in Seq(S)
    PROVE  /\ \A m \in S : Range(Append(q, m)) = Range(q) \cup {m}
           /\ q # <<>> => Head(q) \in Range(q) /\ Range(q) = {Head(q)} \cup Range(Tail(q))
           /\ Range(<<>>) = {}
<1>1. ASSUME NEW m \in S PROVE Range(Append(q, m)) = Range(q) \cup {m}
  <2>1. /\ Len(q) \in Nat /\ DOMAIN q = 1..Len(q) /\ DOMAIN Append(q, m) = 1..(Len(q) + 1)
        /\ Append(q, m)[Len(q) + 1] = m /\ \A i \in 1..Len(q) : Append(q, m)[i] = q[i]
    BY LenProperties, AppendProperties
  <2>2. \A i \in 1..(Len(q) + 1) : i \in 1..Len(q) \/ i = Len(q) + 1
    BY <2>1
  <2>3. 1..Len(q) \subseteq 1..(Len(q) + 1) /\ Len(q) + 1 \in 1..(Len(q) + 1)
    BY <2>1
  <2> QED
    BY <2>1, <2>2, <2>3 DEF Range
<1>2. ASSUME q # <<>> PROVE Head(q) \in Range(q) /\ Range(q) = {Head(q)} \cup Range(Tail(q))
  <2>1. /\ Len(q) \in Nat \ {0} /\ DOMAIN q = 1..Len(q) /\ Tail(q) \in Seq(S) /\ Len(Tail(q)) = Len(q) - 1
        /\ \A i \in 1..(Len(q) - 1) : Tail(q)[i] = q[i + 1]
    BY <1>2, LenProperties, EmptySeq, HeadTailProperties
  <2>2. DOMAIN Tail(q) = 1..(Len(q) - 1) /\ q[1] = Head(q) /\ 1 \in DOMAIN q
    BY <2>1, LenProperties
  <2>3. \A i \in DOMAIN q : i = 1 \/ (i - 1 \in DOMAIN Tail(q) /\ Tail(q)[i - 1] = q[i])
    BY <2>1, <2>2
  <2>4. \A i \in DOMAIN Tail(q) : i + 1 \in DOMAIN q /\ Tail(q)[i] = q[i + 1]
    BY <2>1, <2>2
  <2>5. Head(q) \in Range(q)
    BY <2>2 DEF Range
  <2>6. ASSUME NEW x \in Range(q) PROVE x = Head(q) \/ x \in Range(Tail(q))
    <3>1. PICK i \in DOMAIN q : x = q[i]
      BY DEF Range
    <3> QED
      BY <3>1, <2>2, <2>3 DEF Range
  <2>7. ASSUME NEW x \in Range(Tail(q)) PROVE x \in Range(q)
    <3>1. PICK i \in DOMAIN Tail(q) : x = Tail(q)[i]
      BY DEF Range
    <3> QED
      BY <3>1, <2>4 DEF Range
  <2> QED
    BY <2>5, <2>6, <2>7
<1>3. Range(<<>>) = {}
  BY DEF Range
<1> QED
  BY <1>1, <1>2, <1>3

(* What a step that gives the stream of v no delta and no snapshot does.   *)
Grows(v) ==
    \/ Flight(v)' = Flight(v)
    \/ \E m \in Messages : ~IsDelta(m) /\ Flight(v)' = Append(Flight(v), m)
    \/ Stream(v) \notin listed' /\ \E p \in Seq(Messages) : Flight(v) = Flight(v)' \o p

Keeps(v) ==
    LET s == Stream(v) IN
    /\ screen' = screen /\ pending' = pending /\ seq' = seq /\ gap'[v] = gap[v]
    /\ \/ Grows(v)
       \/ reader'[v] \in {"freed", "done"} /\ (Deltas(Flight(v)) = {} => Deltas(Flight(v)') = {})
    /\ \A g \in [Rows -> Counts] : Coming(v, Snap(g))' => Coming(v, Snap(g))
    /\ \/ reader'[v] = reader[v] /\ grid'[v] = grid[v]
       \/ reader'[v] \in {"freed", "done"}
    /\ request'[s] \in {request[s], <<>>}
    /\ \/ thread'[s] = thread[s]
       \/ /\ thread'[s] \in {"read", "ended"} /\ request'[s] = <<>>
          /\ thread[s] # "none" /\ (thread[s] = "reply" \/ s \notin listed')
    /\ s \in listed' => s \in listed
    /\ s \in subs' => s \in subs
    /\ s \in listed' /\ s \in subs => s \in subs'
    /\ s \in writer' => s \in writer
    /\ s \in shut' => \/ s \in shut
                      \/ reader'[v] = "done"
                      \/ s \notin listed' /\ thread'[s] \notin {"none", "backlog"}

(* What is on its way is a queue of messages, *)
LEMMA FlightType == TypeOK => \A v \in Viewers : Flight(v) \in Seq(Messages)
  BY QueuesAre

(* ... after a step too. *)
LEMMA FlightTypeNext == TypeOK' => (\A v \in Viewers : Flight(v) \in Seq(Messages))'
  BY FlightType, PTL

(* Moves, for the queues of a stream. *)
LEMMA FlightMoves ==
    ASSUME TypeOK, NEW v \in Viewers
    PROVE  LET a == queue[v]
               b == socket[Stream(v)]
               c == outbox[Stream(v)]
           IN  /\ \A m \in Messages : a \o b \o Append(c, m) = Append(Flight(v), m)
               /\ c # <<>> => a \o Append(b, Head(c)) \o Tail(c) = Flight(v)
               /\ b # <<>> => Append(a, Head(b)) \o Tail(b) \o c = Flight(v)
               /\ a # <<>> => /\ Tail(a) \o b \o c = Tail(Flight(v))
                              /\ Head(a) = Head(Flight(v)) /\ Flight(v) # <<>>
               /\ a = <<>> /\ b # <<>> => /\ a \o Tail(b) \o c = Tail(Flight(v))
                                          /\ Head(b) = Head(Flight(v)) /\ Flight(v) # <<>>
<1> DEFINE a == queue[v]
           b == socket[Stream(v)]
           c == outbox[Stream(v)]
<1>1. a \in Seq(Messages) /\ b \in Seq(Messages) /\ c \in Seq(Messages) /\ Flight(v) = a \o b \o c
  BY QueuesAre, ConnsAre DEF Flight
<1> HIDE DEF a, b, c
<1>2. ASSUME NEW m \in Messages PROVE a \o b \o Append(c, m) = Append(a \o b \o c, m)
  BY ONLY <1>1, m \in Messages, Moves
<1>3. ASSUME c # <<>> PROVE a \o Append(b, Head(c)) \o Tail(c) = a \o b \o c
  <2> DEFINE h == Head(c)
             t == Tail(c)
  <2>1. h \in Messages /\ t \in Seq(Messages) /\ h = Head(c) /\ t = Tail(c)
    BY <1>1, <1>3, HeadTailProperties
  <2> HIDE DEF h, t
  <2>2. a \o Append(b, h) \o t = a \o b \o c
    BY ONLY <1>1, <1>3, <2>1, MoveWritten
  <2> QED
    BY ONLY <2>1, <2>2
<1>4. b # <<>> => Append(a, Head(b)) \o Tail(b) \o c = a \o b \o c
  BY ONLY <1>1, Moves
<1>5. ASSUME a # <<>> PROVE Tail(a) \o b \o c = Tail(a \o b \o c)
  BY ONLY <1>1, <1>5, Moves
<1>7. ASSUME a # <<>> PROVE Head(a) = Head(a \o b \o c) /\ a \o b \o c # <<>>
  BY ONLY <1>1, <1>7, Moves
<1>6. a = <<>> /\ b # <<>> => /\ a \o Tail(b) \o c = Tail(a \o b \o c)
                             /\ Head(b) = Head(a \o b \o c) /\ a \o b \o c # <<>>
  BY ONLY <1>1, Moves
<1> QED
  BY ONLY <1>1, <1>2, <1>3, <1>4, <1>5, <1>6, <1>7 DEF a, b, c

(* Such a step brings no delta where there was none, *)
LEMMA GrowsQuietly ==
    ASSUME TypeOK, NEW v \in Viewers, Grows(v), TypeOK'
    PROVE  Deltas(Flight(v)) = {} => Deltas(Flight(v)') = {}
<1>1. Flight(v) \in Seq(Messages) /\ Flight(v)' \in Seq(Messages)
  BY FlightType, FlightTypeNext
<1>2. CASE Flight(v)' = Flight(v)
  BY <1>2
<1>3. ASSUME NEW m \in Messages, ~IsDelta(m), Flight(v)' = Append(Flight(v), m)
      PROVE  Deltas(Flight(v)') = Deltas(Flight(v))
  BY <1>1, <1>3, OtherAppended
<1>4. ASSUME NEW p \in Seq(Messages), Flight(v) = Flight(v)' \o p
      PROVE  Deltas(Flight(v)) = {} => Deltas(Flight(v)') = {}
  BY <1>1, <1>4, CutOff
<1> QED
  BY <1>2, <1>3, <1>4 DEF Grows

(* ... and keeps the invariant of the stream and of the view. *)
LEMMA Kept ==
    ASSUME TypeOK, TypeOK', NEW v \in Viewers, StreamInv(v), ViewInv(v), Keeps(v)
    PROVE  StreamInv(v)' /\ ViewInv(v)'
<1> DEFINE s == Stream(v)
<1>1. Deltas(Flight(v)) = {} => Deltas(Flight(v)') = {}
  BY GrowsQuietly DEF Keeps
<1>2. /\ Fresh(v)' => Fresh(v) /\ (request'[s] # <<>> => request'[s] = request[s] /\ thread'[s] = thread[s])
      /\ thread'[s] \in {"none", "backlog", "snapped"} => thread'[s] = thread[s]
  BY DEF Keeps, Fresh
<1>3. StreamInv(v)'
  <2>1. /\ request'[s] # <<>> => request'[s] = <<"attach">> /\ thread'[s] \in {"backlog", "read"}
        /\ thread'[s] \in {"none", "backlog"} => s \notin listed' \cup writer'
    BY <1>2 DEF Keeps, StreamInv
  <2>2. Fresh(v)' => reader'[v] # "reading" /\ \A g \in [Rows -> Counts] : ~Coming(v, Snap(g))'
    BY <1>2 DEF Keeps, StreamInv
  <2>3. Fresh(v)' \/ thread'[s] = "snapped" => s \notin subs' /\ Deltas(Flight(v)') = {}
    BY <1>1, <1>2 DEF Keeps, StreamInv
  <2>4. reader'[v] = "off" => thread'[s] = "none" /\ s \notin shut'
    BY <1>2 DEF Keeps, StreamInv
  <2>5. s \in shut' /\ reader'[v] \in {"attaching", "reading"} => s \notin listed' /\ thread'[s] # "backlog"
    BY <1>2 DEF Keeps, StreamInv
  <2> QED
    BY <2>1, <2>2, <2>3, <2>4, <2>5 DEF StreamInv
<1>4. ASSUME NEW g \in [Rows -> Counts], AppliesTo(v, g)'
      PROVE  /\ s \in listed' /\ thread'[s] # "snapped" => s \in subs'
             /\ GoesForward(Flight(v)', g, screen)
             /\ s \in listed' =>
                  \A r \in Rows \ (pending \cup gap[v]) : Shows(Flight(v)', g, r, screen[r])
             /\ s \in subs' => Consecutive(Flight(v)', seq)
  <2>1. Grows(v) /\ reader'[v] = reader[v] /\ grid'[v] = grid[v] /\ AppliesTo(v, g)
    BY <1>4 DEF Keeps, AppliesTo
  <2>2. /\ s \in listed /\ thread[s] # "snapped" => s \in subs
        /\ GoesForward(Flight(v), g, screen)
        /\ s \in listed => \A r \in Rows \ (pending \cup gap[v]) : Shows(Flight(v), g, r, screen[r])
        /\ s \in subs => Consecutive(Flight(v), seq)
    BY <2>1 DEF ViewInv
  <2>3. /\ s \in listed' => s \in listed /\ (thread'[s] # "snapped" => thread[s] # "snapped")
        /\ s \in subs' => s \in subs /\ s \in listed'
        /\ s \in listed' /\ s \in subs => s \in subs'
    BY DEF Keeps, TypeOK
  <2>4. s \in listed' /\ thread'[s] # "snapped" => s \in subs'
    BY <2>2, <2>3
  <2>5. Flight(v) \in Seq(Messages) /\ Flight(v)' \in Seq(Messages)
    BY FlightType, FlightTypeNext
  <2>6. CASE Flight(v)' = Flight(v)
    BY <2>2, <2>3, <2>4, <2>6
  <2>7. ASSUME NEW m \in Messages, ~IsDelta(m), Flight(v)' = Append(Flight(v), m)
        PROVE  /\ GoesForward(Flight(v)', g, screen)
               /\ \A r, n : Shows(Flight(v), g, r, n) => Shows(Flight(v)', g, r, n)
               /\ Consecutive(Flight(v), seq) => Consecutive(Flight(v)', seq)
    BY <2>2, <2>5, <2>7, OtherAppended
  <2>8. ASSUME NEW p \in Seq(Messages), s \notin listed', Flight(v) = Flight(v)' \o p
        PROVE  GoesForward(Flight(v)', g, screen)
    BY <2>2, <2>5, <2>8, CutOff
  <2> QED
    BY <2>1, <2>2, <2>3, <2>4, <2>6, <2>7, <2>8 DEF Grows
<1>5. ViewInv(v)'
  BY <1>4 DEF ViewInv, Keeps
<1> QED
  BY <1>3, <1>5

-----------------------------------------------------------------------------
(* The steps that keep a stream.                                           *)

(* Nothing of v's stream is touched. *)
Untouched(v) ==
    LET s == Stream(v) IN
    /\ screen' = screen /\ pending' = pending /\ seq' = seq /\ gap'[v] = gap[v]
    /\ reader'[v] = reader[v] /\ grid'[v] = grid[v] /\ queue'[v] = queue[v]
    /\ socket'[s] = socket[s] /\ outbox'[s] = outbox[s] /\ reply'[s] = reply[s]
    /\ request'[s] = request[s] /\ thread'[s] = thread[s]
    /\ (s \in listed' <=> s \in listed) /\ (s \in subs' <=> s \in subs)
    /\ (s \in writer' <=> s \in writer) /\ (s \in shut' <=> s \in shut)

(* A step elsewhere is one. *)
LEMMA UntouchedKept ==
    ASSUME NEW v \in Viewers, Untouched(v)
    PROVE  Keeps(v)
<1>1. Flight(v)' = Flight(v)
  BY DEF Untouched, Flight
<1>2. \A m : Coming(v, m)' <=> Coming(v, m)
  BY DEF Untouched, Coming
<1> QED
  BY <1>1, <1>2 DEF Untouched, Keeps, Grows

(* Announce, End, Unregister and Stop. *)
LEMMA BroadcastKept ==
    ASSUME TypeOK, NEW v \in Viewers, Announce \/ End \/ Unregister
    PROVE  Keeps(v)
<1> DEFINE s == Stream(v)
<1>1. PICK m \in {Event, Exited} : Deliver(m, Conns)
  BY DEF Announce, End, Unregister, Broadcast
<1>2. m \in Messages /\ ~IsDelta(m) /\ \A g : m # Snap(g)
  BY OtherTypes DEF Messages, Event, Exited, Snap
<1>3. s \in Conns
  BY ConnsAre
<1>4. /\ outbox'[s] = outbox[s] \/ outbox'[s] = Append(outbox[s], m)
      /\ listed' \subseteq listed /\ subs' \subseteq subs
      /\ \A c \in listed' : c \in subs => c \in subs'
  BY <1>1, <1>2, <1>3, Delivered
<1>5. /\ UNCHANGED <<screen, pending, seq, gap, reader, grid, queue, socket, reply, request,
                     thread, writer, shut>>
  BY DEF Announce, End, Unregister, wireVars, viewerVars
<1>6. Grows(v)
  <2>1. CASE outbox'[s] = outbox[s]
    BY <1>5, <2>1 DEF Grows, Flight
  <2>2. CASE outbox'[s] = Append(outbox[s], m)
    <3>1. Flight(v)' = queue[v] \o socket[s] \o Append(outbox[s], m)
      BY <1>5, <2>2 DEF Flight
    <3>3. queue[v] \o socket[s] \o Append(outbox[s], m) = Append(Flight(v), m)
      BY <1>2, FlightMoves
    <3> QED
      BY <1>2, <3>1, <3>3 DEF Grows
  <2> QED
    BY <1>4, <2>1, <2>2
<1>7. ASSUME NEW g \in [Rows -> Counts], Coming(v, Snap(g))' PROVE Coming(v, Snap(g))
  <2>1. Range(outbox'[s]) \subseteq Range(outbox[s]) \cup {m}
    <3>1. outbox[s] \in Seq(Messages)
      BY <1>3, QueuesAre
    <3>2. Range(Append(outbox[s], m)) = Range(outbox[s]) \cup {m}
      BY ONLY <3>1, <1>2, RangeOf
    <3> QED
      BY <1>4, <3>2
  <2> QED
    BY <1>2, <1>5, <1>7, <2>1 DEF Coming
<1> QED
  BY <1>4, <1>5, <1>6, <1>7 DEF Keeps

(* The daemon stops: what is in the socket still arrives. *)
LEMMA StopKept ==
    ASSUME TypeOK, NEW v \in Viewers, Stop
    PROVE  Keeps(v)
<1> DEFINE s == Stream(v)
<1>1. s \in Conns
  BY ConnsAre
<1>2. /\ UNCHANGED <<screen, pending, seq, gap, reader, grid, queue, socket>>
      /\ listed' = {} /\ subs' = {} /\ writer' = {}
      /\ outbox'[s] = <<>> /\ request'[s] = <<>> /\ reply'[s] = NoReply
      /\ thread'[s] = IF thread[s] = "none" THEN "none" ELSE "ended"
      /\ s \in shut' <=> s \in shut \/ thread[s] # "none"
  BY <1>1 DEF Stop, viewerVars
<1>3. Grows(v)
  <2>1. /\ queue[v] \o socket[s] \in Seq(Messages) /\ outbox[s] \in Seq(Messages)
    BY <1>1, QueuesAre, ConcatProperties
  <2>2. Flight(v)' = queue[v] \o socket[s]
    BY <1>2, <2>1, ConcatEmptySeq DEF Flight
  <2> QED
    BY <1>2, <2>1, <2>2 DEF Grows, Flight
<1>4. ASSUME NEW g \in [Rows -> Counts], Coming(v, Snap(g))' PROVE Coming(v, Snap(g))
  <2>1. Range(outbox'[s]) = {} /\ NoReply # Snap(g)
    BY <1>2, OtherTypes DEF Range
  <2> QED
    BY <1>2, <1>4, <2>1 DEF Coming
<1> QED
  BY <1>2, <1>3, <1>4 DEF Keeps

(* What the server does for another connection. *)
LEMMA OthersKept ==
    ASSUME TypeOK, NEW v \in Viewers, NEW c \in Conns, c # Stream(v),
           Serve(c) \/ Write(c) \/ WriterEnds(c)
    PROVE  Keeps(v)
<1>0. Stream(v) \in Conns
  BY ConnsAre
<1> USE DEF Untouched, TypeOK, sessionVars, wireVars, viewerVars
<1>1. CASE Accept(c) \/ Subscribe(c)
  BY <1>0, <1>1, UntouchedKept DEF Accept, Subscribe
<1>2. CASE Snapshot(c)
  BY <1>0, <1>2, UntouchedKept DEF Snapshot, Take
<1>3. CASE Detach(c) \/ Handle(c)
  BY <1>0, <1>3, UntouchedKept DEF Detach, Handle, Take
<1>4. CASE Respond(c)
  BY <1>0, <1>4, UntouchedKept DEF Respond, Send
<1>5. CASE Disconnect(c)
  BY <1>0, <1>5, UntouchedKept DEF Disconnect
<1>6. CASE Write(c)
  BY <1>0, <1>6, UntouchedKept DEF Write
<1>7. CASE WriterEnds(c)
  BY <1>0, <1>7, UntouchedKept DEF WriterEnds
<1> QED
  BY <1>1, <1>2, <1>3, <1>4, <1>5, <1>6, <1>7 DEF Serve

(* What it does for the stream itself, beyond accepting it, the snapshot   *)
(* and the subscription.                                                   *)
LEMMA ServedKept ==
    ASSUME TypeOK, ReplyInv, NEW v \in Viewers, StreamInv(v),
           LET s == Stream(v) IN
               Detach(s) \/ Handle(s) \/ Respond(s) \/ Disconnect(s) \/ Write(s) \/ WriterEnds(s)
    PROVE  Keeps(v)
<1> DEFINE s == Stream(v)
<1>0. s \in Conns
  BY ConnsAre
<1>q. /\ queue[v] \in Seq(Messages) /\ socket[s] \in Seq(Messages) /\ outbox[s] \in Seq(Messages)
      /\ queue[v] \o socket[s] \in Seq(Messages)
  BY <1>0, QueuesAre, ConcatProperties
<1> USE DEF sessionVars, wireVars, viewerVars
<1>1. ~Detach(s) /\ ~Handle(s)
  <2>1. request[s] # <<>> => Head(request[s]) = "attach"
    BY DEF StreamInv
  <2> QED
    BY <2>1 DEF Detach, Handle, Take
<1>2. CASE Respond(s)
  <2>1. reply[s] \in Messages /\ ~IsDelta(reply[s])
    BY <1>0, <1>2, OtherTypes DEF Respond, Send, ReplyInv, Messages
  <2>2. /\ UNCHANGED <<screen, pending, seq, gap, reader, grid, queue, socket, listed, subs, writer, shut, request>>
        /\ outbox'[s] = Append(outbox[s], reply[s]) /\ reply'[s] = NoReply
        /\ thread[s] = "reply" /\ thread'[s] = "read"
    BY <1>0, <1>2 DEF Respond, Send, TypeOK
  <2>3. Flight(v)' = Append(Flight(v), reply[s])
    <3>1. Flight(v)' = queue[v] \o socket[s] \o Append(outbox[s], reply[s])
      BY <2>2 DEF Flight
    <3> QED
      BY <2>1, <3>1, FlightMoves
  <2>4. ASSUME NEW g \in [Rows -> Counts], Coming(v, Snap(g))' PROVE Coming(v, Snap(g))
    <3>1. Range(outbox'[s]) = Range(outbox[s]) \cup {reply[s]} /\ NoReply # Snap(g)
      BY <1>q, <2>1, <2>2, RangeOf, OtherTypes
    <3> QED
      BY <2>2, <2>4, <3>1 DEF Coming
  <2>5. request[s] = <<>>
    BY <2>2 DEF StreamInv
  <2> QED
    BY <2>1, <2>2, <2>3, <2>4, <2>5 DEF Keeps, Grows
<1>3. CASE Disconnect(s)
  <2>1. /\ UNCHANGED <<screen, pending, seq, gap, reader, grid, queue, socket, outbox, writer, request>>
        /\ reply'[s] = NoReply /\ thread'[s] = "ended" /\ thread[s] \in {"read", "reply"}
        /\ listed' = listed \ {s} /\ subs' = subs \ {s} /\ shut' = shut \cup {s}
        /\ thread[s] = "read" => request[s] = <<>>
    BY <1>0, <1>3 DEF Disconnect, TypeOK
  <2>2. request[s] = <<>>
    BY <2>1 DEF StreamInv
  <2>3. Flight(v)' = Flight(v)
    BY <2>1 DEF Flight
  <2>4. ASSUME NEW g \in [Rows -> Counts], Coming(v, Snap(g))' PROVE Coming(v, Snap(g))
    BY <2>1, <2>4, OtherTypes DEF Coming
  <2> QED
    BY <2>1, <2>2, <2>3, <2>4 DEF Keeps, Grows
<1>4. CASE Write(s)
  <2>1. /\ UNCHANGED <<screen, pending, seq, gap, reader, grid, queue, listed, subs, writer, shut, request, thread, reply>>
        /\ outbox[s] # <<>> /\ outbox'[s] = Tail(outbox[s])
        /\ socket'[s] = Append(socket[s], Head(outbox[s]))
    BY <1>0, <1>4 DEF Write, TypeOK
  <2>2. Flight(v)' = Flight(v)
    <3>1. Flight(v)' = queue[v] \o Append(socket[s], Head(outbox[s])) \o Tail(outbox[s])
      BY <2>1 DEF Flight
    <3> QED
      BY <2>1, <3>1, FlightMoves
  <2>3. ASSUME NEW g \in [Rows -> Counts], Coming(v, Snap(g))' PROVE Coming(v, Snap(g))
    <3>1. Head(outbox[s]) \in Messages
      BY <1>q, <2>1, HeadTailProperties
    <3>2. /\ Range(outbox'[s]) \subseteq Range(outbox[s]) /\ Head(outbox[s]) \in Range(outbox[s])
          /\ Range(socket'[s]) = Range(socket[s]) \cup {Head(outbox[s])}
      BY <1>q, <2>1, <3>1, RangeOf
    <3> QED
      BY <2>1, <2>3, <3>2 DEF Coming
  <2> QED
    BY <2>1, <2>2, <2>3 DEF Keeps, Grows
<1>5. CASE WriterEnds(s)
  <2>1. /\ UNCHANGED <<screen, pending, seq, gap, reader, grid, queue, socket, listed, subs, request, thread, reply>>
        /\ outbox'[s] = <<>> /\ writer' = writer \ {s} /\ shut' = shut \cup {s}
        /\ s \in shut \/ (s \notin listed /\ thread[s] = "ended")
    BY <1>0, <1>5 DEF WriterEnds, TypeOK
  <2>2. s \notin listed \/ reader[v] \in {"freed", "done"}
    BY <2>1 DEF StreamInv, TypeOK
  <2>3. Flight(v)' = queue[v] \o socket[s] /\ Flight(v) = Flight(v)' \o outbox[s]
    BY <1>q, <2>1, ConcatEmptySeq DEF Flight
  <2>4. ASSUME NEW g \in [Rows -> Counts], Coming(v, Snap(g))' PROVE Coming(v, Snap(g))
    BY <2>1, <2>4, RangeOf DEF Coming, Range
  <2>5. Deltas(Flight(v)) = {} => Deltas(Flight(v)') = {}
    BY <1>q, <2>3, CutOff
  <2> QED
    BY <1>q, <2>1, <2>2, <2>3, <2>4, <2>5 DEF Keeps, Grows
<1> QED
  BY <1>1, <1>2, <1>3, <1>4, <1>5

-----------------------------------------------------------------------------
(* The steps of viewers that keep a stream.                                *)

(* No delta in a queue of two parts, *)
LEMMA DeltasOfParts ==
    ASSUME NEW p \in Seq(Messages), NEW q \in Seq(Messages)
    PROVE  Deltas(p \o q) = {} <=> Deltas(p) = {} /\ Deltas(q) = {}
<1>1. /\ Len(p) \in Nat /\ Len(q) \in Nat /\ DOMAIN p = 1..Len(p) /\ DOMAIN q = 1..Len(q)
      /\ p \o q \in Seq(Messages) /\ Len(p \o q) = Len(p) + Len(q)
      /\ DOMAIN (p \o q) = 1..(Len(p) + Len(q))
      /\ \A i \in 1..(Len(p) + Len(q)) : (p \o q)[i] = IF i <= Len(p) THEN p[i] ELSE q[i - Len(p)]
  BY LenProperties, ConcatProperties
<1>2. \A i \in Deltas(p) : i \in Deltas(p \o q)
  BY <1>1 DEF Deltas
<1>3. \A i \in Deltas(q) : Len(p) + i \in Deltas(p \o q)
  <2> TAKE i \in Deltas(q)
  <2>1. i \in 1..Len(q) /\ IsDelta(q[i])
    BY <1>1 DEF Deltas
  <2>2. Len(p) + i \in 1..(Len(p) + Len(q)) /\ (p \o q)[Len(p) + i] = q[i]
    BY <1>1, <2>1
  <2> QED
    BY <1>1, <2>1, <2>2 DEF Deltas
<1>4. \A i \in Deltas(p \o q) : i \in Deltas(p) \/ i - Len(p) \in Deltas(q)
  BY <1>1 DEF Deltas
<1> QED
  BY <1>2, <1>3, <1>4

(* ... in what is on its way, *)
LEMMA DeltasOfFlight ==
    ASSUME TypeOK, NEW v \in Viewers
    PROVE  Deltas(Flight(v)) = {} <=> /\ Deltas(queue[v]) = {} /\ Deltas(socket[Stream(v)]) = {}
                                      /\ Deltas(outbox[Stream(v)]) = {}
<1>1. /\ queue[v] \in Seq(Messages) /\ socket[Stream(v)] \in Seq(Messages)
      /\ outbox[Stream(v)] \in Seq(Messages) /\ queue[v] \o socket[Stream(v)] \in Seq(Messages)
  BY QueuesAre, ConnsAre, ConcatProperties
<1> QED
  BY <1>1, DeltasOfParts DEF Flight

(* ... after a step, *)
LEMMA DeltasOfFlightNext ==
    TypeOK' => (\A v \in Viewers :
        Deltas(Flight(v)) = {} <=> /\ Deltas(queue[v]) = {} /\ Deltas(socket[Stream(v)]) = {}
                                   /\ Deltas(outbox[Stream(v)]) = {})'
<1>1. TypeOK => \A v \in Viewers :
        Deltas(Flight(v)) = {} <=> /\ Deltas(queue[v]) = {} /\ Deltas(socket[Stream(v)]) = {}
                                   /\ Deltas(outbox[Stream(v)]) = {}
  BY DeltasOfFlight
<1> QED
  BY <1>1, PTL

(* ... and in nothing. *)
LEMMA NoDeltas == Deltas(<<>>) = {} /\ Range(<<>>) = {}
  BY DEF Deltas, Range

(* What another viewer does. *)
LEMMA OtherViewerKept ==
    ASSUME TypeOK, NEW v \in Viewers, NEW w \in Viewers, w # v,
           Attach(w) \/ Reads(w) \/ Call(w) \/ AwaitAnswer(w) \/ Free(w) \/ Quit(w)
    PROVE  Keeps(v)
<1>0. /\ Stream(v) \in Conns /\ Stream(w) # Stream(v) /\ Input(w) # Stream(v) /\ Stream(v)[1] # w
  BY ConnsAre
<1> USE DEF Untouched, TypeOK, sessionVars, serverVars, wireVars, Close, Read
<1>1. CASE Attach(w)
  BY <1>0, <1>1, UntouchedKept DEF Attach
<1>2. CASE AwaitSnapshot(w)
  BY <1>0, <1>2, UntouchedKept DEF AwaitSnapshot
<1>3. CASE NextNotification(w)
  <2>1. PICK m, queued : Notified(w, m, queued)
    BY <1>3 DEF NextNotification
  <2> QED
    BY <1>0, <2>1, UntouchedKept DEF Notified
<1>4. CASE EndOfStream(w)
  BY <1>0, <1>4, UntouchedKept DEF EndOfStream
<1>5. CASE Call(w)
  BY <1>0, <1>5, UntouchedKept DEF Call, GiveUp
<1>6. CASE AwaitAnswer(w)
  BY <1>0, <1>6, UntouchedKept DEF AwaitAnswer, GiveUp
<1>7. CASE Free(w) \/ Quit(w)
  BY <1>0, <1>7, UntouchedKept DEF Free, Quit
<1> QED
  BY <1>1, <1>2, <1>3, <1>4, <1>5, <1>6, <1>7 DEF Reads

(* What its own viewer does, beyond attaching, taking the snapshot and     *)
(* taking a notification.                                                  *)
LEMMA OwnViewerKept ==
    ASSUME TypeOK, TypeOK', NEW v \in Viewers,
           EndOfStream(v) \/ Call(v) \/ AwaitAnswer(v) \/ Free(v) \/ Quit(v)
    PROVE  Keeps(v)
<1> DEFINE s == Stream(v)
<1>0. s \in Conns /\ Input(v) # s
  BY ConnsAre
<1> USE DEF sessionVars, serverVars, wireVars
<1>1. CASE Call(v)
  BY <1>0, <1>1, UntouchedKept DEF Call, GiveUp, Untouched, TypeOK
<1>2. CASE AwaitAnswer(v)
  BY <1>0, <1>2, UntouchedKept DEF AwaitAnswer, GiveUp, Read, Untouched, TypeOK
<1>3. CASE EndOfStream(v) \/ Free(v)
  <2>1. /\ UNCHANGED <<screen, pending, seq, gap, grid, queue, listed, subs, writer, outbox, thread, reply>>
        /\ socket'[s] = socket[s] /\ request'[s] = request[s] /\ (s \in shut' <=> s \in shut)
        /\ reader'[v] = reader[v] \/ reader'[v] \in {"freed", "done"}
    BY <1>0, <1>3 DEF EndOfStream, Free, Close, TypeOK
  <2>2. Flight(v)' = Flight(v) /\ \A m : Coming(v, m)' <=> Coming(v, m)
    BY <2>1 DEF Flight, Coming
  <2> QED
    BY <2>1, <2>2 DEF Keeps, Grows
<1>4. CASE Quit(v)
  <2>1. /\ UNCHANGED <<screen, pending, seq, gap, grid, listed, subs, writer, outbox, thread, reply, request>>
        /\ queue'[v] = <<>> /\ socket'[s] = <<>> /\ shut' = shut \cup {s, Input(v)}
        /\ reader'[v] = "done"
    BY <1>0, <1>4 DEF Quit, Close, TypeOK
  <2>2. Deltas(Flight(v)) = {} => Deltas(Flight(v)') = {}
    BY <2>1, DeltasOfFlight, DeltasOfFlightNext, NoDeltas
  <2>3. \A m : Coming(v, m)' => Coming(v, m)
    BY <2>1, NoDeltas DEF Coming
  <2> QED
    BY <2>1, <2>2, <2>3 DEF Keeps
<1> QED
  BY <1>1, <1>2, <1>3, <1>4

(* client.rs: a notification before the response waits in the queue, and   *)
(* an attach that fails closes the connection.                             *)
LEMMA AwaitKept ==
    ASSUME TypeOK, TypeOK', NEW v \in Viewers, AwaitSnapshot(v),
           ~(socket[Stream(v)] # <<>> /\ Head(socket[Stream(v)]).kind = "snapshot")
    PROVE  Keeps(v)
<1> DEFINE s == Stream(v)
<1>0. s \in Conns
  BY ConnsAre
<1>1. UNCHANGED <<screen, pending, seq, gap, listed, subs, writer, outbox, thread, reply, request>>
  BY DEF AwaitSnapshot, sessionVars, serverVars
<1>2. CASE /\ socket[s] # <<>> /\ queue' = [queue EXCEPT ![v] = Append(@, Head(socket[s]))]
           /\ Read(s) /\ UNCHANGED <<reader, grid, input, shut>>
  <2>1. queue'[v] = Append(queue[v], Head(socket[s])) /\ socket'[s] = Tail(socket[s])
    BY <1>0, <1>2 DEF Read, TypeOK
  <2>2. Flight(v)' = Append(queue[v], Head(socket[s])) \o Tail(socket[s]) \o outbox[s]
    BY <1>1, <2>1 DEF Flight
  <2>3. Flight(v)' = Flight(v)
    BY <1>2, <2>2, FlightMoves
  <2>4. socket[s] \in Seq(Messages)
    BY <1>0, QueuesAre
  <2>5. Range(socket'[s]) \subseteq Range(socket[s])
    BY <1>2, <2>1, <2>4, RangeOf
  <2>6. \A m : Coming(v, m)' => Coming(v, m)
    BY <1>1, <2>5 DEF Coming
  <2> QED
    BY <1>1, <1>2, <2>3, <2>6 DEF Keeps, Grows
<1>3. CASE reader' = [reader EXCEPT ![v] = "done"] /\ Close({s, Input(v)}) /\ UNCHANGED <<queue, grid>>
  <2>1. reader'[v] = "done" /\ socket'[s] = <<>> /\ shut' = shut \cup {s, Input(v)}
    BY <1>0, <1>3 DEF Close, TypeOK
  <2>2. Deltas(Flight(v)) = {} => Deltas(Flight(v)') = {}
    BY <1>1, <1>3, <2>1, DeltasOfFlight, DeltasOfFlightNext, NoDeltas
  <2>3. \A m : Coming(v, m)' => Coming(v, m)
    BY <1>1, <2>1, NoDeltas DEF Coming
  <2> QED
    BY <1>1, <2>1, <2>2, <2>3 DEF Keeps
<1> QED
  BY <1>2, <1>3 DEF AwaitSnapshot

-----------------------------------------------------------------------------
(* A message that is no delta leaves from the middle of a queue.           *)

(* Two queues with the same deltas in the same order.                      *)
LEMMA SameDeltas ==
    ASSUME NEW u, NEW w, NEW f,
           \A i \in Deltas(w) : f[i] \in Deltas(u) /\ w[i] = u[f[i]],
           \A i, j \in Deltas(w) : (i <= j) <=> (f[i] <= f[j]),
           \A i, j \in Deltas(w) : (i < j) <=> (f[i] < f[j]),
           \A k \in Deltas(u) : \E i \in Deltas(w) : k = f[i]
    PROVE  /\ \A g, s : GoesForward(u, g, s) => GoesForward(w, g, s)
           /\ \A g, r, n : Shows(u, g, r, n) => Shows(w, g, r, n)
           /\ \A n : Consecutive(u, n) => Consecutive(w, n)
<1>1. \A r : /\ \A i \in Writes(w, r) : i \in Deltas(w) /\ f[i] \in Writes(u, r) /\ w[i] = u[f[i]]
             /\ \A k \in Writes(u, r) : \E i \in Writes(w, r) : k = f[i]
  BY DEF Writes
<1>2. ASSUME NEW g, NEW s, GoesForward(u, g, s) PROVE GoesForward(w, g, s)
  <2> SUFFICES ASSUME NEW r \in Rows
               PROVE  /\ g[r] <= s[r]
                      /\ \A i \in Writes(w, r) :
                           /\ g[r] <= w[i].cells[r] /\ w[i].cells[r] <= s[r]
                           /\ \A j \in Writes(w, r) : i <= j => w[i].cells[r] <= w[j].cells[r]
    BY DEF GoesForward
  <2>1. /\ g[r] <= s[r]
        /\ \A i \in Writes(u, r) :
             /\ g[r] <= u[i].cells[r] /\ u[i].cells[r] <= s[r]
             /\ \A j \in Writes(u, r) : i <= j => u[i].cells[r] <= u[j].cells[r]
    BY <1>2 DEF GoesForward
  <2> QED
    BY <2>1, <1>1
<1>3. ASSUME NEW g, NEW r, NEW n, Shows(u, g, r, n) PROVE Shows(w, g, r, n)
  <2>1. CASE Writes(u, r) = {}
    BY <2>1, <1>1, <1>3 DEF Shows
  <2>2. CASE Writes(u, r) # {}
    <3>1. PICK k \in Writes(u, r) : u[k].cells[r] = n /\ \A j \in Writes(u, r) : j <= k
      BY <2>2, <1>3 DEF Shows
    <3>2. PICK i \in Writes(w, r) : k = f[i]
      BY <1>1
    <3>3. w[i].cells[r] = n /\ \A j \in Writes(w, r) : j <= i
      BY <3>1, <3>2, <1>1
    <3> QED
      BY <3>2, <3>3 DEF Shows
  <2> QED
    BY <2>1, <2>2
<1>4. ASSUME NEW n, Consecutive(u, n) PROVE Consecutive(w, n)
  <2> SUFFICES ASSUME NEW i \in Deltas(w)
               PROVE  \/ w[i].seq = n /\ \A j \in Deltas(w) : j <= i
                      \/ \E j \in Deltas(w) : /\ i < j /\ w[j].seq = w[i].seq + 1
                                             /\ \A k \in Deltas(w) : k <= i \/ j <= k
    BY DEF Consecutive
  <2>1. f[i] \in Deltas(u) /\ w[i] = u[f[i]]
    OBVIOUS
  <2>2. CASE u[f[i]].seq = n /\ \A j \in Deltas(u) : j <= f[i]
    BY <2>1, <2>2
  <2>3. ASSUME NEW l \in Deltas(u), f[i] < l, u[l].seq = u[f[i]].seq + 1,
               \A k \in Deltas(u) : k <= f[i] \/ l <= k
        PROVE  \E j \in Deltas(w) : /\ i < j /\ w[j].seq = w[i].seq + 1
                                    /\ \A k \in Deltas(w) : k <= i \/ j <= k
    <3>1. PICK j \in Deltas(w) : l = f[j]
      OBVIOUS
    <3>2. /\ i < j /\ w[j].seq = w[i].seq + 1
          /\ \A k \in Deltas(w) : k <= i \/ j <= k
      BY <2>1, <2>3, <3>1
    <3> QED
      BY <3>2
  <2> QED
    BY <2>1, <2>2, <2>3, <1>4 DEF Consecutive
<1> QED
  BY <1>2, <1>3, <1>4

(* The answer to the attach, between what is queued and the rest. *)
LEMMA OtherRemoved ==
    ASSUME NEW q \in Seq(Messages), NEW p \in Seq(Messages), NEW m \in Messages, ~IsDelta(m)
    PROVE  LET u == Append(q, m) \o p
               w == q \o p
           IN  /\ Deltas(u) = {} => Deltas(w) = {}
               /\ \A g, s : GoesForward(u, g, s) => GoesForward(w, g, s)
               /\ \A g, r, n : Shows(u, g, r, n) => Shows(w, g, r, n)
               /\ \A n : Consecutive(u, n) => Consecutive(w, n)
<1> DEFINE b == Append(q, m)
           u == b \o p
           w == q \o p
           l == Len(q)
           f == [i \in Deltas(w) |-> IF i <= l THEN i ELSE i + 1]
<1>1. /\ l \in Nat /\ Len(p) \in Nat
      /\ b \in Seq(Messages) /\ Len(b) = l + 1 /\ b[l + 1] = m
      /\ \A i \in 1..l : b[i] = q[i]
  BY LenProperties, AppendProperties
<1> HIDE DEF b
<1>2. /\ DOMAIN w = 1..(l + Len(p))
      /\ \A i \in 1..(l + Len(p)) : w[i] = IF i <= l THEN q[i] ELSE p[i - l]
  BY <1>1, LenProperties, ConcatProperties
<1>3. /\ DOMAIN u = 1..(l + 1 + Len(p))
      /\ \A i \in 1..(l + 1 + Len(p)) : u[i] = IF i <= l + 1 THEN b[i] ELSE p[i - (l + 1)]
  <2>1. /\ u \in Seq(Messages) /\ Len(u) = Len(b) + Len(p)
        /\ \A i \in 1..(Len(b) + Len(p)) : u[i] = IF i <= Len(b) THEN b[i] ELSE p[i - Len(b)]
    <3>1. b \in Seq(Messages) /\ p \in Seq(Messages)
      BY <1>1
    <3>2. b \o p \in Seq(Messages) /\ Len(b \o p) = Len(b) + Len(p)
      BY ONLY <3>1, ConcatProperties
    <3>3. \A i \in 1..(Len(b) + Len(p)) : (b \o p)[i] = IF i <= Len(b) THEN b[i] ELSE p[i - Len(b)]
      BY ONLY <3>1, ConcatProperties
    <3> QED
      BY ONLY <3>2, <3>3
  <2>2. DOMAIN u = 1..Len(u)
    BY ONLY <2>1, LenProperties
  <2> QED
    BY ONLY <1>1, <2>1, <2>2
<1> HIDE DEF u, w, l
<1>4. \A i \in 1..(l + Len(p)) : i <= l => i \in 1..(l + 1 + Len(p)) /\ w[i] = u[i]
  BY <1>1, <1>2, <1>3
<1>5. \A i \in 1..(l + Len(p)) : ~(i <= l) => i + 1 \in 1..(l + 1 + Len(p)) /\ w[i] = u[i + 1]
  BY <1>1, <1>2, <1>3
<1>6. \A k \in 1..(l + 1 + Len(p)) : k <= l => k \in 1..(l + Len(p)) /\ w[k] = u[k]
  BY <1>1, <1>2, <1>3
<1>7. \A k \in 1..(l + 1 + Len(p)) : k > l + 1 => /\ k - 1 \in 1..(l + Len(p)) /\ ~(k - 1 <= l)
                                                 /\ w[k - 1] = u[k] /\ k - 1 + 1 = k
  BY <1>1, <1>2, <1>3
<1>8. l + 1 \in 1..(l + 1 + Len(p)) /\ ~IsDelta(u[l + 1])
  BY <1>1, <1>3
<1>9. /\ Deltas(w) \subseteq Int
      /\ \A i \in Deltas(w) : f[i] \in Deltas(u) /\ w[i] = u[f[i]]
  BY <1>2, <1>3, <1>4, <1>5 DEF Deltas
<1>10. \A k \in Deltas(u) : \E i \in Deltas(w) : k = f[i]
  <2> SUFFICES ASSUME NEW k \in Deltas(u) PROVE \E i \in Deltas(w) : k = f[i]
    OBVIOUS
  <2>1. k \in 1..(l + 1 + Len(p)) /\ IsDelta(u[k])
    BY <1>3 DEF Deltas
  <2>2. k # l + 1
    BY <1>8, <2>1
  <2>3. CASE k <= l
    BY <2>1, <2>3, <1>6, <1>2 DEF Deltas
  <2>4. CASE k > l + 1
    <3>1. k - 1 \in Deltas(w) /\ f[k - 1] = k
      BY <2>1, <2>4, <1>7, <1>2 DEF Deltas
    <3> QED
      BY <3>1
  <2>5. k <= l \/ k > l + 1
    BY <2>1, <2>2, <1>1
  <2> QED
    BY <2>3, <2>4, <2>5
<1>11. \A i, j \in Deltas(w) : ((i <= j) <=> (f[i] <= f[j])) /\ ((i < j) <=> (f[i] < f[j]))
  BY <1>1, <1>9
<1>12. Deltas(u) = {} => Deltas(w) = {}
  BY <1>9
<1> HIDE DEF f
<1>13. /\ \A g, s : GoesForward(u, g, s) => GoesForward(w, g, s)
       /\ \A g, r, n : Shows(u, g, r, n) => Shows(w, g, r, n)
       /\ \A n : Consecutive(u, n) => Consecutive(w, n)
  BY <1>9, <1>10, <1>11, SameDeltas
<1> QED
  BY <1>12, <1>13 DEF u, w, b

-----------------------------------------------------------------------------
(* The steps that change what a stream carries.                            *)

(* The connection of a stream is accepted: nothing is on its way yet.      *)
LEMMA AcceptHolds ==
    ASSUME TypeOK, NEW v \in Viewers, StreamInv(v), ViewInv(v), Accept(Stream(v))
    PROVE  StreamInv(v)' /\ ViewInv(v)'
<1> DEFINE s == Stream(v)
<1>1. /\ UNCHANGED <<screen, pending, seq, gap, subs, outbox, reply, request, socket, shut, reader, grid, queue>>
      /\ thread[s] = "backlog" /\ thread'[s] = "read" /\ listed' = listed \cup {s}
      /\ s \in Conns
  BY ConnsAre DEF Accept, TypeOK, sessionVars, wireVars, viewerVars
<1>2. Flight(v)' = Flight(v) /\ \A m : Coming(v, m)' <=> Coming(v, m)
  BY <1>1 DEF Flight, Coming
<1>3. reader[v] # "reading" /\ \A g \in [Rows -> Counts] : ~Coming(v, Snap(g))
  BY <1>1 DEF StreamInv, Fresh
<1>4. StreamInv(v)'
  BY <1>1, <1>2, <1>3 DEF StreamInv, Fresh
<1>5. ViewInv(v)'
  BY <1>1, <1>2, <1>3 DEF ViewInv, AppliesTo
<1> QED
  BY <1>4, <1>5

(* session.attach takes the screen: it is the only answer on its way, with *)
(* no delta before it.                                                     *)
LEMMA SnapshotHolds ==
    ASSUME TypeOK, NEW v \in Viewers, StreamInv(v), ViewInv(v), Snapshot(Stream(v))
    PROVE  StreamInv(v)' /\ ViewInv(v)'
<1> DEFINE s == Stream(v)
<1>1. /\ UNCHANGED <<screen, pending, seq, gap, listed, subs, outbox, writer, socket, shut, reader, grid, queue>>
      /\ thread[s] = "read" /\ request[s] # <<>> /\ request'[s] = Tail(request[s])
      /\ \/ reply'[s] = Snap(screen) /\ thread'[s] = "snapped"
         \/ reply'[s] = Gone /\ thread'[s] = "reply"
  <2>1. s \in Conns
    BY ConnsAre
  <2>2. thread'[s] \in {"snapped", "reply"} /\ request'[s] = Tail(request[s])
    BY <2>1 DEF Snapshot, Take, TypeOK
  <2> QED
    BY <2>1, <2>2 DEF Snapshot, Take, TypeOK, sessionVars, viewerVars
<1>2. request'[s] = <<>>
  <2>1. request[s] = <<"attach">>
    BY <1>1 DEF StreamInv
  <2> QED
    BY <1>1, <2>1
<1>3. /\ reader[v] # "reading" /\ \A g \in [Rows -> Counts] : ~Coming(v, Snap(g))
      /\ s \notin subs /\ Deltas(Flight(v)) = {}
  BY <1>1 DEF StreamInv, Fresh
<1>4. Flight(v)' = Flight(v)
  BY <1>1 DEF Flight
<1>5. StreamInv(v)'
  BY <1>1, <1>2, <1>3, <1>4 DEF StreamInv, Fresh
<1>6. ASSUME NEW g \in [Rows -> Counts], AppliesTo(v, g)'
      PROVE  g = screen /\ thread'[s] = "snapped"
  <2>1. Coming(v, Snap(g))'
    BY <1>1, <1>3, <1>6 DEF AppliesTo
  <2>2. reply'[s] = Snap(g)
    BY <1>1, <1>3, <2>1 DEF Coming
  <2>3. Gone # Snap(g)
    BY OtherTypes
  <2>4. Snap(screen) = Snap(g) => screen = g
    BY DEF Snap
  <2> QED
    BY <1>1, <2>2, <2>3, <2>4
<1>7. ViewInv(v)'
  <2> SUFFICES ASSUME NEW g \in [Rows -> Counts], AppliesTo(v, g)'
               PROVE  /\ s \in listed' /\ thread'[s] # "snapped" => s \in subs'
                      /\ GoesForward(Flight(v)', g, screen')
                      /\ s \in listed' =>
                           \A r \in Rows \ (pending' \cup gap'[v]) : Shows(Flight(v)', g, r, screen'[r])
                      /\ s \in subs' => Consecutive(Flight(v)', seq')
    BY DEF ViewInv
  <2>1. g = screen /\ thread'[s] = "snapped"
    BY <1>6
  <2>2. GoesForward(Flight(v), g, g) /\ \A r : Shows(Flight(v), g, r, g[r])
    BY <1>3, NothingToApply
  <2> QED
    BY <1>1, <1>3, <1>4, <2>1, <2>2
<1> QED
  BY <1>5, <1>7

(* The subscription: the deltas begin where the snapshot ends, up to gap.  *)
LEMMA SubscribeHolds ==
    ASSUME TypeOK, NEW v \in Viewers, StreamInv(v), ViewInv(v), Subscribe(Stream(v))
    PROVE  StreamInv(v)' /\ ViewInv(v)'
<1> DEFINE s == Stream(v)
<1>1. /\ UNCHANGED <<screen, pending, seq, gap, listed, outbox, writer, reply, request, socket, shut, reader, grid, queue>>
      /\ thread[s] = "snapped" /\ thread'[s] = "reply" /\ subs' = subs \cup ({s} \cap listed)
  BY ConnsAre DEF Subscribe, TypeOK, sessionVars, wireVars, viewerVars
<1>2. request[s] = <<>> /\ Deltas(Flight(v)) = {}
  BY <1>1 DEF StreamInv
<1>3. Flight(v)' = Flight(v) /\ \A g : AppliesTo(v, g)' <=> AppliesTo(v, g)
  BY <1>1 DEF Flight, AppliesTo, Coming
<1>4. StreamInv(v)'
  BY <1>1, <1>2 DEF StreamInv, Fresh
<1>5. Consecutive(Flight(v), seq)
  BY <1>2, NothingToApply
<1>6. ViewInv(v)'
  BY <1>1, <1>3, <1>5 DEF ViewInv
<1> QED
  BY <1>4, <1>6

(* client.rs: the response is the first grid, and what overtook it is in   *)
(* the queue.                                                              *)
LEMMA AnsweredHolds ==
    ASSUME TypeOK, NEW v \in Viewers, StreamInv(v), ViewInv(v), AwaitSnapshot(v),
           socket[Stream(v)] # <<>>, Head(socket[Stream(v)]).kind = "snapshot"
    PROVE  StreamInv(v)' /\ ViewInv(v)'
<1> DEFINE s == Stream(v)
           m == Head(socket[s])
<1>0. s \in Conns /\ socket[s] \in Seq(Messages) /\ m \in Messages /\ Tail(socket[s]) \in Seq(Messages)
      /\ queue[v] \in Seq(Messages) /\ outbox[s] \in Seq(Messages)
  BY ConnsAre, QueuesAre, HeadTailProperties
<1>1. ~IsNotice(m) /\ ~IsDelta(m) /\ m # Gone /\ m.cells \in [Rows -> Counts] /\ m = Snap(m.cells)
  BY <1>0, MessageKinds DEF IsNotice, IsDelta, Gone
<1>2. /\ UNCHANGED <<screen, pending, seq, gap, listed, subs, outbox, writer, thread, reply, request, shut, queue>>
      /\ reader[v] = "attaching" /\ reader'[v] = "reading"
      /\ grid'[v] = m.cells /\ socket'[s] = Tail(socket[s])
  BY <1>0, <1>1 DEF AwaitSnapshot, Read, TypeOK, sessionVars, serverVars
<1>3. Coming(v, m)
  <2>1. m \in Range(socket[s])
    BY <1>0, RangeOf
  <2> QED
    BY <2>1 DEF Coming
<1>4. AppliesTo(v, m.cells)
  BY <1>1, <1>2, <1>3 DEF AppliesTo
<1>5. ~Fresh(v)
  BY <1>1, <1>3 DEF StreamInv
<1>6. /\ Deltas(Flight(v)) = {} => Deltas(Flight(v)') = {}
      /\ \A g, x : GoesForward(Flight(v), g, x) => GoesForward(Flight(v)', g, x)
      /\ \A g, r, n : Shows(Flight(v), g, r, n) => Shows(Flight(v)', g, r, n)
      /\ \A n : Consecutive(Flight(v), n) => Consecutive(Flight(v)', n)
  <2> DEFINE a == queue[v]
             b == Tail(socket[s])
             c == outbox[s]
             p == b \o c
  <2>1. a \in Seq(Messages) /\ b \in Seq(Messages) /\ c \in Seq(Messages) /\ p \in Seq(Messages)
        /\ Append(a, m) \in Seq(Messages)
    BY <1>0, ConcatProperties, AppendProperties
  <2>2. Append(a, m) \o b \o c = Flight(v)
    BY FlightMoves
  <2>3. Flight(v)' = a \o b \o c
    BY <1>2 DEF Flight
  <2> HIDE DEF a, b, c, m
  <2>4. (a \o b) \o c = a \o p
    BY ONLY <2>1, ConcatAssociative
  <2> DEFINE d == Append(a, m)
  <2>5. d \in Seq(Messages) /\ d \o b \o c = Flight(v)
    BY <2>1, <2>2
  <2> HIDE DEF d
  <2>6. (d \o b) \o c = d \o p
    <3>1. d \in Seq(Messages) /\ b \in Seq(Messages) /\ c \in Seq(Messages)
      BY <2>1, <2>5
    <3> QED
      BY ONLY <3>1, ConcatAssociative
  <2> HIDE DEF p
  <2>7. Flight(v) = Append(a, m) \o p /\ Flight(v)' = a \o p
    BY <2>3, <2>4, <2>5, <2>6 DEF d
  <2>8. m \in Messages /\ ~IsDelta(m) /\ a \in Seq(Messages) /\ p \in Seq(Messages)
    BY <1>0, <1>1, <2>1
  <2>9. LET u == Append(a, m) \o p
            w == a \o p
        IN  /\ Deltas(u) = {} => Deltas(w) = {}
            /\ \A g, x : GoesForward(u, g, x) => GoesForward(w, g, x)
            /\ \A g, r, n : Shows(u, g, r, n) => Shows(w, g, r, n)
            /\ \A n : Consecutive(u, n) => Consecutive(w, n)
    BY ONLY <2>8, OtherRemoved
  <2> QED
    BY ONLY <2>7, <2>9
<1>7. StreamInv(v)'
  BY <1>2, <1>5, <1>6 DEF StreamInv, Fresh
<1>8. ASSUME NEW g, AppliesTo(v, g)' PROVE g = m.cells
  BY <1>2, <1>8 DEF AppliesTo
<1> HIDE DEF m
<1>9. /\ s \in listed /\ thread[s] # "snapped" => s \in subs
      /\ GoesForward(Flight(v), m.cells, screen)
      /\ s \in listed =>
           \A r \in Rows \ (pending \cup gap[v]) : Shows(Flight(v), m.cells, r, screen[r])
      /\ s \in subs => Consecutive(Flight(v), seq)
  BY <1>1, <1>4 DEF ViewInv
<1>10. ViewInv(v)'
  <2> SUFFICES ASSUME NEW g \in [Rows -> Counts], AppliesTo(v, g)'
               PROVE  /\ s \in listed' /\ thread'[s] # "snapped" => s \in subs'
                      /\ GoesForward(Flight(v)', g, screen')
                      /\ s \in listed' =>
                           \A r \in Rows \ (pending' \cup gap'[v]) : Shows(Flight(v)', g, r, screen'[r])
                      /\ s \in subs' => Consecutive(Flight(v)', seq')
    BY DEF ViewInv
  <2>1. g = m.cells
    BY <1>8
  <2> QED
    BY <1>2, <1>6, <1>9, <2>1
<1> QED
  BY <1>7, <1>10

(* What taking a notification does to its viewer: it is the first on its   *)
(* way, or the reader thread is done.                                      *)
LEMMA Taken ==
    ASSUME TypeOK, NEW v \in Viewers, NextNotification(v)
    PROVE  LET s == Stream(v) IN
           /\ UNCHANGED <<screen, pending, seq, gap, listed, subs, outbox, writer, thread, reply, request>>
           /\ reader[v] \in {"reading", "freed"}
           /\ Flight(v) # <<>> /\ grid'[v] = Apply(grid[v], Head(Flight(v)))
           /\ Range(socket'[s]) \subseteq Range(socket[s])
           /\ \/ /\ reader'[v] = reader[v] /\ reader[v] = "reading" /\ shut' = shut
                 /\ Flight(v)' = Tail(Flight(v))
              \/ /\ reader'[v] = "done"
                 /\ queue'[v] = <<>> /\ socket'[s] = <<>> /\ shut' = shut \cup {s}
<1> DEFINE s == Stream(v)
<1>0. s \in Conns /\ socket[s] \in Seq(Messages)
  BY ConnsAre, QueuesAre
<1>1. PICK m, queued :
        /\ Notified(v, m, queued)
        /\ \/ queued = TRUE /\ queue[v] # <<>> /\ m = Head(queue[v])
           \/ queued = FALSE /\ queue[v] = <<>> /\ socket[s] # <<>> /\ m = Head(socket[s])
  <2>1. CASE queue[v] # <<>> /\ Notified(v, Head(queue[v]), TRUE)
    BY <2>1
  <2>2. CASE queue[v] = <<>> /\ socket[s] # <<>> /\ Notified(v, Head(socket[s]), FALSE)
    BY <2>2
  <2> QED
    BY <2>1, <2>2 DEF NextNotification
<1>2. /\ UNCHANGED <<screen, pending, seq, gap, listed, subs, outbox, writer, thread, reply, request>>
      /\ reader[v] \in {"reading", "freed"} /\ grid'[v] = Apply(grid[v], m)
  BY <1>1 DEF Notified, TypeOK, sessionVars, serverVars
<1>3. Flight(v) # <<>> /\ m = Head(Flight(v))
  BY <1>1, FlightMoves
<1>4. CASE reader[v] = "freed" \/ m.kind = "exited"
  <2>1. /\ reader'[v] = "done" /\ queue'[v] = <<>> /\ Close({s})
    BY <1>1, <1>4 DEF Notified, TypeOK
  <2>2. socket'[s] = <<>> /\ shut' = shut \cup {s}
    BY <1>0, <2>1 DEF Close
  <2>3. Range(socket'[s]) = {}
    BY <2>2, NoDeltas
  <2> QED
    BY <1>2, <1>3, <2>1, <2>2, <2>3
<1>5. CASE ~(reader[v] = "freed" \/ m.kind = "exited")
  <2>1. /\ reader'[v] = reader[v] /\ reader[v] = "reading" /\ shut' = shut
        /\ queue'[v] = IF queued THEN Tail(queue[v]) ELSE queue[v]
        /\ socket'[s] = IF queued THEN socket[s] ELSE Tail(socket[s])
    BY <1>0, <1>1, <1>2, <1>5 DEF Notified, Read, TypeOK
  <2>2. Range(socket'[s]) \subseteq Range(socket[s])
    BY <1>0, <1>1, <2>1, RangeOf
  <2>3. Flight(v)' = queue'[v] \o socket'[s] \o outbox[s]
    BY <1>2 DEF Flight
  <2>4. Flight(v)' = Tail(Flight(v))
    <3>1. CASE queued
      <4>1. Flight(v)' = Tail(queue[v]) \o socket[s] \o outbox[s]
        BY <3>1, <2>1, <2>3
      <4> QED
        BY <4>1, <3>1, <1>1, FlightMoves
    <3>2. CASE ~queued
      <4>1. Flight(v)' = queue[v] \o Tail(socket[s]) \o outbox[s]
        BY <3>2, <2>1, <2>3
      <4> QED
        BY <4>1, <3>2, <1>1, FlightMoves
    <3> QED
      BY <3>1, <3>2
  <2> QED
    BY <1>2, <1>3, <2>1, <2>2, <2>4
<1> QED
  BY <1>4, <1>5

(* The first delta on its way becomes part of the grid. *)
LEMMA NotificationHolds ==
    ASSUME TypeOK, TypeOK', NEW v \in Viewers, StreamInv(v), ViewInv(v), NextNotification(v)
    PROVE  StreamInv(v)' /\ ViewInv(v)'
<1> DEFINE s == Stream(v)
<1>1. /\ UNCHANGED <<screen, pending, seq, gap, listed, subs, outbox, writer, thread, reply, request>>
      /\ reader[v] \in {"reading", "freed"}
      /\ Flight(v) # <<>> /\ grid'[v] = Apply(grid[v], Head(Flight(v)))
      /\ Range(socket'[s]) \subseteq Range(socket[s])
  BY Taken
<1>2. \A m : Coming(v, m)' => Coming(v, m)
  BY <1>1 DEF Coming
<1>3. CASE /\ reader'[v] = "done"
           /\ queue'[v] = <<>> /\ socket'[s] = <<>> /\ shut' = shut \cup {s}
  <2>1. Deltas(Flight(v)) = {} => Deltas(Flight(v)') = {}
    BY <1>1, <1>3, DeltasOfFlight, DeltasOfFlightNext, NoDeltas
  <2>2. Keeps(v)
    BY <1>1, <1>2, <1>3, <2>1 DEF Keeps
  <2> QED
    BY <2>2, Kept
<1>4. CASE reader'[v] = reader[v] /\ reader[v] = "reading" /\ shut' = shut /\ Flight(v)' = Tail(Flight(v))
  <2>0. Flight(v) \in Seq(Messages) /\ grid[v] \in [Rows -> Counts]
    BY QueuesAre DEF TypeOK
  <2>1. Deltas(Flight(v)) = {} => Deltas(Tail(Flight(v))) = {}
    BY <1>1, <2>0, DeltasOfTail
  <2>2. StreamInv(v)'
    BY <1>1, <1>2, <1>4, <2>1 DEF StreamInv, Fresh
  <2>3. AppliesTo(v, grid[v])
    BY <1>4 DEF AppliesTo
  <2>4. /\ s \in listed /\ thread[s] # "snapped" => s \in subs
        /\ GoesForward(Flight(v), grid[v], screen)
        /\ s \in listed =>
             \A r \in Rows \ (pending \cup gap[v]) : Shows(Flight(v), grid[v], r, screen[r])
        /\ s \in subs => Consecutive(Flight(v), seq)
    BY <2>0, <2>3 DEF ViewInv
  <2>5. /\ GoesForward(Tail(Flight(v)), grid'[v], screen)
        /\ \A r \in Rows : \A n : Shows(Flight(v), grid[v], r, n) => Shows(Tail(Flight(v)), grid'[v], r, n)
        /\ \A n : Consecutive(Flight(v), n) => Consecutive(Tail(Flight(v)), n)
    BY <1>1, <2>0, <2>4, FirstApplied
  <2>6. ViewInv(v)'
    <3> SUFFICES ASSUME NEW g \in [Rows -> Counts], AppliesTo(v, g)'
                 PROVE  /\ s \in listed' /\ thread'[s] # "snapped" => s \in subs'
                        /\ GoesForward(Flight(v)', g, screen')
                        /\ s \in listed' =>
                             \A r \in Rows \ (pending' \cup gap'[v]) : Shows(Flight(v)', g, r, screen'[r])
                        /\ s \in subs' => Consecutive(Flight(v)', seq')
      BY DEF ViewInv
    <3>1. g = grid'[v]
      BY <1>4 DEF AppliesTo
    <3> QED
      BY <1>1, <1>4, <2>4, <2>5, <3>1
  <2> QED
    BY <2>2, <2>6
<1> QED
  BY <1>3, <1>4, Taken

(* The rows that output writes are pending. *)
LEMMA OutputHolds ==
    ASSUME TypeOK, NEW v \in Viewers, StreamInv(v), ViewInv(v), NEW R \in SUBSET Rows, Output(R)
    PROVE  StreamInv(v)' /\ ViewInv(v)'
<1> DEFINE s == Stream(v)
           q == Flight(v)
<1>1. /\ UNCHANGED <<seq, gap, listed, subs, outbox, writer, thread, reply, request, socket, shut,
                     reader, grid, queue>>
      /\ screen' = [r \in Rows |-> screen[r] + IF r \in R THEN 1 ELSE 0] /\ pending' = pending \cup R
  BY DEF Output, serverVars, wireVars, viewerVars
<1>2. /\ Flight(v)' = q /\ (\A m : Coming(v, m)' <=> Coming(v, m))
      /\ \A g : AppliesTo(v, g)' <=> AppliesTo(v, g)
  BY <1>1 DEF Flight, AppliesTo, Coming
<1>3. StreamInv(v)'
  BY <1>1, <1>2 DEF StreamInv, Fresh
<1>4. \A r \in Rows : /\ screen[r] \in Int /\ screen'[r] \in Int /\ screen[r] <= screen'[r]
                      /\ r \notin pending' => screen'[r] = screen[r] /\ r \notin pending
  BY <1>1 DEF TypeOK, Counts
<1>5. \A r \in Rows : \A i \in Writes(q, r) : q[i].cells[r] \in Int
  <2> SUFFICES ASSUME NEW r \in Rows, NEW i \in Writes(q, r) PROVE q[i].cells[r] \in Int
    OBVIOUS
  <2>1. q \in Seq(Messages)
    BY QueuesAre
  <2>2. i \in DOMAIN q /\ IsDelta(q[i]) /\ r \in DOMAIN q[i].cells
    BY DEF Writes, Deltas
  <2>3. q[i] \in Messages
    BY <2>1, <2>2
  <2>4. PICK Q \in SUBSET Rows : q[i].cells \in [Q -> Counts]
    BY <2>2, <2>3, MessageKinds
  <2> QED
    BY <2>2, <2>4 DEF Counts
<1> HIDE DEF q
<1>6. ASSUME NEW g \in [Rows -> Counts], GoesForward(q, g, screen)
      PROVE  GoesForward(q, g, screen')
  <2> SUFFICES ASSUME NEW r \in Rows
               PROVE  /\ g[r] <= screen'[r]
                      /\ \A i \in Writes(q, r) :
                           /\ g[r] <= q[i].cells[r] /\ q[i].cells[r] <= screen'[r]
                           /\ \A j \in Writes(q, r) : i <= j => q[i].cells[r] <= q[j].cells[r]
    BY DEF GoesForward
  <2>1. /\ g[r] <= screen[r] /\ g[r] \in Int
        /\ \A i \in Writes(q, r) :
             /\ g[r] <= q[i].cells[r] /\ q[i].cells[r] <= screen[r]
             /\ \A j \in Writes(q, r) : i <= j => q[i].cells[r] <= q[j].cells[r]
    BY <1>6 DEF GoesForward, Counts
  <2> QED
    BY <2>1, <1>4, <1>5
<1>7. ViewInv(v)'
  <2> SUFFICES ASSUME NEW g \in [Rows -> Counts], AppliesTo(v, g)'
               PROVE  /\ s \in listed' /\ thread'[s] # "snapped" => s \in subs'
                      /\ GoesForward(Flight(v)', g, screen')
                      /\ s \in listed' =>
                           \A r \in Rows \ (pending' \cup gap'[v]) : Shows(Flight(v)', g, r, screen'[r])
                      /\ s \in subs' => Consecutive(Flight(v)', seq')
    BY DEF ViewInv
  <2>1. /\ s \in listed /\ thread[s] # "snapped" => s \in subs
        /\ GoesForward(q, g, screen)
        /\ s \in listed => \A r \in Rows \ (pending \cup gap[v]) : Shows(q, g, r, screen[r])
        /\ s \in subs => Consecutive(q, seq)
    BY <1>2 DEF ViewInv, q
  <2>2. GoesForward(q, g, screen')
    BY <1>6, <2>1
  <2>3. s \in listed => \A r \in Rows \ (pending' \cup gap[v]) : Shows(q, g, r, screen'[r])
    BY <1>4, <2>1
  <2> QED
    BY <1>1, <1>2, <2>1, <2>2, <2>3
<1> QED
  BY <1>3, <1>7

(* A redraw makes every row pending. *)
LEMMA RedrawHolds ==
    ASSUME TypeOK, NEW v \in Viewers, StreamInv(v), ViewInv(v), Redraw
    PROVE  StreamInv(v)' /\ ViewInv(v)'
<1>1. /\ UNCHANGED <<screen, seq, gap, listed, subs, outbox, writer, thread, reply, request, socket, shut,
                     reader, grid, queue>>
      /\ pending' = Rows
  BY DEF Redraw, serverVars, wireVars, viewerVars
<1>2. /\ Flight(v)' = Flight(v) /\ (\A m : Coming(v, m)' <=> Coming(v, m))
      /\ \A g : AppliesTo(v, g)' <=> AppliesTo(v, g)
  BY <1>1 DEF Flight, AppliesTo, Coming
<1>3. StreamInv(v)'
  BY <1>1, <1>2 DEF StreamInv, Fresh
<1>4. ViewInv(v)'
  BY <1>1, <1>2 DEF ViewInv
<1> QED
  BY <1>3, <1>4

(* A flush numbers the delta of the damaged rows for every subscriber; a   *)
(* stream whose attach is between its snapshot and its subscription misses *)
(* it, and its viewer those rows (gap).                                    *)
LEMMA FlushHolds ==
    ASSUME TypeOK, FlushInv, NEW v \in Viewers, StreamInv(v), ViewInv(v), Flush
    PROVE  StreamInv(v)' /\ ViewInv(v)'
<1> DEFINE s == Stream(v)
           q == Flight(v)
           m == Delta([r \in pending |-> screen[r]], seq + 1)
<1>0. s \in Conns /\ q \in Seq(Messages) /\ outbox[s] \in Seq(Messages)
  BY ConnsAre, QueuesAre
<1>1. /\ UNCHANGED <<screen, writer, thread, reply, request, socket, shut, reader, grid, queue>>
      /\ pending # {} /\ pending \in SUBSET Rows /\ pending' = {}
      /\ seq \in 0..MaxFlushes /\ seq < MaxFlushes /\ seq' = seq + 1
      /\ screen \in [Rows -> Counts] /\ Deliver(m, subs)
  BY DEF Flush, PublishDamage, FlushInv, TypeOK, wireVars, viewerVars
<1>2. gap'[v] = IF thread[s] = "snapped" THEN gap[v] \cup pending
                ELSE IF s \in subs THEN gap[v] \ pending ELSE gap[v]
  BY DEF Flush, PublishDamage
<1>3. m \in Messages /\ IsDelta(m)
  <2>1. seq + 1 \in 1..MaxFlushes
    BY <1>1, FanoutAssumption
  <2> QED
    BY ONLY <1>1, <2>1, DeltaType DEF m, Messages
<1>4. \A g : m # Snap(g)
  BY DEF Delta, Snap
<1>5. /\ outbox'[s] = outbox[s] \/ (s \in subs /\ outbox'[s] = Append(outbox[s], m))
      /\ s \in listed' /\ s \in subs => outbox'[s] = Append(outbox[s], m) /\ s \in subs'
      /\ listed' \subseteq listed /\ subs' \subseteq subs /\ subs' \subseteq listed'
  <2> HIDE DEF m, s
  <2> QED
    BY <1>0, <1>1, <1>3, Delivered
<1>6. /\ outbox'[s] = outbox[s] => Flight(v)' = q
      /\ outbox'[s] = Append(outbox[s], m) => Flight(v)' = Append(q, m)
  <2>1. Flight(v)' = queue[v] \o socket[s] \o outbox'[s]
    BY <1>1 DEF Flight
  <2>2. queue[v] \o socket[s] \o Append(outbox[s], m) = Append(q, m)
    BY <1>3, FlightMoves
  <2> QED
    BY <2>1, <2>2 DEF Flight
<1>7. ASSUME NEW g, Coming(v, Snap(g))' PROVE Coming(v, Snap(g))
  <2>1. Range(outbox'[s]) \subseteq Range(outbox[s]) \cup {m}
    <3>1. Range(Append(outbox[s], m)) = Range(outbox[s]) \cup {m}
      BY <1>0, <1>3, RangeOf
    <3> QED
      BY <1>5, <3>1
  <2> QED
    BY <1>1, <1>4, <1>7, <2>1 DEF Coming
<1>8. \A g : AppliesTo(v, g)' => AppliesTo(v, g)
  BY <1>1, <1>7 DEF AppliesTo
<1>9. StreamInv(v)'
  <2>1. Fresh(v) \/ thread[s] = "snapped" => Flight(v)' = q /\ s \notin subs'
    BY <1>5, <1>6 DEF StreamInv
  <2> HIDE DEF q
  <2> QED
    BY <1>1, <1>5, <1>7, <2>1 DEF StreamInv, Fresh, q
<1>10. ASSUME NEW g \in [Rows -> Counts], AppliesTo(v, g)'
       PROVE  /\ s \in listed' /\ thread'[s] # "snapped" => s \in subs'
              /\ GoesForward(Flight(v)', g, screen')
              /\ s \in listed' =>
                   \A r \in Rows \ (pending' \cup gap'[v]) : Shows(Flight(v)', g, r, screen'[r])
              /\ s \in subs' => Consecutive(Flight(v)', seq')
  <2>1. /\ s \in listed /\ thread[s] # "snapped" => s \in subs
        /\ GoesForward(q, g, screen)
        /\ s \in listed => \A r \in Rows \ (pending \cup gap[v]) : Shows(q, g, r, screen[r])
        /\ s \in subs => Consecutive(q, seq)
    BY <1>8, <1>10 DEF ViewInv
  <2>2. s \in subs => thread[s] # "snapped"
    BY DEF StreamInv
  <2>3. s \in listed' /\ thread'[s] # "snapped" => s \in subs'
    BY <1>1, <1>5, <2>1
  <2>4. /\ GoesForward(Append(q, m), g, screen)
        /\ \A r \in pending : Shows(Append(q, m), g, r, screen[r])
        /\ \A r \in Rows \ pending : \A k : Shows(q, g, r, k) => Shows(Append(q, m), g, r, k)
        /\ Consecutive(q, seq) => Consecutive(Append(q, m), seq + 1)
    BY <1>0, <1>1, <2>1, DeltaAppended
  <2> HIDE DEF m, q
  <2>5. CASE s \in subs /\ outbox'[s] = Append(outbox[s], m)
    <3>1. Flight(v)' = Append(q, m) /\ gap'[v] = gap[v] \ pending
      BY <1>2, <1>6, <2>2, <2>5
    <3>2. ASSUME s \in listed', NEW r \in Rows \ (pending' \cup gap'[v])
          PROVE  Shows(Append(q, m), g, r, screen[r])
      <4>1. CASE r \in pending
        BY <2>4, <4>1
      <4>2. CASE r \notin pending
        BY <1>5, <2>1, <2>4, <3>1, <3>2, <4>2
      <4> QED
        BY <4>1, <4>2
    <3> QED
      BY <1>1, <2>1, <2>3, <2>4, <2>5, <3>1, <3>2
  <2>6. CASE ~(s \in subs /\ outbox'[s] = Append(outbox[s], m))
    <3>1. Flight(v)' = q /\ s \notin subs' /\ (s \in listed' => s \notin subs)
      BY <1>5, <1>6, <2>6
    <3>2. s \in listed' => thread[s] = "snapped" /\ gap'[v] = gap[v] \cup pending /\ s \in listed
      BY <1>2, <1>5, <2>1, <3>1
    <3>3. s \in listed' => \A r \in Rows \ (pending' \cup gap'[v]) : Shows(q, g, r, screen[r])
      BY <2>1, <3>2
    <3> QED
      BY <1>1, <2>1, <2>3, <3>1, <3>3
  <2> QED
    BY <2>5, <2>6
<1>11. ViewInv(v)'
  BY <1>10 DEF ViewInv
<1> QED
  BY <1>9, <1>11

(* vt_viewer_attach: a new stream, whose only request is the attach.       *)
LEMMA AttachHolds ==
    ASSUME TypeOK, NEW v \in Viewers, StreamInv(v), ViewInv(v), Attach(v)
    PROVE  StreamInv(v)' /\ ViewInv(v)'
<1> DEFINE s == Stream(v)
<1>1. /\ UNCHANGED <<screen, pending, seq, gap, listed, subs, outbox, writer, reply, socket, shut, grid, queue>>
      /\ reader[v] = "off" /\ reader'[v] = "attaching"
      /\ thread'[s] = "backlog" /\ request'[s] = <<"attach">>
  BY ConnsAre DEF Attach, TypeOK, sessionVars
<1>2. Flight(v)' = Flight(v) /\ \A m : Coming(v, m)' <=> Coming(v, m)
  BY <1>1 DEF Flight, Coming
<1>3. thread[s] = "none" /\ s \notin shut
  BY <1>1 DEF StreamInv
<1>4. /\ s \notin listed \cup writer /\ \A g \in [Rows -> Counts] : ~Coming(v, Snap(g))
      /\ s \notin subs /\ Deltas(Flight(v)) = {}
  BY <1>3 DEF StreamInv, Fresh
<1>5. StreamInv(v)'
  BY <1>1, <1>2, <1>3, <1>4 DEF StreamInv, Fresh
<1>6. ViewInv(v)'
  BY <1>1, <1>2, <1>4 DEF ViewInv, AppliesTo
<1> QED
  BY <1>5, <1>6

-----------------------------------------------------------------------------
(* The invariant holds.                                                    *)

(* At the start nothing is on its way. *)
LEMMA InvInit == Init => FanoutInv
<1> SUFFICES ASSUME Init, NEW v \in Viewers PROVE StreamInv(v) /\ ViewInv(v)
  BY TypeInit DEF FanoutInv
<1>1. /\ thread[Stream(v)] = "none" /\ request[Stream(v)] = <<>> /\ reply[Stream(v)] = NoReply
      /\ outbox[Stream(v)] = <<>> /\ socket[Stream(v)] = <<>> /\ queue[v] = <<>>
      /\ reader[v] = "off" /\ listed = {} /\ subs = {} /\ writer = {} /\ shut = {}
  BY ConnsAre DEF Init
<1>2. Deltas(Flight(v)) = {}
  BY <1>1, TypeInit, DeltasOfFlight, NoDeltas
<1>3. \A g : ~Coming(v, Snap(g))
  BY <1>1, NoDeltas, OtherTypes DEF Coming
<1> QED
  BY <1>1, <1>2, <1>3 DEF StreamInv, ViewInv, AppliesTo

(* Every step keeps the invariant. *)
LEMMA InvNext == FanoutInv /\ [Next]_vars => FanoutInv'
<1> SUFFICES ASSUME FanoutInv, [Next]_vars PROVE FanoutInv'
  OBVIOUS
<1>1. TypeOK /\ FlushInv /\ ReplyInv /\ TypeOK' /\ FlushInv' /\ ReplyInv'
  BY TypeNext DEF FanoutInv
<1>2. ASSUME NEW v \in Viewers PROVE StreamInv(v)' /\ ViewInv(v)'
  <2>1. StreamInv(v) /\ ViewInv(v)
    BY DEF FanoutInv
  <2>2. Keeps(v) => StreamInv(v)' /\ ViewInv(v)'
    BY <1>1, <2>1, Kept
  <2>3. CASE UNCHANGED vars
    <3>1. Untouched(v)
      BY <2>3 DEF vars, sessionVars, serverVars, wireVars, viewerVars, Untouched
    <3> QED
      BY <2>2, <3>1, UntouchedKept
  <2>4. ASSUME NEW R \in SUBSET Rows, Output(R) PROVE StreamInv(v)' /\ ViewInv(v)'
    BY <1>1, <2>1, <2>4, OutputHolds
  <2>5. CASE Redraw
    BY <1>1, <2>1, <2>5, RedrawHolds
  <2>6. CASE Flush
    BY <1>1, <2>1, <2>6, FlushHolds
  <2>7. CASE Announce \/ End \/ Unregister
    BY <1>1, <2>2, <2>7, BroadcastKept
  <2>8. CASE Stop
    BY <1>1, <2>2, <2>8, StopKept
  <2>9. ASSUME NEW c \in Conns, Serve(c) \/ Write(c) \/ WriterEnds(c)
        PROVE  StreamInv(v)' /\ ViewInv(v)'
    <3>1. CASE c # Stream(v)
      BY <1>1, <2>2, <2>9, <3>1, OthersKept
    <3>2. CASE c = Stream(v)
      <4>1. CASE Accept(c)
        BY <1>1, <2>1, <3>2, <4>1, AcceptHolds
      <4>2. CASE Snapshot(c)
        BY <1>1, <2>1, <3>2, <4>2, SnapshotHolds
      <4>3. CASE Subscribe(c)
        BY <1>1, <2>1, <3>2, <4>3, SubscribeHolds
      <4>4. CASE Detach(c) \/ Handle(c) \/ Respond(c) \/ Disconnect(c) \/ Write(c) \/ WriterEnds(c)
        BY <1>1, <2>1, <2>2, <3>2, <4>4, ServedKept
      <4> QED
        BY <2>9, <4>1, <4>2, <4>3, <4>4 DEF Serve
    <3> QED
      BY <3>1, <3>2
  <2>10. ASSUME NEW w \in Viewers,
                Attach(w) \/ Reads(w) \/ Call(w) \/ AwaitAnswer(w) \/ Free(w) \/ Quit(w)
         PROVE  StreamInv(v)' /\ ViewInv(v)'
    <3>1. CASE w # v
      BY <1>1, <2>2, <2>10, <3>1, OtherViewerKept
    <3>2. CASE w = v
      <4>1. CASE Attach(v)
        BY <1>1, <2>1, <4>1, AttachHolds
      <4>2. CASE AwaitSnapshot(v)
        <5>1. CASE socket[Stream(v)] # <<>> /\ Head(socket[Stream(v)]).kind = "snapshot"
          BY <1>1, <2>1, <4>2, <5>1, AnsweredHolds
        <5>2. CASE ~(socket[Stream(v)] # <<>> /\ Head(socket[Stream(v)]).kind = "snapshot")
          BY <1>1, <2>2, <4>2, <5>2, AwaitKept
        <5> QED
          BY <5>1, <5>2
      <4>3. CASE NextNotification(v)
        BY <1>1, <2>1, <4>3, NotificationHolds
      <4>4. CASE EndOfStream(v) \/ Call(v) \/ AwaitAnswer(v) \/ Free(v) \/ Quit(v)
        BY <1>1, <2>2, <4>4, OwnViewerKept
      <4> QED
        BY <2>10, <3>2, <4>1, <4>2, <4>3, <4>4 DEF Reads
    <3> QED
      BY <3>1, <3>2
  <2> QED
    BY <2>3, <2>4, <2>5, <2>6, <2>7, <2>8, <2>9, <2>10 DEF Next
<1> QED
  BY <1>1, <1>2 DEF FanoutInv

(* FanoutInv is an invariant. *)
LEMMA InvHolds == Spec => []FanoutInv
  BY InvInit, InvNext, PTL DEF Spec

(* A viewer's own grid is what the deltas on their way are applied to.     *)
LEMMA WatchedFollows ==
    ASSUME FanoutInv, NEW v \in Viewers, Watching(v)
    PROVE  /\ GoesForward(Flight(v), grid[v], screen)
           /\ Stream(v) \in listed =>
                \A r \in Rows \ (pending \cup gap[v]) : Shows(Flight(v), grid[v], r, screen[r])
           /\ Stream(v) \in subs => Consecutive(Flight(v), seq)
<1>1. grid[v] \in [Rows -> Counts]
  BY DEF FanoutInv, TypeOK
<1>2. AppliesTo(v, grid[v])
  BY DEF Watching, AppliesTo
<1> QED
  BY <1>1, <1>2 DEF FanoutInv, ViewInv

-----------------------------------------------------------------------------
(* The results.                                                            *)

(* Types: every variable keeps to its set, no outbox and no socket holds   *)
(* more than its capacity, and only a connection that deliver has not      *)
(* dropped is subscribed.                                                  *)
THEOREM TypeCorrect == Spec => []TypeOK
<1>1. FanoutInv => TypeOK
  BY DEF FanoutInv
<1> QED
  BY <1>1, InvHolds, PTL

(* A viewer whose stream is listed is not left behind: with everything on  *)
(* its way applied, every row is as the session has it, except rows still  *)
(* to be flushed and rows published between its snapshot and its           *)
(* subscription.                                                           *)
THEOREM GridFollowsHolds == Spec => []GridFollows
<1>1. FanoutInv => GridFollows
  BY WatchedFollows DEF GridFollows
<1> QED
  BY <1>1, InvHolds, PTL

(* The deltas on their way to a subscribed viewer are consecutive and end  *)
(* with the last one published: an outbox that fills up costs the stream   *)
(* its listing, never a delta in the middle.                               *)
THEOREM NoHoleHolds == Spec => []NoHole
<1>1. FanoutInv => NoHole
  BY WatchedFollows DEF NoHole
<1> QED
  BY <1>1, InvHolds, PTL

(* Every viewer that is listed follows the session, with no hole in what   *)
(* it is sent, through queues no longer than the code lets them be.        *)
THEOREM ViewersFollowHolds == Spec => []ViewersFollow
  BY TypeCorrect, GridFollowsHolds, NoHoleHolds, PTL DEF ViewersFollow

(* A viewer never goes back to an older state of a row, in particular not  *)
(* when deltas overtook the answer to its attach and wait in the queue.    *)
THEOREM NeverBackwardsHolds == Spec => NeverBackwards
<1> DEFINE Forward == \A v \in Viewers : Watching(v) => \A r \in Rows : grid'[v][r] >= grid[v][r]
<1>1. FanoutInv /\ [Next]_vars => [Forward]_vars
  <2> SUFFICES ASSUME FanoutInv, Next, NEW v \in Viewers, Watching(v)
               PROVE  \A r \in Rows : grid'[v][r] >= grid[v][r]
    OBVIOUS
  <2>0. /\ grid \in [Viewers -> [Rows -> Counts]] /\ TypeOK
        /\ \A r \in Rows : grid[v][r] \in Int
    BY DEF FanoutInv, TypeOK, Counts
  <2>1. CASE NextNotification(v)
    <3>1. /\ Flight(v) # <<>> /\ grid'[v] = Apply(grid[v], Head(Flight(v)))
          /\ Flight(v) \in Seq(Messages) /\ GoesForward(Flight(v), grid[v], screen)
      BY <2>0, <2>1, Taken, QueuesAre, WatchedFollows
    <3>2. grid'[v] \in [Rows -> Counts]
      BY <2>0, <3>1, ApplyType, HeadTailProperties
    <3>3. \A r \in Rows : grid[v][r] <= grid'[v][r]
      BY <2>0, <3>1, FirstApplied
    <3> QED
      BY <2>0, <3>2, <3>3 DEF Counts
  <2>2. CASE ~NextNotification(v)
    <3>1. grid'[v] = grid[v]
      <4> USE <2>0 DEF sessionVars, serverVars, wireVars, viewerVars
      <4>1. ASSUME NEW R \in SUBSET Rows, Output(R) PROVE grid' = grid
        BY <4>1 DEF Output
      <4>2. CASE Redraw \/ Flush \/ Announce \/ End \/ Unregister \/ Stop
        BY <4>2 DEF Redraw, Flush, PublishDamage, Announce, End, Unregister, Stop
      <4>3. ASSUME NEW c \in Conns, Serve(c) \/ Write(c) \/ WriterEnds(c) PROVE grid' = grid
        BY <4>3 DEF Serve, Accept, Snapshot, Subscribe, Detach, Handle, Respond, Send, Disconnect,
                    Write, WriterEnds
      <4>4. ASSUME NEW w \in Viewers, w # v \/ ~(AwaitSnapshot(w) \/ NextNotification(w)),
                   Attach(w) \/ Reads(w) \/ Call(w) \/ AwaitAnswer(w) \/ Free(w) \/ Quit(w)
            PROVE  grid'[v] = grid[v]
        BY <4>4 DEF Attach, Reads, AwaitSnapshot, NextNotification, Notified, EndOfStream, Call,
                    AwaitAnswer, Free, Quit
      <4>5. ~AwaitSnapshot(v)
        BY DEF AwaitSnapshot, Watching
      <4> QED
        BY <2>2, <4>1, <4>2, <4>3, <4>4, <4>5 DEF Next
    <3> QED
      BY <2>0, <3>1
  <2> QED
    BY <2>1, <2>2
<1> QED
  BY <1>1, InvHolds, PTL DEF Spec, NeverBackwards
=============================================================================
