-------------------------- MODULE HeldSession_proofs --------------------------
(***************************************************************************)
(* Proofs about HeldSession, for any number of starts of the daemon, any   *)
(* amount of output and any size of the ring.                              *)
(***************************************************************************)
EXTENDS HeldSession, SequenceTheorems, WellFoundedInduction, TLAPS

Unspawned == {"none", "starting", "spawn"}
Gone      == {"gone", "killed"}

(* The frames the daemon of this start has not read yet.                   *)
Pipe == chan[start]

(* The holder has sent this daemon the descriptor.                         *)
Attached == Up /\ (thread # "none" \/ Pipe # <<>>)

(* The holder has said all there is to say.                                *)
Ends(q) == q # <<>> /\ q[Len(q)][1] = "exit"

(* The ring when r chunks have been read.                                  *)
RingAt(r) ==
    LET n == IF r > RingChunks THEN RingChunks ELSE r IN [i \in 1..n |-> r - n + i]

(* The number of the last chunk on the screen.                             *)
ScreenEnd == IF screen = <<>> THEN 0 ELSE screen[Len(screen)]

(* The child and the holder: what is reaped has exited, what is drained    *)
(* was closed and read to its end, and a holder leaves after both.         *)
HolderInv ==
    /\ child = "unborn" => ~ttyOpen
    /\ reaped => Exited
    /\ drained => ~ttyOpen /\ read = written
    /\ hold \in Unspawned =>
         /\ child = "unborn" /\ ~drained /\ client = Unset /\ exitFile = Unset /\ thread = "none"
         /\ \A d \in Starts : chan[d] = <<>>
    /\ hold \in {"finish", "leaving"} => Exited /\ drained
    /\ hold = "gone" /\ child # "unborn" => Exited /\ drained
    /\ hold \notin Unspawned \cup Gone => child # "unborn"
    /\ exitFile # Unset => Exited /\ exitFile = ExitCode

(* What poll said is still so when it is acted upon.                       *)
PollInv ==
    /\ hold = "serve" /\ "master" \in ready => read < written \/ ~ttyOpen
    /\ hold = "serve" /\ "listener" \in ready => Queued # {}
    /\ hold \in {"serve", "probe"} /\ "client" \in ready /\ client # Unset => ~Alive(client)

(* Connections: of starts to come there is none, the client's is open, and *)
(* this daemon's is the client's from the descriptor to the holder's end.  *)
ConnInv ==
    /\ \A d \in Starts : d > start => conn[d] = "none" /\ chan[d] = <<>>
    /\ client # Unset => client <= start
    /\ client # Unset /\ hold \notin Gone => conn[client] = "open"
    /\ Attached => child # "unborn" /\ conn[start] \in {"open", "closed"}
    /\ Attached /\ hold \notin Gone => client = start
    /\ Up /\ conn[start] = "open" => Attached
    /\ Up /\ conn[start] = "closed" => hold \in Gone
    /\ hold \in Gone => \A d \in Starts : conn[d] \in {"none", "closed"}

(* The daemon: one connection per start, and a thread after the handshake. *)
DaemonInv ==
    /\ dpc \in {"down", "boot", "launch", "connect", "handshake", "unreachable"} => thread = "none"
    /\ dpc \in {"boot", "launch", "connect"} => conn[start] = "none"
    /\ dpc = "down" => start < MaxStarts
    /\ dpc = "launch" => hold = "none" /\ row.present
    /\ ~row.present => hold = "none" /\ conn[start] = "none" /\ dpc \in {"idle", "boot", "down"}
    /\ conn[start] = "none" => Pipe = <<>> /\ thread = "none"
    /\ thread = "none" => screen = <<>> /\ exitSeen = Unset /\ ~eof
    /\ thread \in {"stored", "done"} => eof

(* Behind its first p frames q tells what follows chunk k, up to the last  *)
(* of the r chunks read, and then perhaps the exit.                        *)
Story(q, p, k, r, code) ==
    /\ k \in 0..r
    /\ \A i \in p + 1..Len(q) :
         \/ q[i] = <<"output", k + i - p>>
         \/ i = Len(q) /\ q[i] = <<"exit", code>>
    /\ ~Ends(q) => k + Len(q) - p = r
    /\ Ends(q) => k + Len(q) - p = r + 1

Tells(p, k) == Story(Pipe, p, k, read, ExitCode)

(* The descriptor, the ring and what follows it; the ring and what follows *)
(* it; or what follows the screen.                                         *)
Fresh(k)     == /\ thread = "none" /\ Len(Pipe) >= 2
                /\ Pipe[1][1] = "fd" /\ Pipe[2] = <<"replay", RingAt(k)>> /\ Tells(2, k)
Replaying(k) == /\ thread # "none" /\ ~eof /\ screen = <<>> /\ Len(Pipe) >= 1
                /\ Pipe[1] = <<"replay", RingAt(k)>> /\ Tells(1, k)
Following    == thread # "none" /\ Tells(0, ScreenEnd)

StreamInv == Attached => (\E k \in 0..read : Fresh(k) \/ Replaying(k)) \/ Following

(* The exit comes last, once there is nothing left to read, and ends it.   *)
ExitInv ==
    /\ Attached /\ Ends(Pipe) => Exited /\ drained /\ hold \in {"leaving", "gone", "killed"}
    /\ Attached /\ hold \in {"leaving", "gone"} => Ends(Pipe) \/ eof
    /\ eof => Pipe = <<>> /\ hold \in {"leaving", "gone", "killed"}
    /\ eof /\ hold # "killed" => Exited /\ drained /\ exitSeen = ExitCode

SessionInv ==
    /\ TypeOK /\ HolderInv /\ PollInv /\ ConnInv /\ DaemonInv /\ StreamInv /\ ExitInv
    /\ ScreenIsOutput /\ EndedIsTrue

-----------------------------------------------------------------------------
(* Frames and the ring.                                                    *)

(* A set of numbers that is not empty has a least one.                     *)
LEMMA LeastOf ==
    ASSUME NEW S \in SUBSET Nat, S # {}
    PROVE  \E n \in S : \A m \in S : n <= m
<1>1. PICK n \in S : \A m \in S : ~(<<m, n>> \in OpToRel(<, Nat))
  BY NatLessThanWellFounded, WFMin
<1>2. \A m \in S : ~(m < n)
  BY <1>1 DEF OpToRel
<1> QED
  BY <1>2

(* The ring holds the last chunks read, and ends with the last.            *)
LEMMA RingIsTail ==
    ASSUME NEW k \in Nat
    PROVE  /\ RingAt(k) \in Seq(1..k)
           /\ Len(RingAt(k)) \in 0..RingChunks
           /\ RingAt(k) = <<>> <=> k = 0
           /\ k # 0 => RingAt(k)[Len(RingAt(k))] = k
           /\ \A i \in 1..Len(RingAt(k)) : RingAt(k)[i] = RingAt(k)[1] + i - 1
           /\ k # 0 => RingAt(k)[1] = 1 \/ RingAt(k)[1] = k - RingChunks + 1
<1> DEFINE n == IF k > RingChunks THEN RingChunks ELSE k
<1>1. n \in Nat /\ n <= RingChunks /\ n <= k /\ (n = 0 <=> k = 0)
  BY HeldSessionAssumption
<1>2. RingAt(k) = [i \in 1..n |-> k - n + i]
  BY DEF RingAt
<1> HIDE DEF n
<1>3. RingAt(k) \in [1..n -> 1..k]
  BY <1>1, <1>2
<1>4. RingAt(k) \in Seq(1..k) /\ Len(RingAt(k)) = n
  BY <1>1, <1>3
<1>5. n = k \/ n = RingChunks
  BY DEF n
<1> QED
  BY <1>1, <1>2, <1>4, <1>5, HeldSessionAssumption

(* What the holder sends is a frame, and what a frame carries.             *)
LEMMA FramesSent ==
    /\ \A c \in Codes \cup {NoCode} : <<"fd", c>> \in Frames /\ <<"exit", c>> \in Frames
    /\ \A n \in 1..MaxOutput : <<"output", n>> \in Frames
    /\ \A k \in 0..MaxOutput : <<"replay", RingAt(k)>> \in Frames
    /\ \A f \in Frames : f[1] = "fd" => f[2] \in Codes \cup {NoCode}
<1>1. ASSUME NEW k \in 0..MaxOutput PROVE <<"replay", RingAt(k)>> \in Frames
  <2> DEFINE n == Len(RingAt(k))
  <2>1. k \in Nat /\ k <= MaxOutput
    BY HeldSessionAssumption
  <2>2. n \in 0..RingChunks /\ RingAt(k) \in Seq(1..k)
    BY <2>1, RingIsTail
  <2>3. RingAt(k) \in [1..n -> 1..MaxOutput]
    BY <2>1, <2>2, HeldSessionAssumption
  <2> HIDE DEF n
  <2>4. RingAt(k) \in UNION {[1..m -> 1..MaxOutput] : m \in 0..RingChunks}
    BY <2>2, <2>3
  <2> QED
    BY <2>4 DEF Frames
<1>2. \A f \in Frames : f[1] = "fd" => f[2] \in Codes \cup {NoCode}
  BY DEF Frames
<1> QED
  BY <1>1, <1>2 DEF Frames

-----------------------------------------------------------------------------
(* The story a pipe tells, as frames are added at its end and taken from   *)
(* its front.                                                              *)
LEMMA EndsAfter ==
    ASSUME NEW S, NEW q \in Seq(S)
    PROVE  /\ \A f \in S : Ends(Append(q, f)) <=> f[1] = "exit"
           /\ Len(q) >= 2 => (Ends(Tail(q)) <=> Ends(q))
           /\ Len(q) = 1 => ~Ends(Tail(q))
<1>1. ASSUME NEW f \in S PROVE Ends(Append(q, f)) <=> f[1] = "exit"
  BY DEF Ends
<1>2. ASSUME Len(q) >= 2 PROVE Ends(Tail(q)) <=> Ends(q)
  <2>1. q # <<>> /\ Len(Tail(q)) = Len(q) - 1
    BY <1>2, HeadTailProperties
  <2>3. Tail(q) # <<>> /\ Len(q) - 1 \in 1..Len(Tail(q))
    <3> DEFINE t == Tail(q)
    <3>1. q # <<>> /\ Len(t) = Len(q) - 1
      BY <2>1
    <3> HIDE DEF t
    <3>2. t # <<>> /\ Len(q) - 1 \in 1..Len(t)
      BY <1>2, <3>1
    <3> QED
      BY <3>2 DEF t
  <2>2. Tail(q)[Len(q) - 1] = q[Len(q)]
    BY <1>2, <2>1, <2>3, HeadTailProperties
  <2> QED
    BY <2>1, <2>2, <2>3 DEF Ends
<1>3. ASSUME Len(q) = 1 PROVE ~Ends(Tail(q))
  <2>1. Tail(q) = <<>>
    <3>1. Tail(q) \in Seq(S) /\ Len(Tail(q)) = 0
      BY <1>3, EmptySeq, HeadTailProperties
    <3> QED
      BY <3>1, EmptySeq
  <2> QED
    BY <2>1 DEF Ends
<1> QED
  BY <1>1, <1>2, <1>3

(* A frame more at the end, or one less at the front: the story goes on.   *)
LEMMA StoryAfter ==
    ASSUME NEW S, NEW q \in Seq(S), NEW p \in Nat, NEW k \in Nat, NEW r \in Nat, NEW code,
           p <= Len(q), Story(q, p, k, r, code)
    PROVE  /\ ~Ends(q) => \A c : Story(q, p, k, r, c)
           /\ ~Ends(q) /\ <<"output", r + 1>> \in S =>
                Story(Append(q, <<"output", r + 1>>), p, k, r + 1, code)
           /\ ~Ends(q) /\ <<"exit", code>> \in S =>
                Story(Append(q, <<"exit", code>>), p, k, r, code)
           /\ p >= 1 /\ (Len(q) >= 2 \/ ~Ends(q)) => Story(Tail(q), p - 1, k, r, code)
           /\ p = 0 /\ Len(q) >= 1 /\ q[1] = <<"output", k + 1>> =>
                Story(Tail(q), 0, k + 1, r, code)
           /\ p = 0 /\ Len(q) = 1 /\ q[1] = <<"exit", code>> => Story(Tail(q), 0, k, r, code)
<1>1. /\ k <= r /\ Len(q) \in Nat
      /\ \A i \in p + 1..Len(q) :
           \/ q[i] = <<"output", k + i - p>>
           \/ i = Len(q) /\ q[i] = <<"exit", code>>
      /\ ~Ends(q) => k + Len(q) - p = r
      /\ Ends(q) => k + Len(q) - p = r + 1
  <2>1. k \in 0..r
    BY DEF Story
  <2>2. k <= r /\ Len(q) \in Nat
    BY <2>1
  <2>3. \A i \in p + 1..Len(q) :
           \/ q[i] = <<"output", k + i - p>>
           \/ i = Len(q) /\ q[i] = <<"exit", code>>
    BY DEF Story
  <2>4. (~Ends(q) => k + Len(q) - p = r) /\ (Ends(q) => k + Len(q) - p = r + 1)
    BY DEF Story
  <2> QED
    BY <2>2, <2>3, <2>4
<1>2. ~Ends(q) => \A i \in p + 1..Len(q) : q[i] = <<"output", k + i - p>>
  <2>1. q[Len(q)] = <<"exit", code>> /\ q # <<>> => Ends(q)
    BY DEF Ends
  <2> QED
    BY <1>1, <2>1
<1>3. k \in 0..r /\ Len(q) \in Nat /\ (~Ends(q) => k + Len(q) - p = r)
  BY <1>1
<1>4. ASSUME ~Ends(q), NEW c PROVE Story(q, p, k, r, c)
  BY <1>1, <1>2, <1>3, <1>4 DEF Story
<1>5. ASSUME ~Ends(q), <<"output", r + 1>> \in S
      PROVE  Story(Append(q, <<"output", r + 1>>), p, k, r + 1, code)
  <2> DEFINE a == Append(q, <<"output", r + 1>>)
  <2>1. Len(a) = Len(q) + 1 /\ a[Len(q) + 1] = <<"output", r + 1>>
        /\ \A i \in 1..Len(q) : a[i] = q[i]
    BY <1>5, AppendProperties
  <2>2. ~Ends(a)
    BY <1>5, EndsAfter
  <2> HIDE DEF a
  <2>3. ASSUME NEW i \in p + 1..Len(a) PROVE a[i] = <<"output", k + i - p>>
    <3>1. CASE i = Len(q) + 1
      <4>1. k + i - p = r + 1
        BY <1>3, <1>5, <3>1
      <4> QED
        BY <2>1, <3>1, <4>1
    <3>2. CASE i # Len(q) + 1
      <4>1. i \in p + 1..Len(q) /\ i \in 1..Len(q)
        BY <1>3, <2>1, <3>2
      <4> QED
        BY <1>2, <1>5, <2>1, <4>1
    <3> QED
      BY <3>1, <3>2
  <2> QED
    <3>3. \A n \in Nat : k + n - p = r => k + (n + 1) - p = r + 1
      OBVIOUS
    <3>1. k \in 0..r + 1
      BY <1>3
    <3>4. Len(q) \in Nat /\ k + Len(q) - p = r /\ Len(a) = Len(q) + 1
      BY <1>3, <1>5, <2>1
    <3>5. k + Len(a) - p = r + 1
      BY <3>3, <3>4
    <3>2. Story(a, p, k, r + 1, code)
      BY <2>2, <2>3, <3>1, <3>5 DEF Story
    <3> QED
      BY <3>2 DEF a
<1>6. ASSUME ~Ends(q), <<"exit", code>> \in S
      PROVE  Story(Append(q, <<"exit", code>>), p, k, r, code)
  <2> DEFINE a == Append(q, <<"exit", code>>)
  <2>1. Len(a) = Len(q) + 1 /\ a[Len(q) + 1] = <<"exit", code>>
        /\ \A i \in 1..Len(q) : a[i] = q[i]
    BY <1>6, AppendProperties
  <2>2. Ends(a)
    BY <1>6, EndsAfter
  <2> HIDE DEF a
  <2>3. ASSUME NEW i \in p + 1..Len(a)
        PROVE  \/ a[i] = <<"output", k + i - p>>
               \/ i = Len(a) /\ a[i] = <<"exit", code>>
    <3>1. CASE i = Len(q) + 1
      BY <2>1, <3>1
    <3>2. CASE i # Len(q) + 1
      <4>1. i \in p + 1..Len(q) /\ i \in 1..Len(q)
        BY <1>1, <2>1, <3>2
      <4> QED
        BY <1>2, <1>6, <2>1, <4>1
    <3> QED
      BY <3>1, <3>2
  <2> QED
    <3>1. k \in 0..r /\ k + Len(a) - p = r + 1
      BY <1>3, <1>6, <2>1
    <3>2. Story(a, p, k, r, code)
      BY <2>2, <2>3, <3>1 DEF Story
    <3> QED
      BY <3>2 DEF a
<1> DEFINE t == Tail(q)
<1>7. ASSUME Len(q) >= 1
      PROVE  Len(t) = Len(q) - 1 /\ \A i \in 1..Len(q) - 1 : t[i] = q[i + 1]
  BY <1>7, HeadTailProperties
<1>8. /\ Len(q) >= 2 => (Ends(t) <=> Ends(q))
      /\ Len(q) = 1 => ~Ends(t)
  BY EndsAfter
<1> HIDE DEF t
<1>9. ASSUME p >= 1, Len(q) >= 2 \/ ~Ends(q) PROVE Story(t, p - 1, k, r, code)
  <2>1. Len(q) >= 1 /\ (Len(q) = 1 \/ Len(q) >= 2)
    <3>1. Len(q) \in Nat /\ Len(q) >= 1
      BY <1>3, <1>9
    <3>2. \A n \in Nat : n >= 1 => n = 1 \/ n >= 2
      OBVIOUS
    <3> QED
      BY <3>1, <3>2
  <2>4. Ends(t) <=> Ends(q)
    BY <1>9, <1>8, <2>1
  <2>2. ASSUME NEW i \in (p - 1) + 1..Len(t)
        PROVE  \/ t[i] = <<"output", k + i - (p - 1)>>
               \/ i = Len(t) /\ t[i] = <<"exit", code>>
    <3>1. i + 1 \in p + 1..Len(q) /\ i \in 1..Len(q) - 1
      BY <1>3, <1>7, <1>9, <2>1
    <3>3. t[i] = q[i + 1] /\ k + i - (p - 1) = k + (i + 1) - p
      BY <1>7, <2>1, <3>1
    <3>2. i + 1 = Len(q) => i = Len(t)
      BY <1>3, <1>7, <2>1
    <3> QED
      BY <1>1, <3>1, <3>2, <3>3
  <2>3. /\ ~Ends(t) => k + Len(t) - (p - 1) = r
        /\ Ends(t) => k + Len(t) - (p - 1) = r + 1
    <3>1. Len(t) = Len(q) - 1
      BY <1>7, <2>1
    <3>2. CASE Ends(q)
      BY <1>1, <1>3, <2>4, <3>1, <3>2
    <3>3. CASE ~Ends(q)
      BY <1>3, <2>4, <3>1, <3>3
    <3> QED
      BY <3>2, <3>3
  <2> QED
    BY <1>3, <2>2, <2>3 DEF Story
<1>10. ASSUME p = 0, Len(q) >= 1, q[1] = <<"output", k + 1>> PROVE Story(t, 0, k + 1, r, code)
  <2>1. Ends(t) <=> Ends(q)
    <3>1. CASE Len(q) = 1
      BY <1>10, <3>1, <1>8 DEF Ends
    <3>2. CASE Len(q) >= 2
      BY <3>2, <1>8
    <3>3. \A n \in Nat : n >= 1 => n = 1 \/ n >= 2
      OBVIOUS
    <3> QED
      BY <1>3, <1>10, <3>1, <3>2, <3>3
  <2>2. ASSUME NEW i \in 0 + 1..Len(t)
        PROVE  \/ t[i] = <<"output", (k + 1) + i - 0>>
               \/ i = Len(t) /\ t[i] = <<"exit", code>>
    <3>1. i + 1 \in p + 1..Len(q) /\ i \in 1..Len(q) - 1
      BY <1>3, <1>7, <1>10
    <3>2. t[i] = q[i + 1] /\ (k + 1) + i - 0 = k + (i + 1) - p
      BY <1>7, <1>10, <3>1
    <3>3. i + 1 = Len(q) => i = Len(t)
      BY <1>3, <1>7, <1>10
    <3> QED
      BY <1>1, <3>1, <3>2, <3>3
  <2>3. /\ ~Ends(t) => (k + 1) + Len(t) - 0 = r
        /\ Ends(t) => (k + 1) + Len(t) - 0 = r + 1
    <3>1. \A m \in Nat, n \in Nat : k + n - 0 = m => (k + 1) + (n - 1) - 0 = m
      OBVIOUS
    <3>2. Len(t) = Len(q) - 1 /\ Len(q) \in Nat /\ r + 1 \in Nat
      BY <1>3, <1>7, <1>10
    <3>3. (~Ends(q) => k + Len(q) - 0 = r) /\ (Ends(q) => k + Len(q) - 0 = r + 1)
      BY <1>1, <1>10
    <3> QED
      BY <2>1, <3>1, <3>2, <3>3
  <2>4. k + 1 <= r
    <3>1. Ends(q) => Len(q) # 1
      BY <1>10 DEF Ends
    <3>2. \A n \in Nat \ {0} : k + n - 0 = r \/ (n # 1 /\ k + n - 0 = r + 1) => k + 1 <= r
      OBVIOUS
    <3>3. (~Ends(q) => k + Len(q) - 0 = r) /\ (Ends(q) => k + Len(q) - 0 = r + 1)
      BY <1>1, <1>10
    <3>4. Len(q) \in Nat \ {0}
      BY <1>3, <1>10
    <3> QED
      BY <3>1, <3>2, <3>3, <3>4
  <2>5. k + 1 \in 0..r
    BY <2>4
  <2> QED
    BY <2>2, <2>3, <2>5 DEF Story
<1>11. ASSUME p = 0, Len(q) = 1, q[1] = <<"exit", code>> PROVE Story(t, 0, k, r, code)
  <2>1. Ends(q) /\ ~Ends(t) /\ Len(t) = 0
    BY <1>11, <1>7, <1>8 DEF Ends
  <2>2. k \in 0..r /\ k + Len(t) - 0 = r
    BY <1>1, <1>11, <1>7, <2>1
  <2>3. 0 + 1..Len(t) = {}
    BY <2>1
  <2> QED
    BY <2>1, <2>2, <2>3 DEF Story
<1> QED
  BY <1>4, <1>5, <1>6, <1>9, <1>10, <1>11 DEF t

-----------------------------------------------------------------------------
(* What the steps with several outcomes come to.                           *)

(* The daemon that is accepted waits; if it lives it is sent the           *)
(* descriptor and the ring, and nothing else.                              *)
Accepts(d) ==
    /\ hold = "serve" /\ hold' = "top"
    /\ conn[d] = "queued"
    /\ \/ /\ Alive(d) /\ client' = d /\ ~Attached
          /\ conn' = [e \in Starts |-> IF e = d THEN "open" ELSE
                                       IF e = client THEN "closed" ELSE conn[e]]
          /\ \E c \in Codes \cup {NoCode} :
                chan' = [chan EXCEPT ![d] = << <<"fd", c>>, <<"replay", RingAt(read)>> >>]
       \/ /\ ~Alive(d) /\ conn' = [conn EXCEPT ![d] = "closed"]
          /\ UNCHANGED <<client, chan>>
    /\ UNCHANGED <<childVars, reaped, drained, read, ready, exitFile, threadVars,
                   daemonVars, row>>

(* Accept accepts a daemon that waits.                                     *)
LEMMA AcceptOutcome ==
    ASSUME SessionInv, Accept
    PROVE  \E d \in Starts : Accepts(d)
<1> DEFINE least == CHOOSE q \in Queued : \A p \in Queued : q <= p
<1>1. least \in Queued
  <2>1. Queued \in SUBSET Nat /\ Queued # {}
    BY HeldSessionAssumption DEF SessionInv, PollInv, Accept, Queued, Starts
  <2> QED
    BY <2>1, LeastOf
<1>2. least \in Starts /\ conn[least] = "queued"
  BY <1>1 DEF Queued
<1> HIDE DEF least
<1>3. ExitCode \in Codes \cup {NoCode}
  BY DEF ExitCode
<1>4. Ring = RingAt(read)
  BY DEF Ring, RingAt
<1>5. CASE Alive(least)
  <2>1. ~Attached /\ least = start /\ chan[least] = <<>>
    BY <1>2, <1>5 DEF SessionInv, ConnInv, Alive, Attached, Pipe
  <2>2. chan[least] \o << <<"fd", IF reaped THEN ExitCode ELSE NoCode>>, Replay(least) >>
        = << <<"fd", IF reaped THEN ExitCode ELSE NoCode>>, <<"replay", RingAt(read)>> >>
    BY <2>1, <1>4 DEF Replay
  <2>3. chan' = [chan EXCEPT ![least] =
          << <<"fd", IF reaped THEN ExitCode ELSE NoCode>>, <<"replay", RingAt(read)>> >>]
    BY <2>2, <1>5 DEF Accept, least
  <2>4. (IF reaped THEN ExitCode ELSE NoCode) \in Codes \cup {NoCode}
    BY <1>3
  <2>5. /\ client' = least
        /\ conn' = [e \in Starts |-> IF e = least THEN "open" ELSE
                                     IF e = client THEN "closed" ELSE conn[e]]
    BY <1>5 DEF Accept, least
  <2> QED
    BY <1>2, <1>5, <2>1, <2>3, <2>4, <2>5 DEF Accept, Accepts
<1>6. CASE ~Alive(least)
  BY <1>2, <1>6 DEF Accept, Accepts, least
<1> QED
  BY <1>5, <1>6

(* A chunk goes to the daemon that is attached, and to nobody else.        *)
Reads ==
    /\ hold = "serve" /\ hold' = "probe" /\ "master" \in ready
    /\ \/ /\ read < written /\ read' = read + 1 /\ drained' = drained
          /\ \/ /\ Attached /\ client = start
                /\ chan' = [chan EXCEPT ![start] = Append(chan[start], <<"output", read + 1>>)]
                /\ UNCHANGED <<client, conn>>
             \/ /\ ~Attached /\ UNCHANGED <<client, conn, chan>>
             \/ /\ ~Attached /\ client \in Starts /\ ~Alive(client) /\ client' = Unset
                /\ conn' = [conn EXCEPT ![client] = "closed"] /\ chan' = chan
       \/ /\ read = written /\ ~ttyOpen /\ drained' = TRUE
          /\ UNCHANGED <<read, client, conn, chan>>
    /\ UNCHANGED <<childVars, reaped, ready, exitFile, threadVars, daemonVars, row>>

(* ReadMaster reads a chunk or the end.                                    *)
LEMMA ReadOutcome ==
    ASSUME SessionInv, ReadMaster
    PROVE  Reads
<1>1. /\ client \in Starts \cup {Unset} /\ start \in Starts /\ Unset \notin Starts
      /\ read \in Nat /\ written \in Nat /\ read <= written
  BY HeldSessionAssumption DEF SessionInv, TypeOK, Starts
<1>2. CASE read < written /\ client = Unset
  BY <1>1, <1>2 DEF ReadMaster, Reads, SessionInv, ConnInv, Gone
<1>3. CASE read < written /\ client # Unset /\ Alive(client)
  BY <1>1, <1>3 DEF ReadMaster, Reads, SessionInv, ConnInv, Gone, Alive
<1>4. CASE read < written /\ client # Unset /\ ~Alive(client)
  BY <1>1, <1>4 DEF ReadMaster, Reads, SessionInv, ConnInv, Gone, Alive, Attached
<1>5. CASE ~(read < written)
  <2>1. ~ttyOpen
    BY <1>5 DEF ReadMaster, SessionInv, PollInv
  <2>2. read = written
    BY <1>1, <1>5
  <2>3. drained' = TRUE /\ UNCHANGED <<read, client, conn, chan>>
    BY <1>5 DEF ReadMaster
  <2> QED
    BY <2>1, <2>2, <2>3 DEF ReadMaster, Reads
<1> QED
  BY <1>2, <1>3, <1>4, <1>5

(* Probe forgets a daemon that is dead, never the one that is attached.    *)
Probes ==
    /\ hold = "probe" /\ hold' = "top"
    /\ \/ UNCHANGED <<client, conn>>
       \/ /\ ~Attached /\ client \in Starts /\ ~Alive(client) /\ client' = Unset
          /\ conn' = [conn EXCEPT ![client] = "closed"]
    /\ UNCHANGED <<childVars, reaped, drained, read, ready, exitFile, chan,
                   threadVars, daemonVars, row>>

(* Probe keeps the daemon that is attached.                                *)
LEMMA ProbeOutcome ==
    ASSUME SessionInv, Probe
    PROVE  Probes
<1>1. client \in Starts \cup {Unset}
  BY DEF SessionInv, TypeOK
<1>2. CASE "client" \in ready /\ client # Unset
  BY <1>1, <1>2 DEF Probe, Probes, SessionInv, PollInv, ConnInv, Gone, Alive, Attached
<1>3. CASE ~("client" \in ready /\ client # Unset)
  BY <1>3 DEF Probe, Probes
<1> QED
  BY <1>2, <1>3

(* The exit goes to the daemon that is attached.                           *)
Finishes ==
    /\ hold = "finish" /\ hold' = "leaving"
    /\ \/ /\ Attached /\ client = start /\ exitFile' = exitFile
          /\ chan' = [chan EXCEPT ![start] = Append(chan[start], <<"exit", ExitCode>>)]
       \/ /\ ~Attached /\ chan' = chan /\ exitFile' \in {exitFile, ExitCode}
    /\ UNCHANGED <<childVars, reaped, drained, read, ready, client, conn,
                   threadVars, daemonVars, row>>

(* Finish tells the daemon that is attached.                               *)
LEMMA FinishOutcome ==
    ASSUME SessionInv, Finish
    PROVE  Finishes
<1>1. client \in Starts \cup {Unset} /\ start \in Starts /\ Unset \notin Starts
  BY HeldSessionAssumption DEF SessionInv, TypeOK, Starts
<1>2. CASE client # Unset /\ Alive(client)
  BY <1>1, <1>2 DEF Finish, Finishes, SessionInv, ConnInv, Gone, Alive
<1>3. CASE ~(client # Unset /\ Alive(client))
  BY <1>1, <1>3 DEF Finish, Finishes, SessionInv, ConnInv, Gone, Alive, Attached
<1> QED
  BY <1>2, <1>3

(* The session thread takes the replay when it starts, then chunk by chunk *)
(* what follows its screen, then the exit.                                 *)
Takes ==
    /\ thread = "run" /\ ~eof /\ Pipe # <<>>
    /\ chan' = [chan EXCEPT ![start] = Tail(@)]
    /\ \/ \E k \in 0..read :
             /\ Replaying(k) /\ screen' = RingAt(k) /\ UNCHANGED <<exitSeen, eof>>
       \/ /\ Following /\ Pipe[1] = <<"output", ScreenEnd + 1>>
          /\ screen' = Append(screen, ScreenEnd + 1) /\ UNCHANGED <<exitSeen, eof>>
       \/ /\ Following /\ Len(Pipe) = 1 /\ Pipe[1] = <<"exit", ExitCode>>
          /\ exitSeen' = ExitCode /\ eof' = TRUE /\ screen' = screen
    /\ UNCHANGED <<childVars, holderVars, conn, thread, daemonVars, row>>

(* Frame takes what the story says comes next.                             *)
LEMMA FrameOutcome ==
    ASSUME SessionInv, Frame
    PROVE  Takes
<1>1. Attached /\ thread = "run" /\ Up /\ Pipe # <<>> /\ Pipe \in Seq(Frames) /\ Len(Pipe) \in Nat
  BY DEF SessionInv, TypeOK, DaemonInv, Frame, Attached, Pipe, Up
<1>2. (\E k \in 0..read : Replaying(k)) \/ Following
  BY <1>1 DEF SessionInv, StreamInv, Fresh
<1>3. screen \in Seq(1..MaxOutput)
  BY DEF SessionInv, TypeOK
<1>4. ASSUME NEW k \in 0..read, Replaying(k) PROVE screen \o RingAt(k) = RingAt(k)
  <2>1. k \in Nat /\ screen = <<>>
    BY <1>4, HeldSessionAssumption DEF SessionInv, TypeOK, Replaying
  <2> QED
    BY <2>1, RingIsTail, ConcatEmptySeq
<1>5. ASSUME NEW k \in 0..read, Replaying(k) PROVE Takes
  <2>1. Head(chan[start])[1] = "replay" /\ Head(chan[start])[2] = RingAt(k)
    BY <1>1, <1>5 DEF Replaying, Pipe
  <2>2. screen' = screen \o RingAt(k) /\ UNCHANGED <<exitSeen, eof>>
    BY <2>1 DEF Frame
  <2> QED
    BY <1>1, <1>4, <1>5, <2>2 DEF Frame, Takes, Pipe
<1>6. ASSUME Following PROVE Takes
  <2>1. 1 \in 1..Len(Pipe)
    BY <1>1
  <2>2. \/ Pipe[1] = <<"output", ScreenEnd + 1>>
        \/ 1 = Len(Pipe) /\ Pipe[1] = <<"exit", ExitCode>>
    <3>1. ScreenEnd \in Nat
      BY <1>6, HeldSessionAssumption DEF Following, Tells, Story, SessionInv, TypeOK
    <3> HIDE DEF ScreenEnd
    <3>2. 1 \in 0 + 1..Len(Pipe) /\ ScreenEnd + 1 - 0 = ScreenEnd + 1
      BY <2>1, <3>1
    <3>3. \/ Pipe[1] = <<"output", ScreenEnd + 1 - 0>>
          \/ 1 = Len(Pipe) /\ Pipe[1] = <<"exit", ExitCode>>
      BY <1>6, <3>2 DEF Following, Tells, Story
    <3> QED
      BY <3>2, <3>3
  <2>3. CASE Pipe[1] = <<"output", ScreenEnd + 1>>
    <3>1. Head(chan[start])[1] = "output" /\ Head(chan[start])[2] = ScreenEnd + 1
      BY <1>1, <2>3 DEF Pipe
    <3>2. screen' = Append(screen, ScreenEnd + 1) /\ UNCHANGED <<exitSeen, eof>>
      BY <3>1 DEF Frame
    <3> QED
      BY <1>1, <1>6, <2>3, <3>2 DEF Frame, Takes, Pipe
  <2>4. CASE Len(Pipe) = 1 /\ Pipe[1] = <<"exit", ExitCode>>
    <3>1. Head(chan[start])[1] = "exit" /\ Head(chan[start])[2] = ExitCode
      BY <1>1, <2>4 DEF Pipe
    <3>2. exitSeen' = ExitCode /\ eof' = TRUE /\ screen' = screen
      BY <3>1 DEF Frame
    <3> QED
      BY <1>1, <1>6, <2>4, <3>2 DEF Frame, Takes, Pipe
  <2> QED
    BY <2>2, <2>3, <2>4
<1> QED
  BY <1>2, <1>5, <1>6

-----------------------------------------------------------------------------
(* One lemma for each part of the invariant.                               *)

(* What the session thread takes in is what the child can have written.    *)
LEMMA TakenTypes == ASSUME SessionInv, Takes PROVE screen' \in Seq(1..MaxOutput)
<1>1. screen \in Seq(1..MaxOutput) /\ read \in Nat /\ read <= MaxOutput
  BY HeldSessionAssumption DEF SessionInv, TypeOK
<1>2. ASSUME NEW k \in 0..read, screen' = RingAt(k) PROVE screen' \in Seq(1..MaxOutput)
  <2>1. k \in Nat /\ k <= MaxOutput
    BY <1>1, HeldSessionAssumption
  <2>2. RingAt(k) \in Seq(1..k)
    BY <2>1, RingIsTail
  <2> QED
    BY <1>2, <2>1, <2>2, HeldSessionAssumption
<1>3. ASSUME Following, Len(Pipe) \in Nat, Pipe # <<>>, Pipe[1] = <<"output", ScreenEnd + 1>>,
             screen' = Append(screen, ScreenEnd + 1)
      PROVE  screen' \in Seq(1..MaxOutput)
  <2>1. <<"output", ScreenEnd + 1>> \in Frames
    <3>1. Pipe \in Seq(Frames) /\ 1 \in 1..Len(Pipe)
      BY <1>3 DEF SessionInv, TypeOK, Pipe
    <3> HIDE DEF Pipe
    <3>2. Pipe[1] \in Frames
      BY <3>1
    <3> QED
      BY <1>3, <3>2
  <2>2. ScreenEnd + 1 \in 1..MaxOutput
    <3>1. \A n : <<"output", n>> \in Frames => n \in 1..MaxOutput
      BY DEF Frames
    <3> QED
      BY <2>1, <3>1
  <2> QED
    BY <1>1, <1>3, <2>2
<1>4. Len(Pipe) \in Nat
  BY DEF SessionInv, TypeOK, Pipe
<1> QED
  BY <1>1, <1>2, <1>3, <1>4 DEF Takes

(* Every variable keeps its type.                                          *)
LEMMA TypeNext == ASSUME SessionInv, [Next]_vars PROVE TypeOK'
<1>1. CASE Write
  BY <1>1, HeldSessionAssumption DEF Write, Step, HangUp, TypeOK, SessionInv,
     childVars, holderVars, connVars, threadVars, daemonVars, vars
<1>2. ASSUME NEW status \in Codes \cup {"signalled"}, ChildExits(status) PROVE TypeOK'
  BY <1>2, HeldSessionAssumption DEF ChildExits, Step, HangUp, TypeOK, SessionInv,
     childVars, holderVars, connVars, threadVars, daemonVars, vars
<1>3. CASE TtyCloses
  <2>1. ttyOpen' \in BOOLEAN
    BY <1>3 DEF TtyCloses
  <2> QED
    BY <1>3, <2>1 DEF TtyCloses, Step, TypeOK, SessionInv, childVars, holderVars,
       connVars, threadVars, daemonVars, vars
<1>4. CASE Bind
  BY <1>4, HeldSessionAssumption DEF Bind, Step, HangUp, TypeOK, SessionInv,
     childVars, holderVars, connVars, threadVars, daemonVars, vars
<1>5. CASE SpawnChild
  BY <1>5, HeldSessionAssumption DEF SpawnChild, Step, HangUp, TypeOK, SessionInv,
     childVars, holderVars, connVars, threadVars, daemonVars, vars
<1>6. CASE SpawnFails
  BY <1>6, HeldSessionAssumption DEF SpawnFails, Step, HangUp, TypeOK, SessionInv,
     childVars, holderVars, connVars, threadVars, daemonVars, vars
<1>7. CASE Top
  <2>1. reaped' \in BOOLEAN /\ hold' \in {"finish", "poll"}
    BY <1>7 DEF Top, Exited
  <2> QED
    BY <1>7, <2>1 DEF Top, TypeOK, SessionInv, childVars, holderVars, connVars,
       threadVars, daemonVars, vars
<1>8. CASE Finish
  <2>1. ExitCode \in Codes \cup {NoCode}
    BY DEF ExitCode
  <2>2. chan' \in [Starts -> Seq(Frames)]
    <3>1. start \in Starts /\ chan[start] \in Seq(Frames) /\ <<"exit", ExitCode>> \in Frames
      BY <2>1, FramesSent DEF SessionInv, TypeOK
    <3>2. Append(chan[start], <<"exit", ExitCode>>) \in Seq(Frames)
      BY <3>1, AppendProperties
    <3> QED
      BY <1>8, <3>1, <3>2, FinishOutcome DEF Finishes, SessionInv, TypeOK
  <2>3. exitFile' \in Status
    BY <1>8, <2>1, FinishOutcome DEF Finishes, SessionInv, TypeOK, Status
  <2> QED
    BY <1>8, <2>2, <2>3 DEF Finish, TypeOK, SessionInv, childVars, holderVars,
       connVars, threadVars, daemonVars, vars
<1>9. CASE Leave
  BY <1>9, HeldSessionAssumption DEF Leave, Step, HangUp, TypeOK, SessionInv,
     childVars, holderVars, connVars, threadVars, daemonVars, vars
<1>10. CASE Poll
  BY <1>10, HeldSessionAssumption DEF Poll, Step, HangUp, TypeOK, SessionInv,
     childVars, holderVars, connVars, threadVars, daemonVars, vars
<1>11. CASE Accept
  <2>1. PICK d \in Starts : Accepts(d)
    BY <1>11, AcceptOutcome
  <2>2. conn' \in [Starts -> {"none", "queued", "open", "closed"}]
        /\ client' \in Starts \cup {Unset}
    BY <2>1 DEF Accepts, SessionInv, TypeOK
  <2>3. read \in 0..MaxOutput
    BY HeldSessionAssumption DEF SessionInv, TypeOK
  <2>4. ASSUME NEW c \in Codes \cup {NoCode}
        PROVE  << <<"fd", c>>, <<"replay", RingAt(read)>> >> \in Seq(Frames)
    <3>1. \A f, g \in Frames : <<f, g>> \in Seq(Frames)
      OBVIOUS
    <3>2. <<"fd", c>> \in Frames /\ <<"replay", RingAt(read)>> \in Frames
      BY <2>3, FramesSent
    <3> QED
      BY <3>1, <3>2
  <2>5. chan' \in [Starts -> Seq(Frames)]
    <3>1. PICK s \in Seq(Frames) : chan' \in {chan, [chan EXCEPT ![d] = s]}
      BY <2>1, <2>4, EmptySeq DEF Accepts
    <3> QED
      BY <3>1 DEF SessionInv, TypeOK
  <2> QED
    BY <2>1, <2>2, <2>5 DEF Accepts, TypeOK, SessionInv, childVars, holderVars,
       connVars, threadVars, daemonVars, vars
<1>12. CASE ReadMaster
  <2>1. Reads
    BY <1>12, ReadOutcome
  <2>2. conn' \in [Starts -> {"none", "queued", "open", "closed"}]
        /\ client' \in Starts \cup {Unset}
    BY <2>1 DEF Reads, SessionInv, TypeOK
  <2>3. read' \in 0..written /\ drained' \in BOOLEAN
    <3>1. read \in 0..written /\ written \in Nat /\ drained \in BOOLEAN
      BY HeldSessionAssumption DEF SessionInv, TypeOK
    <3>2. drained' \in BOOLEAN
      BY <2>1, <3>1 DEF Reads
    <3>3. read' \in 0..written
      BY <2>1, <3>1 DEF Reads
    <3> QED
      BY <3>2, <3>3
  <2>4. chan' \in [Starts -> Seq(Frames)]
    <3>1. read < written => <<"output", read + 1>> \in Frames
      BY FramesSent, HeldSessionAssumption DEF SessionInv, TypeOK
    <3>2. start \in Starts /\ chan[start] \in Seq(Frames)
      BY DEF SessionInv, TypeOK
    <3>3. read < written => Append(chan[start], <<"output", read + 1>>) \in Seq(Frames)
      BY <3>1, <3>2, AppendProperties
    <3> QED
      BY <2>1, <3>2, <3>3 DEF Reads, SessionInv, TypeOK
  <2> QED
    BY <2>1, <2>2, <2>3, <2>4 DEF Reads, TypeOK, SessionInv, childVars, holderVars,
       connVars, threadVars, daemonVars, vars
<1>13. CASE NoMaster
  BY <1>13, HeldSessionAssumption DEF NoMaster, Step, HangUp, TypeOK, SessionInv,
     childVars, holderVars, connVars, threadVars, daemonVars, vars
<1>14. CASE Probe
  <2>1. Probes
    BY <1>14, ProbeOutcome
  <2>2. conn' \in [Starts -> {"none", "queued", "open", "closed"}]
        /\ client' \in Starts \cup {Unset}
    BY <2>1 DEF Probes, SessionInv, TypeOK
  <2> QED
    BY <2>1, <2>2 DEF Probes, TypeOK, SessionInv, childVars, holderVars, connVars,
       threadVars, daemonVars, vars
<1>15. CASE HolderDies
  BY <1>15, HeldSessionAssumption DEF HolderDies, Step, HangUp, TypeOK, SessionInv,
     childVars, holderVars, connVars, threadVars, daemonVars, vars
<1>16. CASE Provision
  <2>1. row' \in [present : BOOLEAN, ended : BOOLEAN, exit : Codes \cup {NoCode},
                  orphaned : BOOLEAN, socket : BOOLEAN]
    BY <1>16 DEF Provision, SessionInv, TypeOK
  <2> QED
    BY <1>16, <2>1 DEF Provision, Step, TypeOK, SessionInv, childVars, holderVars,
       connVars, threadVars, daemonVars, vars
<1>17. CASE Launch
  BY <1>17 DEF Launch, Status, Step, TypeOK, SessionInv, childVars, holderVars,
     connVars, threadVars, daemonVars, vars
<1>18. CASE Readopt
  <2>1. creating' \in BOOLEAN
    BY <1>18 DEF Readopt
  <2> QED
    BY <1>18, <2>1 DEF Readopt, Step, TypeOK, SessionInv, childVars, holderVars,
       connVars, threadVars, daemonVars, vars
<1>19. CASE Connect
  BY <1>19, HeldSessionAssumption DEF Connect, Step, HangUp, TypeOK, SessionInv,
     childVars, holderVars, connVars, threadVars, daemonVars, vars
<1>20. CASE FindExit
  <2>1. exitFile \in Codes \cup {NoCode}
    BY <1>20 DEF FindExit, SessionInv, TypeOK, Status
  <2>2. row' \in [present : BOOLEAN, ended : BOOLEAN, exit : Codes \cup {NoCode},
                  orphaned : BOOLEAN, socket : BOOLEAN]
    BY <1>20, <2>1 DEF FindExit, SessionInv, TypeOK
  <2> QED
    BY <1>20, <2>2 DEF FindExit, Step, TypeOK, SessionInv, childVars, holderVars,
       connVars, threadVars, daemonVars, vars
<1>21. CASE Unreachable
  <2>1. row' \in [present : BOOLEAN, ended : BOOLEAN, exit : Codes \cup {NoCode},
                  orphaned : BOOLEAN, socket : BOOLEAN]
    BY <1>21 DEF Unreachable, SessionInv, TypeOK
  <2> QED
    BY <1>21, <2>1 DEF Unreachable, Step, TypeOK, SessionInv, childVars, holderVars,
       connVars, threadVars, daemonVars, vars
<1>22. CASE Handshake
  <2>1. start \in Starts /\ chan[start] \in Seq(Frames) /\ chan[start] # <<>>
    BY <1>22 DEF Handshake, SessionInv, TypeOK
  <2>2. chan' \in [Starts -> Seq(Frames)]
    BY <1>22, <2>1, HeadTailProperties DEF Handshake, SessionInv, TypeOK
  <2>3. Head(chan[start])[1] = "fd" /\ Head(chan[start]) \in Frames
    BY <1>22, <2>1 DEF Handshake, Step, SessionInv, DaemonInv, StreamInv, Attached,
       Up, Pipe, Fresh, Replaying, Following
  <2>4. exitSeen' \in Status
    BY <1>22, <2>3, FramesSent DEF Handshake, Status
  <2> QED
    BY <1>22, <2>2, <2>4 DEF Handshake, Step, TypeOK, SessionInv, childVars,
       holderVars, connVars, threadVars, daemonVars, vars
<1>23. CASE Insert
  <2>1. handle' \in BOOLEAN
    BY <1>23 DEF Insert
  <2> QED
    BY <1>23, <2>1 DEF Insert, Step, TypeOK, SessionInv, childVars, holderVars,
       connVars, threadVars, daemonVars, vars
<1>24. CASE Record
  <2>1. row' \in [present : BOOLEAN, ended : BOOLEAN, exit : Codes \cup {NoCode},
                  orphaned : BOOLEAN, socket : BOOLEAN]
    BY <1>24 DEF Record, SessionInv, TypeOK
  <2> QED
    BY <1>24, <2>1 DEF Record, Step, TypeOK, SessionInv, childVars, holderVars,
       connVars, threadVars, daemonVars, vars
<1>25. CASE Frame
  <2>1. Takes
    BY <1>25, FrameOutcome
  <2>2. start \in Starts /\ chan[start] \in Seq(Frames) /\ chan[start] # <<>>
    BY <1>25 DEF Frame, SessionInv, TypeOK
  <2>3. chan' \in [Starts -> Seq(Frames)]
    BY <2>1, <2>2, HeadTailProperties DEF Takes, SessionInv, TypeOK
  <2>4. screen' \in Seq(1..MaxOutput)
    BY <2>1, TakenTypes
  <2>5. exitSeen' \in Status /\ eof' \in BOOLEAN
    BY <2>1 DEF Takes, ExitCode, Status, SessionInv, TypeOK
  <2> QED
    BY <2>1, <2>3, <2>4, <2>5 DEF Takes, TypeOK, SessionInv, childVars, holderVars,
       connVars, threadVars, daemonVars, vars
<1>26. CASE Eof
  BY <1>26, HeldSessionAssumption DEF Eof, Step, HangUp, TypeOK, SessionInv,
     childVars, holderVars, connVars, threadVars, daemonVars, vars
<1>27. CASE End
  <2>1. (IF exitSeen = Unset THEN NoCode ELSE exitSeen) \in Codes \cup {NoCode}
    BY DEF SessionInv, TypeOK, Status
  <2>2. row' \in [present : BOOLEAN, ended : BOOLEAN, exit : Codes \cup {NoCode},
                  orphaned : BOOLEAN, socket : BOOLEAN]
    BY <1>27, <2>1 DEF End, SessionInv, TypeOK
  <2> QED
    BY <1>27, <2>2 DEF End, TypeOK, SessionInv, childVars, holderVars, connVars,
       threadVars, daemonVars, vars
<1>28. CASE Remove
  <2>1. handle' \in BOOLEAN
    BY <1>28 DEF Remove
  <2> QED
    BY <1>28, <2>1 DEF Remove, Step, TypeOK, SessionInv, childVars, holderVars,
       connVars, threadVars, daemonVars, vars
<1>29. CASE Crash
  <2>1. handle' \in BOOLEAN /\ eof' \in BOOLEAN
    BY <1>29 DEF Crash
  <2>2. screen' \in Seq(1..MaxOutput)
    BY <1>29 DEF Crash
  <2> QED
    BY <1>29, <2>1, <2>2 DEF Crash, Status, TypeOK, SessionInv, childVars,
       holderVars, connVars, threadVars, daemonVars, vars
<1>30. CASE Restart
  <2>1. start' \in Starts
    BY <1>30, HeldSessionAssumption DEF Restart, Step, SessionInv, DaemonInv,
       TypeOK, Starts
  <2> QED
    BY <1>30, <2>1 DEF Restart, Step, TypeOK, SessionInv, childVars, holderVars,
       connVars, threadVars, daemonVars, vars
<1>31. CASE GiveUp \/ HandshakeFails \/ UNCHANGED vars
  <2>1. UNCHANGED <<childVars, holderVars, connVars, threadVars, start, creating, row>>
        /\ handle' = handle /\ dpc' \in {dpc, "unreachable"}
    BY <1>31 DEF GiveUp, HandshakeFails, Step, childVars, holderVars, connVars,
       threadVars, daemonVars, vars
  <2> QED
    BY <2>1 DEF SessionInv, TypeOK, childVars, holderVars, connVars, threadVars
<1> QED
  BY <1>1, <1>2, <1>3, <1>4, <1>5, <1>6, <1>7, <1>8, <1>9, <1>10, <1>11, <1>12,
     <1>13, <1>14, <1>15, <1>16, <1>17, <1>18, <1>19, <1>20, <1>21, <1>22, <1>23,
     <1>24, <1>25, <1>26, <1>27, <1>28, <1>29, <1>30, <1>31 DEF Holder, Daemon,
     Thread, Environment, Next

(* What is reaped has exited, what is drained was read to its end.         *)
LEMMA HolderNext == ASSUME SessionInv, [Next]_vars PROVE HolderInv'
<1>1. CASE Write
  BY <1>1, HeldSessionAssumption DEF Write, TypeOK, SessionInv, HolderInv, ConnInv,
     PollInv, Unspawned, Gone, Exited, ExitCode, Step, childVars, holderVars,
     connVars, threadVars, daemonVars, vars
<1>2. ASSUME NEW status \in Codes \cup {"signalled"}, ChildExits(status) PROVE HolderInv'
  BY <1>2, HeldSessionAssumption DEF ChildExits, TypeOK, SessionInv, HolderInv,
     ConnInv, PollInv, Unspawned, Gone, Exited, ExitCode, Step, childVars,
     holderVars, connVars, threadVars, daemonVars, vars
<1>3. CASE TtyCloses
  BY <1>3, HeldSessionAssumption DEF TtyCloses, TypeOK, SessionInv, HolderInv,
     ConnInv, PollInv, Unspawned, Gone, Exited, ExitCode, Step, childVars,
     holderVars, connVars, threadVars, daemonVars, vars
<1>4. CASE SpawnChild
  BY <1>4, HeldSessionAssumption DEF SpawnChild, TypeOK, SessionInv, HolderInv,
     ConnInv, PollInv, Unspawned, Gone, Exited, ExitCode, Step, childVars,
     holderVars, connVars, threadVars, daemonVars, vars
<1>5. CASE SpawnFails
  BY <1>5, HeldSessionAssumption DEF SpawnFails, TypeOK, SessionInv, HolderInv,
     ConnInv, PollInv, Unspawned, Gone, Exited, ExitCode, Step, childVars,
     holderVars, connVars, threadVars, daemonVars, vars
<1>6. CASE Top
  BY <1>6, HeldSessionAssumption DEF Top, TypeOK, SessionInv, HolderInv, ConnInv,
     PollInv, Unspawned, Gone, Exited, ExitCode, Step, childVars, holderVars,
     connVars, threadVars, daemonVars, vars
<1>7. CASE Finish
  BY <1>7, HeldSessionAssumption DEF Finish, TypeOK, SessionInv, HolderInv, ConnInv,
     PollInv, Unspawned, Gone, Exited, ExitCode, Step, childVars, holderVars,
     connVars, threadVars, daemonVars, vars
<1>8. CASE Leave
  BY <1>8, HeldSessionAssumption DEF Leave, TypeOK, SessionInv, HolderInv, ConnInv,
     PollInv, Unspawned, Gone, Exited, ExitCode, Step, childVars, holderVars,
     connVars, threadVars, daemonVars, vars
<1>9. CASE Accept
  BY <1>9, HeldSessionAssumption DEF Accept, TypeOK, SessionInv, HolderInv, ConnInv,
     PollInv, Unspawned, Gone, Exited, ExitCode, Step, childVars, holderVars,
     connVars, threadVars, daemonVars, vars
<1>10. CASE ReadMaster
  BY <1>10, HeldSessionAssumption DEF ReadMaster, TypeOK, SessionInv, HolderInv,
     ConnInv, PollInv, Unspawned, Gone, Exited, ExitCode, Step, childVars,
     holderVars, connVars, threadVars, daemonVars, vars
<1>11. CASE Probe
  BY <1>11, HeldSessionAssumption DEF Probe, TypeOK, SessionInv, HolderInv, ConnInv,
     PollInv, Unspawned, Gone, Exited, ExitCode, Step, childVars, holderVars,
     connVars, threadVars, daemonVars, vars
<1>12. CASE HolderDies
  BY <1>12, HeldSessionAssumption DEF HolderDies, TypeOK, SessionInv, HolderInv,
     ConnInv, PollInv, Unspawned, Gone, Exited, ExitCode, Step, childVars,
     holderVars, connVars, threadVars, daemonVars, vars
<1>13. CASE Bind
  BY <1>13, HeldSessionAssumption DEF Bind, TypeOK, SessionInv, HolderInv, ConnInv,
     PollInv, Unspawned, Gone, Exited, ExitCode, Step, childVars, holderVars,
     connVars, threadVars, daemonVars, vars
<1>14. CASE Poll
  BY <1>14, HeldSessionAssumption DEF Poll, TypeOK, SessionInv, HolderInv, ConnInv,
     PollInv, Unspawned, Gone, Exited, ExitCode, Step, childVars, holderVars,
     connVars, threadVars, daemonVars, vars
<1>15. CASE NoMaster
  BY <1>15, HeldSessionAssumption DEF NoMaster, TypeOK, SessionInv, HolderInv,
     ConnInv, PollInv, Unspawned, Gone, Exited, ExitCode, Step, childVars,
     holderVars, connVars, threadVars, daemonVars, vars
<1>16. CASE Launch
  <2>1. hold = "none" /\ hold' = "starting" /\ exitFile' = Unset
    BY <1>16 DEF Launch, Step, SessionInv, DaemonInv
  <2>2. UNCHANGED <<child, ttyOpen, reaped, drained, read, written, client, thread, chan>>
    BY <1>16 DEF Launch, childVars, connVars, threadVars
  <2> QED
    BY <2>1, <2>2 DEF SessionInv, HolderInv, Unspawned, Gone, Exited
<1>17. CASE Handshake
  BY <1>17, HeldSessionAssumption DEF Handshake, TypeOK, SessionInv, HolderInv,
     ConnInv, PollInv, Unspawned, Gone, Exited, ExitCode, Step, childVars,
     holderVars, connVars, threadVars, daemonVars, vars
<1>18. CASE Frame
  BY <1>18, HeldSessionAssumption DEF Frame, TypeOK, SessionInv, HolderInv, ConnInv,
     PollInv, Unspawned, Gone, Exited, ExitCode, Step, childVars, holderVars,
     connVars, threadVars, daemonVars, vars
<1>19. CASE Crash
  BY <1>19, HeldSessionAssumption DEF Crash, TypeOK, SessionInv, HolderInv, ConnInv,
     PollInv, Unspawned, Gone, Exited, ExitCode, Step, childVars, holderVars,
     connVars, threadVars, daemonVars, vars
<1>20. CASE Provision \/ Readopt \/ Connect \/ FindExit \/ GiveUp \/ HandshakeFails \/
             Unreachable \/ Insert \/ Record \/ Eof \/ End \/ Remove \/ Restart \/
             UNCHANGED vars
  <2>1. UNCHANGED <<child, ttyOpen, reaped, drained, read, written, hold, client, exitFile, chan>>
        /\ (thread = "none" => thread' = "none")
    BY <1>20 DEF Provision, Readopt, Connect, FindExit, GiveUp, HandshakeFails,
       Unreachable, Insert, Record, Eof, End, Remove, Restart, Step, childVars,
       holderVars, connVars, threadVars, daemonVars, vars
  <2> QED
    BY <2>1 DEF SessionInv, HolderInv, Exited, ExitCode
<1> QED
  BY <1>1, <1>2, <1>3, <1>4, <1>5, <1>6, <1>7, <1>8, <1>9, <1>10, <1>11, <1>12,
     <1>13, <1>14, <1>15, <1>16, <1>17, <1>18, <1>19, <1>20 DEF Holder, Daemon,
     Thread, Environment, Next

(* What poll said stays so until the holder has acted on it.               *)
LEMMA PollNext == ASSUME SessionInv, [Next]_vars PROVE PollInv'
<1>1. CASE Write
  BY <1>1, HeldSessionAssumption DEF Write, TypeOK, SessionInv, PollInv, ConnInv,
     Queued, Alive, Up, Starts, Step, childVars, holderVars, connVars, threadVars,
     daemonVars, vars
<1>2. CASE TtyCloses
  BY <1>2, HeldSessionAssumption DEF TtyCloses, TypeOK, SessionInv, PollInv,
     ConnInv, Queued, Alive, Up, Starts, Step, childVars, holderVars, connVars,
     threadVars, daemonVars, vars
<1>3. CASE Top
  BY <1>3, HeldSessionAssumption DEF Top, TypeOK, SessionInv, PollInv, ConnInv,
     Queued, Alive, Up, Starts, Step, childVars, holderVars, connVars, threadVars,
     daemonVars, vars
<1>4. CASE Accept
  BY <1>4, HeldSessionAssumption DEF Accept, TypeOK, SessionInv, PollInv, ConnInv,
     Queued, Alive, Up, Starts, Step, childVars, holderVars, connVars, threadVars,
     daemonVars, vars
<1>5. CASE Poll
  BY <1>5, HeldSessionAssumption DEF Poll, TypeOK, SessionInv, PollInv, ConnInv,
     Queued, Alive, Up, Starts, Step, childVars, holderVars, connVars, threadVars,
     daemonVars, vars
<1>6. CASE ReadMaster
  BY <1>6, HeldSessionAssumption DEF ReadMaster, TypeOK, SessionInv, PollInv,
     ConnInv, Queued, Alive, Up, Starts, Step, childVars, holderVars, connVars,
     threadVars, daemonVars, vars
<1>7. CASE NoMaster
  BY <1>7, HeldSessionAssumption DEF NoMaster, TypeOK, SessionInv, PollInv, ConnInv,
     Queued, Alive, Up, Starts, Step, childVars, holderVars, connVars, threadVars,
     daemonVars, vars
<1>8. CASE Probe
  BY <1>8, HeldSessionAssumption DEF Probe, TypeOK, SessionInv, PollInv, ConnInv,
     Queued, Alive, Up, Starts, Step, childVars, holderVars, connVars, threadVars,
     daemonVars, vars
<1>9. CASE Connect
  BY <1>9, HeldSessionAssumption DEF Connect, TypeOK, SessionInv, PollInv, ConnInv,
     Queued, Alive, Up, Starts, Step, childVars, holderVars, connVars, threadVars,
     daemonVars, vars
<1>10. CASE Restart
  BY <1>10, HeldSessionAssumption DEF Restart, TypeOK, SessionInv, PollInv, ConnInv,
     Queued, Alive, Up, Starts, Step, childVars, holderVars, connVars, threadVars,
     daemonVars, vars
<1>11. CASE Crash
  BY <1>11, HeldSessionAssumption DEF Crash, TypeOK, SessionInv, PollInv, ConnInv,
     Queued, Alive, Up, Starts, Step, childVars, holderVars, connVars, threadVars,
     daemonVars, vars
<1>12. CASE HolderDies
  BY <1>12, HeldSessionAssumption DEF HolderDies, TypeOK, SessionInv, PollInv,
     ConnInv, Queued, Alive, Up, Starts, Step, childVars, holderVars, connVars,
     threadVars, daemonVars, vars
<1>13. CASE Bind
  BY <1>13, HeldSessionAssumption DEF Bind, TypeOK, SessionInv, PollInv, ConnInv,
     Queued, Alive, Up, Starts, Step, childVars, holderVars, connVars, threadVars,
     daemonVars, vars
<1>14. CASE SpawnChild
  BY <1>14, HeldSessionAssumption DEF SpawnChild, TypeOK, SessionInv, PollInv,
     ConnInv, Queued, Alive, Up, Starts, Step, childVars, holderVars, connVars,
     threadVars, daemonVars, vars
<1>15. CASE SpawnFails
  BY <1>15, HeldSessionAssumption DEF SpawnFails, TypeOK, SessionInv, PollInv,
     ConnInv, Queued, Alive, Up, Starts, Step, childVars, holderVars, connVars,
     threadVars, daemonVars, vars
<1>16. CASE Finish
  BY <1>16, HeldSessionAssumption DEF Finish, TypeOK, SessionInv, PollInv, ConnInv,
     Queued, Alive, Up, Starts, Step, childVars, holderVars, connVars, threadVars,
     daemonVars, vars
<1>17. CASE Leave
  BY <1>17, HeldSessionAssumption DEF Leave, TypeOK, SessionInv, PollInv, ConnInv,
     Queued, Alive, Up, Starts, Step, childVars, holderVars, connVars, threadVars,
     daemonVars, vars
<1>18. CASE Launch
  BY <1>18, HeldSessionAssumption DEF Launch, TypeOK, SessionInv, PollInv, ConnInv,
     Queued, Alive, Up, Starts, Step, childVars, holderVars, connVars, threadVars,
     daemonVars, vars
<1>19. CASE (\E status \in Codes \cup {"signalled"} : ChildExits(status)) \/ Provision \/
             Readopt \/ FindExit \/ GiveUp \/ HandshakeFails \/ Unreachable \/
             Handshake \/ Insert \/ Record \/ Frame \/ Eof \/ End \/ Remove \/
             UNCHANGED vars
  <2>1. UNCHANGED <<hold, ready, read, written, ttyOpen, client, conn, start>> /\ Up' = Up
    BY <1>19 DEF ChildExits, Provision, Readopt, FindExit, GiveUp, HandshakeFails,
       Unreachable, Handshake, Insert, Record, Frame, Eof, End, Remove, Step, Up,
       childVars, holderVars, connVars, threadVars, daemonVars, vars
  <2> QED
    BY <2>1 DEF SessionInv, PollInv, Queued, Alive
<1> QED
  BY <1>1, <1>2, <1>3, <1>4, <1>5, <1>6, <1>7, <1>8, <1>9, <1>10, <1>11, <1>12,
     <1>13, <1>14, <1>15, <1>16, <1>17, <1>18, <1>19 DEF Holder, Daemon, Thread,
     Environment, Next

(* The client is the daemon that is attached.                              *)
LEMMA ConnNext == ASSUME SessionInv, [Next]_vars PROVE ConnInv'
<1>1. ASSUME NEW status \in Codes \cup {"signalled"}, ChildExits(status) PROVE ConnInv'
  BY <1>1, HeldSessionAssumption DEF ChildExits, SessionInv, TypeOK, ConnInv,
     DaemonInv, HolderInv, Gone, Attached, Pipe, Alive, Up, Starts, Step, HangUp,
     childVars, holderVars, connVars, threadVars, daemonVars, vars
<1>2. CASE Bind
  BY <1>2, HeldSessionAssumption DEF Bind, SessionInv, TypeOK, ConnInv, DaemonInv,
     HolderInv, Gone, Attached, Pipe, Alive, Up, Starts, Step, HangUp, childVars,
     holderVars, connVars, threadVars, daemonVars, vars
<1>3. CASE SpawnChild
  BY <1>3, HeldSessionAssumption DEF SpawnChild, SessionInv, TypeOK, ConnInv,
     DaemonInv, HolderInv, Gone, Attached, Pipe, Alive, Up, Starts, Step, HangUp,
     childVars, holderVars, connVars, threadVars, daemonVars, vars
<1>4. CASE SpawnFails
  BY <1>4, HeldSessionAssumption DEF SpawnFails, SessionInv, TypeOK, ConnInv,
     DaemonInv, HolderInv, Gone, Attached, Pipe, Alive, Up, Starts, Step, HangUp,
     childVars, holderVars, connVars, threadVars, daemonVars, vars
<1>5. CASE Top
  BY <1>5, HeldSessionAssumption DEF Top, SessionInv, TypeOK, ConnInv, DaemonInv,
     HolderInv, Gone, Attached, Pipe, Alive, Up, Starts, Step, HangUp, childVars,
     holderVars, connVars, threadVars, daemonVars, vars
<1>6. CASE Finish
  <2>1. Finishes
    BY <1>6, FinishOutcome
  <2>2. hold \notin Gone /\ hold' \notin Gone /\ UNCHANGED <<start, thread, child>> /\ Up' = Up
    BY <2>1 DEF Finishes, Gone, Up, childVars, threadVars, daemonVars
  <2>3. /\ start \in Starts /\ client \in Starts \cup {Unset} /\ Unset \notin Nat
        /\ conn \in [Starts -> {"none", "queued", "open", "closed"}]
        /\ chan \in [Starts -> Seq(Frames)] /\ Starts \in SUBSET Nat
    BY HeldSessionAssumption DEF SessionInv, TypeOK, Starts
  <2>4. CASE UNCHANGED <<client, conn, chan>>
    <3>1. Attached' = Attached
      BY <2>2, <2>4 DEF Attached, Pipe
    <3> QED
      BY <2>2, <2>4, <3>1 DEF SessionInv, ConnInv
  <2>5. CASE Attached /\ UNCHANGED <<client, conn>> /\ chan'[start] # <<>>
             /\ \A e \in Starts : e # start => chan'[e] = chan[e]
    <3>1. Attached'
      BY <2>2, <2>5 DEF Attached, Pipe
    <3> QED
      BY <2>2, <2>3, <2>5, <3>1 DEF SessionInv, ConnInv
  <2> QED
    BY <2>1, <2>3, <2>4, <2>5 DEF Finishes
<1>7. CASE Leave
  BY <1>7, HeldSessionAssumption DEF Leave, SessionInv, TypeOK, ConnInv, DaemonInv,
     HolderInv, Gone, Attached, Pipe, Alive, Up, Starts, Step, HangUp, childVars,
     holderVars, connVars, threadVars, daemonVars, vars
<1>8. CASE Poll
  BY <1>8, HeldSessionAssumption DEF Poll, SessionInv, TypeOK, ConnInv, DaemonInv,
     HolderInv, Gone, Attached, Pipe, Alive, Up, Starts, Step, HangUp, childVars,
     holderVars, connVars, threadVars, daemonVars, vars
<1>9. CASE Accept
  <2>1. PICK d \in Starts : Accepts(d)
    BY <1>9, AcceptOutcome
  <2>2. hold \notin Gone /\ hold' \notin Gone /\ child # "unborn"
        /\ UNCHANGED <<child, start, thread>> /\ Up' = Up
    BY <2>1 DEF Accepts, SessionInv, HolderInv, Unspawned, Gone, childVars,
       threadVars, daemonVars, Up
  <2>3. /\ start \in Starts /\ client \in Starts \cup {Unset} /\ Unset \notin Nat
        /\ conn \in [Starts -> {"none", "queued", "open", "closed"}]
        /\ chan \in [Starts -> Seq(Frames)] /\ Starts \in SUBSET Nat
    BY HeldSessionAssumption DEF SessionInv, TypeOK, Starts
  <2>4. CASE Alive(d)
    <3>1. /\ client' = d /\ d = start /\ Up /\ chan'[d] # <<>>
          /\ conn' = [e \in Starts |-> IF e = d THEN "open" ELSE
                                       IF e = client THEN "closed" ELSE conn[e]]
      BY <2>1, <2>3, <2>4 DEF Accepts, Alive
    <3>2. \A e \in Starts : e # d => chan'[e] = chan[e]
      BY <2>1, <2>3 DEF Accepts
    <3>3. \A e \in Starts : e > start => conn'[e] = "none" /\ chan'[e] = <<>>
      BY <2>2, <2>3, <3>1, <3>2 DEF SessionInv, ConnInv
    <3>4. Attached'
      BY <2>2, <3>1 DEF Attached, Pipe
    <3> QED
      BY <2>2, <2>3, <3>1, <3>3, <3>4 DEF ConnInv
  <2>5. CASE ~Alive(d)
    <3>1. conn' = [conn EXCEPT ![d] = "closed"] /\ UNCHANGED <<client, chan>>
          /\ conn[d] = "queued"
      BY <2>1, <2>5 DEF Accepts, Alive
    <3>2. Attached' = Attached
      BY <2>2, <3>1 DEF Attached, Pipe
    <3>3. ~(d = start /\ Up) /\ d <= start /\ d # client
      BY <2>2, <2>3, <2>5, <3>1 DEF Alive, SessionInv, ConnInv
    <3>4. \A e \in Starts : e # d => conn'[e] = conn[e]
      BY <2>3, <3>1
    <3>5. Attached => d # start
      BY <3>3 DEF Attached
    <3> QED
      BY <2>2, <2>3, <3>1, <3>2, <3>3, <3>4, <3>5 DEF SessionInv, ConnInv
  <2> QED
    BY <2>4, <2>5
<1>10. CASE ReadMaster
  <2>1. Reads
    BY <1>10, ReadOutcome
  <2>2. hold \notin Gone /\ hold' \notin Gone /\ UNCHANGED <<start, thread, child>> /\ Up' = Up
    BY <2>1 DEF Reads, Gone, Up, childVars, threadVars, daemonVars
  <2>3. /\ start \in Starts /\ client \in Starts \cup {Unset} /\ Unset \notin Nat
        /\ conn \in [Starts -> {"none", "queued", "open", "closed"}]
        /\ chan \in [Starts -> Seq(Frames)] /\ Starts \in SUBSET Nat
    BY HeldSessionAssumption DEF SessionInv, TypeOK, Starts
  <2>4. CASE UNCHANGED <<client, conn, chan>>
    <3>1. Attached' = Attached
      BY <2>2, <2>4 DEF Attached, Pipe
    <3> QED
      BY <2>2, <2>4, <3>1 DEF SessionInv, ConnInv
  <2>5. CASE Attached /\ UNCHANGED <<client, conn>> /\ chan'[start] # <<>>
             /\ \A e \in Starts : e # start => chan'[e] = chan[e]
    <3>1. Attached'
      BY <2>2, <2>5 DEF Attached, Pipe
    <3> QED
      BY <2>2, <2>3, <2>5, <3>1 DEF SessionInv, ConnInv
  <2>6. CASE /\ ~Attached /\ client \in Starts /\ ~Alive(client) /\ client' = Unset
             /\ chan' = chan
             /\ conn' = [conn EXCEPT ![client] = "closed"]
    <3>1. ~Attached'
      BY <2>2, <2>6 DEF Attached, Pipe
    <3>2. client <= start /\ ~(client = start /\ Up)
      BY <2>2, <2>3, <2>6 DEF Alive, SessionInv, ConnInv
    <3>3. \A e \in Starts : e # client => conn'[e] = conn[e]
      BY <2>3, <2>6
    <3> QED
      BY <2>2, <2>3, <2>6, <3>1, <3>2, <3>3 DEF SessionInv, ConnInv
  <2> QED
    BY <2>1, <2>3, <2>4, <2>5, <2>6 DEF Reads
<1>11. CASE NoMaster
  BY <1>11, HeldSessionAssumption DEF NoMaster, SessionInv, TypeOK, ConnInv,
     DaemonInv, HolderInv, Gone, Attached, Pipe, Alive, Up, Starts, Step, HangUp,
     childVars, holderVars, connVars, threadVars, daemonVars, vars
<1>12. CASE Probe
  <2>1. Probes
    BY <1>12, ProbeOutcome
  <2>2. hold \notin Gone /\ hold' \notin Gone /\ UNCHANGED <<start, thread, child>> /\ Up' = Up
    BY <2>1 DEF Probes, Gone, Up, childVars, threadVars, daemonVars
  <2>3. /\ start \in Starts /\ client \in Starts \cup {Unset} /\ Unset \notin Nat
        /\ conn \in [Starts -> {"none", "queued", "open", "closed"}]
        /\ chan \in [Starts -> Seq(Frames)] /\ Starts \in SUBSET Nat
    BY HeldSessionAssumption DEF SessionInv, TypeOK, Starts
  <2>4. CASE UNCHANGED <<client, conn, chan>>
    <3>1. Attached' = Attached
      BY <2>2, <2>4 DEF Attached, Pipe
    <3> QED
      BY <2>2, <2>4, <3>1 DEF SessionInv, ConnInv
  <2>6. CASE /\ ~Attached /\ client \in Starts /\ ~Alive(client) /\ client' = Unset
             /\ chan' = chan
             /\ conn' = [conn EXCEPT ![client] = "closed"]
    <3>1. ~Attached'
      BY <2>2, <2>6 DEF Attached, Pipe
    <3>2. client <= start /\ ~(client = start /\ Up)
      BY <2>2, <2>3, <2>6 DEF Alive, SessionInv, ConnInv
    <3>3. \A e \in Starts : e # client => conn'[e] = conn[e]
      BY <2>3, <2>6
    <3> QED
      BY <2>2, <2>3, <2>6, <3>1, <3>2, <3>3 DEF SessionInv, ConnInv
  <2> QED
    BY <2>1, <2>3, <2>4, <2>6 DEF Probes
<1>13. CASE HolderDies
  BY <1>13, HeldSessionAssumption DEF HolderDies, SessionInv, TypeOK, ConnInv,
     DaemonInv, HolderInv, Gone, Attached, Pipe, Alive, Up, Starts, Step, HangUp,
     childVars, holderVars, connVars, threadVars, daemonVars, vars
<1>14. CASE Launch
  BY <1>14, HeldSessionAssumption DEF Launch, SessionInv, TypeOK, ConnInv,
     DaemonInv, HolderInv, Gone, Attached, Pipe, Alive, Up, Starts, Step, HangUp,
     childVars, holderVars, connVars, threadVars, daemonVars, vars
<1>15. CASE Connect
  <2>1. UNCHANGED <<chan, client, start, thread, child, hold>> /\ Up /\ Up' /\ hold \notin Gone
    BY <1>15 DEF Connect, Step, Listening, Gone, Up, holderVars, threadVars, childVars
  <2>2. conn[start] = "none" /\ conn' = [conn EXCEPT ![start] = "queued"]
    BY <1>15 DEF Connect, Step, SessionInv, DaemonInv
  <2>3. /\ start \in Starts /\ client \in Starts \cup {Unset} /\ Unset \notin Nat
        /\ conn \in [Starts -> {"none", "queued", "open", "closed"}]
        /\ chan \in [Starts -> Seq(Frames)] /\ Starts \in SUBSET Nat
    BY HeldSessionAssumption DEF SessionInv, TypeOK, Starts
  <2>4. ~Attached /\ ~Attached'
    BY <2>1, <2>2 DEF SessionInv, DaemonInv, Attached, Pipe
  <2>5. client # start /\ \A e \in Starts : e # start => conn'[e] = conn[e]
    BY <2>1, <2>2, <2>3 DEF SessionInv, ConnInv
  <2>6. conn'[start] = "queued"
    BY <2>2, <2>3
  <2> QED
    BY <2>1, <2>3, <2>4, <2>5, <2>6 DEF SessionInv, ConnInv
<1>16. CASE Handshake
  BY <1>16, HeldSessionAssumption DEF Handshake, SessionInv, TypeOK, ConnInv,
     DaemonInv, HolderInv, Gone, Attached, Pipe, Alive, Up, Starts, Step, HangUp,
     childVars, holderVars, connVars, threadVars, daemonVars, vars
<1>17. CASE Frame
  BY <1>17, HeldSessionAssumption DEF Frame, SessionInv, TypeOK, ConnInv, DaemonInv,
     HolderInv, Gone, Attached, Pipe, Alive, Up, Starts, Step, HangUp, childVars,
     holderVars, connVars, threadVars, daemonVars, vars
<1>18. CASE End
  BY <1>18, HeldSessionAssumption DEF End, SessionInv, TypeOK, ConnInv, DaemonInv,
     HolderInv, Gone, Attached, Pipe, Alive, Up, Starts, Step, HangUp, childVars,
     holderVars, connVars, threadVars, daemonVars, vars
<1>19. CASE Remove
  BY <1>19, HeldSessionAssumption DEF Remove, SessionInv, TypeOK, ConnInv,
     DaemonInv, HolderInv, Gone, Attached, Pipe, Alive, Up, Starts, Step, HangUp,
     childVars, holderVars, connVars, threadVars, daemonVars, vars
<1>20. CASE Crash
  BY <1>20, HeldSessionAssumption DEF Crash, SessionInv, TypeOK, ConnInv, DaemonInv,
     HolderInv, Gone, Attached, Pipe, Alive, Up, Starts, Step, HangUp, childVars,
     holderVars, connVars, threadVars, daemonVars, vars
<1>21. CASE Restart
  BY <1>21, HeldSessionAssumption DEF Restart, SessionInv, TypeOK, ConnInv,
     DaemonInv, HolderInv, Gone, Attached, Pipe, Alive, Up, Starts, Step, HangUp,
     childVars, holderVars, connVars, threadVars, daemonVars, vars
<1>22. CASE Write \/ TtyCloses \/ Provision \/ Readopt \/ FindExit \/ GiveUp \/ HandshakeFails
             \/ Unreachable \/ Insert \/ Record \/ Eof \/ UNCHANGED vars
  <2>1. UNCHANGED <<start, conn, chan, client, hold, thread, child>> /\ Up' = Up
    BY <1>22 DEF Write, TtyCloses, Provision, Readopt, FindExit, GiveUp,
       HandshakeFails, Unreachable, Insert, Record, Eof, Step, Up, childVars,
       holderVars, connVars, threadVars, daemonVars, vars
  <2> QED
    BY <2>1 DEF SessionInv, ConnInv, Gone, Attached, Pipe
<1> QED
  BY <1>1, <1>2, <1>3, <1>4, <1>5, <1>6, <1>7, <1>8, <1>9, <1>10, <1>11, <1>12,
     <1>13, <1>14, <1>15, <1>16, <1>17, <1>18, <1>19, <1>20, <1>21, <1>22 DEF
     Holder, Daemon, Thread, Environment, Next

(* A daemon has one connection, and a thread after its handshake.          *)
LEMMA DaemonNext == ASSUME SessionInv, [Next]_vars PROVE DaemonInv'
<1>1. CASE SpawnFails
  BY <1>1, HeldSessionAssumption DEF SpawnFails, SessionInv, TypeOK, ConnInv,
     DaemonInv, HolderInv, Attached, Pipe, Up, Starts, Step, HangUp, childVars,
     holderVars, connVars, threadVars, daemonVars, vars
<1>2. CASE Finish
  <2>1. Finishes
    BY <1>2, FinishOutcome
  <2>2. /\ UNCHANGED <<dpc, thread, start, row, screen, exitSeen, eof>>
        /\ hold # "none" /\ hold' # "none"
    BY <2>1 DEF Finishes, threadVars, daemonVars
  <2>3. conn'[start] = "none" <=> conn[start] = "none"
    BY <2>1, HeldSessionAssumption DEF Finishes, SessionInv, TypeOK, ConnInv,
       Starts, Gone
  <2>4. chan'[start] = chan[start] \/ conn[start] # "none"
    BY <2>1 DEF Finishes, SessionInv, ConnInv
  <2> QED
    BY <2>2, <2>3, <2>4 DEF SessionInv, DaemonInv, Pipe
<1>3. CASE Leave
  BY <1>3, HeldSessionAssumption DEF Leave, SessionInv, TypeOK, ConnInv, DaemonInv,
     HolderInv, Attached, Pipe, Up, Starts, Step, HangUp, childVars, holderVars,
     connVars, threadVars, daemonVars, vars
<1>4. CASE Accept
  <2>1. PICK d \in Starts : Accepts(d)
    BY <1>4, AcceptOutcome
  <2>2. /\ UNCHANGED <<dpc, thread, start, row, screen, exitSeen, eof>>
        /\ hold # "none" /\ hold' # "none"
    BY <2>1 DEF Accepts, threadVars, daemonVars
  <2>3. conn'[start] = "none" <=> conn[start] = "none"
    BY <2>1, HeldSessionAssumption DEF Accepts, SessionInv, TypeOK, ConnInv, Starts,
       Gone
  <2>4. d = start => conn[start] = "queued"
    BY <2>1 DEF Accepts
  <2>5. d # start => chan'[start] = chan[start]
    BY <2>1 DEF Accepts, SessionInv, TypeOK
  <2> QED
    BY <2>2, <2>3, <2>4, <2>5 DEF SessionInv, DaemonInv, Pipe
<1>5. CASE ReadMaster
  <2>1. Reads
    BY <1>5, ReadOutcome
  <2>2. /\ UNCHANGED <<dpc, thread, start, row, screen, exitSeen, eof>>
        /\ hold # "none" /\ hold' # "none"
    BY <2>1 DEF Reads, threadVars, daemonVars
  <2>3. conn'[start] = "none" <=> conn[start] = "none"
    BY <2>1, HeldSessionAssumption DEF Reads, SessionInv, TypeOK, ConnInv, Starts, Gone
  <2>4. chan'[start] = chan[start] \/ conn[start] # "none"
    BY <2>1 DEF Reads, SessionInv, ConnInv
  <2> QED
    BY <2>2, <2>3, <2>4 DEF SessionInv, DaemonInv, Pipe
<1>6. CASE Probe
  <2>1. Probes
    BY <1>6, ProbeOutcome
  <2>2. /\ UNCHANGED <<dpc, thread, start, row, screen, exitSeen, eof>>
        /\ hold # "none" /\ hold' # "none"
    BY <2>1 DEF Probes, threadVars, daemonVars
  <2>3. conn'[start] = "none" <=> conn[start] = "none"
    BY <2>1, HeldSessionAssumption DEF Probes, SessionInv, TypeOK, ConnInv, Starts,
       Gone
  <2>4. chan'[start] = chan[start] \/ conn[start] # "none"
    BY <2>1 DEF Probes, SessionInv, ConnInv
  <2> QED
    BY <2>2, <2>3, <2>4 DEF SessionInv, DaemonInv, Pipe
<1>7. CASE HolderDies
  BY <1>7, HeldSessionAssumption DEF HolderDies, SessionInv, TypeOK, ConnInv,
     DaemonInv, HolderInv, Attached, Pipe, Up, Starts, Step, HangUp, childVars,
     holderVars, connVars, threadVars, daemonVars, vars
<1>8. CASE Provision
  BY <1>8, HeldSessionAssumption DEF Provision, SessionInv, TypeOK, ConnInv,
     DaemonInv, HolderInv, Attached, Pipe, Up, Starts, Step, HangUp, childVars,
     holderVars, connVars, threadVars, daemonVars, vars
<1>9. CASE Launch
  BY <1>9, HeldSessionAssumption DEF Launch, SessionInv, TypeOK, ConnInv, DaemonInv,
     HolderInv, Attached, Pipe, Up, Starts, Step, HangUp, childVars, holderVars,
     connVars, threadVars, daemonVars, vars
<1>10. CASE Readopt
  BY <1>10, HeldSessionAssumption DEF Readopt, SessionInv, TypeOK, ConnInv,
     DaemonInv, HolderInv, Attached, Pipe, Up, Starts, Step, HangUp, childVars,
     holderVars, connVars, threadVars, daemonVars, vars
<1>11. CASE Connect
  BY <1>11, HeldSessionAssumption DEF Connect, SessionInv, TypeOK, ConnInv,
     DaemonInv, HolderInv, Attached, Pipe, Up, Starts, Step, HangUp, childVars,
     holderVars, connVars, threadVars, daemonVars, vars
<1>12. CASE FindExit
  BY <1>12, HeldSessionAssumption DEF FindExit, SessionInv, TypeOK, ConnInv,
     DaemonInv, HolderInv, Attached, Pipe, Up, Starts, Step, HangUp, childVars,
     holderVars, connVars, threadVars, daemonVars, vars
<1>13. CASE GiveUp
  BY <1>13, HeldSessionAssumption DEF GiveUp, SessionInv, TypeOK, ConnInv,
     DaemonInv, HolderInv, Attached, Pipe, Up, Starts, Step, HangUp, childVars,
     holderVars, connVars, threadVars, daemonVars, vars
<1>14. CASE HandshakeFails
  BY <1>14, HeldSessionAssumption DEF HandshakeFails, SessionInv, TypeOK, ConnInv,
     DaemonInv, HolderInv, Attached, Pipe, Up, Starts, Step, HangUp, childVars,
     holderVars, connVars, threadVars, daemonVars, vars
<1>15. CASE Unreachable
  BY <1>15, HeldSessionAssumption DEF Unreachable, SessionInv, TypeOK, ConnInv,
     DaemonInv, HolderInv, Attached, Pipe, Up, Starts, Step, HangUp, childVars,
     holderVars, connVars, threadVars, daemonVars, vars
<1>16. CASE Handshake
  BY <1>16, HeldSessionAssumption DEF Handshake, SessionInv, TypeOK, ConnInv,
     DaemonInv, HolderInv, Attached, Pipe, Up, Starts, Step, HangUp, childVars,
     holderVars, connVars, threadVars, daemonVars, vars
<1>17. CASE Insert
  BY <1>17, HeldSessionAssumption DEF Insert, SessionInv, TypeOK, ConnInv,
     DaemonInv, HolderInv, Attached, Pipe, Up, Starts, Step, HangUp, childVars,
     holderVars, connVars, threadVars, daemonVars, vars
<1>18. CASE Record
  BY <1>18, HeldSessionAssumption DEF Record, SessionInv, TypeOK, ConnInv,
     DaemonInv, HolderInv, Attached, Pipe, Up, Starts, Step, HangUp, childVars,
     holderVars, connVars, threadVars, daemonVars, vars
<1>19. CASE Frame
  BY <1>19, HeldSessionAssumption DEF Frame, SessionInv, TypeOK, ConnInv, DaemonInv,
     HolderInv, Attached, Pipe, Up, Starts, Step, HangUp, childVars, holderVars,
     connVars, threadVars, daemonVars, vars
<1>20. CASE Eof
  BY <1>20, HeldSessionAssumption DEF Eof, SessionInv, TypeOK, ConnInv, DaemonInv,
     HolderInv, Attached, Pipe, Up, Starts, Step, HangUp, childVars, holderVars,
     connVars, threadVars, daemonVars, vars
<1>21. CASE End
  <2>1. UNCHANGED <<dpc, start, conn, chan, hold, screen, exitSeen, eof>>
    BY <1>21 DEF End, connVars, holderVars, daemonVars
  <2>2. thread = "run" /\ thread' = "stored" /\ eof /\ row'.present = row.present
    BY <1>21 DEF End, MayEnd, SessionInv, TypeOK
  <2> QED
    BY <2>1, <2>2 DEF SessionInv, DaemonInv, Pipe
<1>22. CASE Remove
  BY <1>22, HeldSessionAssumption DEF Remove, SessionInv, TypeOK, ConnInv,
     DaemonInv, HolderInv, Attached, Pipe, Up, Starts, Step, HangUp, childVars,
     holderVars, connVars, threadVars, daemonVars, vars
<1>23. CASE Crash
  BY <1>23, HeldSessionAssumption DEF Crash, SessionInv, TypeOK, ConnInv, DaemonInv,
     HolderInv, Attached, Pipe, Up, Starts, Step, HangUp, childVars, holderVars,
     connVars, threadVars, daemonVars, vars
<1>24. CASE Restart
  BY <1>24, HeldSessionAssumption DEF Restart, SessionInv, TypeOK, ConnInv,
     DaemonInv, HolderInv, Attached, Pipe, Up, Starts, Step, HangUp, childVars,
     holderVars, connVars, threadVars, daemonVars, vars
<1>25. CASE Write \/ (\E status \in Codes \cup {"signalled"} : ChildExits(status)) \/ TtyCloses
             \/ Bind \/ SpawnChild \/ Top \/ Poll \/ NoMaster \/ UNCHANGED vars
  <2>1. /\ UNCHANGED <<dpc, thread, conn, chan, start, row, screen, exitSeen, eof>>
        /\ hold' = "none" <=> hold = "none"
    BY <1>25 DEF Write, ChildExits, TtyCloses, Bind, SpawnChild, Top, Poll,
       NoMaster, Step, childVars, holderVars, connVars, threadVars, daemonVars, vars
  <2> QED
    BY <2>1 DEF SessionInv, DaemonInv, Pipe
<1> QED
  BY <1>1, <1>2, <1>3, <1>4, <1>5, <1>6, <1>7, <1>8, <1>9, <1>10, <1>11, <1>12,
     <1>13, <1>14, <1>15, <1>16, <1>17, <1>18, <1>19, <1>20, <1>21, <1>22, <1>23,
     <1>24, <1>25 DEF Holder, Daemon, Thread, Environment, Next

(* The pipe in the types the lemmas on its story need.                     *)
LEMMA PipeTypes ==
    ASSUME SessionInv
    PROVE  /\ start \in Starts /\ Pipe \in Seq(Frames) /\ Len(Pipe) \in Nat
           /\ chan \in [Starts -> Seq(Frames)]
           /\ read \in Nat /\ read <= MaxOutput
           /\ ExitCode \in Codes \cup {NoCode}
           /\ <<"exit", ExitCode>> \in Frames
           /\ read < written => <<"output", read + 1>> \in Frames
<1>1. ExitCode \in Codes \cup {NoCode}
  BY DEF ExitCode
<1>2. /\ start \in Starts /\ chan \in [Starts -> Seq(Frames)] /\ read \in Nat /\ written \in Nat
      /\ read <= written /\ written <= MaxOutput
  BY HeldSessionAssumption DEF SessionInv, TypeOK
<1>3. read < written => read + 1 \in 1..MaxOutput
  BY <1>2, HeldSessionAssumption
<1>4. Pipe \in Seq(Frames) /\ Len(Pipe) \in Nat
  BY <1>2 DEF Pipe
<1>5. <<"exit", ExitCode>> \in Frames
  BY <1>1, FramesSent
<1>6. read < written => <<"output", read + 1>> \in Frames
  BY <1>3, FramesSent
<1>7. read <= MaxOutput
  BY <1>2, HeldSessionAssumption
<1> QED
  BY <1>1, <1>2, <1>4, <1>5, <1>6, <1>7

(* What the stream looks like to a step that leaves the daemon alone.      *)
LEMMA StreamCases ==
    ASSUME SessionInv, Attached
    PROVE  \/ \E k \in 0..read : Fresh(k)
           \/ \E k \in 0..read : Replaying(k)
           \/ Following /\ ScreenEnd \in 0..read
  BY DEF SessionInv, StreamInv, Following, Tells, Story

(* A frame at the end of the pipe changes nothing at its front.            *)
LEMMA StreamGoesOn ==
    ASSUME SessionInv, Attached,
           UNCHANGED <<thread, eof, screen, ScreenEnd>>, read' \in {read, read + 1},
           Len(Pipe') = Len(Pipe) + 1, \A i \in 1..Len(Pipe) : Pipe'[i] = Pipe[i],
           \A p, k \in Nat : p <= Len(Pipe) /\ Tells(p, k) => Tells(p, k)'
    PROVE  StreamInv'
<1>1. Len(Pipe) \in Nat /\ read \in Nat
  BY PipeTypes
<1>2. ASSUME NEW k \in 0..read PROVE k \in Nat /\ k \in 0..read'
  BY <1>1
<1>3. ASSUME NEW k \in 0..read, Fresh(k) PROVE Fresh(k)'
  <2>1. Len(Pipe) >= 2 /\ Len(Pipe') >= 2 /\ 1 \in 1..Len(Pipe) /\ 2 \in 1..Len(Pipe)
    BY <1>1, <1>3 DEF Fresh
  <2>2. Tells(2, k)'
    BY <1>2, <1>3, <2>1 DEF Fresh
  <2>3. Pipe'[1] = Pipe[1] /\ Pipe'[2] = Pipe[2]
    BY <2>1
  <2> QED
    BY <1>3, <2>1, <2>2, <2>3 DEF Fresh
<1>4. ASSUME NEW k \in 0..read, Replaying(k) PROVE Replaying(k)'
  <2>1. Len(Pipe) >= 1 /\ Len(Pipe') >= 1 /\ 1 \in 1..Len(Pipe)
    BY <1>1, <1>4 DEF Replaying
  <2>2. Tells(1, k)'
    BY <1>2, <1>4, <2>1 DEF Replaying
  <2>3. Pipe'[1] = Pipe[1]
    BY <2>1
  <2> QED
    BY <1>4, <2>1, <2>2, <2>3 DEF Replaying
<1>5. ASSUME Following, ScreenEnd \in 0..read PROVE Following'
  <2>1. Tells(0, ScreenEnd)
    BY <1>5 DEF Following
  <2>2. ScreenEnd \in Nat /\ 0 <= Len(Pipe)
    BY <1>1, <1>5
  <2>3. \A k \in Nat : Tells(0, k) => Tells(0, k)'
    BY <2>2
  <2>4. Story(Pipe', 0, ScreenEnd, read', ExitCode')
    BY <2>1, <2>2, <2>3 DEF Tells
  <2> QED
    BY <1>5, <2>4 DEF Following, Tells
<1> QED
  BY <1>2, <1>3, <1>4, <1>5, StreamCases DEF StreamInv

(* The pipe goes on where the screen ends.                                 *)
LEMMA StreamNext == ASSUME SessionInv, [Next]_vars PROVE StreamInv'
<1>1. ASSUME NEW status \in Codes \cup {"signalled"}, ChildExits(status) PROVE StreamInv'
  <2>1. child = "running" /\ UNCHANGED <<chan, start, thread, eof, screen, read, dpc>>
    BY <1>1 DEF ChildExits, holderVars, connVars, threadVars, daemonVars
  <2>2. Attached' = Attached /\ Pipe' = Pipe /\ ScreenEnd' = ScreenEnd
    BY <2>1 DEF Attached, Pipe, Up, ScreenEnd
  <2>3. CASE Attached
    <3>1. ~Ends(Pipe)
      BY <2>1, <2>3 DEF SessionInv, ExitInv, Exited
    <3>2. ASSUME NEW p \in Nat, NEW k \in Nat, p <= Len(Pipe), Tells(p, k) PROVE Tells(p, k)'
      <4>1. Story(Pipe, p, k, read, ExitCode')
        BY <3>1, <3>2, PipeTypes, StoryAfter DEF Tells
      <4> QED
        BY <2>1, <2>2, <4>1 DEF Tells
    <3> QED
      BY <2>1, <2>2, <2>3, <3>2, StreamCases, PipeTypes DEF StreamInv, Fresh,
         Replaying, Following
  <2> QED
    BY <2>2, <2>3 DEF StreamInv
<1>2. CASE SpawnChild
  <2>1. ~Attached /\ UNCHANGED <<chan, start, thread, dpc>>
    BY <1>2, PipeTypes DEF SpawnChild, SessionInv, HolderInv, Unspawned, Attached,
       Pipe, connVars, threadVars, daemonVars
  <2> QED
    BY <2>1 DEF StreamInv, Attached, Pipe, Up
<1>3. CASE Finish
  <2>1. Finishes
    BY <1>3, FinishOutcome
  <2>2. UNCHANGED <<child, start, thread, eof, screen, dpc>>
    BY <2>1 DEF Finishes, childVars, threadVars, daemonVars
  <2>3. ExitCode' = ExitCode /\ ScreenEnd' = ScreenEnd /\ Up' = Up
    BY <2>2 DEF ExitCode, ScreenEnd, Up
  <2>4. read' = read /\ hold = "finish"
    BY <2>1 DEF Finishes
  <2>5. CASE ~Attached /\ chan' = chan
    BY <2>2, <2>3, <2>5 DEF StreamInv, Attached, Pipe
  <2>6. CASE Attached
             /\ chan' = [chan EXCEPT ![start] = Append(chan[start], <<"exit", ExitCode>>)]
    <3>1. ~Ends(Pipe)
      BY <2>4, <2>6 DEF SessionInv, ExitInv
    <3>2. Pipe' = Append(Pipe, <<"exit", ExitCode>>)
      BY <2>2, <2>6, PipeTypes DEF Pipe
    <3>3. Len(Pipe') = Len(Pipe) + 1 /\ \A i \in 1..Len(Pipe) : Pipe'[i] = Pipe[i]
      BY <3>2, PipeTypes, AppendProperties
    <3>4. ASSUME NEW p \in Nat, NEW k \in Nat, p <= Len(Pipe), Tells(p, k) PROVE Tells(p, k)'
      <4>1. Story(Append(Pipe, <<"exit", ExitCode>>), p, k, read, ExitCode)
        BY <3>1, <3>4, PipeTypes, StoryAfter DEF Tells
      <4> QED
        BY <2>3, <2>4, <3>2, <4>1 DEF Tells
    <3> HIDE DEF Pipe
    <3> QED
      BY <2>2, <2>3, <2>4, <2>6, <3>3, <3>4, StreamGoesOn
  <2> QED
    BY <2>1, <2>5, <2>6 DEF Finishes
<1>4. CASE Accept
  <2>1. PICK d \in Starts : Accepts(d)
    BY <1>4, AcceptOutcome
  <2>2. UNCHANGED <<child, start, thread, eof, screen, dpc, read>>
    BY <2>1 DEF Accepts, childVars, threadVars, daemonVars
  <2>3. ExitCode' = ExitCode /\ ScreenEnd' = ScreenEnd /\ Up' = Up
    BY <2>2 DEF ExitCode, ScreenEnd, Up
  <2>4. CASE Alive(d)
    <3>1. d = start /\ ~Attached
      BY <2>1, <2>4 DEF Accepts, Alive
    <3>2. PICK c \in Codes \cup {NoCode} : Pipe' = << <<"fd", c>>, <<"replay", RingAt(read)>> >>
      BY <2>1, <2>2, <2>4, <3>1, PipeTypes DEF Accepts, Pipe
    <3>3. thread = "none" /\ Len(Pipe') = 2 /\ Pipe'[1][1] = "fd"
          /\ Pipe'[2] = <<"replay", RingAt(read)>>
      BY <2>4, <3>1, <3>2 DEF Attached, Alive
    <3> HIDE DEF Pipe
    <3>4. ~Ends(Pipe')
      BY <3>3 DEF Ends
    <3>5. Story(Pipe', 2, read, read, ExitCode)
      BY <3>3, <3>4, PipeTypes DEF Story
    <3>6. Fresh(read)'
      BY <2>2, <2>3, <3>3, <3>5 DEF Fresh, Tells
    <3> QED
      BY <2>2, <3>6, PipeTypes DEF StreamInv
  <2>5. CASE ~Alive(d)
    BY <2>1, <2>2, <2>3, <2>5 DEF Accepts, Alive, SessionInv, StreamInv, Attached,
       Pipe, Fresh, Replaying, Following, Tells
  <2> QED
    BY <2>4, <2>5
<1>5. CASE ReadMaster
  <2>1. Reads
    BY <1>5, ReadOutcome
  <2>2. UNCHANGED <<child, start, thread, eof, screen, dpc>>
    BY <2>1 DEF Reads, childVars, threadVars, daemonVars
  <2>3. ExitCode' = ExitCode /\ ScreenEnd' = ScreenEnd /\ Up' = Up
    BY <2>2 DEF ExitCode, ScreenEnd, Up
  <2>4. CASE ~Attached /\ chan' = chan
    BY <2>2, <2>3, <2>4 DEF StreamInv, Attached, Pipe
  <2>5. CASE read' = read /\ chan' = chan
    BY <2>2, <2>3, <2>5 DEF SessionInv, StreamInv, Attached, Pipe, Fresh, Replaying,
       Following, Tells
  <2>6. CASE /\ Attached /\ read < written /\ read' = read + 1
             /\ chan' = [chan EXCEPT ![start] = Append(chan[start], <<"output", read + 1>>)]
    <3>1. ~Ends(Pipe)
      BY <2>1, <2>6 DEF Reads, SessionInv, ExitInv
    <3>2. Pipe' = Append(Pipe, <<"output", read + 1>>) /\ <<"output", read + 1>> \in Frames
      BY <2>2, <2>6, PipeTypes DEF Pipe
    <3>3. Len(Pipe') = Len(Pipe) + 1 /\ \A i \in 1..Len(Pipe) : Pipe'[i] = Pipe[i]
      BY <3>2, PipeTypes, AppendProperties
    <3>4. ASSUME NEW p \in Nat, NEW k \in Nat, p <= Len(Pipe), Tells(p, k) PROVE Tells(p, k)'
      <4>1. Story(Append(Pipe, <<"output", read + 1>>), p, k, read + 1, ExitCode)
        BY <3>1, <3>2, <3>4, PipeTypes, StoryAfter DEF Tells
      <4> QED
        BY <2>3, <2>6, <3>2, <4>1 DEF Tells
    <3> HIDE DEF Pipe
    <3> QED
      BY <2>2, <2>3, <2>6, <3>3, <3>4, StreamGoesOn
  <2> QED
    BY <2>1, <2>4, <2>5, <2>6 DEF Reads
<1>6. CASE Handshake
  <2>1. thread = "none" /\ Up /\ Pipe # <<>> /\ Attached /\ screen = <<>> /\ ~eof
    BY <1>6 DEF Handshake, Step, SessionInv, DaemonInv, Attached, Up, Pipe
  <2>2. /\ UNCHANGED <<child, start, eof, screen, read>> /\ thread' = "run"
        /\ chan' = [chan EXCEPT ![start] = Tail(@)]
    BY <1>6 DEF Handshake, childVars, holderVars
  <2>3. PICK k \in 0..read : Fresh(k)
    BY <2>1, StreamCases DEF Replaying, Following
  <2>4. k \in Nat /\ Len(Pipe) >= 2 /\ Pipe' = Tail(Pipe) /\ ExitCode' = ExitCode
    BY <2>2, <2>3, PipeTypes DEF Fresh, Pipe, ExitCode
  <2> HIDE DEF Pipe
  <2>5. Story(Tail(Pipe), 1, k, read, ExitCode)
    <3>1. Story(Tail(Pipe), 2 - 1, k, read, ExitCode)
      BY <2>3, <2>4, PipeTypes, StoryAfter DEF Fresh, Tells
    <3> QED
      BY <3>1
  <2>6. Len(Tail(Pipe)) >= 1 /\ Tail(Pipe)[1] = <<"replay", RingAt(k)>>
    BY <2>3, <2>4, PipeTypes, HeadTailProperties DEF Fresh
  <2>7. Replaying(k)'
    BY <2>1, <2>2, <2>4, <2>5, <2>6 DEF Replaying, Tells
  <2> QED
    BY <2>2, <2>7 DEF StreamInv
<1>7. CASE Frame
  <2>1. Takes
    BY <1>7, FrameOutcome
  <2>2. UNCHANGED <<child, start, thread, read>> /\ thread # "none" /\ ExitCode' = ExitCode
    BY <2>1 DEF Takes, childVars, holderVars, daemonVars, ExitCode
  <2>3. Pipe' = Tail(Pipe) /\ Pipe # <<>> /\ Len(Pipe) >= 1
    BY <2>1, <2>2, PipeTypes DEF Takes, Pipe
  <2> HIDE DEF Pipe
  <2>4. ASSUME NEW k \in 0..read, Replaying(k), screen' = RingAt(k) PROVE Following'
    <3>1. k \in Nat /\ ScreenEnd' = k
      <4>1. k \in Nat
        BY <2>4, PipeTypes
      <4>2. CASE k = 0
        BY <2>4, <4>1, <4>2, RingIsTail DEF ScreenEnd
      <4>3. CASE k # 0
        <5>1. RingAt(k) # <<>> /\ RingAt(k)[Len(RingAt(k))] = k
          BY <4>1, <4>3, RingIsTail
        <5> QED
          BY <2>4, <4>1, <5>1 DEF ScreenEnd
      <4> QED
        BY <4>2, <4>3
    <3>2. ~Ends(Pipe) \/ Len(Pipe) >= 2
      BY <2>3, <2>4, PipeTypes DEF Ends, Replaying
    <3>3. Story(Tail(Pipe), 1 - 1, k, read, ExitCode)
      BY <2>3, <2>4, <3>1, <3>2, PipeTypes, StoryAfter DEF Replaying, Tells
    <3> QED
      BY <2>2, <2>3, <3>1, <3>3 DEF Following, Tells
  <2>5. ASSUME Following, Pipe[1] = <<"output", ScreenEnd + 1>>,
               screen' = Append(screen, ScreenEnd + 1)
        PROVE  Following'
    <3>1. ScreenEnd \in Nat /\ Tells(0, ScreenEnd)
      BY <2>5, PipeTypes DEF Following, Tells, Story
    <3>2. ScreenEnd' = ScreenEnd + 1
      <4>1. screen \in Seq(1..MaxOutput)
        BY DEF SessionInv, TypeOK
      <4>2. screen' # <<>> /\ screen'[Len(screen')] = ScreenEnd + 1
        BY <2>5, <4>1
      <4> QED
        BY <4>2 DEF ScreenEnd
    <3> HIDE DEF ScreenEnd
    <3>4. 0 \in Nat /\ 0 <= Len(Pipe) /\ Story(Pipe, 0, ScreenEnd, read, ExitCode)
      BY <2>3, <3>1 DEF Tells
    <3>3. Story(Tail(Pipe), 0, ScreenEnd + 1, read, ExitCode)
      BY <2>3, <2>5, <3>1, <3>4, PipeTypes, StoryAfter
    <3> QED
      BY <2>2, <2>3, <3>2, <3>3 DEF Following, Tells
  <2>6. ASSUME Following, Len(Pipe) = 1, Pipe[1] = <<"exit", ExitCode>>, screen' = screen
        PROVE  Following'
    <3>1. ScreenEnd \in Nat /\ Tells(0, ScreenEnd) /\ ScreenEnd' = ScreenEnd
      BY <2>6, PipeTypes DEF Following, Tells, Story, ScreenEnd
    <3> HIDE DEF ScreenEnd
    <3>4. 0 \in Nat /\ 0 <= Len(Pipe) /\ Story(Pipe, 0, ScreenEnd, read, ExitCode)
      BY <2>3, <3>1 DEF Tells
    <3>2. Story(Tail(Pipe), 0, ScreenEnd, read, ExitCode)
      BY <2>3, <2>6, <3>1, <3>4, PipeTypes, StoryAfter
    <3> QED
      BY <2>2, <2>3, <3>1, <3>2 DEF Following, Tells
  <2>7. Following'
    BY <2>1, <2>4, <2>5, <2>6 DEF Takes
  <2> QED
    BY <2>7 DEF StreamInv
<1>8. CASE Eof
  <2>1. UNCHANGED <<child, chan, start, thread, screen, read, dpc>> /\ Pipe = <<>>
        /\ thread # "none"
    BY <1>8 DEF Eof, Pipe, childVars, holderVars, connVars, daemonVars
  <2>2. ExitCode' = ExitCode /\ ScreenEnd' = ScreenEnd /\ Pipe' = Pipe /\ Attached' = Attached
    BY <2>1 DEF ExitCode, ScreenEnd, Pipe, Attached, Up
  <2>3. Attached => Following
    BY <2>1, StreamCases DEF Fresh, Replaying
  <2> QED
    BY <2>1, <2>2, <2>3 DEF StreamInv, Following, Tells
<1>9. CASE End
  <2>1. UNCHANGED <<child, chan, start, screen, read, dpc>> /\ eof /\ thread # "none"
        /\ thread' # "none"
    BY <1>9 DEF End, MayEnd, SessionInv, DaemonInv, childVars, holderVars, connVars,
       daemonVars
  <2>2. ExitCode' = ExitCode /\ ScreenEnd' = ScreenEnd /\ Pipe' = Pipe /\ Attached' = Attached
    BY <2>1 DEF ExitCode, ScreenEnd, Pipe, Attached, Up
  <2>3. Attached => Following
    BY <2>1, StreamCases DEF Fresh, Replaying
  <2> QED
    BY <2>1, <2>2, <2>3 DEF StreamInv, Following, Tells
<1>10. CASE Remove
  <2>1. UNCHANGED <<child, chan, start, screen, read, dpc>> /\ eof /\ thread # "none"
        /\ thread' # "none"
    BY <1>10 DEF Remove, MayEnd, SessionInv, DaemonInv, childVars, holderVars,
       connVars, daemonVars
  <2>2. ExitCode' = ExitCode /\ ScreenEnd' = ScreenEnd /\ Pipe' = Pipe /\ Attached' = Attached
    BY <2>1 DEF ExitCode, ScreenEnd, Pipe, Attached, Up
  <2>3. Attached => Following
    BY <2>1, StreamCases DEF Fresh, Replaying
  <2> QED
    BY <2>1, <2>2, <2>3 DEF StreamInv, Following, Tells
<1>11. CASE Crash
  BY <1>11 DEF Crash, StreamInv, Attached, Up
<1>12. CASE Restart
  <2>1. start' = start + 1 /\ UNCHANGED <<chan, thread>> /\ thread = "none" /\ start' \in Starts
    BY <1>12, HeldSessionAssumption DEF Restart, Step, SessionInv, DaemonInv,
       TypeOK, Starts, connVars, threadVars
  <2>2. Pipe' = <<>>
    BY <2>1, HeldSessionAssumption DEF SessionInv, ConnInv, TypeOK, Pipe, Starts
  <2> QED
    BY <2>1, <2>2 DEF StreamInv, Attached
<1>13. CASE Write \/ TtyCloses \/ Bind \/ SpawnFails \/ Top \/ Leave \/ Poll \/ NoMaster \/
             Probe \/ HolderDies \/ Provision \/ Launch \/ Readopt \/ Connect \/
             FindExit \/ GiveUp \/ HandshakeFails \/ Unreachable \/ Insert \/ Record
             \/ UNCHANGED vars
  <2>1. UNCHANGED <<child, chan, start, thread, eof, screen, read>> /\ Up' = Up
    BY <1>13 DEF Write, TtyCloses, Bind, SpawnFails, Top, Leave, Poll, NoMaster,
       Probe, HolderDies, Provision, Launch, Readopt, Connect, FindExit, GiveUp,
       HandshakeFails, Unreachable, Insert, Record, Step, Up, childVars, holderVars,
       connVars, threadVars, daemonVars, vars
  <2> QED
    BY <2>1 DEF SessionInv, StreamInv, Attached, Pipe, Fresh, Replaying, Following,
       Tells, ScreenEnd, ExitCode
<1> QED
  BY <1>1, <1>2, <1>3, <1>4, <1>5, <1>6, <1>7, <1>8, <1>9, <1>10, <1>11, <1>12,
     <1>13 DEF Holder, Daemon, Thread, Environment, Next

(* The exit comes last.                                                    *)
LEMMA ExitNext == ASSUME SessionInv, [Next]_vars PROVE ExitInv'
<1>1. ASSUME NEW status \in Codes \cup {"signalled"}, ChildExits(status) PROVE ExitInv'
  BY <1>1, HeldSessionAssumption DEF ChildExits, SessionInv, TypeOK, ExitInv,
     HolderInv, ConnInv, DaemonInv, ExitCode, Exited, Attached, Pipe, Up, Gone,
     Unspawned, Step, childVars, holderVars, connVars, threadVars, daemonVars, vars
<1>2. CASE SpawnChild
  BY <1>2, HeldSessionAssumption DEF SpawnChild, SessionInv, TypeOK, ExitInv,
     HolderInv, ConnInv, DaemonInv, ExitCode, Exited, Attached, Pipe, Up, Gone,
     Unspawned, Step, childVars, holderVars, connVars, threadVars, daemonVars, vars
<1>3. CASE SpawnFails
  BY <1>3, HeldSessionAssumption DEF SpawnFails, SessionInv, TypeOK, ExitInv,
     HolderInv, ConnInv, DaemonInv, ExitCode, Exited, Attached, Pipe, Up, Gone,
     Unspawned, Step, childVars, holderVars, connVars, threadVars, daemonVars, vars
<1>4. CASE Top
  BY <1>4, HeldSessionAssumption DEF Top, SessionInv, TypeOK, ExitInv, HolderInv,
     ConnInv, DaemonInv, ExitCode, Exited, Attached, Pipe, Up, Gone, Unspawned,
     Step, childVars, holderVars, connVars, threadVars, daemonVars, vars
<1>5. CASE Finish
  <2>1. Finishes
    BY <1>5, FinishOutcome
  <2>2. /\ UNCHANGED <<child, start, thread, eof, exitSeen, dpc, drained>>
        /\ hold = "finish" /\ hold' = "leaving"
    BY <2>1 DEF Finishes, childVars, threadVars, daemonVars
  <2>3. Exited /\ Exited' /\ drained /\ ~eof
    BY <2>2 DEF SessionInv, HolderInv, ExitInv, Exited
  <2>4. CASE ~Attached /\ chan' = chan
    <3>1. ~Attached'
      BY <2>2, <2>4 DEF Attached, Pipe, Up
    <3> QED
      BY <2>2, <2>3, <3>1 DEF ExitInv
  <2>5. CASE chan' = [chan EXCEPT ![start] = Append(chan[start], <<"exit", ExitCode>>)]
    <3>1. Pipe' = Append(Pipe, <<"exit", ExitCode>>)
      BY <2>2, <2>5, PipeTypes DEF Pipe
    <3> HIDE DEF Pipe
    <3>2. Ends(Pipe')
      <4>1. <<"exit", ExitCode>>[1] = "exit"
        OBVIOUS
      <4> QED
        BY <3>1, <4>1, PipeTypes, EndsAfter
    <3> QED
      BY <2>2, <2>3, <3>2 DEF ExitInv
  <2> QED
    BY <2>1, <2>4, <2>5 DEF Finishes
<1>6. CASE Leave
  BY <1>6, HeldSessionAssumption DEF Leave, SessionInv, TypeOK, ExitInv, HolderInv,
     ConnInv, DaemonInv, ExitCode, Exited, Attached, Pipe, Up, Gone, Unspawned,
     Step, childVars, holderVars, connVars, threadVars, daemonVars, vars
<1>7. CASE Poll
  BY <1>7, HeldSessionAssumption DEF Poll, SessionInv, TypeOK, ExitInv, HolderInv,
     ConnInv, DaemonInv, ExitCode, Exited, Attached, Pipe, Up, Gone, Unspawned,
     Step, childVars, holderVars, connVars, threadVars, daemonVars, vars
<1>8. CASE Accept
  <2>1. PICK d \in Starts : Accepts(d)
    BY <1>8, AcceptOutcome
  <2>2. /\ UNCHANGED <<child, start, thread, eof, exitSeen, dpc, drained>>
        /\ hold = "serve" /\ hold' = "top"
    BY <2>1 DEF Accepts, childVars, threadVars, daemonVars
  <2>3. ~eof
    BY <2>2 DEF SessionInv, ExitInv
  <2>4. CASE Alive(d)
    <3>1. PICK c \in Codes \cup {NoCode} : Pipe' = << <<"fd", c>>, <<"replay", RingAt(read)>> >>
      BY <2>1, <2>2, <2>4, PipeTypes DEF Accepts, Pipe, Alive
    <3> HIDE DEF Pipe
    <3>2. ~Ends(Pipe')
      BY <3>1 DEF Ends
    <3> QED
      BY <2>2, <2>3, <3>2 DEF ExitInv
  <2>5. CASE ~Alive(d)
    <3>1. chan' = chan
      BY <2>1, <2>5 DEF Accepts, Alive
    <3> QED
      BY <2>2, <2>3, <3>1 DEF SessionInv, ExitInv, Attached, Pipe, Up
  <2> QED
    BY <2>4, <2>5
<1>9. CASE ReadMaster
  <2>1. Reads
    BY <1>9, ReadOutcome
  <2>2. /\ UNCHANGED <<child, start, thread, eof, exitSeen, dpc>>
        /\ hold = "serve" /\ hold' = "probe"
    BY <2>1 DEF Reads, childVars, threadVars, daemonVars
  <2>3. ~eof
    BY <2>2 DEF SessionInv, ExitInv
  <2>4. CASE chan' = chan
    BY <2>2, <2>3, <2>4 DEF SessionInv, ExitInv, Attached, Pipe, Up
  <2>5. CASE read < written
             /\ chan' = [chan EXCEPT ![start] = Append(chan[start], <<"output", read + 1>>)]
    <3>1. Pipe' = Append(Pipe, <<"output", read + 1>>)
      BY <2>2, <2>5, PipeTypes DEF Pipe
    <3> HIDE DEF Pipe
    <3>2. ~Ends(Pipe')
      <4>1. <<"output", read + 1>>[1] # "exit"
        OBVIOUS
      <4> QED
        BY <2>5, <3>1, <4>1, PipeTypes, EndsAfter
    <3> QED
      BY <2>2, <2>3, <3>2 DEF ExitInv
  <2> QED
    BY <2>1, <2>4, <2>5 DEF Reads
<1>10. CASE NoMaster
  BY <1>10, HeldSessionAssumption DEF NoMaster, SessionInv, TypeOK, ExitInv,
     HolderInv, ConnInv, DaemonInv, ExitCode, Exited, Attached, Pipe, Up, Gone,
     Unspawned, Step, childVars, holderVars, connVars, threadVars, daemonVars, vars
<1>11. CASE Probe
  BY <1>11, HeldSessionAssumption DEF Probe, SessionInv, TypeOK, ExitInv, HolderInv,
     ConnInv, DaemonInv, ExitCode, Exited, Attached, Pipe, Up, Gone, Unspawned,
     Step, childVars, holderVars, connVars, threadVars, daemonVars, vars
<1>12. CASE HolderDies
  BY <1>12, HeldSessionAssumption DEF HolderDies, SessionInv, TypeOK, ExitInv,
     HolderInv, ConnInv, DaemonInv, ExitCode, Exited, Attached, Pipe, Up, Gone,
     Unspawned, Step, childVars, holderVars, connVars, threadVars, daemonVars, vars
<1>13. CASE Bind
  BY <1>13, HeldSessionAssumption DEF Bind, SessionInv, TypeOK, ExitInv, HolderInv,
     ConnInv, DaemonInv, ExitCode, Exited, Attached, Pipe, Up, Gone, Unspawned,
     Step, childVars, holderVars, connVars, threadVars, daemonVars, vars
<1>14. CASE Launch
  BY <1>14, HeldSessionAssumption DEF Launch, SessionInv, TypeOK, ExitInv,
     HolderInv, ConnInv, DaemonInv, ExitCode, Exited, Attached, Pipe, Up, Gone,
     Unspawned, Step, childVars, holderVars, connVars, threadVars, daemonVars, vars
<1>15. CASE Handshake
  <2>1. thread = "none" /\ Up /\ Pipe # <<>> /\ Attached /\ ~eof
    BY <1>15 DEF Handshake, Step, SessionInv, DaemonInv, Attached, Up, Pipe
  <2>2. /\ UNCHANGED <<child, start, eof, drained, hold>> /\ thread' = "run"
        /\ chan' = [chan EXCEPT ![start] = Tail(@)]
    BY <1>15 DEF Handshake, childVars, holderVars
  <2>3. Len(Pipe) >= 2
    BY <2>1, StreamCases DEF Fresh, Replaying, Following
  <2>4. Pipe' = Tail(Pipe)
    BY <2>2, PipeTypes DEF Pipe
  <2> HIDE DEF Pipe
  <2>5. Ends(Pipe') <=> Ends(Pipe)
    BY <2>3, <2>4, PipeTypes, EndsAfter
  <2> QED
    BY <2>1, <2>2, <2>5 DEF SessionInv, ExitInv, Exited
<1>16. CASE Frame
  <2>1. Takes
    BY <1>16, FrameOutcome
  <2>2. UNCHANGED <<child, start, thread, hold, drained, dpc>> /\ thread = "run" /\ ~eof
        /\ Attached
    BY <2>1 DEF Takes, childVars, holderVars, daemonVars, Attached, Up, SessionInv,
       DaemonInv
  <2>3. Pipe' = Tail(Pipe) /\ Pipe # <<>> /\ Len(Pipe) >= 1
    BY <2>1, <2>2, PipeTypes DEF Takes, Pipe
  <2> HIDE DEF Pipe
  <2>4. CASE ~eof' /\ (~Ends(Pipe) \/ Len(Pipe) >= 2)
    <3>1. Ends(Pipe') <=> Ends(Pipe)
      <4>1. \A n \in Nat : n >= 1 => n = 1 \/ n >= 2
        OBVIOUS
      <4> QED
        BY <2>3, <2>4, <4>1, PipeTypes, EndsAfter
    <3> QED
      BY <2>2, <2>4, <3>1 DEF SessionInv, ExitInv, Exited
  <2>5. CASE eof' /\ exitSeen' = ExitCode /\ Ends(Pipe) /\ Len(Pipe) = 1
    <3>1. Pipe' = <<>>
      <4>1. Pipe' \in Seq(Frames) /\ Len(Pipe') = 0
        BY <2>3, <2>5, PipeTypes, HeadTailProperties
      <4> QED
        BY <4>1, EmptySeq
    <3>2. Exited /\ drained /\ hold \in {"leaving", "gone", "killed"}
      BY <2>2, <2>5 DEF SessionInv, ExitInv
    <3>3. ~Ends(Pipe') /\ ExitCode' = ExitCode /\ Exited'
      BY <2>2, <3>1, <3>2 DEF Ends, ExitCode, Exited
    <3> QED
      BY <2>2, <2>5, <3>1, <3>2, <3>3 DEF ExitInv
  <2>6. Pipe[1][1] # "exit" => ~Ends(Pipe) \/ Len(Pipe) >= 2
    <3>1. \A n \in Nat : n >= 1 => n = 1 \/ n >= 2
      OBVIOUS
    <3> QED
      BY <2>3, <3>1, PipeTypes DEF Ends
  <2>7. Len(Pipe) = 1 /\ Pipe[1] = <<"exit", ExitCode>> => Ends(Pipe)
    BY <2>3 DEF Ends
  <2>8. CASE \E k \in 0..read : Replaying(k) /\ screen' = RingAt(k) /\ UNCHANGED <<exitSeen, eof>>
    BY <2>2, <2>4, <2>6, <2>8 DEF Replaying
  <2>9. CASE Pipe[1] = <<"output", ScreenEnd + 1>> /\ UNCHANGED <<exitSeen, eof>>
    BY <2>2, <2>4, <2>6, <2>9
  <2>10. CASE Len(Pipe) = 1 /\ Pipe[1] = <<"exit", ExitCode>> /\ exitSeen' = ExitCode
              /\ eof' = TRUE
    BY <2>5, <2>7, <2>10
  <2> QED
    BY <2>1, <2>8, <2>9, <2>10 DEF Takes
<1>17. CASE Eof
  <2>1. UNCHANGED <<child, chan, start, thread, hold, drained, dpc, exitSeen>>
        /\ Pipe = <<>> /\ thread = "run" /\ ~eof /\ eof'
    BY <1>17 DEF Eof, Pipe, childVars, holderVars, connVars, daemonVars
  <2>2. Attached /\ hold \in Gone
    BY <1>17, <2>1 DEF Eof, SessionInv, DaemonInv, ConnInv, Attached, Up
  <2>3. hold = "killed"
    BY <2>1, <2>2 DEF SessionInv, ExitInv, Ends, Gone
  <2> QED
    BY <2>1, <2>3 DEF ExitInv, Pipe, Ends
<1>18. CASE Crash
  BY <1>18, HeldSessionAssumption DEF Crash, SessionInv, TypeOK, ExitInv, HolderInv,
     ConnInv, DaemonInv, ExitCode, Exited, Attached, Pipe, Up, Gone, Unspawned,
     Step, childVars, holderVars, connVars, threadVars, daemonVars, vars
<1>19. CASE Restart
  <2>1. start' = start + 1 /\ UNCHANGED <<chan, thread, eof>> /\ thread = "none" /\ ~eof
        /\ start' \in Starts
    BY <1>19, HeldSessionAssumption DEF Restart, Step, SessionInv, DaemonInv,
       TypeOK, Starts, connVars, threadVars
  <2>2. Pipe' = <<>>
    BY <2>1, HeldSessionAssumption DEF SessionInv, ConnInv, TypeOK, Pipe, Starts
  <2> QED
    BY <2>1, <2>2 DEF ExitInv, Attached
<1>20. CASE End
  BY <1>20, HeldSessionAssumption DEF End, SessionInv, TypeOK, ExitInv, HolderInv,
     ConnInv, DaemonInv, ExitCode, Exited, Attached, Pipe, Up, Gone, Unspawned,
     Step, childVars, holderVars, connVars, threadVars, daemonVars, vars
<1>21. CASE Remove
  BY <1>21, HeldSessionAssumption DEF Remove, SessionInv, TypeOK, ExitInv,
     HolderInv, ConnInv, DaemonInv, ExitCode, Exited, Attached, Pipe, Up, Gone,
     Unspawned, Step, childVars, holderVars, connVars, threadVars, daemonVars, vars
<1>22. CASE Write \/ TtyCloses \/ Provision \/ Readopt \/ Connect \/ FindExit \/ GiveUp \/
             HandshakeFails \/ Unreachable \/ Insert \/ Record \/ UNCHANGED vars
  <2>1. UNCHANGED <<child, chan, start, thread, hold, drained, eof, exitSeen>> /\ Up' = Up
    BY <1>22 DEF Write, TtyCloses, Provision, Readopt, Connect, FindExit, GiveUp,
       HandshakeFails, Unreachable, Insert, Record, Step, Up, childVars, holderVars,
       connVars, threadVars, daemonVars, vars
  <2> QED
    BY <2>1 DEF SessionInv, ExitInv, ExitCode, Exited, Attached, Pipe
<1> QED
  BY <1>1, <1>2, <1>3, <1>4, <1>5, <1>6, <1>7, <1>8, <1>9, <1>10, <1>11, <1>12,
     <1>13, <1>14, <1>15, <1>16, <1>17, <1>18, <1>19, <1>20, <1>21, <1>22 DEF
     Holder, Daemon, Thread, Environment, Next

(* The screen keeps its order.                                             *)
LEMMA ScreenNext == ASSUME SessionInv, [Next]_vars PROVE ScreenIsOutput'
<1>1. CASE Frame
  <2>1. Takes
    BY <1>1, FrameOutcome
  <2>2. read' = read /\ read \in Nat
    BY <2>1, HeldSessionAssumption DEF Takes, holderVars, SessionInv, TypeOK
  <2>3. ASSUME NEW k \in 0..read, screen' = RingAt(k) PROVE ScreenIsOutput'
    <3>1. k \in Nat
      BY <2>2
    <3>2. ASSUME NEW i \in 1..Len(RingAt(k))
          PROVE  /\ RingAt(k)[i] = RingAt(k)[1] + i - 1
                 /\ RingAt(k)[1] = 1 \/ RingAt(k)[1] <= read - RingChunks + 1
      <4>1. k # 0
        BY <3>1, RingIsTail
      <4>2. RingAt(k)[1] = 1 \/ RingAt(k)[1] = k - RingChunks + 1
        BY <3>1, <4>1, RingIsTail
      <4>3. k - RingChunks + 1 <= read - RingChunks + 1
        BY <2>2, HeldSessionAssumption
      <4>4. RingAt(k)[i] = RingAt(k)[1] + i - 1
        BY <3>1, <3>2, RingIsTail
      <4> QED
        BY <4>2, <4>3, <4>4
    <3> QED
      BY <2>2, <2>3, <3>2 DEF ScreenIsOutput
  <2>4. ASSUME screen' = Append(screen, ScreenEnd + 1) PROVE ScreenIsOutput'
    <3> DEFINE n == Len(screen)
    <3>1. screen \in Seq(1..MaxOutput) /\ n \in Nat /\ MaxOutput \in Nat
      BY HeldSessionAssumption DEF SessionInv, TypeOK
    <3>2. Len(screen') = n + 1 /\ screen'[n + 1] = ScreenEnd + 1
          /\ \A i \in 1..n : screen'[i] = screen[i]
      BY <2>4, <3>1
    <3>3. \A i \in 1..n :
            /\ screen[i] = screen[1] + i - 1
            /\ screen[1] = 1 \/ screen[1] <= read - RingChunks + 1
      BY DEF SessionInv, ScreenIsOutput
    <3>4. ScreenEnd = IF n = 0 THEN 0 ELSE screen[n]
      BY <3>1 DEF ScreenEnd
    <3>5. \A i \in 1..n : screen[i] \in Nat
      BY <3>1
    <3> HIDE DEF n
    <3>6. CASE n = 0
      BY <2>2, <3>1, <3>2, <3>4, <3>6 DEF ScreenIsOutput
    <3>7. CASE n # 0
      <4>1. 1 \in 1..n /\ n \in 1..n
        BY <3>1, <3>7
      <4>2. screen[n] = screen[1] + n - 1 /\ screen[1] \in Nat
        BY <3>3, <3>5, <4>1
      <4>3. screen'[n + 1] = screen[1] + (n + 1) - 1
        BY <3>1, <3>2, <3>4, <3>7, <4>2
      <4>4. ASSUME NEW i \in 1..n + 1
            PROVE  /\ screen'[i] = screen'[1] + i - 1
                   /\ screen'[1] = 1 \/ screen'[1] <= read' - RingChunks + 1
        <5>1. screen'[1] = screen[1]
          BY <3>2, <4>1
        <5>2. i = n + 1 \/ i \in 1..n
          BY <3>1
        <5> QED
          BY <2>2, <3>2, <3>3, <4>1, <4>3, <5>1, <5>2
      <4> QED
        BY <3>2, <4>4 DEF ScreenIsOutput
    <3> QED
      BY <3>6, <3>7
  <2>5. CASE screen' = screen
    BY <2>2, <2>5 DEF SessionInv, ScreenIsOutput
  <2> QED
    BY <2>1, <2>3, <2>4, <2>5 DEF Takes
<1>2. CASE ReadMaster
  <2>1. Reads
    BY <1>2, ReadOutcome
  <2>2. screen' = screen /\ (read' = read \/ read' = read + 1)
    BY <2>1 DEF Reads, threadVars
  <2>3. read \in Nat /\ RingChunks \in Nat /\ screen \in Seq(1..MaxOutput)
    BY HeldSessionAssumption DEF SessionInv, TypeOK
  <2>4. ASSUME NEW i \in 1..Len(screen)
        PROVE  /\ screen[i] = screen[1] + i - 1
               /\ screen[1] = 1 \/ screen[1] <= read' - RingChunks + 1
    <3>1. screen[1] \in Nat
      BY <2>3, <2>4, HeldSessionAssumption
    <3> QED
      BY <2>2, <2>3, <3>1 DEF SessionInv, ScreenIsOutput
  <2> QED
    BY <2>2, <2>4 DEF ScreenIsOutput
<1>3. CASE Crash
  BY <1>3 DEF Crash, ScreenIsOutput
<1>4. CASE Write \/ (\E status \in Codes \cup {"signalled"} : ChildExits(status)) \/ TtyCloses
             \/ Bind \/ SpawnChild \/ SpawnFails \/ Top \/ Finish \/ Leave \/ Poll
             \/ Accept \/ NoMaster \/ Probe \/ HolderDies \/ Provision \/ Launch \/
             Readopt \/ Connect \/ FindExit \/ GiveUp \/ HandshakeFails \/
             Unreachable \/ Handshake \/ Insert \/ Record \/ Eof \/ End \/ Remove \/
             Restart \/ UNCHANGED vars
  <2>1. UNCHANGED <<screen, read>>
    BY <1>4 DEF Write, ChildExits, TtyCloses, Bind, SpawnChild, SpawnFails, Top,
       Finish, Leave, Poll, Accept, NoMaster, Probe, HolderDies, Provision, Launch,
       Readopt, Connect, FindExit, GiveUp, HandshakeFails, Unreachable, Handshake,
       Insert, Record, Eof, End, Remove, Restart, Step, childVars, holderVars,
       connVars, threadVars, daemonVars, vars
  <2> QED
    BY <2>1 DEF SessionInv, ScreenIsOutput
<1> QED
  BY <1>1, <1>2, <1>3, <1>4 DEF Holder, Daemon, Thread, Environment, Next

(* An end is an exit.                                                      *)
LEMMA EndedNext == ASSUME SessionInv, [Next]_vars PROVE EndedIsTrue'
<1>1. ASSUME NEW status \in Codes \cup {"signalled"}, ChildExits(status) PROVE EndedIsTrue'
  BY <1>1, HeldSessionAssumption DEF ChildExits, SessionInv, TypeOK, HolderInv,
     DaemonInv, EndedIsTrue, Unspawned, Gone, Exited, ExitCode, Step, childVars,
     holderVars, connVars, threadVars, daemonVars, vars
<1>2. CASE Bind
  BY <1>2, HeldSessionAssumption DEF Bind, SessionInv, TypeOK, HolderInv, DaemonInv,
     EndedIsTrue, Unspawned, Gone, Exited, ExitCode, Step, childVars, holderVars,
     connVars, threadVars, daemonVars, vars
<1>3. CASE SpawnChild
  BY <1>3, HeldSessionAssumption DEF SpawnChild, SessionInv, TypeOK, HolderInv,
     DaemonInv, EndedIsTrue, Unspawned, Gone, Exited, ExitCode, Step, childVars,
     holderVars, connVars, threadVars, daemonVars, vars
<1>4. CASE SpawnFails
  BY <1>4, HeldSessionAssumption DEF SpawnFails, SessionInv, TypeOK, HolderInv,
     DaemonInv, EndedIsTrue, Unspawned, Gone, Exited, ExitCode, Step, childVars,
     holderVars, connVars, threadVars, daemonVars, vars
<1>5. CASE Top
  BY <1>5, HeldSessionAssumption DEF Top, SessionInv, TypeOK, HolderInv, DaemonInv,
     EndedIsTrue, Unspawned, Gone, Exited, ExitCode, Step, childVars, holderVars,
     connVars, threadVars, daemonVars, vars
<1>6. CASE Finish
  BY <1>6, HeldSessionAssumption DEF Finish, SessionInv, TypeOK, HolderInv,
     DaemonInv, EndedIsTrue, Unspawned, Gone, Exited, ExitCode, Step, childVars,
     holderVars, connVars, threadVars, daemonVars, vars
<1>7. CASE Leave
  BY <1>7, HeldSessionAssumption DEF Leave, SessionInv, TypeOK, HolderInv,
     DaemonInv, EndedIsTrue, Unspawned, Gone, Exited, ExitCode, Step, childVars,
     holderVars, connVars, threadVars, daemonVars, vars
<1>8. CASE Poll
  BY <1>8, HeldSessionAssumption DEF Poll, SessionInv, TypeOK, HolderInv, DaemonInv,
     EndedIsTrue, Unspawned, Gone, Exited, ExitCode, Step, childVars, holderVars,
     connVars, threadVars, daemonVars, vars
<1>9. CASE Accept
  BY <1>9, HeldSessionAssumption DEF Accept, SessionInv, TypeOK, HolderInv,
     DaemonInv, EndedIsTrue, Unspawned, Gone, Exited, ExitCode, Step, childVars,
     holderVars, connVars, threadVars, daemonVars, vars
<1>10. CASE ReadMaster
  BY <1>10, HeldSessionAssumption DEF ReadMaster, SessionInv, TypeOK, HolderInv,
     DaemonInv, EndedIsTrue, Unspawned, Gone, Exited, ExitCode, Step, childVars,
     holderVars, connVars, threadVars, daemonVars, vars
<1>11. CASE NoMaster
  BY <1>11, HeldSessionAssumption DEF NoMaster, SessionInv, TypeOK, HolderInv,
     DaemonInv, EndedIsTrue, Unspawned, Gone, Exited, ExitCode, Step, childVars,
     holderVars, connVars, threadVars, daemonVars, vars
<1>12. CASE Probe
  BY <1>12, HeldSessionAssumption DEF Probe, SessionInv, TypeOK, HolderInv,
     DaemonInv, EndedIsTrue, Unspawned, Gone, Exited, ExitCode, Step, childVars,
     holderVars, connVars, threadVars, daemonVars, vars
<1>13. CASE HolderDies
  BY <1>13, HeldSessionAssumption DEF HolderDies, SessionInv, TypeOK, HolderInv,
     DaemonInv, EndedIsTrue, Unspawned, Gone, Exited, ExitCode, Step, childVars,
     holderVars, connVars, threadVars, daemonVars, vars
<1>14. CASE Launch
  BY <1>14, HeldSessionAssumption DEF Launch, SessionInv, TypeOK, HolderInv,
     DaemonInv, EndedIsTrue, Unspawned, Gone, Exited, ExitCode, Step, childVars,
     holderVars, connVars, threadVars, daemonVars, vars
<1>15. CASE Provision
  BY <1>15, HeldSessionAssumption DEF Provision, SessionInv, TypeOK, HolderInv,
     DaemonInv, EndedIsTrue, Unspawned, Gone, Exited, ExitCode, Step, childVars,
     holderVars, connVars, threadVars, daemonVars, vars
<1>16. CASE FindExit
  BY <1>16, HeldSessionAssumption DEF FindExit, SessionInv, TypeOK, HolderInv,
     DaemonInv, EndedIsTrue, Unspawned, Gone, Exited, ExitCode, Step, childVars,
     holderVars, connVars, threadVars, daemonVars, vars
<1>17. CASE Unreachable
  BY <1>17, HeldSessionAssumption DEF Unreachable, SessionInv, TypeOK, HolderInv,
     DaemonInv, EndedIsTrue, Unspawned, Gone, Exited, ExitCode, Step, childVars,
     holderVars, connVars, threadVars, daemonVars, vars
<1>18. CASE Record
  BY <1>18, HeldSessionAssumption DEF Record, SessionInv, TypeOK, HolderInv,
     DaemonInv, EndedIsTrue, Unspawned, Gone, Exited, ExitCode, Step, childVars,
     holderVars, connVars, threadVars, daemonVars, vars
<1>19. CASE End
  <2>1. UNCHANGED <<hold, child>> /\ thread = "run" /\ eof
    BY <1>19 DEF End, MayEnd, holderVars, childVars
  <2>2. hold # "killed" => Exited /\ exitSeen = ExitCode
    BY <2>1 DEF SessionInv, ExitInv
  <2>3. row'.exit = IF exitSeen = Unset THEN NoCode ELSE exitSeen
    BY <1>19 DEF End, SessionInv, TypeOK
  <2> QED
    BY <2>1, <2>2, <2>3 DEF EndedIsTrue, Exited, ExitCode
<1>20. CASE Write \/ TtyCloses \/ Readopt \/ Connect \/ GiveUp \/ HandshakeFails \/ Handshake \/
             Insert \/ Frame \/ Eof \/ Remove \/ Crash \/ Restart \/ UNCHANGED vars
  <2>1. UNCHANGED <<hold, child, row>>
    BY <1>20 DEF Write, TtyCloses, Readopt, Connect, GiveUp, HandshakeFails,
       Handshake, Insert, Frame, Eof, Remove, Crash, Restart, Step, childVars,
       holderVars, connVars, threadVars, daemonVars, vars
  <2> QED
    BY <2>1 DEF SessionInv, EndedIsTrue, Exited, ExitCode
<1> QED
  BY <1>1, <1>2, <1>3, <1>4, <1>5, <1>6, <1>7, <1>8, <1>9, <1>10, <1>11, <1>12,
     <1>13, <1>14, <1>15, <1>16, <1>17, <1>18, <1>19, <1>20 DEF Holder, Daemon,
     Thread, Environment, Next

-----------------------------------------------------------------------------
(* It holds at the start.                                                  *)
LEMMA InvInit == Init => SessionInv
<1> SUFFICES ASSUME Init PROVE SessionInv
  OBVIOUS
<1>1. TypeOK
  <2>1. /\ conn \in [Starts -> {"none", "queued", "open", "closed"}]
        /\ chan \in [Starts -> Seq(Frames)] /\ screen \in Seq(1..MaxOutput)
    BY DEF Init
  <2>2. start \in Starts /\ written \in 0..MaxOutput /\ read \in 0..written
    BY HeldSessionAssumption DEF Init, Starts
  <2>3. /\ ttyOpen \in BOOLEAN /\ reaped \in BOOLEAN /\ drained \in BOOLEAN
        /\ creating \in BOOLEAN /\ handle \in BOOLEAN /\ eof \in BOOLEAN
    BY DEF Init
  <2> QED
    BY <2>1, <2>2, <2>3 DEF Init, TypeOK, Status
<1>2. HolderInv /\ PollInv /\ ConnInv /\ DaemonInv
  BY <1>1, HeldSessionAssumption DEF Init, TypeOK, HolderInv, PollInv, ConnInv, DaemonInv,
     Unspawned, Gone, Exited, Attached, Pipe, Up, Starts
<1>3. StreamInv /\ ExitInv
  BY <1>1 DEF Init, TypeOK, StreamInv, ExitInv, Attached, Pipe
<1>4. ScreenIsOutput /\ EndedIsTrue
  BY DEF Init, ScreenIsOutput, EndedIsTrue
<1> QED
  BY <1>1, <1>2, <1>3, <1>4 DEF SessionInv

(* Every step keeps it.                                                    *)
LEMMA InvHolds == Spec => []SessionInv
<1>1. SessionInv /\ [Next]_vars => SessionInv'
  BY TypeNext, HolderNext, PollNext, ConnNext, DaemonNext, StreamNext, ExitNext, ScreenNext,
     EndedNext DEF SessionInv
<1> QED
  BY <1>1, InvInit, PTL DEF Spec

(* Each variable of the session, its holder and its daemon stays of its    *)
(* type, however often the daemon is started again.                        *)
THEOREM TypeCorrect == Spec => []TypeOK
<1>1. SessionInv => TypeOK
  BY DEF SessionInv
<1> QED
  BY <1>1, InvHolds, PTL

(* Replay and live output join on the screen without a gap or a            *)
(* repetition: the ring the holder sends (hold.rs, ring and main) goes     *)
(* before what it reads next, for every daemon that comes.                 *)
THEOREM ScreenIsOutputHolds == Spec => []ScreenIsOutput
<1>1. SessionInv => ScreenIsOutput
  BY DEF SessionInv
<1> QED
  BY <1>1, InvHolds, PTL

(* What the story of a pipe that is empty says of the screen.              *)
LEMMA CaughtUp ==
    ASSUME SessionInv, Up, thread # "none", Pipe = <<>>
    PROVE  ScreenEnd = read
<1>1. Attached
  BY DEF Attached
<1>2. Following /\ ScreenEnd \in 0..read /\ read \in Nat
  BY <1>1, StreamCases, PipeTypes DEF Fresh, Replaying
<1>3. ~Ends(Pipe) /\ Len(Pipe) = 0
  BY DEF Ends
<1> HIDE DEF ScreenEnd, Pipe
<1>4. ScreenEnd + Len(Pipe) - 0 = read
  BY <1>2, <1>3 DEF Following, Tells, Story
<1> QED
  BY <1>2, <1>3, <1>4

(* A daemon that has taken in what was sent shows all the holder has read. *)
LEMMA GridFollows == SessionInv => GridIsCurrent
<1> SUFFICES ASSUME SessionInv, thread = "run", chan[start] = <<>>, read > 0
             PROVE  screen # <<>> /\ screen[Len(screen)] = read
  BY DEF GridIsCurrent
<1>1. Up
  BY DEF SessionInv, DaemonInv, Up
<1>2. ScreenEnd = read
  BY <1>1, CaughtUp DEF Pipe
<1> QED
  BY <1>2 DEF ScreenEnd

(* A session ends when its child has exited, with the child's code, and    *)
(* the last thing the child wrote is on the screen.                        *)
LEMMA EndFollows == SessionInv => EndsDrained
<1> SUFFICES ASSUME SessionInv, thread \in {"stored", "done"}, hold # "killed"
             PROVE  /\ Exited /\ ~ttyOpen /\ exitSeen = ExitCode
                    /\ written > 0 => screen # <<>> /\ screen[Len(screen)] = written
  BY DEF EndsDrained
<1>1. Up /\ eof
  BY DEF SessionInv, DaemonInv, Up
<1>2. Exited /\ drained /\ exitSeen = ExitCode /\ Pipe = <<>>
  BY <1>1 DEF SessionInv, ExitInv
<1>3. ~ttyOpen /\ read = written
  BY <1>2 DEF SessionInv, HolderInv
<1>4. ScreenEnd = written
  BY <1>1, <1>2, <1>3, CaughtUp
<1> QED
  BY <1>2, <1>3, <1>4 DEF ScreenEnd

(* The session thread ends a session only after its child (session.rs,     *)
(* run): drained, with the reported code, unless the holder was killed.    *)
THEOREM EndsDrainedHolds == Spec => []EndsDrained
  BY InvHolds, EndFollows, PTL

(* What the run checks: screen, row and exit code are true to the child.   *)
THEOREM SessionIsTrueHolds == Spec => []SessionIsTrue
<1>1. SessionInv => SessionIsTrue
  BY GridFollows, EndFollows DEF SessionInv, SessionIsTrue
<1> QED
  BY <1>1, InvHolds, PTL

(* An end is final: nothing a later daemon writes to the row               *)
(* (sessions.rs, upsert_session) makes an ended session live again.        *)
THEOREM EndIsFinalHolds == Spec => EndIsFinal
<1>1. SessionInv /\ [Next]_vars => (row.ended => row'.ended)
  <2> SUFFICES ASSUME SessionInv, [Next]_vars, row.ended PROVE row'.ended
    OBVIOUS
  <2>1. CASE Provision \/ FindExit \/ Unreachable \/ Record \/ End
    BY <2>1 DEF Provision, FindExit, Unreachable, Record, End, SessionInv, TypeOK
  <2>2. CASE ~(Provision \/ FindExit \/ Unreachable \/ Record \/ End)
    <3>1. row' = row
      BY <2>2 DEF Next, Holder, Daemon, Thread, Environment, Write, ChildExits, TtyCloses,
         Bind, SpawnChild, SpawnFails, Top, Finish, Leave, Poll, Accept, ReadMaster,
         NoMaster, Probe, HolderDies, Launch, Readopt, Connect, GiveUp, HandshakeFails,
         Handshake, Insert, Frame, Eof, Remove, Crash, Restart, vars
    <3> QED
      BY <3>1
  <2> QED
    BY <2>1, <2>2
<1> QED
  BY <1>1, InvHolds, PTL DEF Spec, EndIsFinal
=============================================================================
