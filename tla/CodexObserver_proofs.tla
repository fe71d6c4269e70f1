----------------------- MODULE CodexObserver_proofs -----------------------
(***************************************************************************)
(* Proofs about CodexObserver, for any number of threads, requests and     *)
(* decisions, and however often the daemon restarts.                       *)
(***************************************************************************)
EXTENDS CodexObserver, FiniteSetTheorems, TLAPS

-----------------------------------------------------------------------------
(***************************************************************************)
(* The invariant.  Of a queue it says whether there is a message of some   *)
(* set in it, or two.                                                      *)
(***************************************************************************)
Without(q, M) == \A i \in DOMAIN q : q[i] \notin M
OnceAtMost(q, M) == \A i, j \in DOMAIN q : q[i] \in M /\ q[j] \in M => i = j

(* Messages: calls of the observer, and what the server sends it.          *)
AnswersTo(r) == [kind : {"answer"}, request : {r}, decision : Decisions]
Resumes(t) == [kind : {"resume"}, thread : {t}, id : Nat]
Replies(t) == [kind : {"resumed"}, thread : {t}, id : Nat, ok : BOOLEAN]
Refusals(t) == [kind : {"resumed"}, thread : {t}, id : Nat, ok : {FALSE}]
Approvals(r) == {About("approval", r)}
Misled(r) == {m \in AnswersTo(r) : m.decision # item[r]}

Calls == {[kind |-> "initialize"], [kind |-> "list"]}
         \cup (UNION {Resumes(t) : t \in Threads}) \cup (UNION {AnswersTo(r) : r \in Requests})
Reports == {[kind |-> "initialized"]} \cup [kind : {"listed"}, threads : SUBSET Threads]
           \cup {News(t) : t \in Threads} \cup (UNION {Replies(t) : t \in Threads})
           \cup {About(kind, r) : kind \in {"approval", "resolved"}, r \in Requests}

ObserverTypes ==
    /\ toServer \in Seq(Calls) /\ toObserver \in Seq(Reports)
    /\ pending \in [Threads -> Nat \cup {Unseen, Noted}] /\ subscribed \in [Threads -> {0, 1}]
    /\ req \in [Requests -> {"new", "open", "tui"} \cup Decisions]
    /\ item \in [Requests -> {"absent", "pending", "withdrawn"} \cup Decisions]
    /\ DOMAIN answerer = Requests /\ orphans = 0 /\ restarts \in Nat

(* Of a thread there is at most one call for it, or one reply, under way,  *)
(* and none while its request is not out; a thread that is followed is not *)
(* asked for again.                                                        *)
FlightInv(t) ==
    /\ OnceAtMost(toServer, Resumes(t)) /\ OnceAtMost(toObserver, Replies(t))
    /\ Without(toServer, Resumes(t)) \/ Without(toObserver, Replies(t))
    /\ pending[t] < 0 => Without(toServer, Resumes(t)) /\ Without(toObserver, Replies(t))
    /\ subscribed[t] = 1 => pending[t] = Unseen
FollowInv(t) ==
    t \in follows => /\ Without(toServer, Resumes(t)) /\ Without(toObserver, Refusals(t))
                     /\ pending[t] >= 0 \/ subscribed[t] = 1
ThreadInv(t) == FlightInv(t) /\ FollowInv(t)

(* A request is announced once: before it is raised, before its thread is  *)
(* followed and before the observer reads there is no item, and once there *)
(* is one nothing announces it.                                            *)
AskedInv(r) ==
    /\ OnceAtMost(toObserver, Approvals(r))
    /\ req[r] = "new" \/ Of[r] \notin follows => item[r] = "absent" /\ Without(toObserver, Approvals(r))
    /\ item[r] # "absent" => conn \in {"reading", "lost"} /\ Without(toObserver, Approvals(r))
    /\ item[r] = "absent" => answerer[r] = "none"

(* It is answered once, as the item says.                                  *)
AnsweredInv(r) ==
    /\ OnceAtMost(toServer, AnswersTo(r)) /\ Without(toServer, Misled(r))
    /\ answerer[r] # "sent" \/ item[r] \notin Decisions => Without(toServer, AnswersTo(r))
    /\ restarts = 0 /\ req[r] \in Decisions => item[r] = req[r]

ObserverInv ==
    /\ ObserverTypes
    /\ \A t \in Threads : ThreadInv(t)
    /\ \A r \in Requests : AskedInv(r) /\ AnsweredInv(r)

-----------------------------------------------------------------------------
(* Queues.                                                                 *)

(* The observer's constants, and what is no decision.                      *)
LEMMA ObserverLimits ==
    /\ IsFiniteSet(Threads) /\ IsFiniteSet(Requests) /\ \A r \in Requests : Of[r] \in Threads
    /\ \A d \in Decisions : d \notin {"new", "open", "tui", "absent", "pending", "withdrawn"}
BY ObserverAssumption

(* What is read is taken out.                                              *)
LEMMA TailLoses ==
    ASSUME NEW S, NEW q \in Seq(S), q # <<>>
    PROVE  /\ Tail(q) \in Seq(S) /\ Head(q) \in S /\ 1 \in DOMAIN q /\ Head(q) = q[1]
           /\ \A M : Without(q, M) => Without(Tail(q), M) /\ Head(q) \notin M
           /\ \A M : OnceAtMost(q, M) => OnceAtMost(Tail(q), M)
           /\ \A M : OnceAtMost(q, M) /\ Head(q) \in M => Without(Tail(q), M)
<1>1. /\ Tail(q) \in Seq(S) /\ Head(q) \in S /\ 1 \in DOMAIN q /\ Head(q) = q[1]
      /\ \A i \in DOMAIN Tail(q) : i \in Nat /\ i >= 1 /\ i + 1 \in DOMAIN q /\ Tail(q)[i] = q[i + 1]
  OBVIOUS
<1>2. ASSUME NEW M, Without(q, M) PROVE Without(Tail(q), M) /\ Head(q) \notin M
  BY <1>1, <1>2 DEF Without
<1>3. ASSUME NEW M, OnceAtMost(q, M) PROVE OnceAtMost(Tail(q), M)
  <2> SUFFICES ASSUME NEW i \in DOMAIN Tail(q), NEW j \in DOMAIN Tail(q), Tail(q)[i] \in M, Tail(q)[j] \in M
               PROVE  i = j
    BY DEF OnceAtMost
  <2>1. i + 1 = j + 1
    BY <1>1, <1>3 DEF OnceAtMost
  <2> QED
    BY <1>1, <2>1
<1>4. ASSUME NEW M, OnceAtMost(q, M), Head(q) \in M PROVE Without(Tail(q), M)
  <2> SUFFICES ASSUME NEW i \in DOMAIN Tail(q), Tail(q)[i] \in M
               PROVE  FALSE
    BY DEF Without
  <2>1. i + 1 = 1
    BY <1>1, <1>4 DEF OnceAtMost
  <2> QED
    BY <1>1, <2>1
<1> QED
  BY <1>1, <1>2, <1>3, <1>4

(* One queue behind another.                                               *)
LEMMA JoinBrings ==
    ASSUME NEW S, NEW q \in Seq(S), NEW w \in Seq(S)
    PROVE  /\ q \o w \in Seq(S)
           /\ \A M : Without(q, M) /\ Without(w, M) => Without(q \o w, M)
           /\ \A M : OnceAtMost(q, M) /\ Without(w, M) => OnceAtMost(q \o w, M)
           /\ \A M : Without(q, M) /\ OnceAtMost(w, M) => OnceAtMost(q \o w, M)
<1> DEFINE more == q \o w
<1>1. /\ more \in Seq(S) /\ Len(q) \in Nat /\ DOMAIN q = 1..Len(q)
      /\ \A i \in DOMAIN more : \/ i \in DOMAIN q /\ more[i] = q[i]
                                \/ i - Len(q) \in DOMAIN w /\ more[i] = w[i - Len(q)] /\ i \in Nat
  OBVIOUS
<1> HIDE DEF more
<1>2. ASSUME NEW M, Without(q, M), Without(w, M) PROVE Without(more, M)
  BY <1>1, <1>2 DEF Without
<1>3. ASSUME NEW M, OnceAtMost(q, M), Without(w, M) PROVE OnceAtMost(more, M)
  BY <1>1, <1>3 DEF Without, OnceAtMost
<1>4. ASSUME NEW M, Without(q, M), OnceAtMost(w, M) PROVE OnceAtMost(more, M)
  <2> SUFFICES ASSUME NEW i \in DOMAIN more, NEW j \in DOMAIN more, more[i] \in M, more[j] \in M
               PROVE  i = j
    BY DEF OnceAtMost
  <2>1. /\ i - Len(q) \in DOMAIN w /\ w[i - Len(q)] \in M /\ i \in Nat
        /\ j - Len(q) \in DOMAIN w /\ w[j - Len(q)] \in M /\ j \in Nat
    BY <1>1, <1>4 DEF Without
  <2>2. i - Len(q) = j - Len(q)
    BY <1>4, <2>1 DEF OnceAtMost
  <2> QED
    BY <1>1, <2>1, <2>2
<1> QED
  BY <1>1, <1>2, <1>3, <1>4 DEF more

(* A message of its own, and none.                                         *)
LEMMA OneMessage ==
    ASSUME NEW S, NEW m \in S
    PROVE  /\ <<m>> \in Seq(S) /\ <<>> \in Seq(S)
           /\ \A M : OnceAtMost(<<m>>, M) /\ Without(<<>>, M) /\ OnceAtMost(<<>>, M)
           /\ \A M : m \notin M => Without(<<m>>, M)
<1>1. /\ <<m>> \in Seq(S) /\ <<>> \in Seq(S) /\ DOMAIN <<m>> = {1} /\ DOMAIN <<>> = {}
      /\ \A i \in DOMAIN <<m>> : <<m>>[i] = m
  OBVIOUS
<1>2. \A M : OnceAtMost(<<m>>, M) /\ Without(<<>>, M) /\ OnceAtMost(<<>>, M)
  BY <1>1 DEF OnceAtMost, Without
<1>3. \A M : m \notin M => Without(<<m>>, M)
  BY <1>1 DEF Without
<1> QED
  BY <1>1, <1>2, <1>3

(* A queue of one message each, and of nothing else.                       *)
LEMMA EachOnce ==
    ASSUME NEW S, NEW T \in SUBSET S, IsFiniteSet(T)
    PROVE  /\ SetToSeq(T) \in Seq(S)
           /\ \A M : T \cap M = {} => Without(SetToSeq(T), M)
           /\ \A M : (\A m, n \in T : m \in M /\ n \in M => m = n) => OnceAtMost(SetToSeq(T), M)
<1>1. Cardinality(T) \in Nat /\ ExistsBijection(1..Cardinality(T), T)
  BY FS_CardinalityType
<1>2. \E f \in [1..Cardinality(T) -> T] : IsInjective(f)
  BY <1>1 DEF ExistsBijection, Bijection, Injection
<1>3. SetToSeq(T) \in [1..Cardinality(T) -> T] /\ IsInjective(SetToSeq(T))
  BY <1>2 DEF SetToSeq
<1> DEFINE q == SetToSeq(T)
<1> HIDE DEF q
<1>4. q \in Seq(S) /\ DOMAIN q = 1..Cardinality(T) /\ \A i \in DOMAIN q : q[i] \in T
  BY <1>1, <1>3 DEF q
<1>5. \A i, j \in DOMAIN q : q[i] = q[j] => i = j
  BY <1>3, <1>4 DEF q, IsInjective
<1>6. \A M : T \cap M = {} => Without(q, M)
  BY <1>4 DEF Without
<1>7. \A M : (\A m, n \in T : m \in M /\ n \in M => m = n) => OnceAtMost(q, M)
  BY <1>4, <1>5 DEF OnceAtMost
<1> QED
  BY <1>4, <1>6, <1>7 DEF q

-----------------------------------------------------------------------------
(* Messages.                                                               *)

(* A call of the observer is one of four kinds.                            *)
LEMMA CallKinds ==
    ASSUME NEW m \in Calls
    PROVE  /\ m.kind \in {"initialize", "list", "resume", "answer"}
           /\ m.kind = "resume" => m.thread \in Threads /\ m.id \in Nat /\ m \in Resumes(m.thread)
           /\ m.kind = "answer" => m.request \in Requests /\ m.decision \in Decisions /\ m \in AnswersTo(m.request)
<1>1. CASE m \in {[kind |-> "initialize"], [kind |-> "list"]}
  BY <1>1
<1>2. ASSUME NEW t \in Threads, m \in Resumes(t) PROVE m.kind = "resume" /\ m.thread = t /\ m.id \in Nat
  BY <1>2 DEF Resumes
<1>3. ASSUME NEW r \in Requests, m \in AnswersTo(r) PROVE m.kind = "answer" /\ m.request = r /\ m.decision \in Decisions
  BY <1>3 DEF AnswersTo
<1>4. \/ m \in {[kind |-> "initialize"], [kind |-> "list"]}
      \/ \E t \in Threads : m \in Resumes(t)
      \/ \E r \in Requests : m \in AnswersTo(r)
  BY DEF Calls
<1>5. CASE \E t \in Threads : m \in Resumes(t)
  BY <1>2, <1>5
<1>6. CASE \E r \in Requests : m \in AnswersTo(r)
  BY <1>3, <1>6
<1> QED
  BY <1>1, <1>4, <1>5, <1>6

(* And so is a message of the server one of six.                           *)
LEMMA ReportKinds ==
    ASSUME NEW m \in Reports
    PROVE  /\ m.kind \in {"initialized", "listed", "news", "resumed", "approval", "resolved"}
           /\ m.kind = "listed" => m.threads \subseteq Threads
           /\ m.kind = "news" => m.thread \in Threads
           /\ m.kind = "resumed" => /\ m.thread \in Threads /\ m.id \in Nat /\ m.ok \in BOOLEAN
                                    /\ m \in Replies(m.thread) /\ (~m.ok => m \in Refusals(m.thread))
           /\ m.kind \in {"approval", "resolved"} => /\ m.request \in Requests /\ m.thread = Of[m.request]
                                                     /\ m.thread \in Threads /\ m = About(m.kind, m.request)
<1>1. CASE m = [kind |-> "initialized"]
  BY <1>1
<1>2. CASE m \in [kind : {"listed"}, threads : SUBSET Threads]
  BY <1>2
<1>3. ASSUME NEW t \in Threads, m = News(t) PROVE m.kind = "news" /\ m.thread = t
  BY <1>3 DEF News
<1>4. ASSUME NEW t \in Threads, m \in Replies(t)
      PROVE  m.kind = "resumed" /\ m.thread = t /\ m.id \in Nat /\ m.ok \in BOOLEAN /\ (~m.ok => m \in Refusals(t))
  BY <1>4 DEF Replies, Refusals
<1>5. ASSUME NEW kind \in {"approval", "resolved"}, NEW r \in Requests, m = About(kind, r)
      PROVE  m.kind = kind /\ m.request = r /\ m.thread = Of[r] /\ m.thread \in Threads
  BY <1>5, ObserverLimits DEF About
<1>6. CASE \E t \in Threads : m = News(t)
  BY <1>3, <1>6
<1>7. CASE \E t \in Threads : m \in Replies(t)
  BY <1>4, <1>7
<1>8. CASE \E kind \in {"approval", "resolved"}, r \in Requests : m = About(kind, r)
  BY <1>5, <1>8
<1>9. \/ m = [kind |-> "initialized"] \/ m \in [kind : {"listed"}, threads : SUBSET Threads]
      \/ (\E t \in Threads : m = News(t)) \/ (\E t \in Threads : m \in Replies(t))
      \/ \E kind \in {"approval", "resolved"}, r \in Requests : m = About(kind, r)
  BY DEF Reports
<1> QED
  BY <1>1, <1>2, <1>6, <1>7, <1>8, <1>9

(* The kind and the name tell the sets apart.                              *)
LEMMA Apart ==
    ASSUME NEW m
    PROVE  /\ \A t : m.kind # "resume" \/ m.thread # t => m \notin Resumes(t)
           /\ \A t : m.kind # "resumed" \/ m.thread # t => m \notin Replies(t) /\ m \notin Refusals(t)
           /\ \A t : m.ok = TRUE => m \notin Refusals(t)
           /\ \A r : m.kind # "answer" \/ m.request # r => m \notin AnswersTo(r) /\ m \notin Misled(r)
           /\ \A r : m.kind # "approval" \/ m.request # r => m \notin Approvals(r)
<1>1. \A t : m.kind # "resume" \/ m.thread # t => m \notin Resumes(t)
  BY DEF Resumes
<1>2. /\ \A t : m.kind # "resumed" \/ m.thread # t => m \notin Replies(t) /\ m \notin Refusals(t)
      /\ \A t : m.ok = TRUE => m \notin Refusals(t)
  BY DEF Replies, Refusals
<1>3. \A r : m.kind # "answer" \/ m.request # r => m \notin AnswersTo(r) /\ m \notin Misled(r)
  BY DEF AnswersTo, Misled
<1>4. \A r : m.kind # "approval" \/ m.request # r => m \notin Approvals(r)
  BY DEF Approvals, About
<1> QED
  BY <1>1, <1>2, <1>3, <1>4

(* No more messages of a set than there were.                              *)
Less(q, p, M) == (Without(q, M) => Without(p, M)) /\ (OnceAtMost(q, M) => OnceAtMost(p, M))

(* An empty queue has none.                                                *)
LEMMA LessEmpty == \A q, M : Less(q, <<>>, M) /\ Without(<<>>, M)
<1>1. DOMAIN <<>> = {}
  OBVIOUS
<1> QED
  BY <1>1 DEF Less, Without, OnceAtMost

(* The queue as it was, and without its first message.                     *)
LEMMA LessSame ==
    /\ \A q, M : Less(q, q, M)
    /\ \A S, q : q \in Seq(S) /\ q # <<>> => Tail(q) \in Seq(S) /\ \A M : Less(q, Tail(q), M)
<1>1. \A q, M : Less(q, q, M)
  BY DEF Less
<1>2. ASSUME NEW S, NEW q \in Seq(S), q # <<>> PROVE Tail(q) \in Seq(S) /\ \A M : Less(q, Tail(q), M)
  BY <1>2, TailLoses DEF Less
<1> QED
  BY <1>1, <1>2

(* What the server tells the observer is behind what it told, or lost.     *)
LEMMA TellBrings ==
    ASSUME toObserver \in Seq(Reports), NEW w \in Seq(Reports), Tell(w)
    PROVE  /\ toObserver' \in Seq(Reports)
           /\ \A M : Without(w, M) => Less(toObserver, toObserver', M)
           /\ \A M : Without(toObserver, M) /\ OnceAtMost(w, M) => OnceAtMost(toObserver', M)
<1>1. CASE toObserver' = toObserver
  BY <1>1 DEF Less, Without, OnceAtMost
<1>2. CASE toObserver' = toObserver \o w
  BY <1>2, JoinBrings DEF Less
<1> QED
  BY <1>1, <1>2 DEF Tell

-----------------------------------------------------------------------------
(* Steps that a thread, or a request, has no part in.                      *)

(* A thread that nobody asks for and no reply is read of.                  *)
LEMMA ThreadStays ==
    ASSUME NEW t, ThreadInv(t), pending'[t] = pending[t], subscribed'[t] = subscribed[t], t \in follows' => t \in follows,
           Less(toServer, toServer', Resumes(t)), Less(toObserver, toObserver', Replies(t)),
           Less(toObserver, toObserver', Refusals(t))
    PROVE  ThreadInv(t)'
  BY DEF ThreadInv, FlightInv, FollowInv, Less

(* A request that is not raised, announced or withdrawn.                   *)
LEMMA AskedStays ==
    ASSUME NEW r, AskedInv(r), item'[r] = item[r], answerer'[r] = answerer[r],
           req'[r] = "new" => req[r] = "new", Of[r] \in follows => Of[r] \in follows',
           conn \in {"reading", "lost"} => conn' \in {"reading", "lost"},
           Less(toObserver, toObserver', Approvals(r))
    PROVE  AskedInv(r)'
  BY DEF AskedInv, Less

(* A request that is not answered.                                         *)
LEMMA AnsweredStays ==
    ASSUME NEW r, AnsweredInv(r), item'[r] = item[r], answerer'[r] = answerer[r],
           req'[r] \in Decisions => req'[r] = req[r] \/ req'[r] = item[r], restarts' = restarts,
           Less(toServer, toServer', AnswersTo(r)), Less(toServer, toServer', Misled(r))
    PROVE  AnsweredInv(r)'
<1>1. Misled(r)' = Misled(r)
  BY DEF Misled
<1> QED
  BY <1>1 DEF AnsweredInv, Less

(* Messages go, others that concern no thread and no request come, and the *)
(* server may answer a request.                                            *)
LEMMA PlainStep ==
    ASSUME ObserverInv, UNCHANGED <<pending, subscribed, item, answerer, orphans, restarts, follows>>,
           toServer' \in Seq(Calls), toObserver' \in Seq(Reports),
           req' \in [Requests -> {"new", "open", "tui"} \cup Decisions],
           \A r \in Requests : /\ req'[r] = "new" => req[r] = "new"
                               /\ req'[r] \in Decisions => req'[r] = req[r] \/ req'[r] = item[r],
           conn \in {"reading", "lost"} => conn' \in {"reading", "lost"},
           \A t \in Threads : /\ Less(toServer, toServer', Resumes(t)) /\ Less(toObserver, toObserver', Replies(t))
                              /\ Less(toObserver, toObserver', Refusals(t)),
           \A r \in Requests : /\ Less(toServer, toServer', AnswersTo(r)) /\ Less(toServer, toServer', Misled(r))
                               /\ Less(toObserver, toObserver', Approvals(r))
    PROVE  ObserverInv'
<1>1. ObserverTypes'
  BY DEF ObserverInv, ObserverTypes
<1>2. ASSUME NEW t \in Threads PROVE ThreadInv(t)'
  BY ThreadStays DEF ObserverInv
<1>3. ASSUME NEW r \in Requests PROVE AskedInv(r)' /\ AnsweredInv(r)'
  BY AskedStays, AnsweredStays DEF ObserverInv
<1> QED
  BY <1>1, <1>2, <1>3 DEF ObserverInv

(* Messages that concern no thread's call, and announce no request.        *)
LEMMA SmallTalk ==
    /\ \A t \in Threads : News(t) \in Reports /\ News(t).kind = "news"
    /\ \A r \in Requests, kind \in {"approval", "resolved"} : About(kind, r) \in Reports /\ About(kind, r).kind = kind /\ About(kind, r).request = r
    /\ [kind |-> "initialize"] \in Calls /\ [kind |-> "list"] \in Calls /\ [kind |-> "initialized"] \in Reports
    /\ \A ts \in SUBSET Threads : [kind |-> "listed", threads |-> ts] \in Reports
<1>1. ASSUME NEW t \in Threads PROVE News(t) \in Reports /\ News(t).kind = "news"
  <2>1. News(t).kind = "news"
    BY DEF News
  <2>2. News(t) \in {News(u) : u \in Threads}
    OBVIOUS
  <2> QED
    BY <2>1, <2>2 DEF Reports
<1>2. ASSUME NEW r \in Requests, NEW kind \in {"approval", "resolved"}
      PROVE  About(kind, r) \in Reports /\ About(kind, r).kind = kind /\ About(kind, r).request = r
  <2>1. About(kind, r).kind = kind /\ About(kind, r).request = r
    BY DEF About
  <2>2. About(kind, r) \in {About(k, s) : k \in {"approval", "resolved"}, s \in Requests}
    OBVIOUS
  <2> QED
    BY <2>1, <2>2 DEF Reports
<1>3. [kind |-> "initialize"] \in Calls /\ [kind |-> "list"] \in Calls
  BY DEF Calls
<1>4. [kind |-> "initialized"] \in Reports
  BY DEF Reports
<1>5. ASSUME NEW ts \in SUBSET Threads PROVE [kind |-> "listed", threads |-> ts] \in Reports
  <2>1. [kind |-> "listed", threads |-> ts] \in [kind : {"listed"}, threads : SUBSET Threads]
    OBVIOUS
  <2> QED
    BY <2>1 DEF Reports
<1> QED
  BY <1>1, <1>2, <1>3, <1>4, <1>5

(* The server tells news, or nothing.                                      *)
LEMMA TellNews ==
    ASSUME toObserver \in Seq(Reports), NEW m \in Reports, m.kind \notin {"resumed", "approval"},
           Tell(<<m>>) \/ Tell(<<>>)
    PROVE  /\ toObserver' \in Seq(Reports)
           /\ \A t : Less(toObserver, toObserver', Replies(t)) /\ Less(toObserver, toObserver', Refusals(t))
           /\ \A r : Less(toObserver, toObserver', Approvals(r))
<1>1. /\ <<m>> \in Seq(Reports) /\ <<>> \in Seq(Reports) /\ \A M : Without(<<>>, M)
      /\ \A M : m \notin M => Without(<<m>>, M)
  BY OneMessage
<1>2. /\ \A t : m \notin Replies(t) /\ m \notin Refusals(t)
      /\ \A r : m \notin Approvals(r)
  BY Apart
<1>3. CASE Tell(<<m>>)
  BY <1>1, <1>2, <1>3, TellBrings
<1>4. CASE Tell(<<>>)
  BY <1>1, <1>4, TellBrings
<1> QED
  BY <1>3, <1>4

(* The server starts, ends, and moves a thread; the observer gives up, or  *)
(* reads the end.                                                          *)
LEMMA ServerStep ==
    ASSUME ObserverInv, ServerStarts \/ ServerEnds \/ GiveUp \/ ReadEof \/ \E t \in Threads : ThreadMoves(t)
    PROVE  ObserverInv'
<1> USE DEF serverVars, resumeVars, inboxVars
<1>1. /\ toServer \in Seq(Calls) /\ toObserver \in Seq(Reports) /\ req \in [Requests -> {"new", "open", "tui"} \cup Decisions]
  BY DEF ObserverInv, ObserverTypes
<1>2. /\ UNCHANGED <<pending, subscribed, item, answerer, orphans, restarts, follows, req>>
      /\ toServer' = toServer \/ toServer' = <<>>
      /\ conn' = conn \/ (conn = "connecting" /\ conn' = "unreachable") \/ conn' = "lost"
  BY DEF ServerStarts, ServerEnds, GiveUp, ReadEof, ThreadMoves
<1>3. /\ toServer' \in Seq(Calls)
      /\ \A M : Less(toServer, toServer', M)
  <2>1. CASE toServer' = toServer
    BY <1>1, <2>1, LessSame
  <2>2. CASE toServer' = <<>>
    <3>1. <<>> \in Seq(Calls)
      OBVIOUS
    <3> QED
      BY <2>2, <3>1, LessEmpty
  <2> QED
    BY <1>2, <2>1, <2>2
<1>4. /\ toObserver' \in Seq(Reports)
      /\ \A t : Less(toObserver, toObserver', Replies(t)) /\ Less(toObserver, toObserver', Refusals(t))
      /\ \A r : Less(toObserver, toObserver', Approvals(r))
  <2>1. CASE toObserver' = toObserver
    BY <1>1, <2>1, LessSame
  <2>2. ASSUME NEW t \in Threads, Tell(<<News(t)>>)
        PROVE  /\ toObserver' \in Seq(Reports)
               /\ \A u : Less(toObserver, toObserver', Replies(u)) /\ Less(toObserver, toObserver', Refusals(u))
               /\ \A r : Less(toObserver, toObserver', Approvals(r))
    BY <1>1, <2>2, SmallTalk, TellNews
  <2> QED
    BY <2>1, <2>2 DEF ServerStarts, ServerEnds, GiveUp, ReadEof, ThreadMoves
<1> QED
  BY <1>1, <1>2, <1>3, <1>4, PlainStep

(* The observer says hello, and reads on until it is answered.             *)
LEMMA HandshakeStep ==
    ASSUME ObserverInv, Handshake
    PROVE  ObserverInv'
<1> USE DEF serverVars, resumeVars, inboxVars
<1>1. /\ toServer \in Seq(Calls) /\ toObserver \in Seq(Reports) /\ req \in [Requests -> {"new", "open", "tui"} \cup Decisions]
  BY DEF ObserverInv, ObserverTypes
<1>2. /\ UNCHANGED <<pending, subscribed, item, answerer, orphans, restarts, follows, req>>
      /\ toServer' = toServer \/ toServer' = Append(toServer, [kind |-> "list"])
      /\ toObserver' = toObserver \/ (toObserver # <<>> /\ toObserver' = Tail(toObserver))
      /\ conn = "handshake"
  BY DEF Handshake
<1>3. Append(toServer, [kind |-> "list"]) = toServer \o <<[kind |-> "list"]>>
  BY <1>1
<1>4. /\ toServer' \in Seq(Calls)
      /\ \A t : Less(toServer, toServer', Resumes(t))
      /\ \A r : Less(toServer, toServer', AnswersTo(r)) /\ Less(toServer, toServer', Misled(r))
  <2> DEFINE m == [kind |-> "list"]
  <2>1. m \in Calls /\ m.kind = "list"
    BY SmallTalk
  <2>2. (\A t : m \notin Resumes(t)) /\ (\A r : m \notin AnswersTo(r) /\ m \notin Misled(r))
    BY <2>1, Apart
  <2>3. CASE toServer' = toServer
    BY <1>1, <2>3, LessSame
  <2>4. CASE toServer' = toServer \o <<m>>
    <3> HIDE DEF m
    <3>1. <<m>> \in Seq(Calls) /\ \A M : m \notin M => Without(<<m>>, M)
      BY <2>1, OneMessage
    <3>2. toServer' \in Seq(Calls) /\ \A M : Without(<<m>>, M) => Less(toServer, toServer', M)
      BY <1>1, <2>4, <3>1, JoinBrings DEF Less
    <3> QED
      BY <2>2, <3>1, <3>2
  <2> QED
    BY <1>2, <1>3, <2>3, <2>4
<1>5. toObserver' \in Seq(Reports) /\ \A M : Less(toObserver, toObserver', M)
  BY <1>1, <1>2, LessSame
<1> QED
  BY <1>1, <1>2, <1>4, <1>5, PlainStep

(* A connection starts with empty queues and follows nothing.              *)
LEMMA FreshStep ==
    ASSUME ObserverInv, Connect \/ Restart
    PROVE  ObserverInv'
<1> USE DEF serverVars, resumeVars, inboxVars
<1> DEFINE m == [kind |-> "initialize"]
<1>1. /\ follows' = {} /\ req' = req /\ toObserver' = <<>> /\ (toServer' = <<m>> \/ toServer' = <<>>)
  BY DEF Connect, Restart
<1>2. /\ toServer' \in Seq(Calls) /\ toObserver' \in Seq(Reports) /\ \A M : Without(toObserver', M) /\ OnceAtMost(toObserver', M)
      /\ \A M : OnceAtMost(toServer', M)
      /\ \A t : Without(toServer', Resumes(t))
      /\ \A r : Without(toServer', AnswersTo(r))
  <2>1. m \in Calls /\ m.kind = "initialize" /\ [kind |-> "initialized"] \in Reports
    BY SmallTalk
  <2>2. (\A t : m \notin Resumes(t)) /\ (\A r : m \notin AnswersTo(r))
    BY <2>1, Apart
  <2>3. <<>> \in Seq(Reports) /\ <<>> \in Seq(Calls) /\ <<m>> \in Seq(Calls)
    BY <2>1
  <2>4. /\ \A M : OnceAtMost(<<m>>, M) /\ Without(<<>>, M) /\ OnceAtMost(<<>>, M)
        /\ \A M : m \notin M => Without(<<m>>, M)
    BY <2>1, OneMessage
  <2> HIDE DEF m
  <2> QED
    BY <1>1, <2>2, <2>3, <2>4
<1>3. \A r \in Requests : item'[r] = "absent" /\ answerer'[r] = "none"
  BY DEF Connect, Restart, ObserverInv, ObserverTypes, AskedInv
<1>4. ObserverTypes'
  <2>1. \/ UNCHANGED <<pending, subscribed, item, answerer, orphans, restarts>>
        \/ /\ subscribed' = [t \in Threads |-> 0] /\ pending' = [t \in Threads |-> Unseen]
           /\ item' = [r \in Requests |-> "absent"] /\ answerer' = [r \in Requests |-> "none"] /\ orphans' = 0
           /\ restarts' = restarts + 1
    BY DEF Connect, Restart
  <2>2. ObserverTypes
    BY DEF ObserverInv
  <2> QED
    BY <1>1, <1>2, <2>1, <2>2 DEF ObserverTypes
<1>5. ASSUME NEW t \in Threads PROVE ThreadInv(t)'
  <2>1. subscribed'[t] = 1 => pending'[t] = Unseen
    BY DEF Connect, Restart, ObserverInv, ThreadInv, FlightInv
  <2> QED
    BY <1>1, <1>2, <2>1 DEF ThreadInv, FlightInv, FollowInv
<1>6. ASSUME NEW r \in Requests PROVE AskedInv(r)'
  BY <1>1, <1>2, <1>3 DEF AskedInv
<1>7. ASSUME NEW r \in Requests PROVE AnsweredInv(r)'
  <2>1. restarts' = 0 /\ req'[r] \in Decisions => item'[r] = req'[r]
    <3>1. CASE Connect
      BY <3>1 DEF Connect, ObserverInv, AnsweredInv
    <3>2. CASE Restart
      BY <3>2 DEF Restart, ObserverInv, ObserverTypes
    <3> QED
      BY <3>1, <3>2
  <2>2. Without(toServer', Misled(r)')
    BY <1>2 DEF Without, Misled
  <2> QED
    BY <1>2, <2>1, <2>2 DEF AnsweredInv
<1> QED
  BY <1>4, <1>5, <1>6, <1>7 DEF ObserverInv

(* A request is raised, and announced if its thread is followed.           *)
LEMMA RaiseStep ==
    ASSUME ObserverInv, NEW r \in Requests, Raise(r)
    PROVE  ObserverInv'
<1> USE DEF serverVars, resumeVars, inboxVars
<1> DEFINE m == About("approval", r)
           n == News(Of[r])
           w == <<n>> \o IfFollowed(r, "approval")
<1>1. /\ req[r] = "new" /\ req' = [req EXCEPT ![r] = "open"] /\ Tell(w)
      /\ UNCHANGED <<pending, subscribed, item, answerer, orphans, restarts, follows, toServer, conn>>
  BY DEF Raise
<1>2. /\ toServer \in Seq(Calls) /\ toObserver \in Seq(Reports) /\ req \in [Requests -> {"new", "open", "tui"} \cup Decisions]
      /\ AskedInv(r)
  BY DEF ObserverInv, ObserverTypes
<1>3. /\ m \in Reports /\ m.kind = "approval" /\ m.request = r /\ n \in Reports /\ n.kind = "news"
  BY SmallTalk, ObserverLimits
<1> HIDE DEF m, n
<1>4. /\ <<n>> \in Seq(Reports) /\ <<m>> \in Seq(Reports) /\ <<>> \in Seq(Reports)
      /\ \A M : OnceAtMost(<<m>>, M) /\ Without(<<>>, M) /\ OnceAtMost(<<>>, M)
      /\ \A M : m \notin M => Without(<<m>>, M)
      /\ \A M : n \notin M => Without(<<n>>, M)
  BY <1>3, OneMessage
<1>5. IfFollowed(r, "approval") = IF Of[r] \in follows THEN <<m>> ELSE <<>>
  BY DEF IfFollowed, m
<1>6. /\ w \in Seq(Reports)
      /\ \A M : n \notin M /\ m \notin M => Without(w, M)
      /\ \A M : n \notin M => OnceAtMost(w, M)
      /\ \A M : n \notin M /\ Of[r] \notin follows => Without(w, M)
  BY <1>4, <1>5, JoinBrings
<1> HIDE DEF w
<1>7. /\ \A t : n \notin Replies(t) /\ n \notin Refusals(t) /\ m \notin Replies(t) /\ m \notin Refusals(t)
      /\ \A s : n \notin Approvals(s)
      /\ \A s : s # r => m \notin Approvals(s)
  BY <1>3, Apart
<1>8. /\ toObserver' \in Seq(Reports)
      /\ \A M : Without(w, M) => Less(toObserver, toObserver', M)
      /\ \A M : Without(toObserver, M) /\ OnceAtMost(w, M) => OnceAtMost(toObserver', M)
  BY <1>1, <1>2, <1>6, TellBrings
<1>9. ObserverTypes'
  BY <1>1, <1>2, <1>8 DEF ObserverInv, ObserverTypes
<1>10. ASSUME NEW t \in Threads PROVE ThreadInv(t)'
  BY <1>1, <1>6, <1>7, <1>8, ThreadStays, LessSame DEF ObserverInv
<1>11. ASSUME NEW s \in Requests PROVE AskedInv(s)' /\ AnsweredInv(s)'
  <2>1. req'[s] = IF s = r THEN "open" ELSE req[s]
    BY <1>1, <1>2
  <2>2. AnsweredInv(s)'
    BY <1>1, <2>1, AnsweredStays, LessSame, ObserverLimits DEF ObserverInv
  <2>3. CASE s # r
    BY <1>1, <1>6, <1>7, <1>8, <2>1, <2>2, <2>3, AskedStays DEF ObserverInv
  <2>4. CASE s = r
    <3>1. item[r] = "absent" /\ answerer[r] = "none" /\ Without(toObserver, Approvals(r))
      BY <1>1, <1>2 DEF AskedInv
    <3>2. /\ OnceAtMost(toObserver', Approvals(r))
          /\ Of[r] \notin follows => Without(toObserver', Approvals(r))
      BY <1>6, <1>7, <1>8, <3>1 DEF Less
    <3> QED
      BY <1>1, <2>1, <2>2, <2>4, <3>1, <3>2 DEF AskedInv
  <2> QED
    BY <2>3, <2>4
<1> QED
  BY <1>9, <1>10, <1>11 DEF ObserverInv

(* The user answers in the TUI.                                            *)
LEMMA TuiStep ==
    ASSUME ObserverInv, NEW r \in Requests, TuiAnswers(r)
    PROVE  ObserverInv'
<1> USE DEF serverVars, resumeVars, inboxVars
<1>1. /\ req' = [req EXCEPT ![r] = "tui"]
      /\ Tell(<<About("resolved", r)>>) \/ Tell(<<>>)
      /\ UNCHANGED <<pending, subscribed, item, answerer, orphans, restarts, follows, toServer, conn>>
  BY DEF TuiAnswers, IfFollowed
<1>2. /\ toServer \in Seq(Calls) /\ toObserver \in Seq(Reports) /\ req \in [Requests -> {"new", "open", "tui"} \cup Decisions]
  BY DEF ObserverInv, ObserverTypes
<1>3. /\ toObserver' \in Seq(Reports)
      /\ \A t : Less(toObserver, toObserver', Replies(t)) /\ Less(toObserver, toObserver', Refusals(t))
      /\ \A s : Less(toObserver, toObserver', Approvals(s))
  BY <1>1, <1>2, SmallTalk, TellNews
<1>4. /\ req' \in [Requests -> {"new", "open", "tui"} \cup Decisions]
      /\ \A s \in Requests : req'[s] = IF s = r THEN "tui" ELSE req[s]
  BY <1>1, <1>2
<1> QED
  BY <1>1, <1>2, <1>3, <1>4, PlainStep, LessSame, ObserverLimits

(* A human decides, and only of an item that waits.                        *)
LEMMA DecideStep ==
    ASSUME ObserverInv, NEW r \in Requests, NEW d \in Decisions, Decide(r, d)
    PROVE  ObserverInv'
<1> USE DEF serverVars, resumeVars, inboxVars
<1>1. /\ item[r] = "pending" /\ item' = [item EXCEPT ![r] = d]
      /\ answerer' = [answerer EXCEPT ![r] = IF @ = "asleep" THEN "waiting" ELSE @]
      /\ UNCHANGED <<pending, subscribed, orphans, restarts, follows, toServer, toObserver, conn, req>>
  BY DEF Decide
<1>2. ObserverTypes /\ AskedInv(r) /\ AnsweredInv(r)
  BY DEF ObserverInv
<1>3. ObserverTypes'
  BY <1>1, <1>2 DEF ObserverTypes
<1>4. ASSUME NEW t \in Threads PROVE ThreadInv(t)'
  BY <1>1, ThreadStays, LessSame DEF ObserverInv
<1>5. ASSUME NEW s \in Requests PROVE AskedInv(s)' /\ AnsweredInv(s)'
  <2>1. item'[s] = (IF s = r THEN d ELSE item[s]) /\ (s # r => answerer'[s] = answerer[s])
    BY <1>1, <1>2 DEF ObserverTypes
  <2>2. CASE s # r
    BY <1>1, <2>1, <2>2, AskedStays, AnsweredStays, LessSame DEF ObserverInv
  <2>3. CASE s = r
    <3>1. AskedInv(r)'
      BY <1>1, <1>2, <2>1, <2>3, ObserverLimits DEF AskedInv
    <3>2. Without(toServer, AnswersTo(r)) /\ "pending" \notin Decisions
      BY <1>1, <1>2, ObserverLimits DEF AnsweredInv
    <3>3. Without(toServer, Misled(r)')
      BY <3>2 DEF Without, Misled
    <3>4. AnsweredInv(r)'
      BY <1>1, <1>2, <2>1, <2>3, <3>2, <3>3 DEF AnsweredInv
    <3> QED
      BY <2>3, <3>1, <3>4
  <2> QED
    BY <2>2, <2>3
<1> QED
  BY <1>3, <1>4, <1>5 DEF ObserverInv

(* The thread tests, goes to sleep, or ends as its item is withdrawn.      *)
LEMMA WaitStep ==
    ASSUME ObserverInv, NEW r \in Requests, Tests(r) \/ Sleeps(r)
    PROVE  ObserverInv'
<1> USE DEF serverVars, resumeVars, inboxVars
<1>1. /\ answerer[r] # "sent" /\ answerer[r] # "none"
      /\ \E a \in {"tested", "asleep", "none"} : answerer' = [answerer EXCEPT ![r] = a]
      /\ UNCHANGED <<pending, subscribed, item, orphans, restarts, follows, toServer, toObserver, conn, req>>
  BY DEF Tests, Sleeps
<1>2. ObserverTypes /\ AskedInv(r) /\ AnsweredInv(r)
  BY DEF ObserverInv
<1>3. ObserverTypes'
  BY <1>1, <1>2 DEF ObserverTypes
<1>4. ASSUME NEW t \in Threads PROVE ThreadInv(t)'
  BY <1>1, ThreadStays, LessSame DEF ObserverInv
<1>5. ASSUME NEW s \in Requests PROVE AskedInv(s)' /\ AnsweredInv(s)'
  <2>1. CASE s # r
    <3>1. answerer'[s] = answerer[s]
      BY <1>1, <1>2, <2>1 DEF ObserverTypes
    <3> QED
      BY <1>1, <2>1, <3>1, AskedStays, AnsweredStays, LessSame DEF ObserverInv
  <2>2. CASE s = r
    <3>1. item[r] # "absent"
      BY <1>1, <1>2 DEF AskedInv
    <3>2. AskedInv(r)'
      BY <1>1, <1>2, <3>1 DEF AskedInv
    <3>3. Misled(r)' = Misled(r)
      BY <1>1 DEF Misled
    <3>4. AnsweredInv(r)'
      BY <1>1, <1>2, <3>3 DEF AnsweredInv
    <3> QED
      BY <2>2, <3>2, <3>4
  <2> QED
    BY <2>1, <2>2
<1> QED
  BY <1>3, <1>4, <1>5 DEF ObserverInv

(* The thread that waits sends what was decided, if it can.                *)
LEMMA AnswerStep ==
    ASSUME ObserverInv, NEW r \in Requests, Answer(r)
    PROVE  ObserverInv'
<1> USE DEF serverVars, resumeVars, inboxVars
<1> DEFINE m == [kind |-> "answer", request |-> r, decision |-> item[r]]
<1>1. /\ answerer[r] = "waiting" /\ item[r] \in Decisions
      /\ \/ toServer' = Append(toServer, m) /\ answerer' = [answerer EXCEPT ![r] = "sent"]
         \/ toServer' = toServer /\ answerer' = [answerer EXCEPT ![r] = "failed"]
      /\ UNCHANGED <<pending, subscribed, item, orphans, restarts, follows, toObserver, conn, req>>
  BY DEF Answer
<1>2. ObserverTypes /\ AskedInv(r) /\ AnsweredInv(r) /\ toServer \in Seq(Calls)
  BY DEF ObserverInv, ObserverTypes
<1>3. m \in AnswersTo(r) /\ m \in Calls /\ m \notin Misled(r) /\ m.kind = "answer" /\ m.request = r
  <2>1. m \in AnswersTo(r)
    BY <1>1 DEF AnswersTo
  <2> QED
    BY <2>1 DEF Calls, Misled
<1>4. Append(toServer, m) = toServer \o <<m>>
  BY <1>2
<1> HIDE DEF m
<1>5. /\ \A t : m \notin Resumes(t)
      /\ \A s : s # r => m \notin AnswersTo(s) /\ m \notin Misled(s)
  BY <1>3, Apart
<1>6. <<m>> \in Seq(Calls) /\ (\A M : OnceAtMost(<<m>>, M)) /\ \A M : m \notin M => Without(<<m>>, M)
  BY <1>3, OneMessage
<1>7. /\ toServer' \in Seq(Calls)
      /\ \A M : m \notin M => Less(toServer, toServer', M)
      /\ \A M : Without(toServer, M) => OnceAtMost(toServer', M)
  <2>1. CASE toServer' = toServer
    BY <1>2, <2>1 DEF Less, Without, OnceAtMost
  <2>2. CASE toServer' = toServer \o <<m>>
    BY <1>2, <1>6, <2>2, JoinBrings DEF Less
  <2> QED
    BY <1>1, <1>4, <2>1, <2>2
<1>8. ObserverTypes'
  BY <1>1, <1>2, <1>7 DEF ObserverTypes
<1>9. ASSUME NEW t \in Threads PROVE ThreadInv(t)'
  BY <1>1, <1>5, <1>7, ThreadStays, LessSame DEF ObserverInv
<1>10. ASSUME NEW s \in Requests PROVE AskedInv(s)' /\ AnsweredInv(s)'
  <2>1. s # r => answerer'[s] = answerer[s]
    BY <1>1, <1>2 DEF ObserverTypes
  <2>2. CASE s # r
    BY <1>1, <1>5, <1>7, <2>1, <2>2, AskedStays, AnsweredStays, LessSame DEF ObserverInv
  <2>3. CASE s = r
    <3>1. item[r] # "absent"
      BY <1>1, ObserverLimits
    <3>2. AskedInv(r)'
      BY <1>1, <1>2, <3>1 DEF AskedInv
    <3>3. Without(toServer, AnswersTo(r)) /\ Without(toServer, Misled(r)) /\ Misled(r)' = Misled(r)
      BY <1>1, <1>2 DEF AnsweredInv, Misled
    <3>4. OnceAtMost(toServer', AnswersTo(r)) /\ Without(toServer', Misled(r)')
      BY <1>3, <1>7, <3>3 DEF Less
    <3>5. answerer'[r] # "sent" => toServer' = toServer
      BY <1>1, <1>2 DEF ObserverTypes
    <3>6. AnsweredInv(r)'
      BY <1>1, <1>2, <3>3, <3>4, <3>5 DEF AnsweredInv
    <3> QED
      BY <2>3, <3>2, <3>6
  <2> QED
    BY <2>2, <2>3
<1> QED
  BY <1>8, <1>9, <1>10 DEF ObserverInv

(* The server answers a resume: the reply, and what the thread has open.   *)
LEMMA ResumeStep ==
    ASSUME ObserverInv, Serve, Head(toServer).kind = "resume"
    PROVE  ObserverInv'
<1> USE DEF serverVars, resumeVars, inboxVars
<1>0. PICK t \in Threads : t = Head(toServer).thread
  <2>1. toServer \in Seq(Calls) /\ toServer # <<>>
    BY DEF ObserverInv, ObserverTypes, Serve
  <2>2. Head(toServer) \in Calls
    BY <2>1, TailLoses
  <2> QED
    BY <2>2, CallKinds
<1> DEFINE m == Head(toServer)
           ok == life[t] = "rolled"
           reply == [kind |-> "resumed", thread |-> t, id |-> m.id, ok |-> ok]
<1>1. /\ toServer # <<>> /\ toServer' = Tail(toServer)
      /\ UNCHANGED <<pending, subscribed, item, answerer, orphans, restarts, conn>>
      /\ ServeResume(m) /\ m.thread = t
  BY <1>0 DEF Serve
<1>2. toServer \in Seq(Calls) /\ toObserver \in Seq(Reports) /\ ObserverTypes
  BY DEF ObserverInv, ObserverTypes
<1>3. /\ toServer' \in Seq(Calls) /\ \A M : Less(toServer, toServer', M)
      /\ m \in Calls
      /\ \A M : Without(toServer, M) => m \notin M
      /\ \A M : OnceAtMost(toServer, M) /\ m \in M => Without(toServer', M)
  BY <1>1, <1>2, TailLoses, LessSame
<1>4. t \in Threads /\ m.id \in Nat /\ m \in Resumes(t)
  BY <1>0, <1>3, CallKinds
<1>5. PICK replayed \in {{}, IF ok THEN {r \in Requests : Of[r] = t /\ req[r] = "open"} ELSE {}} :
         Tell(<<reply>> \o SetToSeq({About("approval", r) : r \in replayed}))
  BY <1>0, <1>1 DEF ServeResume
<1>6. /\ req' = req /\ follows' = IF ok THEN follows \cup {t} ELSE follows
      /\ replayed \subseteq Requests /\ \A r \in replayed : ok /\ Of[r] = t /\ req[r] = "open"
  <2>1. req' = req /\ follows' = IF ok THEN follows \cup {t} ELSE follows
    BY <1>0, <1>1 DEF ServeResume
  <2> QED
    BY <1>5, <2>1
<1>7. /\ reply \in Replies(t) /\ reply \in Reports /\ reply.kind = "resumed" /\ reply.thread = t
      /\ ok => reply.ok = TRUE
  <2>1. reply \in Replies(t)
    BY <1>4 DEF Replies
  <2>2. reply \in UNION {Replies(u) : u \in Threads}
    BY <2>1
  <2>3. reply.kind = "resumed" /\ reply.thread = t /\ (ok => reply.ok = TRUE)
    OBVIOUS
  <2> HIDE DEF reply
  <2>4. reply \in Reports
    BY <2>2 DEF Reports
  <2> QED
    BY <2>1, <2>3, <2>4
<1> DEFINE T == {About("approval", r) : r \in replayed}
           w == <<reply>> \o SetToSeq(T)
<1> HIDE DEF m, ok, reply
<1>8. T \subseteq Reports /\ IsFiniteSet(T)
  <2>1. IsFiniteSet(replayed)
    BY <1>6, ObserverLimits, FS_Subset
  <2> QED
    <3> DEFINE g == [r \in replayed |-> About("approval", r)]
    <3>2. g \in Surjection(replayed, T)
      BY DEF Surjection
    <3>3. IsFiniteSet(T)
      <4> HIDE DEF g, T
      <4> QED
        BY <2>1, <3>2, FS_Surjection
    <3> QED
      BY <1>6, <3>3, SmallTalk
<1>9. /\ SetToSeq(T) \in Seq(Reports)
      /\ \A M : T \cap M = {} => Without(SetToSeq(T), M)
      /\ \A M : (\A x, y \in T : x \in M /\ y \in M => x = y) => OnceAtMost(SetToSeq(T), M)
  BY <1>8, EachOnce
<1>10. /\ \A u : T \cap Replies(u) = {} /\ T \cap Refusals(u) = {}
       /\ \A r : \A x, y \in T : x \in Approvals(r) /\ y \in Approvals(r) => x = y
       /\ \A r \in Requests : r \notin replayed => T \cap Approvals(r) = {}
  <2>1. \A x \in T : x.kind = "approval" /\ x.request \in replayed
    BY <1>6, SmallTalk
  <2>2. \A u : T \cap Replies(u) = {} /\ T \cap Refusals(u) = {}
    BY <2>1, Apart
  <2>3. \A r : \A x, y \in T : x \in Approvals(r) /\ y \in Approvals(r) => x = y
    BY DEF Approvals
  <2>4. \A r \in Requests : r \notin replayed => T \cap Approvals(r) = {}
    BY <2>1, Apart
  <2> QED
    BY <2>2, <2>3, <2>4
<1>11. /\ <<reply>> \in Seq(Reports) /\ \A M : OnceAtMost(<<reply>>, M)
       /\ \A M : reply \notin M => Without(<<reply>>, M)
  BY <1>7, OneMessage
<1>12. /\ \A u : u # t => reply \notin Replies(u) /\ reply \notin Refusals(u)
       /\ ok => reply \notin Refusals(t)
       /\ \A r : reply \notin Approvals(r)
  BY <1>7, Apart
<1> HIDE DEF T
<1>13. /\ w \in Seq(Reports)
       /\ \A u : OnceAtMost(w, Replies(u))
       /\ \A u : u # t => Without(w, Replies(u)) /\ Without(w, Refusals(u))
       /\ ok => Without(w, Refusals(t))
       /\ \A r : OnceAtMost(w, Approvals(r))
       /\ \A r \in Requests : r \notin replayed => Without(w, Approvals(r))
  BY <1>9, <1>10, <1>11, <1>12, JoinBrings
<1>14. Tell(w)
  BY <1>5 DEF T
<1> HIDE DEF w
<1>15. /\ toObserver' \in Seq(Reports)
       /\ \A M : Without(w, M) => Less(toObserver, toObserver', M)
       /\ \A M : Without(toObserver, M) /\ OnceAtMost(w, M) => OnceAtMost(toObserver', M)
  BY <1>2, <1>13, <1>14, TellBrings
<1>16. ThreadInv(t) /\ FlightInv(t) /\ FollowInv(t)
  BY <1>4 DEF ObserverInv, ThreadInv
<1>17. /\ ~Without(toServer, Resumes(t)) /\ Without(toServer', Resumes(t)) /\ Without(toObserver, Replies(t))
       /\ pending[t] >= 0 /\ t \notin follows
  <2>1. ~Without(toServer, Resumes(t))
    BY <1>3, <1>4
  <2>2. Without(toObserver, Replies(t)) /\ ~(pending[t] < 0) /\ t \notin follows
    BY <1>16, <2>1 DEF FlightInv, FollowInv
  <2>3. Without(toServer', Resumes(t))
    BY <1>3, <1>4, <1>16 DEF FlightInv
  <2>4. pending[t] >= 0
    BY <1>2, <1>4, <2>2 DEF ObserverTypes, Unseen, Noted
  <2> QED
    BY <2>1, <2>2, <2>3, <2>4
<1>18. ObserverTypes'
  BY <1>1, <1>2, <1>3, <1>6, <1>15 DEF ObserverTypes
<1>19. ASSUME NEW u \in Threads PROVE ThreadInv(u)'
  <2>1. CASE u # t
    <3>1. u \in follows' => u \in follows
      BY <1>6, <2>1
    <3> QED
      BY <1>1, <1>3, <1>13, <1>15, <2>1, <3>1, ThreadStays DEF ObserverInv
  <2>2. CASE u = t
    <3>1. OnceAtMost(toServer', Resumes(t)) /\ OnceAtMost(toObserver', Replies(t))
      BY <1>3, <1>13, <1>15, <1>16, <1>17 DEF FlightInv, Less
    <3>2. FlightInv(t)'
      <4>1. pending'[t] = pending[t] /\ subscribed'[t] = subscribed[t] /\ ~(pending[t] < 0)
        BY <1>1, <1>2, <1>4, <1>17 DEF ObserverTypes, Unseen, Noted
      <4> QED
        BY <1>16, <1>17, <3>1, <4>1 DEF FlightInv
    <3>3. ok => Without(toObserver', Refusals(t))
      <4>1. Without(toObserver, Refusals(t))
        BY <1>17 DEF Without, Replies, Refusals
      <4> QED
        BY <1>13, <1>15, <4>1 DEF Less
    <3>4. FollowInv(t)'
      BY <1>1, <1>6, <1>17, <3>3 DEF FollowInv
    <3> QED
      BY <2>2, <3>2, <3>4 DEF ThreadInv
  <2> QED
    BY <2>1, <2>2
<1>20. ASSUME NEW r \in Requests PROVE AskedInv(r)' /\ AnsweredInv(r)'
  <2>1. AnsweredInv(r)'
    BY <1>1, <1>3, <1>6, AnsweredStays DEF ObserverInv
  <2>2. Of[r] \in follows => Of[r] \in follows'
    BY <1>6
  <2>3. CASE r \notin replayed
    BY <1>1, <1>6, <1>13, <1>15, <2>1, <2>2, <2>3, AskedStays DEF ObserverInv
  <2>4. CASE r \in replayed
    <3>1. ok /\ Of[r] = t /\ req[r] = "open"
      BY <1>6, <2>4
    <3>2. /\ item[r] = "absent" /\ answerer[r] = "none" /\ Without(toObserver, Approvals(r))
      BY <1>17, <3>1 DEF ObserverInv, AskedInv
    <3>3. OnceAtMost(toObserver', Approvals(r))
      BY <1>13, <1>15, <3>2
    <3>4. Of[r] \in follows' /\ req'[r] # "new" /\ item'[r] = "absent" /\ answerer'[r] = "none"
      BY <1>1, <1>6, <3>1, <3>2
    <3> QED
      BY <2>1, <3>3, <3>4 DEF AskedInv
  <2> QED
    BY <2>3, <2>4
<1> QED
  BY <1>18, <1>19, <1>20 DEF ObserverInv

(* The server answers anything else: an answer is what the item says.      *)
LEMMA ServeStep ==
    ASSUME ObserverInv, Serve
    PROVE  ObserverInv'
<1> USE DEF serverVars, resumeVars, inboxVars
<1> DEFINE m == Head(toServer)
<1>1. /\ toServer # <<>> /\ toServer' = Tail(toServer)
      /\ UNCHANGED <<pending, subscribed, item, answerer, orphans, restarts, conn>>
  BY DEF Serve
<1>2. toServer \in Seq(Calls) /\ toObserver \in Seq(Reports) /\ req \in [Requests -> {"new", "open", "tui"} \cup Decisions]
  BY DEF ObserverInv, ObserverTypes
<1>3. /\ toServer' \in Seq(Calls) /\ \A M : Less(toServer, toServer', M)
      /\ m \in Calls
      /\ \A M : Without(toServer, M) => m \notin M
  BY <1>1, <1>2, TailLoses, LessSame
<1>4. m.kind \in {"initialize", "list", "resume", "answer"}
  BY <1>3, CallKinds
<1>5. CASE m.kind = "resume"
  BY <1>5, ResumeStep
<1>6. CASE m.kind \in {"initialize", "list"}
  <2>1. /\ follows' = follows /\ req' = req
        /\ \/ Tell(<<[kind |-> "initialized"]>>)
           \/ Tell(<<[kind |-> "listed", threads |-> {t \in Threads : life[t] # "none"}]>>)
    BY <1>6 DEF Serve
  <2> DEFINE n == [kind |-> "initialized"]
             l == [kind |-> "listed", threads |-> {t \in Threads : life[t] # "none"}]
  <2>2. n \in Reports /\ n.kind = "initialized" /\ l \in Reports /\ l.kind = "listed"
    BY SmallTalk
  <2>3. Tell(<<n>>) \/ Tell(<<l>>)
    BY <2>1
  <2> HIDE DEF n, l
  <2>4. /\ toObserver' \in Seq(Reports)
        /\ \A t : Less(toObserver, toObserver', Replies(t)) /\ Less(toObserver, toObserver', Refusals(t))
        /\ \A s : Less(toObserver, toObserver', Approvals(s))
    BY <1>2, <2>2, <2>3, TellNews
  <2> QED
    BY <1>1, <1>2, <1>3, <2>1, <2>4, PlainStep
<1>7. CASE m.kind = "answer"
  <2> DEFINE r == m.request
  <2>1. r \in Requests /\ m.decision \in Decisions /\ m \in AnswersTo(r)
    BY <1>3, <1>7, CallKinds
  <2>2. ServeAnswer(m)
    BY <1>7 DEF Serve
  <2>3. /\ follows' = follows /\ req' = [req EXCEPT ![r] = IF @ = "open" THEN m.decision ELSE @]
        /\ Tell(<<About("resolved", r)>>) \/ Tell(<<>>)
    BY <2>2 DEF ServeAnswer
  <2>4. m.decision = item[r]
    <3>1. Without(toServer, Misled(r))
      BY <2>1 DEF ObserverInv, AnsweredInv
    <3>2. m \notin Misled(r)
      BY <1>3, <3>1
    <3> QED
      BY <2>1, <3>2 DEF Misled
  <2> HIDE DEF m
  <2>5. /\ toObserver' \in Seq(Reports)
        /\ \A t : Less(toObserver, toObserver', Replies(t)) /\ Less(toObserver, toObserver', Refusals(t))
        /\ \A s : Less(toObserver, toObserver', Approvals(s))
    BY <1>2, <2>1, <2>3, SmallTalk, TellNews
  <2>6. /\ req' \in [Requests -> {"new", "open", "tui"} \cup Decisions]
        /\ \A s \in Requests : req'[s] = req[s] \/ (req[s] = "open" /\ req'[s] = item[s] /\ item[s] \in Decisions)
    BY <1>2, <2>1, <2>3, <2>4
  <2>7. \A s \in Requests : /\ req'[s] = "new" => req[s] = "new"
                            /\ req'[s] \in Decisions => req'[s] = req[s] \/ req'[s] = item[s]
    BY <2>6, ObserverLimits
  <2> QED
    BY <1>1, <1>2, <1>3, <2>3, <2>5, <2>6, <2>7, PlainStep
<1> QED
  BY <1>4, <1>5, <1>6, <1>7

(* Threads newly noted, and those noted before, are asked for: nothing of  *)
(* them was on its way, and they are not followed.                         *)
LEMMA PendingStep ==
    ASSUME ObserverInv, NEW p \in [Threads -> Nat \cup {Unseen, Noted}], ResumePending(p),
           \A t \in Threads : p[t] = pending[t] \/ (p[t] = Noted /\ pending[t] = Unseen /\ subscribed[t] = 0),
           subscribed' = subscribed, follows' = follows,
           \A t : Less(toObserver, toObserver', Replies(t)) /\ Less(toObserver, toObserver', Refusals(t))
    PROVE  /\ toServer' \in Seq(Calls) /\ pending' \in [Threads -> Nat \cup {Unseen, Noted}]
           /\ \A t \in Threads : ThreadInv(t)'
           /\ \A r : Less(toServer, toServer', AnswersTo(r)) /\ Less(toServer, toServer', Misled(r))
<1> DEFINE asked == {t \in Threads : p[t] = Noted /\ server = "up"}
           Call(t) == [kind |-> "resume", thread |-> t, id |-> FreshId(t)]
           C == {Call(t) : t \in asked}
<1>1. /\ toServer' = toServer \o SetToSeq(C)
      /\ pending' = [t \in Threads |-> IF t \in asked THEN FreshId(t) ELSE p[t]]
  BY DEF ResumePending
<1>2. ObserverTypes /\ toServer \in Seq(Calls) /\ toObserver \in Seq(Reports)
  BY DEF ObserverInv, ObserverTypes
<1>3. ASSUME NEW t \in asked
      PROVE  /\ t \in Threads /\ p[t] = Noted /\ pending[t] < 0 /\ subscribed[t] # 1
             /\ Without(toServer, Resumes(t)) /\ Without(toObserver, Replies(t)) /\ t \notin follows
  <2>1. t \in Threads /\ p[t] = Noted /\ (pending[t] = Noted \/ (pending[t] = Unseen /\ subscribed[t] = 0))
    OBVIOUS
  <2>2. FlightInv(t) /\ FollowInv(t)
    BY <2>1 DEF ObserverInv, ThreadInv
  <2>3. pending[t] < 0 /\ ~(pending[t] >= 0) /\ subscribed[t] # 1
    BY <2>1, <2>2 DEF FlightInv, Noted, Unseen
  <2> QED
    BY <2>1, <2>2, <2>3 DEF FlightInv, FollowInv
<1>4. ASSUME NEW t \in asked PROVE FreshId(t) = 0
  <2>1. \A n \in ToSet(toServer) \cup ToSet(toObserver) : ~(n.kind \in {"resume", "resumed"} /\ n.thread = t)
    <3>1. ASSUME NEW i \in DOMAIN toServer PROVE ~(toServer[i].kind \in {"resume", "resumed"} /\ toServer[i].thread = t)
      <4>1. toServer[i] \in Calls /\ toServer[i] \notin Resumes(t)
        BY <1>2, <1>3 DEF Without
      <4> QED
        BY <4>1, CallKinds
    <3>2. ASSUME NEW i \in DOMAIN toObserver PROVE ~(toObserver[i].kind \in {"resume", "resumed"} /\ toObserver[i].thread = t)
      <4>1. toObserver[i] \in Reports /\ toObserver[i] \notin Replies(t)
        BY <1>2, <1>3 DEF Without
      <4> QED
        BY <4>1, ReportKinds
    <3> QED
      BY <3>1, <3>2 DEF ToSet
  <2>2. IdsOf(t) = {}
    BY <2>1 DEF IdsOf
  <2>3. Cardinality(IdsOf(t)) = 0
    BY <2>2, FS_EmptySet
  <2> QED
    BY <2>2, <2>3 DEF FreshId
<1>5. \A t \in asked : Call(t) \in Resumes(t) /\ Call(t) \in Calls /\ Call(t).kind = "resume" /\ Call(t).thread = t
  <2> SUFFICES ASSUME NEW t \in asked
               PROVE  Call(t) \in Resumes(t) /\ Call(t) \in Calls /\ Call(t).kind = "resume" /\ Call(t).thread = t
    OBVIOUS
  <2>1. Call(t) \in Resumes(t) /\ Call(t).kind = "resume" /\ Call(t).thread = t
    BY <1>4 DEF Resumes
  <2>2. Call(t) \in UNION {Resumes(u) : u \in Threads}
    BY <1>3, <2>1
  <2> HIDE DEF Call
  <2> QED
    BY <2>1, <2>2 DEF Calls
<1>6. C \subseteq Calls /\ IsFiniteSet(C)
  <2>1. IsFiniteSet(asked)
    BY ObserverLimits, FS_Subset
  <2> DEFINE g == [t \in asked |-> Call(t)]
  <2>2. g \in Surjection(asked, C)
    BY DEF Surjection
  <2>3. IsFiniteSet(C)
    <3> HIDE DEF g, C, asked
    <3> QED
      BY <2>1, <2>2, FS_Surjection
  <2> QED
    BY <1>5, <2>3
<1>7. /\ \A x \in C : x.kind = "resume"
      /\ \A t : \A x, y \in C : x \in Resumes(t) /\ y \in Resumes(t) => x = y
      /\ \A t \in Threads : t \notin asked => C \cap Resumes(t) = {}
  <2>1. \A x \in C : x.kind = "resume" /\ x.thread \in asked /\ x = Call(x.thread)
    <3> SUFFICES ASSUME NEW t \in asked
                 PROVE  Call(t).kind = "resume" /\ Call(t).thread \in asked /\ Call(t) = Call(Call(t).thread)
      OBVIOUS
    <3> QED
      BY <1>5
  <2>2. \A t : \A x \in Resumes(t) : x.thread = t
    BY DEF Resumes
  <2> HIDE DEF C, asked, Call
  <2> QED
    BY <2>1, <2>2
<1> HIDE DEF C, Call
<1>8. \A r : C \cap AnswersTo(r) = {} /\ C \cap Misled(r) = {}
  BY <1>7, Apart
<1> DEFINE w == SetToSeq(C)
<1>9. /\ w \in Seq(Calls)
      /\ \A M : C \cap M = {} => Without(w, M)
      /\ \A M : (\A x, y \in C : x \in M /\ y \in M => x = y) => OnceAtMost(w, M)
  BY <1>6, EachOnce
<1> HIDE DEF w
<1>10. /\ toServer' \in Seq(Calls)
       /\ \A M : Without(w, M) => Less(toServer, toServer', M)
       /\ \A M : Without(toServer, M) /\ OnceAtMost(w, M) => OnceAtMost(toServer', M)
  <2>1. toServer' = toServer \o w
    BY <1>1 DEF w
  <2> QED
    BY <1>2, <1>9, <2>1, JoinBrings DEF Less
<1>11. \A r : Less(toServer, toServer', AnswersTo(r)) /\ Less(toServer, toServer', Misled(r))
  BY <1>8, <1>9, <1>10
<1>12. \A t \in Threads : pending'[t] = IF t \in asked THEN 0 ELSE p[t]
  BY <1>1, <1>4
<1>13. pending' \in [Threads -> Nat \cup {Unseen, Noted}]
  BY <1>1, <1>4
<1>14. ASSUME NEW t \in Threads PROVE ThreadInv(t)'
  <2>1. CASE t \in asked
    <3>1. Without(toObserver', Replies(t)) /\ OnceAtMost(toServer', Resumes(t)) /\ t \notin follows' /\ subscribed'[t] # 1
      BY <1>3, <1>7, <1>9, <1>10, <2>1 DEF Less
    <3>2. OnceAtMost(toObserver', Replies(t))
      BY <3>1 DEF Without, OnceAtMost
    <3>3. pending'[t] = 0
      BY <1>12, <2>1
    <3> QED
      BY <3>1, <3>2, <3>3 DEF ThreadInv, FlightInv, FollowInv
  <2>2. CASE t \notin asked
    <3>1. Less(toServer, toServer', Resumes(t)) /\ ThreadInv(t)
      BY <1>7, <1>9, <1>10, <2>2 DEF ObserverInv
    <3>2. CASE p[t] = pending[t]
      BY <1>12, <2>2, <3>1, <3>2, ThreadStays
    <3>3. CASE p[t] = Noted /\ pending[t] = Unseen /\ subscribed[t] = 0
      <4>1. pending[t] < 0 /\ ~(pending[t] >= 0)
        BY <3>3 DEF Unseen
      <4>2. Without(toServer', Resumes(t)) /\ Without(toObserver', Replies(t)) /\ t \notin follows'
        BY <3>1, <3>3, <4>1 DEF ThreadInv, FlightInv, FollowInv, Less
      <4>3. OnceAtMost(toServer', Resumes(t)) /\ OnceAtMost(toObserver', Replies(t))
        BY <4>2 DEF Without, OnceAtMost
      <4> QED
        BY <3>3, <4>2, <4>3 DEF ThreadInv, FlightInv, FollowInv
    <3> QED
      BY <3>2, <3>3
  <2> QED
    BY <2>1, <2>2
<1> QED
  BY <1>10, <1>11, <1>13, <1>14

(* What note leaves is a thread as it was, or one that is new.             *)
LEMMA NoteOf ==
    ASSUME ObserverTypes, NEW ts
    PROVE  /\ Note(ts, pending) \in [Threads -> Nat \cup {Unseen, Noted}]
           /\ \A t \in Threads : \/ Note(ts, pending)[t] = pending[t]
                                 \/ Note(ts, pending)[t] = Noted /\ pending[t] = Unseen /\ subscribed[t] = 0
  BY DEF ObserverTypes, Note

(* The first message is read.                                              *)
LEMMA FirstRead ==
    ASSUME ObserverInv, NEW kind, Reads(kind)
    PROVE  /\ conn = "reading" /\ toObserver' \in Seq(Reports) /\ \A M : Less(toObserver, toObserver', M)
           /\ Head(toObserver) \in Reports /\ Head(toObserver).kind = kind
           /\ \A M : Without(toObserver, M) => Head(toObserver) \notin M
           /\ \A M : OnceAtMost(toObserver, M) /\ Head(toObserver) \in M => Without(toObserver', M)
<1>1. toObserver \in Seq(Reports)
  BY DEF ObserverInv, ObserverTypes
<1> QED
  BY <1>1, TailLoses, LessSame DEF Reads

(* The list of threads, and a retry.                                       *)
LEMMA ListedStep ==
    ASSUME ObserverInv, ReadListed \/ RetryWakes
    PROVE  ObserverInv'
<1> USE DEF serverVars, resumeVars, inboxVars
<1>1. /\ UNCHANGED <<subscribed, item, answerer, orphans, restarts, follows, req, conn>>
  BY DEF ReadListed, RetryWakes
<1>2. toObserver' \in Seq(Reports) /\ \A M : Less(toObserver, toObserver', M)
  <2>1. CASE ReadListed
    BY <2>1, FirstRead DEF ReadListed
  <2>2. CASE RetryWakes
    BY <2>2, LessSame DEF RetryWakes, ObserverInv, ObserverTypes
  <2> QED
    BY <2>1, <2>2
<1>3. PICK p \in [Threads -> Nat \cup {Unseen, Noted}] :
         /\ ResumePending(p)
         /\ \A t \in Threads : p[t] = pending[t] \/ (p[t] = Noted /\ pending[t] = Unseen /\ subscribed[t] = 0)
  <2>1. ObserverTypes
    BY DEF ObserverInv
  <2>2. CASE ReadListed
    BY <2>1, <2>2, NoteOf DEF ReadListed
  <2>3. CASE RetryWakes
    BY <2>1, <2>3 DEF RetryWakes, ObserverTypes
  <2> QED
    BY <2>2, <2>3
<1>4. /\ toServer' \in Seq(Calls) /\ pending' \in [Threads -> Nat \cup {Unseen, Noted}]
      /\ \A t \in Threads : ThreadInv(t)'
      /\ \A r : Less(toServer, toServer', AnswersTo(r)) /\ Less(toServer, toServer', Misled(r))
  BY <1>1, <1>2, <1>3, PendingStep
<1>5. ObserverTypes'
  BY <1>1, <1>2, <1>4 DEF ObserverInv, ObserverTypes
<1>6. ASSUME NEW r \in Requests PROVE AskedInv(r)' /\ AnsweredInv(r)'
  BY <1>1, <1>2, <1>4, AskedStays, AnsweredStays DEF ObserverInv
<1> QED
  BY <1>4, <1>5, <1>6 DEF ObserverInv

(* A reply: of what nobody waits for, that the thread is followed, or that *)
(* it is not yet.                                                          *)
LEMMA ResponseStep ==
    ASSUME ObserverInv, ReadResponse
    PROVE  ObserverInv'
<1> USE DEF serverVars, resumeVars, inboxVars
<1> DEFINE m == Head(toObserver)
<1>1. /\ Reads("resumed")
      /\ UNCHANGED <<item, answerer, orphans, restarts, follows, req, conn, toServer>>
  BY DEF ReadResponse
<1>2. /\ toObserver' \in Seq(Reports) /\ \A M : Less(toObserver, toObserver', M)
      /\ m \in Reports /\ m.kind = "resumed"
      /\ \A M : Without(toObserver, M) => m \notin M
      /\ \A M : OnceAtMost(toObserver, M) /\ m \in M => Without(toObserver', M)
  BY <1>1, FirstRead
<1>3. PICK t \in Threads : t = m.thread
  BY <1>2, ReportKinds
<1>4. m.id \in Nat /\ m.ok \in BOOLEAN /\ m \in Replies(t) /\ (~m.ok => m \in Refusals(t))
  BY <1>2, <1>3, ReportKinds
<1>5. \/ UNCHANGED <<pending, subscribed>>
      \/ pending[t] = m.id /\ Resumed(t)
      \/ pending[t] = m.id /\ ~m.ok /\ Refused(t)
  BY <1>3 DEF ReadResponse
<1> HIDE DEF m
<1>6. ObserverTypes /\ ThreadInv(t) /\ FlightInv(t) /\ FollowInv(t)
  BY DEF ObserverInv, ThreadInv
<1>7. /\ Without(toObserver', Replies(t)) /\ Without(toServer, Resumes(t))
      /\ ~Without(toObserver, Replies(t))
  BY <1>2, <1>4, <1>6 DEF FlightInv
<1>8. Without(toObserver', Refusals(t)) /\ OnceAtMost(toObserver', Replies(t))
  BY <1>7 DEF Without, OnceAtMost, Replies, Refusals
<1>9. /\ pending' \in [Threads -> Nat \cup {Unseen, Noted}] /\ subscribed' \in [Threads -> {0, 1}]
      /\ \A u \in Threads \ {t} : pending'[u] = pending[u] /\ subscribed'[u] = subscribed[u]
      /\ ThreadInv(t)'
  <2>1. CASE UNCHANGED <<pending, subscribed>>
    BY <1>1, <1>2, <1>6, <2>1, ThreadStays, LessSame DEF ObserverTypes
  <2>2. CASE pending[t] = m.id /\ Resumed(t)
    <3>1. pending' = [pending EXCEPT ![t] = Unseen] /\ subscribed' = [subscribed EXCEPT ![t] = @ + 1]
      BY <2>2 DEF Resumed
    <3>2. subscribed[t] = 0
      <4>1. subscribed[t] # 1
        BY <1>4, <1>6, <2>2 DEF FlightInv, Unseen
      <4> QED
        BY <1>6, <4>1 DEF ObserverTypes
    <3>3. pending'[t] = Unseen /\ subscribed'[t] = 1
      BY <1>6, <3>1, <3>2 DEF ObserverTypes
    <3>4. ThreadInv(t)'
      BY <1>1, <1>6, <1>7, <1>8, <3>3 DEF ThreadInv, FlightInv, FollowInv
    <3>5. subscribed' \in [Threads -> {0, 1}] /\ pending' \in [Threads -> Nat \cup {Unseen, Noted}]
      BY <1>6, <3>1, <3>2 DEF ObserverTypes
    <3> QED
      BY <1>6, <3>1, <3>4, <3>5 DEF ObserverTypes
  <2>3. CASE pending[t] = m.id /\ ~m.ok /\ Refused(t)
    <3>1. pending' = [pending EXCEPT ![t] = Noted] /\ subscribed' = subscribed
      BY <2>3 DEF Refused
    <3>2. t \notin follows
      BY <1>2, <1>4, <1>6, <2>3 DEF FollowInv
    <3>3. pending'[t] = Noted /\ subscribed'[t] # 1
      <4>1. subscribed[t] # 1
        BY <1>4, <1>6, <2>3 DEF FlightInv, Unseen
      <4> QED
        BY <1>6, <3>1, <4>1 DEF ObserverTypes
    <3>4. ThreadInv(t)'
      BY <1>1, <1>6, <1>7, <1>8, <3>2, <3>3 DEF ThreadInv, FlightInv, FollowInv
    <3> QED
      BY <1>6, <3>1, <3>4 DEF ObserverTypes
  <2> QED
    BY <1>5, <2>1, <2>2, <2>3
<1>10. ObserverTypes'
  BY <1>1, <1>2, <1>6, <1>9 DEF ObserverTypes
<1>11. ASSUME NEW u \in Threads PROVE ThreadInv(u)'
  <2>1. CASE u = t
    BY <1>9, <2>1
  <2>2. CASE u # t
    BY <1>1, <1>2, <1>9, <2>2, ThreadStays, LessSame DEF ObserverInv
  <2> QED
    BY <2>1, <2>2
<1>12. ASSUME NEW r \in Requests PROVE AskedInv(r)' /\ AnsweredInv(r)'
  BY <1>1, <1>2, AskedStays, AnsweredStays, LessSame DEF ObserverInv
<1> QED
  BY <1>10, <1>11, <1>12 DEF ObserverInv

(* An approval makes the item, of which there was none; its resolution     *)
(* takes it out unless it is decided.                                      *)
LEMMA ItemChanges ==
    ASSUME ObserverInv, NEW r \in Requests, NEW kind \in {"approval", "resolved"}, Reads(kind),
           Head(toObserver).request = r,
           kind = "approval" => Ask(r), kind = "resolved" => Withdraw(r),
           UNCHANGED <<req, follows, conn, restarts>>, Less(toServer, toServer', AnswersTo(r)),
           Less(toServer, toServer', Misled(r))
    PROVE  /\ item' \in [Requests -> {"absent", "pending", "withdrawn"} \cup Decisions]
           /\ DOMAIN answerer' = Requests /\ orphans' = 0
           /\ \A s \in Requests \ {r} : item'[s] = item[s] /\ answerer'[s] = answerer[s]
           /\ AskedInv(r)' /\ AnsweredInv(r)'
<1> DEFINE m == Head(toObserver)
<1>1. /\ conn = "reading" /\ \A M : Less(toObserver, toObserver', M)
      /\ m \in Reports /\ m.kind = kind
      /\ \A M : Without(toObserver, M) => m \notin M
      /\ \A M : OnceAtMost(toObserver, M) /\ m \in M => Without(toObserver', M)
  BY FirstRead
<1>2. m = About(kind, r)
  BY <1>1, ReportKinds
<1> HIDE DEF m
<1>3. ObserverTypes /\ AskedInv(r) /\ AnsweredInv(r)
  BY DEF ObserverInv
<1>4. "pending" \notin Decisions /\ "absent" \notin Decisions /\ "withdrawn" \notin Decisions
  BY ObserverLimits
<1>5. CASE kind = "approval"
  <2>1. m \in Approvals(r)
    BY <1>2, <1>5 DEF Approvals
  <2>2. /\ Without(toObserver', Approvals(r)) /\ item[r] = "absent" /\ answerer[r] = "none"
        /\ req[r] # "new" /\ Of[r] \in follows
    BY <1>1, <1>3, <2>1 DEF AskedInv
  <2>3. item' = [item EXCEPT ![r] = "pending"] /\ answerer' = [answerer EXCEPT ![r] = "waiting"] /\ orphans' = orphans
    BY <1>5, <2>2 DEF Ask, Waits
  <2>4. item'[r] = "pending" /\ answerer'[r] = "waiting"
    BY <1>3, <2>3 DEF ObserverTypes
  <2>5. AskedInv(r)'
    <3>1. OnceAtMost(toObserver', Approvals(r))
      BY <2>2 DEF Without, OnceAtMost
    <3> QED
      BY <1>1, <2>2, <2>4, <3>1 DEF AskedInv
  <2>6. AnsweredInv(r)'
    <3>1. Without(toServer', AnswersTo(r))
      BY <1>3, <1>4, <2>2 DEF AnsweredInv, Less
    <3>2. Without(toServer', Misled(r)') /\ OnceAtMost(toServer', AnswersTo(r))
      BY <3>1 DEF Without, OnceAtMost, Misled
    <3>3. ~(restarts' = 0 /\ req'[r] \in Decisions)
      BY <1>3, <1>4, <2>2 DEF AnsweredInv
    <3> QED
      BY <3>1, <3>2, <3>3 DEF AnsweredInv
  <2> QED
    BY <1>3, <2>3, <2>5, <2>6 DEF ObserverTypes
<1>6. CASE kind = "resolved"
  <2>1. /\ item' = [item EXCEPT ![r] = IF @ = "pending" THEN "withdrawn" ELSE @]
        /\ answerer' = [answerer EXCEPT ![r] = IF item[r] = "pending" THEN Woken(@) ELSE @]
        /\ orphans' = orphans
    BY <1>6 DEF Withdraw
  <2>2. CASE item[r] = "pending"
    <3>1. item'[r] = "withdrawn"
      BY <1>3, <2>1, <2>2 DEF ObserverTypes
    <3>2. Without(toObserver', Approvals(r)) /\ ~(req[r] = "new" \/ Of[r] \notin follows)
      BY <1>1, <1>3, <2>2 DEF AskedInv, Less
    <3>3. OnceAtMost(toObserver', Approvals(r))
      BY <3>2 DEF Without, OnceAtMost
    <3>4. AskedInv(r)'
      BY <1>1, <3>1, <3>2, <3>3 DEF AskedInv
    <3>5. Without(toServer', AnswersTo(r))
      BY <1>3, <1>4, <2>2 DEF AnsweredInv, Less
    <3>6. Without(toServer', Misled(r)') /\ OnceAtMost(toServer', AnswersTo(r))
      BY <3>5 DEF Without, OnceAtMost, Misled
    <3>7. ~(restarts' = 0 /\ req'[r] \in Decisions)
      BY <1>3, <1>4, <2>2 DEF AnsweredInv
    <3>8. AnsweredInv(r)'
      BY <3>5, <3>6, <3>7 DEF AnsweredInv
    <3> QED
      BY <1>3, <2>1, <3>4, <3>8 DEF ObserverTypes
  <2>3. CASE item[r] # "pending"
    <3>1. item'[r] = item[r] /\ answerer'[r] = answerer[r]
      BY <1>3, <2>1, <2>3 DEF ObserverTypes
    <3>2. AskedInv(r)' /\ AnsweredInv(r)'
      BY <1>1, <1>3, <3>1, AskedStays, AnsweredStays
    <3> QED
      BY <1>3, <2>1, <3>2 DEF ObserverTypes
  <2> QED
    BY <2>2, <2>3
<1> QED
  BY <1>5, <1>6

(* A message with a method.                                                *)
LEMMA MethodStep ==
    ASSUME ObserverInv, ReadMethod
    PROVE  ObserverInv'
<1> USE DEF serverVars, resumeVars, inboxVars
<1>1. UNCHANGED <<subscribed, restarts, follows, req, conn>>
  BY DEF ReadMethod
<1>2. PICK kind \in {"news", "approval", "resolved"} :
         /\ Reads(kind)
         /\ kind = "news" => UNCHANGED <<item, answerer, orphans>>
         /\ kind = "approval" => Ask(Head(toObserver).request)
         /\ kind = "resolved" => Withdraw(Head(toObserver).request)
  BY DEF ReadMethod
<1>3. toObserver' \in Seq(Reports) /\ \A M : Less(toObserver, toObserver', M)
  BY <1>2, FirstRead
<1>4. /\ toServer' \in Seq(Calls) /\ pending' \in [Threads -> Nat \cup {Unseen, Noted}]
      /\ \A t \in Threads : ThreadInv(t)'
      /\ \A r : Less(toServer, toServer', AnswersTo(r)) /\ Less(toServer, toServer', Misled(r))
  <2>1. PICK p \in [Threads -> Nat \cup {Unseen, Noted}] :
           /\ ResumePending(p)
           /\ \A t \in Threads : p[t] = pending[t] \/ (p[t] = Noted /\ pending[t] = Unseen /\ subscribed[t] = 0)
    <3>1. ObserverTypes
      BY DEF ObserverInv
    <3> QED
      BY <3>1, NoteOf DEF ReadMethod
  <2> QED
    BY <1>1, <1>3, <2>1, PendingStep
<1>5. CASE kind = "news"
  <2>1. ObserverTypes'
    BY <1>1, <1>2, <1>3, <1>4, <1>5 DEF ObserverInv, ObserverTypes
  <2>2. ASSUME NEW r \in Requests PROVE AskedInv(r)' /\ AnsweredInv(r)'
    BY <1>1, <1>2, <1>3, <1>4, <1>5, AskedStays, AnsweredStays DEF ObserverInv
  <2> QED
    BY <1>4, <2>1, <2>2 DEF ObserverInv
<1>6. CASE kind \in {"approval", "resolved"}
  <2>1. PICK r \in Requests : r = Head(toObserver).request
    BY <1>2, <1>6, FirstRead, ReportKinds
  <2>2. /\ item' \in [Requests -> {"absent", "pending", "withdrawn"} \cup Decisions]
        /\ DOMAIN answerer' = Requests /\ orphans' = 0
        /\ \A s \in Requests \ {r} : item'[s] = item[s] /\ answerer'[s] = answerer[s]
        /\ AskedInv(r)' /\ AnsweredInv(r)'
    BY <1>1, <1>2, <1>4, <1>6, <2>1, ItemChanges
  <2>3. ObserverTypes'
    BY <1>1, <1>3, <1>4, <2>2 DEF ObserverInv, ObserverTypes
  <2>4. ASSUME NEW s \in Requests PROVE AskedInv(s)' /\ AnsweredInv(s)'
    <3>1. CASE s = r
      BY <2>2, <3>1
    <3>2. CASE s # r
      BY <1>1, <1>3, <1>4, <2>2, <3>2, AskedStays, AnsweredStays DEF ObserverInv
    <3> QED
      BY <3>1, <3>2
  <2> QED
    BY <1>4, <2>3, <2>4 DEF ObserverInv
<1> QED
  BY <1>2, <1>5, <1>6

-----------------------------------------------------------------------------
(* The theorems.                                                           *)

(* At first every queue is empty and no request is raised.                 *)
LEMMA ObserverStarts == Init => ObserverInv
<1> SUFFICES ASSUME Init PROVE ObserverInv
  OBVIOUS
<1>1. \A M : Without(<<>>, M) /\ OnceAtMost(<<>>, M)
  BY LessEmpty DEF Without, OnceAtMost
<1>2. ObserverTypes
  BY DEF Init, ObserverTypes
<1>3. ASSUME NEW t \in Threads PROVE ThreadInv(t)
  BY <1>1 DEF Init, ThreadInv, FlightInv, FollowInv
<1>4. ASSUME NEW r \in Requests PROVE AskedInv(r) /\ AnsweredInv(r)
  BY <1>1, ObserverLimits DEF Init, AskedInv, AnsweredInv
<1> QED
  BY <1>2, <1>3, <1>4 DEF ObserverInv

(* Every step of the server, the observer and the humans keeps it.         *)
LEMMA ObserverGoes == ObserverInv /\ [Next]_vars => ObserverInv'
<1> SUFFICES ASSUME ObserverInv, [Next]_vars PROVE ObserverInv'
  OBVIOUS
<1>1. CASE UNCHANGED vars
  <2>1. /\ UNCHANGED <<pending, subscribed, item, answerer, orphans, restarts, follows, toServer, toObserver, req, conn>>
    BY <1>1 DEF vars, serverVars, resumeVars, inboxVars
  <2>2. toServer \in Seq(Calls) /\ toObserver \in Seq(Reports) /\ req \in [Requests -> {"new", "open", "tui"} \cup Decisions]
    BY DEF ObserverInv, ObserverTypes
  <2> QED
    BY <2>1, <2>2, LessSame, PlainStep
<1>2. CASE ServerStarts \/ ServerEnds \/ GiveUp \/ ReadEof \/ \E t \in Threads : ThreadMoves(t)
  BY <1>2, ServerStep
<1>3. CASE Serve
  BY <1>3, ServeStep
<1>4. CASE Connect \/ Restart
  BY <1>4, FreshStep
<1>5. CASE Handshake
  BY <1>5, HandshakeStep
<1>6. CASE ReadListed \/ RetryWakes
  BY <1>6, ListedStep
<1>7. CASE ReadResponse
  BY <1>7, ResponseStep
<1>8. CASE ReadMethod
  BY <1>8, MethodStep
<1>9. ASSUME NEW r \in Requests, Raise(r) PROVE ObserverInv'
  BY <1>9, RaiseStep
<1>10. ASSUME NEW r \in Requests, TuiAnswers(r) PROVE ObserverInv'
  BY <1>10, TuiStep
<1>11. ASSUME NEW r \in Requests, Answer(r) PROVE ObserverInv'
  BY <1>11, AnswerStep
<1>12. ASSUME NEW r \in Requests, NEW d \in Decisions, Decide(r, d) PROVE ObserverInv'
  BY <1>12, DecideStep
<1>13. ASSUME NEW r \in Requests, Tests(r) \/ Sleeps(r) PROVE ObserverInv'
  BY <1>13, WaitStep
<1> QED
  BY <1>1, <1>2, <1>3, <1>4, <1>5, <1>6, <1>7, <1>8, <1>9, <1>10, <1>11, <1>12, <1>13 DEF Next, Observer

(* Positions of which there is at most one are none or one.                *)
LEMMA AtMostOne ==
    ASSUME NEW S, \A i, j \in S : i = j
    PROVE  Cardinality(S) \in {0, 1} /\ (S = {} <=> Cardinality(S) = 0)
<1>1. CASE S = {}
  BY <1>1, FS_EmptySet
<1>2. ASSUME NEW i \in S PROVE S = {i} /\ Cardinality(S) = 1
  <2>1. S = {i}
    OBVIOUS
  <2> QED
    BY <2>1, FS_Singleton
<1> QED
  BY <1>1, <1>2

(* What the invariant says of queues is what the run checks of numbers.    *)
LEMMA OnceFollowed == ObserverInv => FollowedOnce
<1> SUFFICES ASSUME ObserverInv PROVE FollowedOnce
  OBVIOUS
<1>1. ObserverTypes /\ toServer \in Seq(Calls) /\ toObserver \in Seq(Reports) /\ orphans = 0
  BY DEF ObserverInv, ObserverTypes
<1>2. ASSUME NEW t \in Threads
      PROVE  /\ subscribed[t] <= 1 /\ InFlight(t) <= 1 /\ (InFlight(t) = 1 => pending[t] >= 0)
             /\ subscribed[t] = 1 => pending[t] = Unseen
  <2> DEFINE A == {i \in DOMAIN toServer : toServer[i].kind = "resume" /\ toServer[i].thread = t}
             B == {i \in DOMAIN toObserver : toObserver[i].kind = "resumed" /\ toObserver[i].thread = t}
  <2>1. FlightInv(t)
    BY DEF ObserverInv, ThreadInv
  <2>2. /\ \A i \in A : toServer[i] \in Resumes(t)
        /\ \A i \in DOMAIN toServer \ A : toServer[i] \notin Resumes(t)
    <3>1. \A i \in DOMAIN toServer : toServer[i] \in Calls
      BY <1>1
    <3> QED
      BY <3>1, CallKinds, Apart
  <2>3. \A i \in B : toObserver[i] \in Replies(t)
    <3>1. \A i \in DOMAIN toObserver : toObserver[i] \in Reports
      BY <1>1
    <3> QED
      BY <3>1, ReportKinds
  <2>4. /\ \A i, j \in A : i = j
        /\ \A i, j \in B : i = j
        /\ A = {} \/ B = {}
        /\ pending[t] < 0 => A = {} /\ B = {}
    BY <2>1, <2>2, <2>3 DEF FlightInv, OnceAtMost, Without
  <2>5. /\ Cardinality(A) \in {0, 1} /\ (A = {} <=> Cardinality(A) = 0)
        /\ Cardinality(B) \in {0, 1} /\ (B = {} <=> Cardinality(B) = 0)
    <3> HIDE DEF A, B
    <3> QED
      BY <2>4, AtMostOne
  <2>6. InFlight(t) = Cardinality(A) + Cardinality(B)
    BY DEF InFlight
  <2>7. pending[t] \in Int /\ subscribed[t] \in {0, 1}
    BY <1>1 DEF ObserverTypes, Unseen, Noted
  <2> HIDE DEF A, B
  <2>8. InFlight(t) <= 1 /\ (InFlight(t) = 1 => pending[t] >= 0)
    BY <2>4, <2>5, <2>6, <2>7
  <2> QED
    BY <2>1, <2>7, <2>8 DEF FlightInv
<1> QED
  BY <1>1, <1>2 DEF FollowedOnce

(* The same of the answers.                                                *)
LEMMA OnceAnswered == ObserverInv => AnswersAreDecisions
<1> SUFFICES ASSUME ObserverInv PROVE AnswersAreDecisions
  OBVIOUS
<1>1. toServer \in Seq(Calls)
  BY DEF ObserverInv, ObserverTypes
<1>2. ASSUME NEW r \in Requests
      PROVE  LET A == {i \in DOMAIN toServer : toServer[i].kind = "answer" /\ toServer[i].request = r}
             IN  /\ Cardinality(A) <= 1
                 /\ \A i \in A : toServer[i].decision = item[r]
                 /\ restarts = 0 /\ req[r] \in Decisions => item[r] = req[r]
  <2> DEFINE A == {i \in DOMAIN toServer : toServer[i].kind = "answer" /\ toServer[i].request = r}
  <2>1. AnsweredInv(r)
    BY DEF ObserverInv
  <2>2. \A i \in A : toServer[i] \in AnswersTo(r)
    <3>1. \A i \in DOMAIN toServer : toServer[i] \in Calls
      BY <1>1
    <3> QED
      BY <3>1, CallKinds
  <2>3. \A i, j \in A : i = j
    BY <2>1, <2>2 DEF AnsweredInv, OnceAtMost
  <2>4. \A i \in A : toServer[i].decision = item[r]
    BY <2>1, <2>2 DEF AnsweredInv, Without, Misled
  <2>5. Cardinality(A) <= 1
    <3>1. Cardinality(A) \in {0, 1}
      <4> HIDE DEF A
      <4> QED
        BY <2>3, AtMostOne
    <3> HIDE DEF A
    <3> QED
      BY <3>1
  <2> QED
    BY <2>1, <2>4, <2>5 DEF AnsweredInv
<1> QED
  BY <1>2 DEF AnswersAreDecisions

(* Server, queues, observer and inbox keep their types and the invariant   *)
(* in every state.                                                         *)
THEOREM ObserverInvariant == Spec => []ObserverInv
<1> QED
  BY ObserverStarts, ObserverGoes, PTL DEF Spec

(* A thread is asked for once at a time and followed once, and no answer   *)
(* thread loses its item, however reader, sleeping retries, replies,       *)
(* restarts and the end of the server interleave.                          *)
THEOREM FollowedOnceHolds == Spec => []FollowedOnce
<1> QED
  BY ObserverInvariant, OnceFollowed, PTL

(* The server is told what the inbox decided, once.                        *)
THEOREM AnswersAreDecisionsHolds == Spec => []AnswersAreDecisions
<1> QED
  BY ObserverInvariant, OnceAnswered, PTL

(* Both together, which the run checks: for any number of threads,         *)
(* requests, decisions, retries and restarts.                              *)
THEOREM ObservedOnceHolds == Spec => []ObservedOnce
<1>1. ObserverInv => ObservedOnce
  BY OnceFollowed, OnceAnswered DEF ObservedOnce
<1> QED
  BY <1>1, ObserverInvariant, PTL
===========================================================================
