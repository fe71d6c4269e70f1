-------------------------- MODULE InboxFeed_proofs --------------------------
(***************************************************************************)
(* Proofs about InboxFeed, for any number of requests and of viewers'      *)
(* broadcasts on their way.                                                *)
(***************************************************************************)
EXTENDS InboxFeed, TLAPS

(* The threads are told apart by the first component of their names.       *)
LEMMA ThreadKinds ==
    /\ \A a \in Asks : Hook(a) \in Threads /\ Hook(a) \notin Removers /\ Hook(a) # Dog
    /\ Removers \subseteq Threads /\ Dog \in Threads /\ Dog \notin Removers
    /\ \A a, b \in Asks : Hook(a) = Hook(b) => a = b
    /\ \A t \in Removers : AskOf(t) \in Asks
BY InboxFeedAssumption DEF Threads, Removers, Hook, Human, Agent, Dog, AskOf

(* A thread that goes to a place of its own kind leaves the others alone.  *)
LEMMA HookGoes ==
    ASSUME PlacesOK, NEW a \in Asks, NEW from, NEW to \in HookAt, Goes(Hook(a), from, to)
    PROVE  PlacesOK'
<1>1. at' = [at EXCEPT ![Hook(a)] = to] /\ Hook(a) \in DOMAIN at
    BY ThreadKinds DEF Goes, PlacesOK
<1>2. at' \in [Threads -> HookAt \cup RemoverAt \cup DogAt]
    BY <1>1 DEF PlacesOK
<1>3. \A b \in Asks : at'[Hook(b)] \in HookAt
    BY <1>1, ThreadKinds DEF PlacesOK
<1>4. (\A t \in Removers : at'[t] \in RemoverAt) /\ at'[Dog] \in DogAt
    BY <1>1, ThreadKinds DEF PlacesOK
<1> QED
    BY <1>2, <1>3, <1>4 DEF PlacesOK

LEMMA RemoverGoes ==
    ASSUME PlacesOK, NEW t \in Removers, NEW from, NEW to \in RemoverAt, Goes(t, from, to)
    PROVE  PlacesOK'
<1>1. at' = [at EXCEPT ![t] = to] /\ t \in DOMAIN at
    BY ThreadKinds DEF Goes, PlacesOK
<1>2. at' \in [Threads -> HookAt \cup RemoverAt \cup DogAt]
    BY <1>1 DEF PlacesOK
<1>3. \A b \in Asks : at'[Hook(b)] \in HookAt
    BY <1>1, ThreadKinds DEF PlacesOK
<1>4. (\A u \in Removers : at'[u] \in RemoverAt) /\ at'[Dog] \in DogAt
    BY <1>1, ThreadKinds DEF PlacesOK
<1> QED
    BY <1>2, <1>3, <1>4 DEF PlacesOK

LEMMA DogGoes ==
    ASSUME PlacesOK, NEW from, NEW to \in DogAt, Goes(Dog, from, to)
    PROVE  PlacesOK'
<1>1. at' = [at EXCEPT ![Dog] = to] /\ Dog \in DOMAIN at
    BY ThreadKinds DEF Goes, PlacesOK
<1>2. at' \in [Threads -> HookAt \cup RemoverAt \cup DogAt]
    BY <1>1 DEF PlacesOK
<1>3. \A b \in Asks : at'[Hook(b)] \in HookAt
    BY <1>1, ThreadKinds DEF PlacesOK
<1>4. (\A u \in Removers : at'[u] \in RemoverAt) /\ at'[Dog] \in DogAt
    BY <1>1, ThreadKinds DEF PlacesOK
<1> QED
    BY <1>2, <1>3, <1>4 DEF PlacesOK

(* What broadcast_inbox copies is a list of requests.                      *)
LEMMA InboxIsSnapshot == ASSUME TypeOK PROVE Inbox \in Snapshots
<1>1. ASSUME NEW item \in Inbox PROVE item \in Asks \X BOOLEAN
  <2>1. PICK a \in pending : item = <<a, a \in closed>>
    BY <1>1, Zenon DEF Inbox
  <2>2. a \in Asks /\ (a \in closed) \in BOOLEAN
    BY DEF TypeOK
  <2> QED
    BY <2>1, <2>2
<1> QED
    BY <1>1 DEF Snapshots

(* broadcast_inbox, by a hook, by who answers, and by the watchdog: each   *)
(* finds its thread in a place of its own kind.                            *)
LEMMA BroadcastTypes ==
    ASSUME TypeOK, NEW t \in Threads, Copy(t) \/ Post(t)
    PROVE  TypeOK'
<1>1. PlacesOK'
  <2>1. CASE \E a \in Asks : t = Hook(a)
    <3>1. PICK a \in Asks : t = Hook(a)
      BY <2>1
    <3>2. at[Hook(a)] \in HookAt
      BY DEF TypeOK, PlacesOK
    <3>3. PICK from, to : to \in HookAt /\ Goes(Hook(a), from, to)
      BY <3>1, <3>2 DEF Copy, Post, Goes, HookAt
    <3> QED
      BY <3>3, HookGoes DEF TypeOK
  <2>2. CASE t \in Removers
    <3>1. at[t] \in RemoverAt
      BY <2>2 DEF TypeOK, PlacesOK
    <3>2. PICK from, to : to \in RemoverAt /\ Goes(t, from, to)
      BY <3>1 DEF Copy, Post, Goes, RemoverAt
    <3> QED
      BY <2>2, <3>2, RemoverGoes DEF TypeOK
  <2>3. CASE t = Dog
    <3>1. at[Dog] \in DogAt
      BY DEF TypeOK, PlacesOK
    <3>2. PICK from, to : to \in DogAt /\ Goes(Dog, from, to)
      BY <2>3, <3>1 DEF Copy, Post, Goes, DogAt
    <3> QED
      BY <3>2, DogGoes DEF TypeOK
  <2> QED
    BY <2>1, <2>2, <2>3 DEF Threads
<1>2. copy' \in [Threads -> Snapshots]
    BY InboxIsSnapshot DEF Copy, Post, TypeOK, Snapshots
<1>3. queue' \in Seq(Snapshots)
  <2>1. CASE Copy(t)
    BY <2>1 DEF Copy, appVars, TypeOK
  <2>2. CASE Post(t)
    <3>1. copy[t] \in Snapshots /\ queue' = Append(queue, copy[t])
      BY <2>2 DEF Post, TypeOK
    <3> QED
      BY <3>1 DEF TypeOK
  <2> QED
    BY <2>1, <2>2
<1> QED
    BY <1>1, <1>2, <1>3 DEF Copy, Post, TypeOK, inboxVars, sessionVars, appVars

(* Every step keeps the types.                                             *)
LEMMA TypeOKNext == ASSUME TypeOK, [Next]_vars PROVE TypeOK'
<1> USE DEF inboxVars, sessionVars, appVars
<1>1. ASSUME NEW a \in Asks, HookStep(a) PROVE TypeOK'
  <2>1. CASE Lookup(a) \/ TooLate(a) \/ Reply(a)
    <3>1. PICK from, to : to \in HookAt /\ Goes(Hook(a), from, to)
      BY <2>1 DEF Lookup, TooLate, Reply, HookAt
    <3>2. PlacesOK'
      BY <3>1, HookGoes DEF TypeOK
    <3> QED
      BY <2>1, <3>2 DEF Lookup, TooLate, Reply, TypeOK
  <2>2. CASE Hear(a)
    <3>1. PlacesOK'
      BY <2>2, HookGoes DEF Hear, HookAt, TypeOK
    <3> QED
      BY <2>2, <3>1 DEF Hear, Clear, TypeOK
  <2>3. CASE Arm(a)
    <3>1. PlacesOK'
      BY <2>3, HookGoes DEF Arm, HookAt, TypeOK
    <3> QED
      BY <2>3, <3>1 DEF Arm, TypeOK
  <2>4. CASE Insert(a)
    <3>1. PlacesOK'
      BY <2>4, HookGoes DEF Insert, HookAt, TypeOK
    <3> QED
      BY <2>4, <3>1 DEF Insert, TypeOK
  <2>5. CASE Expire(a)
    <3>1. PlacesOK'
      BY <2>5, HookGoes DEF Expire, HookAt, TypeOK
    <3> QED
      BY <2>5, <3>1 DEF Expire, TypeOK
  <2>6. CASE Copy(Hook(a)) \/ Post(Hook(a))
    BY <2>6, BroadcastTypes, ThreadKinds
  <2> QED
    BY <1>1, <2>1, <2>2, <2>3, <2>4, <2>5, <2>6 DEF HookStep
<1>2. ASSUME NEW t \in Removers, Take(t) \/ RemoverStep(t) PROVE TypeOK'
  <2>1. CASE Take(t)
    <3>1. PlacesOK'
      BY <2>1, RemoverGoes DEF Take, RemoverAt, TypeOK
    <3> QED
      BY <2>1, <3>1 DEF Take, TypeOK
  <2>2. CASE Disarm(t)
    <3>1. PlacesOK'
      BY <2>2, RemoverGoes DEF Disarm, RemoverAt, TypeOK
    <3> QED
      BY <2>2, <3>1 DEF Disarm, TypeOK
  <2>3. CASE Answered(t)
    <3>1. PlacesOK'
      BY <2>3, RemoverGoes DEF Answered, RemoverAt, TypeOK
    <3>2. shown' \in Snapshots
      BY <2>3, InboxIsSnapshot DEF Answered, TypeOK
    <3> QED
      BY <2>3, <3>1, <3>2 DEF Answered, TypeOK
  <2>4. CASE Copy(t) \/ Post(t)
    BY <2>4, BroadcastTypes, ThreadKinds
  <2> QED
    BY <1>2, <2>1, <2>2, <2>3, <2>4 DEF RemoverStep
<1>3. ASSUME DogStep PROVE TypeOK'
  <2>1. CASE Due
    <3>1. PlacesOK'
      BY <2>1, DogGoes DEF Due, DogAt, TypeOK
    <3> QED
      BY <2>1, <3>1 DEF Due, TypeOK
  <2>2. CASE Look
    <3>1. PICK to \in DogAt : Goes(Dog, "awake", to)
      BY <2>2 DEF Look, DogAt
    <3>2. PlacesOK'
      BY <3>1, DogGoes DEF TypeOK
    <3> QED
      BY <2>2, <3>2 DEF Look, TypeOK
  <2>3. CASE Judge
    <3>1. PlacesOK'
      BY <2>3, DogGoes DEF Judge, DogAt, TypeOK
    <3>2. label' \in BOOLEAN
      BY <2>3 DEF Judge, TypeOK
    <3> QED
      BY <2>3, <3>1, <3>2 DEF Judge, TypeOK
  <2>4. CASE Copy(Dog) \/ Post(Dog)
    BY <2>4, BroadcastTypes, ThreadKinds
  <2>5. ASSUME NEW a \in Asks, Remind(a) PROVE TypeOK'
    <3>1. PlacesOK'
      <4>1. CASE a \in pending
        BY <2>5, <4>1, DogGoes DEF Remind, DogAt, TypeOK
      <4>2. CASE a \notin pending
        BY <2>5, <4>2 DEF Remind, TypeOK, PlacesOK
      <4> QED
        BY <4>1, <4>2
    <3> QED
      BY <2>5, <3>1 DEF Remind, TypeOK
  <2> QED
    BY <1>3, <2>1, <2>2, <2>3, <2>4, <2>5 DEF DogStep
<1>4. CASE Status
    BY <1>4 DEF Status, Clear, TypeOK, PlacesOK
<1>5. CASE Forget \/ EndStep
    BY <1>5 DEF Forget, EndStep, DropPending, Unlist, TypeOK, PlacesOK
<1>6. CASE Apply
  <2>1. Head(queue) \in Snapshots /\ Tail(queue) \in Seq(Snapshots)
    BY <1>6 DEF Apply, TypeOK
  <2> QED
    BY <1>6, <2>1 DEF Apply, TypeOK, PlacesOK
<1>7. CASE UNCHANGED vars
    BY <1>7 DEF vars, TypeOK, PlacesOK
<1> QED
    BY <1>1, <1>2, <1>3, <1>4, <1>5, <1>6, <1>7 DEF Next

(* Every thread is in a place of its own, and what is posted and shown are *)
(* lists of requests.                                                      *)
THEOREM TypeCorrect == Spec => []TypeOK
<1>1. ASSUME Init PROVE TypeOK
  <2>1. PlacesOK
    BY <1>1, ThreadKinds DEF Init, PlacesOK, HookAt, RemoverAt, DogAt
  <2>2. {} \in Snapshots /\ queue = <<>>
    BY <1>1 DEF Init, Snapshots
  <2>3. queue \in Seq(Snapshots)
    BY <2>2
  <2> QED
    BY <1>1, <2>1, <2>2, <2>3 DEF Init, TypeOK
<1>2. TypeOK /\ [Next]_vars => TypeOK'
    BY TypeOKNext
<1> QED
    BY <1>1, <1>2, PTL DEF Spec
=============================================================================
