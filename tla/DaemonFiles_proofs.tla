-------------------------- MODULE DaemonFiles_proofs --------------------------
(***************************************************************************)
(* Proofs about DaemonStart, for any number of processes, whatever version *)
(* each of them knows, of sessions, ports and rows; about Settings, for    *)
(* any number of connections; and about PolicyRules: what a repo's own     *)
(* policy file may do to the user's, for every policy, every list of rules *)
(* and every request.                                                      *)
(***************************************************************************)
EXTENDS Settings, DaemonStart, PolicyDecision, FiniteSetTheorems, WellFoundedInduction, NaturalsInduction, TLAPS

(* Who migrates has found the schema as it is, and holds the lock.         *)
SchemaInv ==
    /\ VersionIsSchema
    /\ \A p \in Starts :
         /\ reached[p] <= version
         /\ pc[p] = "commit" => lock = p /\ reached[p] = version

(* No row has a number, and no client a cursor, above those given out.     *)
EventsInv ==
    /\ IsFiniteSet(events)
    /\ \A e \in events : e.seq <= lastSeq
    /\ \A s \in Sessions : cursor[s] <= lastSeq
    /\ EveryRowSeen

(* Until two processes have run at once, there is one at most; from the    *)
(* end of readopt_all on it lists what the table has live.                 *)
ListInv ==
    alone => /\ \A p, q \in Running : p = q
             /\ \A p \in Starts : pc[p] \in {"bind", "serve"} => lists[p] = Live

(* The hooks of live sessions, the file and the receiver are of one port,  *)
(* but while the file is written: then the process that writes has it.     *)
PortInv ==
    alone /\ ~portLost /\ ~portCut =>
        /\ (\A p \in Starts : pc[p] # "write") => \A s \in Live : hooks[s] = portFile /\ portFile # 0
        /\ \A p \in Starts :
             /\ pc[p] = "listen" => wanted[p] = portFile
             /\ pc[p] \in {"record", "write"} => port[p] # 0 /\ \A s \in Live : hooks[s] = port[p]
             /\ pc[p] \in {"readopt", "bind", "serve"} => port[p] = portFile /\ portFile # 0

StartInv == TypeOK /\ SchemaInv /\ EventsInv /\ ListInv /\ PortInv

-----------------------------------------------------------------------------
(* A bounded set of numbers has a greatest, and Max chooses it.            *)
LEMMA MaxOfBounded ==
    ASSUME NEW S \in SUBSET Nat, S # {}, NEW n \in Nat, \A x \in S : x <= n
    PROVE  Max(S) \in S /\ \A x \in S : x <= Max(S)
<1> DEFINE Gaps == {n - x : x \in S}
<1>1. Gaps \in SUBSET Nat /\ Gaps # {}
  <2>1. ASSUME NEW x \in S PROVE n - x \in Nat
    OBVIOUS
  <2> QED
    BY <2>1
<1>2. PICK g \in Gaps : \A h \in Gaps : g <= h
  <2>1. PICK g \in Gaps : \A h \in Gaps : ~(<<h, g>> \in OpToRel(<, Nat))
    BY <1>1, NatLessThanWellFounded, WFMin
  <2>2. \A h \in Gaps : ~(h < g)
    BY <1>1, <2>1 DEF OpToRel
  <2>3. \A h \in Gaps : h \in Nat /\ g \in Nat
    BY <1>1
  <2> HIDE DEF Gaps
  <2> QED
    BY <2>2, <2>3
<1>3. PICK x \in S : g = n - x
    OBVIOUS
<1>4. ASSUME NEW y \in S PROVE y <= x
  <2>1. n - y \in Gaps
    OBVIOUS
  <2> QED
    BY <1>2, <1>3, <2>1
<1> QED
    BY <1>4 DEF Max

(* The page a client is given: with the first rows it leaves out, no row   *)
(* below the greatest number on it.                                        *)
LEMMA PageIsFirst ==
    ASSUME NEW A, IsFiniteSet(A), \A e \in A : e.seq \in Nat, NEW n \in Nat,
           \A e \in A : e.seq <= n,
           NEW P, P = {e \in A : Cardinality({f \in A : f.seq < e.seq}) < Page}, P # {}
    PROVE  /\ Max({e.seq : e \in P}) \in 0..n
           /\ \A e \in P : e.seq <= Max({f.seq : f \in P})
           /\ \A e \in A : e.seq <= Max({f.seq : f \in P}) => e \in P
<1> DEFINE Seqs == {e.seq : e \in P}
<1>1. Seqs \in SUBSET Nat /\ Seqs # {} /\ \A x \in Seqs : x <= n
    OBVIOUS
<1>2. Max(Seqs) \in Seqs /\ \A x \in Seqs : x <= Max(Seqs)
    BY <1>1, MaxOfBounded
<1>3. PICK last \in P : last.seq = Max(Seqs)
    BY <1>2
<1>4. ASSUME NEW e \in A, e.seq <= Max(Seqs) PROVE e \in P
  <2> DEFINE Below(x) == {f \in A : f.seq < x.seq}
  <2>1. Below(e) \in SUBSET Below(last)
    <3>1. \A f \in A : f.seq < e.seq => f.seq < last.seq
      BY <1>3, <1>4
    <3> QED
      BY <3>1
  <2>2. IsFiniteSet(Below(last))
    BY FS_Subset
  <2>3. Cardinality(Below(e)) <= Cardinality(Below(last))
    BY <2>1, <2>2, FS_Subset
  <2>4. Cardinality(Below(e)) \in Nat /\ Cardinality(Below(last)) \in Nat
    BY <2>1, <2>2, FS_Subset, FS_CardinalityType
  <2>5. Cardinality(Below(last)) < Page
    BY <1>3
  <2> QED
    BY <2>3, <2>4, <2>5, DaemonStartAssumption
<1>5. Max(Seqs) \in 0..n
  <2>1. Max(Seqs) \in Nat /\ Max(Seqs) <= n
    BY <1>1, <1>2
  <2> HIDE DEF Seqs
  <2> QED
    BY <2>1
<1>6. \A e \in P : e.seq <= Max(Seqs)
    BY <1>2
<1> QED
    BY <1>4, <1>5, <1>6

(* The places of main are the ones it names.                               *)
Places == {"unborn", "dead", "failed", "open", "migrate", "commit", "sweep events", "sweep sessions",
           "receiver", "listen", "record", "write", "readopt", "bind", "serve"}

LEMMA PlacesAre == {"unborn", "dead", "failed"} \cup {Main[i] : i \in DOMAIN Main} = Places
<1>1. DOMAIN Main = 1..12
    BY DEF Main
<1>2. {Main[i] : i \in 1..12} = {Main[1], Main[2], Main[3], Main[4], Main[5], Main[6], Main[7],
                                 Main[8], Main[9], Main[10], Main[11], Main[12]}
    OBVIOUS
<1> QED
    BY <1>1, <1>2 DEF Main, Places

(* What a client reads: rows of one session, all of them up to its new     *)
(* cursor, which no number given out is below.                             *)
LEMMA PageRead ==
    ASSUME TypeOK, EventsInv, NEW p \in Starts, NEW s \in Sessions, ReadPage(p, s)
    PROVE  \E page \in SUBSET events :
             /\ seen' = seen \cup {e.number : e \in page}
             /\ cursor' = [cursor EXCEPT ![s] = Max({e.seq : e \in page})]
             /\ Max({e.seq : e \in page}) \in 0..lastSeq
             /\ \A e \in events :
                  e.session = s /\ cursor[s] < e.seq /\ e.seq <= Max({f.seq : f \in page})
                    => e \in page
<1> DEFINE after == {e \in events : e.session = s /\ e.seq > cursor[s]}
           page == {e \in after : Cardinality({f \in after : f.seq < e.seq}) < Page}
<1>1. /\ page # {} /\ seen' = seen \cup {e.number : e \in page}
      /\ cursor' = [cursor EXCEPT ![s] = Max({e.seq : e \in page})]
    BY DEF ReadPage
<1>2. IsFiniteSet(after)
    BY FS_Subset DEF EventsInv
<1>3. lastSeq \in Nat /\ \A e \in after : e.seq \in Nat /\ e.seq <= lastSeq
    BY DEF TypeOK, EventsInv
<1>4. /\ Max({e.seq : e \in page}) \in 0..lastSeq
      /\ \A e \in after : e.seq <= Max({f.seq : f \in page}) => e \in page
  <2> HIDE DEF after
  <2> QED
    BY <1>1, <1>2, <1>3, PageIsFirst
<1>5. page \in SUBSET events
    OBVIOUS
<1>6. ASSUME NEW e \in events, e.session = s, cursor[s] < e.seq, e.seq <= Max({f.seq : f \in page})
      PROVE  e \in page
  <2>1. e \in after
    BY <1>6 DEF TypeOK
  <2> HIDE DEF after, page
  <2> QED
    BY <1>4, <1>6, <2>1
<1> HIDE DEF page
<1> QED
    BY <1>1, <1>4, <1>5, <1>6

(* Every step keeps the types.                                             *)
LEMMA TypeNext == ASSUME TypeOK, EventsInv, [Next]_vars PROVE TypeOK'
<1> USE DaemonStartAssumption DEF dbVars, rowVars, procVars, portVars, clientVars, Goes
<1>1. ASSUME NEW p \in Starts, Start(p) PROVE TypeOK'
    BY <1>1, PlacesAre DEF Start, TypeOK, Places
<1>2. ASSUME NEW p \in Starts, Open(p) PROVE TypeOK'
    BY <1>2, PlacesAre DEF Open, TypeOK, Places
<1>3. ASSUME NEW p \in Starts, Migrate(p) PROVE TypeOK'
    BY <1>3, PlacesAre DEF Migrate, TypeOK, Places
<1>4. ASSUME NEW p \in Starts, Commit(p) PROVE TypeOK'
  <2>1. pc' \in [Starts -> {"unborn", "dead", "failed"} \cup {Main[i] : i \in DOMAIN Main}]
    <3>1. pc \in [Starts -> Places] /\ "migrate" \in Places
      BY PlacesAre DEF TypeOK, Places
    <3> QED
      BY <1>4, <3>1, PlacesAre DEF Commit
  <2>3. reached' \in [Starts -> Nat] /\ version' \in Nat
    BY <1>4 DEF Commit, TypeOK
  <2>2. applied' \in Seq(Nat) /\ lock' \in Starts \cup {Nobody}
    BY <1>4 DEF Commit, TypeOK
  <2> QED
    BY <1>4, <2>1, <2>2, <2>3 DEF Commit, TypeOK
<1>5. ASSUME NEW p \in Starts, Migrated(p) PROVE TypeOK'
    BY <1>5, PlacesAre DEF Migrated, TypeOK, Places
<1>6. ASSUME NEW p \in Starts, Sweep(p) PROVE TypeOK'
  <2>1. pc' \in [Starts -> {"unborn", "dead", "failed"} \cup {Main[i] : i \in DOMAIN Main}]
    <3>1. pc \in [Starts -> Places] /\ {"sweep sessions", "receiver"} \subseteq Places
      BY PlacesAre DEF TypeOK, Places
    <3> QED
      BY <1>6, <3>1, PlacesAre DEF Sweep
  <2>2. events' \subseteq events
    BY <1>6 DEF Sweep
  <2>3. rows' \in [Sessions -> {"none", "live", "ended", "old"}]
    BY <1>6 DEF Sweep, TypeOK
  <2> QED
    BY <1>6, <2>1, <2>2, <2>3 DEF Sweep, TypeOK
<1>7. ASSUME NEW p \in Starts, Receiver(p) PROVE TypeOK'
  <2>1. pc' \in [Starts -> {"unborn", "dead", "failed"} \cup {Main[i] : i \in DOMAIN Main}]
    BY <1>7, PlacesAre DEF Receiver, TypeOK, Places
  <2>2. port' \in [Starts -> Ports \cup {0}] /\ wanted' \in [Starts -> Ports \cup {0}]
    BY <1>7 DEF Receiver, TypeOK
  <2>3. portLost' \in BOOLEAN
    BY <1>7 DEF Receiver, TypeOK
  <2> QED
    BY <1>7, <2>1, <2>2, <2>3 DEF Receiver, TypeOK
<1>18. ASSUME NEW p \in Starts, ReadPort(p) PROVE TypeOK'
    BY <1>18, PlacesAre DEF ReadPort, TypeOK, Places
<1>19. ASSUME NEW p \in Starts, Truncate(p) PROVE TypeOK'
  <2>1. pc' \in [Starts -> {"unborn", "dead", "failed"} \cup {Main[i] : i \in DOMAIN Main}]
    BY <1>19, PlacesAre DEF Truncate, TypeOK, Places
  <2>2. portFile' \in Ports \cup {0} /\ portCut' \in BOOLEAN
    BY <1>19 DEF Truncate, TypeOK
  <2> QED
    BY <1>19, <2>1, <2>2 DEF Truncate, TypeOK
<1>20. ASSUME NEW p \in Starts, RecordPort(p) PROVE TypeOK'
  <2>1. pc' \in [Starts -> {"unborn", "dead", "failed"} \cup {Main[i] : i \in DOMAIN Main}]
    BY <1>20, PlacesAre DEF RecordPort, TypeOK, Places
  <2>2. portFile' \in Ports \cup {0} /\ portCut' \in BOOLEAN
    BY <1>20 DEF RecordPort, TypeOK
  <2> QED
    BY <1>20, <2>1, <2>2 DEF RecordPort, TypeOK
<1>8. ASSUME NEW p \in Starts, Readopt(p) PROVE TypeOK'
  <2>1. pc' \in [Starts -> {"unborn", "dead", "failed"} \cup {Main[i] : i \in DOMAIN Main}]
    BY <1>8, PlacesAre DEF Readopt, TypeOK, Places
  <2>2. Live \in SUBSET Sessions
    BY DEF Live
  <2>3. lists' \in [Starts -> SUBSET Sessions]
    BY <1>8, <2>2 DEF Readopt, TypeOK
  <2> QED
    BY <1>8, <2>1, <2>3 DEF Readopt, TypeOK
<1>9. ASSUME NEW p \in Starts, Bind(p) PROVE TypeOK'
    BY <1>9, PlacesAre DEF Bind, TypeOK, Places
<1>10. ASSUME NEW p \in Starts, Die(p) PROVE TypeOK'
  <2>1. pc' \in [Starts -> {"unborn", "dead", "failed"} \cup {Main[i] : i \in DOMAIN Main}]
    BY <1>10, PlacesAre DEF Die, TypeOK, Places
  <2>2. port' \in [Starts -> Ports \cup {0}] /\ wanted' \in [Starts -> Ports \cup {0}]
    BY <1>10 DEF Die, TypeOK
  <2>3. reached' \in [Starts -> Nat] /\ lists' \in [Starts -> SUBSET Sessions]
    BY <1>10 DEF Die, TypeOK
  <2>4. portCut' \in BOOLEAN /\ lock' \in Starts \cup {Nobody}
    BY <1>10 DEF Die, TypeOK
  <2> QED
    BY <1>10, <2>1, <2>2, <2>3, <2>4 DEF Die, TypeOK
<1>11. ASSUME NEW p \in Starts, NEW s \in Sessions, Create(p, s) PROVE TypeOK'
    BY <1>11, PlacesAre DEF Create, TypeOK, Places, Reached
<1>12. ASSUME NEW p \in Starts, NEW s \in Sessions, End(p, s) PROVE TypeOK'
    BY <1>12, PlacesAre DEF End, TypeOK, Places
<1>13. ASSUME NEW p \in Starts, NEW s \in Sessions, AppendEvent(p, s) PROVE TypeOK'
  <2> DEFINE row == [seq |-> NextSeq, session |-> s, number |-> appended + 1, old |-> FALSE]
  <2>1. lastSeq' \in Nat /\ appended' \in 0..MaxEvents
    BY <1>13 DEF AppendEvent, NextSeq, TypeOK
  <2>2. row \in [seq : Nat, session : Sessions, number : 1..MaxEvents, old : BOOLEAN]
    BY <1>13 DEF AppendEvent, NextSeq, TypeOK
  <2>3. events' = events \cup {row}
    BY <1>13 DEF AppendEvent
  <2> HIDE DEF row
  <2> QED
    BY <1>13, <2>1, <2>2, <2>3 DEF AppendEvent, TypeOK
<1>14. ASSUME NEW p \in Starts, NEW s \in Sessions, ReadPage(p, s) PROVE TypeOK'
  <2>1. PICK page \in SUBSET events :
             /\ seen' = seen \cup {e.number : e \in page}
             /\ cursor' = [cursor EXCEPT ![s] = Max({e.seq : e \in page})]
             /\ Max({e.seq : e \in page}) \in 0..lastSeq
    BY <1>14, PageRead
  <2>2. \A e \in page : e.number \in 1..MaxEvents
    BY DEF TypeOK
  <2>3. seen' \subseteq 1..MaxEvents
    <3>1. {e.number : e \in page} \subseteq 1..MaxEvents
      BY <2>2
    <3> QED
      BY <2>1, <3>1 DEF TypeOK
  <2>4. cursor' \in [Sessions -> Nat]
    BY <2>1 DEF TypeOK
  <2> QED
    BY <1>14, <2>3, <2>4 DEF ReadPage, TypeOK
<1>15. ASSUME DaysPass PROVE TypeOK'
  <2>1. rows' \in [Sessions -> {"none", "live", "ended", "old"}]
    BY <1>15 DEF DaysPass, TypeOK
  <2>2. events' \subseteq [seq : Nat, session : Sessions, number : 1..MaxEvents, old : BOOLEAN]
    <3>1. ASSUME NEW e \in events
          PROVE  [e EXCEPT !.old = TRUE]
                     \in [seq : Nat, session : Sessions, number : 1..MaxEvents, old : BOOLEAN]
      <4>1. e \in [seq : Nat, session : Sessions, number : 1..MaxEvents, old : BOOLEAN]
        BY DEF TypeOK
      <4> QED
        BY <4>1
    <3> QED
      BY <1>15, <3>1 DEF DaysPass
  <2> QED
    BY <1>15, <2>1, <2>2 DEF DaysPass, TypeOK
<1>16. ASSUME OtherProgram PROVE TypeOK'
    BY <1>16, PlacesAre DEF OtherProgram, TypeOK, Places
<1>17. CASE UNCHANGED vars
    BY <1>17, PlacesAre DEF vars, TypeOK, Places
<1> QED
    BY <1>1, <1>2, <1>3, <1>4, <1>5, <1>6, <1>7, <1>8, <1>9, <1>10, <1>11, <1>12, <1>13, <1>14,
       <1>15, <1>16, <1>17, <1>18, <1>19, <1>20 DEF Next, Starting

(* A process finds the schema as it was when it took the lock.             *)
LEMMA SchemaNext == ASSUME TypeOK, SchemaInv, [Next]_vars PROVE SchemaInv'
<1> USE DaemonStartAssumption DEF dbVars, rowVars, procVars, portVars, clientVars, Goes
<1>1. ASSUME NEW p \in Starts, Start(p) PROVE SchemaInv'
    BY <1>1 DEF Start, TypeOK, SchemaInv, VersionIsSchema
<1>2. ASSUME NEW p \in Starts, Open(p) PROVE SchemaInv'
    BY <1>2 DEF Open, TypeOK, SchemaInv, VersionIsSchema
<1>3. ASSUME NEW p \in Starts, Migrate(p) PROVE SchemaInv'
  <2>1. {applied[i] : i \in DOMAIN applied} = 1..version
    BY DEF TypeOK, SchemaInv, VersionIsSchema
  <2>2. reached[p] + 1 \notin 1..version => reached[p] = version
    BY DEF TypeOK, SchemaInv
  <2>3. /\ UNCHANGED <<version, applied, reached>>
        /\ pc[p] # "commit" /\ lock = Nobody
        /\ \/ pc' = [pc EXCEPT ![p] = "failed"] /\ UNCHANGED lock
           \/ pc' = [pc EXCEPT ![p] = "commit"] /\ lock' = p /\ reached[p] = version
    BY <1>3, <2>1, <2>2 DEF Migrate
  <2>4. ASSUME NEW q \in Starts, q # p PROVE pc'[q] = pc[q] /\ pc[q] # "commit"
    BY <2>3, <2>4 DEF TypeOK, SchemaInv, Nobody
  <2>5. pc'[p] = "commit" => lock' = p /\ reached[p] = version
    BY <2>3 DEF TypeOK
  <2> QED
    BY <2>3, <2>4, <2>5 DEF SchemaInv, VersionIsSchema
<1>4. ASSUME NEW p \in Starts, Commit(p) PROVE SchemaInv'
  <2>1. lock = p /\ reached[p] = version /\ version \in Nat
    BY <1>4 DEF Commit, TypeOK, SchemaInv
  <2>2. version' = version + 1 /\ applied' = Append(applied, version + 1)
    BY <1>4, <2>1 DEF Commit
  <2>3. VersionIsSchema'
    BY <2>1, <2>2 DEF SchemaInv, VersionIsSchema
  <2>4. ASSUME NEW q \in Starts PROVE reached'[q] <= version'
    BY <1>4, <2>1, <2>2 DEF Commit, TypeOK, SchemaInv
  <2>5. ASSUME NEW q \in Starts PROVE pc'[q] # "commit"
    BY <1>4, <2>1 DEF Commit, TypeOK, SchemaInv
  <2> QED
    BY <2>3, <2>4, <2>5 DEF SchemaInv
<1>5. ASSUME NEW p \in Starts, Migrated(p) PROVE SchemaInv'
    BY <1>5 DEF Migrated, TypeOK, SchemaInv, VersionIsSchema
<1>6. ASSUME NEW p \in Starts, Sweep(p) PROVE SchemaInv'
    BY <1>6 DEF Sweep, TypeOK, SchemaInv, VersionIsSchema
<1>7. ASSUME NEW p \in Starts, Receiver(p) PROVE SchemaInv'
    BY <1>7 DEF Receiver, TypeOK, SchemaInv, VersionIsSchema
<1>18. ASSUME NEW p \in Starts, ReadPort(p) PROVE SchemaInv'
    BY <1>18 DEF ReadPort, TypeOK, SchemaInv, VersionIsSchema
<1>19. ASSUME NEW p \in Starts, Truncate(p) PROVE SchemaInv'
    BY <1>19 DEF Truncate, TypeOK, SchemaInv, VersionIsSchema
<1>20. ASSUME NEW p \in Starts, RecordPort(p) PROVE SchemaInv'
    BY <1>20 DEF RecordPort, TypeOK, SchemaInv, VersionIsSchema
<1>8. ASSUME NEW p \in Starts, Readopt(p) PROVE SchemaInv'
    BY <1>8 DEF Readopt, TypeOK, SchemaInv, VersionIsSchema
<1>9. ASSUME NEW p \in Starts, Bind(p) PROVE SchemaInv'
    BY <1>9 DEF Bind, TypeOK, SchemaInv, VersionIsSchema
<1>10. ASSUME NEW p \in Starts, Die(p) PROVE SchemaInv'
    BY <1>10 DEF Die, TypeOK, SchemaInv, VersionIsSchema
<1>11. ASSUME NEW p \in Starts, NEW s \in Sessions, Create(p, s) PROVE SchemaInv'
    BY <1>11 DEF Create, TypeOK, SchemaInv, VersionIsSchema, Reached
<1>12. ASSUME NEW p \in Starts, NEW s \in Sessions, End(p, s) PROVE SchemaInv'
    BY <1>12 DEF End, TypeOK, SchemaInv, VersionIsSchema
<1>13. ASSUME NEW p \in Starts, NEW s \in Sessions, AppendEvent(p, s) PROVE SchemaInv'
    BY <1>13 DEF AppendEvent, TypeOK, SchemaInv, VersionIsSchema
<1>14. ASSUME NEW p \in Starts, NEW s \in Sessions, ReadPage(p, s) PROVE SchemaInv'
    BY <1>14 DEF ReadPage, TypeOK, SchemaInv, VersionIsSchema, Reached
<1>15. ASSUME DaysPass PROVE SchemaInv'
    BY <1>15 DEF DaysPass, TypeOK, SchemaInv, VersionIsSchema
<1>16. ASSUME OtherProgram PROVE SchemaInv'
    BY <1>16 DEF OtherProgram, TypeOK, SchemaInv, VersionIsSchema
<1>17. CASE UNCHANGED vars
    BY <1>17 DEF vars, TypeOK, SchemaInv, VersionIsSchema
<1> QED
    BY <1>1, <1>2, <1>3, <1>4, <1>5, <1>6, <1>7, <1>8, <1>9, <1>10, <1>11, <1>12, <1>13, <1>14,
       <1>15, <1>16, <1>17, <1>18, <1>19, <1>20 DEF Next, Starting

(* Numbers only grow, so no new row comes in below a cursor.               *)
LEMMA EventsNext == ASSUME TypeOK, EventsInv, [Next]_vars PROVE EventsInv'
<1> USE DaemonStartAssumption DEF dbVars, rowVars, procVars, portVars, clientVars, Goes
<1>1. ASSUME NEW p \in Starts, Start(p) PROVE EventsInv'
    BY <1>1 DEF Start, TypeOK, EventsInv, EveryRowSeen
<1>2. ASSUME NEW p \in Starts, Open(p) PROVE EventsInv'
    BY <1>2 DEF Open, TypeOK, EventsInv, EveryRowSeen
<1>3. ASSUME NEW p \in Starts, Migrate(p) PROVE EventsInv'
    BY <1>3 DEF Migrate, TypeOK, EventsInv, EveryRowSeen
<1>4. ASSUME NEW p \in Starts, Commit(p) PROVE EventsInv'
    BY <1>4 DEF Commit, TypeOK, EventsInv, EveryRowSeen
<1>5. ASSUME NEW p \in Starts, Migrated(p) PROVE EventsInv'
    BY <1>5 DEF Migrated, TypeOK, EventsInv, EveryRowSeen
<1>6. ASSUME NEW p \in Starts, Sweep(p) PROVE EventsInv'
  <2>1. events' \in SUBSET events
    BY <1>6 DEF Sweep
  <2>2. IsFiniteSet(events')
    BY <2>1, FS_Subset DEF EventsInv
  <2> QED
    BY <1>6, <2>1, <2>2 DEF Sweep, EventsInv, EveryRowSeen
<1>7. ASSUME NEW p \in Starts, Receiver(p) PROVE EventsInv'
    BY <1>7 DEF Receiver, TypeOK, EventsInv, EveryRowSeen
<1>18. ASSUME NEW p \in Starts, ReadPort(p) PROVE EventsInv'
    BY <1>18 DEF ReadPort, TypeOK, EventsInv, EveryRowSeen
<1>19. ASSUME NEW p \in Starts, Truncate(p) PROVE EventsInv'
    BY <1>19 DEF Truncate, TypeOK, EventsInv, EveryRowSeen
<1>20. ASSUME NEW p \in Starts, RecordPort(p) PROVE EventsInv'
    BY <1>20 DEF RecordPort, TypeOK, EventsInv, EveryRowSeen
<1>8. ASSUME NEW p \in Starts, Readopt(p) PROVE EventsInv'
    BY <1>8 DEF Readopt, TypeOK, EventsInv, EveryRowSeen
<1>9. ASSUME NEW p \in Starts, Bind(p) PROVE EventsInv'
    BY <1>9 DEF Bind, TypeOK, EventsInv, EveryRowSeen
<1>10. ASSUME NEW p \in Starts, Die(p) PROVE EventsInv'
    BY <1>10 DEF Die, TypeOK, EventsInv, EveryRowSeen
<1>11. ASSUME NEW p \in Starts, NEW s \in Sessions, Create(p, s) PROVE EventsInv'
    BY <1>11 DEF Create, TypeOK, EventsInv, EveryRowSeen, Reached
<1>12. ASSUME NEW p \in Starts, NEW s \in Sessions, End(p, s) PROVE EventsInv'
    BY <1>12 DEF End, TypeOK, EventsInv, EveryRowSeen
<1>13. ASSUME NEW p \in Starts, NEW s \in Sessions, AppendEvent(p, s) PROVE EventsInv'
  <2> DEFINE row == [seq |-> NextSeq, session |-> s, number |-> appended + 1, old |-> FALSE]
  <2>1. events' = events \cup {row} /\ lastSeq' = lastSeq + 1 /\ UNCHANGED clientVars
    BY <1>13 DEF AppendEvent, NextSeq
  <2>2. row.seq = lastSeq + 1 /\ row.session = s
    BY DEF NextSeq
  <2>3. IsFiniteSet(events')
    BY <2>1, FS_AddElement DEF EventsInv
  <2>4. (\A e \in events' : e.seq <= lastSeq') /\ (\A t \in Sessions : cursor'[t] <= lastSeq')
    BY <2>1, <2>2 DEF TypeOK, EventsInv
  <2>5. EveryRowSeen'
    BY <2>1, <2>2 DEF TypeOK, EventsInv, EveryRowSeen
  <2> QED
    BY <2>3, <2>4, <2>5 DEF EventsInv
<1>14. ASSUME NEW p \in Starts, NEW s \in Sessions, ReadPage(p, s) PROVE EventsInv'
  <2>1. PICK page \in SUBSET events :
             /\ seen' = seen \cup {e.number : e \in page}
             /\ cursor' = [cursor EXCEPT ![s] = Max({e.seq : e \in page})]
             /\ Max({e.seq : e \in page}) \in 0..lastSeq
             /\ \A e \in events :
                  e.session = s /\ cursor[s] < e.seq /\ e.seq <= Max({f.seq : f \in page})
                    => e \in page
    BY <1>14, PageRead
  <2>2. events' = events /\ lastSeq' = lastSeq
    BY <1>14 DEF ReadPage
  <2>3. \A t \in Sessions : cursor'[t] <= lastSeq'
    BY <2>1, <2>2 DEF TypeOK, EventsInv
  <2>4. ASSUME NEW e \in events, e.seq <= cursor'[e.session] PROVE e.number \in seen'
    <3>1. e.session \in Sessions /\ e.seq \in Nat /\ cursor[e.session] \in Nat
      BY DEF TypeOK
    <3>2. CASE e.seq <= cursor[e.session]
      BY <2>1, <3>2 DEF EventsInv, EveryRowSeen
    <3>3. CASE ~(e.seq <= cursor[e.session])
      <4>1. e.session = s
        BY <2>1, <2>4, <3>1, <3>3 DEF TypeOK
      <4>2. e \in page
        <5>1. cursor'[s] = Max({f.seq : f \in page})
          BY <2>1 DEF TypeOK
        <5> QED
          BY <2>1, <2>4, <3>1, <3>3, <4>1, <5>1
      <4> QED
        BY <2>1, <4>2
    <3> QED
      BY <3>2, <3>3
  <2> QED
    BY <2>2, <2>3, <2>4 DEF EventsInv, EveryRowSeen
<1>15. ASSUME DaysPass PROVE EventsInv'
  <2> DEFINE ages == [e \in events |-> [e EXCEPT !.old = TRUE]]
  <2>1. ages \in Surjection(events, events')
    BY <1>15 DEF DaysPass, Surjection
  <2>2. IsFiniteSet(events')
    BY <2>1, FS_Surjection DEF EventsInv
  <2>3. ASSUME NEW e \in events'
        PROVE  \E f \in events : e.seq = f.seq /\ e.session = f.session /\ e.number = f.number
    <3>1. PICK f \in events : e = [f EXCEPT !.old = TRUE]
      BY <1>15 DEF DaysPass
    <3>2. f \in [seq : Nat, session : Sessions, number : 1..MaxEvents, old : BOOLEAN]
      BY DEF TypeOK
    <3> QED
      BY <3>1, <3>2
  <2> QED
    BY <1>15, <2>2, <2>3 DEF DaysPass, EventsInv, EveryRowSeen
<1>16. ASSUME OtherProgram PROVE EventsInv'
    BY <1>16 DEF OtherProgram, TypeOK, EventsInv, EveryRowSeen
<1>17. CASE UNCHANGED vars
    BY <1>17 DEF vars, TypeOK, EventsInv, EveryRowSeen
<1> QED
    BY <1>1, <1>2, <1>3, <1>4, <1>5, <1>6, <1>7, <1>8, <1>9, <1>10, <1>11, <1>12, <1>13, <1>14,
       <1>15, <1>16, <1>17, <1>18, <1>19, <1>20 DEF Next, Starting

(* Only the process itself changes what is live while it is alone.         *)
LEMMA ListNext == ASSUME TypeOK, ListInv, [Next]_vars PROVE ListInv'
<1> USE DaemonStartAssumption DEF dbVars, rowVars, procVars, portVars, clientVars, Goes
<1>1. ASSUME NEW p \in Starts, Start(p) PROVE ListInv'
    BY <1>1 DEF Start, TypeOK, ListInv, Running, Live
<1>2. ASSUME NEW p \in Starts, Open(p) PROVE ListInv'
    BY <1>2 DEF Open, TypeOK, ListInv, Running, Live
<1>3. ASSUME NEW p \in Starts, Migrate(p) PROVE ListInv'
    BY <1>3 DEF Migrate, TypeOK, ListInv, Running, Live
<1>4. ASSUME NEW p \in Starts, Commit(p) PROVE ListInv'
    BY <1>4 DEF Commit, TypeOK, ListInv, Running, Live
<1>5. ASSUME NEW p \in Starts, Migrated(p) PROVE ListInv'
    BY <1>5 DEF Migrated, TypeOK, ListInv, Running, Live
<1>6. ASSUME NEW p \in Starts, Sweep(p) PROVE ListInv'
  <2>1. Live' = Live
    BY <1>6 DEF Sweep, TypeOK, Live
  <2>2. \A q \in Starts : (q \in Running' => q \in Running) /\ (pc'[q] \in {"bind", "serve"} => pc'[q] = pc[q])
    BY <1>6 DEF Sweep, TypeOK, Running
  <2>3. Running' \subseteq Starts /\ UNCHANGED <<alone, lists>>
    BY <1>6 DEF Sweep, Running
  <2> QED
    BY <2>1, <2>2, <2>3 DEF ListInv
<1>7. ASSUME NEW p \in Starts, Receiver(p) PROVE ListInv'
    BY <1>7 DEF Receiver, TypeOK, ListInv, Running, Live
<1>18. ASSUME NEW p \in Starts, ReadPort(p) PROVE ListInv'
    BY <1>18 DEF ReadPort, TypeOK, ListInv, Running, Live
<1>19. ASSUME NEW p \in Starts, Truncate(p) PROVE ListInv'
    BY <1>19 DEF Truncate, TypeOK, ListInv, Running, Live
<1>20. ASSUME NEW p \in Starts, RecordPort(p) PROVE ListInv'
    BY <1>20 DEF RecordPort, TypeOK, ListInv, Running, Live
<1>8. ASSUME NEW p \in Starts, Readopt(p) PROVE ListInv'
    BY <1>8 DEF Readopt, TypeOK, ListInv, Running, Live
<1>9. ASSUME NEW p \in Starts, Bind(p) PROVE ListInv'
    BY <1>9 DEF Bind, TypeOK, ListInv, Running, Live
<1>10. ASSUME NEW p \in Starts, Die(p) PROVE ListInv'
    BY <1>10 DEF Die, TypeOK, ListInv, Running, Live
<1>11. ASSUME NEW p \in Starts, NEW s \in Sessions, Create(p, s) PROVE ListInv'
  <2>1. Live' = Live \cup {s} /\ Running' = Running
    BY <1>11 DEF Create, TypeOK, Live, Running
  <2>2. p \in Running /\ pc[p] = "serve"
    BY <1>11 DEF Create, Reached, Running
  <2>3. ASSUME alone, NEW q \in Starts, pc[q] \in {"bind", "serve"} PROVE q = p
    BY <2>2, <2>3 DEF ListInv, Running
  <2> QED
    BY <1>11, <2>1, <2>2, <2>3 DEF Create, TypeOK, ListInv
<1>12. ASSUME NEW p \in Starts, NEW s \in Sessions, End(p, s) PROVE ListInv'
  <2>1. Live' = Live \ {s} /\ Running' = Running
    BY <1>12 DEF End, TypeOK, Live, Running
  <2>2. p \in Running /\ pc[p] = "serve"
    BY <1>12 DEF End, Running
  <2>3. ASSUME alone, NEW q \in Starts, pc[q] \in {"bind", "serve"} PROVE q = p
    BY <2>2, <2>3 DEF ListInv, Running
  <2> QED
    BY <1>12, <2>1, <2>2, <2>3 DEF End, TypeOK, ListInv
<1>13. ASSUME NEW p \in Starts, NEW s \in Sessions, AppendEvent(p, s) PROVE ListInv'
    BY <1>13 DEF AppendEvent, TypeOK, ListInv, Running, Live
<1>14. ASSUME NEW p \in Starts, NEW s \in Sessions, ReadPage(p, s) PROVE ListInv'
    BY <1>14 DEF ReadPage, TypeOK, ListInv, Running, Live, Reached
<1>15. ASSUME DaysPass PROVE ListInv'
    BY <1>15 DEF DaysPass, TypeOK, ListInv, Running, Live
<1>16. ASSUME OtherProgram PROVE ListInv'
    BY <1>16 DEF OtherProgram, TypeOK, ListInv, Running, Live
<1>17. CASE UNCHANGED vars
    BY <1>17 DEF vars, TypeOK, ListInv, Running, Live
<1> QED
    BY <1>1, <1>2, <1>3, <1>4, <1>5, <1>6, <1>7, <1>8, <1>9, <1>10, <1>11, <1>12, <1>13, <1>14,
       <1>15, <1>16, <1>17, <1>18, <1>19, <1>20 DEF Next, Starting

(* A step before the receiver, or of the rows alone, leaves the port.      *)
LEMMA PortKept ==
    ASSUME PortInv, UNCHANGED <<alone, portLost, portCut, hooks, portFile, port, wanted>>,
           Live' \subseteq Live,
           \A q \in Starts :
             \/ pc'[q] = pc[q]
             \/ pc[q] # "write" /\ pc'[q] \notin {"listen", "record", "write", "readopt", "bind", "serve"}
    PROVE  PortInv'
<1> SUFFICES ASSUME alone, ~portLost, ~portCut PROVE PortInv'
    BY DEF PortInv
<1>1. (\A q \in Starts : pc'[q] # "write") => \A q \in Starts : pc[q] # "write"
    OBVIOUS
<1>2. ASSUME \A q \in Starts : pc'[q] # "write", NEW s \in Live'
      PROVE  hooks'[s] = portFile' /\ portFile' # 0
    BY <1>1, <1>2 DEF PortInv
<1>3. ASSUME NEW q \in Starts
      PROVE  /\ pc'[q] = "listen" => wanted'[q] = portFile'
             /\ pc'[q] \in {"record", "write"} => port'[q] # 0 /\ \A s \in Live' : hooks'[s] = port'[q]
             /\ pc'[q] \in {"readopt", "bind", "serve"} => port'[q] = portFile' /\ portFile' # 0
    BY <1>3 DEF PortInv
<1> QED
    BY <1>2, <1>3 DEF PortInv

(* The port is kept while sessions live on it, or is lost.                 *)
LEMMA PortNext == ASSUME TypeOK, ListInv, PortInv, [Next]_vars PROVE PortInv'
<1> USE DaemonStartAssumption DEF dbVars, rowVars, procVars, portVars, clientVars, Goes
<1>1. ASSUME NEW p \in Starts, Start(p) PROVE PortInv'
    BY <1>1 DEF Start, TypeOK, ListInv, PortInv, Running, Live, Free
<1>2. ASSUME NEW p \in Starts, Open(p) PROVE PortInv'
    BY <1>2 DEF Open, TypeOK, ListInv, PortInv, Running, Live, Free
<1>3. ASSUME NEW p \in Starts, Migrate(p) PROVE PortInv'
    BY <1>3, PortKept DEF Migrate, TypeOK, Live
<1>4. ASSUME NEW p \in Starts, Commit(p) PROVE PortInv'
    BY <1>4 DEF Commit, TypeOK, ListInv, PortInv, Running, Live, Free
<1>5. ASSUME NEW p \in Starts, Migrated(p) PROVE PortInv'
    BY <1>5, PortKept DEF Migrated, TypeOK, Live
<1>6. ASSUME NEW p \in Starts, Sweep(p) PROVE PortInv'
  <2>1. Live' = Live
    BY <1>6 DEF Sweep, TypeOK, Live
  <2>2. \A q \in Starts :
            \/ pc'[q] = pc[q]
            \/ pc[q] # "write" /\ pc'[q] \notin {"listen", "record", "write", "readopt", "bind", "serve"}
    BY <1>6 DEF Sweep, TypeOK
  <2> QED
    BY <1>6, <2>1, <2>2, PortKept DEF Sweep
<1>7. ASSUME NEW p \in Starts, Receiver(p) PROVE PortInv'
  <2>1. ASSUME alone, NEW q \in Starts, pc[q] \notin {"unborn", "dead", "failed"} PROVE q = p
    BY <1>7, <2>1 DEF Receiver, ListInv, Running
  <2>2. alone => \A q \in Starts : q # p => pc'[q] \in {"unborn", "dead", "failed"}
    BY <1>7, <2>1 DEF Receiver, TypeOK
  <2>3. SUFFICES ASSUME alone, ~portLost', ~portCut PROVE PortInv'
    BY <1>7 DEF Receiver, PortInv
  <2>4. ~portLost /\ wanted[p] = portFile /\ Live' = Live
    BY <1>7, <2>3 DEF Receiver, Live, PortInv
  <2>5. PICK n \in Ports : /\ wanted[p] # 0 /\ Free(wanted[p]) => n = wanted[p]
                           /\ port' = [port EXCEPT ![p] = n]
    BY <1>7 DEF Receiver
  <2>6. \A q \in Starts : pc[q] # "write"
    BY <1>7, <2>1, <2>3 DEF Receiver
  <2>7. \A s \in Live : hooks[s] = portFile /\ portFile # 0
    BY <2>3, <2>4, <2>6 DEF PortInv
  <2>8. \A s \in Live : hooks[s] = n
    BY <1>7, <2>3, <2>4, <2>5, <2>7 DEF Receiver
  <2>9. port'[p] = n /\ n # 0 /\ pc'[p] = "record" /\ UNCHANGED <<hooks, portFile>>
    BY <1>7, <2>5 DEF Receiver, TypeOK
  <2> QED
    BY <2>2, <2>3, <2>4, <2>7, <2>8, <2>9 DEF PortInv
<1>18. ASSUME NEW p \in Starts, ReadPort(p) PROVE PortInv'
  <2>1. ASSUME alone, NEW q \in Starts, pc[q] \notin {"unborn", "dead", "failed"} PROVE q = p
    BY <1>18, <2>1 DEF ReadPort, ListInv, Running
  <2>2. alone => \A q \in Starts : q # p => pc'[q] \in {"unborn", "dead", "failed"}
    BY <1>18, <2>1 DEF ReadPort, TypeOK
  <2>3. SUFFICES ASSUME alone, ~portLost, ~portCut PROVE PortInv'
    BY <1>18 DEF ReadPort, PortInv
  <2>4. \A q \in Starts : pc[q] # "write"
    BY <1>18, <2>1, <2>3 DEF ReadPort
  <2>5. \A s \in Live : hooks[s] = portFile /\ portFile # 0
    BY <2>3, <2>4 DEF PortInv
  <2>6. wanted'[p] = portFile /\ pc'[p] = "listen" /\ UNCHANGED <<hooks, portFile>> /\ Live' = Live
    BY <1>18 DEF ReadPort, TypeOK, Live
  <2> QED
    BY <2>2, <2>3, <2>5, <2>6 DEF PortInv
<1>19. ASSUME NEW p \in Starts, Truncate(p) PROVE PortInv'
  <2>1. ASSUME alone, NEW q \in Starts, pc[q] \notin {"unborn", "dead", "failed"} PROVE q = p
    BY <1>19, <2>1 DEF Truncate, ListInv, Running
  <2>2. alone => \A q \in Starts : q # p => pc'[q] \in {"unborn", "dead", "failed"}
    BY <1>19, <2>1 DEF Truncate, TypeOK
  <2>3. SUFFICES ASSUME alone, ~portLost, ~portCut, ~portCut' PROVE PortInv'
    BY <1>19 DEF Truncate, PortInv
  <2>4. port[p] # 0 /\ \A s \in Live : hooks[s] = port[p]
    BY <1>19, <2>3 DEF Truncate, PortInv
  <2>5. UNCHANGED <<hooks, port>> /\ Live' = Live
    BY <1>19 DEF Truncate, Live
  <2>6. \/ pc'[p] = "write"
        \/ pc'[p] = "readopt" /\ portFile' = port[p]
    BY <1>19, <2>3 DEF Truncate, TypeOK
  <2> QED
    BY <2>2, <2>3, <2>4, <2>5, <2>6 DEF PortInv
<1>20. ASSUME NEW p \in Starts, RecordPort(p) PROVE PortInv'
  <2>1. ASSUME alone, NEW q \in Starts, pc[q] \notin {"unborn", "dead", "failed"} PROVE q = p
    BY <1>20, <2>1 DEF RecordPort, ListInv, Running
  <2>2. alone => \A q \in Starts : q # p => pc'[q] \in {"unborn", "dead", "failed"}
    BY <1>20, <2>1 DEF RecordPort, TypeOK
  <2>3. SUFFICES ASSUME alone, ~portLost, ~portCut, ~portCut' PROVE PortInv'
    BY <1>20 DEF RecordPort, PortInv
  <2>4. port[p] # 0 /\ \A s \in Live : hooks[s] = port[p]
    BY <1>20, <2>3 DEF RecordPort, PortInv
  <2>5. UNCHANGED <<hooks, port>> /\ Live' = Live
    BY <1>20 DEF RecordPort, Live
  <2>6. pc'[p] = "readopt" /\ portFile' = port[p]
    BY <1>20, <2>3 DEF RecordPort, TypeOK
  <2> QED
    BY <2>2, <2>3, <2>4, <2>5, <2>6 DEF PortInv
<1>8. ASSUME NEW p \in Starts, Readopt(p) PROVE PortInv'
    BY <1>8 DEF Readopt, TypeOK, ListInv, PortInv, Running, Live, Free
<1>9. ASSUME NEW p \in Starts, Bind(p) PROVE PortInv'
    BY <1>9 DEF Bind, TypeOK, ListInv, PortInv, Running, Live, Free
<1>10. ASSUME NEW p \in Starts, Die(p) PROVE PortInv'
  <2>1. ASSUME alone, NEW q \in Starts, pc[q] \notin {"unborn", "dead", "failed"} PROVE q = p
    BY <1>10, <2>1 DEF Die, ListInv, Running
  <2>2. alone => \A q \in Starts : pc'[q] \in {"unborn", "dead", "failed"}
    BY <1>10, <2>1 DEF Die, TypeOK
  <2>3. SUFFICES ASSUME alone, ~portLost, ~portCut, ~portCut' PROVE PortInv'
    BY <1>10 DEF Die, PortInv
  <2>4. UNCHANGED <<hooks, portFile>> /\ Live' = Live
    BY <1>10 DEF Die, Live
  <2>5. \A s \in Live : hooks[s] = portFile /\ portFile # 0
    <3>1. CASE pc[p] = "write"
      <4>1. Live = {}
        BY <1>10, <2>3, <3>1 DEF Die
      <4> QED
        BY <4>1
    <3>2. CASE pc[p] # "write"
      <4>1. \A q \in Starts : pc[q] # "write"
        BY <2>1, <2>3, <3>2
      <4> QED
        BY <2>3, <4>1 DEF PortInv
    <3> QED
      BY <3>1, <3>2
  <2> QED
    BY <2>2, <2>3, <2>4, <2>5 DEF PortInv
<1>11. ASSUME NEW p \in Starts, NEW s \in Sessions, Create(p, s) PROVE PortInv'
  <2>1. pc[p] = "serve" /\ p \in Running /\ UNCHANGED <<alone, portLost, portCut, pc, port, portFile, wanted>>
    BY <1>11 DEF Create, Reached, Running
  <2>2. SUFFICES ASSUME alone, ~portLost, ~portCut PROVE PortInv'
    BY <2>1 DEF PortInv
  <2>3. \A q \in Starts : q # p => pc[q] \in {"unborn", "dead", "failed"}
    BY <2>1, <2>2 DEF ListInv, Running
  <2>4. port[p] = portFile /\ portFile # 0
    BY <2>1, <2>2 DEF PortInv
  <2>5. \A t \in Live : hooks[t] = portFile
    BY <2>1, <2>2, <2>3 DEF PortInv
  <2>6. Live' = Live \cup {s} /\ \A t \in Live' : hooks'[t] = portFile
    BY <1>11, <2>4, <2>5 DEF Create, TypeOK, Live
  <2> QED
    BY <2>1, <2>2, <2>3, <2>4, <2>6 DEF PortInv
<1>12. ASSUME NEW p \in Starts, NEW s \in Sessions, End(p, s) PROVE PortInv'
    BY <1>12 DEF End, TypeOK, ListInv, PortInv, Running, Live, Free
<1>13. ASSUME NEW p \in Starts, NEW s \in Sessions, AppendEvent(p, s) PROVE PortInv'
    BY <1>13 DEF AppendEvent, TypeOK, ListInv, PortInv, Running, Live, Free
<1>14. ASSUME NEW p \in Starts, NEW s \in Sessions, ReadPage(p, s) PROVE PortInv'
    BY <1>14 DEF ReadPage, TypeOK, ListInv, PortInv, Running, Live, Free, Reached
<1>15. ASSUME DaysPass PROVE PortInv'
    BY <1>15 DEF DaysPass, TypeOK, ListInv, PortInv, Running, Live, Free
<1>16. ASSUME OtherProgram PROVE PortInv'
    BY <1>16 DEF OtherProgram, TypeOK, ListInv, PortInv, Running, Live, Free
<1>17. CASE UNCHANGED vars
    BY <1>17 DEF vars, TypeOK, ListInv, PortInv, Running, Live, Free
<1> QED
    BY <1>1, <1>2, <1>3, <1>4, <1>5, <1>6, <1>7, <1>8, <1>9, <1>10, <1>11, <1>12, <1>13, <1>14,
       <1>15, <1>16, <1>17, <1>18, <1>19, <1>20 DEF Next, Starting

-----------------------------------------------------------------------------
LEMMA InvInit == Init => StartInv
<1> SUFFICES ASSUME Init PROVE StartInv
    OBVIOUS
<1>1. TypeOK
  <2>1. pc \in [Starts -> {"unborn", "dead", "failed"} \cup {Main[i] : i \in DOMAIN Main}]
    BY DEF Init
  <2>2. rows \in [Sessions -> {"none", "live", "ended", "old"}] /\ lists \in [Starts -> SUBSET Sessions]
    BY DEF Init
  <2>3. applied \in Seq(Nat) /\ events = {} /\ seen = {}
    BY DEF Init
  <2>4. appended \in 0..MaxEvents
    BY DaemonStartAssumption DEF Init
  <2> QED
    BY <2>1, <2>2, <2>3, <2>4 DEF Init, TypeOK, Nobody
<1>2. SchemaInv
    BY DEF Init, SchemaInv, VersionIsSchema
<1>3. EventsInv
    BY FS_EmptySet DEF Init, EventsInv, EveryRowSeen
<1>4. ListInv /\ PortInv
    BY DEF Init, ListInv, PortInv, Running, Live
<1> QED
    BY <1>1, <1>2, <1>3, <1>4 DEF StartInv

LEMMA InvHolds == Spec => []StartInv
<1>1. StartInv /\ [Next]_vars => StartInv'
    BY TypeNext, SchemaNext, EventsNext, ListNext, PortNext DEF StartInv
<1> QED
    BY InvInit, <1>1, PTL DEF Spec

(* migrations.rs: wherever a process dies, and however many start at once  *)
(* with whatever version they know, the version of the database is the     *)
(* list of the migrations it has, each once and in order.                  *)
THEOREM VersionIsSchemaHolds == Spec => []VersionIsSchema
<1>1. StartInv => VersionIsSchema
    BY DEF StartInv, SchemaInv
<1> QED
    BY InvHolds, <1>1, PTL

(* The types of everything the starts share.                               *)
THEOREM TypeCorrect == Spec => []TypeOK
<1>1. StartInv => TypeOK
    BY DEF StartInv
<1> QED
    BY InvHolds, <1>1, PTL

(* events(): paging by after_seq misses no row, whatever the sweeps take,  *)
(* for any size of the page.                                               *)
THEOREM EveryRowSeenHolds == Spec => []EveryRowSeen
<1>1. StartInv => EveryRowSeen
    BY DEF StartInv, EventsInv
<1> QED
    BY InvHolds, <1>1, PTL

(* main.rs: the schema is that of the version, paging misses no row, and   *)
(* who can be reached lists every live session and, unless the port was    *)
(* taken or the file that keeps it was emptied and not written, has the    *)
(* port of their hooks, for any number of starts, sessions, events and     *)
(* migrations, wherever each start dies.                                   *)
THEOREM StartIsTrueHolds == Spec => []StartIsTrue
<1>1. StartInv => FirstListIsTrue
    BY DEF StartInv, ListInv, FirstListIsTrue
<1>2. StartInv => PortSurvives
  <2> SUFFICES ASSUME StartInv, NEW p \in Starts, alone, ~portLost, ~portCut, pc[p] = "serve",
                      NEW s \in lists[p]
               PROVE  hooks[s] = port[p]
    BY DEF PortSurvives
  <2>1. \A q \in Starts : pc[q] # "write"
    BY DEF StartInv, ListInv, Running
  <2>2. s \in Live
    BY DEF StartInv, ListInv
  <2> QED
    BY <2>1, <2>2 DEF StartInv, PortInv
<1>3. StartInv => EveryRowSeen
    BY DEF StartInv, EventsInv
<1> QED
    BY InvHolds, TypeCorrect, VersionIsSchemaHolds, <1>1, <1>2, <1>3, PTL DEF StartIsTrue

-----------------------------------------------------------------------------
(* config.set: no two of them are between their read and their rename.     *)
OneAtATime ==
    \A c, d \in Callers :
        /\ call[c] \in {"checked", "truncated", "filled"}
        /\ call[d] \in {"checked", "truncated", "filled"}
        => c = d

(* A set holds a whole text, and has all of it in the file it renames.     *)
SetInv ==
    /\ FileIsWhole
    /\ \A c \in Callers :
         /\ call[c] \in {"checked", "truncated", "filled"} => edit[c].whole
         /\ call[c] = "filled" => tmp = edit[c]

LEMMA LoadType == ASSUME NEW text \in Texts PROVE Load(text) \in [error : BOOLEAN, vals : [Keys -> Values]]
BY SettingsAssumption DEF Load, Texts

LEMMA TextsAre ==
    /\ Truncated \in Texts /\ Missing \in Texts /\ Broken \in Texts
    /\ \A v \in [Keys -> Values] : Text(v) \in Texts
BY SettingsAssumption DEF Truncated, Missing, Broken, Text, Texts

(* set_config_value: one key of a text.                                    *)
LEMMA EditType ==
    ASSUME NEW text \in Texts, NEW k \in Keys, NEW v \in Values
    PROVE  [text EXCEPT !.vals[k] = v] \in Texts /\ [text EXCEPT !.vals[k] = v].whole = text.whole
BY DEF Texts

LEMMA WriteType ==
    ASSUME SettingsTypeOK, NEW text \in Texts, Write(text)
    PROVE  file' \in [text : Texts, write : 0..MaxWrites]
<1>1. file.write + 1 \in 0..MaxWrites
    BY SettingsAssumption DEF SettingsTypeOK, Write
<1> QED
    BY <1>1 DEF Write

LEMMA SettingsTypeNext == ASSUME SettingsTypeOK, [SettingsNext]_settingsVars PROVE SettingsTypeOK'
<1> USE DEF fileVars, callVars, viewVars
<1>1. ASSUME UserSaves PROVE SettingsTypeOK'
  <2>1. PICK text \in Texts : Write(text)
    BY <1>1, TextsAre DEF UserSaves
  <2> QED
    BY <1>1, <2>1, WriteType DEF UserSaves, SettingsTypeOK
<1>2. CASE LoadDefault
    BY <1>2, LoadType DEF LoadDefault, SettingsTypeOK
<1>3. CASE StartWatch \/ Crash
    BY <1>3 DEF StartWatch, Crash, SettingsTypeOK
<1>4. CASE Poll
    BY <1>4 DEF Poll, SettingsTypeOK
<1>5. CASE WatchReads
    BY <1>5, LoadType DEF WatchReads, ReloadReads, Actors, SettingsTypeOK
<1>6. CASE WatchStores
    BY <1>6 DEF WatchStores, ReloadStores, Actors, SettingsTypeOK
<1>7. CASE Broadcast \/ ClientAsks
    BY <1>7 DEF Broadcast, ClientAsks, SettingsTypeOK
<1>8. ASSUME NEW c \in Callers, SetReads(c) PROVE SettingsTypeOK'
  <2>1. PICK text \in Texts : edit' = [edit EXCEPT ![c] = text]
    BY <1>8, EditType DEF SetReads, SettingsTypeOK
  <2>2. calls' \in 0..MaxCalls
    BY <1>8, SettingsAssumption DEF SetReads, SettingsTypeOK
  <2> QED
    BY <1>8, <2>1, <2>2 DEF SetReads, SettingsTypeOK
<1>9. ASSUME NEW c \in Callers, SetRefused(c) \/ ReloadCalled(c) PROVE SettingsTypeOK'
  <2>1. calls' \in 0..MaxCalls
    BY <1>9, SettingsAssumption DEF SetRefused, ReloadCalled, SettingsTypeOK
  <2> QED
    BY <1>9, <2>1 DEF SetRefused, ReloadCalled, SettingsTypeOK
<1>10. ASSUME NEW c \in Callers, SetWrites(c) PROVE SettingsTypeOK'
    BY <1>10, TextsAre DEF SetWrites, SettingsTypeOK
<1>11. ASSUME NEW c \in Callers, SetRenames(c) PROVE SettingsTypeOK'
  <2>1. CASE tmp = Missing
    BY <1>11, <2>1 DEF SetRenames, SettingsTypeOK
  <2>2. CASE tmp # Missing
    <3>1. Write(tmp) /\ tmp \in Texts
      BY <1>11, <2>2 DEF SetRenames, SettingsTypeOK
    <3> QED
      BY <1>11, <2>2, <3>1, WriteType, TextsAre DEF SetRenames, SettingsTypeOK
  <2> QED
    BY <2>1, <2>2
<1>12. ASSUME NEW c \in Callers, CallReloads(c) PROVE SettingsTypeOK'
  <2>1. file.text \in Texts /\ c \in Actors
    BY DEF SettingsTypeOK, Actors
  <2>2. Load(file.text) \in [error : BOOLEAN, vals : [Keys -> Values]]
    BY <2>1, LoadType
  <2>3. fresh' \in [Actors -> [error : BOOLEAN, vals : [Keys -> Values]]]
    BY <1>12, <2>1, <2>2 DEF CallReloads, ReloadReads, SettingsTypeOK
  <2>4. loaded' \in [error : BOOLEAN, vals : [Keys -> Values]]
    BY <1>12, <2>1 DEF CallReloads, ReloadStores, SettingsTypeOK
  <2> QED
    BY <1>12, <2>3, <2>4 DEF CallReloads, SettingsTypeOK
<1>13. CASE UNCHANGED settingsVars
    BY <1>13 DEF settingsVars, SettingsTypeOK
<1> QED
    BY <1>1, <1>2, <1>3, <1>4, <1>5, <1>6, <1>7, <1>8, <1>9, <1>10, <1>11, <1>12, <1>13
       DEF SettingsNext, CallSteps

(* While sets do not overlap, what is renamed is what its set has filled.  *)
LEMMA SetNext ==
    ASSUME SettingsTypeOK, SetInv, OneAtATime, [SettingsNext]_settingsVars
    PROVE  SetInv'
<1> USE DEF fileVars, callVars, viewVars, FileIsWhole
<1>1. CASE UserSaves
    BY <1>1 DEF UserSaves, Write, Text, Broken, SetInv
<1>2. CASE LoadDefault \/ StartWatch \/ Crash
    BY <1>2 DEF LoadDefault, StartWatch, Crash, SetInv
<1>3. CASE Poll \/ WatchReads \/ WatchStores \/ Broadcast \/ ClientAsks
    BY <1>3 DEF Poll, WatchReads, WatchStores, Broadcast, ClientAsks, SetInv
<1>4. ASSUME NEW c \in Callers, SetReads(c) PROVE SetInv'
  <2>1. PICK text \in Texts : edit' = [edit EXCEPT ![c] = text] /\ text.whole = file.text.whole
    <3>1. file.text \in Texts
      BY DEF SettingsTypeOK
    <3>2. PICK k \in Keys, v \in Values : edit' = [edit EXCEPT ![c] = [file.text EXCEPT !.vals[k] = v]]
      BY <1>4 DEF SetReads
    <3> QED
      BY <3>1, <3>2, EditType
  <2> QED
    BY <1>4, <2>1 DEF SetReads, SettingsTypeOK, SetInv
<1>5. ASSUME NEW c \in Callers, SetRefused(c) \/ ReloadCalled(c) PROVE SetInv'
    BY <1>5 DEF SetRefused, ReloadCalled, SettingsTypeOK, SetInv
<1>6. ASSUME NEW c \in Callers, SetWrites(c) PROVE SetInv'
  <2>1. \A d \in Callers : d # c => call[d] # "filled"
    BY <1>6 DEF SetWrites, OneAtATime
  <2> QED
    BY <1>6, <2>1 DEF SetWrites, SettingsTypeOK, SetInv
<1>7. ASSUME NEW c \in Callers, SetRenames(c) PROVE SetInv'
  <2>1. \A d \in Callers : d # c => call[d] # "filled"
    BY <1>7 DEF SetRenames, OneAtATime
  <2>2. tmp.whole
    BY <1>7 DEF SetRenames, SetInv
  <2> QED
    BY <1>7, <2>1, <2>2 DEF SetRenames, Write, SettingsTypeOK, SetInv
<1>8. ASSUME NEW c \in Callers, CallReloads(c) PROVE SetInv'
    BY <1>8 DEF CallReloads, ReloadReads, SettingsTypeOK, SetInv
<1>9. CASE UNCHANGED settingsVars
    BY <1>9 DEF settingsVars, SetInv
<1> QED
    BY <1>1, <1>2, <1>3, <1>4, <1>5, <1>6, <1>7, <1>8, <1>9 DEF SettingsNext, CallSteps

(* config.rs, reload.rs: the types of the file, of what is on its way into *)
(* it and of what was read from it, for any number of connections.         *)
THEOREM SettingsTypeCorrect == SettingsSpec => []SettingsTypeOK
<1>1. SettingsInit => SettingsTypeOK
  <2> SUFFICES ASSUME SettingsInit PROVE SettingsTypeOK
    OBVIOUS
  <2>1. Text(Default) \in Texts /\ Missing \in Texts
    BY SettingsAssumption, TextsAre
  <2>2. Load(Text(Default)) \in [error : BOOLEAN, vals : [Keys -> Values]]
    BY <2>1, LoadType
  <2>3. file \in [text : Texts, write : 0..MaxWrites] /\ tmp \in Texts
    BY <2>1, SettingsAssumption DEF SettingsInit, Unloaded
  <2>4. stamp \in 0..MaxWrites /\ calls \in 0..MaxCalls
    BY SettingsAssumption DEF SettingsInit, Unloaded
  <2>5. /\ loaded \in [error : BOOLEAN, vals : [Keys -> Values]]
        /\ view \in [error : BOOLEAN, vals : [Keys -> Values]]
        /\ fresh \in [Actors -> [error : BOOLEAN, vals : [Keys -> Values]]]
    <3> HIDE DEF Load
    <3> QED
      BY <2>2 DEF SettingsInit, Unloaded
  <2>6. /\ edit \in [Callers -> Texts]
        /\ call \in [Callers -> {"idle", "checked", "truncated", "filled", "renamed", "read"}]
    BY <2>1 DEF SettingsInit, Unloaded
  <2> QED
    BY <2>3, <2>4, <2>5, <2>6 DEF SettingsInit, Unloaded, SettingsTypeOK
<1> QED
    BY <1>1, SettingsTypeNext, PTL DEF SettingsSpec

(* write_atomically: as long as no two sets overlap, config.toml is at all *)
(* times a whole text, wherever the daemon dies and whatever the user      *)
(* saves meanwhile.  Sets that do overlap share one temporary file.        *)
THEOREM ConfigIsWholeHolds == SettingsSpec /\ []OneAtATime => []ConfigIsWhole
<1>1. SettingsInit => SetInv
    BY DEF SettingsInit, Unloaded, SetInv, FileIsWhole, Text
<1>2. SetInv => FileIsWhole
    BY DEF SetInv
<1> QED
    BY <1>1, <1>2, SetNext, SettingsTypeCorrect, PTL DEF SettingsSpec, ConfigIsWhole

(* The same for one connection that sets keys, whose sets come one after   *)
(* the other: this is the instance the run checks, with any keys, values   *)
(* and number of calls and of writes.                                      *)
THEOREM OneCallerKeepsConfigWhole ==
    ASSUME NEW c, Callers = {c}
    PROVE  SettingsSpec => []ConfigIsWhole
<1>1. OneAtATime
    BY DEF OneAtATime
<1> QED
    BY <1>1, ConfigIsWholeHolds, PTL

-----------------------------------------------------------------------------
(* The parts of a narrowed policy, at their types. *)
LEMMA PolicyParts ==
    ASSUME NEW p \in Policies
    PROVE  /\ p.safety \in [Classes -> 0..3] /\ p.branches \subseteq Branches
           /\ p.enabled \in BOOLEAN /\ p.dryRun \in BOOLEAN
           /\ p.rules \in Seq(Rules) /\ p.egress \in Egresses
BY DEF Policies

(* Among classes there is a highest one. *)
LEMMA HighestClass ==
    ASSUME NEW S \in SUBSET Classes, S # {}
    PROVE  \E c \in S : \A d \in S : d <= c
<1>1. \A d \in S : d \in 0..7
  BY DEF Classes
<1>2. CASE 7 \in S
  BY <1>1, <1>2
<1>3. CASE 7 \notin S /\ 6 \in S
  BY <1>1, <1>3
<1>4. CASE S \cap {6, 7} = {} /\ 5 \in S
  BY <1>1, <1>4
<1>5. CASE S \cap {5, 6, 7} = {} /\ 4 \in S
  BY <1>1, <1>5
<1>6. CASE S \cap {4, 5, 6, 7} = {} /\ 3 \in S
  BY <1>1, <1>6
<1>7. CASE S \cap {3, 4, 5, 6, 7} = {} /\ 2 \in S
  BY <1>1, <1>7
<1>8. CASE S \cap {2, 3, 4, 5, 6, 7} = {} /\ 1 \in S
  BY <1>1, <1>8
<1>9. CASE S \subseteq {0}
  <2>1. S = {0}
    BY <1>9
  <2> QED BY <2>1
<1>10. S \subseteq {0, 1, 2, 3, 4, 5, 6, 7}
  BY <1>1
<1> QED BY <1>2, <1>3, <1>4, <1>5, <1>6, <1>7, <1>8, <1>9, <1>10

(* The class of a request's findings is a class. *)
LEMMA ClassIsClass ==
    ASSUME NEW req \in Requests
    PROVE  ClassOf(req.findings) \in Classes
<1> DEFINE S == {f.class : f \in req.findings}
<1>1. req.findings \subseteq Findings
  BY DEF Requests
<1>2. S \subseteq Classes
  BY <1>1 DEF Findings
<1>3. CASE req.findings = {}
  BY <1>3 DEF ClassOf, Benign, Classes
<1>4. CASE req.findings # {}
  <2>1. \E c \in S : \A d \in S : d <= c
    BY <1>2, <1>4, HighestClass
  <2>2. \E c \in S : \A f \in req.findings : f.class <= c
    BY <2>1
  <2>3. ClassOf(req.findings) = CHOOSE c \in S : \A f \in req.findings : f.class <= c
    BY <1>4 DEF ClassOf
  <2>4. ClassOf(req.findings) \in S
    BY <2>2, <2>3
  <2> QED BY <1>2, <2>4
<1> QED BY <1>3, <1>4

(* Every decision of [safety] is at least as strict as the user's. *)
LEMMA SafetyOnlyRises ==
    ASSUME NEW mine \in Policies, NEW theirs \in Policies, NEW c \in Classes
    PROVE  /\ mine.safety[c] <= Narrow(mine, theirs).safety[c]
           /\ Narrow(mine, theirs).safety[c] \in 0..3
<1>1. mine.safety[c] \in 0..3 /\ theirs.safety[c] \in 0..3
  BY PolicyParts
<1>2. Narrow(mine, theirs).safety[c] = Higher(mine.safety[c], theirs.safety[c])
  BY DEF Narrow, NarrowSafety
<1> QED BY <1>1, <1>2 DEF Higher

(* What is on the user's floor stays there: the protected branches grow. *)
LEMMA FloorOnlyGrows ==
    ASSUME NEW mine \in Policies, NEW theirs \in Policies, NEW req, OnFloor(mine, req)
    PROVE  OnFloor(Narrow(mine, theirs), req)
<1>1. mine.branches \subseteq Narrow(mine, theirs).branches
  BY DEF Narrow
<1> QED BY <1>1 DEF OnFloor, FloorFinding, Protected

-----------------------------------------------------------------------------
(* The rules of a narrowed policy: the repo's, without their "allow", then *)
(* the user's.                                                             *)
LEMMA NarrowedRules ==
    ASSUME NEW mine \in Seq(Rules), NEW theirs \in Seq(Rules)
    PROVE  LET rules == NarrowRules(mine, theirs)
           IN  /\ DOMAIN rules = 1..(Len(theirs) + Len(mine))
               /\ \A i \in 1..Len(theirs) : rules[i] = Kept(theirs[i])
               /\ \A i \in 1..Len(mine) : rules[Len(theirs) + i] = mine[i]
<1> DEFINE kept == [i \in DOMAIN theirs |-> Kept(theirs[i])]
<1>1. \A i \in DOMAIN theirs : theirs[i] \in Rules
  OBVIOUS
<1>2. \A rule \in Rules : Kept(rule) \in Rules
  BY DEF Kept, Rules
<1>3. kept \in Seq(Rules) /\ Len(kept) = Len(theirs)
  BY <1>1, <1>2
<1> HIDE DEF kept
<1>4. /\ DOMAIN (kept \o mine) = 1..(Len(theirs) + Len(mine))
      /\ \A i \in 1..Len(theirs) : (kept \o mine)[i] = kept[i]
      /\ \A i \in 1..Len(mine) : (kept \o mine)[Len(theirs) + i] = mine[i]
  BY <1>3
<1>5. \A i \in 1..Len(theirs) : kept[i] = Kept(theirs[i])
  BY DEF kept
<1>6. NarrowRules(mine, theirs) = kept \o mine
  BY DEF NarrowRules, kept
<1> QED BY <1>4, <1>5, <1>6

(* A repo's rule never allows. *)
LEMMA KeptDoesNotAllow ==
    ASSUME NEW rule \in Rules, NEW req, Matches(Kept(rule), req)
    PROVE  Kept(rule).decide # "allow"
<1>1. CASE rule.decide = "allow"
  <2>1. Kept(rule).tools = {}
    BY <1>1 DEF Kept, Rules
  <2> QED BY <2>1 DEF Matches
<1>2. CASE rule.decide # "allow"
  BY <1>2 DEF Kept
<1> QED BY <1>1, <1>2

(* There is at most one first match, so the choice of it is that one. *)
LEMMA FirstIsOne ==
    ASSUME NEW rules \in Seq(Rules), NEW req, NEW i \in First(rules, req)
    PROVE  First(rules, req) = {i}
<1> SUFFICES ASSUME NEW j \in First(rules, req) PROVE j = i
  OBVIOUS
<1>1. i \in Nat \ {0} /\ j \in Nat \ {0}
  BY DEF First
<1>2. Matches(rules[i], req) /\ Matches(rules[j], req)
  BY DEF First
<1>3. ~(i < j) /\ ~(j < i)
  <2>1. i < j => i \in 1..(j - 1)
    BY <1>1
  <2>2. j < i => j \in 1..(i - 1)
    BY <1>1
  <2> QED BY <1>2, <2>1, <2>2 DEF First
<1> QED BY <1>1, <1>3

(* What a policy's rules allow, its first match allows and [safety] does   *)
(* not block; and the other way round.                                     *)
LEMMA AllowedByFirst ==
    ASSUME NEW p \in Policies, NEW req
    PROVE  Ruled(p, req) = "allow" <=>
               /\ ~Blocked(p, req)
               /\ \E i \in First(p.rules, req) : p.rules[i].decide = "allow"
<1>1. CASE First(p.rules, req) = {}
  BY <1>1 DEF Ruled
<1>2. CASE First(p.rules, req) # {}
  <2>1. PICK i \in First(p.rules, req) : TRUE
    BY <1>2
  <2>2. First(p.rules, req) = {i}
    BY <2>1, FirstIsOne, PolicyParts
  <2>3. (CHOOSE k \in First(p.rules, req) : TRUE) = i
    BY <2>2
  <2>4. Ruled(p, req) = IF p.rules[i].decide = "allow" /\ Blocked(p, req) THEN "deny" ELSE p.rules[i].decide
    BY <1>2, <2>3 DEF Ruled
  <2> QED BY <2>2, <2>4
<1> QED BY <1>1, <1>2

(* A first match that allows is a rule of the user's, and their first. *)
LEMMA FirstIsMine ==
    ASSUME NEW mine \in Seq(Rules), NEW theirs \in Seq(Rules), NEW req,
           NEW i \in First(NarrowRules(mine, theirs), req), NarrowRules(mine, theirs)[i].decide = "allow"
    PROVE  \E k \in First(mine, req) : mine[k].decide = "allow"
<1> DEFINE rules == NarrowRules(mine, theirs)
           n == Len(theirs)
           k == i - n
<1>1. /\ DOMAIN rules = 1..(n + Len(mine))
      /\ \A j \in 1..n : rules[j] = Kept(theirs[j])
      /\ \A j \in 1..Len(mine) : rules[n + j] = mine[j]
  BY NarrowedRules
<1>2. /\ i \in 1..(n + Len(mine)) /\ Matches(rules[i], req)
      /\ \A j \in 1..(i - 1) : ~Matches(rules[j], req)
  BY <1>1 DEF First
<1>3. n \in Nat /\ Len(mine) \in Nat
  OBVIOUS
<1>4. i \notin 1..n
  <2> SUFFICES ASSUME i \in 1..n PROVE FALSE
    OBVIOUS
  <2>1. theirs[i] \in Rules
    OBVIOUS
  <2>2. rules[i] = Kept(theirs[i])
    BY <1>1
  <2> QED BY <1>2, <2>1, <2>2, KeptDoesNotAllow
<1>5. k \in 1..Len(mine) /\ n + k = i
  BY <1>2, <1>3, <1>4
<1>6. rules[i] = mine[k]
  BY <1>1, <1>5
<1>7. \A j \in 1..(k - 1) : ~Matches(mine[j], req)
  <2> SUFFICES ASSUME NEW j \in 1..(k - 1) PROVE ~Matches(mine[j], req)
    OBVIOUS
  <2>1. n + j \in 1..(i - 1) /\ j \in 1..Len(mine)
    BY <1>2, <1>3, <1>5
  <2> QED BY <1>1, <1>2, <2>1
<1>8. k \in First(mine, req)
  BY <1>2, <1>5, <1>6, <1>7 DEF First
<1> QED BY <1>6, <1>8

-----------------------------------------------------------------------------
(* What [safety] blocks, a repo cannot unblock. *)
LEMMA BlockedStays ==
    ASSUME NEW mine \in Policies, NEW theirs \in Policies, NEW req \in Requests, Blocked(mine, req)
    PROVE  Blocked(Narrow(mine, theirs), req)
<1> DEFINE c == ClassOf(req.findings)
<1>1. req.command # NoCommand /\ Decision(mine, c) = Block
  BY DEF Blocked
<1>2. c # Benign /\ mine.safety[c] = Block
  BY <1>1 DEF Decision, Allow, Block
<1>3. c \in Classes
  BY ClassIsClass
<1>4. mine.safety[c] <= Narrow(mine, theirs).safety[c] /\ Narrow(mine, theirs).safety[c] \in 0..3
  BY <1>3, SafetyOnlyRises
<1>5. Narrow(mine, theirs).safety[c] = Block
  BY <1>2, <1>4 DEF Block
<1> QED BY <1>1, <1>2, <1>5 DEF Blocked, Decision

(* Two policies narrow to a policy. *)
LEMMA NarrowedIsPolicy ==
    ASSUME NEW mine \in Policies, NEW theirs \in Policies
    PROVE  Narrow(mine, theirs) \in Policies
<1> DEFINE p == Narrow(mine, theirs)
<1>1. \A c \in Classes : p.safety[c] \in 0..3
  BY SafetyOnlyRises
<1>2. p.safety \in [Classes -> 0..3]
  BY <1>1 DEF Narrow, NarrowSafety
<1>3. p.branches \subseteq Branches /\ p.enabled \in BOOLEAN /\ p.dryRun \in BOOLEAN
  BY PolicyParts DEF Narrow
<1>4. p.rules \in Seq(Rules)
  <2>1. mine.rules \in Seq(Rules) /\ theirs.rules \in Seq(Rules)
    BY PolicyParts
  <2>2. \A rule \in Rules : Kept(rule) \in Rules
    BY DEF Kept, Rules
  <2>3. [i \in DOMAIN theirs.rules |-> Kept(theirs.rules[i])] \in Seq(Rules)
    BY <2>1, <2>2
  <2> QED BY <2>1, <2>3 DEF Narrow, NarrowRules
<1>5. p.egress \in Egresses
  <2>1. mine.egress \in Egresses /\ theirs.egress \in Egresses
    BY PolicyParts
  <2>2. /\ mine.egress.mode \in 0..2 /\ theirs.egress.mode \in 0..2
        /\ mine.egress.providers \subseteq Providers /\ theirs.egress.providers \subseteq Providers
        /\ mine.egress.bytes \in Nat \cup {Unlimited} /\ theirs.egress.bytes \in Nat \cup {Unlimited}
        /\ mine.egress.never \subseteq Commands /\ theirs.egress.never \subseteq Commands
    BY <2>1 DEF Egresses
  <2>3. Lower(mine.egress.mode, theirs.egress.mode) \in 0..2
    BY <2>2 DEF Lower
  <2>4. NarrowProviders(mine.egress.providers, theirs.egress.providers) \subseteq Providers
    BY <2>2 DEF NarrowProviders
  <2>5. NarrowEgress(mine.egress, theirs.egress).bytes \in Nat \cup {Unlimited}
    BY <2>2 DEF NarrowEgress, Lower
  <2>6. NarrowEgress(mine.egress, theirs.egress) \in Egresses
    BY <2>2, <2>3, <2>4, <2>5 DEF NarrowEgress, Egresses
  <2> QED BY <2>6 DEF Narrow
<1> QED BY <1>2, <1>3, <1>4, <1>5 DEF Policies, Narrow

(* Whatever the two files say, a repo's own file never lets through what   *)
(* the user's file would not have let through by itself, what is on the    *)
(* user's floor, or what the user's [safety] blocks.                       *)
THEOREM NeverWidens ==
    ASSUME NEW global \in PolicyFiles, NEW inWorktree \in BOOLEAN, NEW repo \in PolicyFiles, NEW req \in Requests
    PROVE  NothingWidened(global, inWorktree, repo, req)
<1> DEFINE p == Effective(global, inWorktree, repo)
           mine == global.policy
           theirs == repo.policy
<1>0. mine \in Policies /\ theirs \in Policies
  BY DEF PolicyFiles
<1>1. CASE ~Loads(global) \/ (inWorktree /\ ~Loads(repo))
  <2>1. p = DefaultPolicy
    BY <1>1 DEF Effective
  <2>2. ~p.enabled
    BY <2>1 DEF DefaultPolicy
  <2>3. ~Acts(p)
    BY <2>2 DEF Acts
  <2>4. ~AutoAllows(p, req)
    BY <2>3 DEF AutoAllows, Evaluate
  <2> QED BY <2>4 DEF NothingWidened
<1>2. CASE Loads(global) /\ ~inWorktree
  <2>1. p = mine
    BY <1>2 DEF Effective
  <2>2. AutoAllows(mine, req) => ~OnFloor(mine, req) /\ ~Blocked(mine, req)
    <3>1. AutoAllows(mine, req) => Evaluated(mine, req) = "allow"
      BY DEF AutoAllows, Evaluate
    <3>2. Evaluated(mine, req) = "allow" => ~OnFloor(mine, req) /\ Ruled(mine, req) = "allow"
      BY DEF Evaluated
    <3> QED BY <1>0, <3>1, <3>2, AllowedByFirst
  <2> QED BY <1>2, <2>1, <2>2 DEF NothingWidened
<1>3. CASE Loads(global) /\ inWorktree /\ Loads(repo)
  <2>1. p = Narrow(mine, theirs)
    BY <1>3 DEF Effective
  <2> SUFFICES ASSUME AutoAllows(p, req)
               PROVE  AutoAllows(mine, req) /\ ~OnFloor(mine, req) /\ ~Blocked(mine, req)
    BY <1>3 DEF NothingWidened
  <2>2. Acts(p) /\ Evaluated(p, req) = "allow"
    BY DEF AutoAllows, Evaluate
  <2>3. Acts(mine)
    BY <2>1, <2>2 DEF Acts, Narrow
  <2>4. ~OnFloor(p, req) /\ Ruled(p, req) = "allow"
    BY <2>2 DEF Evaluated
  <2>5. ~OnFloor(mine, req)
    BY <1>0, <2>1, <2>4, FloorOnlyGrows
  <2>6. p \in Policies
    BY <1>0, <2>1, NarrowedIsPolicy
  <2>7. ~Blocked(p, req) /\ \E i \in First(p.rules, req) : p.rules[i].decide = "allow"
    BY <2>4, <2>6, AllowedByFirst
  <2>8. ~Blocked(mine, req)
    BY <1>0, <2>1, <2>7, BlockedStays
  <2>9. \E k \in First(mine.rules, req) : mine.rules[k].decide = "allow"
    <3>1. p.rules = NarrowRules(mine.rules, theirs.rules)
      BY <2>1 DEF Narrow
    <3>2. mine.rules \in Seq(Rules) /\ theirs.rules \in Seq(Rules)
      BY <1>0, PolicyParts
    <3> QED BY <2>7, <3>1, <3>2, FirstIsMine
  <2>10. Evaluated(mine, req) = "allow"
    BY <1>0, <2>5, <2>8, <2>9, AllowedByFirst DEF Evaluated
  <2> QED BY <2>3, <2>5, <2>8, <2>10 DEF AutoAllows, Evaluate
<1> QED BY <1>1, <1>2, <1>3

(* What leaves the machine stays within what either file lets leave it.    *)
THEOREM EgressStaysWithin ==
    ASSUME NEW mine \in Egresses, NEW theirs \in Egresses
    PROVE  EgressBounded(mine, theirs)
<1>1. /\ mine.mode \in 0..2 /\ mine.bytes \in Nat \cup {Unlimited}
      /\ theirs.mode \in 0..2 /\ theirs.bytes \in Nat \cup {Unlimited}
  BY DEF Egresses
<1> DEFINE both == NarrowEgress(mine, theirs)
<1>2. both.mode <= mine.mode /\ both.mode <= theirs.mode
  BY <1>1 DEF NarrowEgress, Lower
<1>3. /\ mine.bytes # Unlimited => both.bytes # Unlimited /\ both.bytes <= mine.bytes
      /\ theirs.bytes # Unlimited => both.bytes # Unlimited /\ both.bytes <= theirs.bytes
  BY <1>1 DEF NarrowEgress, Lower, Unlimited
<1>4. mine.never \subseteq both.never /\ theirs.never \subseteq both.never
  BY DEF NarrowEgress
<1> QED BY <1>2, <1>3, <1>4 DEF EgressBounded, EgressWithin

-----------------------------------------------------------------------------
(* PolicyDecision.  What is true on the way to a decision: what has been   *)
(* read of the user's file stood since the decision began, and while no    *)
(* file is edited the floor that is shown is that of the files.            *)
FloorOfFiles == OnFloor(Effective(globalFile, request.inWorktree, repoFile), [request EXCEPT !.generic = FALSE])

DecisionInv ==
    /\ DecisionTypeOK /\ DecidesWithin /\ ShownAsDecided
    /\ step = "asked" => ~outcome.applied
    /\ step \in Deciding => globalFile \in stood /\ fileRead \in stood
    /\ step \in Deciding /\ quiet => fileRead = globalFile
    /\ step \in {"evaluate", "evaluate repo"} /\ quiet => shown = FloorOfFiles

LEMMA DefaultIsPolicy == DefaultPolicy \in Policies
<1>1. DefaultPolicy.safety \in [Classes -> 0..3]
  BY DEF DefaultPolicy, Allow, Warn, Confirm, Block
<1>2. DefaultPolicy.egress \in Egresses
  BY DEF DefaultPolicy, Egresses
<1>3. /\ DefaultPolicy.branches \subseteq Branches /\ DefaultPolicy.enabled \in BOOLEAN
      /\ DefaultPolicy.dryRun \in BOOLEAN /\ DefaultPolicy.rules \in Seq(Rules)
  BY DEF DefaultPolicy
<1>4. DefaultPolicy = [safety |-> DefaultPolicy.safety, branches |-> DefaultPolicy.branches, enabled |-> DefaultPolicy.enabled,
                       dryRun |-> DefaultPolicy.dryRun, rules |-> DefaultPolicy.rules, egress |-> DefaultPolicy.egress]
  BY DEF DefaultPolicy
<1> QED BY <1>1, <1>2, <1>3, <1>4 DEF Policies

(* Whatever the files hold, what is in force is a policy.                  *)
LEMMA EffectiveIsPolicy ==
    ASSUME NEW global \in PolicyFiles, NEW inWorktree \in BOOLEAN, NEW repo \in PolicyFiles
    PROVE  Effective(global, inWorktree, repo) \in Policies
<1>1. global.policy \in Policies /\ repo.policy \in Policies
  BY DEF PolicyFiles
<1> QED BY <1>1, DefaultIsPolicy, NarrowedIsPolicy DEF Effective

LEMMA EvaluatedType ==
    ASSUME NEW p \in Policies, NEW req
    PROVE  Evaluated(p, req) \in Decide
<1>1. Ruled(p, req) \in Decide
  <2>1. CASE First(p.rules, req) = {}
    BY <2>1 DEF Ruled, Decide
  <2>2. CASE First(p.rules, req) # {}
    <3> DEFINE i == CHOOSE j \in First(p.rules, req) : TRUE
    <3>1. i \in First(p.rules, req)
      BY <2>2
    <3>2. i \in DOMAIN p.rules
      BY <3>1 DEF First
    <3>3. p.rules \in Seq(Rules)
      BY PolicyParts
    <3> HIDE DEF i
    <3>4. p.rules[i] \in Rules
      BY <3>2, <3>3
    <3>5. p.rules[i].decide \in Decide
      BY <3>4 DEF Rules
    <3>6. Ruled(p, req) = IF p.rules[i].decide = "allow" /\ Blocked(p, req) THEN "deny" ELSE p.rules[i].decide
      BY <2>2 DEF Ruled, i
    <3> QED BY <3>5, <3>6 DEF Decide
  <2> QED BY <2>1, <2>2
<1> QED BY <1>1 DEF Evaluated, Decide

LEMMA LoadedIsPolicy == ASSUME DecisionTypeOK PROVE Loaded \in Policies
<1>1. fileRead \in PolicyFiles /\ repoFile \in PolicyFiles /\ request \in Requests
  BY DecisionAssumption DEF DecisionTypeOK
<1>2. request.inWorktree \in BOOLEAN
  BY <1>1 DEF Requests
<1> QED BY <1>1, <1>2, EffectiveIsPolicy DEF Loaded

LEMMA FloorIsBoolean == \A p, req : req \in Requests => OnFloor(p, req) \in BOOLEAN
BY DEF OnFloor, Requests

(* A request that is not of a generic session is the one that is shown.    *)
LEMMA NotGeneric ==
    ASSUME NEW req \in Requests
    PROVE  /\ [req EXCEPT !.generic = FALSE] \in Requests
           /\ ~req.generic => [req EXCEPT !.generic = FALSE] = req
BY DEF Requests

(* An edit of either file.                                                 *)
LEMMA EditStep == ASSUME DecisionInv, EditGlobal \/ EditRepo PROVE DecisionInv'
<1> USE DEF decideVars, diskVars
<1>1. DecisionTypeOK'
  <2>1. edits' \in 0..MaxEdits
    <3>1. edits \in 0..MaxEdits /\ edits < MaxEdits /\ edits' = edits + 1
      BY DEF DecisionInv, DecisionTypeOK, EditGlobal, EditRepo
    <3> QED
      BY <3>1, DecisionAssumption
  <2> QED
    BY <2>1 DEF DecisionInv, DecisionTypeOK, EditGlobal, EditRepo
<1>2. stood \subseteq stood' /\ (quiet' => quiet)
  BY DEF EditGlobal, EditRepo, DecisionInv, DecisionTypeOK
<1>3. DecidesWithin'
  BY <1>2 DEF DecisionInv, DecidesWithin, EditGlobal, EditRepo
<1>4. ShownAsDecided'
  BY <1>2 DEF DecisionInv, ShownAsDecided, EditGlobal, EditRepo
<1>5. step' \in Deciding => globalFile' \in stood' /\ fileRead' \in stood' /\ ~quiet'
  BY <1>2 DEF DecisionInv, EditGlobal, EditRepo
<1>6. step' = "asked" => ~outcome'.applied
  BY DEF DecisionInv, EditGlobal, EditRepo
<1> QED
  BY <1>1, <1>3, <1>4, <1>5, <1>6 DEF DecisionInv, Deciding

(* A command is taken, and the user's file is read.                        *)
LEMMA ReadStep == ASSUME DecisionInv, BeginDecide \/ ClassifyReads \/ EvaluateReads PROVE DecisionInv'
<1> USE DEF decideVars, diskVars
<1>1. CASE BeginDecide
  <2>1. DecisionTypeOK'
    BY <1>1 DEF DecisionInv, DecisionTypeOK, BeginDecide, Deciding, Undecided, Decide
  <2>2. step' = "classify" /\ stood' = {globalFile'} /\ fileRead' = globalFile'
    BY <1>1 DEF BeginDecide
  <2> QED
    BY <2>1, <2>2 DEF DecisionInv, DecidesWithin, ShownAsDecided
<1>2. CASE ClassifyReads
  <2>1. /\ step' = "classify repo" /\ step = "classify" /\ fileRead' = globalFile
        /\ UNCHANGED <<globalFile, repoFile, edits, request, shown, outcome, answer, stood, quiet>>
    BY <1>2 DEF ClassifyReads, ReadGlobal
  <2>2. DecisionTypeOK'
    BY <2>1 DEF DecisionInv, DecisionTypeOK, Deciding
  <2> QED
    BY <2>1, <2>2 DEF DecisionInv, DecidesWithin, ShownAsDecided, Deciding
<1>3. CASE EvaluateReads
  <2>1. /\ step' = "evaluate repo" /\ step = "evaluate" /\ fileRead' = globalFile
        /\ UNCHANGED <<globalFile, repoFile, edits, request, shown, outcome, answer, stood, quiet>>
    BY <1>3 DEF EvaluateReads, ReadGlobal
  <2>2. DecisionTypeOK'
    BY <2>1 DEF DecisionInv, DecisionTypeOK, Deciding
  <2>3. FloorOfFiles' = FloorOfFiles
    BY <2>1 DEF FloorOfFiles
  <2> QED
    BY <2>1, <2>2, <2>3 DEF DecisionInv, DecidesWithin, ShownAsDecided, Deciding
<1> QED
  BY <1>1, <1>2, <1>3

(* classify: the floor that is shown.                                      *)
LEMMA ClassifyStep == ASSUME DecisionInv, Classifies PROVE DecisionInv'
<1> USE DEF diskVars
<1>1. /\ step = "classify repo" /\ step' = "evaluate" /\ shown' = OnFloor(Loaded, [request EXCEPT !.generic = FALSE])
      /\ UNCHANGED <<globalFile, repoFile, edits, request, fileRead, outcome, answer, stood, quiet>>
  BY DEF Classifies
<1>2. request \in Requests
  BY DecisionAssumption DEF DecisionInv, DecisionTypeOK
<1>3. shown' \in BOOLEAN
  BY <1>1, <1>2, NotGeneric, FloorIsBoolean
<1>4. DecisionTypeOK'
  BY <1>1, <1>3 DEF DecisionInv, DecisionTypeOK, Deciding
<1>5. quiet => shown' = FloorOfFiles'
  BY <1>1 DEF DecisionInv, Loaded, FloorOfFiles, Deciding
<1> QED
  BY <1>1, <1>4, <1>5 DEF DecisionInv, DecidesWithin, ShownAsDecided, Deciding

(* evaluate: by NeverWidens what it lets run the user's file lets run.     *)
LEMMA EvaluateStep == ASSUME DecisionInv, Evaluates PROVE DecisionInv'
<1> USE DEF diskVars
<1> DEFINE e == Evaluate(Loaded, request)
<1>1. /\ step = "evaluate repo"
      /\ outcome' = [decision |-> e.decision, applied |-> e.applied, floor |-> OnFloor(Loaded, request)]
      /\ e.applied => step' = "done" /\ answer' = e.decision
      /\ ~e.applied => step' = "asked" /\ answer' = answer
      /\ UNCHANGED <<globalFile, repoFile, edits, request, fileRead, shown, stood, quiet>>
  BY DEF Evaluates
<1>2. request \in Requests /\ fileRead \in PolicyFiles /\ repoFile \in PolicyFiles /\ request.inWorktree \in BOOLEAN
  BY DecisionAssumption DEF DecisionInv, DecisionTypeOK, Requests
<1>3. Loaded \in Policies
  BY LoadedIsPolicy DEF DecisionInv
<1>4. e.decision \in Decide /\ e.applied \in BOOLEAN /\ (e.applied => e.decision # "ask")
  <2>1. Loaded.enabled \in BOOLEAN /\ Loaded.dryRun \in BOOLEAN
    BY <1>3, PolicyParts
  <2> QED
    BY <2>1, <1>3, EvaluatedType DEF Evaluate, Acts
<1>5. OnFloor(Loaded, request) \in BOOLEAN
  BY <1>2, FloorIsBoolean
<1>6. DecisionTypeOK'
  <2> HIDE DEF e
  <2>1. outcome' \in [decision : Decide, applied : BOOLEAN, floor : BOOLEAN]
    BY <1>1, <1>4, <1>5
  <2>2. answer' \in {"none", "allow", "deny"} /\ step' \in {"asked", "done"}
    BY <1>1, <1>4 DEF Decide, DecisionInv, DecisionTypeOK
  <2> QED
    BY <1>1, <2>1, <2>2 DEF DecisionInv, DecisionTypeOK
<1>7. DecidesWithin'
  <2> SUFFICES ASSUME e.applied, e.decision = "allow"
               PROVE  Loads(fileRead) /\ AutoAllows(fileRead.policy, request) /\ ~OnFloor(fileRead.policy, request)
    <3>1. fileRead \in stood
      BY <1>1 DEF DecisionInv, Deciding
    <3> HIDE DEF e
    <3> QED
      BY <1>1, <1>4, <3>1 DEF DecidesWithin
  <2>1. AutoAllows(Loaded, request)
    BY DEF AutoAllows
  <2>2. NothingWidened(fileRead, request.inWorktree, repoFile, request)
    BY <1>2, NeverWidens
  <2> QED
    BY <2>1, <2>2 DEF NothingWidened, Loaded
<1>8. ShownAsDecided'
  <2>1. CASE quiet /\ ~request.generic
    <3>1. shown = OnFloor(Loaded, [request EXCEPT !.generic = FALSE])
      BY <1>1, <2>1 DEF DecisionInv, FloorOfFiles, Loaded, Deciding
    <3>2. [request EXCEPT !.generic = FALSE] = request
      BY <1>2, <2>1, NotGeneric
    <3>3. outcome'.floor = shown
      BY <1>1, <3>1, <3>2
    <3> QED
      BY <1>1, <3>3 DEF ShownAsDecided
  <2> QED
    BY <1>1, <2>1 DEF ShownAsDecided
<1>9. step' \notin Deciding
  BY <1>1, <1>4 DEF Deciding
<1>10. step' = "asked" => ~outcome'.applied
  <2> HIDE DEF e
  <2> QED
    BY <1>1
<1> QED
  BY <1>6, <1>7, <1>8, <1>9, <1>10 DEF DecisionInv, Deciding

LEMMA InboxStep == ASSUME DecisionInv, InboxAnswers PROVE DecisionInv'
<1>1. /\ step = "asked" /\ step' = "done" /\ answer' \in {"allow", "deny"}
      /\ UNCHANGED <<globalFile, repoFile, edits, request, fileRead, shown, outcome, stood, quiet>>
  BY DEF InboxAnswers, diskVars
<1>2. DecisionTypeOK' /\ ShownAsDecided'
  BY <1>1 DEF DecisionInv, DecisionTypeOK, ShownAsDecided
<1>3. ~outcome.applied
  BY <1>1 DEF DecisionInv
<1> QED
  BY <1>1, <1>2, <1>3 DEF DecisionInv, DecidesWithin, Deciding

(* What the inductive invariant is.                                        *)
THEOREM DecisionInvariant == PolicySpec => []DecisionInv
<1>1. PolicyInit => DecisionInv
  <2> SUFFICES ASSUME PolicyInit PROVE DecisionInv
    OBVIOUS
  <2>1. edits \in 0..MaxEdits
    BY DecisionAssumption DEF PolicyInit
  <2>2. outcome \in [decision : Decide, applied : BOOLEAN, floor : BOOLEAN]
    BY DEF PolicyInit, Undecided, Decide
  <2>3. DecisionTypeOK
    BY <2>1, <2>2 DEF PolicyInit, DecisionTypeOK
  <2>4. step = "idle"
    BY DEF PolicyInit
  <2> QED
    BY <2>3, <2>4 DEF DecisionInv, DecidesWithin, ShownAsDecided, Deciding
<1>2. DecisionInv /\ [PolicyNext]_policyVars => DecisionInv'
  <2> SUFFICES ASSUME DecisionInv, [PolicyNext]_policyVars PROVE DecisionInv'
    OBVIOUS
  <2>1. CASE UNCHANGED policyVars
    BY <2>1 DEF policyVars, diskVars, decideVars, DecisionInv, DecisionTypeOK, DecidesWithin, ShownAsDecided, FloorOfFiles
  <2> QED
    BY <2>1, EditStep, ReadStep, ClassifyStep, EvaluateStep, InboxStep DEF PolicyNext
<1> QED
  BY <1>1, <1>2, PTL DEF PolicySpec

(* decide: what a rule lets run unasked, a file of the user's that stood   *)
(* meanwhile lets run, and it is not on that file's floor; the floor that  *)
(* is shown is the one it was decided on, where no file was edited and the *)
(* session is not a generic one; and egress stays within both files: for   *)
(* any files, rules, commands and edits.                                   *)
THEOREM PolicyNarrowsHolds == PolicySpec => []PolicyNarrows
<1>1. DecisionInv => PolicyNarrows
  <2> SUFFICES ASSUME DecisionInv PROVE EgressHeld
    BY DEF DecisionInv, PolicyNarrows
  <2> SUFFICES ASSUME Loads(globalFile), Loads(repoFile)
               PROVE  LET sent == Effective(globalFile, TRUE, repoFile).egress
                      IN  EgressWithin(sent, globalFile.policy.egress) /\ EgressWithin(sent, repoFile.policy.egress)
    BY DEF EgressHeld
  <2> DEFINE mine == globalFile.policy.egress
             theirs == repoFile.policy.egress
  <2>1. globalFile.policy \in Policies /\ repoFile.policy \in Policies
    BY DecisionAssumption DEF DecisionInv, DecisionTypeOK, PolicyFiles
  <2>2. mine \in Egresses /\ theirs \in Egresses
    BY <2>1, PolicyParts
  <2>3. Effective(globalFile, TRUE, repoFile).egress = NarrowEgress(mine, theirs)
    BY DEF Effective, Narrow
  <2>4. EgressBounded(mine, theirs)
    BY <2>2, EgressStaysWithin
  <2> QED
    BY <2>3, <2>4 DEF EgressBounded
<1> QED
  BY <1>1, DecisionInvariant, PTL
=============================================================================
