-------------------------- MODULE WorkerPoolProofs --------------------------
(* Proofs about WorkerPool, for any jobs, workers, capacity and number of  *)
(* goroutines per Start.                                                   *)
EXTENDS WorkerPool, SequenceTheorems, FiniteSetTheorems, WellFoundedInduction,
        TLAPS

-----------------------------------------------------------------------------
(* Lemmas about the library operators the model uses.                      *)

(* A nonempty set of naturals has a least element, and Min picks it.  The  *)
(* intervals 1..x are finite sets, on which strict inclusion is            *)
(* well-founded.                                                           *)
LEMMA MinIsMember ==
  ASSUME NEW S \in SUBSET Nat, S # {}
  PROVE  Min(S) \in S
<1> DEFINE T == {1..x : x \in S}
<1>1. T \subseteq FiniteSubsetsOf(Nat)
  BY FS_Interval DEF FiniteSubsetsOf
<1>2. T # {}
  OBVIOUS
<1>3. PICK X \in T : \A Y \in T : ~(<<Y, X>> \in StrictSubsetOrdering(Nat))
  <2> HIDE DEF T
  <2> QED BY <1>1, <1>2, FS_StrictSubsetOrderingWellFounded, WFMin
<1>4. PICK m \in S : X = 1..m
  BY <1>3
<1>5. ASSUME NEW y \in S, y < m PROVE FALSE
  <2>1. 1..y \in T /\ 1..y \subseteq Nat /\ 1..m \subseteq Nat
    BY <1>5
  <2>2. 1..y \subseteq 1..m /\ m \in 1..m /\ m \notin 1..y
    BY <1>5
  <2> QED BY <1>3, <1>4, <2>1, <2>2 DEF StrictSubsetOrdering
<1>6. \A y \in S : m =< y
  BY <1>5
<1> QED BY <1>6 DEF Min

(* Removing an element keeps a sequence over the same set.                 *)
LEMMA RemoveFirstType ==
  ASSUME NEW S, NEW s \in Seq(S), NEW e
  PROVE  RemoveFirst(s, e) \in Seq(S)
<1> DEFINE I == {i \in 1..Len(s) : s[i] = e}
<1>1. CASE I = {}
  BY <1>1 DEF RemoveFirst
<1>2. CASE I # {}
  <2>1. Min(I) \in I
    <3>1. I \in SUBSET Nat
      OBVIOUS
    <3> HIDE DEF I
    <3> QED BY <1>2, <3>1, MinIsMember
  <2>2. RemoveFirst(s, e) = RemoveAt(s, Min(I))
    BY <1>2, Zenon DEF RemoveFirst, SelectInSeq
  <2>3. /\ SubSeq(s, 1, Min(I) - 1) \in Seq(S)
        /\ SubSeq(s, Min(I) + 1, Len(s)) \in Seq(S)
    <3> HIDE DEF I
    <3>1. Min(I) \in 1..Len(s) /\ Len(s) \in Nat
      BY <2>1 DEF I
    <3> QED BY <3>1, SubSeqProperties
  <2> QED BY <2>2, <2>3 DEF RemoveAt
<1> QED BY <1>1, <1>2

-----------------------------------------------------------------------------
(* The inductive invariant.  A worker holds an id exactly between its      *)
(* receive and its return; the ids in the channel, held, or handled were   *)
(* sent; and the counter is exact, without which its decrement could leave *)
(* the naturals.                                                           *)
Sent(j) == submit[j] \in {"sent", "accepted"}

Places ==
  /\ \A w \in Workers : holding[w] = None <=> pc[w] \in {"unborn", "select", "exited"}
  /\ \A w \in Workers : holding[w] # None => Sent(holding[w])
  /\ \A i \in 1..Len(queue) : Sent(queue[i])
  /\ \A j \in handled : Sent(j)

IInv == TypeOK /\ Places /\ ActiveCounts

LEMMA InitIInv == Init => IInv
<1> SUFFICES ASSUME Init PROVE IInv
  OBVIOUS
<1>1. TypeOK
  <2>1. queue \in Seq(Jobs) /\ queued \in Seq(Jobs)
    BY DEF Init
  <2>2. pc \in [Workers -> WorkerStates] /\ holding \in [Workers -> Jobs \cup {None}]
    BY DEF Init, WorkerStates
  <2>3. submit \in [Jobs -> SubmitStates] /\ handled \subseteq Jobs
    BY DEF Init, SubmitStates
  <2> QED BY <2>1, <2>2, <2>3 DEF Init, TypeOK
<1>2. Places
  <2>1. 1..Len(queue) = {}
    BY DEF Init
  <2> QED BY <2>1 DEF Init, Places
<1>3. Busy = {}
  BY DEF Init, Busy
<1>4. ActiveCounts
  BY <1>3, FS_EmptySet DEF Init, ActiveCounts
<1> QED BY <1>1, <1>2, <1>4 DEF IInv

(* A step that moves no worker into or out of the busy ones, and leaves    *)
(* the counter alone, keeps it exact.                                      *)
LEMMA ActiveUnchanged ==
  ASSUME ActiveCounts, active' = active,
         \A w \in Workers : pc'[w] \in {"counted", "handling"}
                         <=> pc[w] \in {"counted", "handling"}
  PROVE  ActiveCounts'
<1>1. Busy' = Busy
  BY DEF Busy
<1> QED BY <1>1 DEF ActiveCounts

LEMMA StepIInv == IInv /\ [Next]_vars => IInv'
<1> SUFFICES ASSUME IInv, [Next]_vars PROVE IInv'
  OBVIOUS
<1> USE DEF WorkerStates, SubmitStates
<1>0. TypeOK /\ Places /\ ActiveCounts
  BY DEF IInv
<1>1. CASE Start
  <2>1. TypeOK' /\ Places'
    BY <1>0, <1>1 DEF Start, Unborn, TypeOK, Places, Sent
  <2>2. ActiveCounts'
    BY <1>0, <1>1, ActiveUnchanged DEF Start, Unborn
  <2> QED BY <2>1, <2>2 DEF IInv
<1>2. CASE Stop
  <2>1. TypeOK' /\ Places'
    BY <1>0, <1>2 DEF Stop, TypeOK, Places, Sent
  <2>2. ActiveCounts'
    BY <1>0, <1>2, ActiveUnchanged DEF Stop
  <2> QED BY <2>1, <2>2 DEF IInv
<1>3. ASSUME NEW j \in Jobs, Send(j) PROVE IInv'
  <2>1. TypeOK'
    BY <1>0, <1>3 DEF Send, TypeOK
  <2>2. Places'
    <3>1. /\ Len(queue') = Len(queue) + 1 /\ Len(queue) \in Nat
          /\ \A i \in 1..Len(queue') :
               queue'[i] = IF i = Len(queue) + 1 THEN j ELSE queue[i]
          /\ \A i \in 1..Len(queue') : i # Len(queue) + 1 => i \in 1..Len(queue)
      BY <1>0, <1>3 DEF Send, TypeOK
    <3>2. \A k \in Jobs : submit'[k] \in {"sent", "accepted"}
                              <=> Sent(k) \/ k = j
      BY <1>0, <1>3 DEF Send, TypeOK, Sent
    <3>3. \A i \in 1..Len(queue') : submit'[queue'[i]] \in {"sent", "accepted"}
      BY <1>0, <3>1, <3>2 DEF TypeOK, Places
    <3> QED BY <1>0, <1>3, <3>2, <3>3 DEF Send, TypeOK, Places, Sent
  <2>3. ActiveCounts'
    BY <1>0, <1>3, ActiveUnchanged DEF Send
  <2> QED BY <2>1, <2>2, <2>3 DEF IInv
<1>4. ASSUME NEW j \in Jobs, Refuse(j) PROVE IInv'
  <2>1. TypeOK' /\ Places'
    BY <1>0, <1>4 DEF Refuse, TypeOK, Places, Sent
  <2>2. ActiveCounts'
    BY <1>0, <1>4, ActiveUnchanged DEF Refuse
  <2> QED BY <2>1, <2>2 DEF IInv
<1>5. ASSUME NEW j \in Jobs, List(j) PROVE IInv'
  <2>1. TypeOK' /\ Places'
    BY <1>0, <1>5 DEF List, TypeOK, Places, Sent
  <2>2. ActiveCounts'
    BY <1>0, <1>5, ActiveUnchanged DEF List
  <2> QED BY <2>1, <2>2 DEF IInv
<1>6. ASSUME NEW w \in Workers, Receive(w) PROVE IInv'
  <2>1. /\ Head(queue) = queue[1] /\ Head(queue) \in Jobs /\ 1 \in 1..Len(queue)
        /\ \A i \in 1..Len(queue') :
             i + 1 \in 1..Len(queue) /\ queue'[i] = queue[i + 1]
    BY <1>0, <1>6 DEF Receive, TypeOK
  <2>2. TypeOK'
    BY <1>0, <1>6, <2>1 DEF Receive, TypeOK
  <2>3. Places'
    BY <1>0, <1>6, <2>1, PoolAssumption DEF Receive, TypeOK, Places, Sent
  <2>4. ActiveCounts'
    BY <1>0, <1>6, ActiveUnchanged DEF Receive, TypeOK
  <2> QED BY <2>2, <2>3, <2>4 DEF IInv
<1>7. ASSUME NEW w \in Workers, Exit(w) PROVE IInv'
  <2>1. TypeOK' /\ Places'
    BY <1>0, <1>7 DEF Exit, TypeOK, Places, Sent
  <2>2. ActiveCounts'
    BY <1>0, <1>7, ActiveUnchanged DEF Exit, TypeOK
  <2> QED BY <2>1, <2>2 DEF IInv
<1>8. ASSUME NEW w \in Workers, CountIn(w) PROVE IInv'
  <2>1. TypeOK' /\ Places'
    BY <1>0, <1>8 DEF CountIn, TypeOK, Places, Sent
  <2>2. Busy' = Busy \cup {w} /\ w \notin Busy
    BY <1>0, <1>8 DEF CountIn, TypeOK, Busy
  <2>3. IsFiniteSet(Busy)
    BY FS_Subset, WorkersAssumption DEF Busy
  <2>4. ActiveCounts'
    BY <1>0, <1>8, <2>2, <2>3, FS_AddElement DEF CountIn, ActiveCounts
  <2> QED BY <2>1, <2>4 DEF IInv
<1>9. ASSUME NEW w \in Workers, Unlist(w) PROVE IInv'
  <2>1. queued' \in Seq(Jobs)
    BY <1>0, <1>9, RemoveFirstType DEF Unlist, TypeOK
  <2>2. TypeOK' /\ Places'
    BY <1>0, <1>9, <2>1 DEF Unlist, TypeOK, Places, Sent
  <2>3. ActiveCounts'
    BY <1>0, <1>9, ActiveUnchanged DEF Unlist, TypeOK
  <2> QED BY <2>2, <2>3 DEF IInv
<1>10. ASSUME NEW w \in Workers, Return(w) PROVE IInv'
  <2>1. holding[w] \in Jobs /\ Sent(holding[w])
    BY <1>0, <1>10 DEF Return, TypeOK, Places
  <2>2. Busy' = Busy \ {w} /\ w \in Busy
    BY <1>0, <1>10 DEF Return, TypeOK, Busy
  <2>3. IsFiniteSet(Busy)
    BY FS_Subset, WorkersAssumption DEF Busy
  <2>4. ActiveCounts'
    BY <1>0, <1>10, <2>2, <2>3, FS_RemoveElement DEF Return, ActiveCounts
  <2>5. active' \in Nat
    BY <2>2, <2>3, <2>4, FS_RemoveElement, FS_CardinalityType DEF ActiveCounts
  <2>6. TypeOK'
    BY <1>0, <1>10, <2>1, <2>5 DEF Return, TypeOK
  <2>7. Places'
    BY <1>0, <1>10, <2>1 DEF Return, TypeOK, Places, Sent
  <2> QED BY <2>4, <2>6, <2>7 DEF IInv
<1>11. CASE UNCHANGED vars
  BY <1>0, <1>11 DEF vars, IInv, TypeOK, Places, Sent, ActiveCounts, Busy
<1> QED BY <1>1, <1>2, <1>3, <1>4, <1>5, <1>6, <1>7, <1>8, <1>9, <1>10, <1>11
  DEF Next, SubmitStep, WorkerStep

LEMMA Invariance == Spec => []IInv
BY InitIInv, StepIInv, PTL DEF Spec

(* The variables always have their types.                                  *)
THEOREM TypeCorrect == Spec => []TypeOK
<1>1. IInv => TypeOK
  BY DEF IInv
<1> QED BY <1>1, Invariance, PTL

(* ActiveWorkers is exact for any number of workers and any interleaving.  *)
THEOREM ActiveCountsHolds == Spec => []ActiveCounts
<1>1. IInv => ActiveCounts
  BY DEF IInv
<1> QED BY <1>1, Invariance, PTL

-----------------------------------------------------------------------------
(* Refinement.  OutcomeOf changes only at the send, the refusal and the    *)
(* return.                                                                 *)
LEMMA InitRefines == Init => Queue!Init
BY DEF Init, Queue!Init, OutcomeOf

LEMMA StepRefines ==
  IInv /\ [Next]_vars => [Queue!Next]_(Queue!queueVars)
<1> SUFFICES ASSUME IInv, [Next]_vars
             PROVE  Queue!Next \/ UNCHANGED Queue!queueVars
  OBVIOUS
<1>0. TypeOK /\ Places
  BY DEF IInv
<1> DEFINE oc == [j \in Jobs |-> OutcomeOf(j)]
<1>1. ASSUME UNCHANGED <<queue, holding, submit, handled>>
      PROVE  UNCHANGED Queue!queueVars
  BY <1>1 DEF Queue!queueVars, OutcomeOf
<1>2. CASE Start
  BY <1>1, <1>2 DEF Start
<1>3. CASE Stop
  BY <1>1, <1>3 DEF Stop
<1>4. ASSUME NEW j \in Jobs, Send(j) PROVE Queue!Accept(j)
  <2>1. j \notin handled /\ submit[j] = "new"
    BY <1>0, <1>4 DEF Send, Places, Sent
  <2>2. oc' = [oc EXCEPT ![j] = "accepted"]
    BY <1>0, <1>4, <2>1 DEF Send, TypeOK, OutcomeOf
  <2> QED BY <1>4, <2>1, <2>2 DEF Send, Queue!Accept, OutcomeOf
<1>5. ASSUME NEW j \in Jobs, Refuse(j) PROVE Queue!Refuse(j)
  <2>1. j \notin handled /\ submit[j] = "new"
    BY <1>0, <1>5 DEF Refuse, Places, Sent
  <2>2. oc' = [oc EXCEPT ![j] = "refused"]
    BY <1>0, <1>5, <2>1 DEF Refuse, TypeOK, OutcomeOf
  <2> QED BY <1>5, <2>1, <2>2 DEF Refuse, Queue!Refuse, OutcomeOf
<1>6. ASSUME NEW j \in Jobs, List(j) PROVE UNCHANGED Queue!queueVars
  <2>1. oc' = oc
    BY <1>0, <1>6 DEF List, TypeOK, OutcomeOf
  <2> QED BY <1>6, <2>1 DEF List, Queue!queueVars
<1>7. ASSUME NEW w \in Workers, Receive(w) PROVE Queue!Begin(w)
  <2>1. holding[w] = None
    BY <1>0, <1>7 DEF Receive, Places
  <2>2. oc' = oc
    BY <1>7 DEF Receive, OutcomeOf
  <2> QED BY <1>7, <2>1, <2>2 DEF Receive, Queue!Begin
<1>8. ASSUME NEW w \in Workers, Exit(w) \/ CountIn(w) \/ Unlist(w)
      PROVE  UNCHANGED Queue!queueVars
  BY <1>1, <1>8 DEF Exit, CountIn, Unlist
<1>9. ASSUME NEW w \in Workers, Return(w) PROVE Queue!Finish(w)
  <2>1. holding[w] # None
    BY <1>0, <1>9 DEF Return, Places
  <2>2. oc' = [oc EXCEPT ![holding[w]] = "done"]
    BY <1>0, <1>9 DEF Return, TypeOK, OutcomeOf
  <2> QED BY <1>9, <2>1, <2>2 DEF Return, Queue!Finish
<1>10. CASE UNCHANGED vars
  BY <1>1, <1>10 DEF vars
<1> QED BY <1>2, <1>3, <1>4, <1>5, <1>6, <1>7, <1>8, <1>9, <1>10
  DEF Next, SubmitStep, WorkerStep, Queue!Next

(* The pool implements JobQueue.                                           *)
THEOREM Refinement == Spec => ImplementsQueue
BY InitRefines, StepRefines, Invariance, PTL DEF Spec, ImplementsQueue, Queue!Spec

(* No id is duplicated or forgotten, for any number of ids and workers and *)
(* any capacity: what JobQueue guarantees, carried over by the refinement. *)
QueueProofs == INSTANCE JobQueueProofs WITH
  waiting <- queue,
  serving <- holding,
  outcome <- [j \in Jobs |-> OutcomeOf(j)]

THEOREM ExactlyOnceHolds == Spec => []ExactlyOnce
<1>1. QueueProofs!Spec => []QueueProofs!ExactlyOnce
  <2>1. QueueProofs!PoolAssumption
    BY PoolAssumption DEF QueueProofs!PoolAssumption
  <2> QED BY <2>1, QueueProofs!ExactlyOnceHolds
<1>2. Queue!Init => QueueProofs!Init
  BY Zenon DEF Queue!Init, QueueProofs!Init
<1>3. [Queue!Next]_(Queue!queueVars) => [QueueProofs!Next]_(QueueProofs!queueVars)
  BY Zenon DEF Queue!Next, QueueProofs!Next, Queue!queueVars, QueueProofs!queueVars,
    Queue!Accept, QueueProofs!Accept, Queue!Refuse, QueueProofs!Refuse,
    Queue!Begin, QueueProofs!Begin, Queue!Finish, QueueProofs!Finish,
    Queue!Crash, QueueProofs!Crash
<1>4. QueueProofs!ExactlyOnce => ExactlyOnce
  BY Zenon DEF ExactlyOnce, Queue!ExactlyOnce, QueueProofs!ExactlyOnce,
    Queue!InChannel, QueueProofs!InChannel, Queue!Held, QueueProofs!Held
<1> QED BY <1>1, <1>2, <1>3, <1>4, Refinement, PTL
  DEF ImplementsQueue, Queue!Spec, QueueProofs!Spec

-----------------------------------------------------------------------------
(* No more than the channel and the goroutines hold is ever accepted and   *)
(* not handled, for any capacity and number of goroutines.                 *)
Room == Len(queue) <= Capacity

LEMMA RoomHolds == Spec => []Room
<1>1. Init => Room
  BY PoolAssumption DEF Init, Room
<1>2. IInv /\ Room /\ [Next]_vars => Room'
  <2> SUFFICES ASSUME IInv, Room, [Next]_vars PROVE Room'
    OBVIOUS
  <2>1. queue \in Seq(Jobs) /\ Len(queue) \in Nat /\ Capacity \in Nat
    BY PoolAssumption DEF IInv, TypeOK
  <2>2. ASSUME NEW j \in Jobs, Send(j) PROVE Room'
    BY <2>1, <2>2 DEF Send, Room
  <2>3. ASSUME NEW w \in Workers, Receive(w) PROVE Room'
    BY <2>1, <2>3 DEF Receive, Room
  <2>4. ASSUME queue' = queue PROVE Room'
    BY <2>4 DEF Room
  <2> QED BY <2>2, <2>3, <2>4 DEF Next, SubmitStep, WorkerStep, vars, Start, Stop,
             Refuse, List, Exit, CountIn, Unlist, Return
<1> QED BY <1>1, <1>2, Invariance, PTL DEF Spec

LEMMA QueueCardinality ==
  ASSUME NEW S
  PROVE  Queue!Cardinality(S) = Cardinality(S)
BY DEF Cardinality, Queue!Cardinality

THEOREM BacklogHolds == Spec => []Backlog
<1> DEFINE InQueue == {queue[i] : i \in 1..Len(queue)}
           InHands == {holding[w] : w \in Workers}
           Owed == {j \in Jobs : [k \in Jobs |-> OutcomeOf(k)][j] = "accepted"}
<1>1. IInv /\ ExactlyOnce /\ Room => Backlog
  <2> SUFFICES ASSUME IInv, ExactlyOnce, Room PROVE Backlog
    OBVIOUS
  <2>1. /\ queue \in Seq(Jobs) /\ Len(queue) \in Nat /\ Capacity \in Nat
        /\ IsFiniteSet(Workers)
    BY PoolAssumption, WorkersAssumption DEF IInv, TypeOK
  <2>2. IsFiniteSet(InQueue) /\ Cardinality(InQueue) <= Len(queue)
    <3>1. IsFiniteSet(1..Len(queue)) /\ Cardinality(1..Len(queue)) = Len(queue)
      BY <2>1, FS_Interval
    <3>2. /\ [i \in 1..Len(queue) |-> queue[i]] \in Surjection(1..Len(queue), InQueue)
      BY DEF Surjection
    <3> HIDE DEF InQueue
    <3> QED BY <3>1, <3>2, FS_Surjection
  <2>3. IsFiniteSet(InHands) /\ Cardinality(InHands) <= Cardinality(Workers)
    <3>1. [w \in Workers |-> holding[w]] \in Surjection(Workers, InHands)
      BY DEF Surjection
    <3> HIDE DEF InHands
    <3> QED BY <2>1, <3>1, FS_Surjection
  <2>4. Owed \subseteq InQueue \cup InHands
    BY DEF ExactlyOnce, Queue!ExactlyOnce, Queue!InChannel, Queue!Held
  <2> HIDE DEF InQueue, InHands, Owed
  <2>5. /\ IsFiniteSet(InQueue \cup InHands)
        /\ Cardinality(InQueue \cup InHands) <= Cardinality(InQueue) + Cardinality(InHands)
    <3>1. Cardinality(InQueue \cap InHands) \in Nat
      BY <2>2, FS_Intersection, FS_CardinalityType
    <3>2. /\ IsFiniteSet(InQueue \cup InHands)
          /\ Cardinality(InQueue \cup InHands)
               = Cardinality(InQueue) + Cardinality(InHands) - Cardinality(InQueue \cap InHands)
      BY <2>2, <2>3, FS_Union
    <3>3. Cardinality(InQueue) \in Nat /\ Cardinality(InHands) \in Nat
      BY <2>2, <2>3, FS_CardinalityType
    <3> HIDE DEF InQueue, InHands
    <3> QED BY <3>1, <3>2, <3>3
  <2>6. IsFiniteSet(Owed) /\ Cardinality(Owed) <= Cardinality(InQueue \cup InHands)
    BY <2>4, <2>5, FS_Subset
  <2>7. Cardinality(Owed) <= Capacity + Cardinality(Workers)
    BY <2>1, <2>2, <2>3, <2>5, <2>6, FS_CardinalityType DEF Room
  <2> QED BY <2>7, QueueCardinality DEF Backlog, Queue!Backlog, Owed
<1> QED BY <1>1, Invariance, ExactlyOnceHolds, RoomHolds, PTL

-----------------------------------------------------------------------------
(* The list beside the channel.                                            *)

(* Removing an element closes the gap it leaves, if it was there.          *)
LEMMA RemoveFirstPositions ==
  ASSUME NEW S, NEW s \in Seq(S), NEW e
  PROVE  \/ RemoveFirst(s, e) = s /\ \A i \in 1..Len(s) : s[i] # e
         \/ \E m \in 1..Len(s) :
              /\ s[m] = e
              /\ Len(RemoveFirst(s, e)) = Len(s) - 1
              /\ \A k \in 1..Len(s) - 1 :
                   RemoveFirst(s, e)[k] = IF k < m THEN s[k] ELSE s[k + 1]
<1> DEFINE I == {i \in 1..Len(s) : s[i] = e}
<1>1. CASE I = {}
  BY <1>1 DEF RemoveFirst
<1>2. CASE I # {}
  <2> DEFINE m == Min(I)
             before == SubSeq(s, 1, m - 1)
             after == SubSeq(s, m + 1, Len(s))
  <2>1. m \in I
    <3>1. I \in SUBSET Nat
      OBVIOUS
    <3> HIDE DEF I
    <3> QED BY <1>2, <3>1, MinIsMember
  <2>2. RemoveFirst(s, e) = before \o after
    BY <1>2, Zenon DEF RemoveFirst, SelectInSeq, RemoveAt
  <2>3. m \in 1..Len(s) /\ s[m] = e /\ Len(s) \in Nat
    BY <2>1
  <2> HIDE DEF m
  <2>4. /\ before \in Seq(S) /\ Len(before) = m - 1
        /\ \A k \in 1..m - 1 : before[k] = s[k]
    BY <2>3, SubSeqProperties
  <2>5. /\ after \in Seq(S) /\ Len(after) = Len(s) - m
        /\ \A k \in 1..Len(s) - m : after[k] = s[m + k]
    BY <2>3, SubSeqProperties
  <2> HIDE DEF before, after
  <2>6. /\ Len(before \o after) = Len(s) - 1
        /\ \A k \in 1..Len(s) - 1 :
             (before \o after)[k] = IF k < m THEN s[k] ELSE s[k + 1]
    <3>1. /\ Len(before \o after) = Len(before) + Len(after)
          /\ \A k \in 1..Len(before) + Len(after) :
               (before \o after)[k] = IF k <= Len(before) THEN before[k]
                                      ELSE after[k - Len(before)]
      <4>1. before \in Seq(S) /\ after \in Seq(S)
        BY <2>4, <2>5
      <4> QED BY <4>1, ConcatProperties
    <3>2. Len(before) + Len(after) = Len(s) - 1
      BY <2>3, <2>4, <2>5
    <3>3. ASSUME NEW k \in 1..Len(s) - 1
          PROVE  (before \o after)[k] = IF k < m THEN s[k] ELSE s[k + 1]
      <4>1. CASE k < m
        <5>1. k \in 1..m - 1 /\ k <= Len(before)
          BY <2>3, <2>4, <4>1
        <5> QED BY <2>4, <3>1, <3>2, <4>1, <5>1
      <4>2. CASE ~(k < m)
        <5>1. /\ k - (m - 1) \in 1..Len(s) - m /\ ~(k <= Len(before))
              /\ m + (k - (m - 1)) = k + 1
          BY <2>3, <2>4, <4>2
        <5>2. (before \o after)[k] = after[k - (m - 1)]
          BY <2>4, <3>1, <3>2, <5>1
        <5> QED BY <2>5, <4>2, <5>1, <5>2
      <4> QED BY <4>1, <4>2
    <3> QED BY <3>1, <3>2, <3>3
  <2> QED BY <2>2, <2>3, <2>6
<1> QED BY <1>1, <1>2

(* Nothing else leaves the list, and no id comes to be in it twice.        *)
LEMMA RemoveFirstKeeps ==
  ASSUME NEW S, NEW s \in Seq(S), NEW e
  PROVE  /\ \A i \in 1..Len(s) : s[i] # e =>
              \E k \in 1..Len(RemoveFirst(s, e)) : RemoveFirst(s, e)[k] = s[i]
         /\ \A k \in 1..Len(RemoveFirst(s, e)) :
              \E i \in 1..Len(s) : RemoveFirst(s, e)[k] = s[i]
         /\ (\A i, k \in 1..Len(s) : s[i] = s[k] => i = k) =>
              \A i, k \in 1..Len(RemoveFirst(s, e)) :
                RemoveFirst(s, e)[i] = RemoveFirst(s, e)[k] => i = k
<1>1. CASE RemoveFirst(s, e) = s
  BY <1>1
<1>2. ASSUME NEW m \in 1..Len(s), s[m] = e,
             Len(RemoveFirst(s, e)) = Len(s) - 1,
             \A k \in 1..Len(s) - 1 :
               RemoveFirst(s, e)[k] = IF k < m THEN s[k] ELSE s[k + 1]
      PROVE  /\ \A i \in 1..Len(s) : s[i] # e =>
                  \E k \in 1..Len(RemoveFirst(s, e)) : RemoveFirst(s, e)[k] = s[i]
             /\ \A k \in 1..Len(RemoveFirst(s, e)) :
                  \E i \in 1..Len(s) : RemoveFirst(s, e)[k] = s[i]
             /\ (\A i, k \in 1..Len(s) : s[i] = s[k] => i = k) =>
                  \A i, k \in 1..Len(RemoveFirst(s, e)) :
                    RemoveFirst(s, e)[i] = RemoveFirst(s, e)[k] => i = k
  <2> DEFINE r == RemoveFirst(s, e)
  <2>0. Len(s) \in Nat /\ m \in Nat
    OBVIOUS
  <2>1. Len(r) = Len(s) - 1 /\ \A k \in 1..Len(r) : r[k] = IF k < m THEN s[k] ELSE s[k + 1]
    BY <1>2
  <2> HIDE DEF r
  <2>2. ASSUME NEW i \in 1..Len(s), s[i] # e
        PROVE  \E k \in 1..Len(r) : r[k] = s[i]
    <3>1. CASE i < m
      BY <2>0, <2>1, <3>1
    <3>2. CASE i > m
      <4>1. i - 1 \in 1..Len(r) /\ ~(i - 1 < m) /\ i - 1 + 1 = i
        BY <2>0, <2>1, <3>2
      <4> QED BY <2>1, <4>1
    <3> QED BY <1>2, <2>0, <2>2, <3>1, <3>2
  <2>3. ASSUME NEW k \in 1..Len(r)
        PROVE  \E i \in 1..Len(s) : r[k] = s[i]
    <3>1. k \in 1..Len(s) /\ k + 1 \in 1..Len(s)
      BY <2>0, <2>1
    <3> QED BY <2>1, <3>1
  <2>4. ASSUME \A i, k \in 1..Len(s) : s[i] = s[k] => i = k,
               NEW i \in 1..Len(r), NEW k \in 1..Len(r), r[i] = r[k]
        PROVE  i = k
    <3>1. /\ i \in 1..Len(s) /\ k \in 1..Len(s)
          /\ i + 1 \in 1..Len(s) /\ k + 1 \in 1..Len(s)
      BY <2>0, <2>1
    <3> QED BY <2>0, <2>1, <2>4, <3>1
  <2> QED BY <2>2, <2>3, <2>4 DEF r
<1> QED BY <1>1, <1>2, RemoveFirstPositions

(* A listed id is one whose Submit has come to its end, so List never      *)
(* lists one that is there.                                                *)
Listed == \A i \in 1..Len(queued) : submit[queued[i]] = "accepted"

ListInv ==
  /\ Listed
  /\ \A i \in 1..Len(queue) :
       submit[queue[i]] = "sent" \/ \E k \in 1..Len(queued) : queued[k] = queue[i]
  /\ \A i, k \in 1..Len(queued) : queued[i] = queued[k] => i = k

LEMMA ListKept ==
  ASSUME ListInv, queue' = queue, queued' = queued, submit' = submit
  PROVE  ListInv'
BY DEF ListInv, Listed

LEMMA StepListInv == IInv /\ ExactlyOnce /\ ListInv /\ [Next]_vars => ListInv'
<1> SUFFICES ASSUME IInv, ExactlyOnce, ListInv, [Next]_vars PROVE ListInv'
  OBVIOUS
<1>0. /\ queue \in Seq(Jobs) /\ queued \in Seq(Jobs) /\ submit \in [Jobs -> SubmitStates]
      /\ Len(queue) \in Nat /\ Len(queued) \in Nat
      /\ \A i \in 1..Len(queue) : queue[i] \in Jobs
      /\ \A i \in 1..Len(queued) : queued[i] \in Jobs
  BY DEF IInv, TypeOK
<1>1. ASSUME NEW j \in Jobs, Send(j) PROVE ListInv'
  <2>1. /\ Len(queue') = Len(queue) + 1 /\ queued' = queued
        /\ \A i \in 1..Len(queue') :
             \/ i \in 1..Len(queue) /\ queue'[i] = queue[i]
             \/ queue'[i] = j
        /\ \A k \in Jobs : submit'[k] = IF k = j THEN "sent" ELSE submit[k]
        /\ submit[j] = "new"
    BY <1>0, <1>1 DEF Send
  <2>2. Listed'
    BY <1>0, <2>1 DEF ListInv, Listed
  <2>3. ASSUME NEW i \in 1..Len(queue')
        PROVE  submit'[queue'[i]] = "sent" \/ \E k \in 1..Len(queued') : queued'[k] = queue'[i]
    BY <1>0, <2>1 DEF ListInv
  <2> QED BY <2>1, <2>2, <2>3 DEF ListInv
<1>2. ASSUME NEW j \in Jobs, Refuse(j) PROVE ListInv'
  <2>1. /\ queue' = queue /\ queued' = queued /\ submit[j] = "new"
        /\ \A k \in Jobs : submit'[k] = IF k = j THEN "refused" ELSE submit[k]
    BY <1>0, <1>2 DEF Refuse
  <2> QED BY <1>0, <2>1 DEF ListInv, Listed
<1>3. ASSUME NEW j \in Jobs, List(j) PROVE ListInv'
  <2>1. /\ queue' = queue /\ submit[j] = "sent"
        /\ Len(queued') = Len(queued) + 1 /\ queued'[Len(queued) + 1] = j
        /\ \A i \in 1..Len(queued) : i \in 1..Len(queued') /\ queued'[i] = queued[i]
        /\ \A i \in 1..Len(queued') : i = Len(queued) + 1 \/ i \in 1..Len(queued)
        /\ \A k \in Jobs : submit'[k] = IF k = j THEN "accepted" ELSE submit[k]
    BY <1>0, <1>3 DEF List
  <2>2. Listed'
    BY <1>0, <2>1 DEF ListInv, Listed
  <2>3. ASSUME NEW i \in 1..Len(queue)
        PROVE  submit'[queue[i]] = "sent" \/ \E k \in 1..Len(queued') : queued'[k] = queue[i]
    <3>1. CASE queue[i] = j
      <4>1. Len(queued) + 1 \in 1..Len(queued')
        BY <1>0, <2>1
      <4> QED BY <2>1, <3>1, <4>1
    <3>2. CASE queue[i] # j
      BY <1>0, <2>1, <3>2 DEF ListInv
    <3> QED BY <3>1, <3>2
  <2>4. \A i \in 1..Len(queued) : queued[i] # j
    BY <2>1 DEF ListInv, Listed
  <2>5. \A i, k \in 1..Len(queued') : queued'[i] = queued'[k] => i = k
    BY <2>1, <2>4 DEF ListInv
  <2> QED BY <2>1, <2>2, <2>3, <2>5 DEF ListInv
<1>4. ASSUME NEW w \in Workers, Receive(w) PROVE ListInv'
  <2>1. /\ queued' = queued /\ submit' = submit
        /\ \A i \in 1..Len(queue') : i + 1 \in 1..Len(queue) /\ queue'[i] = queue[i + 1]
    BY <1>0, <1>4 DEF Receive
  <2> QED BY <2>1 DEF ListInv, Listed
<1>5. ASSUME NEW w \in Workers, Unlist(w) PROVE ListInv'
  <2> DEFINE e == holding[w]
             r == RemoveFirst(queued, e)
  <2>1. /\ queue' = queue /\ submit' = submit /\ queued' = r
        /\ pc[w] = "counted"
    BY <1>5 DEF Unlist
  <2>2. e \in Jobs
    BY <2>1 DEF IInv, TypeOK, Places
  <2>3. \A i \in 1..Len(queue) : queue[i] # e
    BY <2>2 DEF ExactlyOnce, Queue!ExactlyOnce, Queue!InChannel, Queue!Held
  <2>4. /\ \A i \in 1..Len(queued) : queued[i] # e => \E k \in 1..Len(r) : r[k] = queued[i]
        /\ \A k \in 1..Len(r) : \E i \in 1..Len(queued) : r[k] = queued[i]
        /\ (\A i, k \in 1..Len(queued) : queued[i] = queued[k] => i = k) =>
             \A i, k \in 1..Len(r) : r[i] = r[k] => i = k
    BY <1>0, RemoveFirstKeeps
  <2> HIDE DEF e, r
  <2>5. Listed'
    BY <2>1, <2>4 DEF ListInv, Listed
  <2>6. ASSUME NEW i \in 1..Len(queue)
        PROVE  submit[queue[i]] = "sent" \/ \E k \in 1..Len(r) : r[k] = queue[i]
    BY <2>3, <2>4 DEF ListInv
  <2>7. \A i, k \in 1..Len(r) : r[i] = r[k] => i = k
    BY <2>4 DEF ListInv
  <2> QED BY <2>1, <2>5, <2>6, <2>7 DEF ListInv
<1> QED
  BY <1>1, <1>2, <1>3, <1>4, <1>5, ListKept
  DEF Next, SubmitStep, WorkerStep, vars, Start, Stop, Exit, CountIn, Return

THEOREM ListCoversQueueHolds == Spec => []ListCoversQueue
<1>1. Init => ListInv
  BY DEF Init, ListInv, Listed
<1>2. IInv /\ ListInv => ListCoversQueue
  <2> SUFFICES ASSUME IInv, ListInv PROVE ListCoversQueue
    OBVIOUS
  <2>1. DOMAIN queued = 1..Len(queued)
    BY DEF IInv, TypeOK
  <2> QED BY <2>1 DEF ListInv, ListCoversQueue, ToSet
<1> QED BY <1>1, <1>2, StepListInv, Invariance, ExactlyOnceHolds, PTL DEF Spec
=============================================================================
