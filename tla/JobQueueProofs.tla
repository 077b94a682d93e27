--------------------------- MODULE JobQueueProofs ---------------------------
(* Proofs about JobQueue, for any set of jobs and workers and any          *)
(* capacity.                                                               *)
EXTENDS JobQueue, SequenceTheorems, TLAPS

(* The variables always have their types.                                  *)
THEOREM TypeCorrect == Spec => []TypeOK
<1>1. Init => TypeOK
  BY DEF Init, TypeOK, Outcomes
<1>2. TypeOK /\ [Next]_queueVars => TypeOK'
  <2> SUFFICES ASSUME TypeOK, [Next]_queueVars PROVE TypeOK'
    OBVIOUS
  <2> USE DEF TypeOK, Outcomes
  <2>1. ASSUME NEW j \in Jobs, Accept(j) PROVE TypeOK'
    BY <2>1 DEF Accept
  <2>2. ASSUME NEW j \in Jobs, Refuse(j) PROVE TypeOK'
    BY <2>2 DEF Refuse
  <2>3. ASSUME NEW w \in Workers, Begin(w) PROVE TypeOK'
    BY <2>3 DEF Begin
  <2>4. ASSUME NEW w \in Workers, Finish(w) PROVE TypeOK'
    BY <2>4 DEF Finish
  <2>5. CASE Crash
    BY <2>5 DEF Crash
  <2>6. CASE UNCHANGED queueVars
    BY <2>6 DEF queueVars
  <2> QED BY <2>1, <2>2, <2>3, <2>4, <2>5, <2>6 DEF Next
<1> QED BY <1>1, <1>2, PTL DEF Spec

(* Where a received id was, and what is left of the channel.               *)
LEMMA TailPositions ==
  ASSUME TypeOK, waiting # <<>>
  PROVE  /\ Head(waiting) = waiting[1] /\ Head(waiting) \in Jobs
         /\ 1 \in 1..Len(waiting)
         /\ Len(Tail(waiting)) = Len(waiting) - 1
         /\ \A i \in 1..Len(Tail(waiting)) :
              i + 1 \in 1..Len(waiting) /\ Tail(waiting)[i] = waiting[i + 1]
BY DEF TypeOK

(* Every accepted id is in one place, and leaves it only by being handled. *)
THEOREM ExactlyOnceHolds == Spec => []ExactlyOnce
<1>1. Init => ExactlyOnce
  BY PoolAssumption DEF Init, ExactlyOnce, InChannel, Held
<1>2. TypeOK /\ ExactlyOnce /\ [Next]_queueVars => ExactlyOnce'
  <2> SUFFICES ASSUME TypeOK, ExactlyOnce, [Next]_queueVars PROVE ExactlyOnce'
    OBVIOUS
  <2> USE PoolAssumption
  <2>1. ASSUME NEW j \in Jobs, Accept(j) PROVE ExactlyOnce'
    <3>1. ~InChannel(j) /\ ~Held(j)
      BY <2>1 DEF Accept, ExactlyOnce
    <3>2. /\ Len(waiting') = Len(waiting) + 1
          /\ waiting'[Len(waiting) + 1] = j
          /\ \A i \in 1..Len(waiting) : waiting'[i] = waiting[i]
      BY <2>1 DEF Accept, TypeOK
    <3>3. Len(waiting) \in Nat
      BY DEF TypeOK
    <3>4. \A k \in Jobs : InChannel(k)' <=> InChannel(k) \/ k = j
      BY <3>2, <3>3 DEF InChannel
    <3>5. \A k \in Jobs : Held(k)' <=> Held(k)
      BY <2>1 DEF Accept, Held
    <3>6. \A i, k \in 1..Len(waiting') : waiting'[i] = waiting'[k] => i = k
      BY <3>1, <3>2, <3>3 DEF ExactlyOnce, InChannel
    <3>7. \A k \in Jobs : outcome'[k] = "accepted" <=> outcome[k] = "accepted" \/ k = j
      BY <2>1 DEF Accept, TypeOK
    <3> QED BY <2>1, <3>1, <3>4, <3>5, <3>6, <3>7 DEF Accept, ExactlyOnce
  <2>2. ASSUME NEW j \in Jobs, Refuse(j) PROVE ExactlyOnce'
    BY <2>2 DEF Refuse, ExactlyOnce, InChannel, Held, TypeOK
  <2>3. ASSUME NEW w \in Workers, Begin(w) PROVE ExactlyOnce'
    <3> DEFINE h == Head(waiting)
    <3>1. waiting # <<>> /\ waiting' = Tail(waiting) /\ serving[w] = None
          /\ serving' = [serving EXCEPT ![w] = h] /\ outcome' = outcome
      BY <2>3 DEF Begin
    <3>2. /\ h = waiting[1] /\ h \in Jobs /\ 1 \in 1..Len(waiting)
          /\ Len(waiting') = Len(waiting) - 1
          /\ \A i \in 1..Len(waiting') :
               i + 1 \in 1..Len(waiting) /\ waiting'[i] = waiting[i + 1]
      BY <3>1, TailPositions
    <3>3. Len(waiting) \in Nat
      BY DEF TypeOK
    <3>4. InChannel(h) /\ ~Held(h)
      BY <3>2 DEF InChannel, ExactlyOnce
    <3>5. \A i, k \in 1..Len(waiting') : waiting'[i] = waiting'[k] => i = k
      BY <3>2, <3>3 DEF ExactlyOnce
    <3>6. \A j \in Jobs : InChannel(j)' <=> InChannel(j) /\ j # h
      <4> TAKE j \in Jobs
      <4>1. ASSUME InChannel(j)' PROVE InChannel(j) /\ j # h
        BY <4>1, <3>2, <3>3 DEF InChannel, ExactlyOnce
      <4>2. ASSUME InChannel(j), j # h PROVE InChannel(j)'
        <5>1. PICK i \in 1..Len(waiting) : waiting[i] = j
          BY <4>2 DEF InChannel
        <5>2. i - 1 \in 1..Len(waiting') /\ waiting'[i - 1] = j
          BY <5>1, <4>2, <3>2, <3>3
        <5> QED BY <5>2 DEF InChannel
      <4> QED BY <4>1, <4>2
    <3>7. \A v \in Workers : serving'[v] = IF v = w THEN h ELSE serving[v]
      BY <3>1 DEF TypeOK
    <3>8. \A j \in Jobs : Held(j)' <=> Held(j) \/ j = h
      BY <3>1, <3>7 DEF Held
    <3>9. \A u, v \in Workers :
            serving'[u] = serving'[v] /\ serving'[u] # None => u = v
      BY <3>4, <3>7, <3>2 DEF ExactlyOnce, Held
    <3> QED BY <3>1, <3>4, <3>5, <3>6, <3>8, <3>9 DEF ExactlyOnce
  <2>4. ASSUME NEW w \in Workers, Finish(w) PROVE ExactlyOnce'
    <3> DEFINE d == serving[w]
    <3>1. /\ d # None /\ d \in Jobs /\ waiting' = waiting
          /\ \A v \in Workers : serving'[v] = IF v = w THEN None ELSE serving[v]
          /\ \A j \in Jobs : outcome'[j] = IF j = d THEN "done" ELSE outcome[j]
      BY <2>4 DEF Finish, TypeOK
    <3>2. \A j \in Jobs : Held(j)' <=> Held(j) /\ j # d
      BY <3>1 DEF Held, ExactlyOnce
    <3>3. \A j \in Jobs : InChannel(j)' <=> InChannel(j)
      BY <3>1 DEF InChannel
    <3>4. Held(d) /\ ~InChannel(d)
      BY <3>1 DEF Held, ExactlyOnce
    <3>5. \A u, v \in Workers :
            serving'[u] = serving'[v] /\ serving'[u] # None => u = v
      BY <3>1 DEF ExactlyOnce
    <3> QED BY <3>1, <3>2, <3>3, <3>4, <3>5 DEF ExactlyOnce
  <2>5. CASE Crash
    <3>1. \A j \in Jobs : ~InChannel(j)' /\ ~Held(j)' /\ outcome'[j] # "accepted"
      BY <2>5 DEF Crash, InChannel, Held, TypeOK
    <3>2. /\ \A i, k \in 1..Len(waiting') : waiting'[i] = waiting'[k] => i = k
          /\ \A w \in Workers : serving'[w] = None
      BY <2>5 DEF Crash
    <3> QED BY <3>1, <3>2 DEF ExactlyOnce
  <2>6. CASE UNCHANGED queueVars
    BY <2>6 DEF queueVars, ExactlyOnce, InChannel, Held
  <2> QED BY <2>1, <2>2, <2>3, <2>4, <2>5, <2>6 DEF Next
<1> QED BY <1>1, <1>2, TypeCorrect, PTL DEF Spec
=============================================================================
