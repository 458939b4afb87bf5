-------------------------- MODULE TaskQueue_proofs --------------------------
(***************************************************************************)
(* Proofs about the task queue, for any number of sniffers, processors,    *)
(* addresses and frames.                                                   *)
(***************************************************************************)
EXTENDS TaskQueue, SequenceTheorems, TLAPS

(* What get_task_from_queue does to the sequence of linked tasks. *)
LEMMA TailFacts ==
    ASSUME NEW S, NEW q \in Seq(S), q # <<>>
    PROVE  /\ Tail(q) \in Seq(S)
           /\ Len(q) \in Nat \ {0}
           /\ Len(Tail(q)) = Len(q) - 1
           /\ \A i \in 1..(Len(q) - 1) : Tail(q)[i] = q[i + 1]
           /\ Len(q) = 1 <=> Tail(q) = <<>>
  <1>1. /\ Tail(q) \in Seq(S)
        /\ Len(Tail(q)) = Len(q) - 1
        /\ \A i \in 1..Len(Tail(q)) : Tail(q)[i] = q[i + 1]
    BY HeadTailProperties
  <1>2. Len(q) \in Nat \ {0}
    BY EmptySeq
  <1>3. Len(Tail(q)) = 0 <=> Tail(q) = <<>>
    BY <1>1, EmptySeq
  <1> QED
    BY <1>1, <1>2, <1>3

(* The queue starts empty, with nobody inside it. *)
LEMMA InitInv == Init => IInv
  <1> SUFFICES ASSUME Init PROVE IInv
    OBVIOUS
  <1>1. fifo \in Seq(Nodes) /\ Len(fifo) = 0
    BY EmptySeq DEF Init
  <1>2. TypeOK
    BY <1>1 DEF Init, TypeOK, Threads, SnifferPC, ProcessorPC
  <1>3. PhaseOK
    BY ThreadsAssumption DEF Init, PhaseOK, Threads, SnifferPC, ProcessorPC
  <1>4. MutexHeld
    BY MutexAssumption DEF Init, MutexHeld, Threads, Critical
  <1>5. ListIsFifo /\ CountMatchesList
    BY <1>1 DEF Init, ListIsFifo, CountMatchesList
  <1>6. OneOwner
    BY <1>1 DEF Init, OneOwner, Owns, Linked
  <1>7. NoLostWakeup /\ TaskHasFrame
    BY DEF Init, NoLostWakeup, TaskHasFrame
  <1> QED
    BY <1>2, <1>3, <1>4, <1>5, <1>6, <1>7 DEF IInv

(* Every step of add_task_to_queue preserves the invariant. *)
LEMMA SnifferInv ==
    ASSUME IInv, NEW s \in Sniffers, add_task_to_queue(s)
    PROVE  IInv'
  <1> USE DEF IInv
  <1>0. s \in Threads /\ s \notin Processors /\ s # NoThread
    BY ThreadsAssumption, MutexAssumption DEF Threads
  <1>1. ASSUME NEW f \in Frames, AddAlloc(s, f) PROVE IInv'
    <2> PICK n \in Nodes \ heap, garbage \in Nodes \cup {NULL} :
              /\ heap' = heap \cup {n}
              /\ data' = [data EXCEPT ![n] = f]
              /\ next' = [next EXCEPT ![n] = garbage]
              /\ task' = [task EXCEPT ![s] = n]
      BY <1>1 DEF AddAlloc
    <2> USE <1>1 DEF AddAlloc, Goto, guarded
    <2>1. TypeOK'
      BY <1>0 DEF TypeOK, SnifferPC
    <2>2. PhaseOK'
      BY <1>0, <2>1 DEF TypeOK, PhaseOK, SnifferPC, Threads
    <2>3. MutexHeld'
      BY <1>0 DEF TypeOK, MutexHeld, Critical
    <2>4. Linked' = Linked /\ n \notin Linked
      BY DEF Linked, OneOwner
    <2>5. ListIsFifo'
      <3>1. \A i \in 1..Len(fifo) : fifo[i] # n /\ fifo[i] \in Nodes
        BY <2>4 DEF Linked, TypeOK
      <3>2. fifo # <<>> => Len(fifo) \in 1..Len(fifo)
        BY EmptySeq DEF TypeOK
      <3>3. \A m \in Nodes : m # n => next'[m] = next[m]
        BY DEF TypeOK
      <3>4. \A i \in 1..Len(fifo) : i < Len(fifo) => next'[fifo[i]] = fifo[i + 1]
        BY <3>1, <3>3 DEF ListIsFifo
      <3>5. fifo # <<>> => next'[last_task] = NULL
        BY <3>1, <3>2, <3>3 DEF ListIsFifo
      <3> QED
        BY <3>4, <3>5 DEF ListIsFifo
    <2>6. CountMatchesList'
      BY <1>0 DEF TypeOK, CountMatchesList
    <2>7. OneOwner'
      BY <1>0, <2>4 DEF TypeOK, OneOwner, Owns
    <2>8. NoLostWakeup' /\ TaskHasFrame'
      BY <1>0 DEF NoLostWakeup, TaskHasFrame, TypeOK, Threads
    <2> QED
      BY <2>1, <2>2, <2>3, <2>5, <2>6, <2>7, <2>8
  <1>2. CASE AddLock(s)
    <2> USE <1>2 DEF AddLock, Goto, Lock, guarded
    <2>1. TypeOK' /\ Linked' = Linked
      BY <1>0 DEF TypeOK, SnifferPC, Linked
    <2>2. PhaseOK'
      BY <1>0, <2>1 DEF TypeOK, PhaseOK, SnifferPC, Threads
    <2>3. MutexHeld'
      BY <1>0, MutexAssumption DEF TypeOK, MutexHeld, Critical, Threads
    <2>4. ListIsFifo' /\ CountMatchesList' /\ NoLostWakeup' /\ TaskHasFrame'
      BY <1>0 DEF TypeOK, CountMatchesList, ListIsFifo, NoLostWakeup,
                  TaskHasFrame
    <2>5. OneOwner'
      BY <1>0, <2>1 DEF TypeOK, OneOwner, Owns
    <2> QED
      BY <2>1, <2>2, <2>3, <2>4, <2>5
  <1>3. CASE AddLink(s)
    <2> DEFINE n == task[s]
    <2> USE <1>3 DEF AddLink, Goto
    <2>0. n \in heap \ Linked /\ n \in Nodes
      BY <1>0 DEF OneOwner, Owns, TypeOK
    <2>1. /\ fifo' = Append(fifo, n)
          /\ fifo' \in Seq(Nodes) /\ fifo' # <<>>
          /\ Len(fifo) \in Nat
          /\ Len(fifo') = Len(fifo) + 1
          /\ \A i \in 1..Len(fifo) : fifo'[i] = fifo[i]
          /\ fifo'[Len(fifo) + 1] = n
      BY <2>0, AppendProperties DEF TypeOK
    <2>2. TypeOK'
      BY <1>0, <2>0, <2>1 DEF TypeOK, SnifferPC
    <2>3. PhaseOK'
      <3>1. \A p \in Processors : pc[p] # "get_advance"
        BY <1>0 DEF MutexHeld, Critical, Threads
      <3> QED
        BY <1>0, <2>2, <3>1 DEF TypeOK, PhaseOK, SnifferPC, Threads
    <2>4. MutexHeld'
      BY <1>0, MutexAssumption DEF TypeOK, MutexHeld, Critical, Threads
    <2>5. \A i \in 1..Len(fifo) : fifo[i] # n /\ fifo[i] \in Nodes
      BY <2>0 DEF Linked, TypeOK
    <2>6. fifo = <<>> <=> Len(fifo) = 0
      BY EmptySeq DEF TypeOK
    <2>7. ListIsFifo'
      <3>1. CASE fifo = <<>>
        BY <2>0, <2>1, <2>6, <3>1 DEF ListIsFifo, TypeOK
      <3>2. CASE fifo # <<>>
        <4>1. /\ first_task # NULL
              /\ Len(fifo) \in 1..Len(fifo)
              /\ last_task = fifo[Len(fifo)] /\ last_task \in Nodes
              /\ last_task # n
          BY <2>1, <2>5, <2>6, <3>2, NullAssumption DEF ListIsFifo, TypeOK
        <4>2. next' = [next EXCEPT ![last_task] = n, ![n] = NULL]
          BY <4>1
        <4>3. /\ next'[n] = NULL /\ next'[last_task] = n
              /\ \A m \in Nodes : m # n /\ m # last_task => next'[m] = next[m]
          BY <2>0, <4>1, <4>2 DEF TypeOK
        <4>4. \A i, j \in 1..Len(fifo) : fifo[i] = fifo[j] => i = j
          BY DEF ListIsFifo
        <4>5. \A i \in 1..Len(fifo') :
                 i < Len(fifo') => next'[fifo'[i]] = fifo'[i + 1]
          <5> SUFFICES ASSUME NEW i \in 1..Len(fifo)
                       PROVE  next'[fifo[i]] = fifo'[i + 1]
            <6>1. \A i \in 1..Len(fifo') : i < Len(fifo') => i \in 1..Len(fifo)
              BY <2>1
            <6> QED
              BY <2>1, <6>1
          <5>1. CASE i = Len(fifo)
            BY <2>1, <4>1, <4>3, <5>1
          <5>2. CASE i # Len(fifo)
            <6>1. fifo[i] # last_task /\ i + 1 \in 1..Len(fifo) /\ i < Len(fifo)
              BY <2>1, <4>1, <4>4, <5>2
            <6> QED
              BY <2>1, <2>5, <4>3, <6>1 DEF ListIsFifo
          <5> QED
            BY <5>1, <5>2
        <4>6. \A i, j \in 1..Len(fifo') : fifo'[i] = fifo'[j] => i = j
          BY <2>1, <2>5, <4>4
        <4>7. first_task' = fifo'[1] /\ last_task' = fifo'[Len(fifo')]
          BY <2>1, <3>2, <4>1 DEF ListIsFifo
        <4> QED
          BY <2>1, <4>3, <4>5, <4>6, <4>7 DEF ListIsFifo
      <3> QED
        BY <3>1, <3>2
    <2>8. CountMatchesList'
      <3>1. \A t \in Threads : pc[t] = "add_count" => t = s
        BY <1>0 DEF MutexHeld, Critical
      <3>2. ~(\E t \in Threads : pc[t] = "add_count") /\ pc'[s] = "add_count"
        BY <1>0, <3>1 DEF TypeOK
      <3> QED
        BY <1>0, <2>1, <3>2 DEF CountMatchesList, TypeOK
    <2>9. OneOwner'
      <3>1. Linked' = Linked \cup {n}
        BY <2>1 DEF Linked
      <3> QED
        BY <1>0, <2>0, <3>1 DEF TypeOK, OneOwner, Owns
    <2>10. NoLostWakeup' /\ TaskHasFrame'
      BY <1>0 DEF NoLostWakeup, TaskHasFrame, TypeOK, Threads
    <2> QED
      BY <2>2, <2>3, <2>4, <2>7, <2>8, <2>9, <2>10
  <1>4. CASE AddCount(s)
    <2> USE <1>4 DEF AddCount, Goto
    <2>1. TypeOK' /\ Linked' = Linked
      BY <1>0 DEF TypeOK, SnifferPC, Linked
    <2>2. PhaseOK'
      <3>1. \A p \in Processors : pc[p] # "get_wait"
        BY <1>0 DEF MutexHeld, Critical, Threads
      <3> QED
        BY <1>0, <2>1, <3>1 DEF TypeOK, PhaseOK, SnifferPC, Threads
    <2>3. MutexHeld'
      BY <1>0, MutexAssumption DEF TypeOK, MutexHeld, Critical, Threads
    <2>4. ListIsFifo' /\ NoLostWakeup' /\ TaskHasFrame'
      BY <1>0 DEF TypeOK, ListIsFifo, NoLostWakeup, TaskHasFrame, Threads
    <2>5. CountMatchesList'
      <3>1. \A t \in Threads : pc[t] = "add_count" => t = s
        BY <1>0 DEF MutexHeld, Critical
      <3>2. pc[s] = "add_count" /\ ~\E t \in Threads : pc'[t] = "add_count"
        BY <1>0, <3>1 DEF TypeOK
      <3> QED
        BY <1>0, <3>2, EmptySeq DEF CountMatchesList, TypeOK
    <2>6. OneOwner'
      BY <1>0, <2>1 DEF TypeOK, OneOwner, Owns
    <2> QED
      BY <2>1, <2>2, <2>3, <2>4, <2>5, <2>6
  <1>6. CASE AddBroadcast(s)
    <2> USE <1>6 DEF AddBroadcast, Goto, guarded
    <2>1. TypeOK' /\ Linked' = Linked
      BY <1>0 DEF TypeOK, SnifferPC, Linked
    <2>2. PhaseOK'
      BY <1>0, <2>1 DEF TypeOK, PhaseOK, SnifferPC, Threads
    <2>3. MutexHeld'
      BY <1>0, MutexAssumption DEF TypeOK, MutexHeld, Critical, Threads
    <2>4. ListIsFifo' /\ CountMatchesList' /\ NoLostWakeup' /\ TaskHasFrame'
      BY <1>0 DEF TypeOK, CountMatchesList, ListIsFifo, NoLostWakeup,
                  TaskHasFrame
    <2>5. OneOwner'
      BY <1>0, <2>1 DEF TypeOK, OneOwner, Owns
    <2> QED
      BY <2>1, <2>2, <2>3, <2>4, <2>5
  <1>5. CASE AddUnlock(s)
    <2> USE <1>5 DEF AddUnlock, Goto, Unlock, guarded
    <2>1. TypeOK' /\ Linked' = Linked
      BY <1>0 DEF TypeOK, SnifferPC, Linked
    <2>2. PhaseOK'
      BY <1>0, <2>1 DEF TypeOK, PhaseOK, SnifferPC, Threads
    <2>3. MutexHeld'
      BY <1>0, MutexAssumption DEF TypeOK, MutexHeld, Critical, Threads
    <2>4. ListIsFifo' /\ CountMatchesList' /\ NoLostWakeup' /\ TaskHasFrame'
      BY <1>0 DEF TypeOK, CountMatchesList, ListIsFifo, NoLostWakeup,
                  TaskHasFrame
    <2>5. OneOwner'
      BY <1>0, <2>1 DEF TypeOK, OneOwner, Owns
    <2> QED
      BY <2>1, <2>2, <2>3, <2>4, <2>5
  <1> QED
    BY <1>1, <1>2, <1>3, <1>4, <1>5, <1>6 DEF add_task_to_queue

(* Every step of get_task_from_queue, and a wakeup nobody asked for,       *)
(* preserves the invariant.                                                *)
LEMMA ProcessorInv ==
    ASSUME IInv, NEW p \in Processors,
           get_task_from_queue(p) \/ SpuriousWake(p) \/ Process(p)
    PROVE  IInv'
  <1> USE DEF IInv
  <1>0. p \in Threads /\ p \notin Sniffers /\ p # NoThread
    BY ThreadsAssumption, MutexAssumption DEF Threads
  <1>1. CASE GetLock(p)
    <2> USE <1>1 DEF GetLock, Goto, Lock, guarded
    <2>1. TypeOK' /\ Linked' = Linked
      BY <1>0 DEF TypeOK, ProcessorPC, Linked
    <2>2. PhaseOK'
      BY <1>0, <2>1 DEF TypeOK, PhaseOK, ProcessorPC, Threads
    <2>3. MutexHeld'
      BY <1>0, MutexAssumption DEF TypeOK, MutexHeld, Critical, Threads
    <2>4. ListIsFifo' /\ CountMatchesList' /\ NoLostWakeup' /\ TaskHasFrame'
      BY <1>0 DEF TypeOK, CountMatchesList, ListIsFifo, NoLostWakeup,
                  TaskHasFrame
    <2>5. OneOwner'
      BY <1>0, <2>1 DEF TypeOK, OneOwner, Owns
    <2> QED
      BY <2>1, <2>2, <2>3, <2>4, <2>5
  <1>2. CASE GetTest(p)
    <2> USE <1>2 DEF GetTest, Goto, guarded
    <2>1. TypeOK' /\ Linked' = Linked
      BY <1>0 DEF TypeOK, ProcessorPC, Linked
    <2>2. PhaseOK'
      BY <1>0, <2>1 DEF TypeOK, PhaseOK, ProcessorPC, Threads
    <2>3. MutexHeld'
      BY <1>0, MutexAssumption DEF TypeOK, MutexHeld, Critical, Threads
    <2>4. ListIsFifo' /\ CountMatchesList' /\ NoLostWakeup' /\ TaskHasFrame'
      <3>1. \A t \in Threads : t # p => pc'[t] = pc[t]
        BY <1>0 DEF TypeOK
      <3>2. pc[p] = "get_test" /\ pc'[p] \in {"get_wait", "get_take"}
        BY <1>0 DEF TypeOK
      <3>3. CountMatchesList'
        BY <3>1, <3>2 DEF CountMatchesList
      <3>4. NoLostWakeup'
        BY <1>0, <3>1 DEF NoLostWakeup, Threads
      <3> QED
        BY <3>3, <3>4 DEF ListIsFifo, TaskHasFrame
    <2>5. OneOwner'
      BY <1>0, <2>1 DEF TypeOK, OneOwner, Owns
    <2> QED
      BY <2>1, <2>2, <2>3, <2>4, <2>5
  <1>9. CASE GetWait(p)
    <2> USE <1>9 DEF GetWait, Goto, Unlock, guarded
    <2>1. TypeOK' /\ Linked' = Linked
      BY <1>0 DEF TypeOK, ProcessorPC, Linked
    <2>2. PhaseOK'
      BY <1>0, <2>1 DEF TypeOK, PhaseOK, ProcessorPC, Threads
    <2>3. MutexHeld'
      BY <1>0, MutexAssumption DEF TypeOK, MutexHeld, Critical, Threads
    <2>4. ListIsFifo' /\ CountMatchesList' /\ TaskHasFrame'
      BY <1>0 DEF TypeOK, CountMatchesList, ListIsFifo, TaskHasFrame
    <2>6. NoLostWakeup'
      BY DEF PhaseOK, NoLostWakeup
    <2>5. OneOwner'
      BY <1>0, <2>1 DEF TypeOK, OneOwner, Owns
    <2> QED
      BY <2>1, <2>2, <2>3, <2>4, <2>5, <2>6
  <1>3. CASE GetWake(p)
    <2> USE <1>3 DEF GetWake, Goto, Lock, guarded
    <2>1. TypeOK' /\ Linked' = Linked
      BY <1>0 DEF TypeOK, ProcessorPC, Linked
    <2>2. PhaseOK'
      BY <1>0, <2>1 DEF TypeOK, PhaseOK, ProcessorPC, Threads
    <2>3. MutexHeld'
      BY <1>0, MutexAssumption DEF TypeOK, MutexHeld, Critical, Threads
    <2>4. ListIsFifo' /\ CountMatchesList' /\ NoLostWakeup' /\ TaskHasFrame'
      BY <1>0 DEF TypeOK, CountMatchesList, ListIsFifo, NoLostWakeup,
                  TaskHasFrame
    <2>5. OneOwner'
      BY <1>0, <2>1 DEF TypeOK, OneOwner, Owns
    <2> QED
      BY <2>1, <2>2, <2>3, <2>4, <2>5
  <1>4. CASE SpuriousWake(p)
    <2> USE <1>4 DEF SpuriousWake, Goto, guarded
    <2>1. TypeOK' /\ Linked' = Linked
      BY <1>0 DEF TypeOK, ProcessorPC, Linked
    <2>2. PhaseOK'
      BY <1>0, <2>1 DEF TypeOK, PhaseOK, ProcessorPC, Threads
    <2>3. MutexHeld'
      BY <1>0, MutexAssumption DEF TypeOK, MutexHeld, Critical, Threads
    <2>4. ListIsFifo' /\ CountMatchesList' /\ NoLostWakeup' /\ TaskHasFrame'
      BY <1>0 DEF TypeOK, CountMatchesList, ListIsFifo, NoLostWakeup,
                  TaskHasFrame
    <2>5. OneOwner'
      BY <1>0, <2>1 DEF TypeOK, OneOwner, Owns
    <2> QED
      BY <2>1, <2>2, <2>3, <2>4, <2>5
  <1>5. CASE GetTake(p)
    <2> USE <1>5 DEF GetTake, Goto, guarded
    <2>1. TypeOK' /\ Linked' = Linked
      BY <1>0 DEF TypeOK, ProcessorPC, Linked
    <2>2. PhaseOK'
      BY <1>0, <2>1 DEF TypeOK, PhaseOK, ProcessorPC, Threads
    <2>3. MutexHeld'
      BY <1>0, MutexAssumption DEF TypeOK, MutexHeld, Critical, Threads
    <2>4. ListIsFifo' /\ CountMatchesList' /\ NoLostWakeup' /\ TaskHasFrame'
      BY <1>0 DEF TypeOK, CountMatchesList, ListIsFifo, NoLostWakeup,
                  TaskHasFrame
    <2>5. OneOwner'
      BY <1>0, <2>1 DEF TypeOK, OneOwner, Owns
    <2> QED
      BY <2>1, <2>2, <2>3, <2>4, <2>5
  <1>7. CASE GetUnlock(p)
    <2> USE <1>7 DEF GetUnlock, Goto, Unlock, guarded
    <2>1. TypeOK' /\ Linked' = Linked
      BY <1>0 DEF TypeOK, ProcessorPC, Linked
    <2>2. PhaseOK'
      BY <1>0, <2>1 DEF TypeOK, PhaseOK, ProcessorPC, Threads
    <2>3. MutexHeld'
      BY <1>0, MutexAssumption DEF TypeOK, MutexHeld, Critical, Threads
    <2>4. ListIsFifo' /\ CountMatchesList' /\ NoLostWakeup' /\ TaskHasFrame'
      BY <1>0 DEF TypeOK, CountMatchesList, ListIsFifo, NoLostWakeup,
                  TaskHasFrame
    <2>5. OneOwner'
      BY <1>0, <2>1 DEF TypeOK, OneOwner, Owns
    <2> QED
      BY <2>1, <2>2, <2>3, <2>4, <2>5
  <1>6. CASE GetAdvance(p)
    <2> USE <1>6 DEF GetAdvance, Goto
    <2>1. /\ num_task_in_queue # 0 /\ task[p] = first_task
          /\ queue_mutex = p
      BY <1>0 DEF PhaseOK, MutexHeld, Critical
    <2>2. ~\E t \in Threads : pc[t] = "add_count"
      BY <1>0, <2>1 DEF MutexHeld, Critical
    <2>3. Len(fifo) = num_task_in_queue /\ num_task_in_queue \in Nat \ {0}
      BY <2>1, <2>2 DEF CountMatchesList, TypeOK
    <2>4. fifo # <<>>
      BY <2>3, EmptySeq
    <2>5. /\ fifo' = Tail(fifo)
          /\ fifo' \in Seq(Nodes)
          /\ Len(fifo') = Len(fifo) - 1
          /\ \A i \in 1..(Len(fifo) - 1) : fifo'[i] = fifo[i + 1]
          /\ Len(fifo) = 1 <=> fifo' = <<>>
      BY <2>4, TailFacts DEF TypeOK
    <2>6. \A i \in 1..Len(fifo) : fifo[i] \in Nodes /\ fifo[i] # NULL
      BY NullAssumption DEF TypeOK
    <2>7. /\ first_task = fifo[1] /\ first_task # NULL
          /\ last_task = fifo[Len(fifo)] /\ next[last_task] = NULL
      BY <2>3, <2>4, <2>6 DEF ListIsFifo
    <2>8. Len(fifo) # 1 => next[first_task] = fifo[2] /\ fifo[2] # NULL
      <3>1. Len(fifo) # 1 => 1 \in 1..Len(fifo) /\ 1 < Len(fifo) /\ 2 \in 1..Len(fifo)
        BY <2>3
      <3> QED
        BY <2>6, <2>7, <3>1 DEF ListIsFifo
    <2>9. /\ Len(fifo) = 1 => first_task' = NULL /\ last_task' = NULL
          /\ Len(fifo) # 1 => first_task' = fifo[2] /\ last_task' = last_task
      BY <2>7, <2>8
    <2>10. TypeOK'
      <3>1. num_task_in_queue' \in Nat
        BY <2>3
      <3>2. first_task' \in Nodes \cup {NULL} /\ last_task' \in Nodes \cup {NULL}
        BY <1>0 DEF TypeOK
      <3> QED
        BY <1>0, <2>5, <3>1, <3>2 DEF TypeOK, ProcessorPC
    <2>11. PhaseOK'
      <3>1. \A t \in Processors :
               t # p => pc[t] \notin {"get_wait", "get_take", "get_advance"}
        BY <1>0, <2>1 DEF MutexHeld, Critical, Threads
      <3> QED
        BY <1>0, <3>1 DEF TypeOK, PhaseOK, ProcessorPC, Threads
    <2>12. MutexHeld'
      BY <1>0 DEF TypeOK, MutexHeld, Critical
    <2>13. ListIsFifo'
      <3>1. CASE Len(fifo) = 1
        <4>1. fifo' = <<>> /\ Len(fifo') = 0
          BY <2>5, <3>1
        <4>2. \A i \in 1..Len(fifo') : FALSE
          BY <4>1
        <4> QED
          BY <2>9, <3>1, <4>1, <4>2 DEF ListIsFifo
      <3>2. CASE Len(fifo) # 1
        <4>1. fifo' # <<>> /\ Len(fifo') \in Nat \ {0} /\ Len(fifo') + 1 = Len(fifo)
          BY <2>3, <2>5, <3>2
        <4>2. first_task' = fifo'[1] /\ last_task' = fifo'[Len(fifo')]
          BY <2>5, <2>7, <2>9, <3>2, <4>1
        <4>3. \A i \in 1..Len(fifo') : i < Len(fifo') => next[fifo'[i]] = fifo'[i + 1]
          <5> SUFFICES ASSUME NEW i \in 1..Len(fifo'), i < Len(fifo')
                       PROVE  next[fifo'[i]] = fifo'[i + 1]
            OBVIOUS
          <5>1. /\ i + 1 \in 1..Len(fifo) /\ i + 1 < Len(fifo)
                /\ fifo'[i] = fifo[i + 1] /\ fifo'[i + 1] = fifo[(i + 1) + 1]
            BY <2>5, <4>1
          <5> QED
            BY <5>1 DEF ListIsFifo
        <4>4. \A i, j \in 1..Len(fifo') : fifo'[i] = fifo'[j] => i = j
          <5> SUFFICES ASSUME NEW i \in 1..Len(fifo'), NEW j \in 1..Len(fifo'),
                              fifo'[i] = fifo'[j]
                       PROVE  i = j
            OBVIOUS
          <5>1. /\ i + 1 \in 1..Len(fifo) /\ j + 1 \in 1..Len(fifo)
                /\ fifo[i + 1] = fifo[j + 1]
            BY <2>5, <4>1
          <5>2. i + 1 = j + 1
            BY <5>1 DEF ListIsFifo
          <5> QED
            BY <5>2, <4>1
        <4>5. next' = next /\ next'[last_task'] = NULL
          BY <2>7, <2>9, <3>2
        <4> QED
          BY <4>1, <4>2, <4>3, <4>4, <4>5 DEF ListIsFifo
      <3> QED
        BY <3>1, <3>2
    <2>14. CountMatchesList'
      <3>1. ~\E t \in Threads : pc'[t] = "add_count"
        BY <1>0, <2>2 DEF TypeOK
      <3> QED
        BY <2>3, <2>5, <3>1 DEF CountMatchesList
    <2>15. OneOwner'
      <3>1. Linked' \subseteq Linked /\ task[p] \in Linked /\ task[p] \notin Linked'
        <4>1. \A i \in 1..Len(fifo') : fifo'[i] = fifo[i + 1] /\ i + 1 \in 1..Len(fifo)
          BY <2>3, <2>5
        <4>2. 1 \in 1..Len(fifo) /\ \A i \in 1..Len(fifo') : fifo[i + 1] # fifo[1]
          <5>1. 1 \in 1..Len(fifo) /\ \A i \in 1..Len(fifo') : i + 1 # 1
            BY <2>3, <2>5
          <5> QED
            BY <4>1, <5>1 DEF ListIsFifo
        <4> QED
          BY <2>1, <2>7, <4>1, <4>2 DEF Linked
      <3>2. \A t \in Threads : Owns(t) => task[t] # task[p]
        BY <3>1 DEF OneOwner
      <3>3. \A t \in Threads : Owns(t)' <=> Owns(t) \/ t = p
        BY <1>0 DEF Owns, TypeOK
      <3> QED
        BY <1>0, <3>1, <3>2, <3>3 DEF OneOwner
    <2>16. NoLostWakeup' /\ TaskHasFrame'
      <3>1. \A s \in Sniffers : pc[s] # "add_broadcast"
        BY <1>0, <2>1 DEF MutexHeld, Critical, Threads
      <3> QED
        BY <2>1, <3>1 DEF NoLostWakeup, TaskHasFrame
    <2> QED
      BY <2>10, <2>11, <2>12, <2>13, <2>14, <2>15, <2>16
  <1>8. CASE Process(p)
    <2> USE <1>8 DEF Process, Goto, guarded
    <2>0. Owns(p) /\ task[p] \in heap \ Linked /\ task[p] \in Nodes
      BY <1>0 DEF OneOwner, Owns, TypeOK
    <2>1. TypeOK'
      BY <1>0, <2>0 DEF TypeOK, ProcessorPC
    <2>2. Linked' = Linked
      BY DEF Linked
    <2>3. PhaseOK'
      BY <1>0, <2>1 DEF TypeOK, PhaseOK, ProcessorPC, Threads
    <2>4. MutexHeld'
      BY <1>0, MutexAssumption DEF TypeOK, MutexHeld, Critical, Threads
    <2>5. ListIsFifo' /\ CountMatchesList' /\ NoLostWakeup' /\ TaskHasFrame'
      BY <1>0, <2>0 DEF TypeOK, CountMatchesList, ListIsFifo, NoLostWakeup,
                        TaskHasFrame
    <2>6. OneOwner'
      <3>1. \A t \in Threads : Owns(t)' <=> Owns(t) /\ t # p
        BY <1>0 DEF Owns, TypeOK
      <3> QED
        BY <1>0, <2>0, <2>2, <3>1 DEF TypeOK, OneOwner
    <2> QED
      BY <2>1, <2>3, <2>4, <2>5, <2>6
  <1> QED
    BY <1>1, <1>2, <1>3, <1>4, <1>5, <1>6, <1>7, <1>8, <1>9
       DEF get_task_from_queue

(* The list, the counter, the mutex and the ownership of tasks agree in    *)
(* every reachable state of vfm_queue.c and its callers.                   *)
THEOREM Invariance == Spec => []IInv
  <1>1. IInv /\ [Next]_vars => IInv'
    <2> SUFFICES ASSUME IInv, [Next]_vars PROVE IInv'
      OBVIOUS
    <2>1. CASE Next
      BY <2>1, SnifferInv, ProcessorInv DEF Next
    <2>2. CASE UNCHANGED vars
      BY <2>2 DEF vars, IInv, TypeOK, PhaseOK, MutexHeld, ListIsFifo, Linked,
                  CountMatchesList, OneOwner, Owns, TaskHasFrame, NoLostWakeup
    <2> QED
      BY <2>1, <2>2
  <1> QED
    BY <1>1, InitInv, PTL DEF Spec

(* What process_packet relies on: no task is lost, shared, freed twice or  *)
(* used after it was freed, and none is null.                              *)
THEOREM QueueSafety == Spec => [](OneOwner /\ NeverTakesNull)
  <1>1. IInv => OneOwner /\ NeverTakesNull
    BY NullAssumption DEF IInv, NeverTakesNull, OneOwner, Owns, TypeOK, Threads
  <1> QED
    BY <1>1, Invariance, PTL

(* The links of vfm_queue.c are the queue, first task first, and outside   *)
(* add_task_to_queue the counter is its length.                            *)
THEOREM ListIntact == Spec => [](ListIsFifo /\ CountMatchesList)
  BY Invariance, PTL DEF IInv

(* The broadcast is never missed: while a processor sleeps on queue_cond,  *)
(* a counter above zero means that a sniffer is about to broadcast.        *)
THEOREM WakeupNotLost == Spec => []NoLostWakeup
  BY Invariance, PTL DEF IInv

-----------------------------------------------------------------------------
(* The abstract queue, as the refinement mapping sees it. *)
Pending == [i \in 1..Len(fifo) |-> data[fifo[i]]]

(* Under the invariant, what the mapping yields has the abstract type. *)
LEMMA PendingIsSeq ==
    ASSUME IInv
    PROVE  Pending \in Seq(Frames) /\ Len(Pending) = Len(fifo)
  <1>1. Len(fifo) \in Nat /\ \A i \in 1..Len(fifo) : fifo[i] \in heap
    BY DEF IInv, TypeOK, OneOwner, Linked
  <1>2. Pending \in [1..Len(fifo) -> Frames]
    BY <1>1 DEF IInv, TaskHasFrame, Pending
  <1> QED
    BY <1>1, <1>2, SeqDef

(* A step that leaves the list and the frames in it alone changes nothing  *)
(* that the abstract queue shows.                                          *)
LEMMA Stutter ==
    ASSUME IInv, UNCHANGED <<fifo, data>>,
           \A p \in Processors :
              (pc[p] \in {"get_unlock", "process"})
                 = (pc'[p] \in {"get_unlock", "process"}),
           \A p \in Processors :
              pc[p] \in {"get_unlock", "process"} => task'[p] = task[p]
    PROVE  UNCHANGED <<Pending, InHand>>
  BY DEF Pending, InHand

(* Linking a task is the abstract Put of its frame. *)
LEMMA LinkIsPut ==
    ASSUME IInv, IInv', NEW s \in Sniffers, AddLink(s)
    PROVE  /\ data[task[s]] \in Frames
           /\ Pending' = Append(Pending, data[task[s]])
           /\ InHand' = InHand
  <1> USE DEF AddLink, Goto
  <1>1. s \in Threads /\ s \notin Processors
    BY ThreadsAssumption DEF Threads
  <1>2. task[s] \in heap /\ task[s] \in Nodes /\ data[task[s]] \in Frames
    BY <1>1 DEF IInv, OneOwner, Owns, TypeOK, TaskHasFrame
  <1>3. /\ Len(fifo') = Len(fifo) + 1 /\ Len(fifo) \in Nat
        /\ \A i \in 1..Len(fifo) : fifo'[i] = fifo[i]
        /\ fifo'[Len(fifo) + 1] = task[s]
    BY <1>2, AppendProperties DEF IInv, TypeOK
  <1>4. Pending' = Append(Pending, data[task[s]])
    <2>1. Pending \in Seq(Frames) /\ Len(Pending) = Len(fifo)
      BY PendingIsSeq
    <2>2. Pending' \in Seq(Frames) /\ Len(Pending') = Len(fifo')
      BY PendingIsSeq DEF IInv, TypeOK, OneOwner, TaskHasFrame, Linked, Pending
    <2> QED
      BY <1>2, <1>3, <2>1, <2>2, AppendProperties, SeqEqual DEF Pending
  <1>5. InHand' = InHand
    BY <1>1 DEF IInv, TypeOK, InHand, Threads
  <1> QED
    BY <1>2, <1>4, <1>5

(* Leaving the head behind is the abstract Take. *)
LEMMA AdvanceIsTake ==
    ASSUME IInv, IInv', NEW p \in Processors, GetAdvance(p)
    PROVE  /\ Pending # <<>> /\ InHand[p] = NoFrame
           /\ InHand' = [InHand EXCEPT ![p] = Head(Pending)]
           /\ Pending' = Tail(Pending)
  <1> USE DEF GetAdvance, Goto
  <1>1. p \in Threads
    BY DEF Threads
  <1>2. num_task_in_queue # 0 /\ task[p] = first_task /\ queue_mutex = p
    BY <1>1 DEF IInv, PhaseOK, MutexHeld, Critical
  <1>3. ~\E t \in Threads : pc[t] = "add_count"
    BY <1>1, <1>2 DEF IInv, MutexHeld, Critical
  <1>4. Len(fifo) \in Nat \ {0} /\ fifo # <<>>
    BY <1>2, <1>3, EmptySeq DEF IInv, CountMatchesList, TypeOK
  <1>5. /\ fifo' = Tail(fifo)
        /\ Len(fifo') = Len(fifo) - 1
        /\ \A i \in 1..(Len(fifo) - 1) : fifo'[i] = fifo[i + 1]
    BY <1>4, TailFacts DEF IInv, TypeOK
  <1>6. Pending \in Seq(Frames) /\ Len(Pending) = Len(fifo) /\ Pending # <<>>
    BY <1>4, PendingIsSeq, EmptySeq
  <1>7. Pending' \in Seq(Frames) /\ Len(Pending') = Len(fifo')
    BY PendingIsSeq DEF IInv, TypeOK, OneOwner, TaskHasFrame, Linked, Pending
  <1>8. Pending' = Tail(Pending)
    <2>1. /\ Tail(Pending) \in Seq(Frames)
          /\ Len(Tail(Pending)) = Len(fifo) - 1
          /\ \A i \in 1..(Len(fifo) - 1) : Tail(Pending)[i] = Pending[i + 1]
      BY <1>6, TailFacts
    <2>2. \A i \in 1..(Len(fifo) - 1) :
             Pending'[i] = data[fifo[i + 1]] /\ Pending[i + 1] = data[fifo[i + 1]]
      BY <1>4, <1>5 DEF Pending
    <2> QED
      BY <1>5, <1>7, <2>1, <2>2, SeqEqual
  <1>9. Head(Pending) = data[task[p]]
    <2>1. Head(Pending) = Pending[1] /\ Pending[1] = data[fifo[1]]
      BY <1>4, <1>6 DEF Pending
    <2> QED
      BY <1>2, <1>4, <2>1 DEF IInv, ListIsFifo
  <1>10. InHand[p] = NoFrame /\ InHand' = [InHand EXCEPT ![p] = data[task[p]]]
    BY <1>1 DEF IInv, TypeOK, InHand, Threads
  <1> QED
    BY <1>6, <1>8, <1>9, <1>10

(* Freeing the task is the abstract Finish. *)
LEMMA ProcessIsFinish ==
    ASSUME IInv, NEW p \in Processors, Process(p)
    PROVE  /\ InHand[p] # NoFrame
           /\ InHand' = [InHand EXCEPT ![p] = NoFrame]
           /\ Pending' = Pending
  <1> USE DEF Process, Goto
  <1>1. p \in Threads /\ \A q \in Processors : q \in Threads
    BY DEF Threads
  <1>2. Owns(p) /\ task[p] \in heap \ Linked /\ data[task[p]] \in Frames
    BY <1>1 DEF IInv, OneOwner, Owns, TaskHasFrame
  <1>3. InHand[p] # NoFrame
    BY <1>2, FrameAssumption DEF InHand
  <1>4. ASSUME NEW q \in Processors, q # p, pc[q] \in {"get_unlock", "process"}
        PROVE  data'[task'[q]] = data[task[q]]
    <2>1. Owns(q) /\ task[q] # task[p] /\ task[q] \in Nodes
      BY <1>1, <1>2, <1>4 DEF IInv, OneOwner, Owns, TypeOK
    <2> QED
      BY <1>1, <1>4, <2>1 DEF IInv, TypeOK
  <1>5. InHand' = [InHand EXCEPT ![p] = NoFrame]
    BY <1>1, <1>4 DEF IInv, TypeOK, InHand
  <1>6. \A i \in 1..Len(fifo) : fifo[i] # task[p] /\ fifo[i] \in Nodes
    BY <1>2 DEF Linked, IInv, TypeOK
  <1>7. Pending' = Pending
    BY <1>6 DEF Pending, IInv, TypeOK, guarded
  <1> QED
    BY <1>3, <1>5, <1>7

(* Building a task is invisible: the address was not in use. *)
LEMMA AllocIsInvisible ==
    ASSUME IInv, NEW s \in Sniffers, NEW f \in Frames, AddAlloc(s, f)
    PROVE  UNCHANGED <<Pending, InHand>>
  <1> USE DEF AddAlloc, Goto
  <1>1. s \notin Processors /\ \A q \in Processors : q \in Threads /\ q # s
    BY ThreadsAssumption DEF Threads
  <1>2. PICK n \in Nodes \ heap : /\ data' = [data EXCEPT ![n] = f]
                                  /\ task' = [task EXCEPT ![s] = n]
    OBVIOUS
  <1>3. \A i \in 1..Len(fifo) : fifo[i] # n /\ fifo[i] \in Nodes
    BY <1>2 DEF IInv, OneOwner, Linked, TypeOK
  <1>4. Pending' = Pending
    BY <1>2, <1>3 DEF Pending, IInv, TypeOK
  <1>5. \A q \in Processors : pc[q] \in {"get_unlock", "process"} =>
                               task[q] # n /\ task[q] \in Nodes
    BY <1>1, <1>2 DEF IInv, OneOwner, Owns, TypeOK
  <1>6. InHand' = InHand
    BY <1>1, <1>2, <1>5 DEF InHand, IInv, TypeOK
  <1> QED
    BY <1>4, <1>6

(* vfm_queue.c implements the abstract first-in first-out queue: every     *)
(* step of a sniffer or a processor is a step of TaskFifo or is invisible. *)
THEOREM Refinement == Spec => ImplementsFifo
  <1> USE DEF Fifo!FifoInit, Fifo!FifoNext, Fifo!Put, Fifo!Take, Fifo!Finish
  <1>1. Init => Fifo!FifoInit
    <2> SUFFICES ASSUME Init PROVE Fifo!FifoInit
      OBVIOUS
    <2>1. Len(fifo) = 0 /\ \A i \in 1..Len(fifo) : FALSE
      BY EmptySeq DEF Init
    <2>2. [i \in 1..Len(fifo) |-> data[fifo[i]]] = <<>>
      BY <2>1
    <2>3. InHand = [p \in Processors |-> NoFrame]
      BY ThreadsAssumption DEF Init, InHand, Threads
    <2> QED
      BY <2>2, <2>3
  <1>2. IInv /\ IInv' /\ [Next]_vars => [Fifo!FifoNext]_(Fifo!fvars)
    <2> SUFFICES ASSUME IInv, IInv', [Next]_vars
                 PROVE  Fifo!FifoNext \/ UNCHANGED <<Pending, InHand>>
      BY DEF Fifo!fvars, Pending
    <2>1. ASSUME NEW s \in Sniffers, add_task_to_queue(s)
          PROVE  Fifo!FifoNext \/ UNCHANGED <<Pending, InHand>>
      <3>1. s \notin Processors /\ \A q \in Processors : q \in Threads /\ q # s
        BY ThreadsAssumption DEF Threads
      <3>2. CASE AddLink(s)
        BY <3>2, LinkIsPut DEF Pending
      <3>3. CASE \E f \in Frames : AddAlloc(s, f)
        BY <3>3, AllocIsInvisible
      <3>4. CASE \/ AddLock(s) \/ AddCount(s) \/ AddBroadcast(s)
                 \/ AddUnlock(s)
        BY <3>1, <3>4, Stutter
           DEF AddLock, AddCount, AddBroadcast, AddUnlock, Goto, IInv, TypeOK
      <3> QED
        BY <2>1, <3>2, <3>3, <3>4 DEF add_task_to_queue
    <2>2. ASSUME NEW p \in Processors,
                 get_task_from_queue(p) \/ SpuriousWake(p) \/ Process(p)
          PROVE  Fifo!FifoNext \/ UNCHANGED <<Pending, InHand>>
      <3>1. \A q \in Processors : q \in Threads
        BY DEF Threads
      <3>2. CASE GetAdvance(p)
        BY <3>2, AdvanceIsTake DEF Pending
      <3>3. CASE Process(p)
        BY <3>3, ProcessIsFinish DEF Pending
      <3>4. CASE \/ GetLock(p) \/ GetTest(p) \/ GetWait(p) \/ GetWake(p)
                 \/ GetTake(p) \/ GetUnlock(p) \/ SpuriousWake(p)
        BY <3>1, <3>4, Stutter
           DEF GetLock, GetTest, GetWait, GetWake, GetTake, GetUnlock, SpuriousWake,
               Goto, IInv, TypeOK
      <3> QED
        BY <2>2, <3>2, <3>3, <3>4 DEF get_task_from_queue
    <2>3. CASE UNCHANGED vars
      BY <2>3 DEF vars, Pending, InHand
    <2> QED
      BY <2>1, <2>2, <2>3 DEF Next
  <1> QED
    BY <1>1, <1>2, Invariance, PTL DEF Spec, ImplementsFifo, Fifo!FifoSpec
=============================================================================
