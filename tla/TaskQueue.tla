----------------------------- MODULE TaskQueue ------------------------------
(***************************************************************************)
(* The task queue of src/vps/vfm/vfm_queue.c: a singly linked list with a  *)
(* head, a tail and a counter, guarded by queue_mutex, on which processors *)
(* wait with queue_cond.  The sniffer (start_sniffer) adds what it         *)
(* receives; the processors (start_processor) take a task, work on it and  *)
(* free it.                                                                *)
(*                                                                         *)
(* A Node is the address of one vfm_task; malloc returns any address not   *)
(* in use, so addresses are reused as soon as they are freed.  A critical  *)
(* region is several steps: linking, counting and waking; testing, going   *)
(* to sleep, taking and advancing.  It is the mutex, not the grain of the  *)
(* model, that keeps the steps of two threads apart.                       *)
(***************************************************************************)
EXTENDS Naturals, Sequences, FiniteSets

CONSTANTS Sniffers,     \* threads that call add_task_to_queue
          Processors,   \* threads that call get_task_from_queue
          Nodes,        \* addresses malloc can return for a vfm_task
          Frames,       \* frames that can arrive
          NULL,         \* the null pointer
          NoThread,     \* the value of a mutex nobody holds
          NoFrame       \* no task data

ASSUME ThreadsAssumption == Sniffers \cap Processors = {}
ASSUME NullAssumption    == NULL \notin Nodes
ASSUME MutexAssumption   == NoThread \notin Sniffers \cup Processors
ASSUME FrameAssumption   == NoFrame \notin Frames

Threads == Sniffers \cup Processors

VARIABLES
    queue_mutex,        \* the thread that holds it, or NoThread
    asleep,             \* threads blocked in pthread_cond_wait(&queue_cond)
    first_task,
    last_task,
    num_task_in_queue,
    next,               \* next[n]: the field of the vfm_task at address n
    data,               \* data[n]: the frame copied into the task, or NoFrame
    heap,               \* the addresses in use
    pc,                 \* where each thread is
    task,               \* each thread's local new_task or task
    fifo                \* history: the nodes linked in, in the order of linking

vars == <<queue_mutex, asleep, first_task, last_task, num_task_in_queue,
          next, data, heap, pc, task, fifo>>

(* The variables that no thread may touch without holding queue_mutex. *)
guarded == <<first_task, last_task, num_task_in_queue>>

SnifferPC   == {"recv", "add_lock", "add_link", "add_count", "add_broadcast",
                "add_unlock"}
ProcessorPC == {"get_lock", "get_test", "get_wait", "get_asleep", "get_take",
                "get_advance", "get_unlock", "process"}

Init ==
    /\ queue_mutex = NoThread
    /\ asleep = {}
    /\ first_task = NULL
    /\ last_task = NULL
    /\ num_task_in_queue = 0
    /\ next = [n \in Nodes |-> NULL]
    /\ data = [n \in Nodes |-> NoFrame]
    /\ heap = {}
    /\ pc = [t \in Threads |-> IF t \in Sniffers THEN "recv" ELSE "get_lock"]
    /\ task = [t \in Threads |-> NULL]
    /\ fifo = <<>>

Goto(t, from, to) ==
    /\ pc[t] = from
    /\ pc' = [pc EXCEPT ![t] = to]

(* pthread_mutex_lock and pthread_mutex_unlock. *)
Lock(t) ==
    /\ queue_mutex = NoThread
    /\ queue_mutex' = t
Unlock == queue_mutex' = NoThread

-----------------------------------------------------------------------------
(* add_task_to_queue *)

(* A frame arrives and the task is built outside the lock.  malloc does    *)
(* not clear the new vfm_task: its next field is whatever the address held *)
(* before.                                                                 *)
AddAlloc(s, f) ==
    /\ Goto(s, "recv", "add_lock")
    /\ \E n \in Nodes \ heap, garbage \in Nodes \cup {NULL} :
          /\ heap' = heap \cup {n}
          /\ data' = [data EXCEPT ![n] = f]
          /\ next' = [next EXCEPT ![n] = garbage]
          /\ task' = [task EXCEPT ![s] = n]
    /\ UNCHANGED <<queue_mutex, asleep, guarded, fifo>>

AddLock(s) ==
    /\ Goto(s, "add_lock", "add_link")
    /\ Lock(s)
    /\ UNCHANGED <<asleep, guarded, next, data, heap, task, fifo>>

(* Seeded faults: new_task->next is left as malloc returned it; the new    *)
(* task is linked in front of the head.                                    *)
AddLink_KeepsGarbage(s) ==
    /\ Goto(s, "add_link", "add_count")
    /\ first_task' = IF first_task = NULL THEN task[s] ELSE first_task
    /\ next' = IF first_task = NULL THEN next
                                    ELSE [next EXCEPT ![last_task] = task[s]]
    /\ last_task' = task[s]
    /\ fifo' = Append(fifo, task[s])
    /\ UNCHANGED <<queue_mutex, asleep, num_task_in_queue, data, heap, task>>
AddLink_AtHead(s) ==
    /\ Goto(s, "add_link", "add_count")
    /\ first_task' = task[s]
    /\ next' = [next EXCEPT ![task[s]] = first_task]
    /\ last_task' = IF first_task = NULL THEN task[s] ELSE last_task
    /\ fifo' = Append(fifo, task[s])
    /\ UNCHANGED <<queue_mutex, asleep, num_task_in_queue, data, heap, task>>

(* The new task becomes the head, or the successor of the tail. *)
AddLink(s) ==
    /\ Goto(s, "add_link", "add_count")
    /\ first_task' = IF first_task = NULL THEN task[s] ELSE first_task
    /\ next' = IF first_task = NULL
                 THEN [next EXCEPT ![task[s]] = NULL]
                 ELSE [next EXCEPT ![last_task] = task[s], ![task[s]] = NULL]
    /\ last_task' = task[s]
    /\ fifo' = Append(fifo, task[s])
    /\ UNCHANGED <<queue_mutex, asleep, num_task_in_queue, data, heap, task>>

AddCount(s) ==
    /\ Goto(s, "add_count", "add_broadcast")
    /\ num_task_in_queue' = num_task_in_queue + 1
    /\ UNCHANGED <<queue_mutex, asleep, first_task, last_task, next, data,
                   heap, task, fifo>>

(* Seeded faults: pthread_cond_signal in place of pthread_cond_broadcast;  *)
(* no call of either.                                                      *)
AddBroadcast_Signal(s) ==
    /\ Goto(s, "add_broadcast", "add_unlock")
    /\ IF asleep = {} THEN UNCHANGED asleep
                      ELSE \E p \in asleep : asleep' = asleep \ {p}
    /\ UNCHANGED <<queue_mutex, guarded, next, data, heap, task, fifo>>
AddBroadcast_Silent(s) ==
    /\ Goto(s, "add_broadcast", "add_unlock")
    /\ UNCHANGED <<queue_mutex, asleep, guarded, next, data, heap, task, fifo>>

(* pthread_cond_broadcast: everybody wakes up. *)
AddBroadcast(s) ==
    /\ Goto(s, "add_broadcast", "add_unlock")
    /\ asleep' = {}
    /\ UNCHANGED <<queue_mutex, guarded, next, data, heap, task, fifo>>

AddUnlock(s) ==
    /\ Goto(s, "add_unlock", "recv")
    /\ Unlock
    /\ task' = [task EXCEPT ![s] = NULL]
    /\ UNCHANGED <<asleep, guarded, next, data, heap, fifo>>

-----------------------------------------------------------------------------
(* get_task_from_queue *)

(* Seeded fault: the list is read without taking the mutex. *)
GetLock_Skipped(p) ==
    /\ Goto(p, "get_lock", "get_test")
    /\ UNCHANGED <<queue_mutex, asleep, guarded, next, data, heap, task, fifo>>

GetLock(p) ==
    /\ Goto(p, "get_lock", "get_test")
    /\ Lock(p)
    /\ UNCHANGED <<asleep, guarded, next, data, heap, task, fifo>>

(* The while condition. *)
GetTest(p) ==
    /\ \/ num_task_in_queue = 0 /\ Goto(p, "get_test", "get_wait")
       \/ num_task_in_queue # 0 /\ Goto(p, "get_test", "get_take")
    /\ UNCHANGED <<queue_mutex, asleep, guarded, next, data, heap, task, fifo>>

(* pthread_cond_wait falls asleep and gives up the mutex, in one step. *)
GetWait(p) ==
    /\ Goto(p, "get_wait", "get_asleep")
    /\ asleep' = asleep \cup {p}
    /\ Unlock
    /\ UNCHANGED <<guarded, next, data, heap, task, fifo>>

(* POSIX lets pthread_cond_wait return without a broadcast. *)
SpuriousWake(p) ==
    /\ p \in asleep
    /\ asleep' = asleep \ {p}
    /\ UNCHANGED <<queue_mutex, guarded, next, data, heap, pc, task, fifo>>

(* A thread that was woken takes the mutex back and tests again. *)
GetWake(p) ==
    /\ Goto(p, "get_asleep", "get_test")
    /\ p \notin asleep
    /\ Lock(p)
    /\ UNCHANGED <<asleep, guarded, next, data, heap, task, fifo>>

GetTake(p) ==
    /\ Goto(p, "get_take", "get_advance")
    /\ task' = [task EXCEPT ![p] = first_task]
    /\ UNCHANGED <<queue_mutex, asleep, guarded, next, data, heap, fifo>>

GetAdvance(p) ==
    /\ Goto(p, "get_advance", "get_unlock")
    /\ \/ /\ first_task # NULL
          /\ next[first_task] # NULL
          /\ first_task' = next[first_task]
          /\ UNCHANGED last_task
       \/ /\ first_task = NULL \/ next[first_task] = NULL
          /\ first_task' = NULL
          /\ last_task' = NULL
    /\ num_task_in_queue' = num_task_in_queue - 1
    /\ fifo' = IF fifo = <<>> THEN <<>> ELSE Tail(fifo)
    /\ UNCHANGED <<queue_mutex, asleep, next, data, heap, task>>

GetUnlock(p) ==
    /\ Goto(p, "get_unlock", "process")
    /\ Unlock
    /\ UNCHANGED <<asleep, guarded, next, data, heap, task, fifo>>

(* process_packet works on the task, frees task->data and the task, and    *)
(* start_processor calls it again.                                         *)
Process(p) ==
    /\ Goto(p, "process", "get_lock")
    /\ heap' = heap \ {task[p]}
    /\ data' = [data EXCEPT ![task[p]] = NoFrame]
    /\ task' = [task EXCEPT ![p] = NULL]
    /\ UNCHANGED <<queue_mutex, asleep, guarded, next, fifo>>

-----------------------------------------------------------------------------
add_task_to_queue(s) ==
    \/ \E f \in Frames : AddAlloc(s, f)
    \/ AddLock(s) \/ AddLink(s) \/ AddCount(s) \/ AddBroadcast(s)
    \/ AddUnlock(s)

get_task_from_queue(p) ==
    \/ GetLock(p) \/ GetTest(p) \/ GetWait(p) \/ GetWake(p)
    \/ GetTake(p) \/ GetAdvance(p) \/ GetUnlock(p)

Next ==
    \/ \E s \in Sniffers : add_task_to_queue(s)
    \/ \E p \in Processors :
          get_task_from_queue(p) \/ SpuriousWake(p) \/ Process(p)

(* Every thread keeps running, and pthread_mutex_lock does not pass over   *)
(* the same thread for ever.  Nothing obliges a frame to arrive or         *)
(* cond_wait to return without a broadcast.                                *)
Fairness ==
    /\ \A s \in Sniffers :
          /\ WF_vars(AddLink(s) \/ AddCount(s) \/ AddBroadcast(s) \/ AddUnlock(s))
          /\ SF_vars(AddLock(s))
    /\ \A p \in Processors :
          /\ WF_vars(get_task_from_queue(p) \/ Process(p))
          /\ SF_vars(GetLock(p) \/ GetWake(p))

Spec     == Init /\ [][Next]_vars
FairSpec == Spec /\ Fairness

-----------------------------------------------------------------------------
(* Types: the pointers of the list are null or addresses of tasks, and    *)
(* only processors sleep on queue_cond.                                    *)
TypeOK ==
    /\ queue_mutex \in Threads \cup {NoThread}
    /\ asleep \subseteq Processors
    /\ first_task \in Nodes \cup {NULL}
    /\ last_task \in Nodes \cup {NULL}
    /\ num_task_in_queue \in Nat
    /\ next \in [Nodes -> Nodes \cup {NULL}]
    /\ data \in [Nodes -> Frames \cup {NoFrame}]
    /\ heap \subseteq Nodes
    /\ pc \in [Threads -> SnifferPC \cup ProcessorPC]
    /\ task \in [Threads -> Nodes \cup {NULL}]
    /\ fifo \in Seq(Nodes)

Linked == {fifo[i] : i \in 1..Len(fifo)}

(* A thread owns the task it has built and not yet linked, or taken and    *)
(* not yet freed.                                                          *)
Owns(t) == pc[t] \in {"add_lock", "add_link", "get_unlock", "process"}

Critical == {"add_link", "add_count", "add_broadcast", "add_unlock",
             "get_test", "get_wait", "get_take", "get_advance", "get_unlock"}

(* A thread is inside a critical region of vfm_queue.c exactly when it is  *)
(* the holder of queue_mutex.                                              *)
MutexHeld == \A t \in Threads : (pc[t] \in Critical) <=> (queue_mutex = t)

(* Walking the list from first_task visits exactly the tasks added and not *)
(* yet taken, in the order they were added, and ends at last_task.         *)
ListIsFifo ==
    /\ fifo = <<>> => first_task = NULL /\ last_task = NULL
    /\ fifo # <<>> => /\ first_task = fifo[1]
                      /\ last_task = fifo[Len(fifo)]
                      /\ next[last_task] = NULL
    /\ \A i \in 1..Len(fifo) : i < Len(fifo) => next[fifo[i]] = fifo[i + 1]
    /\ \A i, j \in 1..Len(fifo) : fifo[i] = fifo[j] => i = j

(* num_task_in_queue is the length of the list whenever nobody is between  *)
(* linking a task and counting it.                                         *)
CountMatchesList ==
    Len(fifo) = num_task_in_queue
                + (IF \E t \in Threads : pc[t] = "add_count" THEN 1 ELSE 0)

(* A task is reached by one party at a time: the list, the thread that     *)
(* builds it or the processor that works on it, and while it is reached it *)
(* has not been freed.  So no task is processed twice, freed twice or used *)
(* after it was freed.                                                     *)
OneOwner ==
    /\ Linked \subseteq heap
    /\ \A t \in Threads : Owns(t) =>
          /\ task[t] \in heap \ Linked
          /\ \A u \in Threads : Owns(u) /\ task[u] = task[t] => u = t

(* process_packet reads task->vfm_type without a test: a processor never   *)
(* leaves get_task_from_queue with a null pointer.                         *)
NeverTakesNull ==
    \A p \in Processors : pc[p] \in {"get_unlock", "process"} => task[p] # NULL

(* No lost wakeup: a processor sleeps on queue_cond only while there is    *)
(* nothing to take, or a sniffer that has just counted a task is about to  *)
(* wake it.                                                                *)
NoLostWakeup ==
    asleep # {} /\ num_task_in_queue # 0 =>
       \E s \in Sniffers : pc[s] = "add_broadcast"

(* Where each kind of thread can be, and what it knows there: a processor  *)
(* past the while has seen a task, and it is the head it is about to take; *)
(* one about to sleep has seen none.                                       *)
PhaseOK ==
    /\ \A s \in Sniffers : pc[s] \in SnifferPC
    /\ \A p \in Processors :
          /\ pc[p] \in ProcessorPC
          /\ p \in asleep => pc[p] = "get_asleep"
          /\ pc[p] \in {"get_take", "get_advance"} => num_task_in_queue # 0
          /\ pc[p] = "get_wait" => num_task_in_queue = 0
          /\ pc[p] = "get_advance" => task[p] = first_task

(* A task that is in use carries the frame that was copied into it. *)
TaskHasFrame == \A n \in heap : data[n] \in Frames

(* The inductive invariant. *)
IInv == /\ TypeOK
        /\ PhaseOK
        /\ MutexHeld
        /\ ListIsFifo
        /\ CountMatchesList
        /\ OneOwner
        /\ TaskHasFrame
        /\ NoLostWakeup

(* Every task that was added is eventually taken by a processor, worked on *)
(* and freed.                                                              *)
EveryTaskProcessed == \A n \in Nodes : (n \in Linked) ~> (n \notin heap)

-----------------------------------------------------------------------------
(* vfm_queue.c implements the abstract queue. *)
InHand == [p \in Processors |->
             IF pc[p] \in {"get_unlock", "process"} THEN data[task[p]]
                                                     ELSE NoFrame]

Fifo == INSTANCE TaskFifo WITH pending <- [i \in 1..Len(fifo) |-> data[fifo[i]]],
                               inHand  <- InHand

(* Seen from its callers the list, the counter, the mutex and the          *)
(* condition variable behave as a first-in first-out queue that hands each *)
(* frame to one processor.                                                 *)
ImplementsFifo == Fifo!FifoSpec
=============================================================================
