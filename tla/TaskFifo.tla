------------------------------ MODULE TaskFifo ------------------------------
(***************************************************************************)
(* What the task queue of src/vps/vfm/vfm_queue.c promises to its callers, *)
(* with no list, no counter, no mutex and no condition variable: received  *)
(* frames wait in arrival order and each is handed to exactly one          *)
(* processor.                                                              *)
(***************************************************************************)
EXTENDS Naturals, Sequences

CONSTANTS Processors,   \* the threads that run start_processor
          Frames,       \* the frames the sniffer may receive
          NoFrame       \* what a processor with no task has in its hands

VARIABLES pending,      \* frames added and not yet taken, oldest first
          inHand        \* the frame each processor is working on

fvars == <<pending, inHand>>

FifoInit ==
    /\ pending = <<>>
    /\ inHand = [p \in Processors |-> NoFrame]

(* add_task_to_queue takes effect. *)
Put(f) ==
    /\ pending' = Append(pending, f)
    /\ UNCHANGED inHand

(* get_task_from_queue takes effect: the oldest frame, and no other. *)
Take(p) ==
    /\ pending # <<>>
    /\ inHand[p] = NoFrame
    /\ inHand' = [inHand EXCEPT ![p] = Head(pending)]
    /\ pending' = Tail(pending)

(* process_packet frees the task it has worked on. *)
Finish(p) ==
    /\ inHand[p] # NoFrame
    /\ inHand' = [inHand EXCEPT ![p] = NoFrame]
    /\ UNCHANGED pending

FifoNext ==
    \/ \E f \in Frames : Put(f)
    \/ \E p \in Processors : Take(p) \/ Finish(p)

FifoSpec == FifoInit /\ [][FifoNext]_fvars
=============================================================================
