---------------------------- MODULE TaskService ----------------------------
(***************************************************************************)
(* What the thread pool promises to the code that uses it, without its     *)
(* mutex and condition variable: tasks are accepted at the back of a FIFO  *)
(* queue, an idle worker starts the task at the front, and every started   *)
(* task ends before its worker starts another.                             *)
(*                                                                         *)
(* ThreadPool is shown to implement this specification, and Server uses    *)
(* its three operations as the pool it hands its work to.                  *)
(***************************************************************************)
EXTENDS Sequences

CONSTANTS Worker,   (* the threads of the pool                *)
          Task,     (* the callables that can be handed over  *)
          NoTask    (* not a Task: an idle worker's job       *)

VARIABLES queue,    (* the accepted tasks nobody has started  *)
          job       (* the task each worker is running        *)

serviceVars == <<queue, job>>

Init == /\ queue = <<>>
        /\ job = [w \in Worker |-> NoTask]

Submit(t) == /\ queue' = Append(queue, t)
             /\ UNCHANGED job

Start(w) == /\ job[w] = NoTask
            /\ queue # <<>>
            /\ job' = [job EXCEPT ![w] = Head(queue)]
            /\ queue' = Tail(queue)

Finish(w) == /\ job[w] # NoTask
             /\ job' = [job EXCEPT ![w] = NoTask]
             /\ UNCHANGED queue

Next == \/ \E t \in Task : Submit(t)
        \/ \E w \in Worker : Start(w) \/ Finish(w)

(* Someone idle starts the front task; a started task is not forgotten. *)
Fairness == /\ WF_serviceVars(\E w \in Worker : Start(w))
            /\ \A w \in Worker : WF_serviceVars(Finish(w))

Spec == Init /\ [][Next]_serviceVars /\ Fairness

=============================================================================
