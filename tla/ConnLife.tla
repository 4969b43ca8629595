------------------------------ MODULE ConnLife ------------------------------
(***************************************************************************)
(* What the server promises each connection: it goes from hand to hand,    *)
(* and only along these ways.                                              *)
(*                                                                         *)
(*   nobody -accept-> epoll in -> event in -> task read -> thread read     *)
(*      thread read -> process | close                                     *)
(*      process -> arm_in -> epoll in  or  arm_out -> epoll out            *)
(*   epoll out -> event out -> task write -> thread write                  *)
(*      thread write -> process | arm_out | close                          *)
(*   epoll in | epoll out -> event hup -> close -> nobody                  *)
(*                                                                         *)
(* Data is read only where epoll has reported some, a response is written  *)
(* only where one was made, and a connection that is not with epoll is in  *)
(* the hands of one event, task or thread, which passes it on or closes    *)
(* it.  Server is shown to implement this specification.                   *)
(***************************************************************************)
CONSTANT Fd

VARIABLE stage    (* of each descriptor: who has it, and what for *)

Nobody        == <<"nobody", "closed">>
Epoll(bit)    == <<"epoll", bit>>       (* armed, for one report  *)
Event(bit)    == <<"event", bit>>       (* reported by epoll      *)
Task(op)      == <<"task", op>>         (* in the pool's queue    *)
Thread(place) == <<"thread", place>>    (* with a thread          *)

Stages == {Nobody}
          \cup {Epoll(bit) : bit \in {"in", "out"}}
          \cup {Event(bit) : bit \in {"in", "out", "hup"}}
          \cup {Task(op) : op \in {"read", "write"}}
          \cup {Thread(place) : place \in {"read", "write", "process", "arm_in",
                                           "arm_out", "close"}}

(* What epoll may report of a connection. *)
Reports == {<<Epoll("in"), Event("in")>>, <<Epoll("in"), Event("hup")>>,
            <<Epoll("out"), Event("out")>>, <<Epoll("out"), Event("hup")>>}

(* What the main thread does: accept, hand over, close. *)
Dispatches == {<<Nobody, Epoll("in")>>,
               <<Event("in"), Task("read")>>,
               <<Event("out"), Task("write")>>,
               <<Event("hup"), Thread("close")>>}

(* What a task does from its start to its end. *)
Handling == {<<Task("read"), Thread("read")>>,
             <<Thread("read"), Thread("process")>>,
             <<Thread("read"), Thread("close")>>,
             <<Thread("process"), Thread("arm_in")>>,
             <<Thread("process"), Thread("arm_out")>>,
             <<Task("write"), Thread("write")>>,
             <<Thread("write"), Thread("process")>>,
             <<Thread("write"), Thread("arm_out")>>,
             <<Thread("write"), Thread("close")>>,
             <<Thread("arm_in"), Epoll("in")>>,
             <<Thread("arm_out"), Epoll("out")>>,
             <<Thread("close"), Nobody>>}

Init == stage = [f \in Fd |-> Nobody]

Goes(f, ways) == <<stage[f], stage'[f]>> \in ways
Stays(f) == stage'[f] = stage[f]

(* One epoll_wait reports any number of connections. *)
Wait == \A f \in Fd : Goes(f, Reports) \/ Stays(f)

(* Everything else is about one of them. *)
Handle(f) == /\ Goes(f, Dispatches \cup Handling)
             /\ \A g \in Fd \ {f} : Stays(g)

Next == /\ stage' \in [Fd -> Stages]
        /\ Wait \/ \E f \in Fd : Handle(f)

Spec == Init /\ [][Next]_stage

=============================================================================
