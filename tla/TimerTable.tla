----------------------------- MODULE TimerTable -----------------------------
(***************************************************************************)
(* What the timer promises to the code that uses it, without its heap and  *)
(* its index: each id keeps the deadline it was last given, and no call    *)
(* for one id changes that of another.                                     *)
(*                                                                         *)
(* Timer is shown to implement this specification.                         *)
(***************************************************************************)
EXTENDS Naturals

CONSTANTS Id, Timeouts

VARIABLES now,
          deadline    (* of each id; 0: it has no timer *)

tableVars == <<now, deadline>>

Init == /\ now = 1
        /\ deadline = [id \in Id |-> 0]

Tick == /\ now' \in Nat
        /\ UNCHANGED deadline

(* add and adjustExpire *)
Set(id, timeout) == /\ deadline' = [deadline EXCEPT ![id] = now + timeout]
                    /\ UNCHANGED now

(* doWork *)
Remove(id) == /\ deadline[id] # 0
              /\ deadline' = [deadline EXCEPT ![id] = 0]
              /\ UNCHANGED now

Next == \/ Tick
        \/ \E id \in Id, timeout \in Timeouts : Set(id, timeout)
        \/ \E id \in Id : Remove(id)

Spec == Init /\ [][Next]_tableVars

=============================================================================
