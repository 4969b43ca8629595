------------------------------- MODULE Timer -------------------------------
(***************************************************************************)
(* src/src/timer/timer.cc: the heap of deadlines, the index from an id to  *)
(* its place in it, and the loops that restore the order of the heap.      *)
(*                                                                         *)
(* The main thread is the only user.  A call is one step up to its first   *)
(* loop; each turn of _siftup and _siftdown is a step:                     *)
(*   idle -> up -> idle          (add of a new id)                         *)
(*   idle -> up -> down -> idle  (_delete)                                 *)
(*   idle -> down -> idle        (adjustExpire)                            *)
(* Position p stands for index p - 1, so that the parent of p is p \div 2. *)
(***************************************************************************)
EXTENDS Integers, Sequences

CONSTANTS Id,            (* the ids, descriptors of connections            *)
          NoId,          (* the id of a placeholder: 0, and a connection's *)
                         (* is greater (the assertion at server.cc 98)     *)
          Placeholders,  (* the 64 of the constructor                      *)
          Timeouts,      (* the timeouts calls are made with; the server's *)
                         (* are all Server::_timeout_ms                    *)
          MaxNow         (* bound: how far the clock goes                  *)

ASSUME TimerAssumption ==
    /\ NoId \notin Id
    /\ Placeholders \in Nat \ {0}
    /\ Timeouts \subseteq Nat
    /\ MaxNow \in Nat

VARIABLES up,          (* the process is running                          *)
          now,         (* Clock::now(); it starts after the epoch         *)
          heap,        (* _heap                                           *)
          ref,         (* _ref: the position of each known id, or 0       *)
          pc,          (* the loop that is running                        *)
          cur,         (* its i                                           *)
          next,        (* where _delete's _siftdown will begin, or 0      *)
          unsifted     (* history: a call has moved a deadline in a       *)
                       (* direction in which it does not sift             *)

vars == <<up, now, heap, ref, pc, cur, next, unsifted>>

Known(id) == ref[id] # 0
Deadline(timeout) == now + timeout

(* Mutant of Less: the other way round. *)
LessReversed(p, q) == heap[q].expire < heap[p].expire

Less(p, q) == heap[p].expire < heap[q].expire

(* _heap(64): nodes with expire at the epoch and an empty callback. *)
Init == /\ up = TRUE
        /\ now = 1
        /\ heap = [p \in 1 .. Placeholders |-> [id |-> NoId, expire |-> 0]]
        /\ ref = [id \in Id |-> 0]
        /\ pc = "idle"
        /\ cur = 0
        /\ next = 0
        /\ unsifted = FALSE

(* high_resolution_clock is not a steady one: it may be set back.          *)
Tick == /\ now' \in 1 .. MaxNow
        /\ UNCHANGED <<up, heap, ref, pc, cur, next, unsifted>>

Begin(loop, i, then) == pc' = loop /\ cur' = i /\ next' = then
Idle == Begin("idle", 0, 0)

-----------------------------------------------------------------------------
(* _swap *)

Swapped(p, q) == [heap EXCEPT ![p] = heap[q], ![q] = heap[p]]

(* Mutant of RefSwapped: only one of the two is recorded. *)
RefSwappedHalf(p, q) == [id \in Id |-> IF id = heap[q].id THEN p ELSE ref[id]]

RefSwapped(p, q) == [id \in Id |-> IF id = heap[p].id THEN q
                                   ELSE IF id = heap[q].id THEN p ELSE ref[id]]

-----------------------------------------------------------------------------
(* The public operations *)

AddNew(id, timeout) ==
    /\ pc = "idle"
    /\ ~Known(id)
    /\ heap' = Append(heap, [id |-> id, expire |-> Deadline(timeout)])
    /\ ref' = [ref EXCEPT ![id] = Len(heap) + 1]
    /\ Begin("up", Len(heap) + 1, 0)
    /\ UNCHANGED <<up, now, unsifted>>

(* A known id: the deadline changes in place, earlier or later. *)
Override(id, timeout) ==
    /\ pc = "idle"
    /\ Known(id)
    /\ heap' = [heap EXCEPT ![ref[id]].expire = Deadline(timeout)]
    /\ unsifted' = (unsifted \/ Deadline(timeout) # heap[ref[id]].expire)
    /\ UNCHANGED <<up, now, ref, pc, cur, next>>

(* An earlier deadline is not sifted up. *)
AdjustExpire(id, timeout) ==
    /\ pc = "idle"
    /\ Known(id)
    /\ heap' = [heap EXCEPT ![ref[id]].expire = Deadline(timeout)]
    /\ unsifted' = (unsifted \/ Deadline(timeout) < heap[ref[id]].expire)
    /\ Begin("down", ref[id], 0)
    /\ UNCHANGED <<up, now, ref>>

(* Mutant of RemoveAt: pop_back without the swap. *)
RemoveAtPopsLast(p) ==
    /\ heap' = SubSeq(heap, 1, Len(heap) - 1)
    /\ ref' = [ref EXCEPT ![heap[p].id] = 0]

(* _delete(p) up to its loops: the last node takes the place of node p.    *)
RemoveAt(p) ==
    /\ heap' = SubSeq(Swapped(p, Len(heap)), 1, Len(heap) - 1)
    /\ ref' = [RefSwapped(p, Len(heap)) EXCEPT ![heap[p].id] = 0]

(* Mutant of DoWork: sifts the place the last node has left. *)
DoWorkSiftsLast(id) == /\ pc = "idle"
                       /\ Known(id) /\ ref[id] < Len(heap)
                       /\ RemoveAt(ref[id])
                       /\ Begin("up", Len(heap), ref[id])
                       /\ UNCHANGED <<up, now, unsifted>>

(* Its callback is the user's and leaves the timer alone. *)
DoWork(id) == /\ pc = "idle"
              /\ Known(id) /\ ref[id] < Len(heap)
              /\ RemoveAt(ref[id])
              /\ Begin("up", ref[id], ref[id])
              /\ UNCHANGED <<up, now, unsifted>>

(* The last node: _siftup asserts an index that is no longer in the heap.  *)
DoWorkOnLast(id) == /\ pc = "idle"
                    /\ Known(id) /\ ref[id] = Len(heap)
                    /\ RemoveAt(ref[id])
                    /\ up' = FALSE
                    /\ UNCHANGED <<now, pc, cur, next, unsifted>>

(* getNextTick: _tick finds a placeholder in front, whose deadline is over *)
(* and whose empty callback throws.                                        *)
GetNextTick == /\ pc = "idle"
               /\ heap[1].id = NoId /\ heap[1].expire <= now
               /\ up' = FALSE
               /\ UNCHANGED <<now, heap, ref, pc, cur, next, unsifted>>

-----------------------------------------------------------------------------
(* _siftup and _siftdown.  At the root, index 0, _siftup would compute its *)
(* parent as (0 - 1) / 2 in size_t and leave the heap; it never gets there *)
(* (SiftStaysInside).                                                      *)

SiftUp == /\ pc = "up"
          /\ cur > 1
          /\ ~Less(cur \div 2, cur)
          /\ heap' = Swapped(cur, cur \div 2)
          /\ ref' = RefSwapped(cur, cur \div 2)
          /\ Begin("up", cur \div 2, next)
          /\ UNCHANGED <<up, now, unsifted>>

SiftUpEnds == /\ pc = "up"
              /\ cur > 1
              /\ Less(cur \div 2, cur)
              /\ IF next = 0 THEN Idle ELSE Begin("down", next, 0)
              /\ UNCHANGED <<up, now, heap, ref, unsifted>>

(* Mutant of Child: always the left one. *)
ChildLeft(p) == 2 * p

Child(p) == IF 2 * p < Len(heap) /\ Less(2 * p + 1, 2 * p) THEN 2 * p + 1 ELSE 2 * p

SiftDown == /\ pc = "down"
            /\ 2 * cur <= Len(heap)
            /\ ~Less(cur, Child(cur))
            /\ heap' = Swapped(cur, Child(cur))
            /\ ref' = RefSwapped(cur, Child(cur))
            /\ Begin("down", Child(cur), 0)
            /\ UNCHANGED <<up, now, unsifted>>

SiftDownEnds == /\ pc = "down"
                /\ 2 * cur <= Len(heap) => Less(cur, Child(cur))
                /\ Idle
                /\ UNCHANGED <<up, now, heap, ref, unsifted>>

-----------------------------------------------------------------------------
Loop == SiftUp \/ SiftUpEnds \/ SiftDown \/ SiftDownEnds

(* The process has ended. *)
Aborted == ~up /\ UNCHANGED vars

Next == \/ up /\ (Tick \/ Loop \/ GetNextTick)
        \/ \E id \in Id, timeout \in Timeouts :
               up /\ (\/ AddNew(id, timeout) \/ Override(id, timeout)
                      \/ AdjustExpire(id, timeout))
        \/ \E id \in Id : up /\ (DoWork(id) \/ DoWorkOnLast(id))
        \/ Aborted

Spec == Init /\ [][Next]_vars

-----------------------------------------------------------------------------
Node == [id : Id \cup {NoId}, expire : Nat]

TypeOK == /\ up \in BOOLEAN
          /\ now \in Nat \ {0}
          /\ heap \in Seq(Node)
          /\ Placeholders <= Len(heap)
          /\ ref \in [Id -> Nat]
          /\ pc \in {"idle", "up", "down"}
          /\ cur \in 0 .. Len(heap)
          /\ next \in 0 .. Len(heap)
          /\ pc = "idle" <=> cur = 0
          /\ unsifted \in BOOLEAN

(* _ref and _heap are inverse to each other through every swap, removal    *)
(* and growth (timer.cc 19-34, 79-87, 122-129): the place recorded for an  *)
(* id holds its node, and each node's id leads back to it.                 *)
RefExact ==
    /\ \A id \in Id : Known(id) => ref[id] \in DOMAIN heap /\ heap[ref[id]].id = id
    /\ \A p \in DOMAIN heap : heap[p].id # NoId => ref[heap[p].id] = p

(* _siftup stops before the root, where (i - 1) / 2 would wrap around      *)
(* (timer.cc 93): no loop ever moves a node the constructor made.          *)
SiftStaysInside == pc # "idle" => cur > Placeholders

(* When no call is running no node expires before its parent (the comment  *)
(* at timer.h 61), whatever timeouts the calls were made with and whatever *)
(* the clock did between them, as long as add has not moved a known id's   *)
(* deadline, which it does not sift (timer.cc 30-33), and adjustExpire has *)
(* not moved one to an earlier time, which it only sifts down (11-16).     *)
HeapOrder == pc = "idle" /\ up /\ ~unsifted =>
                 \A p \in 2 .. Len(heap) : ~Less(p, p \div 2)

-----------------------------------------------------------------------------
(* The deadline that is found for an id: that of the node its index names. *)
DeadlineOf == [id \in Id |-> IF ref[id] \in DOMAIN heap THEN heap[ref[id]].expire ELSE 0]

(* Whatever the loops do to heap and index, an id keeps the deadline it    *)
(* was last given until it is removed, in the middle of a call as well,    *)
(* and a call for one id leaves all others alone (timer.cc 11-43, 79-129). *)
Table == INSTANCE TimerTable WITH deadline <- DeadlineOf
ImplementsTable == Table!Spec

=============================================================================
