----------------------------- MODULE BlockQueue -----------------------------
(***************************************************************************)
(* src/src/log/block_queue.hpp: a bounded queue with a mutex and two       *)
(* condition variables, one for those who find it full and one for those   *)
(* who find it empty.                                                      *)
(*                                                                         *)
(* All accesses to _q and _is_closed are made with _m held, and wait gives *)
(* _m up and blocks in one go, so everything a thread does from getting _m *)
(* to losing it again is one step.  close() and flush() notify without _m. *)
(*                                                                         *)
(* push:  out -> push -> out               pop:  out -> pop -> out         *)
(*               push -> push_wait -> push_woken -> (again) | out          *)
(* close: out -> close -> notify_consumers -> notify_producers -> out      *)
(*                                                                         *)
(* Log conjoins the operations of this module with its own steps.          *)
(***************************************************************************)
EXTENDS Naturals, Sequences, FiniteSets

CONSTANTS Producer,       (* threads that call push                     *)
          Consumer,       (* threads that call pop                      *)
          TimedConsumer,  (* threads that call popTimeout               *)
          Closer,         (* threads that call close and flush          *)
          Item,           (* what is queued                             *)
          NoItem,         (* a string nothing has been assigned to yet  *)
          Capacity        (* _capacity                                  *)

(* assert(capacity > 0); a thread has one use for the queue. *)
ASSUME QueueAssumption ==
    /\ Capacity \in Nat \ {0}
    /\ NoItem \notin Item
    /\ IsFiniteSet(Producer) /\ IsFiniteSet(Consumer) /\ IsFiniteSet(TimedConsumer)
    /\ Producer \cap Consumer = {} /\ Producer \cap TimedConsumer = {}
    /\ Consumer \cap TimedConsumer = {}
    /\ Closer \cap (Producer \cup Consumer \cup TimedConsumer) = {}

Taker == Consumer \cup TimedConsumer
Thread == Producer \cup Taker \cup Closer

VARIABLES que,         (* _q                                                *)
          is_closed,   (* _is_closed                                        *)
          at,          (* where each thread is in the queue's code          *)
          item,        (* the item each thread pushes or has been given     *)
          ok           (* what each thread's last push or pop returned      *)

queueVars == <<que, is_closed, at, item, ok>>

ProducerAt == {"out", "push", "push_wait", "push_woken"}
TakerAt == {"out", "pop", "pop_wait", "pop_woken"}
CloserAt == {"out", "close", "notify_consumers", "notify_producers"}

Init == /\ que = <<>>
        /\ is_closed = FALSE
        /\ at = [t \in Thread |-> "out"]
        /\ item = [t \in Thread |-> NoItem]
        /\ ok = [t \in Thread |-> TRUE]

Goto(t, p) == at' = [at EXCEPT ![t] = p]

ConsumersWaiting == {t \in Taker : at[t] = "pop_wait"}
ProducersWaiting == {t \in Producer : at[t] = "push_wait"}

(* notify_one, after which thread t goes on at p. *)
NotifyConsumer(t, p) ==
    \/ \E c \in ConsumersWaiting : at' = [at EXCEPT ![c] = "pop_woken", ![t] = p]
    \/ ConsumersWaiting = {} /\ Goto(t, p)

NotifyProducer(t, p) ==
    \/ \E c \in ProducersWaiting : at' = [at EXCEPT ![c] = "push_woken", ![t] = p]
    \/ ProducersWaiting = {} /\ Goto(t, p)

(* Mutant of full: one item more than there is room for. *)
fullOffByOne == Len(que) > Capacity

full == Len(que) >= Capacity
empty == que = <<>>

-----------------------------------------------------------------------------
(* push *)

CallPush(t, i) == /\ at[t] = "out"
                  /\ item' = [item EXCEPT ![t] = i]
                  /\ Goto(t, "push")
                  /\ UNCHANGED <<que, is_closed, ok>>

(* A woken thread leaves when the queue is closed; a new call does not ask. *)
GoesOn(t, call, woken) == at[t] = call \/ (at[t] = woken /\ ~is_closed)

PushBlocks(t) == /\ GoesOn(t, "push", "push_woken")
                 /\ full
                 /\ Goto(t, "push_wait")
                 /\ UNCHANGED <<que, is_closed, item, ok>>

(* Mutant of PushItem: it notifies only when the queue was empty. *)
PushItemNotifiesFirst(t) ==
    /\ GoesOn(t, "push", "push_woken")
    /\ ~full
    /\ que' = Append(que, item[t])
    /\ ok' = [ok EXCEPT ![t] = TRUE]
    /\ IF empty THEN NotifyConsumer(t, "out") ELSE Goto(t, "out")
    /\ UNCHANGED <<is_closed, item>>

PushItem(t) == /\ GoesOn(t, "push", "push_woken")
               /\ ~full
               /\ que' = Append(que, item[t])
               /\ ok' = [ok EXCEPT ![t] = TRUE]
               /\ NotifyConsumer(t, "out")
               /\ UNCHANGED <<is_closed, item>>

-----------------------------------------------------------------------------
(* pop and popTimeout *)

CallPop(t) == /\ at[t] = "out"
              /\ Goto(t, "pop")
              /\ UNCHANGED <<que, is_closed, item, ok>>

(* Mutant of PopBlocks: the wait is begun without looking at the queue. *)
PopBlocksUnasked(t) == /\ GoesOn(t, "pop", "pop_woken")
                       /\ Goto(t, "pop_wait")
                       /\ UNCHANGED <<que, is_closed, item, ok>>

PopBlocks(t) == /\ GoesOn(t, "pop", "pop_woken")
                /\ empty
                /\ Goto(t, "pop_wait")
                /\ UNCHANGED <<que, is_closed, item, ok>>

(* Mutant of PopItem: nobody is told of the room it makes. *)
PopItemSilently(t) == /\ GoesOn(t, "pop", "pop_woken")
                      /\ ~empty
                      /\ item' = [item EXCEPT ![t] = Head(que)]
                      /\ que' = Tail(que)
                      /\ ok' = [ok EXCEPT ![t] = TRUE]
                      /\ Goto(t, "out")
                      /\ UNCHANGED is_closed

PopItem(t) == /\ GoesOn(t, "pop", "pop_woken")
              /\ ~empty
              /\ item' = [item EXCEPT ![t] = Head(que)]
              /\ que' = Tail(que)
              /\ ok' = [ok EXCEPT ![t] = TRUE]
              /\ NotifyProducer(t, "out")
              /\ UNCHANGED is_closed

(* return false: woken, and the queue has been closed. *)
FoundClosed(t) == /\ at[t] \in {"push_woken", "pop_woken"}
                  /\ is_closed
                  /\ ok' = [ok EXCEPT ![t] = FALSE]
                  /\ Goto(t, "out")
                  /\ UNCHANGED <<que, is_closed, item>>

(* popTimeout gives up.  wait_for reports a timeout whenever the time is   *)
(* over on return, also to a thread that was notified before.              *)
TimedOut(t) == /\ t \in TimedConsumer
               /\ at[t] \in {"pop_wait", "pop_woken"}
               /\ ok' = [ok EXCEPT ![t] = FALSE]
               /\ Goto(t, "out")
               /\ UNCHANGED <<que, is_closed, item>>

SpuriousWakeup(t) ==
    /\ \/ at[t] = "push_wait" /\ Goto(t, "push_woken")
       \/ at[t] = "pop_wait" /\ Goto(t, "pop_woken")
    /\ UNCHANGED <<que, is_closed, item, ok>>

-----------------------------------------------------------------------------
(* close and flush *)

CallClose(t) == /\ at[t] = "out"
                /\ Goto(t, "close")
                /\ UNCHANGED <<que, is_closed, item, ok>>

SetClosed(t) == /\ at[t] = "close"
                /\ is_closed' = TRUE
                /\ Goto(t, "notify_consumers")
                /\ UNCHANGED <<que, item, ok>>

(* Mutant of NotifyConsumers: close wakes one of them. *)
NotifyConsumersOne(t) == /\ at[t] = "notify_consumers"
                         /\ NotifyConsumer(t, "notify_producers")
                         /\ UNCHANGED <<que, is_closed, item, ok>>

NotifyConsumers(t) ==
    /\ at[t] = "notify_consumers"
    /\ at' = [u \in Thread |-> IF u = t THEN "notify_producers"
                               ELSE IF u \in ConsumersWaiting THEN "pop_woken" ELSE at[u]]
    /\ UNCHANGED <<que, is_closed, item, ok>>

NotifyProducers(t) ==
    /\ at[t] = "notify_producers"
    /\ at' = [u \in Thread |-> IF u = t THEN "out"
                               ELSE IF u \in ProducersWaiting THEN "push_woken" ELSE at[u]]
    /\ UNCHANGED <<que, is_closed, item, ok>>

Flush(t) == /\ at[t] = "out"
            /\ NotifyConsumer(t, "out")
            /\ UNCHANGED <<que, is_closed, item, ok>>

-----------------------------------------------------------------------------
(* What a thread inside the queue does next, and who calls what. *)
Step(t) == \/ PushBlocks(t) \/ PushItem(t)
           \/ PopBlocks(t) \/ PopItem(t) \/ FoundClosed(t) \/ TimedOut(t)
           \/ SetClosed(t) \/ NotifyConsumers(t) \/ NotifyProducers(t)

Next == \/ \E t \in Thread : Step(t) \/ SpuriousWakeup(t)
        \/ \E t \in Producer, i \in Item : CallPush(t, i)
        \/ \E t \in Taker : CallPop(t)
        \/ \E t \in Closer : CallClose(t) \/ Flush(t)

(* A thread inside the queue goes on when it can (a timed wait ends when   *)
(* its time is over) and consumers come back for more.  Producers and      *)
(* closers call when they like; nobody relies on a spurious wakeup.        *)
Fairness == /\ \A t \in Thread : WF_queueVars(Step(t))
            /\ \A t \in Taker : WF_queueVars(CallPop(t))

Spec == Init /\ [][Next]_queueVars /\ Fairness

-----------------------------------------------------------------------------
TypeOK ==
    /\ que \in Seq(Item)
    /\ Len(que) <= Capacity
    /\ is_closed \in BOOLEAN
    /\ at \in [Thread -> ProducerAt \cup TakerAt \cup CloserAt]
    /\ \A t \in Producer : at[t] \in ProducerAt
    /\ \A t \in Taker : at[t] \in TakerAt
    /\ \A t \in Closer : at[t] \in CloserAt
    /\ item \in [Thread -> Item \cup {NoItem}]
    /\ \A t \in Producer : at[t] # "out" => item[t] \in Item
    /\ ok \in [Thread -> BOOLEAN]

ConsumersWoken == {t \in Taker : at[t] = "pop_woken"}
ProducersWoken == {t \in Producer : at[t] = "push_woken"}

(* Those who have given up in popTimeout and have not been back since. *)
GaveUp == {t \in TimedConsumer : at[t] \in {"out", "pop"} /\ ~ok[t]}
ConsumersReady == ConsumersWoken \cup GaveUp

(* No consumer's wakeup is lost: until the queue is closed, a consumer     *)
(* sleeps only while every queued item has a consumer coming for it, who   *)
(* has been woken (block_queue.hpp 95-123: each push notifies one, and     *)
(* wait tests again) or has run out of time and is yet to come back (164:  *)
(* popTimeout may spend a notification on a timeout, and no more than one).*)
ConsumersAwake == ~is_closed /\ ConsumersWaiting # {} =>
                      Len(que) <= Cardinality(ConsumersReady)

(* The same for producers: one sleeps only while every free place has a    *)
(* woken producer coming for it (each pop notifies one).                   *)
ProducersAwake == ~is_closed /\ ProducersWaiting # {} =>
                      Capacity - Len(que) <= Cardinality(ProducersWoken)

(* No wakeup is lost on either side of the queue.                          *)
NoLostWakeup == ConsumersAwake /\ ProducersAwake

(* What is queued gets out: a queue that is never closed and has something *)
(* in it again and again is popped again and again.                        *)
ItemsAreTaken ==
    []<>(~empty) /\ [](~is_closed) => []<><<\E t \in Taker : PopItem(t)>>_queueVars

(* close lets everybody go who waits when it notifies (87-91): pushes and  *)
(* pops that are blocked then return.                                      *)
CloseReleases ==
    \A k \in Closer, t \in Producer \cup Taker :
        (at[k] = "notify_consumers" /\ at[t] \in {"push_wait", "pop_wait"}) ~> at[t] = "out"

=============================================================================
