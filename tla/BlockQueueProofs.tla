-------------------------- MODULE BlockQueueProofs --------------------------
(***************************************************************************)
(* Theorems about BlockQueue, for every capacity and every set of threads. *)
(***************************************************************************)
EXTENDS BlockQueue, SequenceTheorems, FiniteSetTheorems, TLAPS

(* A step of Next by its actions. *)
Action == \/ \E t \in Thread :
                 \/ PushBlocks(t) \/ PushItem(t) \/ PopBlocks(t) \/ PopItem(t)
                 \/ FoundClosed(t) \/ TimedOut(t) \/ SpuriousWakeup(t)
                 \/ SetClosed(t) \/ NotifyConsumers(t) \/ NotifyProducers(t)
          \/ \E t \in Producer, i \in Item : CallPush(t, i)
          \/ \E t \in Taker : CallPop(t)
          \/ \E t \in Closer : CallClose(t) \/ Flush(t)
          \/ UNCHANGED queueVars

LEMMA NextIsAction == [Next]_queueVars => Action
  BY DEF Next, Step, Action

(* The roles a thread can have at a point of the code. *)
LEMMA Roles == ASSUME TypeOK, NEW t \in Thread
               PROVE  /\ at[t] \in {"push", "push_wait", "push_woken"} =>
                             t \in Producer /\ t \notin Taker /\ t \notin Closer
                      /\ at[t] \in {"pop", "pop_wait", "pop_woken"} =>
                             t \in Taker /\ t \notin Producer /\ t \notin Closer
                      /\ at[t] \in {"close", "notify_consumers", "notify_producers"} =>
                             t \in Closer /\ t \notin Producer /\ t \notin Taker
<1>a. Closer \cap (Producer \cup Consumer \cup TimedConsumer) = {}
  BY QueueAssumption
<1>b. Producer \cap Consumer = {} /\ Producer \cap TimedConsumer = {}
  BY QueueAssumption
<1>0. /\ t \in Producer => t \notin Taker /\ t \notin Closer
      /\ t \in Taker => t \notin Producer /\ t \notin Closer
  BY <1>a, <1>b DEF Taker
<1>1. CASE t \in Producer
  BY <1>0, <1>1 DEF TypeOK, ProducerAt
<1>2. CASE t \in Taker
  BY <1>0, <1>2 DEF TypeOK, TakerAt
<1>3. CASE t \in Closer
  BY <1>0, <1>3 DEF TypeOK, CloserAt
<1> QED
  BY <1>1, <1>2, <1>3 DEF Thread

-----------------------------------------------------------------------------
(* Types. *)

LEMMA TypeInit == Init => TypeOK
<1> SUFFICES ASSUME Init PROVE TypeOK
  OBVIOUS
<1>1. \A t \in Thread : at[t] = "out" /\ ok[t] = TRUE /\ item[t] = NoItem
  BY DEF Init
<1>2. que \in Seq(Item) /\ Len(que) = 0
  BY DEF Init
<1>3. at \in [Thread -> ProducerAt \cup TakerAt \cup CloserAt]
  BY DEF Init, ProducerAt
<1>4. ok \in [Thread -> BOOLEAN] /\ item \in [Thread -> Item \cup {NoItem}]
  BY DEF Init
<1>5. /\ \A t \in Producer : at[t] \in ProducerAt
      /\ \A t \in Taker : at[t] \in TakerAt
      /\ \A t \in Closer : at[t] \in CloserAt
      /\ \A t \in Producer : at[t] = "out"
  BY <1>1 DEF Thread, ProducerAt, TakerAt, CloserAt
<1>6. is_closed \in BOOLEAN
  BY DEF Init
<1>7. Len(que) <= Capacity
  BY <1>2, QueueAssumption
<1> QED
  BY <1>2, <1>3, <1>4, <1>5, <1>6, <1>7 DEF TypeOK

(* The program points stay those of each thread's role. *)
AtOK == /\ at \in [Thread -> ProducerAt \cup TakerAt \cup CloserAt]
        /\ \A t \in Producer : at[t] \in ProducerAt
        /\ \A t \in Taker : at[t] \in TakerAt
        /\ \A t \in Closer : at[t] \in CloserAt

(* A notify_one leaves every other thread where it belongs. *)
LEMMA NotifyKeepsRoles ==
    ASSUME TypeOK, NEW t \in Thread, NEW p,
           NotifyConsumer(t, p) \/ NotifyProducer(t, p),
           p = "out" \/ (p = "notify_producers" /\ t \in Closer)
    PROVE  /\ AtOK'
           /\ \A u \in Producer : at'[u] # "out" => at[u] # "out"
  BY QueueAssumption DEF NotifyConsumer, NotifyProducer, Goto, ConsumersWaiting,
     ProducersWaiting, TypeOK, AtOK, Thread, Taker,
     ProducerAt, TakerAt, CloserAt

LEMMA TypeStep == TypeOK /\ Action => TypeOK'
<1> SUFFICES ASSUME TypeOK, Action PROVE TypeOK'
  OBVIOUS
<1> USE QueueAssumption DEF TypeOK, Thread, Taker, Goto, ProducerAt, TakerAt, CloserAt
<1>1. ASSUME NEW t \in Thread, PushBlocks(t) PROVE TypeOK'
  BY <1>1, Roles DEF PushBlocks, GoesOn
<1>2. ASSUME NEW t \in Thread, PushItem(t) PROVE TypeOK'
  <2>1. item[t] \in Item
    BY <1>2, Roles DEF PushItem, GoesOn
  <2>2. que' \in Seq(Item) /\ Len(que') <= Capacity
    BY <1>2, <2>1, AppendProperties DEF PushItem, full
  <2>3. AtOK' /\ \A u \in Producer : at'[u] # "out" => at[u] # "out"
    BY <1>2, NotifyKeepsRoles DEF PushItem
  <2> QED
    BY <1>2, <2>2, <2>3 DEF PushItem, AtOK
<1>3. ASSUME NEW t \in Thread, PopBlocks(t) PROVE TypeOK'
  BY <1>3, Roles DEF PopBlocks, GoesOn
<1>4. ASSUME NEW t \in Thread, PopItem(t) PROVE TypeOK'
  <2>1. Head(que) \in Item /\ Tail(que) \in Seq(Item) /\ Len(Tail(que)) = Len(que) - 1
    BY <1>4, HeadTailProperties DEF PopItem, empty
  <2>2. AtOK' /\ \A u \in Producer : at'[u] # "out" => at[u] # "out"
    BY <1>4, NotifyKeepsRoles DEF PopItem
  <2>3. que' \in Seq(Item) /\ Len(que') <= Capacity
    BY <1>4, <2>1, LenProperties DEF PopItem
  <2>4. t \in Taker /\ t \notin Producer
    BY <1>4, Roles DEF PopItem, GoesOn
  <2>5. item' \in [Thread -> Item \cup {NoItem}] /\ \A u \in Producer : item'[u] = item[u]
    BY <1>4, <2>1, <2>4 DEF PopItem
  <2> QED
    BY <1>4, <2>2, <2>3, <2>5 DEF PopItem, AtOK
<1>5. ASSUME NEW t \in Thread, FoundClosed(t) PROVE TypeOK'
  BY <1>5 DEF FoundClosed
<1>6. ASSUME NEW t \in Thread, TimedOut(t) PROVE TypeOK'
  BY <1>6 DEF TimedOut
<1>7. ASSUME NEW t \in Thread, SpuriousWakeup(t) PROVE TypeOK'
  BY <1>7, Roles DEF SpuriousWakeup
<1>8. ASSUME NEW t \in Thread, SetClosed(t) PROVE TypeOK'
  BY <1>8, Roles DEF SetClosed
<1>9. ASSUME NEW t \in Thread, NotifyConsumers(t) PROVE TypeOK'
  BY <1>9, Roles DEF NotifyConsumers, ConsumersWaiting
<1>10. ASSUME NEW t \in Thread, NotifyProducers(t) PROVE TypeOK'
  BY <1>10, Roles DEF NotifyProducers, ProducersWaiting
<1>11. ASSUME NEW t \in Producer, NEW i \in Item, CallPush(t, i) PROVE TypeOK'
  BY <1>11 DEF CallPush
<1>12. ASSUME NEW t \in Taker, CallPop(t) PROVE TypeOK'
  BY <1>12 DEF CallPop
<1>13. ASSUME NEW t \in Closer, CallClose(t) PROVE TypeOK'
  BY <1>13 DEF CallClose
<1>14. ASSUME NEW t \in Closer, Flush(t) PROVE TypeOK'
  BY <1>14, NotifyKeepsRoles DEF Flush, AtOK
<1>15. CASE UNCHANGED queueVars
  BY <1>15 DEF queueVars
<1> QED
  BY <1>1, <1>2, <1>3, <1>4, <1>5, <1>6, <1>7, <1>8, <1>9, <1>10, <1>11,
     <1>12, <1>13, <1>14, <1>15 DEF Action

(* The queue never holds more than _capacity items, and every thread is at *)
(* a point of the operations its role has.                                 *)
THEOREM TypeCorrect == Spec => []TypeOK
<1>1. TypeOK /\ [Next]_queueVars => TypeOK'
  BY NextIsAction, TypeStep
<1> QED
  BY TypeInit, <1>1, PTL DEF Spec
-----------------------------------------------------------------------------
(* Lost wakeups. *)

LEMMA WokenFinite == /\ IsFiniteSet(ConsumersReady) /\ Cardinality(ConsumersReady) \in Nat
                     /\ IsFiniteSet(ProducersWoken) /\ Cardinality(ProducersWoken) \in Nat
<1>1. IsFiniteSet(Taker)
  BY QueueAssumption, FS_Union DEF Taker
<1>2. IsFiniteSet(ConsumersReady) /\ IsFiniteSet(ProducersWoken)
  BY <1>1, QueueAssumption, FS_Subset DEF ConsumersReady, ConsumersWoken,
                                          GaveUp, ProducersWoken, Taker
<1> QED
  BY <1>2, FS_CardinalityType

LEMMA OneMore == ASSUME NEW S, IsFiniteSet(S), NEW x, x \notin S
                 PROVE  Cardinality(S \cup {x}) = Cardinality(S) + 1
  BY FS_AddElement

LEMMA OneLess == ASSUME NEW S, IsFiniteSet(S), NEW x
                 PROVE  Cardinality(S \ {x}) >= Cardinality(S) - 1
<1>0. Cardinality(S) \in Nat
  BY FS_CardinalityType
<1>1. CASE x \in S
  <2>1. Cardinality(S \ {x}) = Cardinality(S) - 1
    BY <1>1, FS_RemoveElement
  <2> QED
    BY <1>0, <2>1
<1>2. CASE x \notin S
  <2>1. S \ {x} = S
    BY <1>2
  <2>2. Cardinality(S) >= Cardinality(S) - 1
    BY <1>0
  <2> QED
    BY <2>1, <2>2
<1> QED
  BY <1>1, <1>2

(* What a step does to the consumers' side, in the four ways that keep     *)
(* ConsumersAwake: it changes nothing there, it wakes one, it takes an     *)
(* item, or it leaves the queue empty.                                     *)
ConsumersFrame == /\ que' = que /\ (~is_closed' => ~is_closed)
                  /\ ConsumersWaiting' \subseteq ConsumersWaiting
                  /\ ConsumersReady \subseteq ConsumersReady'

LEMMA FrameKeepsConsumers == TypeOK /\ ConsumersAwake /\ ConsumersFrame => ConsumersAwake'
<1> SUFFICES ASSUME TypeOK, ConsumersAwake, ConsumersFrame PROVE ConsumersAwake'
  OBVIOUS
<1>1. IsFiniteSet(ConsumersReady')
  <2>1. IsFiniteSet(Taker)
    BY QueueAssumption, FS_Union DEF Taker
  <2> QED
    BY <2>1, FS_Subset DEF ConsumersReady, ConsumersWoken, GaveUp, Taker
<1>2. Cardinality(ConsumersReady) <= Cardinality(ConsumersReady')
  BY <1>1, FS_Subset DEF ConsumersFrame
<1>3. Cardinality(ConsumersReady') \in Nat /\ Len(que) \in Nat
  BY <1>1, FS_CardinalityType, LenProperties DEF TypeOK
<1> QED
  BY <1>2, <1>3, WokenFinite DEF ConsumersFrame, ConsumersAwake

LEMMA EmptyKeepsConsumers == que' = <<>> => ConsumersAwake'
<1> SUFFICES ASSUME que' = <<>> PROVE ConsumersAwake'
  OBVIOUS
<1>1. IsFiniteSet(Taker)
  BY QueueAssumption, FS_Union DEF Taker
<1>2. IsFiniteSet(ConsumersReady')
  BY <1>1, FS_Subset DEF ConsumersReady, ConsumersWoken, GaveUp, Taker
<1> QED
  BY <1>2, FS_CardinalityType DEF ConsumersAwake

(* The consumers' side of a step.  A timed pop that leaves without the     *)
(* item it was woken for stays accountable for it until it comes back.     *)
LEMMA ConsumersStep ==
    TypeOK /\ TypeOK' /\ ConsumersAwake /\ Action => ConsumersAwake'
<1> SUFFICES ASSUME TypeOK, TypeOK', ConsumersAwake, Action
             PROVE  ConsumersAwake'
  OBVIOUS
<1>0. Len(que) \in Nat /\ Len(que') \in Nat
  BY LenProperties DEF TypeOK
<1> USE QueueAssumption DEF Goto
<1>1. ASSUME NEW t \in Thread, PushBlocks(t) \/ SetClosed(t) PROVE ConsumersAwake'
  <2>1. ConsumersFrame
    BY <1>1 DEF PushBlocks, SetClosed, GoesOn, ConsumersFrame,
                ConsumersWaiting, ConsumersReady, ConsumersWoken, GaveUp,
                TypeOK, ProducerAt, Thread, Taker
  <2> QED
    BY <2>1, FrameKeepsConsumers
<1>2. ASSUME NEW t \in Thread, PushItem(t) PROVE ConsumersAwake'
  <2>1. Len(que') = Len(que) + 1 /\ is_closed' = is_closed
    <3>1. item[t] \in Item
      BY <1>2, Roles DEF PushItem, GoesOn, TypeOK
    <3> QED
      BY <1>2, <3>1, AppendProperties DEF PushItem, TypeOK
  <2>2. CASE ConsumersWaiting = {}
    <3>1. at' = [at EXCEPT ![t] = "out"]
      BY <1>2, <2>2 DEF PushItem, NotifyConsumer
    <3>2. ConsumersWaiting' = {}
      BY <2>2, <3>1 DEF ConsumersWaiting, TypeOK, Thread
    <3> QED
      BY <3>2 DEF ConsumersAwake
  <2>3. CASE ConsumersWaiting # {}
    <3>1. PICK c \in ConsumersWaiting : at' = [at EXCEPT ![c] = "pop_woken", ![t] = "out"]
      BY <1>2, <2>3 DEF PushItem, NotifyConsumer
    <3>2. c \in Taker /\ t \notin Taker /\ c # t
      BY <1>2, Roles DEF PushItem, GoesOn, ConsumersWaiting
    <3>3. ConsumersReady' = ConsumersReady \cup {c} /\ c \notin ConsumersReady
      BY <1>2, <3>1, <3>2 DEF PushItem, ConsumersReady, ConsumersWoken, GaveUp,
                              ConsumersWaiting, TypeOK, Thread, Taker
    <3>4. Cardinality(ConsumersReady') = Cardinality(ConsumersReady) + 1
      BY <3>3, WokenFinite, OneMore
    <3> QED
      BY <1>0, <2>1, <2>3, <3>4, WokenFinite DEF ConsumersAwake
  <2> QED
    BY <2>2, <2>3
<1>3. ASSUME NEW t \in Thread, PopBlocks(t) PROVE ConsumersAwake'
  BY <1>3, EmptyKeepsConsumers DEF PopBlocks, empty
<1>4. ASSUME NEW t \in Thread, PopItem(t) PROVE ConsumersAwake'
  <2>1. Len(que') = Len(que) - 1 /\ is_closed' = is_closed
    BY <1>4, HeadTailProperties DEF PopItem, empty, TypeOK
  <2>2. t \in Taker
    BY <1>4, Roles DEF PopItem, GoesOn
  <2>3. /\ ConsumersWaiting' = ConsumersWaiting
        /\ ConsumersReady' = ConsumersReady \ {t}
    <3>1. CASE Goto(t, "out")
      BY <1>4, <2>2, <3>1 DEF PopItem, GoesOn, ConsumersWaiting,
                              ConsumersReady, ConsumersWoken, GaveUp, TypeOK,
                              Thread
    <3>2. ASSUME NEW c \in ProducersWaiting,
                 at' = [at EXCEPT ![c] = "push_woken", ![t] = "out"]
          PROVE  /\ ConsumersWaiting' = ConsumersWaiting
                 /\ ConsumersReady' = ConsumersReady \ {t}
      BY <1>4, <2>2, <3>2 DEF PopItem, GoesOn, ConsumersWaiting,
                              ConsumersReady, ConsumersWoken, GaveUp,
                              ProducersWaiting, TypeOK, Thread, Taker
    <3> QED
      BY <1>4, <3>1, <3>2 DEF PopItem, NotifyProducer
  <2>4. Cardinality(ConsumersReady') >= Cardinality(ConsumersReady) - 1
    BY <2>3, WokenFinite, OneLess
  <2>5. Cardinality(ConsumersReady') \in Nat
    BY <2>3, WokenFinite, FS_RemoveElement, FS_Subset, FS_CardinalityType
  <2> QED
    BY <1>0, <2>1, <2>3, <2>4, <2>5, WokenFinite DEF ConsumersAwake
<1>5. ASSUME NEW t \in Thread, FoundClosed(t) PROVE ConsumersAwake'
  BY <1>5 DEF FoundClosed, ConsumersAwake
<1>6. ASSUME NEW t \in Thread, TimedOut(t) PROVE ConsumersAwake'
  <2>1. ConsumersFrame
    BY <1>6 DEF TimedOut, ConsumersFrame, ConsumersWaiting, ConsumersReady,
                ConsumersWoken, GaveUp, TypeOK, Thread, Taker
  <2> QED
    BY <2>1, FrameKeepsConsumers
<1>7. ASSUME NEW t \in Thread, SpuriousWakeup(t) PROVE ConsumersAwake'
  <2>1. ConsumersFrame
    BY <1>7 DEF SpuriousWakeup, ConsumersFrame, ConsumersWaiting,
                ConsumersReady, ConsumersWoken, GaveUp, TypeOK, Thread, Taker
  <2> QED
    BY <2>1, FrameKeepsConsumers
<1>8. ASSUME NEW t \in Thread, NotifyConsumers(t) \/ NotifyProducers(t) PROVE ConsumersAwake'
  <2>1. ConsumersFrame
    BY <1>8, Roles DEF NotifyConsumers, NotifyProducers, ConsumersFrame,
                       ConsumersWaiting, ConsumersReady, ConsumersWoken,
                       GaveUp, ProducersWaiting, TypeOK, Thread, Taker
  <2> QED
    BY <2>1, FrameKeepsConsumers
<1>9. ASSUME NEW t \in Producer, NEW i \in Item, CallPush(t, i) PROVE ConsumersAwake'
  <2>1. ConsumersFrame
    BY <1>9 DEF CallPush, ConsumersFrame, ConsumersWaiting, ConsumersReady,
                ConsumersWoken, GaveUp, TypeOK, Thread, Taker
  <2> QED
    BY <2>1, FrameKeepsConsumers
<1>10. ASSUME NEW t \in Taker, CallPop(t) PROVE ConsumersAwake'
  <2>1. ConsumersFrame
    BY <1>10 DEF CallPop, ConsumersFrame, ConsumersWaiting, ConsumersReady,
                 ConsumersWoken, GaveUp, TypeOK, Thread
  <2> QED
    BY <2>1, FrameKeepsConsumers
<1>11. ASSUME NEW t \in Closer, CallClose(t) PROVE ConsumersAwake'
  <2>1. ConsumersFrame
    BY <1>11 DEF CallClose, ConsumersFrame, ConsumersWaiting, ConsumersReady,
                 ConsumersWoken, GaveUp, TypeOK, Thread, Taker
  <2> QED
    BY <2>1, FrameKeepsConsumers
<1>12. ASSUME NEW t \in Closer, Flush(t) PROVE ConsumersAwake'
  <2>1. ConsumersFrame
    BY <1>12 DEF Flush, NotifyConsumer, ConsumersFrame, ConsumersWaiting,
                 ConsumersReady, ConsumersWoken, GaveUp, TypeOK, Thread, Taker
  <2> QED
    BY <2>1, FrameKeepsConsumers
<1>13. CASE UNCHANGED queueVars
  <2>1. ConsumersFrame
    BY <1>13 DEF queueVars, ConsumersFrame, ConsumersWaiting, ConsumersReady,
                 ConsumersWoken, GaveUp
  <2> QED
    BY <2>1, FrameKeepsConsumers
<1> QED
  BY <1>1, <1>2, <1>3, <1>4, <1>5, <1>6, <1>7, <1>8, <1>9, <1>10, <1>11,
     <1>12, <1>13 DEF Action

(* No consumer's wakeup is lost, for any number of threads and any         *)
(* capacity: each timeout of popTimeout leaves at most one item behind.    *)
THEOREM NoLostConsumer == Spec => []ConsumersAwake
<1>1. Init => ConsumersAwake
  BY DEF Init, ConsumersAwake, ConsumersWaiting, Thread
<1>2. TypeOK /\ TypeOK' /\ ConsumersAwake /\ [Next]_queueVars => ConsumersAwake'
  BY NextIsAction, ConsumersStep
<1> QED
  BY TypeCorrect, <1>1, <1>2, PTL DEF Spec
-----------------------------------------------------------------------------
(* The producers' side. *)

ProducersFrame == /\ que' = que /\ (~is_closed' => ~is_closed)
                  /\ ProducersWaiting' \subseteq ProducersWaiting
                  /\ ProducersWoken \subseteq ProducersWoken'

LEMMA FrameKeepsProducers == TypeOK /\ ProducersAwake /\ ProducersFrame => ProducersAwake'
<1> SUFFICES ASSUME TypeOK, ProducersAwake, ProducersFrame PROVE ProducersAwake'
  OBVIOUS
<1>1. IsFiniteSet(ProducersWoken')
  BY QueueAssumption, FS_Subset DEF ProducersWoken
<1>2. Cardinality(ProducersWoken) <= Cardinality(ProducersWoken')
  BY <1>1, FS_Subset DEF ProducersFrame
<1>3. Cardinality(ProducersWoken') \in Nat /\ Len(que) \in Nat
  BY <1>1, FS_CardinalityType, LenProperties DEF TypeOK
<1> QED
  BY <1>2, <1>3, WokenFinite, QueueAssumption DEF ProducersFrame, ProducersAwake

LEMMA FullKeepsProducers == TypeOK /\ full /\ que' = que => ProducersAwake'
<1> SUFFICES ASSUME TypeOK, full, que' = que PROVE ProducersAwake'
  OBVIOUS
<1>1. IsFiniteSet(ProducersWoken')
  BY QueueAssumption, FS_Subset DEF ProducersWoken
<1>2. Cardinality(ProducersWoken') \in Nat /\ Len(que) \in Nat
  BY <1>1, FS_CardinalityType, LenProperties DEF TypeOK
<1> QED
  BY <1>2, QueueAssumption DEF ProducersAwake, full

LEMMA ProducersStep == TypeOK /\ TypeOK' /\ ProducersAwake /\ Action => ProducersAwake'
<1> SUFFICES ASSUME TypeOK, TypeOK', ProducersAwake, Action PROVE ProducersAwake'
  OBVIOUS
<1>0. Len(que) \in Nat /\ Len(que') \in Nat /\ Capacity \in Nat
  BY LenProperties, QueueAssumption DEF TypeOK
<1> USE QueueAssumption DEF Goto
<1>1. ASSUME NEW t \in Thread, \/ PopBlocks(t) \/ TimedOut(t) \/ SetClosed(t)
                               \/ NotifyConsumers(t) \/ NotifyProducers(t)
      PROVE  ProducersAwake'
  <2>1. t \notin Producer
    BY <1>1, Roles DEF PopBlocks, TimedOut, SetClosed, NotifyConsumers,
                       NotifyProducers, GoesOn
  <2>2. ProducersFrame
    BY <1>1, <2>1 DEF PopBlocks, TimedOut, SetClosed, NotifyConsumers,
                      NotifyProducers, ProducersFrame, ProducersWaiting,
                      ProducersWoken, ConsumersWaiting, TypeOK, Thread
  <2> QED
    BY <2>2, FrameKeepsProducers
<1>2. ASSUME NEW t \in Thread, PopItem(t) PROVE ProducersAwake'
  <2>1. Len(que') = Len(que) - 1 /\ is_closed' = is_closed
    BY <1>2, HeadTailProperties DEF PopItem, empty, TypeOK
  <2>2. t \notin Producer
    BY <1>2, Roles DEF PopItem, GoesOn
  <2>3. CASE ProducersWaiting = {}
    <3>1. at' = [at EXCEPT ![t] = "out"]
      BY <1>2, <2>3 DEF PopItem, NotifyProducer
    <3>2. ProducersWaiting' = {}
      BY <2>3, <3>1 DEF ProducersWaiting, TypeOK, Thread
    <3> QED
      BY <3>2 DEF ProducersAwake
  <2>4. CASE ProducersWaiting # {}
    <3>1. PICK c \in ProducersWaiting : at' = [at EXCEPT ![c] = "push_woken", ![t] = "out"]
      BY <1>2, <2>4 DEF PopItem, NotifyProducer
    <3>2. ProducersWoken' = ProducersWoken \cup {c} /\ c \notin ProducersWoken
      BY <2>2, <3>1 DEF ProducersWoken, ProducersWaiting, TypeOK, Thread
    <3>3. Cardinality(ProducersWoken') = Cardinality(ProducersWoken) + 1
      BY <3>2, WokenFinite, OneMore
    <3> QED
      BY <1>0, <2>1, <2>4, <3>3, WokenFinite DEF ProducersAwake
  <2> QED
    BY <2>3, <2>4
<1>3. ASSUME NEW t \in Thread, PushBlocks(t) PROVE ProducersAwake'
  BY <1>3, FullKeepsProducers DEF PushBlocks
<1>4. ASSUME NEW t \in Thread, PushItem(t) PROVE ProducersAwake'
  <2>1. Len(que') = Len(que) + 1 /\ is_closed' = is_closed
    <3>1. item[t] \in Item
      BY <1>4, Roles DEF PushItem, GoesOn, TypeOK
    <3> QED
      BY <1>4, <3>1, AppendProperties DEF PushItem, TypeOK
  <2>2. t \in Producer
    BY <1>4, Roles DEF PushItem, GoesOn
  <2>3. /\ ProducersWaiting' = ProducersWaiting
        /\ ProducersWoken' = ProducersWoken \ {t}
    <3>1. CASE Goto(t, "out")
      BY <1>4, <2>2, <3>1 DEF PushItem, GoesOn, ProducersWaiting,
                              ProducersWoken, TypeOK, Thread
    <3>2. ASSUME NEW c \in ConsumersWaiting,
                 at' = [at EXCEPT ![c] = "pop_woken", ![t] = "out"]
          PROVE  /\ ProducersWaiting' = ProducersWaiting
                 /\ ProducersWoken' = ProducersWoken \ {t}
      BY <1>4, <2>2, <3>2 DEF PushItem, GoesOn, ConsumersWaiting, ProducersWoken,
                              ProducersWaiting, TypeOK, Thread, Taker
    <3> QED
      BY <1>4, <3>1, <3>2 DEF PushItem, NotifyConsumer
  <2>4. Cardinality(ProducersWoken') >= Cardinality(ProducersWoken) - 1
    BY <2>3, WokenFinite, OneLess
  <2>5. Cardinality(ProducersWoken') \in Nat
    BY <2>3, WokenFinite, FS_Subset, FS_CardinalityType
  <2> QED
    BY <1>0, <2>1, <2>3, <2>4, <2>5, WokenFinite DEF ProducersAwake
<1>5. ASSUME NEW t \in Thread, FoundClosed(t) PROVE ProducersAwake'
  BY <1>5 DEF FoundClosed, ProducersAwake
<1>6. ASSUME NEW t \in Thread, SpuriousWakeup(t) PROVE ProducersAwake'
  <2>1. ProducersFrame
    BY <1>6 DEF SpuriousWakeup, ProducersFrame, ProducersWaiting, ProducersWoken,
                TypeOK, Thread
  <2> QED
    BY <2>1, FrameKeepsProducers
<1>7. ASSUME NEW t \in Producer, NEW i \in Item, CallPush(t, i) PROVE ProducersAwake'
  <2>1. ProducersFrame
    BY <1>7 DEF CallPush, ProducersFrame, ProducersWaiting, ProducersWoken,
                TypeOK, Thread
  <2> QED
    BY <2>1, FrameKeepsProducers
<1>8. ASSUME NEW t \in Taker, CallPop(t) PROVE ProducersAwake'
  <2>1. ProducersFrame
    BY <1>8 DEF CallPop, ProducersFrame, ProducersWaiting, ProducersWoken, TypeOK,
                Thread, Taker
  <2> QED
    BY <2>1, FrameKeepsProducers
<1>9. ASSUME NEW t \in Closer, CallClose(t) \/ Flush(t) PROVE ProducersAwake'
  <2>1. ProducersFrame
    BY <1>9 DEF CallClose, Flush, NotifyConsumer, ConsumersWaiting,
                ProducersFrame, ProducersWaiting, ProducersWoken, TypeOK,
                Thread, Taker
  <2> QED
    BY <2>1, FrameKeepsProducers
<1>10. CASE UNCHANGED queueVars
  <2>1. ProducersFrame
    BY <1>10 DEF queueVars, ProducersFrame, ProducersWaiting, ProducersWoken
  <2> QED
    BY <2>1, FrameKeepsProducers
<1> QED
  BY <1>1, <1>2, <1>3, <1>4, <1>5, <1>6, <1>7, <1>8, <1>9, <1>10 DEF Action

(* No producer's wakeup is lost, for any number of threads and any         *)
(* capacity, popTimeout included: a timed pop that gives up makes no room. *)
THEOREM NoLostProducer == Spec => []ProducersAwake
<1>1. Init => ProducersAwake
  BY DEF Init, ProducersAwake, ProducersWaiting, Thread
<1>2. TypeOK /\ TypeOK' /\ ProducersAwake /\ [Next]_queueVars => ProducersAwake'
  BY NextIsAction, ProducersStep
<1> QED
  BY TypeCorrect, <1>1, <1>2, PTL DEF Spec

(* No wakeup is lost on either side, for any number of threads and any     *)
(* capacity.                                                               *)
THEOREM NoWakeupLost == Spec => []NoLostWakeup
<1>1. ConsumersAwake /\ ProducersAwake => NoLostWakeup
  BY DEF NoLostWakeup
<1> QED
  BY NoLostConsumer, NoLostProducer, <1>1, PTL
=============================================================================
