------------------------- MODULE SqlConnPoolProofs -------------------------
(***************************************************************************)
(* Theorems about SqlConnPool, for any number of users and connections.    *)
(***************************************************************************)
EXTENDS SqlConnPool, SequenceTheorems, FiniteSetTheorems, TLAPS

(* A step of Next by its actions. *)
Action == \/ \E u \in User : \/ CallGetConn(u) \/ FindsConn(u) \/ FindsNothing(u)
                             \/ SemWait(u) \/ PopConn(u) \/ PopNothing(u)
                             \/ Query(u) \/ QueryWithoutRow(u) \/ FreeConn(u)
          \/ Close
          \/ UNCHANGED vars

LEMMA NextIsAction == [Next]_vars => Action
  BY DEF Next, UserStep, Lost, Action

-----------------------------------------------------------------------------
(* Types. *)

LEMMA InitialQueue ==
    ASSUME Init
    PROVE  /\ conn_que \in Seq(Conn)
           /\ Len(conn_que) = MaxConn
           /\ DOMAIN conn_que = Conn
           /\ \A i \in Conn : conn_que[i] = i
<1>1. conn_que \in [1 .. MaxConn -> Conn]
  BY DEF Init, Conn
<1>2. conn_que \in Seq(Conn)
  <2>1. [1 .. MaxConn -> Conn] \in {[1 .. n -> Conn] : n \in Nat}
    BY SqlAssumption
  <2>2. conn_que \in UNION {[1 .. n -> Conn] : n \in Nat}
    BY <1>1, <2>1
  <2>3. Seq(Conn) = UNION {[1 .. n -> Conn] : n \in Nat}
    BY SeqDef
  <2> QED
    BY <2>2, <2>3
<1>3. DOMAIN conn_que = 1 .. MaxConn
  BY <1>1
<1>4. Len(conn_que) = MaxConn
  BY <1>2, <1>3, SqlAssumption, LenProperties
<1> QED
  BY <1>1, <1>2, <1>3, <1>4 DEF Init, Conn

LEMMA TypeInit == Init => TypeOK
<1> SUFFICES ASSUME Init PROVE TypeOK
  OBVIOUS
<1>1. \A u \in User : pc[u] = "idle" /\ held[u] = NoConn
  BY DEF Init
<1>2. pc \in [User -> {"idle", "test", "wait", "pop", "use", "free"}]
  BY DEF Init
<1> QED
  BY <1>1, <1>2, InitialQueue, SqlAssumption DEF Init, TypeOK

LEMMA HeadIsConn ==
    ASSUME TypeOK, conn_que # <<>>
    PROVE  /\ Head(conn_que) \in Conn /\ Head(conn_que) # NoConn
           /\ Tail(conn_que) \in Seq(Conn)
           /\ Len(Tail(conn_que)) = Len(conn_que) - 1
           /\ Len(conn_que) \in Nat
           /\ Head(conn_que) \in Queued
<1>1. /\ Head(conn_que) \in Conn
      /\ Tail(conn_que) \in Seq(Conn)
      /\ Len(Tail(conn_que)) = Len(conn_que) - 1
  BY HeadTailProperties DEF TypeOK
<1>2. Head(conn_que) # NoConn
  BY <1>1, SqlAssumption DEF Conn, NoConn
<1>3. Len(conn_que) \in Nat /\ 1 \in DOMAIN conn_que /\ Head(conn_que) = conn_que[1]
  BY EmptySeq, LenProperties DEF TypeOK
<1> QED
  BY <1>1, <1>2, <1>3 DEF Queued

LEMMA QueuedType == ASSUME TypeOK PROVE Queued \subseteq Conn
  BY ElementOfSeq, LenProperties DEF TypeOK, Queued

LEMMA TypeStep == TypeOK /\ Action => TypeOK'
<1> SUFFICES ASSUME TypeOK, Action PROVE TypeOK'
  OBVIOUS
<1> USE DEF TypeOK, Goto
<1>1. ASSUME NEW u \in User, CallGetConn(u) PROVE TypeOK'
  BY <1>1, QueuedType DEF CallGetConn
<1>2. ASSUME NEW u \in User, FindsConn(u) PROVE TypeOK'
  BY <1>2 DEF FindsConn
<1>3. ASSUME NEW u \in User, FindsNothing(u) \/ PopNothing(u) \/ QueryWithoutRow(u) PROVE TypeOK'
  BY <1>3 DEF FindsNothing, PopNothing, QueryWithoutRow
<1>4. ASSUME NEW u \in User, SemWait(u) PROVE TypeOK'
  BY <1>4 DEF SemWait
<1>5. ASSUME NEW u \in User, PopConn(u) PROVE TypeOK'
  <2>1. Head(conn_que) \in Conn /\ Head(conn_que) # NoConn /\ Tail(conn_que) \in Seq(Conn)
    BY <1>5, HeadIsConn DEF PopConn
  <2> QED
    BY <1>5, <2>1 DEF PopConn
<1>6. ASSUME NEW u \in User, Query(u) PROVE TypeOK'
  BY <1>6 DEF Query
<1>7. ASSUME NEW u \in User, FreeConn(u) PROVE TypeOK'
  <2>1. held[u] \in Conn
    BY <1>7 DEF FreeConn
  <2> QED
    BY <1>7, <2>1, AppendProperties DEF FreeConn
<1>8. CASE Close
  BY <1>8, QueuedType DEF Close
<1>9. CASE UNCHANGED vars
  BY <1>9 DEF vars
<1> QED
  BY <1>1, <1>2, <1>3, <1>4, <1>5, <1>6, <1>7, <1>8, <1>9 DEF Action

(* The type invariant of SqlConnPool. *)
THEOREM TypeCorrect == Spec => []TypeOK
<1>1. TypeOK /\ [Next]_vars => TypeOK'
  BY NextIsAction, TypeStep
<1> QED
  BY TypeInit, <1>1, PTL DEF Spec

-----------------------------------------------------------------------------
(* The semaphore and the queue. *)

LEMMA PoppingFinite == IsFiniteSet(Popping) /\ Cardinality(Popping) \in Nat
  BY SqlAssumption, FS_Subset, FS_CardinalityType DEF Popping

LEMMA CountStep == TypeOK /\ SemCountsQueue /\ Action => SemCountsQueue'
<1> SUFFICES ASSUME TypeOK, SemCountsQueue, Action PROVE SemCountsQueue'
  OBVIOUS
<1> USE DEF SemCountsQueue, Goto
<1>1. ASSUME NEW u \in User,
             \/ CallGetConn(u) \/ FindsConn(u) \/ FindsNothing(u) \/ PopNothing(u)
             \/ Query(u) \/ QueryWithoutRow(u)
      PROVE  SemCountsQueue'
  <2>1. Popping' = Popping /\ UNCHANGED <<shut, conn_que, sem>>
    BY <1>1 DEF CallGetConn, FindsConn, FindsNothing, PopNothing, Query, QueryWithoutRow,
                Popping, TypeOK
  <2> QED
    BY <2>1
<1>2. ASSUME NEW u \in User, SemWait(u) PROVE SemCountsQueue'
  <2>1. Popping' = Popping \cup {u} /\ u \notin Popping /\ UNCHANGED <<shut, conn_que>>
    BY <1>2 DEF SemWait, Popping, TypeOK
  <2>2. Cardinality(Popping') = Cardinality(Popping) + 1
    BY <2>1, PoppingFinite, FS_AddElement
  <2>3. sem' = sem - 1 /\ sem \in Nat
    BY <1>2 DEF SemWait, TypeOK
  <2> QED
    BY <2>1, <2>2, <2>3, PoppingFinite
<1>3. ASSUME NEW u \in User, PopConn(u) PROVE SemCountsQueue'
  <2>1. Popping' = Popping \ {u} /\ u \in Popping /\ UNCHANGED <<shut, sem>>
    BY <1>3 DEF PopConn, Popping, TypeOK
  <2>2. Cardinality(Popping') = Cardinality(Popping) - 1
    BY <2>1, PoppingFinite, FS_RemoveElement
  <2>3. Len(conn_que') = Len(conn_que) - 1 /\ sem \in Nat
    BY <1>3, HeadIsConn DEF PopConn, TypeOK
  <2> QED
    BY <2>1, <2>2, <2>3, PoppingFinite
<1>4. ASSUME NEW u \in User, FreeConn(u) PROVE SemCountsQueue'
  <2>1. Popping' = Popping /\ UNCHANGED shut /\ sem' = sem + 1 /\ sem \in Nat
    BY <1>4 DEF FreeConn, Popping, TypeOK
  <2>2. Len(conn_que') = Len(conn_que) + 1
    BY <1>4, AppendProperties DEF FreeConn, TypeOK
  <2> QED
    BY <2>1, <2>2, PoppingFinite
<1>5. CASE Close
  BY <1>5 DEF Close
<1>6. CASE UNCHANGED vars
  BY <1>6 DEF vars, Popping
<1> QED
  BY <1>1, <1>2, <1>3, <1>4, <1>5, <1>6 DEF Action

(* Until close, the queue has an element for every user that has passed    *)
(* the semaphore: front() and pop() are never called on an empty queue.    *)
THEOREM SemaphoreIsExact == Spec => []SemCountsQueue
<1>1. Init => SemCountsQueue
  <2> SUFFICES ASSUME Init PROVE SemCountsQueue
    OBVIOUS
  <2>1. Popping = {}
    BY DEF Init, Popping
  <2>2. Cardinality(Popping) = 0
    BY <2>1, FS_EmptySet
  <2>3. Len(conn_que) = MaxConn /\ sem = MaxConn /\ MaxConn \in Nat
    BY InitialQueue, SqlAssumption DEF Init
  <2> QED
    BY <2>2, <2>3 DEF SemCountsQueue
<1>2. TypeOK /\ SemCountsQueue /\ [Next]_vars => SemCountsQueue'
  BY NextIsAction, CountStep
<1> QED
  BY TypeCorrect, <1>1, <1>2, PTL DEF Spec

-----------------------------------------------------------------------------
(* Who has a connection. *)

(* What the queue offers has not been closed: the strengthening that makes *)
(* OneHolder and UsedIsOpen inductive together.                            *)
OfferedIsOpen == Queued \cap released = {}

HoldInv == OneHolder /\ UsedIsOpen /\ OfferedIsOpen

LEMMA AppendQueued ==
    ASSUME TypeOK, NEW c \in Conn, conn_que' = Append(conn_que, c)
    PROVE  /\ Queued' = Queued \cup {c}
           /\ c \notin Queued /\ (\A i, j \in DOMAIN conn_que :
                                     conn_que[i] = conn_que[j] => i = j)
              => \A i, j \in DOMAIN conn_que' : conn_que'[i] = conn_que'[j] => i = j
<1>1. /\ Len(conn_que') = Len(conn_que) + 1 /\ conn_que' \in Seq(Conn)
      /\ \A i \in 1 .. Len(conn_que) : conn_que'[i] = conn_que[i]
      /\ conn_que'[Len(conn_que) + 1] = c
  BY AppendProperties DEF TypeOK
<1>2. DOMAIN conn_que = 1 .. Len(conn_que) /\ DOMAIN conn_que' = 1 .. (Len(conn_que) + 1)
      /\ Len(conn_que) \in Nat
  BY <1>1, LenProperties DEF TypeOK
<1>3. DOMAIN conn_que' = DOMAIN conn_que \cup {Len(conn_que) + 1}
  BY <1>2
<1>4. Queued' = Queued \cup {c}
  BY <1>1, <1>2, <1>3 DEF Queued
<1>5. ASSUME c \notin Queued,
             \A i, j \in DOMAIN conn_que : conn_que[i] = conn_que[j] => i = j
      PROVE  \A i, j \in DOMAIN conn_que' : conn_que'[i] = conn_que'[j] => i = j
  BY <1>1, <1>2, <1>3, <1>5 DEF Queued
<1> QED
  BY <1>4, <1>5

LEMMA TailQueued ==
    ASSUME TypeOK, conn_que # <<>>, conn_que' = Tail(conn_que),
           \A i, j \in DOMAIN conn_que : conn_que[i] = conn_que[j] => i = j
    PROVE  /\ Queued' = Queued \ {Head(conn_que)}
           /\ \A i, j \in DOMAIN conn_que' : conn_que'[i] = conn_que'[j] => i = j
<1>1. /\ Len(conn_que') = Len(conn_que) - 1 /\ conn_que' \in Seq(Conn)
      /\ \A i \in 1 .. Len(conn_que') : conn_que'[i] = conn_que[i + 1]
      /\ Head(conn_que) = conn_que[1]
  BY HeadTailProperties DEF TypeOK
<1>2. DOMAIN conn_que = 1 .. Len(conn_que) /\ DOMAIN conn_que' = 1 .. (Len(conn_que) - 1)
      /\ Len(conn_que) \in Nat \ {0}
  BY <1>1, HeadIsConn, LenProperties, EmptySeq DEF TypeOK
<1>3. \A i \in DOMAIN conn_que' : i + 1 \in DOMAIN conn_que /\ i + 1 # 1
  BY <1>2
<1>4. \A i \in DOMAIN conn_que : i # 1 => i - 1 \in DOMAIN conn_que' /\ (i - 1) + 1 = i
  BY <1>2
<1>5. Queued' = Queued \ {Head(conn_que)}
  <2>1. Queued' \subseteq Queued \ {Head(conn_que)}
    BY <1>1, <1>2, <1>3 DEF Queued
  <2>2. Queued \ {Head(conn_que)} \subseteq Queued'
    BY <1>1, <1>2, <1>4 DEF Queued
  <2> QED
    BY <2>1, <2>2
<1> QED
  BY <1>1, <1>2, <1>3, <1>5

LEMMA HoldStep == TypeOK /\ HoldInv /\ Action => HoldInv'
<1> SUFFICES ASSUME TypeOK, HoldInv, Action PROVE HoldInv'
  OBVIOUS
<1>1. ASSUME UNCHANGED <<held, conn_que, released>> PROVE HoldInv'
  BY <1>1 DEF HoldInv, OneHolder, UsedIsOpen, OfferedIsOpen, Queued
<1>2. ASSUME NEW u \in User, PopConn(u) PROVE HoldInv'
  <2>1. /\ Head(conn_que) \in Queued /\ Head(conn_que) \in Conn
        /\ Queued' = Queued \ {Head(conn_que)}
        /\ \A i, j \in DOMAIN conn_que' : conn_que'[i] = conn_que'[j] => i = j
    BY <1>2, HeadIsConn, TailQueued DEF PopConn, HoldInv, OneHolder
  <2>2. held' = [held EXCEPT ![u] = Head(conn_que)] /\ released' = released
    BY <1>2 DEF PopConn
  <2>3. OneHolder'
    BY <2>1, <2>2 DEF HoldInv, OneHolder, TypeOK
  <2>4. UsedIsOpen' /\ OfferedIsOpen'
    BY <2>1, <2>2 DEF HoldInv, UsedIsOpen, OfferedIsOpen, TypeOK
  <2> QED
    BY <2>3, <2>4 DEF HoldInv
<1>3. ASSUME NEW u \in User, FreeConn(u) PROVE HoldInv'
  <2>1. held[u] \in Conn /\ held[u] # NoConn /\ held[u] \notin Queued
    BY <1>3 DEF FreeConn, TypeOK, HoldInv, OneHolder
  <2>2. /\ Queued' = Queued \cup {held[u]}
        /\ \A i, j \in DOMAIN conn_que' : conn_que'[i] = conn_que'[j] => i = j
    BY <1>3, <2>1, AppendQueued DEF FreeConn, HoldInv, OneHolder
  <2>3. held' = [held EXCEPT ![u] = NoConn] /\ released' = released
    BY <1>3 DEF FreeConn
  <2>4. NoConn \notin Conn /\ Queued \subseteq Conn /\ released \subseteq Conn
    BY QueuedType, SqlAssumption DEF Conn, NoConn, TypeOK
  <2>5. OneHolder'
    BY <2>1, <2>2, <2>3, <2>4 DEF HoldInv, OneHolder, TypeOK
  <2>6. UsedIsOpen' /\ OfferedIsOpen'
    BY <2>1, <2>2, <2>3, <2>4 DEF HoldInv, UsedIsOpen, OfferedIsOpen, TypeOK
  <2> QED
    BY <2>5, <2>6 DEF HoldInv
<1>4. CASE Close
  <2>1. Queued' = {} /\ DOMAIN conn_que' = {}
    BY <1>4 DEF Close, Queued
  <2>2. held' = held /\ released' \subseteq released \cup Queued
    BY <1>4 DEF Close
  <2> QED
    BY <2>1, <2>2 DEF HoldInv, OneHolder, UsedIsOpen, OfferedIsOpen
<1>5. ASSUME NEW u \in User,
             \/ CallGetConn(u) \/ FindsConn(u) \/ FindsNothing(u) \/ SemWait(u)
             \/ PopNothing(u) \/ Query(u) \/ QueryWithoutRow(u)
      PROVE  UNCHANGED <<held, conn_que, released>>
  BY <1>5 DEF CallGetConn, FindsConn, FindsNothing, SemWait, PopNothing, Query, QueryWithoutRow
<1>6. CASE UNCHANGED vars
  BY <1>1, <1>6 DEF vars
<1> QED
  BY <1>1, <1>2, <1>3, <1>4, <1>5, <1>6 DEF Action

LEMMA HoldInvariant == Spec => []HoldInv
<1>1. Init => HoldInv
  <2> SUFFICES ASSUME Init PROVE HoldInv
    OBVIOUS
  <2>1. \A u \in User : held[u] = NoConn
    BY DEF Init
  <2>2. NoConn \notin Queued /\ released = {}
    BY InitialQueue, SqlAssumption DEF Init, Queued, Conn, NoConn
  <2> QED
    BY <2>1, <2>2, InitialQueue DEF HoldInv, OneHolder, UsedIsOpen, OfferedIsOpen
<1>2. TypeOK /\ HoldInv /\ [Next]_vars => HoldInv'
  BY NextIsAction, HoldStep
<1> QED
  BY TypeCorrect, <1>1, <1>2, PTL DEF Spec

(* A connection has one holder, or is in the pool once. *)
THEOREM OneHolderAlways == Spec => []OneHolder
<1>1. HoldInv => OneHolder
  BY DEF HoldInv
<1> QED
  BY HoldInvariant, <1>1, PTL

(* close() takes no connection away from a user in the middle of a query.  *)
THEOREM UsedIsOpenAlways == Spec => []UsedIsOpen
<1>1. HoldInv => UsedIsOpen
  BY DEF HoldInv
<1> QED
  BY HoldInvariant, <1>1, PTL

(* Every query runs on an open connection that is nobody else's.           *)
THEOREM UseAlwaysSafe == Spec => []SafeUse
<1>1. OneHolder /\ UsedIsOpen => SafeUse
  BY DEF SafeUse
<1> QED
  BY OneHolderAlways, UsedIsOpenAlways, <1>1, PTL
=============================================================================
