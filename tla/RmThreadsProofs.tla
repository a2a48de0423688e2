-------------------------- MODULE RmThreadsProofs --------------------------
(***************************************************************************)
(* Theorems about the two places where the threads of the reMarkable       *)
(* surface meet.  RingBuf, for every capacity, element size, SIZE_MAX and  *)
(* set of threads: the invariant behind the circular buffer, that nobody   *)
(* sleeps beside events, and that the buffer implements the queue of       *)
(* EventQueue.  RmScreen, for every panel, orientation and set of boxes:   *)
(* what is drawn is refreshed, and not while it is being drawn.            *)
(***************************************************************************)
EXTENDS RingBuf, RmScreen, FiniteSetTheorems, SequenceTheorems, TLAPS

(* An index that overshoots the buffer by less than a lap comes back to it *)
(* by one subtraction: how every index of ringbuf.c is computed.           *)
LEMMA ModOnce ==
    ASSUME NEW c \in Nat \ {0}, NEW n \in Nat, n < 2 * c
    PROVE  n % c = IF n < c THEN n ELSE n - c
  <1>1. CASE n < c
    BY <1>1, SMT
  <1>2. CASE n >= c
    BY <1>2, SMT
  <1> QED BY <1>1, <1>2

(* The slot k places after slot a of a buffer of c slots: the next head,   *)
(* the next tail and every slot the growth loop reads.                     *)
After(a, k, c) == (a + k) % c

LEMMA AfterIs ==
    ASSUME NEW c \in Nat \ {0}, NEW a \in 0..(c - 1), NEW k \in 0..c
    PROVE  After(a, k, c) = IF a + k < c THEN a + k ELSE a + k - c
  <1> DEFINE n == a + k
  <1>1. n \in Nat /\ n < 2 * c
    OBVIOUS
  <1> HIDE DEF n
  <1>2. n % c = IF n < c THEN n ELSE n - c
    BY <1>1, ModOnce
  <1> QED BY <1>2 DEF n, After

(* A count that passed the SIZE_MAX / elem_size test does not wrap when it *)
(* is multiplied by elem_size.                                             *)
LEMMA DivBound ==
    ASSUME NEW n \in Nat, NEW e \in Nat \ {0}, NEW s \in Nat, n <= s \div e
    PROVE  n * e <= s
  <1>1. (s \div e) * e <= s
    BY SMT
  <1>2. n * e <= (s \div e) * e
    BY SMT
  <1> QED BY <1>1, <1>2, SMT

-----------------------------------------------------------------------------
(* ring_buf_init establishes the invariant. *)
LEMMA InitInv == Init => RingInv
  <1> SUFFICES ASSUME Init PROVE RingInv
    OBVIOUS
  <1> USE SizeAssumption, ThreadAssumption DEF Init
  <1>1. TypeOK
    BY DEF TypeOK, EmptyBuffer, Threads, WriterPC
  <1>2. head = SlotOf(used)
    BY ModOnce DEF SlotOf
  <1>3. \A t \in Threads : pc[t] \in Holding <=> mutex = t
    BY DEF Threads, Holding
  <1> QED BY <1>1, <1>2, <1>3 DEF RingInv, Threads, WriterPC, WaiterPC

(* Where the k-th slot after tail lies. *)
LEMMA SlotIs ==
    ASSUME TypeOK, NEW k \in 0..capacity
    PROVE  /\ SlotOf(k) = IF tail + k < capacity THEN tail + k
                                                 ELSE tail + k - capacity
           /\ SlotOf(k) \in 0..(capacity - 1)
  <1>1. /\ capacity \in Nat \ {0} /\ tail \in 0..(capacity - 1)
        /\ tail + k \in Nat /\ tail + k < 2 * capacity
    BY DEF TypeOK
  <1>2. SlotOf(k) = IF tail + k < capacity THEN tail + k
                                           ELSE tail + k - capacity
    BY <1>1, AfterIs DEF SlotOf, After
  <1> QED BY <1>1, <1>2

(* Growing keeps the unread events and makes room for one more. *)
LEMMA GrowInv ==
    ASSUME RingInv, NEW p \in Producers, WriteRoom(p)
    PROVE  RingInv'
  <1> USE ThreadAssumption DEF WriteRoom, Goto
  <1>0. TypeOK /\ p \in Threads /\ pc \in [Threads -> WriterPC \cup WaiterPC]
    BY DEF RingInv, TypeOK, Threads
  <1>a. /\ \A q \in Producers : /\ pc'[q] \in WriterPC
                                /\ pc'[q] # "idle" => item'[q] \in Item
        /\ \A c \in Consumers : pc'[c] \in WaiterPC
        /\ \A t \in Threads : pc'[t] \in Holding <=> mutex' = t
        /\ ready' = {c \in Consumers : pc'[c] = "r_asleep"}
        /\ pc' \in [Threads -> WriterPC \cup WaiterPC]
        /\ \A q \in Producers : pc'[q] = "w_store" => q = p
    BY <1>0 DEF RingInv, Threads, WriterPC, Holding
  <1>1. CASE ~Full /\ UNCHANGED ringVars
    <2>1. used < capacity
      BY <1>0, <1>1 DEF Full, TypeOK
    <2>2. TypeOK'
      BY <1>0, <1>1, <1>a DEF TypeOK, ringVars
    <2>3. \A k : SlotOf(k)' = SlotOf(k)
      BY <1>1 DEF SlotOf, ringVars
    <2> QED BY <1>1, <1>a, <2>1, <2>2, <2>3 DEF RingInv, ringVars
  <1>2. CASE Full /\ MayDouble /\ Grown /\ UNCHANGED used
    <2> USE <1>2 DEF Grown, Full
    <2>1. /\ capacity \in Nat \ {0}
          /\ capacity' = 2 * capacity
          /\ capacity' \in Nat \ {0}
          /\ used' = capacity /\ tail' = 0 /\ head' = capacity
      BY <1>0 DEF TypeOK
    <2>2. \A k \in 0..capacity : SlotOf(k)' = k
      <3> TAKE k \in 0..capacity
      <3>1. SlotOf(k)' = (0 + k) % capacity'
        BY <2>1 DEF SlotOf
      <3>2. k \in Nat /\ 0 + k = k /\ k < capacity' /\ k < 2 * capacity'
        BY <2>1
      <3>3. k % capacity' = k
        BY <2>1, <3>2, ModOnce
      <3> QED BY <3>1, <3>2, <3>3
    <2>3. \A i \in 0..(capacity - 1) : SlotOf(i) \in 0..(capacity - 1)
      BY <1>0, <2>1, SlotIs
    <2>4. Unrolled \in [0..(2 * capacity - 1) -> Item \cup {NoItem}]
      BY <2>1, <2>3 DEF Unrolled, RingInv, TypeOK
    <2>5. TypeOK'
      BY <1>a, <2>1, <2>4 DEF TypeOK, RingInv
    <2>6. \A k \in 0..(used' - 1) : buffer'[SlotOf(k)'] \in Item
      <3> TAKE k \in 0..(used' - 1)
      <3>1. k \in 0..(capacity - 1) /\ SlotOf(k)' = k
        BY <2>1, <2>2
      <3>2. Unrolled[k] = buffer[SlotOf(k)]
        BY <2>1, <3>1 DEF Unrolled
      <3> QED BY <2>1, <3>1, <3>2 DEF RingInv
    <2>7. head' = SlotOf(used)'
      BY <2>1, <2>2
    <2>8. capacity' <= SizeMax \div ElemSize
      <3>1. SizeMax \div ElemSize \in Nat
        BY SizeAssumption
      <3> QED BY <2>1, <3>1, <1>2 DEF MayDouble
    <2>9. \A q \in Producers : pc'[q] = "w_store" => used' < capacity'
      BY <2>1
    <2> HIDE <1>2 DEF Grown, Full, WriteRoom
    <2> QED BY <1>a, <2>5, <2>6, <2>7, <2>8, <2>9 DEF RingInv
  <1> QED BY <1>1, <1>2

(* A step that leaves the struct alone keeps the indices and the slots. *)
LEMMA FrameInv ==
    ASSUME RingInv, UNCHANGED ringVars
    PROVE  /\ \A k : SlotOf(k)' = SlotOf(k)
           /\ head' = SlotOf(used)'
           /\ \A k \in 0..(used' - 1) : buffer'[SlotOf(k)'] \in Item
           /\ capacity' <= SizeMax \div ElemSize
           /\ used' < capacity' <=> used < capacity
  <1>1. \A k : SlotOf(k)' = SlotOf(k)
    BY DEF SlotOf, ringVars
  <1> QED BY <1>1 DEF RingInv, ringVars

(* The memcpy of ring_buf_write appends at head, which is free. *)
LEMMA StoreInv ==
    ASSUME RingInv, NEW p \in Producers, WriteStore(p)
    PROVE  RingInv'
  <1> USE ThreadAssumption DEF WriteStore, Goto
  <1>0. TypeOK /\ p \in Threads /\ pc \in [Threads -> WriterPC \cup WaiterPC]
        /\ used < capacity /\ capacity \in Nat \ {0} /\ used \in 0..capacity
        /\ tail \in 0..(capacity - 1) /\ head \in 0..(capacity - 1)
        /\ item[p] \in Item /\ buffer \in [0..(capacity - 1) -> Item \cup {NoItem}]
    BY DEF RingInv, TypeOK, Threads
  <1>a. /\ \A q \in Producers : /\ pc'[q] \in WriterPC
                                /\ pc'[q] # "idle" => item'[q] \in Item
        /\ \A c \in Consumers : pc'[c] \in WaiterPC
        /\ \A t \in Threads : pc'[t] \in Holding <=> mutex' = t
        /\ ready' = {c \in Consumers : pc'[c] = "r_asleep"}
        /\ pc' \in [Threads -> WriterPC \cup WaiterPC]
        /\ \A q \in Producers : pc'[q] # "w_store"
    BY <1>0 DEF RingInv, Threads, WriterPC, Holding
  <1>1. \A k : SlotOf(k)' = SlotOf(k)
    BY DEF SlotOf
  <1>2. head = SlotOf(used) /\ head = IF tail + used < capacity
                                       THEN tail + used ELSE tail + used - capacity
    BY <1>0, SlotIs DEF RingInv
  <1>3. head' = SlotOf(used + 1)
    <2>2. head' = IF head + 1 < capacity THEN head + 1 ELSE head + 1 - capacity
      <3>1. head' = After(head, 1, capacity)
        BY DEF After
      <3> HIDE DEF WriteStore
      <3> QED BY <1>0, <3>1, AfterIs
    <2>3. used + 1 \in 0..capacity
      BY <1>0
    <2>4. SlotOf(used + 1) = IF tail + used + 1 < capacity THEN tail + used + 1
                             ELSE tail + used + 1 - capacity
      BY <1>0, <2>3, SlotIs
    <2> HIDE DEF WriteStore
    <2> QED BY <1>0, <1>2, <2>2, <2>4
  <1>4. \A k \in 0..(used - 1) : SlotOf(k) # head /\ SlotOf(k) \in 0..(capacity - 1)
    <2> TAKE k \in 0..(used - 1)
    <2>1. k \in 0..capacity
      BY <1>0
    <2>2. SlotOf(k) = IF tail + k < capacity THEN tail + k ELSE tail + k - capacity
      BY <1>0, <2>1, SlotIs
    <2> HIDE DEF WriteStore
    <2> QED BY <1>0, <1>2, <2>2
  <1>5. \A k \in 0..(used' - 1) : buffer'[SlotOf(k)'] \in Item
    <2> TAKE k \in 0..(used' - 1)
    <2>1. CASE k = used
      BY <1>0, <1>1, <1>2, <2>1
    <2>2. CASE k \in 0..(used - 1)
      BY <1>0, <1>1, <1>4, <2>2 DEF RingInv
    <2> QED BY <1>0, <2>1, <2>2
  <1>6. head' = SlotOf(used)'
    BY <1>1, <1>3
  <1>7. head' \in 0..(capacity - 1)
    BY <1>0, <1>3, SlotIs
  <1>8. TypeOK'
    BY <1>0, <1>7, <1>a DEF TypeOK
  <1>9. capacity' <= SizeMax \div ElemSize
    BY DEF RingInv
  <1> HIDE DEF WriteStore
  <1> QED BY <1>a, <1>5, <1>6, <1>8, <1>9 DEF RingInv

(* Taking the oldest event moves tail past it. *)
LEMMA TakeInv ==
    ASSUME RingInv, NEW c \in Consumers, WaitTake(c)
    PROVE  /\ RingInv'
           /\ used \in Nat \ {0}
           /\ \A k \in 0..(used - 1) : SlotOf(k)' = SlotOf(k + 1)
           /\ SlotOf(0) = tail
  <1> USE ThreadAssumption DEF WaitTake, Goto, Release
  <1>0. TypeOK /\ c \in Threads /\ pc \in [Threads -> WriterPC \cup WaiterPC]
        /\ capacity \in Nat \ {0} /\ used \in 1..capacity
        /\ tail \in 0..(capacity - 1) /\ head \in 0..(capacity - 1)
        /\ buffer \in [0..(capacity - 1) -> Item \cup {NoItem}]
        /\ item' \in [Threads -> Item \cup {NoItem}]
    BY DEF RingInv, TypeOK, Threads
  <1>a. /\ \A q \in Producers : /\ pc'[q] \in WriterPC
                                /\ pc'[q] # "idle" => item'[q] \in Item
                                /\ pc'[q] # "w_store"
        /\ \A d \in Consumers : pc'[d] \in WaiterPC
        /\ \A t \in Threads : pc'[t] \in Holding <=> mutex' = t
        /\ ready' = {d \in Consumers : pc'[d] = "r_asleep"}
        /\ pc' \in [Threads -> WriterPC \cup WaiterPC]
    BY <1>0 DEF RingInv, Threads, WaiterPC, Holding
  <1>1. tail' = IF tail + 1 < capacity THEN tail + 1 ELSE tail + 1 - capacity
    <2>1. tail' = After(tail, 1, capacity)
      BY DEF After
    <2> HIDE DEF WaitTake
    <2> QED BY <1>0, <2>1, AfterIs
  <1>2. \A k \in 0..(used - 1) : SlotOf(k)' = SlotOf(k + 1)
    <2> TAKE k \in 0..(used - 1)
    <2>1. tail' \in 0..(capacity - 1) /\ k \in 0..capacity
      BY <1>0, <1>1
    <2>2. SlotOf(k)' = After(tail', k, capacity)
      BY DEF SlotOf, After
    <2>3. SlotOf(k)' = IF tail' + k < capacity THEN tail' + k ELSE tail' + k - capacity
      BY <1>0, <2>1, <2>2, AfterIs
    <2>4. k + 1 \in 0..capacity
      BY <1>0
    <2>5. SlotOf(k + 1) = IF tail + k + 1 < capacity THEN tail + k + 1
                          ELSE tail + k + 1 - capacity
      BY <1>0, <2>4, SlotIs
    <2> HIDE DEF WaitTake
    <2> QED BY <1>0, <1>1, <2>3, <2>5
  <1>3. head' = SlotOf(used)'
    <2>1. PICK k \in 0..(used - 1) : k + 1 = used /\ used' = k
      BY <1>0
    <2>2. SlotOf(k)' = SlotOf(used)
      BY <1>2, <2>1
    <2>3. SlotOf(used)' = SlotOf(k)'
      BY <2>1 DEF SlotOf
    <2> QED BY <2>2, <2>3 DEF RingInv
  <1>4. \A k \in 0..(used' - 1) : buffer'[SlotOf(k)'] \in Item
    <2> TAKE k \in 0..(used' - 1)
    <2>1. k \in 0..(used - 1) /\ k + 1 \in 0..(used - 1)
      BY <1>0
    <2> QED BY <1>2, <2>1 DEF RingInv
  <1>5. TypeOK'
    BY <1>0, <1>1, <1>a DEF TypeOK
  <1>6. SlotOf(0) = tail
    BY <1>0, SlotIs
  <1>7. capacity' <= SizeMax \div ElemSize
    BY DEF RingInv
  <1> HIDE DEF WaitTake
  <1> QED BY <1>0, <1>a, <1>2, <1>3, <1>4, <1>5, <1>6, <1>7 DEF RingInv

(* Every other step of a write leaves the struct alone. *)
LEMMA WriterInv ==
    ASSUME RingInv, NEW p \in Producers, WriterNext(p)
    PROVE  RingInv'
  <1> USE ThreadAssumption DEF Goto
  <1>0. /\ p \in Threads /\ p \notin Consumers /\ TypeOK
        /\ pc \in [Threads -> WriterPC \cup WaiterPC]
        /\ item \in [Threads -> Item \cup {NoItem}]
        /\ ready \subseteq Consumers
    BY DEF RingInv, TypeOK, Threads
  <1>1. ASSUME NEW i \in Item, CallWrite(p, i) PROVE RingInv'
    <2>1. UNCHANGED ringVars
      BY <1>1 DEF CallWrite
    <2>2. TypeOK'
      BY <1>0, <1>1 DEF TypeOK, CallWrite, ringVars, WriterPC, Threads
    <2> QED BY <1>0, <1>1, <2>1, <2>2, FrameInv
            DEF RingInv, CallWrite, Threads, WriterPC, Holding
  <1>2. CASE WriteLock(p)
    <2>1. UNCHANGED ringVars
      BY <1>2 DEF WriteLock
    <2>2. TypeOK'
      BY <1>0, <1>2 DEF TypeOK, WriteLock, Acquire, ringVars, WriterPC, Threads
    <2> QED BY <1>0, <1>2, <2>1, <2>2, FrameInv
            DEF RingInv, WriteLock, Acquire, Threads, WriterPC, Holding
  <1>3. CASE WriteRoom(p)
    BY <1>3, GrowInv
  <1>4. CASE WriteFail(p)
    <2>1. UNCHANGED ringVars
      BY <1>4 DEF WriteFail
    <2>2. TypeOK'
      BY <1>0, <1>4 DEF TypeOK, WriteFail, Release, ringVars, WriterPC, Threads
    <2> QED BY <1>0, <1>4, <2>1, <2>2, FrameInv
            DEF RingInv, WriteFail, Release, Threads, WriterPC, Holding
  <1>5. CASE WriteStore(p)
    BY <1>5, StoreInv
  <1>6. CASE WriteSignal(p)
    <2>1. UNCHANGED ringVars /\ UNCHANGED item /\ mutex' = NoThread /\ mutex = p
      BY <1>0, <1>6 DEF WriteSignal, Release, RingInv, Holding
    <2>2. /\ ready' \subseteq ready
          /\ \A t \in Threads : pc'[t] = IF t = p THEN "idle"
                ELSE IF t \in ready \ ready' THEN "r_woken" ELSE pc[t]
          /\ pc' = [t \in Threads |-> pc'[t]]
      BY <1>6 DEF WriteSignal, Wake
    <2>3. TypeOK'
      BY <1>0, <2>1, <2>2 DEF TypeOK, ringVars, WriterPC, WaiterPC, Threads
    <2>4. \A t \in Threads : pc'[t] \in Holding <=> mutex' = t
      BY <1>0, <2>1, <2>2 DEF RingInv, Holding, Threads
    <2>5. ready' = {c \in Consumers : pc'[c] = "r_asleep"}
      BY <1>0, <2>2 DEF RingInv, Threads
    <2>6. \A c \in Consumers : pc'[c] \in WaiterPC
      BY <1>0, <2>2 DEF RingInv, Threads, WaiterPC
    <2>7. \A q \in Producers : /\ pc'[q] \in WriterPC
                               /\ pc'[q] # "idle" => item'[q] \in Item
                               /\ pc'[q] = "w_store" => pc[q] = "w_store"
      BY <1>0, <2>1, <2>2 DEF RingInv, Threads, WriterPC
    <2> QED BY <2>1, <2>3, <2>4, <2>5, <2>6, <2>7, FrameInv DEF RingInv
  <1>7. CASE WriteReturn(p)
    <2>1. UNCHANGED ringVars
      BY <1>7 DEF WriteReturn
    <2>2. TypeOK'
      BY <1>0, <1>7 DEF TypeOK, WriteReturn, ringVars, WriterPC, Threads
    <2> QED BY <1>0, <1>7, <2>1, <2>2, FrameInv
            DEF RingInv, WriteReturn, Threads, WriterPC, Holding
  <1> QED BY <1>1, <1>2, <1>3, <1>4, <1>5, <1>6, <1>7 DEF WriterNext

(* Every step of a wait but the removal leaves the struct alone. *)
LEMMA WaiterInv ==
    ASSUME RingInv, NEW c \in Consumers, WaiterNext(c)
    PROVE  RingInv'
  <1> USE ThreadAssumption DEF Goto
  <1>0. /\ c \in Threads /\ c \notin Producers /\ TypeOK
        /\ pc \in [Threads -> WriterPC \cup WaiterPC]
        /\ item \in [Threads -> Item \cup {NoItem}]
    BY DEF RingInv, TypeOK, Threads
  <1>1. CASE WaitTake(c)
    BY <1>1, TakeInv
  <1>2. ASSUME UNCHANGED ringVars, item' \in [Threads -> Item \cup {NoItem}],
               \A q \in Producers : item'[q] = item[q],
               mutex' \in {mutex, c, NoThread},
               \A t \in Threads : pc'[t] \in Holding <=> mutex' = t,
               NEW l \in WaiterPC, pc' = [pc EXCEPT ![c] = l],
               ready' = {d \in Consumers : pc'[d] = "r_asleep"}
        PROVE  RingInv'
    <2>1. TypeOK'
      BY <1>0, <1>2 DEF TypeOK, ringVars, Threads
    <2>2. /\ \A q \in Producers : pc'[q] = pc[q]
          /\ \A d \in Consumers : pc'[d] \in WaiterPC
      BY <1>0, <1>2 DEF RingInv, Threads
    <2> QED BY <1>0, <1>2, <2>1, <2>2, FrameInv DEF RingInv
  <1>3. CASE CallWait(c)
    BY <1>0, <1>2, <1>3 DEF CallWait, RingInv, Holding, WaiterPC, Threads
  <1>4. CASE WaitLock(c)
    BY <1>0, <1>2, <1>4 DEF WaitLock, Acquire, RingInv, Holding, WaiterPC, Threads
  <1>5. CASE WaitSleep(c)
    BY <1>0, <1>2, <1>5 DEF WaitSleep, Release, RingInv, Holding, WaiterPC, Threads
  <1>6. CASE WaitExpire(c)
    BY <1>0, <1>2, <1>6 DEF WaitExpire, RingInv, Holding, WaiterPC, Threads
  <1>7. CASE WaitSpurious(c)
    BY <1>0, <1>2, <1>7 DEF WaitSpurious, RingInv, Holding, WaiterPC, Threads
  <1>8. CASE WaitGiveUp(c)
    BY <1>0, <1>2, <1>8 DEF WaitGiveUp, Release, RingInv, Holding, WaiterPC, Threads
  <1>9. CASE WaitReturn(c)
    BY <1>0, <1>2, <1>9 DEF WaitReturn, RingInv, Holding, WaiterPC, Threads
  <1> QED BY <1>1, <1>3, <1>4, <1>5, <1>6, <1>7, <1>8, <1>9 DEF WaiterNext

LEMMA NextInv == RingInv /\ [Next]_vars => RingInv'
  <1>1. ASSUME RingInv, Next PROVE RingInv'
    BY <1>1, WriterInv, WaiterInv DEF Next
  <1>2. ASSUME RingInv, UNCHANGED vars PROVE RingInv'
    <2>1. UNCHANGED ringVars /\ UNCHANGED <<mutex, ready, pc, item>>
      BY <1>2 DEF vars, ringVars
    <2>2. TypeOK'
      BY <1>2, <2>1 DEF RingInv, TypeOK, ringVars
    <2> QED BY <1>2, <2>1, <2>2, FrameInv DEF RingInv
  <1> QED BY <1>1, <1>2

(* The struct that ring_buf_init builds stays well formed, and the mutex   *)
(* protocol is respected, under every interleaving of the calls.           *)
THEOREM Safety == Spec => []RingInv
  <1>1. Init => RingInv
    BY InitInv
  <1>2. RingInv /\ [Next]_vars => RingInv'
    BY NextInv
  <1> QED BY <1>1, <1>2, PTL DEF Spec

(* A write never lands on an event the main thread has not read.           *)
THEOREM UnreadKept == Spec => []NoOverwrite
  <1>1. RingInv => NoOverwrite
    <2> SUFFICES ASSUME RingInv PROVE NoOverwrite
      OBVIOUS
    <2>1. /\ TypeOK /\ capacity \in Nat \ {0} /\ used \in 0..capacity
          /\ tail \in 0..(capacity - 1)
      BY DEF RingInv, TypeOK
    <2>2. ASSUME NEW p \in Producers, pc[p] = "w_store",
                 NEW k \in 0..(used - 1)
          PROVE  SlotOf(k) # head
      <3>1. k \in 0..capacity
        BY <2>1
      <3>2. SlotOf(k) = IF tail + k < capacity THEN tail + k
                                               ELSE tail + k - capacity
        BY <2>1, <3>1, SlotIs
      <3>3. head = IF tail + used < capacity THEN tail + used
                                             ELSE tail + used - capacity
        BY <2>1, SlotIs DEF RingInv
      <3>4. used < capacity
        BY <2>2 DEF RingInv
      <3> QED BY <2>1, <3>2, <3>3, <3>4
    <2>3. capacity * ElemSize <= SizeMax
      BY <2>1, SizeAssumption, DivBound DEF RingInv
    <2> QED BY <2>2, <2>3 DEF NoOverwrite, RingInv
  <1> QED BY <1>1, Safety, PTL

-----------------------------------------------------------------------------
(* The wake-ups: who is on the way to the events, and a signal not given.  *)
Taking == {c \in Consumers : pc[c] \in {"r_lock", "r_woken", "r_expired", "r_check", "r_late"}}

Owed == IF \E p \in Producers : pc[p] = "w_signal" THEN 1 ELSE 0

\* While a thread sleeps, every event has somebody who comes for it, or is
\* the one whose signal is still to be given.
WakeInv == ready # {} => used <= Cardinality(Taking) + Owed

LEMMA TakingIs == IsFiniteSet(Taking) /\ Cardinality(Taking) \in Nat /\ Owed \in {0, 1}
  <1>1. IsFiniteSet(Taking)
    BY ThreadAssumption, FS_Subset DEF Taking
  <1> QED BY <1>1, FS_CardinalityType DEF Owed

\* A waiter that comes or stays, and no write, keep the balance.
LEMMA WaiterBalance ==
    ASSUME RingInv, WakeInv, NEW c \in Consumers, NEW l, pc' = [pc EXCEPT ![c] = l],
           \/ used' = used /\ (c \in Taking => c \in Taking')
           \/ used' = used - 1
           \/ used' = 0,
           ready' # {} => ready # {} \/ used' = 0
    PROVE  WakeInv'
  <1>1. /\ pc \in [Threads -> WriterPC \cup WaiterPC] /\ used \in Nat /\ c \in Threads
        /\ c \notin Producers
    BY ThreadAssumption DEF RingInv, TypeOK, Threads
  <1>2. Owed' = Owed
    BY <1>1 DEF Owed, Threads
  <1>3. Taking' \in {Taking, Taking \cup {c}, Taking \ {c}}
    BY <1>1 DEF Taking, Threads
  <1>4. /\ Cardinality(Taking') \in Nat
        /\ Cardinality(Taking') >= Cardinality(Taking) - 1
        /\ (c \in Taking => c \in Taking') => Cardinality(Taking') >= Cardinality(Taking)
    <2> DEFINE T == Taking
    <2>0. IsFiniteSet(T) /\ Cardinality(T) \in Nat
      BY TakingIs
    <2> HIDE DEF T
    <2>1. CASE Taking' = T
      BY <2>0, <2>1 DEF T
    <2>2. CASE Taking' = T \cup {c}
      <3>1. Cardinality(T \cup {c}) = IF c \in T THEN Cardinality(T) ELSE Cardinality(T) + 1
        BY <2>0, FS_AddElement
      <3> QED BY <2>0, <2>2, <3>1 DEF T
    <2>3. CASE Taking' = T \ {c}
      <3>1. Cardinality(T \ {c}) = IF c \in T THEN Cardinality(T) - 1 ELSE Cardinality(T)
        BY <2>0, FS_RemoveElement
      <3>2. Cardinality(T \ {c}) \in Nat
        BY <2>0, FS_RemoveElement, FS_CardinalityType
      <3>3. c \notin Taking'
        BY <2>3
      <3> QED BY <2>0, <2>3, <3>1, <3>2, <3>3 DEF T
    <2> QED BY <1>3, <2>1, <2>2, <2>3 DEF T
  <1> QED BY <1>1, <1>2, <1>4, TakingIs DEF WakeInv

LEMMA WaiterWakes ==
    ASSUME RingInv, WakeInv, NEW c \in Consumers, WaiterNext(c)
    PROVE  WakeInv'
  <1> USE DEF Goto
  <1>0. /\ c \in Threads /\ used \in Nat /\ pc \in [Threads -> WriterPC \cup WaiterPC]
    BY DEF RingInv, TypeOK, Threads
  <1>1. CASE CallWait(c)
    BY <1>0, <1>1, WaiterBalance DEF CallWait, ringVars, Taking
  <1>2. CASE WaitLock(c)
    BY <1>0, <1>2, WaiterBalance DEF WaitLock, ringVars, Taking
  <1>3. CASE WaitSleep(c)
    BY <1>0, <1>3, WaiterBalance DEF WaitSleep, ringVars
  <1>4. CASE WaitExpire(c)
    BY <1>0, <1>4, WaiterBalance DEF WaitExpire, ringVars, Taking
  <1>5. CASE WaitSpurious(c)
    BY <1>0, <1>5, WaiterBalance DEF WaitSpurious, ringVars, Taking
  <1>6. CASE WaitGiveUp(c)
    BY <1>0, <1>6, WaiterBalance DEF WaitGiveUp, ringVars
  <1>7. CASE WaitTake(c)
    BY <1>0, <1>7, WaiterBalance DEF WaitTake
  <1>8. CASE WaitReturn(c)
    BY <1>0, <1>8, WaiterBalance DEF WaitReturn, ringVars, Taking
  <1> QED BY <1>1, <1>2, <1>3, <1>4, <1>5, <1>6, <1>7, <1>8 DEF WaiterNext

LEMMA WriterWakes ==
    ASSUME RingInv, WakeInv, NEW p \in Producers, WriterNext(p)
    PROVE  WakeInv'
  <1> USE DEF Goto
  <1>0. /\ p \in Threads /\ p \notin Consumers /\ used \in Nat
        /\ pc \in [Threads -> WriterPC \cup WaiterPC]
        /\ ready = {c \in Consumers : pc[c] = "r_asleep"}
    BY ThreadAssumption DEF RingInv, TypeOK, Threads
  <1>1. ASSUME NEW l, pc' = [pc EXCEPT ![p] = l], used' = used, ready' = ready,
               pc[p] # "w_signal", l # "w_signal"
        PROVE  WakeInv'
    <2>1. Taking' = Taking
      BY <1>0, <1>1 DEF Taking, Threads
    <2>2. Owed' = Owed
      BY <1>0, <1>1 DEF Owed, Threads
    <2> QED BY <1>1, <2>1, <2>2 DEF WakeInv
  <1>2. ASSUME NEW i \in Item, CallWrite(p, i) PROVE WakeInv'
    BY <1>1, <1>2 DEF CallWrite, ringVars
  <1>3. CASE WriteLock(p)
    BY <1>1, <1>3 DEF WriteLock, ringVars
  <1>4. CASE WriteRoom(p)
    BY <1>1, <1>4 DEF WriteRoom, ringVars
  <1>5. CASE WriteFail(p)
    BY <1>1, <1>5 DEF WriteFail, ringVars
  <1>6. CASE WriteReturn(p)
    BY <1>1, <1>6 DEF WriteReturn, ringVars
  <1>7. CASE WriteStore(p)
    <2>1. Taking' = Taking
      BY <1>0, <1>7 DEF WriteStore, Taking, Threads
    <2>2. Owed' = 1
      BY <1>0, <1>7 DEF WriteStore, Owed
    <2>3. Owed = 0
      BY <1>0, <1>7 DEF WriteStore, Owed, RingInv, Holding, Threads
    <2> QED BY <1>0, <1>7, <2>1, <2>2, <2>3, TakingIs DEF WriteStore, WakeInv
  <1>8. CASE WriteSignal(p)
    <2>1. used' = used /\ pc[p] = "w_signal" /\ ready' \subseteq ready
      BY <1>8 DEF WriteSignal, Wake, ringVars
    <2>2. \A t \in Threads : pc'[t] = IF t = p THEN "idle"
                              ELSE IF t \in ready \ ready' THEN "r_woken" ELSE pc[t]
      BY <1>8 DEF WriteSignal
    <2>3. CASE ready = {}
      BY <2>1, <2>3 DEF WakeInv
    <2>4. CASE ready # {}
      <3>1. PICK t \in ready : ready' = ready \ {t}
        BY <1>8, <2>4 DEF WriteSignal, Wake
      <3>2. Taking' = Taking \cup {t} /\ t \notin Taking
        BY <1>0, <2>2, <3>1 DEF Taking, Threads
      <3>3. Cardinality(Taking') = Cardinality(Taking) + 1
        BY <3>2, TakingIs, FS_AddElement
      <3>4. Owed = 1 /\ Owed' \in {0, 1}
        BY <2>1 DEF Owed
      <3> QED BY <1>0, <2>1, <2>4, <3>3, <3>4, TakingIs DEF WakeInv
    <2> QED BY <2>3, <2>4
  <1> QED BY <1>2, <1>3, <1>4, <1>5, <1>6, <1>7, <1>8 DEF WriterNext

(* One signal for each event is enough (ring_buf_write signals once, and   *)
(* ring_buf_wait looks again before it sleeps): nobody sleeps beside an    *)
(* event that nobody comes for, under every interleaving and timeout.      *)
THEOREM NoSleeperForgotten == Spec => []NoLostWakeup
  <1>1. Init => WakeInv
    BY DEF Init, WakeInv
  <1>2. RingInv /\ WakeInv /\ [Next]_vars => WakeInv'
    <2>1. ASSUME RingInv, WakeInv, Next PROVE WakeInv'
      BY <2>1, WriterWakes, WaiterWakes DEF Next
    <2>2. ASSUME WakeInv, UNCHANGED vars PROVE WakeInv'
      BY <2>2 DEF WakeInv, Taking, Owed, vars
    <2> QED BY <2>1, <2>2
  <1>3. RingInv /\ WakeInv => NoLostWakeup
    <2> SUFFICES ASSUME RingInv, WakeInv, mutex = NoThread, ready # {}
                 PROVE  used <= Cardinality({c \in Consumers :
                                  pc[c] \in {"r_lock", "r_woken", "r_expired"}})
      BY DEF NoLostWakeup
    <2>1. \A t \in Threads : pc[t] \notin Holding
      BY ThreadAssumption DEF RingInv, Threads
    <2>2. Taking = {c \in Consumers : pc[c] \in {"r_lock", "r_woken", "r_expired"}}
      BY <2>1 DEF Taking, Holding, Threads
    <2>3. Owed = 0
      BY <2>1 DEF Owed, Holding, Threads
    <2> QED BY <2>2, <2>3, TakingIs DEF WakeInv
  <1> QED BY <1>1, <1>2, <1>3, Safety, PTL DEF Spec

-----------------------------------------------------------------------------
(* The refinement: what each step does to the queue of unread events. *)
Statuses == [t \in Threads |-> StatusAt(pc[t])]

LEMMA SameQueue ==
    ASSUME RingInv, UNCHANGED ringVars
    PROVE  Unread' = Unread
  BY FrameInv DEF Unread, ringVars

LEMMA GrowQueue ==
    ASSUME RingInv, NEW p \in Producers, WriteRoom(p)
    PROVE  Unread' = Unread
  <1>1. CASE UNCHANGED ringVars
    BY <1>1, SameQueue
  <1>2. CASE Full /\ MayDouble /\ Grown /\ UNCHANGED used
    <2>1. capacity \in Nat \ {0} /\ used = capacity
      BY <1>2 DEF RingInv, TypeOK, Full
    <2>2. ASSUME NEW k \in 1..used
          PROVE  buffer'[SlotOf(k - 1)'] = buffer[SlotOf(k - 1)]
      <3>1. /\ k - 1 \in 0..(2 * capacity) /\ k - 1 \in 0..(2 * capacity - 1)
            /\ k - 1 < used /\ 2 * capacity \in Nat \ {0}
            /\ 0 \in 0..(2 * capacity - 1)
        BY <2>1
      <3>2. SlotOf(k - 1)' = After(0, k - 1, 2 * capacity)
        BY <1>2 DEF SlotOf, After, Grown
      <3>3. After(0, k - 1, 2 * capacity) = k - 1
        BY <2>1, <3>1, AfterIs
      <3>4. Unrolled[k - 1] = buffer[SlotOf(k - 1)]
        BY <3>1 DEF Unrolled
      <3> QED BY <1>2, <3>2, <3>3, <3>4 DEF Grown
    <2> QED BY <1>2, <2>2 DEF Unread
  <1> QED BY <1>1, <1>2 DEF WriteRoom

LEMMA StoreQueue ==
    ASSUME RingInv, NEW p \in Producers, WriteStore(p)
    PROVE  Unread' = Append(Unread, item[p])
  <1>1. /\ TypeOK /\ capacity \in Nat \ {0} /\ used \in 0..capacity
        /\ used < capacity /\ head \in 0..(capacity - 1)
        /\ buffer \in [0..(capacity - 1) -> Item \cup {NoItem}]
        /\ tail \in 0..(capacity - 1) /\ item[p] \in Item
    BY DEF RingInv, TypeOK, WriteStore
  <1>2. \A k : SlotOf(k)' = SlotOf(k)
    BY DEF WriteStore, SlotOf
  <1>3. used' = used + 1 /\ buffer' = [buffer EXCEPT ![head] = item[p]]
    BY DEF WriteStore
  <1>4. ASSUME NEW k \in 1..used
        PROVE  buffer'[SlotOf(k - 1)'] = buffer[SlotOf(k - 1)]
    <2>1. k - 1 \in 0..capacity /\ k - 1 < used
      BY <1>1
    <2>2. SlotOf(k - 1) = IF tail + (k - 1) < capacity THEN tail + (k - 1)
                          ELSE tail + (k - 1) - capacity
      BY <1>1, <2>1, SlotIs
    <2>3. head = IF tail + used < capacity THEN tail + used
                                           ELSE tail + used - capacity
      BY <1>1, SlotIs DEF RingInv
    <2>4. SlotOf(k - 1) # head
      BY <1>1, <2>1, <2>2, <2>3
    <2> QED BY <1>1, <1>2, <1>3, <2>4
  <1>5. buffer'[SlotOf(used)] = item[p]
    BY <1>1, <1>3 DEF RingInv
  <1>6. Unread \in Seq(Item) /\ Len(Unread) = used
    <2>1. ASSUME NEW k \in 1..used PROVE buffer[SlotOf(k - 1)] \in Item
      BY <1>1 DEF RingInv
    <2> QED BY <1>1, <2>1 DEF Unread
  <1>7. Append(Unread, item[p])
          = [k \in 1..(used + 1) |-> IF k = used + 1 THEN item[p] ELSE Unread[k]]
    BY <1>1, <1>6
  <1>8. ASSUME NEW k \in 1..(used + 1)
        PROVE  buffer'[SlotOf(k - 1)'] = IF k = used + 1 THEN item[p] ELSE Unread[k]
    <2>1. CASE k = used + 1
      <3>1. k - 1 = used
        BY <1>1, <2>1
      <3> QED BY <1>5, <2>1, <3>1, <1>2
    <2>2. CASE k \in 1..used
      BY <1>1, <1>4, <2>2 DEF Unread
    <2> QED BY <1>1, <2>1, <2>2
  <1> QED BY <1>3, <1>7, <1>8 DEF Unread

LEMMA TakeQueue ==
    ASSUME RingInv, NEW c \in Consumers, WaitTake(c)
    PROVE  /\ Unread # <<>>
           /\ Unread' = Tail(Unread)
           /\ buffer[tail] = Head(Unread)
  <1>1. /\ used \in Nat \ {0} /\ SlotOf(0) = tail
        /\ \A k \in 0..(used - 1) : SlotOf(k)' = SlotOf(k + 1)
    BY TakeInv
  <1>2. used' = used - 1 /\ buffer' = buffer
    BY DEF WaitTake
  <1>3. Unread \in Seq(Item) /\ Len(Unread) = used
    <2>1. ASSUME NEW k \in 1..used PROVE buffer[SlotOf(k - 1)] \in Item
      BY <1>1 DEF RingInv
    <2> QED BY <1>1, <2>1 DEF Unread
  <1>4. Head(Unread) = buffer[tail]
    BY <1>1, <1>3 DEF Unread
  <1>5. Tail(Unread) = [k \in 1..(used - 1) |-> Unread[k + 1]]
    <2>1. Unread # <<>>
      BY <1>1, <1>3
    <2>2. /\ Tail(Unread) \in Seq(Item) /\ Len(Tail(Unread)) = used - 1
          /\ \A k \in 1..(used - 1) : Tail(Unread)[k] = Unread[k + 1]
      BY <1>1, <1>3, <2>1, HeadTailProperties
    <2> DEFINE rest == [k \in 1..(used - 1) |-> Unread[k + 1]]
    <2>3. ASSUME NEW k \in 1..(used - 1) PROVE Unread[k + 1] \in Item
      BY <1>1, <1>3
    <2>4. /\ rest \in Seq(Item) /\ Len(rest) = used - 1
          /\ \A k \in 1..(used - 1) : rest[k] = Unread[k + 1]
      BY <1>1, <2>3
    <2> HIDE DEF rest
    <2>5. Tail(Unread) = rest
      BY <1>1, <2>2, <2>4, SeqEqual
    <2> QED BY <2>5 DEF rest
  <1>6. ASSUME NEW k \in 1..(used - 1)
        PROVE  buffer'[SlotOf(k - 1)'] = Unread[k + 1]
    <2>1. k - 1 \in 0..(used - 1) /\ k - 1 + 1 = k /\ k + 1 \in 1..used
          /\ k + 1 - 1 = k
      BY <1>1
    <2>2. SlotOf(k - 1)' = SlotOf(k)
      BY <1>1, <2>1
    <2> QED BY <1>2, <2>1, <2>2 DEF Unread
  <1> QED BY <1>1, <1>2, <1>3, <1>4, <1>5, <1>6 DEF Unread

(* A thread that moves from one label to another changes its own status. *)
LEMMA StatusStep ==
    ASSUME TypeOK, NEW t \in Threads, NEW l, pc' = [pc EXCEPT ![t] = l]
    PROVE  Statuses' = [Statuses EXCEPT ![t] = StatusAt(l)]
  BY DEF TypeOK, Statuses

LEMMA StatusKept ==
    ASSUME TypeOK, NEW t \in Threads, NEW l, pc' = [pc EXCEPT ![t] = l],
           StatusAt(l) = StatusAt(pc[t])
    PROVE  Statuses' = Statuses
  BY DEF TypeOK, Statuses

LEMMA WriterRefines ==
    ASSUME RingInv, NEW p \in Producers, WriterNext(p)
    PROVE  [Abs!AbsNext]_(Abs!absVars)
  <1> USE DEF Goto
  <1>0. /\ p \in Threads /\ TypeOK /\ Statuses[p] = StatusAt(pc[p])
        /\ pc \in [Threads -> WriterPC \cup WaiterPC]
    BY DEF RingInv, TypeOK, Threads, Statuses
  <1>a. ASSUME Unread' = Unread, Statuses' = Statuses, item' = item
        PROVE  UNCHANGED Abs!absVars
    BY <1>a DEF Abs!absVars, Statuses
  <1>1. ASSUME NEW i \in Item, CallWrite(p, i) PROVE Abs!Call(p, i)
    <2>1. Unread' = Unread
      BY <1>1, SameQueue DEF CallWrite
    <2>2. Statuses' = [Statuses EXCEPT ![p] = "pending"]
      <3>1. StatusAt("w_lock") = "pending"
        BY DEF StatusAt
      <3> QED BY <1>0, <1>1, <3>1, StatusStep DEF CallWrite
    <2>3. Statuses[p] = "idle" /\ item' = [item EXCEPT ![p] = i]
      BY <1>0, <1>1 DEF CallWrite, StatusAt
    <2> QED BY <2>1, <2>2, <2>3 DEF Abs!Call, Statuses
  <1>2. CASE WriteLock(p)
    <2>1. Statuses' = Statuses
      BY <1>0, <1>2, StatusKept DEF WriteLock, StatusAt
    <2>2. Unread' = Unread /\ item' = item
      BY <1>2, SameQueue DEF WriteLock
    <2> QED BY <1>a, <2>1, <2>2
  <1>3. CASE WriteRoom(p)
    <2>1. Statuses' = Statuses
      BY <1>0, <1>3, StatusKept DEF WriteRoom, StatusAt
    <2>2. Unread' = Unread /\ item' = item
      BY <1>3, GrowQueue DEF WriteRoom
    <2> QED BY <1>a, <2>1, <2>2
  <1>4. CASE WriteFail(p)
    <2>1. Statuses' = [Statuses EXCEPT ![p] = "no"]
      BY <1>0, <1>4, StatusStep DEF WriteFail, StatusAt
    <2>2. Statuses[p] = "pending"
      BY <1>0, <1>4 DEF WriteFail, StatusAt
    <2>3. Unread' = Unread /\ item' = item
      BY <1>4, SameQueue DEF WriteFail
    <2>4. Abs!Refuse(p)
      BY <2>1, <2>2, <2>3 DEF Abs!Refuse, Statuses
    <2> QED BY <2>4 DEF Abs!AbsNext
  <1>5. CASE WriteStore(p)
    <2>1. Statuses' = [Statuses EXCEPT ![p] = "yes"]
      BY <1>0, <1>5, StatusStep DEF WriteStore, StatusAt
    <2>2. Statuses[p] = "pending"
      BY <1>0, <1>5 DEF WriteStore, StatusAt
    <2>3. Unread' = Append(Unread, item[p]) /\ item' = item
      BY <1>5, StoreQueue DEF WriteStore
    <2>4. Abs!Put(p)
      BY <2>1, <2>2, <2>3 DEF Abs!Put, Statuses
    <2> QED BY <2>4 DEF Abs!AbsNext
  <1>6. CASE WriteSignal(p)
    <2>1. ASSUME NEW t \in Threads, t # p PROVE StatusAt(pc'[t]) = StatusAt(pc[t])
      <3>1. t \in ready => pc[t] = "r_asleep"
        BY DEF RingInv
      <3> QED BY <1>6, <2>1, <3>1 DEF WriteSignal, StatusAt
    <2>2. Statuses' = [Statuses EXCEPT ![p] = "idle"]
      <3>1. pc'[p] = "idle"
        BY <1>0, <1>6 DEF WriteSignal
      <3> QED BY <2>1, <3>1 DEF Statuses, StatusAt
    <2>3. Statuses[p] = "yes"
      BY <1>0, <1>6 DEF WriteSignal, StatusAt
    <2>4. Unread' = Unread /\ item' = item
      BY <1>6, SameQueue DEF WriteSignal
    <2>5. Abs!Return(p)
      BY <2>2, <2>3, <2>4 DEF Abs!Return, Statuses
    <2> QED BY <1>0, <2>5 DEF Abs!AbsNext, Abs!Threads, Threads
  <1>7. CASE WriteReturn(p)
    <2>1. Statuses' = [Statuses EXCEPT ![p] = "idle"]
      BY <1>0, <1>7, StatusStep DEF WriteReturn, StatusAt
    <2>2. Statuses[p] = "no"
      BY <1>0, <1>7 DEF WriteReturn, StatusAt
    <2>3. Unread' = Unread /\ item' = item
      BY <1>7, SameQueue DEF WriteReturn
    <2>4. Abs!Return(p)
      BY <2>1, <2>2, <2>3 DEF Abs!Return, Statuses
    <2> QED BY <1>0, <2>4 DEF Abs!AbsNext, Abs!Threads, Threads
  <1> QED BY <1>1, <1>2, <1>3, <1>4, <1>5, <1>6, <1>7 DEF WriterNext, Abs!AbsNext

LEMMA WaiterRefines ==
    ASSUME RingInv, NEW c \in Consumers, WaiterNext(c)
    PROVE  [Abs!AbsNext]_(Abs!absVars)
  <1> USE DEF Goto
  <1>0. /\ c \in Threads /\ TypeOK /\ Statuses[c] = StatusAt(pc[c])
        /\ pc \in [Threads -> WriterPC \cup WaiterPC]
    BY DEF RingInv, TypeOK, Threads, Statuses
  <1>a. ASSUME NEW l, pc' = [pc EXCEPT ![c] = l], StatusAt(l) = StatusAt(pc[c]),
               UNCHANGED ringVars, item' = item
        PROVE  UNCHANGED Abs!absVars
    <2>1. Statuses' = Statuses
      BY <1>0, <1>a, StatusKept
    <2> QED BY <1>a, <2>1, SameQueue DEF Abs!absVars, Statuses
  <1>1. CASE CallWait(c)
    <2>1. Unread' = Unread
      BY <1>1, SameQueue DEF CallWait
    <2>2. Statuses' = [Statuses EXCEPT ![c] = "pending"]
      <3>1. StatusAt("r_lock") = "pending"
        BY DEF StatusAt
      <3> QED BY <1>0, <1>1, <3>1, StatusStep DEF CallWait
    <2>3. Statuses[c] = "idle" /\ item' = [item EXCEPT ![c] = NoItem]
      BY <1>0, <1>1 DEF CallWait, StatusAt
    <2>4. Abs!CallWait(c)
      BY <2>1, <2>2, <2>3 DEF Abs!CallWait, Abs!Call, Statuses
    <2> QED BY <2>4 DEF Abs!AbsNext
  <1>2. CASE WaitLock(c)
    BY <1>a, <1>2 DEF WaitLock, StatusAt
  <1>3. CASE WaitSleep(c)
    BY <1>a, <1>3 DEF WaitSleep, StatusAt
  <1>4. CASE WaitExpire(c)
    BY <1>a, <1>4 DEF WaitExpire, StatusAt
  <1>5. CASE WaitSpurious(c)
    BY <1>a, <1>5 DEF WaitSpurious, StatusAt
  <1>6. CASE WaitGiveUp(c)
    <2>1. Statuses' = [Statuses EXCEPT ![c] = "no"]
      BY <1>0, <1>6, StatusStep DEF WaitGiveUp, StatusAt
    <2>2. Statuses[c] = "pending"
      BY <1>0, <1>6 DEF WaitGiveUp, StatusAt
    <2>3. Unread' = Unread /\ item' = item
      BY <1>6, SameQueue DEF WaitGiveUp
    <2>4. Unread = <<>>
      BY <1>6 DEF WaitGiveUp, Unread
    <2>5. Abs!GiveUp(c)
      BY <2>1, <2>2, <2>3, <2>4 DEF Abs!GiveUp, Statuses
    <2> QED BY <2>5 DEF Abs!AbsNext
  <1>7. CASE WaitTake(c)
    <2>1. Statuses' = [Statuses EXCEPT ![c] = "yes"]
      BY <1>0, <1>7, StatusStep DEF WaitTake, StatusAt
    <2>2. Statuses[c] = "pending"
      BY <1>0, <1>7 DEF WaitTake, StatusAt
    <2>3. /\ Unread # <<>> /\ Unread' = Tail(Unread)
          /\ item' = [item EXCEPT ![c] = Head(Unread)]
      BY <1>7, TakeQueue DEF WaitTake
    <2>4. Abs!Get(c)
      BY <2>1, <2>2, <2>3 DEF Abs!Get, Statuses
    <2> QED BY <2>4 DEF Abs!AbsNext
  <1>8. CASE WaitReturn(c)
    <2>1. Statuses' = [Statuses EXCEPT ![c] = "idle"]
      BY <1>0, <1>8, StatusStep DEF WaitReturn, StatusAt
    <2>2. Statuses[c] \in {"yes", "no"}
      BY <1>0, <1>8 DEF WaitReturn, StatusAt
    <2>3. Unread' = Unread /\ item' = item
      BY <1>8, SameQueue DEF WaitReturn
    <2>4. Abs!Return(c)
      BY <2>1, <2>2, <2>3 DEF Abs!Return, Statuses
    <2> QED BY <1>0, <2>4 DEF Abs!AbsNext, Abs!Threads, Threads
  <1> QED BY <1>1, <1>2, <1>3, <1>4, <1>5, <1>6, <1>7, <1>8 DEF WaiterNext

(* The circular buffer implements the queue: one event appended per        *)
(* successful write, the oldest taken per successful wait, a refusal or a  *)
(* timeout without effect, whatever the capacity and the interleaving.     *)
THEOREM Refinement == Spec => ImplementsQueue
  <1>1. Init => Abs!AbsInit
    <2> SUFFICES ASSUME Init PROVE Abs!AbsInit
      OBVIOUS
    <2>1. Unread = <<>>
      BY DEF Init, Unread
    <2> QED BY <2>1 DEF Init, Abs!AbsInit, Threads, Abs!Threads, StatusAt
  <1>2. RingInv /\ [Next]_vars => [Abs!AbsNext]_(Abs!absVars)
    <2>1. ASSUME RingInv, Next PROVE [Abs!AbsNext]_(Abs!absVars)
      BY <2>1, WriterRefines, WaiterRefines DEF Next
    <2>2. ASSUME RingInv, UNCHANGED vars PROVE UNCHANGED Abs!absVars
      <3>1. UNCHANGED ringVars /\ pc' = pc /\ item' = item
        BY <2>2 DEF vars, ringVars
      <3> QED BY <2>2, <3>1, SameQueue DEF Abs!absVars
    <2> QED BY <2>1, <2>2
  <1> QED BY <1>1, <1>2, Safety, PTL DEF Spec, ImplementsQueue, Abs!AbsSpec
-----------------------------------------------------------------------------
(* RmScreen: the redraw thread, the main thread and fb_mutex *)

USE PanelAssumption, BoxAssumption

LEMMA Sizes == Width \in Nat \ {0} /\ Height \in Nat \ {0}
  BY DEF Width, Height

(* A pending region that is not empty lies inside the logical screen. *)
LEMMA RegionBox ==
    ASSUME NEW b \in Region, NonEmpty(b)
    PROVE  b \in Box
  <1>1. b.x0 < b.x1 /\ b.y0 < b.y1
    BY Sizes DEF NonEmpty, Region
  <1> QED BY <1>1, Sizes DEF Region, Box

(* The rectangle sent to the controller is exactly what the 16 bpp plotter *)
(* writes for the box, rotated or not.                                     *)
LEMMA RefreshIsTouched ==
    ASSUME NEW b \in Box
    PROVE  Refreshed(UpdateRect(b)) = Touched(b)
  <1>0. b.x0 \in 0..Width /\ b.x1 \in 0..Width /\ b.y0 \in 0..Height /\ b.y1 \in 0..Height
    BY DEF Box
  <1>1. CASE Landscape
    <2>1. Width = PhysHeight /\ Height = PhysWidth
      BY <1>1 DEF Width, Height
    <2>2. ASSUME NEW x \in 0..(PhysWidth - 1), NEW y \in 0..(PhysHeight - 1)
          PROVE  <<x, y>> \in Refreshed(UpdateRect(b)) <=> <<x, y>> \in Touched(b)
      <3> DEFINE ly == PhysWidth - 1 - x
      <3>1. ly \in 0..(Height - 1) /\ PhysWidth - 1 - ly = x /\ y \in 0..(Width - 1)
        BY <2>1
      <3>2. <<x, y>> \in Refreshed(UpdateRect(b)) <=>
               x >= PhysWidth - b.y1 /\ x < PhysWidth - b.y1 + (b.y1 - b.y0)
               /\ y >= b.x0 /\ y < b.x0 + (b.x1 - b.x0)
        BY <1>1 DEF Refreshed, UpdateRect, Cells
      <3>3. <<x, y>> \in Touched(b) <=> <<y, ly>> \in CellsOf(b)
        <4>1. <<y, ly>> \in CellsOf(b) => <<x, y>> \in Touched(b)
          BY <1>1, <3>1 DEF Touched, Physical
        <4>2. ASSUME <<x, y>> \in Touched(b) PROVE <<y, ly>> \in CellsOf(b)
          <5>1. PICK c \in CellsOf(b) : <<x, y>> = Physical(c)
            BY <4>2 DEF Touched
          <5>2. c = <<c[1], c[2]>> /\ c[1] \in Nat /\ c[2] \in Nat
            BY Sizes DEF CellsOf
          <5>3. x = PhysWidth - 1 - c[2] /\ y = c[1]
            BY <1>1, <5>1 DEF Physical
          <5>4. c[2] = ly
            BY <5>2, <5>3
          <5> QED BY <5>1, <5>2, <5>3, <5>4
        <4> QED BY <4>1, <4>2
      <3>4. <<y, ly>> \in CellsOf(b) <=> y >= b.x0 /\ y < b.x1 /\ ly >= b.y0 /\ ly < b.y1
        BY <3>1 DEF CellsOf
      <3> QED BY <1>0, <2>1, <3>2, <3>3, <3>4
    <2>3. ASSUME NEW c \in Touched(b) PROVE c \in Cells
      <3>1. PICK d \in CellsOf(b) : c = Physical(d)
        BY DEF Touched
      <3>2. d[1] \in 0..(Width - 1) /\ d[2] \in 0..(Height - 1)
        BY DEF CellsOf
      <3> QED BY <1>1, <2>1, <3>1, <3>2 DEF Physical, Cells
    <2> QED BY <2>2, <2>3 DEF Refreshed, Cells
  <1>2. CASE ~Landscape
    <2>1. Width = PhysWidth /\ Height = PhysHeight
      BY <1>2 DEF Width, Height
    <2>2. Touched(b) = CellsOf(b)
      BY <1>2 DEF Touched, Physical
    <2>3. ASSUME NEW c \in Cells
          PROVE  c \in Refreshed(UpdateRect(b)) <=> c \in CellsOf(b)
      <3>1. c[1] \in 0..(PhysWidth - 1) /\ c[2] \in 0..(PhysHeight - 1)
        BY DEF Cells
      <3>2. c \in Refreshed(UpdateRect(b)) <=>
               c[1] >= b.x0 /\ c[1] < b.x0 + (b.x1 - b.x0)
               /\ c[2] >= b.y0 /\ c[2] < b.y0 + (b.y1 - b.y0)
        BY <1>2 DEF Refreshed, UpdateRect
      <3>3. c \in CellsOf(b) <=> c[1] >= b.x0 /\ c[1] < b.x1 /\ c[2] >= b.y0 /\ c[2] < b.y1
        BY <2>1 DEF CellsOf, Cells
      <3> QED BY <1>0, <2>1, <3>1, <3>2, <3>3
    <2> QED BY <2>1, <2>2, <2>3 DEF Refreshed, CellsOf, Cells
  <1> QED BY <1>1, <1>2

LEMMA TouchedIsOnPanel ==
    ASSUME NEW b \in Box
    PROVE  Touched(b) \subseteq Cells
  BY RefreshIsTouched DEF Refreshed

(* A claim that is added to the region never shrinks it. *)
LEMMA UnionCovers ==
    ASSUME NEW a \in Region, NEW b \in Boxes
    PROVE  /\ Union(a, b) \in Region
           /\ NonEmpty(Union(a, b))
           /\ NonEmpty(a) => Touched(a) \subseteq Touched(Union(a, b))
           /\ Touched(b) \subseteq Touched(Union(a, b))
  <1> DEFINE u == Union(a, b)
  <1>1. /\ a.x0 \in 0..Width \cup {IntMax} /\ a.x1 \in 0..Width \cup {IntMin}
        /\ a.y0 \in 0..Height \cup {IntMax} /\ a.y1 \in 0..Height \cup {IntMin}
    BY DEF Region
  <1>2. /\ b \in Box /\ b.x0 < b.x1 /\ b.y0 < b.y1
        /\ b.x0 \in 0..Width /\ b.x1 \in 0..Width
        /\ b.y0 \in 0..Height /\ b.y1 \in 0..Height
    BY DEF Box
  <1>3. /\ u.x0 \in 0..Width /\ u.x0 <= a.x0 /\ u.x0 <= b.x0
        /\ u.y0 \in 0..Height /\ u.y0 <= a.y0 /\ u.y0 <= b.y0
    BY <1>1, <1>2, Sizes DEF Union, Least
  <1>4. /\ u.x1 \in 0..Width /\ u.x1 >= a.x1 /\ u.x1 >= b.x1
        /\ u.y1 \in 0..Height /\ u.y1 >= a.y1 /\ u.y1 >= b.y1
    BY <1>1, <1>2, Sizes DEF Union, Greatest
  <1>5. u \in Region
    BY <1>3, <1>4 DEF Union, Region
  <1>6. NonEmpty(u)
    BY <1>2, <1>3, <1>4, Sizes DEF NonEmpty
  <1>7. CellsOf(b) \subseteq CellsOf(u)
    BY <1>2, <1>3, <1>4, Sizes DEF CellsOf
  <1>8. ASSUME NonEmpty(a) PROVE CellsOf(a) \subseteq CellsOf(u)
    <2>1. a.x0 \in 0..Width /\ a.x1 \in 0..Width /\ a.y0 \in 0..Height /\ a.y1 \in 0..Height
      BY <1>8, RegionBox DEF Box
    <2> QED BY <2>1, <1>3, <1>4, Sizes DEF CellsOf
  <1> QED BY <1>5, <1>6, <1>7, <1>8 DEF Touched

LEMMA InitScreen == ScreenInit => ScreenInv
  <1>1. Zero \in Region
    BY Sizes DEF Zero, Region
  <1> QED BY <1>1 DEF ScreenInit, ScreenInv, ScreenTypeOK, MainPC, ThreadPC, Exclusion,
                     InCritical, Starting, DamageCovered

LEMMA NothingIsEmpty ==
    Nothing \in Region /\ ~NonEmpty(Nothing) /\ ~NonEmpty(Zero)
  BY Sizes DEF Nothing, Zero, Region, NonEmpty

(* The steps that start or stop the thread draw nothing. *)
LEMMA StartScreen ==
    ASSUME ScreenInv,
           CreateThread \/ Activate \/ InitMutex \/ InitRegion
    PROVE  ScreenInv'
  <1> USE DEF ScreenInv, Starting
  <1>1. CASE CreateThread
    BY <1>1 DEF CreateThread, ScreenTypeOK, MainPC, ThreadPC, Exclusion, InCritical,
                DamageCovered, Pending, InHand
  <1>2. CASE Activate
    BY <1>2 DEF Activate, ScreenTypeOK, MainPC, ThreadPC, Exclusion, InCritical,
                DamageCovered, Pending, InHand
  <1>3. CASE InitMutex
    BY <1>3 DEF InitMutex, ScreenTypeOK, MainPC, ThreadPC, Exclusion, InCritical,
                DamageCovered, Pending, InHand
  <1>4. CASE InitRegion
    BY <1>4, NothingIsEmpty
       DEF InitRegion, ScreenTypeOK, MainPC, ThreadPC, Exclusion, InCritical,
           DamageCovered, Pending, InHand
  <1> QED BY <1>1, <1>2, <1>3, <1>4

LEMMA StopScreen ==
    ASSUME ScreenInv,
           Close \/ Unmap \/ Deactivate \/ Join
    PROVE  ScreenInv'
  BY DEF ScreenInv, Starting, Close, Unmap, Deactivate, Join, ScreenTypeOK, MainPC,
         ThreadPC, Exclusion, InCritical, DamageCovered, Pending, InHand

(* Drawing needs the claim, and the claim needs the mutex. *)
LEMMA DrawScreen ==
    ASSUME ScreenInv,
           (\E b \in Boxes : Claim(b)) \/ Draw \/ Update
    PROVE  ScreenInv'
  <1> USE DEF ScreenInv, Starting
  <1>1. ASSUME NEW b \in Boxes, Claim(b) PROVE ScreenInv'
    BY <1>1 DEF Claim, ScreenTypeOK, MainPC, ThreadPC, Exclusion, InCritical,
                DamageCovered, Pending, InHand
  <1>2. CASE Draw
    <2>1. PICK c \in Touched(claimed) : stale' = stale \cup {c} /\ failed' = failed \ {c}
      BY <1>2 DEF Draw
    <2>2. c \in Cells
      BY <1>2, TouchedIsOnPanel DEF Draw
    <2>3. ScreenTypeOK'
      BY <1>2, <2>1, <2>2 DEF Draw, ScreenTypeOK
    <2>4. DamageCovered'
      BY <1>2, <2>1 DEF Draw, DamageCovered, Pending, InHand, Exclusion, InCritical
    <2> QED BY <1>2, <2>3, <2>4 DEF Draw, Exclusion, InCritical
  <1>3. CASE Update
    <2>1. claimed \in Boxes /\ next_update \in Region
      BY <1>3 DEF Update, ScreenTypeOK
    <2>2. ScreenTypeOK'
      BY <1>3, <2>1, UnionCovers DEF Update, ScreenTypeOK, MainPC
    <2>3. DamageCovered'
      BY <1>3, <2>1, UnionCovers
         DEF Update, DamageCovered, Pending, InHand, Exclusion, InCritical
    <2> QED BY <1>3, <2>2, <2>3 DEF Update, Exclusion, InCritical
  <1> QED BY <1>1, <1>2, <1>3

(* The thread holds the mutex from its look at the region to its reset, so *)
(* what it empties is what it sent.                                        *)
LEMMA ThreadScreen ==
    ASSUME ScreenInv, ThreadNext
    PROVE  ScreenInv'
  <1> USE DEF ScreenInv, Starting
  <1>1. CASE Test
    BY <1>1 DEF Test, ScreenTypeOK, MainPC, ThreadPC, Exclusion, InCritical,
                DamageCovered, Pending, InHand
  <1>2. CASE Lock
    BY <1>2 DEF Lock, ScreenTypeOK, MainPC, ThreadPC, Exclusion, InCritical,
                DamageCovered, Pending, InHand
  <1>3. CASE Send
    <2> DEFINE covered == Refreshed(UpdateRect(next_update))
    <2>1. NonEmpty(next_update) /\ next_update \in Region
      BY <1>3 DEF Send, ScreenTypeOK
    <2>2. covered = Touched(next_update) /\ covered = Pending
      BY <2>1, RegionBox, RefreshIsTouched DEF Pending
    <2>3. \/ stale' = stale \ covered /\ failed' = failed \ covered
          \/ stale' = stale /\ failed' = failed \cup (stale \cap covered)
      BY <1>3 DEF Send
    <2>4. ScreenTypeOK'
      BY <1>3, <2>3 DEF Send, ScreenTypeOK, ThreadPC
    <2>5. DamageCovered'
      BY <1>3, <2>2, <2>3
         DEF Send, DamageCovered, InHand, Exclusion, InCritical
    <2> QED BY <1>3, <2>1, <2>4, <2>5, NothingIsEmpty
            DEF Send, Exclusion, InCritical
  <1>4. CASE Reset
    BY <1>4, NothingIsEmpty
       DEF Reset, AfterSend, ScreenTypeOK, MainPC, ThreadPC, Exclusion, InCritical,
           DamageCovered, Pending, InHand
  <1>5. CASE Skip
    BY <1>5 DEF Skip, ScreenTypeOK, MainPC, ThreadPC, Exclusion, InCritical,
                DamageCovered, Pending, InHand
  <1>6. CASE Unlock
    BY <1>6 DEF Unlock, ScreenTypeOK, MainPC, ThreadPC, Exclusion, InCritical,
                DamageCovered, Pending, InHand
  <1> QED BY <1>1, <1>2, <1>3, <1>4, <1>5, <1>6 DEF ThreadNext

(* fb_initialize, fb_claim_region, fb_update_region, fb_finalize and       *)
(* fb_async_redraw keep the inductive invariant, on every panel.           *)
THEOREM ScreenSafety == ScreenSpec => []ScreenInv
  <1>1. ASSUME ScreenInv, [ScreenNext]_screenVars PROVE ScreenInv'
    <2>1. CASE MainNext
      BY <1>1, <2>1, StartScreen, StopScreen, DrawScreen DEF MainNext
    <2>2. CASE ThreadNext
      BY <1>1, <2>2, ThreadScreen
    <2>3. CASE UNCHANGED screenVars
      BY <1>1, <2>3 DEF screenVars, ScreenInv, ScreenTypeOK, Exclusion, InCritical, Starting,
                        DamageCovered, Pending, InHand
    <2> QED BY <1>1, <2>1, <2>2, <2>3 DEF ScreenNext
  <1> QED BY <1>1, InitScreen, PTL DEF ScreenSpec

(* The controller never reads what is being drawn: fb_mutex excludes the   *)
(* two threads unless its initialisation overtook the first lock.          *)
THEOREM ScreenExclusion == ScreenSpec => []Exclusion
  <1>1. ScreenInv => Exclusion
    BY DEF ScreenInv
  <1> QED BY <1>1, ScreenSafety, PTL

(* No damage is forgotten: everything drawn and not refreshed is in the    *)
(* pending region or in the present claim, in either orientation.          *)
THEOREM NoDamageForgotten == ScreenSpec => []DamageCovered
  <1>1. ScreenInv => DamageCovered
    BY DEF ScreenInv
  <1> QED BY <1>1, ScreenSafety, PTL
=============================================================================
