------------------------------ MODULE RingBuf ------------------------------
(***************************************************************************)
(* libnsfb/src/surface/remarkable/ringbuf.c: the growing circular buffer   *)
(* through which the input thread hands events to NetSurf's main thread.   *)
(* The mutex, the condition variable's set of sleepers and the steps of a  *)
(* call between its lock and its unlock are explicit; an item is opaque.   *)
(* malloc may fail at any growth.                                          *)
(***************************************************************************)
EXTENDS Integers, Sequences, FiniteSets

CONSTANTS Producers,      \* threads that call ring_buf_write
          Consumers,      \* threads that call ring_buf_wait
          Item,           \* what elem_size bytes may hold
          NoItem,         \* a slot malloc has not filled, or no argument
          NoThread,       \* the mutex is free
          InitCapacity,   \* the capacity given to ring_buf_init
          ElemSize,       \* sizeof(nsfb_event_t)
          SizeMax         \* SIZE_MAX

ASSUME ThreadAssumption == /\ Producers \cap Consumers = {}
                           /\ NoThread \notin Producers \cup Consumers
                           /\ NoItem \notin Item
                           /\ IsFiniteSet(Consumers)

\* ring_buf_init refuses every other combination.
ASSUME SizeAssumption == /\ InitCapacity \in Nat \ {0}
                         /\ ElemSize \in Nat \ {0}
                         /\ SizeMax \in Nat
                         /\ InitCapacity <= SizeMax \div ElemSize

Threads == Producers \cup Consumers

VARIABLES buffer,      \* the allocated slots
          capacity,
          head,        \* where the next write goes
          tail,        \* where the next wait takes
          used,
          mutex,       \* its owner, or NoThread
          ready,       \* the threads asleep in pthread_cond_timedwait
          pc,          \* where each thread is in its call
          item         \* the argument of a write, the result of a wait

vars == <<buffer, capacity, head, tail, used, mutex, ready, pc, item>>

ringVars == <<buffer, capacity, head, tail, used>>

WriterPC == {"idle", "w_lock", "w_check", "w_store", "w_signal", "w_fail"}
WaiterPC == {"idle", "r_lock", "r_check", "r_asleep", "r_woken",
             "r_expired", "r_late", "r_took", "r_gaveup"}

-----------------------------------------------------------------------------
\* malloc does not initialise the slots.
EmptyBuffer(n) == [i \in 0..(n - 1) |-> NoItem]

\* The k-th unread item, counting from 0.
SlotOf(k) == (tail + k) % capacity

\* MUTANT: the copy loop starts at slot 0 instead of tail.
UnrolledFromZero == [i \in 0..(2 * capacity - 1) |->
                       IF i < used THEN buffer[i] ELSE NoItem]

\* The copy loop: unread items first, in order, the rest uninitialised.
Unrolled == [i \in 0..(2 * capacity - 1) |->
               IF i < used THEN buffer[SlotOf(i)] ELSE NoItem]

\* No doubling whose size in bytes would wrap.
MayDouble == capacity <= (SizeMax \div ElemSize) \div 2

Grown == /\ buffer' = Unrolled
         /\ tail' = 0
         /\ head' = used
         /\ capacity' = 2 * capacity

Full == used = capacity

\* MUTANT: no pthread_cond_signal.
WakeNobody == ready' = ready

Wake == IF ready = {} THEN ready' = {}
        ELSE \E t \in ready : ready' = ready \ {t}

-----------------------------------------------------------------------------
Init == /\ buffer = EmptyBuffer(InitCapacity)
        /\ capacity = InitCapacity
        /\ head = 0 /\ tail = 0 /\ used = 0
        /\ mutex = NoThread
        /\ ready = {}
        /\ pc = [t \in Threads |-> "idle"]
        /\ item = [t \in Threads |-> NoItem]

Goto(t, label) == pc' = [pc EXCEPT ![t] = label]

Acquire(t) == mutex = NoThread /\ mutex' = t
Release(t) == mutex' = NoThread

CallWrite(p, i) == /\ pc[p] = "idle"
                   /\ item' = [item EXCEPT ![p] = i]
                   /\ Goto(p, "w_lock")
                   /\ UNCHANGED <<ringVars, mutex, ready>>

WriteLock(p) == /\ pc[p] = "w_lock"
                /\ Acquire(p)
                /\ Goto(p, "w_check")
                /\ UNCHANGED <<ringVars, ready, item>>

\* The used == capacity branch, or falling through it.
WriteRoom(p) == /\ pc[p] = "w_check"
                /\ \/ ~Full /\ UNCHANGED ringVars
                   \/ Full /\ MayDouble /\ Grown /\ UNCHANGED used
                /\ Goto(p, "w_store")
                /\ UNCHANGED <<mutex, ready, item>>

\* Doubling would overflow, or malloc returned NULL: unlock, return false.
WriteFail(p) == /\ pc[p] = "w_check"
                /\ Full
                /\ Release(p)
                /\ Goto(p, "w_fail")
                /\ UNCHANGED <<ringVars, ready, item>>

WriteStore(p) == /\ pc[p] = "w_store"
                 /\ buffer' = [buffer EXCEPT ![head] = item[p]]
                 /\ head' = (head + 1) % capacity
                 /\ used' = used + 1
                 /\ Goto(p, "w_signal")
                 /\ UNCHANGED <<capacity, tail, mutex, ready, item>>

\* pthread_cond_signal and the unlock; a woken thread still needs the mutex.
WriteSignal(p) ==
    /\ pc[p] = "w_signal"
    /\ Wake
    /\ Release(p)
    /\ pc' = [t \in Threads |->
                IF t = p THEN "idle"
                ELSE IF t \in ready \ ready' THEN "r_woken" ELSE pc[t]]
    /\ UNCHANGED <<ringVars, item>>

WriteReturn(p) == /\ pc[p] = "w_fail"
                  /\ Goto(p, "idle")
                  /\ UNCHANGED <<ringVars, mutex, ready, item>>

CallWait(c) == /\ pc[c] = "idle"
               /\ item' = [item EXCEPT ![c] = NoItem]
               /\ Goto(c, "r_lock")
               /\ UNCHANGED <<ringVars, mutex, ready>>

\* MUTANT: ETIMEDOUT is not remembered, so the wait starts over.
WaitLockForgets(c) ==
    /\ pc[c] \in {"r_lock", "r_woken", "r_expired"}
    /\ Goto(c, "r_check")
    /\ Acquire(c)
    /\ UNCHANGED <<ringVars, ready, item>>

\* The first lock, and the one pthread_cond_timedwait takes before it returns.
WaitLock(c) ==
    /\ \/ pc[c] \in {"r_lock", "r_woken"} /\ Goto(c, "r_check")
       \/ pc[c] = "r_expired" /\ Goto(c, "r_late")
    /\ Acquire(c)
    /\ UNCHANGED <<ringVars, ready, item>>

WaitSleep(c) == /\ pc[c] = "r_check"
                /\ used = 0
                /\ Release(c)
                /\ ready' = ready \cup {c}
                /\ Goto(c, "r_asleep")
                /\ UNCHANGED <<ringVars, item>>

\* The deadline passes; or POSIX lets the wait return for no reason.
WaitExpire(c) == /\ pc[c] = "r_asleep"
                 /\ ready' = ready \ {c}
                 /\ Goto(c, "r_expired")
                 /\ UNCHANGED <<ringVars, mutex, item>>

WaitSpurious(c) == /\ pc[c] = "r_asleep"
                   /\ ready' = ready \ {c}
                   /\ Goto(c, "r_woken")
                   /\ UNCHANGED <<ringVars, mutex, item>>

WaitGiveUp(c) == /\ pc[c] = "r_late"
                 /\ used = 0
                 /\ Release(c)
                 /\ Goto(c, "r_gaveup")
                 /\ UNCHANGED <<ringVars, ready, item>>

\* An item that arrived while the deadline passed is still taken.
WaitTake(c) == /\ pc[c] \in {"r_check", "r_late"}
               /\ used # 0
               /\ item' = [item EXCEPT ![c] = buffer[tail]]
               /\ tail' = (tail + 1) % capacity
               /\ used' = used - 1
               /\ Release(c)
               /\ Goto(c, "r_took")
               /\ UNCHANGED <<buffer, capacity, head, ready>>

WaitReturn(c) == /\ pc[c] \in {"r_took", "r_gaveup"}
                 /\ Goto(c, "idle")
                 /\ UNCHANGED <<ringVars, mutex, ready, item>>

WriterNext(p) == \/ \E i \in Item : CallWrite(p, i)
                 \/ WriteLock(p) \/ WriteRoom(p) \/ WriteFail(p)
                 \/ WriteStore(p) \/ WriteSignal(p) \/ WriteReturn(p)

WaiterNext(c) == \/ CallWait(c) \/ WaitLock(c) \/ WaitSleep(c)
                 \/ WaitExpire(c) \/ WaitSpurious(c) \/ WaitGiveUp(c)
                 \/ WaitTake(c) \/ WaitReturn(c)

Next == \/ \E p \in Producers : WriterNext(p)
        \/ \E c \in Consumers : WaiterNext(c)

Spec == Init /\ [][Next]_vars

(***************************************************************************)
(* A thread inside a call keeps running; a thread blocked on the mutex     *)
(* gets it if it is free again and again (the input thread sleeps 10 ms    *)
(* after every drain, so it cannot hold the others off); every sleep has   *)
(* an absolute deadline; the main loop polls again after every result.     *)
(* Nothing is assumed of the fingers: CallWrite is not fair.               *)
(***************************************************************************)
Fairness ==
    /\ \A p \in Producers :
         /\ SF_vars(WriteLock(p))
         /\ WF_vars(WriteRoom(p) \/ WriteFail(p))
         /\ WF_vars(WriteStore(p) \/ WriteSignal(p) \/ WriteReturn(p))
    /\ \A c \in Consumers :
         /\ SF_vars(WaitLock(c))
         /\ SF_vars(WaitExpire(c))
         /\ WF_vars(CallWait(c) \/ WaitSleep(c) \/ WaitGiveUp(c)
                    \/ WaitTake(c) \/ WaitReturn(c))

FairSpec == Spec /\ Fairness

-----------------------------------------------------------------------------
(* Type correctness of the C struct and of the ghost control state.        *)
TypeOK == /\ capacity \in Nat \ {0}
          /\ used \in 0..capacity
          /\ head \in 0..(capacity - 1)
          /\ tail \in 0..(capacity - 1)
          /\ buffer \in [0..(capacity - 1) -> Item \cup {NoItem}]
          /\ mutex \in Threads \cup {NoThread}
          /\ ready \subseteq Consumers
          /\ pc \in [Threads -> WriterPC \cup WaiterPC]
          /\ item \in [Threads -> Item \cup {NoItem}]

Holding == {"w_check", "w_store", "w_signal", "r_check", "r_late"}

(* ring_buf_write: the slot memcpy overwrites at head never holds an       *)
(* unread event ("must not overwrite an unread button release"), and the   *)
(* allocation size in bytes never wraps.                                   *)
NoOverwrite ==
    /\ \A p \in Producers : pc[p] = "w_store" =>
          /\ used < capacity
          /\ \A k \in 0..(used - 1) : SlotOf(k) # head
    /\ capacity * ElemSize <= SizeMax

(* The inductive invariant: the struct is well formed, exactly the unread  *)
(* slots from tail up to head are known to hold events, the mutex owner is *)
(* the one thread between a lock and its unlock, and ready is the set of   *)
(* sleepers.                                                               *)
RingInv ==
    /\ TypeOK
    /\ head = SlotOf(used)
    /\ \A k \in 0..(used - 1) : buffer[SlotOf(k)] \in Item
    /\ capacity <= SizeMax \div ElemSize
    /\ \A p \in Producers : /\ pc[p] \in WriterPC
                            /\ pc[p] # "idle" => item[p] \in Item
                            /\ pc[p] = "w_store" => used < capacity
    /\ \A c \in Consumers : pc[c] \in WaiterPC
    /\ \A t \in Threads : pc[t] \in Holding <=> mutex = t
    /\ ready = {c \in Consumers : pc[c] = "r_asleep"}

(* pthread_cond_signal under the mutex: with no call holding the lock, a   *)
(* thread sleeps beside unread events only if as many other waiters are    *)
(* already on their way to take them.                                      *)
NoLostWakeup ==
    (mutex = NoThread /\ ready # {}) =>
        used <= Cardinality({c \in Consumers :
                    pc[c] \in {"r_lock", "r_woken", "r_expired"}})

(* The unread events, oldest first.                                        *)
Unread == [k \in 1..used |-> buffer[SlotOf(k - 1)]]

\* What the caller can tell of a thread at a label.
StatusAt(l) ==
    CASE l = "idle" -> "idle"
      [] l \in {"w_signal", "r_took"} -> "yes"
      [] l \in {"w_fail", "r_gaveup"} -> "no"
      [] OTHER -> "pending"

Abs == INSTANCE EventQueue WITH queue <- Unread,
                                status <- [t \in Threads |-> StatusAt(pc[t])],
                                arg <- item

(* The buffer implements the queue: growth, wrap-around and the sleeping   *)
(* protocol are invisible, every write appends once or has no effect, and  *)
(* a wait reports a timeout only when the queue is empty.                  *)
ImplementsQueue == Abs!AbsSpec

(* Every call to ring_buf_wait comes back.                                 *)
EveryWaitReturns ==
    \A c \in Consumers : pc[c] = "r_lock" ~> pc[c] = "idle"
=============================================================================
