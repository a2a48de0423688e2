----------------------------- MODULE EventQueue -----------------------------
(***************************************************************************)
(* What the input event queue of the reMarkable surface promises to the    *)
(* threads that share it, with no buffer, no index, no mutex and no        *)
(* condition variable.  A write takes effect at one instant between its    *)
(* call and its return: it appends the item, or refuses and changes        *)
(* nothing.  A timed wait removes the oldest item, or gives up at an       *)
(* instant at which there is none.                                         *)
(***************************************************************************)
EXTENDS Sequences

CONSTANTS Producers, Consumers, Item, NoItem

Threads == Producers \cup Consumers

Status == {"idle", "pending", "yes", "no"}

VARIABLES queue,     \* items written and not yet taken, oldest first
          status,    \* where each thread is with respect to its call
          arg        \* the item a write carries, or that a wait returned

absVars == <<queue, status, arg>>

AbsInit == /\ queue = <<>>
           /\ status = [t \in Threads |-> "idle"]
           /\ arg = [t \in Threads |-> NoItem]

Call(p, item) == /\ status[p] = "idle"
                 /\ status' = [status EXCEPT ![p] = "pending"]
                 /\ arg' = [arg EXCEPT ![p] = item]
                 /\ UNCHANGED queue

Put(p) == /\ status[p] = "pending"
          /\ queue' = Append(queue, arg[p])
          /\ status' = [status EXCEPT ![p] = "yes"]
          /\ UNCHANGED arg

Refuse(p) == /\ status[p] = "pending"
             /\ status' = [status EXCEPT ![p] = "no"]
             /\ UNCHANGED <<queue, arg>>

CallWait(c) == Call(c, NoItem)

Get(c) == /\ status[c] = "pending"
          /\ queue # <<>>
          /\ queue' = Tail(queue)
          /\ arg' = [arg EXCEPT ![c] = Head(queue)]
          /\ status' = [status EXCEPT ![c] = "yes"]

GiveUp(c) == /\ status[c] = "pending"
             /\ queue = <<>>
             /\ status' = [status EXCEPT ![c] = "no"]
             /\ UNCHANGED <<queue, arg>>

Return(t) == /\ status[t] \in {"yes", "no"}
             /\ status' = [status EXCEPT ![t] = "idle"]
             /\ UNCHANGED <<queue, arg>>

AbsNext == \/ \E p \in Producers : \/ \E item \in Item : Call(p, item)
                                   \/ Put(p)
                                   \/ Refuse(p)
           \/ \E c \in Consumers : CallWait(c) \/ Get(c) \/ GiveUp(c)
           \/ \E t \in Threads : Return(t)

AbsSpec == AbsInit /\ [][AbsNext]_absVars
=============================================================================
