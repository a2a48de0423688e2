------------------------------- MODULE Timers -------------------------------
(***************************************************************************)
(* What guit->misc->schedule promises the rest of NetSurf: a set of        *)
(* one-shot timers, at most one per callback and context, each of which is *)
(* called once when its time has passed, unless it is set anew or cleared  *)
(* first.  Timers are set and cleared only by whom the main loop has       *)
(* called: outside of that, a timer goes only because it is called.        *)
(***************************************************************************)
EXTENDS Integers

CONSTANTS Callback,   \* a function with its context pointer
          Never,      \* not scheduled
          Nobody,     \* the main loop itself is in control
          Handler     \* the handler of an event is

VARIABLES due,        \* when each callback is to run, or Never
          client,     \* who is being called: a callback, Handler or Nobody
          now,        \* the wall clock
          stopped     \* the program is leaving its main loop

timers == <<due, client, now, stopped>>

TimersInit == /\ due = [c \in Callback |-> Never]
              /\ client = Nobody
              /\ stopped = FALSE

Set(c) == /\ client # Nobody
          /\ due'[c] \in Nat /\ due'[c] >= now
          /\ due' = [due EXCEPT ![c] = due'[c]]
          /\ UNCHANGED <<client, now, stopped>>

Clear(c) == /\ client # Nobody
            /\ due' = [due EXCEPT ![c] = Never]
            /\ UNCHANGED <<client, now, stopped>>

Overdue(c) == due[c] # Never /\ due[c] < now

\* The call, and with it the end of the timer.
Fire(c) == /\ client = Nobody /\ client' = c
           /\ Overdue(c) /\ ~stopped
           /\ due' = [due EXCEPT ![c] = Never]
           /\ UNCHANGED <<now, stopped>>

Handle == /\ client = Nobody /\ client' = Handler
          /\ UNCHANGED <<due, now, stopped>>

Return == /\ client # Nobody /\ client' = Nobody
          /\ UNCHANGED <<due, now, stopped>>

Pass == now' > now /\ UNCHANGED <<due, client, stopped>>

Stop == stopped' = TRUE /\ UNCHANGED <<due, client, now>>

TimersNext == \/ \E c \in Callback : Set(c) \/ Clear(c) \/ Fire(c)
              \/ Handle \/ Return \/ Pass \/ Stop

\* No timer is called early, twice, or after it was cleared, and none is
\* dropped, ...
TimersOrder == TimersInit /\ [][TimersNext]_timers

\* ... and none stays overdue.
TimersSpec == /\ TimersOrder
              /\ \A c \in Callback : Overdue(c) ~> (~Overdue(c) \/ stopped)
=============================================================================
