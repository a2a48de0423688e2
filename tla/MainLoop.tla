------------------------------ MODULE MainLoop ------------------------------
(***************************************************************************)
(* The framebuffer front end's main loop (framebuffer/gui.c,               *)
(* framebuffer_run) and its scheduler (framebuffer/schedule.c), with the   *)
(* wait for an event of the reMarkable surface.                            *)
(*                                                                         *)
(* Everything the loop calls, a scheduled callback or the handler of an    *)
(* event, may schedule, reschedule and cancel any callback and may take    *)
(* time; the model's clock may tick before every step.                     *)
(***************************************************************************)
EXTENDS Integers, Sequences, FiniteSets

CONSTANTS Callback,      \* callback functions with their context
          None,          \* no callback is running
          Delays,        \* intervals in ms; -1 stands for every negative one
          TicksPerMs,    \* the clock is finer than the interval
          MaxPoll,       \* MAX_EVENT_POLL_TIMEOUT_MS
          MaxTime        \* bound: the clock stops there

ASSUME LoopAssumption == /\ None \notin Callback \cup Nat \cup {"event"}
                         /\ "event" \notin Callback
                         /\ Delays \subseteq Nat \cup {-1}
                         /\ TicksPerMs \in Nat \ {0}
                         /\ MaxPoll \in Nat /\ MaxTime \in Nat

VARIABLES schedule_list, \* front first
          now,           \* gettimeofday
          pc,            \* where the main thread is in its loop
          tv,            \* the clock as schedule_run has sampled it
          cur,           \* cur_nscb, as a position in the list
          nexttime,      \* the soonest time seen
          running,       \* the callback being called, already unlinked
          timeout,       \* what schedule_run returned
          wake,          \* the deadline of the wait for an event
          redraw,        \* fbtk_get_redraw_pending
          fb_complete,
          called         \* the callbacks called since schedule_run began

walkVars == <<tv, cur, nexttime, running, called>>
loopVars == <<schedule_list, now, pc, walkVars, timeout, wake, redraw,
          fb_complete>>

-----------------------------------------------------------------------------
(* framebuffer_schedule *)
\* schedule_remove: the walk unlinks every entry of the callback.
Others(q, c) ==
    LET kept[n \in 0..Len(q)] == IF n = 0 THEN <<>>
                                 ELSE IF q[n].callback = c THEN kept[n - 1]
                                 ELSE Append(kept[n - 1], q[n])
    IN kept[Len(q)]

\* Unique for a callback, added at the front; a negative interval removes.
Scheduled(c, d) ==
    IF d < 0 THEN Others(schedule_list, c)
    ELSE <<[callback |-> c, at |-> now + d * TicksPerMs]>>
         \o Others(schedule_list, c)

InHandler == pc \in {"callback", "event"}

framebuffer_schedule(c, d) ==
    /\ InHandler
    /\ schedule_list' = Scheduled(c, d)
    /\ UNCHANGED <<now, pc, walkVars, timeout, wake, redraw, fb_complete>>

RequestRedraw == /\ InHandler /\ ~redraw
                 /\ redraw' = TRUE
                 /\ UNCHANGED <<schedule_list, now, pc, walkVars, timeout,
                                wake, fb_complete>>

-----------------------------------------------------------------------------
(* schedule_run *)
Restart == cur' = 1 /\ nexttime' = schedule_list[1].at

RunNothing == /\ pc = "run" /\ ~fb_complete
              /\ schedule_list = <<>>
              /\ timeout' = -1
              /\ pc' = "poll"
              /\ UNCHANGED <<schedule_list, now, walkVars, wake, redraw,
                             fb_complete>>

RunStart == /\ pc = "run" /\ ~fb_complete
            /\ schedule_list # <<>>
            /\ Restart
            /\ tv' = now
            /\ called' = {}
            /\ pc' = "walk"
            /\ UNCHANGED <<schedule_list, now, running, timeout, wake,
                           redraw, fb_complete>>

\* MUTANT: a callback set for the very moment of the sample is due already.
DueAtOnce(e) == tv >= e.at

\* timercmp(>): strictly past.
Due(e) == tv > e.at

\* MUTANT: the entry stays on the list.
CallAndKeep ==
    /\ pc = "walk" /\ cur <= Len(schedule_list)
    /\ Due(schedule_list[cur])
    /\ running' = schedule_list[cur].callback
    /\ called' = called \cup {running'}
    /\ pc' = "callback"
    /\ UNCHANGED <<schedule_list, now, tv, cur, nexttime, timeout, wake,
                   redraw, fb_complete>>

Call == /\ pc = "walk" /\ cur <= Len(schedule_list)
        /\ LET e == schedule_list[cur]
           IN  /\ Due(e)
               /\ running' = e.callback
               /\ called' = called \cup {e.callback}
        /\ schedule_list' = SubSeq(schedule_list, 1, cur - 1)
                            \o SubSeq(schedule_list, cur + 1, Len(schedule_list))
        /\ pc' = "callback"
        /\ UNCHANGED <<now, tv, cur, nexttime, timeout, wake, redraw,
                       fb_complete>>

\* MUTANT: the walk goes on where it was, although the list has changed.
WalkOn == /\ pc = "callback"
          /\ running' = None
          /\ pc' = "walk"
          /\ UNCHANGED <<schedule_list, now, tv, cur, nexttime, called,
                         timeout, wake, redraw, fb_complete>>

\* The callback may have changed the list: start over from its front.
CallbackReturns ==
    /\ pc = "callback"
    /\ running' = None
    /\ \/ /\ schedule_list = <<>>
          /\ timeout' = -1
          /\ pc' = "poll"
          /\ UNCHANGED <<cur, nexttime>>
       \/ /\ schedule_list # <<>>
          /\ Restart
          /\ pc' = "walk"
          /\ UNCHANGED timeout
    /\ UNCHANGED <<schedule_list, now, tv, called, wake, redraw, fb_complete>>

Sooner(e) == IF nexttime > e.at THEN e.at ELSE nexttime

StepOver == /\ pc = "walk" /\ cur <= Len(schedule_list)
            /\ ~Due(schedule_list[cur])
            /\ nexttime' = Sooner(schedule_list[cur])
            /\ cur' = cur + 1
            /\ UNCHANGED <<schedule_list, now, pc, tv, running, called,
                           timeout, wake, redraw, fb_complete>>

RunReturns == /\ pc = "walk" /\ cur > Len(schedule_list)
              /\ timeout' = (nexttime - tv) \div TicksPerMs
              /\ pc' = "poll"
              /\ UNCHANGED <<schedule_list, now, walkVars, wake, redraw,
                             fb_complete>>

-----------------------------------------------------------------------------
(* framebuffer_run and input_get_next_event *)
Capped(t) == IF t < 0 \/ t > MaxPoll THEN MaxPoll ELSE t

Poll == /\ pc = "poll"
        /\ wake' = now + TicksPerMs * Capped(IF redraw THEN 0 ELSE timeout)
        /\ pc' = "wait"
        /\ UNCHANGED <<schedule_list, now, walkVars, timeout, redraw,
                       fb_complete>>

\* An event ends the wait at any time, the deadline when it has come; at
\* MaxTime it counts as come.
Event == /\ pc = "wait"
         /\ pc' = "event"
         /\ UNCHANGED <<schedule_list, now, walkVars, timeout, wake, redraw,
                        fb_complete>>

Expire == /\ pc = "wait"
          /\ now >= wake \/ now = MaxTime
          /\ pc' = "event"
          /\ UNCHANGED <<schedule_list, now, walkVars, timeout, wake, redraw,
                         fb_complete>>

\* NSFB_CONTROL_QUIT
Quit == /\ pc = "event"
        /\ fb_complete' = TRUE
        /\ UNCHANGED <<schedule_list, now, pc, walkVars, timeout, wake,
                       redraw>>

fbtk_redraw == /\ pc = "event"
               /\ redraw' = FALSE
               /\ pc' = "run"
               /\ UNCHANGED <<schedule_list, now, walkVars, timeout, wake,
                              fb_complete>>

Tick == /\ now < MaxTime
        /\ now' = now + 1
        /\ UNCHANGED <<schedule_list, pc, walkVars, timeout, wake, redraw,
                       fb_complete>>

LoopInit == /\ schedule_list = <<>>
            /\ now = 0 /\ tv = 0 /\ nexttime = 0 /\ wake = 0
            /\ pc = "run" /\ cur = 1
            /\ running = None /\ called = {}
            /\ timeout = -1 /\ redraw = TRUE /\ fb_complete = FALSE

RunNext == \/ RunNothing \/ RunStart \/ Call \/ CallbackReturns \/ StepOver
           \/ RunReturns \/ Poll \/ Expire \/ fbtk_redraw

HandlerNext == \/ \E c \in Callback, d \in Delays : framebuffer_schedule(c, d)
               \/ RequestRedraw

LoopNext == RunNext \/ HandlerNext \/ Event \/ Quit \/ Tick

LoopSpec == LoopInit /\ [][LoopNext]_loopVars

(***************************************************************************)
(* The loop runs, every callback and handler returns, and time passes.     *)
(* Nobody is obliged to schedule anything or to touch the screen.          *)
(***************************************************************************)
LoopFairness ==
    /\ WF_loopVars(RunNothing \/ RunStart \/ Call \/ StepOver
                   \/ RunReturns \/ Poll)
    /\ WF_loopVars(CallbackReturns)
    /\ WF_loopVars(Expire)
    /\ WF_loopVars(fbtk_redraw)
    /\ WF_loopVars(Tick)

FairLoopSpec == LoopSpec /\ LoopFairness

-----------------------------------------------------------------------------
Soonest == LET ats == {schedule_list[i].at : i \in DOMAIN schedule_list}
           IN  CHOOSE t \in ats : \A u \in ats : t <= u

(* One pass of schedule_run calls a callback once at most, even when it    *)
(* schedules itself again with no delay: the main loop comes back to its   *)
(* input and its redraws.                                                  *)
OncePerPass ==
    [][(pc = "walk" /\ pc' = "callback") => running' \notin called]_loopVars

(* The wait for events ends no later after the next callback's time than   *)
(* the time this schedule_run has spent since it sampled the clock.        *)
LateByCallbacks ==
    [][(pc = "poll" /\ pc' = "wait" /\ schedule_list # <<>>) =>
           wake' <= Soonest + (now - tv)]_loopVars

(* Timers, with the list as a function of the callback.                    *)
At(c) == LET mine == {i \in DOMAIN schedule_list : schedule_list[i].callback = c}
         IN  IF mine = {} THEN None
             ELSE schedule_list[CHOOSE i \in mine : TRUE].at

\* Whom the main loop has called: a callback, or the handler of an event.
Client == IF pc = "event" THEN "event" ELSE running

Abs == INSTANCE Timers WITH due <- [c \in Callback |-> At(c)],
                            client <- Client,
                            Never <- None, Nobody <- None, Handler <- "event",
                            stopped <- fb_complete

\* framebuffer_schedule sets the callback it names for the time it names.
AsRequested ==
    [][\A c \in Callback, d \in Delays : framebuffer_schedule(c, d) =>
          IF d < 0 THEN Abs!Clear(c)
          ELSE Abs!Set(c) /\ At(c)' = now + d * TicksPerMs]_loopVars

(* The linked list, its unlinking before the call and its walk that starts *)
(* over after every call implement the timers: a callback is called once   *)
(* for a request, strictly after the time it named, unless a callback or   *)
(* handler rescheduled or cancelled it, and no entry leaves the list       *)
(* without its call.  One whose time has passed does not wait for ever     *)
(* unless the program ends.                                                *)
ImplementsTimers == Abs!TimersSpec /\ AsRequested
=============================================================================
