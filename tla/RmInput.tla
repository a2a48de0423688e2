------------------------------ MODULE RmInput ------------------------------
(***************************************************************************)
(* libnsfb/src/surface/remarkable/input.c: the input thread that turns     *)
(* multi-touch, pen and key events into one mouse button and one pointer.  *)
(*                                                                         *)
(* An evdev event is a record; its X and Y are one place, a number on a    *)
(* line, because nothing is decided between the two.  The kernel and       *)
(* libevdev are the environment: they report a contact's changed fields    *)
(* slot by slot and close a frame with SYN_REPORT; when the kernel's       *)
(* buffer overflows the unread events are replaced by SYN_DROPPED and      *)
(* libevdev then reports the difference to the present state.              *)
(* The event queue is RingBuf's: a write is kept, or refused if it cannot  *)
(* grow.  Of the stream it carries, the model keeps what a reader of all   *)
(* of it would know: how many times the button is down and where the       *)
(* pointer is.                                                             *)
(***************************************************************************)
EXTENDS Integers, Sequences, FiniteSets

CONSTANTS NumSlots,          \* libevdev_get_num_slots
          TrackingId,        \* the ids of contacts, a set of numbers >= 0
          Place,             \* screen positions
          DragThreshold,     \* TOUCH_DRAG_THRESHOLD
          StartPlace,        \* where the axes rest when the devices are opened
          Nowhere,           \* the pointer has not been placed yet
          MaxReports         \* bound: frames the devices send, overflows too

ASSUME InputAssumption == /\ NumSlots \in Nat \ {0}
                          /\ TrackingId \subseteq Nat
                          /\ Place \subseteq Int /\ StartPlace \in Place
                          /\ DragThreshold \in Nat
                          /\ Nowhere \notin Place

Slot == 0..(NumSlots - 1)
Contact == [id : TrackingId \cup {-1}, at : Place]

VARIABLES
    \* input_multitouch_state_t
    slots, current_slot, primary_slot, primary_tracking_id,
    gesture_active, dragging, press,
    \* input_pen_state_t
    pen, mouse_down,
    \* the last position the queue accepted
    pointer,
    \* the input thread: which device it drains; poll_active
    phase, poll_active, touch_sync, pen_sync,
    \* the environment: what is on the glass, the slot the kernel last named,
    \* and the events of each device that libevdev has still to hand over
    glass, named, stylus, touchq, penq, reports,
    \* the stream of accepted events, as its reader sees it
    depth, shown, refused,
    \* the contacts that were down at the last SYN_REPORT of the touch device
    seen

touchVars == <<slots, current_slot, primary_slot, primary_tracking_id,
               gesture_active, dragging, press>>
penVars == <<pen, mouse_down>>
outVars == <<pointer, depth, shown, refused>>
envVars == <<glass, named, stylus, reports>>
vars == <<touchVars, penVars, outVars, envVars, touchq, penq, phase,
          poll_active, touch_sync, pen_sync, seen>>

-----------------------------------------------------------------------------
(* Writing to the event queue. *)
Move(p) == [kind |-> "move", at |-> p]
Up == [kind |-> "up", at |-> Nowhere]
Down == [kind |-> "down", at |-> Nowhere]

\* input_position: nothing to say if the pointer is there already.
Position(p, force) == IF force \/ pointer # p THEN <<Move(p)>> ELSE <<>>

CountOf(writes, kept, kind) ==
    Cardinality({i \in kept : writes[i].kind = kind})

LastMove(writes, kept, default) ==
    LET moves == {i \in kept : writes[i].kind = "move"}
    IN  IF moves = {} THEN default
        ELSE writes[CHOOSE i \in moves : \A j \in moves : j <= i].at

\* MUTANT: the pointer is remembered before the write is tried.
PointerAsAsked(writes, kept) == LastMove(writes, DOMAIN writes, pointer)

\* pointer_x, pointer_y follow the writes that ring_buf_write accepted.
PointerAfter(writes, kept) == LastMove(writes, kept, pointer)

\* kept: the writes for which ring_buf_write returned true.
Send(writes) ==
    \E kept \in SUBSET (DOMAIN writes) :
        /\ refused' = (refused \/ kept # DOMAIN writes)
        /\ pointer' = PointerAfter(writes, kept)
        /\ shown' = LastMove(writes, kept, shown)
        /\ depth' = IF refused' THEN 0
                    ELSE depth + CountOf(writes, kept, "down")
                               - CountOf(writes, kept, "up")

-----------------------------------------------------------------------------
(* input_touch_frame *)
Live == {s \in Slot : slots[s].id >= 0}

FirstActive == IF Live = {} THEN -1
               ELSE CHOOSE s \in Live : \A t \in Live : s <= t

Distance(a, b) == IF a >= b THEN a - b ELSE b - a

Owned == primary_slot >= 0

\* The slot may be in use again, by another contact.
Released == Owned /\ slots[primary_slot].id # primary_tracking_id

DragBegins == /\ Owned /\ ~Released
              /\ Distance(slots[primary_slot].at, press) > DragThreshold

\* MUTANT: every movement of the owner drags.
DragsAlways == Owned /\ ~Released

Drags == Owned /\ ~Released /\ (dragging \/ DragBegins)

\* MUTANT: a finger that took the slot of the owner may press, too.
MayPressReplaced == /\ ~gesture_active \/ (Released /\ FirstActive = primary_slot)
                    /\ FirstActive >= 0 /\ ~mouse_down

MayPress == ~gesture_active /\ FirstActive >= 0 /\ ~mouse_down

OwnerWrites == IF Released THEN <<Up>>
               ELSE IF Drags THEN Position(slots[primary_slot].at, FALSE)
               ELSE <<>>

PressWrites == IF MayPress
               THEN Position(slots[FirstActive].at, TRUE) \o <<Down>>
               ELSE <<>>

GestureAfter == FirstActive >= 0

TouchFrame ==
    /\ Send(OwnerWrites \o PressWrites)
    /\ primary_slot' = IF MayPress THEN FirstActive
                       ELSE IF Released THEN -1 ELSE primary_slot
    /\ primary_tracking_id' = IF MayPress THEN slots[FirstActive].id
                              ELSE primary_tracking_id
    /\ press' = IF MayPress THEN slots[FirstActive].at ELSE press
    /\ dragging' = (~MayPress /\ (dragging \/ DragBegins))
    /\ gesture_active' = GestureAfter
    /\ seen' = {slots[s].id : s \in Live}
    /\ UNCHANGED <<slots, current_slot>>

(* input_process_touch, for every event but SYN_REPORT *)
\* MUTANT: off by one, slot 0 is not recognised.
SetSlotAboveZero(v) == current_slot' = IF v \in Slot \ {0} THEN v ELSE -1

SetSlot(v) == current_slot' = IF v \in Slot THEN v ELSE -1

TouchField(ev) ==
    /\ \/ ev.code = "slot" /\ SetSlot(ev.value) /\ UNCHANGED slots
       \/ ev.code = "id" /\ UNCHANGED current_slot
          /\ slots' = IF current_slot \in Slot
                      THEN [slots EXCEPT ![current_slot].id = ev.value]
                      ELSE slots
       \/ ev.code = "at" /\ UNCHANGED current_slot
          /\ slots' = IF current_slot \in Slot
                      THEN [slots EXCEPT ![current_slot].at = ev.value]
                      ELSE slots
    /\ UNCHANGED <<primary_slot, primary_tracking_id, gesture_active,
                   dragging, press, outVars, seen>>

(* input_process_pen *)
PenLifts == ~pen.touched /\ mouse_down
PenPresses == pen.touched /\ ~mouse_down

PenWrites == IF PenLifts THEN <<Up>>
             ELSE Position(pen.at, PenPresses)
                  \o (IF PenPresses THEN <<Down>> ELSE <<>>)

\* MUTANT: the pen acts whoever has the button.
PenActsAnyway == TRUE

\* The finger has the button: the pen is ignored.
PenMayAct == primary_slot < 0

PenFrame ==
    /\ UNCHANGED pen
    /\ \/ ~PenMayAct /\ UNCHANGED <<mouse_down, outVars>>
       \/ /\ PenMayAct
          /\ Send(PenWrites)
          /\ mouse_down' = pen.touched

PenField(ev) ==
    /\ \/ ev.code = "at" /\ pen' = [pen EXCEPT !.at = ev.value]
       \/ ev.code = "touch" /\ pen' = [pen EXCEPT !.touched = ev.value]
    /\ UNCHANGED <<mouse_down, outVars>>

-----------------------------------------------------------------------------
(* The kernel and libevdev.  A device's events matter when its turn to be  *)
(* read comes, so they are produced in that phase of the thread's loop.    *)
Report == [code |-> "report"]
Dropped == [code |-> "dropped"]
Field(c, v) == [code |-> c, value |-> v]

\* The changed fields of slot s, if the last slot named was cur.
SlotEvents(old, new, s, cur) ==
    IF old[s] = new[s] THEN <<>>
    ELSE (IF s = cur /\ \A t \in 0..(s - 1) : old[t] = new[t] THEN <<>>
          ELSE <<Field("slot", s)>>)
         \o (IF old[s].id = new[s].id THEN <<>> ELSE <<Field("id", new[s].id)>>)
         \o (IF old[s].at = new[s].at THEN <<>> ELSE <<Field("at", new[s].at)>>)

\* The fields of all slots that differ, in slot order.
Difference(old, new, cur) ==
    LET upto[n \in 0..NumSlots] ==
            IF n = 0 THEN <<>>
            ELSE upto[n - 1] \o SlotEvents(old, new, n - 1, cur)
    IN  upto[NumSlots]

LastNamed(old, new, cur) ==
    LET changed == {s \in Slot : old[s] # new[s]}
    IN  IF changed = {} THEN cur
        ELSE CHOOSE s \in changed : \A t \in changed : t <= s

\* Ids are numbered upwards: a new contact's id is none of those in sight.
IdsInSight == {glass[s].id : s \in Slot} \cup {slots[s].id : s \in Slot}
                \cup seen \cup (IF Owned THEN {primary_tracking_id} ELSE {})

FreshIds(s) == {i \in TrackingId \ IdsInSight : i % NumSlots = s}

\* Fingers lift, slide, land, or are replaced between two frames, at one of
\* the given places.
NextContacts(s, places) ==
    LET before == glass[s]
        fresh == FreshIds(s)
    IN  {before, [before EXCEPT !.id = -1]}
        \cup (IF before.id = -1 THEN {} ELSE {[before EXCEPT !.at = p] : p \in places})
        \cup (IF fresh = {} THEN {}
              ELSE {[id |-> CHOOSE i \in fresh : \A j \in fresh : i <= j,
                     at |-> p] : p \in places})

\* Only the contacts of the slots in movers change place.
NextGlass(movers) ==
    {g \in [Slot -> Contact] : \A s \in Slot :
        g[s] \in NextContacts(s, IF s \in movers THEN Place ELSE {glass[s].at})}

\* After a refused write one more frame is enough to see what it left behind.
CountReport == /\ reports < MaxReports
               /\ reports' = IF refused THEN MaxReports ELSE reports + 1

FingersReport ==
    /\ phase = "touch" /\ touchq = <<>> /\ ~touch_sync
    /\ CountReport
    /\ \E g \in UNION {NextGlass({s}) : s \in Slot} :
        /\ g # glass
        /\ glass' = g
        /\ touchq' = Append(Difference(glass, g, named), Report)
        /\ named' = LastNamed(glass, g, named)
    /\ UNCHANGED <<touchVars, penVars, outVars, stylus, penq, phase,
                   poll_active, touch_sync, pen_sync, seen>>

\* The kernel's buffer overflows: frames that libevdev has not read are lost.
\* It reads whole frames, so the one it hands over is complete.
FingersOverflow ==
    /\ phase = "touch" /\ ~touch_sync
    /\ CountReport
    /\ \E g \in NextGlass({}) :
        glass' = g /\ named' = LastNamed(glass, g, named)
    /\ touchq' = Append(touchq, Dropped)
    /\ UNCHANGED <<touchVars, penVars, outVars, stylus, penq, phase,
                   poll_active, touch_sync, pen_sync, seen>>

\* Contacts that libevdev knows under another id end first, in a frame of
\* their own or in the frame that brings the new ones.
Ended == [s \in Slot |-> IF slots[s].id # glass[s].id
                         THEN [slots[s] EXCEPT !.id = -1] ELSE slots[s]]

SyncEvents(split) ==
    LET from == IF split THEN Ended ELSE slots
        cur == IF split THEN LastNamed(slots, Ended, current_slot)
               ELSE current_slot
    IN  (IF split THEN Append(Difference(slots, Ended, current_slot), Report)
         ELSE <<>>)
        \o Difference(from, glass, cur) \o <<Field("slot", named), Report>>

\* The fields of the pen that differ, closed by a SYN_REPORT.
PenDifference(old, new) ==
    (IF old.touched = new.touched THEN <<>> ELSE <<Field("touch", new.touched)>>)
    \o (IF old.at = new.at THEN <<>> ELSE <<Field("at", new.at)>>)
    \o <<Report>>

PenReports ==
    /\ phase = "pen" /\ penq = <<>> /\ ~pen_sync
    /\ CountReport
    /\ \E new \in [at : Place, touched : BOOLEAN] \ {stylus} :
        /\ stylus' = new
        /\ penq' = PenDifference(stylus, new)
    /\ UNCHANGED <<touchVars, penVars, outVars, glass, named, touchq, phase,
                   poll_active, touch_sync, pen_sync, seen>>

PenOverflow ==
    /\ phase = "pen" /\ ~pen_sync
    /\ CountReport
    /\ \E touched \in BOOLEAN : stylus' = [stylus EXCEPT !.touched = touched]
    /\ penq' = Append(penq, Dropped)
    /\ UNCHANGED <<touchVars, penVars, outVars, glass, named, touchq, phase,
                   poll_active, touch_sync, pen_sync, seen>>

\* pen holds what libevdev has handed over.
PenSyncEvents == IF pen = stylus THEN <<>> ELSE PenDifference(pen, stylus)

-----------------------------------------------------------------------------
(* input_async_handler: touch, then keys, then pen, each until -EAGAIN. *)
Read(q) == Head(q)

TouchEvent ==
    /\ phase = "touch" /\ touchq # <<>>
    /\ \/ /\ Read(touchq) = Dropped
          /\ touch_sync' = TRUE
          /\ \E split \in BOOLEAN : touchq' = SyncEvents(split)
          /\ UNCHANGED <<touchVars, outVars, seen>>
       \/ /\ Read(touchq) # Dropped
          /\ touchq' = Tail(touchq)
          /\ IF Read(touchq) = Report THEN TouchFrame
             ELSE TouchField(Read(touchq))
          /\ UNCHANGED touch_sync
    /\ UNCHANGED <<penVars, envVars, penq, phase, poll_active, pen_sync>>

\* The first -EAGAIN ends the synchronisation, the next one the drain.
TouchDrained ==
    /\ phase = "touch" /\ touchq = <<>>
    /\ touch_sync' = FALSE
    /\ phase' = IF touch_sync THEN "touch" ELSE "keys"
    /\ UNCHANGED <<touchVars, penVars, outVars, envVars, touchq, penq,
                   poll_active, pen_sync, seen>>

\* A failed read ends the drain: the rest is read when its turn comes again.
TouchFails ==
    /\ phase = "touch" /\ (touchq # <<>> \/ touch_sync)
    /\ CountReport
    /\ phase' = "keys"
    /\ UNCHANGED <<touchVars, penVars, outVars, glass, named, stylus, touchq, penq,
                   poll_active, touch_sync, pen_sync, seen>>

\* input_process_gpio: a page key goes straight to the queue.
KeyEvent ==
    /\ phase = "keys"
    /\ Send(<<[kind |-> "key", at |-> Nowhere]>>)
    /\ UNCHANGED <<touchVars, penVars, envVars, touchq, penq, phase,
                   poll_active, touch_sync, pen_sync, seen>>

KeysDrained ==
    /\ phase = "keys"
    /\ phase' = "pen"
    /\ UNCHANGED <<touchVars, penVars, outVars, envVars, touchq, penq,
                   poll_active, touch_sync, pen_sync, seen>>

PenEvent ==
    /\ phase = "pen" /\ penq # <<>>
    /\ \/ /\ Read(penq) = Dropped
          /\ pen_sync' = TRUE
          /\ penq' = PenSyncEvents
          /\ UNCHANGED <<penVars, outVars>>
       \/ /\ Read(penq) # Dropped
          /\ penq' = Tail(penq)
          /\ IF Read(penq) = Report THEN PenFrame ELSE PenField(Read(penq))
          /\ UNCHANGED pen_sync
    /\ UNCHANGED <<touchVars, envVars, touchq, phase, poll_active,
                   touch_sync, seen>>

PenDrained ==
    /\ phase = "pen" /\ penq = <<>>
    /\ pen_sync' = FALSE
    /\ phase' = IF pen_sync THEN "pen" ELSE "asleep"
    /\ UNCHANGED <<touchVars, penVars, outVars, envVars, touchq, penq,
                   poll_active, touch_sync, seen>>

PenFails ==
    /\ phase = "pen" /\ (penq # <<>> \/ pen_sync)
    /\ CountReport
    /\ phase' = "asleep"
    /\ UNCHANGED <<touchVars, penVars, outVars, glass, named, stylus, touchq, penq,
                   poll_active, touch_sync, pen_sync, seen>>

\* After nanosleep, poll_active is read under poll_mutex.
PollAgain ==
    /\ phase = "asleep"
    /\ phase' = IF poll_active THEN "touch" ELSE "gone"
    /\ UNCHANGED <<touchVars, penVars, outVars, envVars, touchq, penq,
                   poll_active, touch_sync, pen_sync, seen>>

\* input_finalize, in the main thread, before it joins.  poll_active is read
\* only by PollAgain, so it may as well be cleared just before.
Finalize ==
    /\ phase = "asleep" /\ poll_active
    /\ poll_active' = FALSE
    /\ UNCHANGED <<touchVars, penVars, outVars, envVars, touchq, penq, phase,
                   touch_sync, pen_sync, seen>>

ThreadNext == \/ TouchEvent \/ TouchDrained \/ TouchFails
              \/ KeyEvent \/ KeysDrained
              \/ PenEvent \/ PenDrained \/ PenFails \/ PollAgain

EnvNext == FingersReport \/ FingersOverflow \/ PenReports \/ PenOverflow

\* input_initialize reads the present state from libevdev: a finger that is
\* down already must not press.
GestureAtStart == \E s \in Slot : slots[s].id >= 0

Init == /\ glass \in [Slot -> [id : TrackingId \cup {-1}, at : {StartPlace}]]
        /\ \A s \in Slot : glass[s].id \in {-1, s}
        /\ named = 0
        /\ stylus \in [at : {StartPlace}, touched : BOOLEAN]
        /\ slots = glass /\ current_slot = named
        /\ primary_slot = -1 /\ primary_tracking_id = -1
        /\ gesture_active = GestureAtStart
        /\ dragging = FALSE /\ press = StartPlace
        /\ pen = stylus /\ mouse_down = FALSE
        /\ pointer = Nowhere /\ shown = Nowhere
        /\ depth = 0 /\ refused = FALSE
        /\ touchq = <<>> /\ penq = <<>> /\ reports = 0
        /\ touch_sync = FALSE /\ pen_sync = FALSE
        /\ phase = "touch" /\ poll_active = TRUE
        /\ seen = {slots[s].id : s \in Live}

Next == ThreadNext \/ EnvNext \/ Finalize

Spec == Init /\ [][Next]_vars

(***************************************************************************)
(* The thread runs, and reads faster than the devices report: a device is  *)
(* found empty again and again.  Reads do not fail for ever (CountReport). *)
(* No finger or pen is obliged to move.                                    *)
(***************************************************************************)
Fairness == /\ WF_vars(TouchEvent) /\ SF_vars(TouchDrained)
            /\ WF_vars(KeysDrained)
            /\ WF_vars(PenEvent) /\ SF_vars(PenDrained)
            /\ WF_vars(PollAgain)

FairSpec == Spec /\ Fairness

-----------------------------------------------------------------------------
TypeOK ==
    /\ slots \in [Slot -> Contact]
    /\ current_slot \in Slot \cup {-1}
    /\ primary_slot \in Slot \cup {-1}
    /\ primary_tracking_id \in TrackingId \cup {-1}
    /\ gesture_active \in BOOLEAN /\ dragging \in BOOLEAN
    /\ press \in Place
    /\ pen \in [at : Place, touched : BOOLEAN] /\ mouse_down \in BOOLEAN
    /\ pointer \in Place \cup {Nowhere} /\ shown \in Place \cup {Nowhere}
    /\ refused \in BOOLEAN

(* As long as the queue accepted everything, presses and releases          *)
(* alternate: input_touch_frame and input_process_pen share one button.    *)
ButtonsAlternate == depth \in 0..1

(* pointer_x, pointer_y are what the last accepted move says, even when    *)
(* ring_buf_write refused some (input_position), so a refused move is      *)
(* tried again.                                                            *)
PointerIsShown == pointer = shown

(* Types; the button has at most one owner, finger or pen; the stream      *)
(* shows it down exactly while it has one; a finger owns it only within a  *)
(* gesture; and a refused move is tried again.                             *)
InputInv ==
    /\ TypeOK
    /\ Owned => gesture_active /\ ~mouse_down /\ primary_tracking_id >= 0
    /\ ~refused => depth = IF Owned \/ mouse_down THEN 1 ELSE 0
    /\ PointerIsShown

(* "Small finger movement is treated as tap jitter": until the finger has  *)
(* been further than the threshold, the pointer stays at the press.        *)
TapStaysPut == (Owned /\ ~dragging /\ ~refused) => shown = press

(* The press is where the contact was when it was pressed, and a release   *)
(* never moves the pointer ("keep the last complete position of this       *)
(* contact"; "preserve the contact position when the pen leaves").         *)
PressAndRelease ==
    [][/\ (depth = 0 /\ depth' = 1) =>
              shown' = IF mouse_down' THEN pen.at ELSE slots[primary_slot'].at
       /\ (depth = 1 /\ depth' = 0 /\ ~refused') => shown' = shown]_vars

(* "Never promote a second finger into an accidental new click": a contact *)
(* comes to own the button only when no finger was down at the frame       *)
(* before, so one that landed during another gesture never does, whatever  *)
(* slot it is in, that of the last owner included.                         *)
NeverPromoted ==
    [][(Owned' /\ <<primary_slot, primary_tracking_id>>'
                   # <<primary_slot, primary_tracking_id>>) => seen = {}]_vars

AllUp == ~stylus.touched /\ \A s \in Slot : glass[s].id = -1

(* A button does not stay down when everything has left the glass, however *)
(* many kernel events were dropped on the way.                             *)
NoStuckButton ==
    (AllUp /\ depth = 1) ~> (depth = 0 \/ ~AllUp \/ ~poll_active)
=============================================================================
