------------------------------ MODULE RmScreen ------------------------------
(***************************************************************************)
(* libnsfb/src/surface/remarkable/screen.c: the thread that asks the       *)
(* e-paper controller to refresh what the main thread has drawn, and the   *)
(* claim, update, start-up and shut-down it races with.                    *)
(*                                                                         *)
(* The framebuffer is a grid of cells.  A cell is stale from the moment    *)
(* the main thread draws on it until a refresh that covers it is sent.     *)
(* fb_mutex is only locked or unlocked: like the C library's plain mutex   *)
(* it does not check who unlocks it, and initialising it while it is       *)
(* locked leaves it unlocked.                                              *)
(***************************************************************************)
EXTENDS Integers, FiniteSets

CONSTANTS PhysWidth, PhysHeight,  \* the panel, portrait
          Landscape,              \* NETSURF_FB_ORIENTATION
          Boxes,                  \* the logical boxes the program draws
          IntMax, IntMin,
          IoctlMayFail            \* MXCFB_SEND_UPDATE may return -1

ASSUME PanelAssumption ==
    /\ PhysWidth \in Nat \ {0} /\ PhysHeight \in Nat \ {0}
    /\ Landscape \in BOOLEAN /\ IoctlMayFail \in BOOLEAN

Width == IF Landscape THEN PhysHeight ELSE PhysWidth
Height == IF Landscape THEN PhysWidth ELSE PhysHeight

Box == [x0 : 0..Width, y0 : 0..Height, x1 : 0..Width, y1 : 0..Height]

ASSUME BoxAssumption ==
    /\ IntMax \in Int /\ IntMin \in Int
    /\ Width < IntMax /\ Height < IntMax /\ IntMin < 0
    /\ Boxes \subseteq {b \in Box : b.x0 < b.x1 /\ b.y0 < b.y1}

VARIABLES next_update,     \* the pending region, one box
          redraw_active,
          fb_mutex,        \* "free" or "locked"
          fd,              \* the device file is "open" or "closed"
          main,            \* where the main thread is
          claimed,         \* the box it has claimed
          thread,          \* where the redraw thread is
          stale,           \* cells drawn since a refresh last covered them
          failed,          \* cells whose refresh the controller refused
          broken           \* fb_mutex was initialised while it was locked

screenVars == <<next_update, redraw_active, fb_mutex, fd, main, claimed,
                thread, stale, failed, broken>>

Nothing == [x0 |-> IntMax, y0 |-> IntMax, x1 |-> IntMin, y1 |-> IntMin]
Zero == [x0 |-> 0, y0 |-> 0, x1 |-> 0, y1 |-> 0]

Least(a, b) == IF a < b THEN a ELSE b
Greatest(a, b) == IF a > b THEN a ELSE b

-----------------------------------------------------------------------------
(* Geometry. *)
\* The panel's pixels.
Cells == (0..(PhysWidth - 1)) \X (0..(PhysHeight - 1))

CellsOf(b) == {c \in (0..(Width - 1)) \X (0..(Height - 1)) :
                 c[1] >= b.x0 /\ c[1] < b.x1 /\ c[2] >= b.y0 /\ c[2] < b.y1}

\* get_xy_loc of the 16 bpp plotter: where a logical pixel is in memory.
Physical(c) == IF Landscape THEN <<PhysWidth - 1 - c[2], c[1]>> ELSE c

\* What drawing inside a logical box can touch.
Touched(b) == {Physical(c) : c \in CellsOf(b)}

\* MUTANT: the rows are not mirrored when the panel is rotated.
UnmirroredRect(b) ==
    IF Landscape
    THEN [left |-> b.y0, top |-> b.x0,
          width |-> b.y1 - b.y0, height |-> b.x1 - b.x0]
    ELSE [left |-> b.x0, top |-> b.y0,
          width |-> b.x1 - b.x0, height |-> b.y1 - b.y0]

\* The rectangle fb_async_redraw hands to the controller.
UpdateRect(b) ==
    IF Landscape
    THEN [left |-> PhysWidth - b.y1, top |-> b.x0,
          width |-> b.y1 - b.y0, height |-> b.x1 - b.x0]
    ELSE [left |-> b.x0, top |-> b.y0,
          width |-> b.x1 - b.x0, height |-> b.y1 - b.y0]

Refreshed(r) == {c \in Cells : /\ c[1] >= r.left /\ c[1] < r.left + r.width
                              /\ c[2] >= r.top /\ c[2] < r.top + r.height}

NonEmpty(b) == b.x1 > b.x0 /\ b.y1 > b.y0

\* MUTANT: the new box replaces the pending one.
LatestBox(a, b) == b

\* fb_update_region: one box around the pending one and the new one.
Union(a, b) == [x0 |-> Least(a.x0, b.x0), x1 |-> Greatest(a.x1, b.x1),
                y0 |-> Least(a.y0, b.y0), y1 |-> Greatest(a.y1, b.y1)]

-----------------------------------------------------------------------------
\* fb_state is a static object, all zero.
ScreenInit == /\ next_update = Zero
              /\ redraw_active = FALSE
              /\ fb_mutex = "free"
              /\ fd = "open"
              /\ main = "create"
              /\ claimed = Zero
              /\ thread = "none"
              /\ stale = {} /\ failed = {}
              /\ broken = FALSE

(* fb_initialize, from pthread_create on. *)
CreateThread == /\ main = "create"
                /\ thread' = "test"
                /\ main' = "activate"
                /\ UNCHANGED <<next_update, redraw_active, fb_mutex, fd,
                               claimed, stale, failed, broken>>

Activate == /\ main = "activate"
            /\ redraw_active' = TRUE
            /\ main' = "mutex"
            /\ UNCHANGED <<next_update, fb_mutex, fd, claimed, thread,
                           stale, failed, broken>>

InitMutex == /\ main = "mutex"
             /\ fb_mutex' = "free"
             /\ broken' = (fb_mutex = "locked")
             /\ main' = "region"
             /\ UNCHANGED <<next_update, redraw_active, fd, claimed, thread,
                            stale, failed>>

InitRegion == /\ main = "region"
              /\ next_update' = Nothing
              /\ main' = "ready"
              /\ UNCHANGED <<redraw_active, fb_mutex, fd, claimed, thread,
                             stale, failed, broken>>

\* MUTANT: the main thread draws without waiting for the mutex.
ClaimAtOnce(b) == /\ main = "ready"
                  /\ fb_mutex' = "locked"
                  /\ claimed' = b
                  /\ main' = "drawing"
                  /\ UNCHANGED <<next_update, redraw_active, fd, thread,
                                 stale, failed, broken>>

\* fb_claim_region
Claim(b) == /\ main = "ready"
            /\ fb_mutex = "free"
            /\ fb_mutex' = "locked"
            /\ claimed' = b
            /\ main' = "drawing"
            /\ UNCHANGED <<next_update, redraw_active, fd, thread, stale,
                           failed, broken>>

\* The plotters write somewhere in the claimed box, as often as they like.
Draw == /\ main = "drawing"
        /\ \E c \in Touched(claimed) :
             stale' = stale \cup {c} /\ failed' = failed \ {c}
        /\ UNCHANGED <<next_update, redraw_active, fb_mutex, fd, main,
                       claimed, thread, broken>>

\* fb_update_region
Update == /\ main = "drawing"
          /\ next_update' = Union(next_update, claimed)
          /\ fb_mutex' = "free"
          /\ main' = "ready"
          /\ UNCHANGED <<redraw_active, fd, claimed, thread, stale, failed,
                         broken>>

(* fb_finalize: close or munmap may fail, and then it returns at once. *)
Close == /\ main = "ready"
         /\ \/ fd' = "closed" /\ main' = "unmap"
            \/ fd' = "closed" /\ main' = "gaveup"
         /\ UNCHANGED <<next_update, redraw_active, fb_mutex, claimed,
                        thread, stale, failed, broken>>

Unmap == /\ main = "unmap"
         /\ main' \in {"deactivate", "gaveup"}
         /\ UNCHANGED <<next_update, redraw_active, fb_mutex, fd, claimed,
                        thread, stale, failed, broken>>

\* MUTANT: redraw_active stays set.
JoinAtOnce == /\ main = "deactivate"
              /\ main' = "join"
              /\ UNCHANGED <<next_update, redraw_active, fb_mutex, fd, claimed,
                             thread, stale, failed, broken>>

Deactivate == /\ main = "deactivate"
              /\ redraw_active' = FALSE
              /\ main' = "join"
              /\ UNCHANGED <<next_update, fb_mutex, fd, claimed, thread,
                             stale, failed, broken>>

Join == /\ main = "join"
        /\ thread = "gone"
        /\ main' = "joined"
        /\ UNCHANGED <<next_update, redraw_active, fb_mutex, fd, claimed,
                       thread, stale, failed, broken>>

-----------------------------------------------------------------------------
(* fb_async_redraw *)
Test == /\ thread = "test"
        /\ thread' = IF redraw_active THEN "lock" ELSE "gone"
        /\ UNCHANGED <<next_update, redraw_active, fb_mutex, fd, main,
                       claimed, stale, failed, broken>>

Lock == /\ thread = "lock"
        /\ fb_mutex = "free"
        /\ fb_mutex' = "locked"
        /\ thread' = "look"
        /\ UNCHANGED <<next_update, redraw_active, fd, main, claimed, stale,
                       failed, broken>>

IoctlFails == fd = "closed" \/ IoctlMayFail
IoctlWorks == fd = "open"

\* The ioctl: only its failure is logged.
Send == /\ thread = "look" /\ NonEmpty(next_update)
        /\ LET covered == Refreshed(UpdateRect(next_update))
           IN  \/ IoctlWorks /\ stale' = stale \ covered
                             /\ failed' = failed \ covered
               \/ IoctlFails /\ failed' = failed \cup (stale \cap covered)
                             /\ UNCHANGED stale
        /\ thread' = "reset"
        /\ UNCHANGED <<next_update, redraw_active, fb_mutex, fd, main,
                       claimed, broken>>

\* The region is emptied whether or not the ioctl worked.
AfterSend == Nothing

Reset == /\ thread = "reset"
         /\ next_update' = AfterSend
         /\ thread' = "unlock"
         /\ UNCHANGED <<redraw_active, fb_mutex, fd, main, claimed, stale,
                        failed, broken>>

Skip == /\ thread = "look" /\ ~NonEmpty(next_update)
        /\ thread' = "unlock"
        /\ UNCHANGED <<next_update, redraw_active, fb_mutex, fd, main,
                       claimed, stale, failed, broken>>

\* pthread_mutex_unlock, then 200 ms of sleep.
Unlock == /\ thread = "unlock"
          /\ fb_mutex' = "free"
          /\ thread' = "test"
          /\ UNCHANGED <<next_update, redraw_active, fd, main, claimed,
                         stale, failed, broken>>

ThreadNext == Test \/ Lock \/ Send \/ Reset \/ Skip \/ Unlock

MainNext == \/ CreateThread \/ Activate \/ InitMutex \/ InitRegion
            \/ (\E b \in Boxes : Claim(b)) \/ Draw \/ Update
            \/ Close \/ Unmap \/ Deactivate \/ Join

ScreenNext == MainNext \/ ThreadNext

ScreenSpec == ScreenInit /\ [][ScreenNext]_screenVars

(***************************************************************************)
(* Both threads run.  The redraw thread gets a mutex that is free again    *)
(* and again: it waits in line between two redraws of the main thread.     *)
(* Nobody is obliged to draw or to quit.                                   *)
(***************************************************************************)
ScreenFairness ==
    /\ WF_screenVars(CreateThread \/ Activate \/ InitMutex \/ InitRegion)
    /\ WF_screenVars(Update)
    /\ WF_screenVars(Unmap \/ Deactivate \/ Join)
    /\ WF_screenVars(Test \/ Send \/ Reset \/ Skip \/ Unlock)
    /\ SF_screenVars(Lock)

FairScreenSpec == ScreenSpec /\ ScreenFairness

-----------------------------------------------------------------------------
MainPC == {"create", "activate", "mutex", "region", "ready", "drawing",
           "unmap", "deactivate", "gaveup", "join", "joined"}
ThreadPC == {"none", "test", "lock", "look", "reset", "unlock", "gone"}

Region == [x0 : 0..Width \cup {IntMax}, x1 : 0..Width \cup {IntMin},
           y0 : 0..Height \cup {IntMax}, y1 : 0..Height \cup {IntMin}]

ScreenTypeOK == /\ next_update \in Region
                /\ redraw_active \in BOOLEAN
                /\ fb_mutex \in {"free", "locked"}
                /\ fd \in {"open", "closed"}
                /\ main \in MainPC /\ thread \in ThreadPC
                /\ claimed \in Boxes \cup {Zero}
                /\ stale \subseteq Cells /\ failed \subseteq stale
                /\ broken \in BOOLEAN

InCritical == thread \in {"look", "reset", "unlock"}

(* fb_mutex: the controller never reads the framebuffer while the main     *)
(* thread is between nsfb_claim and nsfb_update, unless pthread_mutex_init *)
(* found the mutex locked by the thread started before it.                 *)
Exclusion == ~broken => ~(main = "drawing" /\ InCritical)

Pending == IF NonEmpty(next_update) THEN Touched(next_update) ELSE {}
InHand == IF main = "drawing" THEN Touched(claimed) ELSE {}

(* What is drawn and not yet on the panel is in the pending region, or in  *)
(* the claim whose update will add it: no damage is forgotten, in either   *)
(* orientation, except what the controller refused.                        *)
DamageCovered ==
    ~broken => stale \ failed \subseteq
                   (IF thread = "reset" THEN {} ELSE Pending \cup InHand)

(* The inductive invariant: fb_mutex is locked exactly while one of the    *)
(* threads is between its lock and unlock, nothing is drawn before the     *)
(* region is initialised, and the damage is covered.                       *)
Starting == main \in {"create", "activate", "mutex", "region"}

ScreenInv ==
    /\ ScreenTypeOK
    /\ Exclusion
    /\ ~broken => (fb_mutex = "locked" <=> main = "drawing" \/ InCritical)
    /\ main = "create" => thread = "none"
    /\ main \in {"create", "activate", "mutex"} => ~broken
    /\ Starting => /\ stale = {} /\ next_update = Zero /\ thread # "reset"
    /\ main = "drawing" => claimed \in Boxes
    /\ DamageCovered

Closing == main \notin {"ready", "drawing"}

(* Every pixel drawn is shown, if the thread passed its first test, the    *)
(* mutex survived the start-up and the controller accepts the refresh.     *)
ShownOnceStarted ==
    \A c \in Cells :
        (c \in stale /\ thread # "gone")
            ~> (c \notin stale \/ c \in failed \/ Closing \/ broken)

(* fb_finalize comes back from pthread_join.                               *)
JoinReturns == main = "join" ~> main = "joined"
=============================================================================
