---------------------------- MODULE RmInputProofs ----------------------------
(***************************************************************************)
(* The input decoder, proved for any number of contacts and whatever the   *)
(* devices report, sensible or not: the finger and the pen share one       *)
(* button.  What the devices report matters for the types only (IInv).     *)
(***************************************************************************)
EXTENDS RmInput, FiniteSetTheorems, SequenceTheorems, WellFoundedInduction,
        TLAPS

(* The inductive invariant.  The button is down in the stream exactly if   *)
(* it has an owner, a finger that owns it does so within a gesture, and a  *)
(* gesture is on exactly as long as the last frame had a finger.           *)
ButtonInv ==
    /\ primary_slot \in Slot \cup {-1}
    /\ Owned => gesture_active /\ ~mouse_down /\ primary_tracking_id >= 0
    /\ depth = IF ~refused /\ (Owned \/ mouse_down) THEN 1 ELSE 0
    /\ gesture_active <=> seen # {}
    /\ TapStaysPut

-----------------------------------------------------------------------------
(* What a reader of the stream makes of the writes that are ever sent.     *)
LEMMA Counts ==
    /\ \A k \in {"up", "down"} : CountOf(<<>>, DOMAIN <<>>, k) = 0
    /\ CountOf(<<Up>>, DOMAIN <<Up>>, "up") = 1
    /\ CountOf(<<Up>>, DOMAIN <<Up>>, "down") = 0
    /\ CountOf(<<Down>>, DOMAIN <<Down>>, "down") = 1
    /\ CountOf(<<Down>>, DOMAIN <<Down>>, "up") = 0
  <1>1. ASSUME NEW k PROVE {i \in DOMAIN <<>> : <<>>[i].kind = k} = {}
    OBVIOUS
  <1>2. /\ {i \in DOMAIN <<Up>> : <<Up>>[i].kind = "up"} = {1}
        /\ {i \in DOMAIN <<Up>> : <<Up>>[i].kind = "down"} = {}
        /\ {i \in DOMAIN <<Down>> : <<Down>>[i].kind = "down"} = {1}
        /\ {i \in DOMAIN <<Down>> : <<Down>>[i].kind = "up"} = {}
    BY DEF Up, Down
  <1> QED BY <1>1, <1>2, FS_EmptySet, FS_Singleton DEF CountOf

LEMMA CountsOfMove ==
    ASSUME NEW p
    PROVE  /\ \A k \in {"up", "down"} : CountOf(<<Move(p)>>, DOMAIN <<Move(p)>>, k) = 0
           /\ LET w == <<Move(p), Down>>
              IN  CountOf(w, DOMAIN w, "down") = 1 /\ CountOf(w, DOMAIN w, "up") = 0
  <1> DEFINE w == <<Move(p), Down>>
  <1>1. ASSUME NEW k \in {"up", "down"}
        PROVE {i \in DOMAIN <<Move(p)>> : <<Move(p)>>[i].kind = k} = {}
    BY DEF Move
  <1>2. /\ {i \in DOMAIN w : w[i].kind = "down"} = {2}
        /\ {i \in DOMAIN w : w[i].kind = "up"} = {}
    BY DEF Move, Down
  <1> QED BY <1>1, <1>2, FS_EmptySet, FS_Singleton DEF CountOf

LEMMA LastMoves ==
    ASSUME NEW d, NEW p
    PROVE  /\ LastMove(<<>>, DOMAIN <<>>, d) = d
           /\ LastMove(<<Up>>, DOMAIN <<Up>>, d) = d
           /\ LastMove(<<Down>>, DOMAIN <<Down>>, d) = d
           /\ LastMove(<<Move(p), Down>>, DOMAIN <<Move(p), Down>>, d) = p
  <1> DEFINE w == <<Move(p), Down>>
             m == {i \in DOMAIN w : w[i].kind = "move"}
  <1>1. /\ {i \in DOMAIN <<>> : <<>>[i].kind = "move"} = {}
        /\ {i \in DOMAIN <<Up>> : <<Up>>[i].kind = "move"} = {}
        /\ {i \in DOMAIN <<Down>> : <<Down>>[i].kind = "move"} = {}
    BY DEF Up, Down
  <1>2. m = {1}
    BY DEF Move, Down
  <1>3. (CHOOSE i \in m : \A j \in m : j <= i) = 1
    BY <1>2
  <1>4. w[1].at = p
    BY DEF Move
  <1> QED BY <1>1, <1>2, <1>3, <1>4 DEF LastMove

(* If nothing was refused so far, the whole of the writes is in the stream. *)
LEMMA SendAll ==
    ASSUME NEW writes, Send(writes)
    PROVE  /\ refused' => depth' = 0
           /\ ~refused' =>
                /\ ~refused
                /\ shown' = LastMove(writes, DOMAIN writes, shown)
                /\ depth' = depth + CountOf(writes, DOMAIN writes, "down")
                                  - CountOf(writes, DOMAIN writes, "up")
  BY DEF Send

LEMMA Concats ==
    /\ <<>> \o <<>> = <<>>
    /\ \A x : <<>> \o <<x>> = <<x>> /\ <<x>> \o <<>> = <<x>>
    /\ \A x, y : <<x>> \o <<y>> = <<x, y>> /\ <<>> \o <<x, y>> = <<x, y>>
  <1>1. <<>> \o <<>> = <<>>
    BY SMT
  <1>2. ASSUME NEW x PROVE <<>> \o <<x>> = <<x>> /\ <<x>> \o <<>> = <<x>>
    <2>1. <<>> \in Seq({x}) /\ <<x>> \in Seq({x})
      OBVIOUS
    <2> QED BY <2>1, ConcatEmptySeq
  <1>3. ASSUME NEW x, NEW y
        PROVE <<x>> \o <<y>> = <<x, y>> /\ <<>> \o <<x, y>> = <<x, y>>
    <2>1. <<x, y>> \in Seq({x, y})
      OBVIOUS
    <2>2. <<>> \o <<x, y>> = <<x, y>>
      BY <2>1, ConcatEmptySeq
    <2>3. <<x>> \o <<y>> = <<x, y>>
      <3> DEFINE c == <<x>> \o <<y>>
      <3>1. <<x>> \in Seq({x, y}) /\ <<y>> \in Seq({x, y})
        OBVIOUS
      <3>2. /\ c \in Seq({x, y}) /\ Len(c) = Len(<<x>>) + Len(<<y>>)
            /\ \A i \in 1..(Len(<<x>>) + Len(<<y>>)) :
                 c[i] = IF i <= Len(<<x>>) THEN <<x>>[i] ELSE <<y>>[i - Len(<<x>>)]
        BY <3>1, ConcatProperties
      <3> HIDE DEF c
      <3>3. Len(c) = 2 /\ c[1] = x /\ c[2] = y
        BY <3>2
      <3>4. c = <<x, y>>
        BY <2>1, <3>2, <3>3, SeqEqual
      <3> QED BY <3>4 DEF c
    <2> QED BY <2>2, <2>3
  <1> QED BY <1>1, <1>2, <1>3

\* The three kinds of writes: a press, a release, and anything quiet.
LEMMA SendPress ==
    ASSUME NEW p, Send(<<Move(p), Down>>), depth \in {0, 1}
    PROVE  /\ refused' => depth' = 0
           /\ ~refused' => ~refused /\ depth' = depth + 1 /\ shown' = p
  <1> DEFINE w == <<Move(p), Down>>
  <1>1. CountOf(w, DOMAIN w, "down") = 1 /\ CountOf(w, DOMAIN w, "up") = 0
    BY CountsOfMove
  <1>2. LastMove(w, DOMAIN w, shown) = p
    BY LastMoves
  <1>3. Send(w)
    OBVIOUS
  <1> HIDE DEF w
  <1> QED BY <1>1, <1>2, <1>3, SendAll

LEMMA SendRelease ==
    ASSUME Send(<<Up>>), depth \in {0, 1}
    PROVE  /\ refused' => depth' = 0
           /\ ~refused' => ~refused /\ depth' = depth - 1 /\ shown' = shown
  <1> DEFINE w == <<Up>>
  <1>1. CountOf(w, DOMAIN w, "down") = 0 /\ CountOf(w, DOMAIN w, "up") = 1
    BY Counts
  <1>2. LastMove(w, DOMAIN w, shown) = shown
    BY LastMoves
  <1>3. Send(w)
    OBVIOUS
  <1> HIDE DEF w
  <1> QED BY <1>1, <1>2, <1>3, SendAll

LEMMA SendQuiet ==
    ASSUME NEW w, NEW p, w = <<>> \/ w = <<Move(p)>>, Send(w), depth \in {0, 1}
    PROVE  /\ refused' => depth' = 0
           /\ ~refused' => /\ ~refused /\ depth' = depth
                           /\ w = <<>> => shown' = shown
  <1>1. CountOf(w, DOMAIN w, "down") = 0 /\ CountOf(w, DOMAIN w, "up") = 0
    BY Counts, CountsOfMove
  <1>2. w = <<>> => LastMove(w, DOMAIN w, shown) = shown
    BY LastMoves
  <1> QED BY <1>1, <1>2, SendAll

-----------------------------------------------------------------------------
\* A set of numbers has a least one, and a greatest one if it is bounded.
LEMMA Least ==
    ASSUME NEW T \in SUBSET Nat, T # {}
    PROVE  \E s \in T : \A t \in T : s <= t
  <1> DEFINE less == {p \in Nat \X Nat : p[1] < p[2]}
  <1>1. IsWellFoundedOn(less, Nat)
    BY NatLessThanWellFounded, Zenon DEF OpToRel
  <1>2. PICK s \in T : \A t \in T : <<t, s>> \notin less
    BY <1>1, WFMin
  <1>3. ASSUME NEW t \in T PROVE s <= t
    <2>1. s \in Nat /\ t \in Nat
      BY <1>2
    <2>2. t < s => <<t, s>> \in less
      BY <2>1
    <2> QED BY <2>1, <2>2, <1>2
  <1> QED BY <1>3

LEMMA Greatest ==
    ASSUME NEW n \in Nat, NEW T \in SUBSET (0..n), T # {}
    PROVE  \E s \in T : \A t \in T : t <= s
  <1> DEFINE Bounds == {b \in Nat : \A t \in T : t <= b}
  <1>1. n \in Bounds /\ Bounds \in SUBSET Nat
    OBVIOUS
  <1>2. PICK b \in Bounds : \A c \in Bounds : b <= c
    BY <1>1, Least
  <1>3. b \in T
    <2> SUFFICES ASSUME b \notin T PROVE FALSE
      OBVIOUS
    <2>1. \A t \in T : t <= b - 1 /\ t \in Nat
      BY <1>2
    <2>2. b - 1 \in Nat
      <3>1. PICK t \in T : TRUE
        OBVIOUS
      <3>2. b \in Nat /\ t \in Nat /\ t <= b - 1
        BY <1>2, <2>1, <3>1
      <3> QED BY <3>2
    <2>3. b - 1 \in Bounds
      BY <2>1, <2>2
    <2> QED BY <1>2, <2>3
  <1> QED BY <1>2, <1>3

\* The first active slot is one with a contact.
LEMMA FirstActiveIsLive ==
    /\ FirstActive >= 0 <=> Live # {}
    /\ Live # {} => FirstActive \in Live
    /\ Live \subseteq Slot
  <1>1. Live \subseteq Slot /\ \A s \in Live : s \in Nat
    BY InputAssumption DEF Live, Slot
  <1>2. ASSUME Live # {} PROVE \E s \in Live : \A t \in Live : s <= t
    BY <1>1, <1>2, Least
  <1>3. Live # {} => FirstActive \in Live
    BY <1>2 DEF FirstActive
  <1>4. Live = {} => FirstActive = -1
    BY DEF FirstActive
  <1>5. CASE Live = {}
    BY <1>1, <1>4, <1>5
  <1>6. CASE Live # {}
    BY <1>1, <1>3, <1>6
  <1> QED BY <1>5, <1>6

-----------------------------------------------------------------------------
TouchWrites == OwnerWrites \o PressWrites

\* A frame of the touch device sends one of four things.
LEMMA TouchSends ==
    ASSUME ButtonInv
    PROVE  /\ MayPress => /\ ~Owned
                          /\ TouchWrites = <<Move(slots[FirstActive].at), Down>>
           /\ (~MayPress /\ Released) => TouchWrites = <<Up>>
           /\ (~MayPress /\ ~Released /\ Drags) =>
                 \/ TouchWrites = <<>>
                 \/ TouchWrites = <<Move(slots[primary_slot].at)>>
           /\ (~MayPress /\ ~Released /\ ~Drags) => TouchWrites = <<>>
  <1>1. MayPress => ~Owned
    BY DEF MayPress, ButtonInv
  <1>2. MayPress => OwnerWrites = <<>>
    BY <1>1 DEF OwnerWrites, Released, Drags
  <1>3. MayPress => PressWrites = <<Move(slots[FirstActive].at), Down>>
    BY Concats DEF PressWrites, Position
  <1>4. ~MayPress => PressWrites = <<>>
    BY DEF PressWrites
  <1>5. /\ Released => OwnerWrites = <<Up>>
        /\ (~Released /\ Drags) =>
              \/ OwnerWrites = <<>>
              \/ OwnerWrites = <<Move(slots[primary_slot].at)>>
        /\ (~Released /\ ~Drags) => OwnerWrites = <<>>
    BY DEF OwnerWrites, Position
  <1>6. CASE MayPress
    BY <1>1, <1>2, <1>3, <1>6, Concats DEF TouchWrites
  <1>7. CASE ~MayPress
    BY <1>4, <1>5, <1>7, Concats DEF TouchWrites
  <1> QED BY <1>6, <1>7

\* What a frame of the touch device does to the button.
LEMMA TouchKeeps ==
    ASSUME ButtonInv, TouchFrame, UNCHANGED penVars
    PROVE  ButtonInv'
  <1>1. Send(TouchWrites)
    BY DEF TouchFrame, TouchWrites
  <1>2. mouse_down' = mouse_down
    BY DEF penVars
  <1>3. gesture_active' <=> seen' # {}
    BY FirstActiveIsLive DEF TouchFrame, GestureAfter
  <1>4. CASE MayPress
    <2>1. /\ ~Owned /\ ~mouse_down /\ FirstActive >= 0
          /\ TouchWrites = <<Move(slots[FirstActive].at), Down>>
      BY <1>4, TouchSends DEF MayPress
    <2>2. /\ FirstActive \in Slot
          /\ slots[FirstActive].id >= 0
      BY <2>1, FirstActiveIsLive DEF Live
    <2>3. /\ primary_slot' = FirstActive
          /\ primary_tracking_id' = slots[FirstActive].id
          /\ press' = slots[FirstActive].at
          /\ gesture_active'
      BY <1>4, <2>1 DEF TouchFrame, GestureAfter
    <2>4. Owned'
      BY <2>1, <2>3 DEF Owned
    <2>5. refused' => depth' = 0
      BY <1>1, SendAll
    <2>6. ~refused' => depth' = 1 /\ shown' = press'
      <3>1. depth = IF refused THEN 0 ELSE 0
        BY <2>1 DEF ButtonInv
      <3> QED BY <3>1, <1>1, <2>1, <2>3, SendPress
    <2>7. Slot' = Slot
      BY DEF Slot
    <2> QED BY <1>2, <1>3, <2>1, <2>2, <2>3, <2>4, <2>5, <2>6, <2>7
            DEF ButtonInv, TapStaysPut
  <1>5. CASE ~MayPress /\ Released
    <2>1. /\ TouchWrites = <<Up>> /\ Owned /\ ~mouse_down
          /\ primary_slot' = -1
      BY <1>5, TouchSends DEF TouchFrame, Released, ButtonInv
    <2>2. ~Owned'
      BY <2>1 DEF Owned
    <2>3. depth' = 0
      BY <1>1, <2>1, SendRelease DEF ButtonInv
    <2> QED BY <1>2, <1>3, <2>1, <2>2, <2>3 DEF ButtonInv, TapStaysPut
  <1>6. CASE ~MayPress /\ ~Released
    <2>1. /\ primary_slot' = primary_slot
          /\ primary_tracking_id' = primary_tracking_id /\ press' = press
          /\ dragging' = (dragging \/ DragBegins)
      BY <1>6 DEF TouchFrame
    <2>2. Owned' = Owned
      BY <2>1 DEF Owned
    <2>3. Owned => gesture_active'
      <3>1. Owned => primary_slot \in Live
        BY <1>6 DEF ButtonInv, Owned, Released, Live, Slot
      <3> QED BY <3>1, FirstActiveIsLive DEF TouchFrame, GestureAfter
    <2>4. /\ refused' => depth' = 0
          /\ ~refused' => ~refused /\ depth' = depth
      <3>1. \/ TouchWrites = <<>>
            \/ TouchWrites = <<Move(slots[primary_slot].at)>>
        BY <1>6, TouchSends
      <3>2. depth \in {0, 1}
        BY DEF ButtonInv
      <3> QED BY <1>1, <3>1, <3>2, SendQuiet
    <2>5. TapStaysPut'
      <3> SUFFICES ASSUME Owned', ~dragging', ~refused' PROVE shown' = press'
        BY DEF TapStaysPut
      <3>1. TouchWrites = <<>>
        BY <1>6, <2>1, TouchSends DEF Drags
      <3>2. shown' = shown /\ ~refused
        BY <1>1, <3>1, SendAll, LastMoves
      <3> QED BY <2>1, <2>2, <3>2 DEF ButtonInv, TapStaysPut
    <2>6. depth' = IF ~refused' /\ (Owned' \/ mouse_down') THEN 1 ELSE 0
      BY <1>2, <2>2, <2>4 DEF ButtonInv
    <2>7. Slot' = Slot
      BY DEF Slot
    <2> QED BY <1>2, <1>3, <2>1, <2>2, <2>3, <2>5, <2>6, <2>7 DEF ButtonInv
  <1> QED BY <1>4, <1>5, <1>6

-----------------------------------------------------------------------------
\* A frame of the pen sends one of four things.
LEMMA PenSends ==
    /\ PenLifts => PenWrites = <<Up>>
    /\ PenPresses => PenWrites = <<Move(pen.at), Down>>
    /\ (~PenLifts /\ ~PenPresses) =>
          PenWrites = <<>> \/ PenWrites = <<Move(pen.at)>>
  <1>1. ~(PenLifts /\ PenPresses)
    BY DEF PenLifts, PenPresses
  <1>2. CASE PenLifts
    BY <1>1, <1>2 DEF PenWrites
  <1>3. CASE PenPresses
    BY <1>1, <1>3, Concats DEF PenWrites, Position
  <1>4. CASE ~PenLifts /\ ~PenPresses
    BY <1>4, Concats DEF PenWrites, Position
  <1> QED BY <1>2, <1>3, <1>4

\* The pen acts only while no finger has the button.
LEMMA PenKeeps ==
    ASSUME ButtonInv, PenFrame, UNCHANGED <<touchVars, seen>>
    PROVE  ButtonInv'
  <1>0. /\ primary_slot' = primary_slot /\ gesture_active' = gesture_active
        /\ primary_tracking_id' = primary_tracking_id /\ seen' = seen
        /\ dragging' = dragging /\ press' = press /\ Slot' = Slot
        /\ Owned' = Owned
    BY DEF touchVars, Owned, Slot
  <1>1. CASE ~PenMayAct
    BY <1>0, <1>1 DEF PenFrame, outVars, ButtonInv, TapStaysPut
  <1>2. CASE PenMayAct
    <2>1. ~Owned /\ Send(PenWrites) /\ mouse_down' = pen.touched
      BY <1>2, InputAssumption DEF PenFrame, PenMayAct, Owned, ButtonInv, Slot
    <2>2. refused' => depth' = 0
      BY <2>1, SendAll
    <2>3. ~refused' => depth' = IF mouse_down' THEN 1 ELSE 0
      <3>0. depth = IF ~refused /\ mouse_down THEN 1 ELSE 0
        BY <2>1 DEF ButtonInv
      <3>1. CASE PenLifts
        BY <2>1, <3>0, <3>1, PenSends, SendRelease DEF PenLifts
      <3>2. CASE PenPresses
        BY <2>1, <3>0, <3>2, PenSends, SendPress DEF PenPresses
      <3>3. CASE ~PenLifts /\ ~PenPresses
        <4>1. ~refused' => ~refused /\ depth' = depth
          BY <2>1, <3>0, <3>3, PenSends, SendQuiet
        <4>2. mouse_down' <=> mouse_down
          BY <2>1, <3>3 DEF PenLifts, PenPresses
        <4> QED BY <4>1, <4>2, <3>0
      <3> QED BY <3>1, <3>2, <3>3
    <2> QED BY <1>0, <2>1, <2>2, <2>3 DEF ButtonInv, TapStaysPut
  <1> QED BY <1>1, <1>2

-----------------------------------------------------------------------------
LEMMA InitButton == Init => ButtonInv
  <1> SUFFICES ASSUME Init PROVE ButtonInv
    OBVIOUS
  <1>1. ~Owned /\ ~mouse_down /\ depth = 0 /\ primary_slot = -1
    BY DEF Init, Owned
  <1>2. gesture_active <=> seen # {}
    BY DEF Init, GestureAtStart, Live
  <1> QED BY <1>1, <1>2 DEF ButtonInv, TapStaysPut

\* What a step leaves alone: the button, or at least all but a page key.
LEMMA RestKeeps ==
    ASSUME ButtonInv,
           UNCHANGED <<primary_slot, primary_tracking_id, gesture_active,
                       dragging, press, mouse_down, seen>>,
           UNCHANGED outVars \/ Send(<<[kind |-> "key", at |-> Nowhere]>>)
    PROVE  /\ ButtonInv'
           /\ depth' = depth \/ (refused' /\ depth' = 0)
  <1> DEFINE w == <<[kind |-> "key", at |-> Nowhere]>>
  <1>0. Slot' = Slot /\ Owned' = Owned /\ depth \in {0, 1}
    BY DEF Slot, Owned, ButtonInv
  <1>1. CASE UNCHANGED outVars
    BY <1>0, <1>1 DEF outVars, ButtonInv, TapStaysPut
  <1>2. CASE Send(w)
    <2>1. \A k \in {"up", "down", "move"} : {i \in DOMAIN w : w[i].kind = k} = {}
      OBVIOUS
    <2>2. /\ CountOf(w, DOMAIN w, "down") = 0 /\ CountOf(w, DOMAIN w, "up") = 0
          /\ LastMove(w, DOMAIN w, shown) = shown
      BY <2>1, FS_EmptySet DEF CountOf, LastMove
    <2> HIDE DEF w
    <2>3. /\ refused' => depth' = 0
          /\ ~refused' => ~refused /\ depth' = depth /\ shown' = shown
      BY <1>0, <1>2, <2>2, SendAll
    <2> QED BY <1>0, <2>3 DEF ButtonInv, TapStaysPut
  <1> QED BY <1>1, <1>2

\* Every step decodes a frame of one device, or leaves the button alone.
LEMMA Steps ==
    ASSUME [Next]_vars
    PROVE  \/ TouchFrame /\ UNCHANGED penVars
           \/ PenFrame /\ UNCHANGED <<touchVars, seen>>
           \/ /\ UNCHANGED <<primary_slot, primary_tracking_id, gesture_active,
                             dragging, press, mouse_down, seen>>
              /\ \/ UNCHANGED outVars
                 \/ Send(<<[kind |-> "key", at |-> Nowhere]>>)
  <1>1. CASE TouchEvent
    BY <1>1 DEF TouchEvent, TouchField, touchVars, penVars
  <1>2. CASE PenEvent
    <2>1. UNCHANGED <<touchVars, seen>>
      BY <1>2 DEF PenEvent
    <2>2. CASE Read(penq) = Dropped /\ UNCHANGED <<penVars, outVars>>
      BY <2>1, <2>2 DEF touchVars, penVars
    <2>3. CASE PenFrame
      BY <2>1, <2>3
    <2>4. CASE PenField(Read(penq))
      BY <2>1, <2>4 DEF PenField, touchVars
    <2> QED BY <1>2, <2>2, <2>3, <2>4 DEF PenEvent
  <1>3. CASE KeyEvent
    BY <1>3 DEF KeyEvent, touchVars, penVars
  <1>4. CASE TouchDrained \/ TouchFails \/ KeysDrained \/ PenDrained
             \/ PenFails \/ PollAgain \/ Finalize
    BY <1>4 DEF TouchDrained, TouchFails, KeysDrained, PenDrained, PenFails,
                PollAgain, Finalize, touchVars, penVars
  <1>5. CASE EnvNext
    BY <1>5 DEF EnvNext, FingersReport, FingersOverflow, PenReports,
                PenOverflow, touchVars, penVars
  <1>6. CASE UNCHANGED vars
    BY <1>6 DEF vars, touchVars, penVars
  <1> QED BY <1>1, <1>2, <1>3, <1>4, <1>5, <1>6 DEF Next, ThreadNext

LEMMA NextButton == ButtonInv /\ [Next]_vars => ButtonInv'
  BY Steps, TouchKeeps, PenKeeps, RestKeeps

(* As long as the queue accepts everything, presses and releases alternate *)
(* (input_touch_frame, input_process_pen): for any number of fingers, any  *)
(* loss of kernel events, and any interleaving with the pen.               *)
THEOREM OneButton == Spec => []ButtonsAlternate
  <1>1. ButtonInv => ButtonsAlternate
    BY DEF ButtonInv, ButtonsAlternate
  <1> QED BY <1>1, InitButton, NextButton, PTL DEF Spec

(* Movement below the threshold of input_touch_frame never moves the       *)
(* pointer between the press and the release.                              *)
THEOREM TapsStayPut == Spec => []TapStaysPut
  <1>1. ButtonInv => TapStaysPut
    BY DEF ButtonInv
  <1> QED BY <1>1, InitButton, NextButton, PTL DEF Spec

(* A contact that landed during another gesture never comes to own the     *)
(* button (input_touch_frame): neither one in another slot, nor one that   *)
(* took the slot of the owner.                                             *)
THEOREM SecondFingerNeverClicks == Spec => NeverPromoted
  <1> DEFINE Owner == <<primary_slot, primary_tracking_id>>
             P == (Owned' /\ Owner' # Owner) => seen = {}
  <1>1. ASSUME ButtonInv, TouchFrame PROVE P
    <2>1. CASE MayPress
      BY <1>1, <2>1 DEF MayPress, ButtonInv
    <2>2. CASE ~MayPress
      <3>1. primary_tracking_id' = primary_tracking_id
        BY <1>1, <2>2 DEF TouchFrame
      <3>2. primary_slot' = primary_slot \/ primary_slot' = -1
        BY <1>1, <2>2 DEF TouchFrame
      <3>3. primary_slot' = -1 => ~Owned'
        BY DEF Owned
      <3> QED BY <3>1, <3>2, <3>3
    <2> QED BY <2>1, <2>2
  <1>2. ASSUME UNCHANGED <<primary_slot, primary_tracking_id>> PROVE P
    BY <1>2
  <1>3. ButtonInv /\ [Next]_vars => [P]_vars
    BY <1>1, <1>2, Steps DEF touchVars
  <1> QED BY <1>3, InitButton, NextButton, PTL DEF Spec, NeverPromoted

(* The press is shown where the contact was, and a release never moves the *)
(* pointer.                                                                *)
THEOREM PressesAndReleases == Spec => PressAndRelease
  <1> DEFINE P == /\ (depth = 0 /\ depth' = 1) =>
                        shown' = IF mouse_down' THEN pen.at
                                 ELSE slots[primary_slot'].at
                  /\ (depth = 1 /\ depth' = 0 /\ ~refused') => shown' = shown
  <1>0. ButtonInv => depth \in {0, 1}
    BY DEF ButtonInv
  <1>1. ASSUME ButtonInv, TouchFrame, UNCHANGED penVars PROVE P
    <2>0. Send(TouchWrites)
      BY <1>1 DEF TouchFrame, TouchWrites
    <2>1. CASE MayPress
      <3>1. /\ refused' => depth' = 0
            /\ ~refused' => depth' = depth + 1 /\ shown' = slots[FirstActive].at
        BY <1>0, <1>1, <2>0, <2>1, TouchSends, SendPress
      <3>2. primary_slot' = FirstActive /\ ~mouse_down'
        BY <1>1, <2>1 DEF TouchFrame, MayPress, penVars
      <3> QED BY <1>0, <1>1, <3>1, <3>2
    <2>2. CASE ~MayPress /\ Released
      BY <1>0, <1>1, <2>0, <2>2, TouchSends, SendRelease
    <2>3. CASE ~MayPress /\ ~Released
      <3>1. \/ TouchWrites = <<>>
            \/ TouchWrites = <<Move(slots[primary_slot].at)>>
        BY <1>1, <2>3, TouchSends
      <3> QED BY <1>0, <1>1, <2>0, <3>1, SendQuiet
    <2> QED BY <2>1, <2>2, <2>3
  <1>2. ASSUME ButtonInv, PenFrame PROVE P
    <2>1. CASE ~PenMayAct
      BY <1>2, <2>1 DEF PenFrame, outVars
    <2>2. CASE PenMayAct
      <3>0. Send(PenWrites) /\ mouse_down' = pen.touched
        BY <1>2, <2>2 DEF PenFrame
      <3>1. CASE PenLifts
        BY <1>0, <1>2, <3>0, <3>1, PenSends, SendRelease
      <3>2. CASE PenPresses
        BY <1>0, <1>2, <3>0, <3>2, PenSends, SendPress DEF PenPresses
      <3>3. CASE ~PenLifts /\ ~PenPresses
        BY <1>0, <1>2, <3>0, <3>3, PenSends, SendQuiet
      <3> QED BY <3>1, <3>2, <3>3
    <2> QED BY <2>1, <2>2
  <1>3. ASSUME ButtonInv, depth' = depth \/ (refused' /\ depth' = 0) PROVE P
    BY <1>0, <1>3
  <1>4. ButtonInv /\ [Next]_vars => [P]_vars
    <2>1. ASSUME ButtonInv,
                 UNCHANGED <<primary_slot, primary_tracking_id, gesture_active,
                             dragging, press, mouse_down, seen>>,
                 \/ UNCHANGED outVars
                 \/ Send(<<[kind |-> "key", at |-> Nowhere]>>)
          PROVE  P
      <3>1. depth' = depth \/ (refused' /\ depth' = 0)
        BY <2>1, RestKeeps
      <3> QED BY <2>1, <3>1, <1>3
    <2> QED BY <1>1, <1>2, <2>1, Steps
  <1> QED BY <1>4, InitButton, NextButton, PTL DEF Spec, PressAndRelease

-----------------------------------------------------------------------------
(* InputInv.  Its types need those of what the devices report, which       *)
(* ButtonInv does without.                                                 *)
FromTouch == {Report, Dropped} \cup {Field("slot", s) : s \in Slot}
             \cup {Field("id", i) : i \in TrackingId \cup {-1}}
             \cup {Field("at", p) : p \in Place}

FromPen == {Report, Dropped} \cup {Field("at", p) : p \in Place}
           \cup {Field("touch", b) : b \in BOOLEAN}

Environment == /\ touchq \in Seq(FromTouch) /\ penq \in Seq(FromPen)
               /\ glass \in [Slot -> Contact] /\ named \in Slot
               /\ stylus \in [at : Place, touched : BOOLEAN]

IInv == ButtonInv /\ TypeOK /\ PointerIsShown /\ Environment

\* The slot that the kernel has named last is one.
LEMMA LastNamedIsSlot ==
    ASSUME NEW old, NEW new, NEW cur \in Slot
    PROVE  LastNamed(old, new, cur) \in Slot
  <1> DEFINE changed == {s \in Slot : old[s] # new[s]}
  <1>1. changed \in SUBSET (0..(NumSlots - 1)) /\ NumSlots - 1 \in Nat
    BY InputAssumption DEF Slot
  <1>2. CASE changed = {}
    BY <1>2 DEF LastNamed
  <1>3. CASE changed # {}
    <2>1. (CHOOSE s \in changed : \A t \in changed : t <= s) \in changed
      BY <1>1, <1>3, Greatest
    <2> QED BY <2>1, <1>3 DEF LastNamed
  <1> QED BY <1>2, <1>3

LEMMA SlotEventsTyped ==
    ASSUME NEW old \in [Slot -> Contact], NEW new \in [Slot -> Contact],
           NEW s \in Slot, NEW cur
    PROVE  SlotEvents(old, new, s, cur) \in Seq(FromTouch)
  <1>1. new[s].id \in TrackingId \cup {-1} /\ new[s].at \in Place
    BY DEF Contact
  <1>2. /\ Field("slot", s) \in FromTouch
        /\ Field("id", new[s].id) \in FromTouch
        /\ Field("at", new[s].at) \in FromTouch
    BY <1>1 DEF FromTouch
  <1>3. /\ <<>> \in Seq(FromTouch)
        /\ \A e \in FromTouch : <<e>> \in Seq(FromTouch)
    OBVIOUS
  <1>4. \A q, r \in Seq(FromTouch) : q \o r \in Seq(FromTouch)
    BY ConcatProperties
  <1> DEFINE a == IF s = cur /\ \A t \in 0..(s - 1) : old[t] = new[t]
                  THEN <<>> ELSE <<Field("slot", s)>>
             b == IF old[s].id = new[s].id THEN <<>>
                  ELSE <<Field("id", new[s].id)>>
             c == IF old[s].at = new[s].at THEN <<>>
                  ELSE <<Field("at", new[s].at)>>
  <1>5. /\ a \in Seq(FromTouch) /\ b \in Seq(FromTouch)
        /\ c \in Seq(FromTouch)
    BY <1>2, <1>3
  <1>6. SlotEvents(old, new, s, cur) = IF old[s] = new[s] THEN <<>>
                                       ELSE a \o b \o c
    BY DEF SlotEvents
  <1> HIDE DEF a, b, c
  <1>7. a \o b \o c \in Seq(FromTouch)
    BY <1>4, <1>5
  <1> QED BY <1>3, <1>6, <1>7

\* The events of the first slots, by recursion: there is such a function.
LEMMA FirstSlots ==
    ASSUME NEW old \in [Slot -> Contact], NEW new \in [Slot -> Contact], NEW cur
    PROVE  \E upto \in [0..NumSlots -> Seq(FromTouch)] :
               Difference(old, new, cur) = upto[NumSlots]
  <1> DEFINE Turn(q, n) == q \o SlotEvents(old, new, n - 1, cur)
             Solves(g, n) == g = [m \in 0..n |-> IF m = 0 THEN <<>>
                                                 ELSE Turn(g[m - 1], m)]
             Stuck == {n \in 0..NumSlots : ~\E g : Solves(g, n)}
             f == CHOOSE g : Solves(g, NumSlots)
  <1>0. NumSlots \in Nat
    BY InputAssumption
  <1>1. Difference(old, new, cur) = f[NumSlots]
    BY DEF Difference
  <1> HIDE DEF Turn
  <1>2. Stuck = {}
    <2> SUFFICES ASSUME Stuck # {} PROVE FALSE
      OBVIOUS
    <2>1. Stuck \in SUBSET Nat
      OBVIOUS
    <2>2. PICK b \in Stuck : \A n \in Stuck : b <= n
      BY <2>1, Least
    <2>3. CASE b = 0
      <3> DEFINE g == [m \in 0..0 |-> <<>>]
      <3>1. Solves(g, 0)
        OBVIOUS
      <3> QED BY <3>1, <2>2, <2>3
    <2>4. CASE b # 0
      <3>1. b \in Nat /\ b - 1 \in 0..NumSlots /\ b - 1 \notin Stuck
        <4> HIDE DEF Solves
        <4>1. b \in 0..NumSlots /\ b \in Stuck /\ \A n \in Stuck : b <= n
          BY <2>2
        <4> HIDE DEF Stuck
        <4>2. b \in Nat /\ b - 1 \in 0..NumSlots
          BY <1>0, <4>1, <2>4
        <4> QED BY <4>1, <4>2
      <3>2. PICK g : Solves(g, b - 1)
        BY <3>1
      <3> DEFINE h == [m \in 0..b |-> IF m = b THEN Turn(g[b - 1], b) ELSE g[m]]
      <3>3. \A m \in 0..b : h[m] = IF m = 0 THEN <<>> ELSE Turn(h[m - 1], m)
        <4> TAKE m \in 0..b
        <4>1. CASE m = b
          BY <4>1, <3>1, <2>4
        <4>2. CASE m # b
          <5>1. m \in 0..(b - 1) /\ h[m] = g[m]
            BY <4>2, <3>1
          <5>2. m # 0 => h[m - 1] = g[m - 1]
            BY <4>2, <3>1
          <5>3. g[m] = IF m = 0 THEN <<>> ELSE Turn(g[m - 1], m)
            BY <5>1, <3>2
          <5> QED BY <5>1, <5>2, <5>3
        <4> QED BY <4>1, <4>2
      <3>4. h = [m \in 0..b |-> h[m]]
        OBVIOUS
      <3> HIDE DEF h
      <3>5. Solves(h, b)
        BY <3>3, <3>4
      <3> QED BY <3>5, <2>2
    <2> QED BY <2>3, <2>4
  <1>3. \E g : Solves(g, NumSlots)
    BY <1>0, <1>2
  <1>4. Solves(f, NumSlots)
    BY <1>3
  <1>5. /\ f = [m \in 0..NumSlots |-> f[m]]
        /\ \A m \in 0..NumSlots : f[m] = IF m = 0 THEN <<>> ELSE Turn(f[m - 1], m)
    BY <1>4
  <1> HIDE DEF f
  <1> DEFINE Bad == {m \in 0..NumSlots : f[m] \notin Seq(FromTouch)}
  <1>6. Bad = {}
    <2> SUFFICES ASSUME Bad # {} PROVE FALSE
      OBVIOUS
    <2>1. Bad \in SUBSET Nat
      OBVIOUS
    <2>2. PICK b \in Bad : \A m \in Bad : b <= m
      BY <2>1, Least
    <2>3. b # 0
      BY <1>0, <1>5, <2>2
    <2>4. b - 1 \in 0..NumSlots /\ b - 1 \in Slot
      BY <1>0, <2>2, <2>3 DEF Slot
    <2>5. f[b - 1] \in Seq(FromTouch)
      <3>1. b - 1 \notin Bad
        BY <2>1, <2>2
      <3> QED BY <2>4, <3>1
    <2>6. SlotEvents(old, new, b - 1, cur) \in Seq(FromTouch)
      BY <2>4, SlotEventsTyped
    <2>7. f[b] = Turn(f[b - 1], b)
      BY <1>5, <2>2, <2>3
    <2>8. f[b] = f[b - 1] \o SlotEvents(old, new, b - 1, cur)
      BY <2>7 DEF Turn
    <2> DEFINE q == f[b - 1]
               e == SlotEvents(old, new, b - 1, cur)
    <2>9. q \o e \in Seq(FromTouch)
      <3> HIDE DEF q, e
      <3>1. q \in Seq(FromTouch) /\ e \in Seq(FromTouch)
        BY <2>5, <2>6 DEF q, e
      <3> QED BY <3>1, ConcatProperties
    <2>10. f[b] \notin Seq(FromTouch)
      BY <2>2
    <2> QED BY <2>8, <2>9, <2>10
  <1>7. f \in [0..NumSlots -> Seq(FromTouch)]
    BY <1>5, <1>6
  <1> QED BY <1>1, <1>7

LEMMA DifferenceTyped ==
    ASSUME NEW old \in [Slot -> Contact], NEW new \in [Slot -> Contact], NEW cur
    PROVE  Difference(old, new, cur) \in Seq(FromTouch)
  <1>1. NumSlots \in 0..NumSlots
    BY InputAssumption
  <1> QED BY <1>1, FirstSlots

-----------------------------------------------------------------------------
\* Whatever is refused of the writes, the pointer is where it is shown.
LEMMA SendShows ==
    ASSUME NEW p \in Place, NEW w, Send(w),
           \/ w = <<>> \/ w = <<Up>> \/ w = <<Move(p)>> \/ w = <<Move(p), Down>>
           \/ w = <<[kind |-> "key", at |-> Nowhere]>>,
           pointer \in Place \cup {Nowhere}, PointerIsShown
    PROVE  /\ pointer' \in Place \cup {Nowhere} /\ shown' \in Place \cup {Nowhere}
           /\ PointerIsShown' /\ refused' \in BOOLEAN
  <1>1. PICK kept \in SUBSET (DOMAIN w) :
            /\ refused' = (refused \/ kept # DOMAIN w)
            /\ pointer' = LastMove(w, kept, pointer)
            /\ shown' = LastMove(w, kept, shown)
    BY DEF Send, PointerAfter
  <1> DEFINE moves == {i \in kept : w[i].kind = "move"}
  <1>2. moves # {} => moves = {1} /\ w[1].at = p
    BY DEF Up, Down, Move
  <1>3. LastMove(w, kept, pointer) \in {pointer, p}
    <2>1. CASE moves = {}
      BY <2>1 DEF LastMove
    <2>2. CASE moves # {}
      <3>1. (CHOOSE i \in moves : \A j \in moves : j <= i) = 1
        BY <1>2, <2>2
      <3> QED BY <1>2, <2>2, <3>1 DEF LastMove
    <2> QED BY <2>1, <2>2
  <1> HIDE DEF moves
  <1> QED BY <1>1, <1>3 DEF PointerIsShown

LEMMA InitTyped == Init => IInv
  <1> SUFFICES ASSUME Init PROVE IInv
    OBVIOUS
  <1>1. glass \in [Slot -> Contact]
    BY InputAssumption DEF Init, Contact
  <1>2. named \in Slot
    BY InputAssumption DEF Init, Slot
  <1>3. stylus \in [at : Place, touched : BOOLEAN]
    BY InputAssumption DEF Init
  <1>4. Environment
    BY <1>1, <1>2, <1>3 DEF Init, Environment
  <1>5. TypeOK
    BY <1>1, <1>2, <1>3, InputAssumption DEF Init, TypeOK, GestureAtStart
  <1>6. PointerIsShown
    BY DEF Init, PointerIsShown
  <1> QED BY <1>4, <1>5, <1>6, InitButton DEF IInv

LEMMA TouchFrameTyped ==
    ASSUME IInv, TouchFrame, UNCHANGED penVars
    PROVE  TypeOK' /\ PointerIsShown'
  <1>0. TypeOK /\ ButtonInv /\ PointerIsShown
    BY DEF IInv
  <1>1. Send(TouchWrites)
    BY DEF TouchFrame, TouchWrites
  <1>2. \A s \in Slot : slots[s].id \in TrackingId \cup {-1} /\ slots[s].at \in Place
    BY <1>0 DEF TypeOK, Contact
  <1>3. MayPress => FirstActive \in Slot
    BY FirstActiveIsLive DEF MayPress
  <1>4. Owned => primary_slot \in Slot
    BY <1>0 DEF Owned, TypeOK
  <1>5. PICK p \in Place : \/ TouchWrites = <<>> \/ TouchWrites = <<Up>>
                           \/ TouchWrites = <<Move(p)>>
                           \/ TouchWrites = <<Move(p), Down>>
    <2>1. CASE MayPress
      BY <2>1, <1>0, <1>2, <1>3, TouchSends
    <2>2. CASE ~MayPress /\ Released
      BY <2>2, <1>0, InputAssumption, TouchSends
    <2>3. CASE ~MayPress /\ ~Released /\ Drags
      BY <2>3, <1>0, <1>2, <1>4, TouchSends DEF Drags, DragBegins
    <2>4. CASE ~MayPress /\ ~Released /\ ~Drags
      BY <2>4, <1>0, InputAssumption, TouchSends
    <2> QED BY <2>1, <2>2, <2>3, <2>4
  <1>6. /\ pointer' \in Place \cup {Nowhere} /\ shown' \in Place \cup {Nowhere}
        /\ PointerIsShown' /\ refused' \in BOOLEAN
    BY <1>0, <1>1, <1>5, SendShows DEF TypeOK
  <1>7. /\ primary_slot' \in Slot \cup {-1}
        /\ primary_tracking_id' \in TrackingId \cup {-1} /\ press' \in Place
    BY <1>0, <1>2, <1>3 DEF TouchFrame, TypeOK
  <1>8. gesture_active' \in BOOLEAN /\ dragging' \in BOOLEAN
    BY DEF TouchFrame, GestureAfter
  <1>9. UNCHANGED <<slots, current_slot, pen, mouse_down>>
    BY DEF TouchFrame, penVars
  <1> QED BY <1>0, <1>6, <1>7, <1>8, <1>9 DEF TypeOK, Slot, Contact

LEMMA TouchFieldTyped ==
    ASSUME IInv, NEW ev \in FromTouch, TouchField(ev), UNCHANGED penVars
    PROVE  TypeOK' /\ PointerIsShown'
  <1>0. TypeOK /\ PointerIsShown
    BY DEF IInv
  <1>1. /\ ev.code = "id" => ev.value \in TrackingId \cup {-1}
        /\ ev.code = "at" => ev.value \in Place
    BY DEF FromTouch, Report, Dropped, Field
  <1>2. slots' \in [Slot -> Contact]
    <2>1. CASE slots' = slots
      BY <1>0, <2>1 DEF TypeOK
    <2>2. CASE /\ ev.code = "id" /\ current_slot \in Slot
               /\ slots' = [slots EXCEPT ![current_slot].id = ev.value]
      BY <1>0, <1>1, <2>2 DEF TypeOK, Contact
    <2>3. CASE /\ ev.code = "at" /\ current_slot \in Slot
               /\ slots' = [slots EXCEPT ![current_slot].at = ev.value]
      BY <1>0, <1>1, <2>3 DEF TypeOK, Contact
    <2> QED BY <2>1, <2>2, <2>3 DEF TouchField
  <1>3. current_slot' \in Slot \cup {-1}
    BY <1>0 DEF TouchField, SetSlot, TypeOK
  <1>4. UNCHANGED <<primary_slot, primary_tracking_id, gesture_active,
                    dragging, press, pen, mouse_down, outVars>>
    BY DEF TouchField, penVars
  <1> QED BY <1>0, <1>2, <1>3, <1>4 DEF TypeOK, PointerIsShown, outVars, Slot, Contact

LEMMA PenFrameTyped ==
    ASSUME IInv, PenFrame, UNCHANGED touchVars
    PROVE  TypeOK' /\ PointerIsShown'
  <1>0. TypeOK /\ PointerIsShown /\ pen \in [at : Place, touched : BOOLEAN]
    BY DEF IInv, TypeOK
  <1>1. /\ pointer' \in Place \cup {Nowhere} /\ shown' \in Place \cup {Nowhere}
        /\ PointerIsShown' /\ refused' \in BOOLEAN /\ mouse_down' \in BOOLEAN
    <2>1. CASE ~PenMayAct
      BY <2>1, <1>0 DEF PenFrame, outVars, TypeOK, PointerIsShown
    <2>2. CASE PenMayAct
      <3>1. Send(PenWrites) /\ mouse_down' = pen.touched
        BY <2>2 DEF PenFrame
      <3>2. pen.at \in Place /\ pen.touched \in BOOLEAN
        BY <1>0
      <3>3. \/ PenWrites = <<>> \/ PenWrites = <<Up>>
            \/ PenWrites = <<Move(pen.at)>> \/ PenWrites = <<Move(pen.at), Down>>
        BY PenSends
      <3>4. pointer \in Place \cup {Nowhere}
        BY <1>0 DEF TypeOK
      <3>5. /\ pointer' \in Place \cup {Nowhere} /\ shown' \in Place \cup {Nowhere}
            /\ PointerIsShown' /\ refused' \in BOOLEAN
        BY <1>0, <3>1, <3>2, <3>3, <3>4, SendShows
      <3> QED BY <3>1, <3>2, <3>5
    <2> QED BY <2>1, <2>2
  <1>2. UNCHANGED <<touchVars, pen>>
    BY DEF PenFrame
  <1> QED BY <1>0, <1>1, <1>2 DEF TypeOK, touchVars, Slot, Contact

LEMMA PenFieldTyped ==
    ASSUME IInv, NEW ev \in FromPen, PenField(ev), UNCHANGED touchVars
    PROVE  TypeOK' /\ PointerIsShown'
  <1>0. TypeOK /\ PointerIsShown
    BY DEF IInv
  <1>1. /\ ev.code = "at" => ev.value \in Place
        /\ ev.code = "touch" => ev.value \in BOOLEAN
    BY DEF FromPen, Report, Dropped, Field
  <1>2. pen' \in [at : Place, touched : BOOLEAN]
    BY <1>0, <1>1 DEF PenField, TypeOK
  <1> QED BY <1>0, <1>2 DEF PenField, TypeOK, PointerIsShown, outVars,
                            touchVars, Slot, Contact

-----------------------------------------------------------------------------
\* What libevdev replays after an overflow.
LEMMA SyncTyped ==
    ASSUME IInv, NEW split \in BOOLEAN
    PROVE  SyncEvents(split) \in Seq(FromTouch)
  <1>0. slots \in [Slot -> Contact] /\ glass \in [Slot -> Contact] /\ named \in Slot
    BY DEF IInv, TypeOK, Environment
  <1>1. Ended \in [Slot -> Contact]
    BY <1>0 DEF Ended, Contact
  <1> DEFINE from == IF split THEN Ended ELSE slots
             cur == IF split THEN LastNamed(slots, Ended, current_slot)
                    ELSE current_slot
             first == IF split
                      THEN Append(Difference(slots, Ended, current_slot), Report)
                      ELSE <<>>
  <1>2. from \in [Slot -> Contact]
    BY <1>0, <1>1
  <1>3. Report \in FromTouch /\ Field("slot", named) \in FromTouch
    BY <1>0 DEF FromTouch
  <1>4. first \in Seq(FromTouch)
    <2>1. Difference(slots, Ended, current_slot) \in Seq(FromTouch)
      BY <1>0, <1>1, DifferenceTyped
    <2> QED BY <1>3, <2>1, AppendProperties
  <1>5. SyncEvents(split) = first \o Difference(from, glass, cur)
                                  \o <<Field("slot", named), Report>>
    BY DEF SyncEvents
  <1> HIDE DEF first, from, cur
  <1>6. Difference(from, glass, cur) \in Seq(FromTouch)
    BY <1>0, <1>2, DifferenceTyped
  <1>7. <<Field("slot", named), Report>> \in Seq(FromTouch)
    BY <1>3
  <1> QED BY <1>4, <1>5, <1>6, <1>7, ConcatProperties

LEMMA TouchEventTyped ==
    ASSUME IInv, TouchEvent
    PROVE  TypeOK' /\ PointerIsShown' /\ Environment'
  <1>0. /\ TypeOK /\ PointerIsShown /\ Environment
        /\ touchq \in Seq(FromTouch) /\ touchq # <<>>
    BY DEF IInv, Environment, TouchEvent
  <1>1. Head(touchq) \in FromTouch /\ Tail(touchq) \in Seq(FromTouch)
    BY <1>0, HeadTailProperties
  <1>2. UNCHANGED <<penVars, envVars, penq>>
    BY DEF TouchEvent
  <1>3. touchq' \in Seq(FromTouch)
    BY <1>1, SyncTyped DEF TouchEvent
  <1>4. FromTouch' = FromTouch /\ FromPen' = FromPen
    BY DEF FromTouch, FromPen, Slot, Report, Dropped, Field
  <1>5. Environment'
    BY <1>0, <1>2, <1>3, <1>4 DEF Environment, envVars, Slot, Contact
  <1>6. CASE Read(touchq) = Dropped
    <2>1. UNCHANGED <<touchVars, outVars>>
      <3>1. Read(touchq) = Dropped => ~(Read(touchq) # Dropped)
        OBVIOUS
      <3> QED BY <1>6 DEF TouchEvent
    <2>2. TypeOK' /\ PointerIsShown'
      BY <1>0, <1>2, <2>1 DEF TypeOK, PointerIsShown, touchVars, penVars,
                              outVars, Slot, Contact
    <2> QED BY <1>5, <2>2
  <1>7. CASE Read(touchq) # Dropped
    <2>1. CASE Read(touchq) = Report
      BY <1>2, <1>5, <1>7, <2>1, TouchFrameTyped DEF TouchEvent
    <2>2. CASE Read(touchq) # Report
      <3>1. TouchField(Head(touchq))
        BY <1>7, <2>2 DEF TouchEvent, Read
      <3> QED BY <1>1, <1>2, <1>5, <3>1, TouchFieldTyped
    <2> QED BY <2>1, <2>2
  <1> QED BY <1>6, <1>7

\* The fields of the pen that differ, and what libevdev replays of them.
LEMMA PenDifferenceTyped ==
    ASSUME NEW old, NEW new \in [at : Place, touched : BOOLEAN]
    PROVE  PenDifference(old, new) \in Seq(FromPen)
  <1> DEFINE a == IF old.touched = new.touched THEN <<>>
                  ELSE <<Field("touch", new.touched)>>
             b == IF old.at = new.at THEN <<>> ELSE <<Field("at", new.at)>>
  <1>1. /\ Field("at", new.at) \in FromPen /\ Report \in FromPen
        /\ Field("touch", new.touched) \in FromPen
    BY DEF FromPen
  <1>2. a \in Seq(FromPen) /\ b \in Seq(FromPen) /\ <<Report>> \in Seq(FromPen)
    BY <1>1
  <1>3. PenDifference(old, new) = a \o b \o <<Report>>
    BY DEF PenDifference
  <1> HIDE DEF a, b
  <1> QED BY <1>2, <1>3, ConcatProperties

LEMMA PenEventTyped ==
    ASSUME IInv, PenEvent
    PROVE  TypeOK' /\ PointerIsShown' /\ Environment'
  <1>0. /\ TypeOK /\ PointerIsShown /\ Environment
        /\ penq \in Seq(FromPen) /\ penq # <<>>
    BY DEF IInv, Environment, PenEvent
  <1>1. Head(penq) \in FromPen /\ Tail(penq) \in Seq(FromPen)
    BY <1>0, HeadTailProperties
  <1>2. UNCHANGED <<touchVars, envVars, touchq>>
    BY DEF PenEvent
  <1>3. FromTouch' = FromTouch /\ FromPen' = FromPen
    BY DEF FromTouch, FromPen, Slot, Report, Dropped, Field
  <1>4. PenSyncEvents \in Seq(FromPen)
    <2>1. stylus \in [at : Place, touched : BOOLEAN]
      BY <1>0 DEF Environment
    <2> QED BY <2>1, PenDifferenceTyped DEF PenSyncEvents
  <1>5. penq' \in Seq(FromPen)
    BY <1>1, <1>4 DEF PenEvent
  <1>6. Environment'
    BY <1>0, <1>2, <1>3, <1>5 DEF Environment, envVars, Slot, Contact
  <1>7. CASE UNCHANGED <<penVars, outVars>>
    BY <1>0, <1>2, <1>6, <1>7 DEF TypeOK, PointerIsShown, touchVars, penVars,
                                  outVars, Slot, Contact
  <1>8. CASE PenFrame
    BY <1>2, <1>6, <1>8, PenFrameTyped
  <1>9. CASE PenField(Head(penq))
    BY <1>1, <1>2, <1>6, <1>9, PenFieldTyped
  <1> QED BY <1>7, <1>8, <1>9 DEF PenEvent, Read

\* Fingers and pen move; the thread has not seen it yet.
LEMMA EnvTyped ==
    ASSUME IInv, EnvNext
    PROVE  Environment' /\ UNCHANGED <<touchVars, penVars, outVars>>
  <1>0. /\ glass \in [Slot -> Contact] /\ named \in Slot
        /\ stylus \in [at : Place, touched : BOOLEAN]
        /\ touchq \in Seq(FromTouch) /\ penq \in Seq(FromPen)
    BY DEF IInv, Environment
  <1>1. FromTouch' = FromTouch /\ FromPen' = FromPen /\ Slot' = Slot
        /\ Contact' = Contact
    BY DEF FromTouch, FromPen, Slot, Report, Dropped, Field, Contact
  <1>2. /\ Report \in FromTouch /\ Dropped \in FromTouch /\ Dropped \in FromPen
    BY DEF FromTouch, FromPen
  <1>3. CASE FingersReport
    <2>1. PICK g \in UNION {NextGlass({s}) : s \in Slot} :
              /\ glass' = g /\ named' = LastNamed(glass, g, named)
              /\ touchq' = Append(Difference(glass, g, named), Report)
      BY <1>3 DEF FingersReport
    <2>2. g \in [Slot -> Contact]
      BY <2>1 DEF NextGlass
    <2>3. named' \in Slot /\ Difference(glass, g, named) \in Seq(FromTouch)
      BY <1>0, <2>1, <2>2, LastNamedIsSlot, DifferenceTyped
    <2>4. touchq' \in Seq(FromTouch)
      BY <1>2, <2>1, <2>3, AppendProperties
    <2>5. UNCHANGED <<touchVars, penVars, outVars, stylus, penq>>
      BY <1>3 DEF FingersReport
    <2> QED BY <1>0, <1>1, <2>1, <2>2, <2>3, <2>4, <2>5 DEF Environment
  <1>4. CASE FingersOverflow
    <2>1. PICK g \in NextGlass({}) :
              glass' = g /\ named' = LastNamed(glass, g, named)
      BY <1>4 DEF FingersOverflow
    <2>2. g \in [Slot -> Contact]
      BY <2>1 DEF NextGlass
    <2>3. named' \in Slot
      BY <1>0, <2>1, LastNamedIsSlot
    <2>4. /\ UNCHANGED <<touchVars, penVars, outVars, stylus, penq>>
          /\ touchq' \in Seq(FromTouch)
      BY <1>0, <1>2, <1>4, AppendProperties DEF FingersOverflow
    <2> QED BY <1>0, <1>1, <1>2, <2>1, <2>2, <2>3, <2>4 DEF Environment
  <1>5. CASE PenReports
    <2>1. /\ stylus' \in [at : Place, touched : BOOLEAN]
          /\ penq' = PenDifference(stylus, stylus')
          /\ UNCHANGED <<touchVars, penVars, outVars, glass, named, touchq>>
      BY <1>5 DEF PenReports
    <2>2. penq' \in Seq(FromPen)
      BY <2>1, PenDifferenceTyped
    <2> QED BY <1>0, <1>1, <2>1, <2>2 DEF Environment
  <1>6. CASE PenOverflow
    <2>1. /\ penq' = Append(penq, Dropped)
          /\ UNCHANGED <<touchVars, penVars, outVars, glass, named, touchq>>
      BY <1>6 DEF PenOverflow
    <2>2. stylus' \in [at : Place, touched : BOOLEAN]
      BY <1>0, <1>6 DEF PenOverflow
    <2>3. penq' \in Seq(FromPen)
      BY <1>0, <1>2, <2>1, AppendProperties
    <2> QED BY <1>0, <1>1, <2>1, <2>2, <2>3 DEF Environment
  <1> QED BY <1>3, <1>4, <1>5, <1>6 DEF EnvNext

LEMMA NextTyped == IInv /\ [Next]_vars => IInv'
  <1> SUFFICES ASSUME IInv, [Next]_vars PROVE IInv'
    OBVIOUS
  <1>0. TypeOK /\ PointerIsShown /\ Environment /\ ButtonInv'
    BY NextButton DEF IInv
  <1>1. FromTouch' = FromTouch /\ FromPen' = FromPen /\ Slot' = Slot
        /\ Contact' = Contact
    BY DEF FromTouch, FromPen, Slot, Report, Dropped, Field, Contact
  <1>2. ASSUME UNCHANGED <<touchVars, penVars, outVars>>
        PROVE  TypeOK' /\ PointerIsShown'
    BY <1>0, <1>1, <1>2 DEF TypeOK, PointerIsShown, touchVars, penVars, outVars
  <1>3. ASSUME UNCHANGED <<envVars, touchq, penq>> PROVE Environment'
    BY <1>0, <1>1, <1>3 DEF Environment, envVars
  <1>4. CASE TouchEvent
    BY <1>0, <1>4, TouchEventTyped DEF IInv
  <1>5. CASE PenEvent
    BY <1>0, <1>5, PenEventTyped DEF IInv
  <1>6. CASE KeyEvent
    <2>1. /\ Send(<<[kind |-> "key", at |-> Nowhere]>>)
          /\ UNCHANGED <<touchVars, penVars, envVars, touchq, penq>>
      BY <1>6 DEF KeyEvent
    <2>2. /\ pointer' \in Place \cup {Nowhere} /\ shown' \in Place \cup {Nowhere}
          /\ PointerIsShown' /\ refused' \in BOOLEAN
      BY <1>0, <2>1, InputAssumption, SendShows DEF TypeOK
    <2>3. TypeOK'
      BY <1>0, <1>1, <2>1, <2>2 DEF TypeOK, touchVars, penVars
    <2> QED BY <1>0, <1>3, <2>1, <2>2, <2>3 DEF IInv
  <1>7. CASE TouchDrained \/ TouchFails \/ KeysDrained \/ PenDrained
             \/ PenFails \/ PollAgain \/ Finalize
    <2>1. /\ UNCHANGED <<touchVars, penVars, outVars>>
          /\ UNCHANGED <<glass, named, stylus, touchq, penq>>
      BY <1>7 DEF TouchDrained, TouchFails, KeysDrained, PenDrained, PenFails,
                  PollAgain, Finalize, envVars
    <2>2. Environment'
      BY <1>0, <1>1, <2>1 DEF Environment
    <2> QED BY <1>0, <1>2, <2>1, <2>2 DEF IInv
  <1>8. CASE EnvNext
    BY <1>0, <1>2, <1>8, EnvTyped DEF IInv
  <1>9. CASE UNCHANGED vars
    BY <1>0, <1>2, <1>3, <1>9 DEF IInv, vars
  <1> QED BY <1>4, <1>5, <1>6, <1>7, <1>8, <1>9 DEF Next, ThreadNext

(* One button has at most one owner, finger or pen, and the stream shows   *)
(* it down exactly while it has one (input_touch_frame, input_process_pen);*)
(* a move that ring_buf_write refused is tried again (input_position).     *)
THEOREM OneMouse == Spec => []InputInv
  <1>1. IInv => InputInv
    BY DEF IInv, ButtonInv, InputInv
  <1> QED BY <1>1, InitTyped, NextTyped, PTL DEF Spec
=============================================================================
