------------------------------ MODULE VJoystick ------------------------------
(***************************************************************************)
(* The virtual joystick: the Kotlin view VirtualJoystickOverlay            *)
(* (LauncherActivity.kt), the AmiberryActivity callback that shows the     *)
(* keyboard, and the JNI bridge it calls (android_vjoystick.cpp, kept in   *)
(* serial_stub.cpp), which drives the emulator's virtual joystick device   *)
(* and pushes SDL key events for GUI navigation.                           *)
(*                                                                         *)
(* Every JNI call runs on the UI thread inside onTouchEvent, so one        *)
(* dispatched MotionEvent is one atomic step.  The bridge functions are    *)
(* written as operators from a snapshot record of the whole state to the   *)
(* next one, so that a handler is their sequential composition, in the     *)
(* order of the code.  The user's fingers and the window's input queue are *)
(* the environment; the view hierarchy routes a pointer to the overlay     *)
(* only when the overlay consumed its DOWN (split touch dispatch).         *)
(***************************************************************************)
EXTENDS Integers, Sequences, FiniteSets, FiniteSetsExt

CONSTANTS
    Pointers,        \* Android pointer ids (small naturals)
    Pos,             \* finger positions: [region, dir] (see below)
    MaxEvents,       \* bound on undispatched input events
    MIN_SCALE, MAX_SCALE, SCALE_STEP, DEFAULT_SCALE, \* in tenths
    CancelPossible   \* whether the system may cancel the gesture

NoPointer == -1
\* A finger off the screen, compared with positions.
Lifted == [region |-> "lifted", dir |-> [k \in {"up", "down", "left", "right"} |-> FALSE]]

\* Overlay states of the Kotlin view (companion object).
STATE_OFF == 0
STATE_JOYSTICK == 1
STATE_KEYBOARD == 2

\* enum AndroidOverlayState of android_vjoystick.h.
OVERLAY_OFF == 0
OVERLAY_MOUSE == 1
OVERLAY_JOYSTICK == 2
OVERLAY_KEYBOARD == 3

Regions == {"toggle", "plus", "minus", "f12", "dpad", "a", "b", "none"}
DpadKeys == {"up", "down", "left", "right"}
Controls == {"dpad", "a", "b"}
\* The six latches: dpadUp..dpadRight and buttonA/BPressed in Kotlin,
\* s_dpad_* and s_button_a/b in the bridge.
Latches == DpadKeys \cup {"a", "b"}
SDLK == [up |-> "SDLK_UP", down |-> "SDLK_DOWN", left |-> "SDLK_LEFT",
         right |-> "SDLK_RIGHT", a |-> "SDLK_RETURN", b |-> "SDLK_ESCAPE"]
ButtonIndex == [a |-> 0, b |-> 1]

\* A D-pad reading of updateDpadState: inside the dead zone nothing, else
\* the 8-way sectors (two overlapping sectors give a diagonal).
Dir(S) == [k \in DpadKeys |-> k \in S]
NoDir == Dir({})
Readings == {Dir(S) : S \in {{}, {"up"}, {"down"}, {"left"}, {"right"},
             {"up", "left"}, {"up", "right"}, {"down", "left"}, {"down", "right"}}}
\* A position is the control under the finger and the reading
\* updateDpadState would compute for it; the geometry is left to Pos.
Position == [region : Regions, dir : Readings]

ASSUME Pos \subseteq Position /\ Pointers \subseteq Nat /\ MaxEvents \in Nat

VARIABLES
    overlayState, pressed, pointerId, scaleFactor,  \* VirtualJoystickOverlay
    keyboardVisible,                                \* AmiberryActivity
    s_overlay_state, s_latch, s_virtual_joystick_device_id, \* JNI bridge
    joyAxis, joyButton,      \* what the emulator's virtual joystick holds
    sdlKeysDown,             \* keys held as seen by the SDL event consumer
    fingers, owned, events, deviceRegistered        \* environment

view == <<overlayState, pressed, pointerId, scaleFactor, keyboardVisible>>
bridge == <<s_overlay_state, s_latch, s_virtual_joystick_device_id,
            joyAxis, joyButton, sdlKeysDown>>
vars == <<view, bridge, fingers, owned, events, deviceRegistered>>

\* The state a handler reads and the commit of the state it computes.
Snap == [overlayState |-> overlayState, pressed |-> pressed,
         pointerId |-> pointerId, scaleFactor |-> scaleFactor,
         keyboardVisible |-> keyboardVisible,
         s_overlay_state |-> s_overlay_state, s_latch |-> s_latch,
         dev |-> s_virtual_joystick_device_id,
         joyAxis |-> joyAxis, joyButton |-> joyButton, sdl |-> sdlKeysDown]
Commit(s) ==
    /\ overlayState' = s.overlayState
    /\ pressed' = s.pressed
    /\ pointerId' = s.pointerId
    /\ scaleFactor' = s.scaleFactor
    /\ keyboardVisible' = s.keyboardVisible
    /\ s_overlay_state' = s.s_overlay_state
    /\ s_latch' = s.s_latch
    /\ s_virtual_joystick_device_id' = s.dev
    /\ joyAxis' = s.joyAxis
    /\ joyButton' = s.joyButton
    /\ sdlKeysDown' = s.sdl

-----------------------------------------------------------------------------
(* JNI bridge *)

\* The emulator registers the virtual joystick (joystick_id -1000) at
\* slot 0 of di_joystick; before that the search finds nothing.
android_vjoystick_get_device_index == IF deviceRegistered THEN 0 ELSE -1

\* The device index is looked up once and cached.
CachedDevice(s) ==
    IF s.dev < 0 THEN [s EXCEPT !.dev = android_vjoystick_get_device_index]
                 ELSE s

\* value * 32767 is kept as its sign: setjoystickstate records a direction.
android_vjoystick_set_axis(s, axis, value) ==
    LET r == CachedDevice(s)
    IN IF r.dev < 0 THEN r ELSE [r EXCEPT !.joyAxis[axis] = value]

android_vjoystick_set_button(s, button, p) ==
    LET r == CachedDevice(s)
    IN IF r.dev < 0 THEN r ELSE [r EXCEPT !.joyButton[button] = p]

push_sdl_key(s, key, p) ==
    [s EXCEPT !.sdl = IF p THEN @ \cup {key} ELSE @ \ {key}]

\* if (v != s_x) { s_x = v; push_sdl_key(KEY, v); }
Latch(s, l, v) ==
    IF v # s.s_latch[l]
    THEN push_sdl_key([s EXCEPT !.s_latch[l] = v], SDLK[l], v)
    ELSE s

Horiz(d) == IF d["left"] /\ ~d["right"] THEN -1
            ELSE IF d["right"] /\ ~d["left"] THEN 1 ELSE 0
Vert(d) == IF d["up"] /\ ~d["down"] THEN -1
           ELSE IF d["down"] /\ ~d["up"] THEN 1 ELSE 0

nativeSetJoystick(s, d) ==
    LET s1 == android_vjoystick_set_axis(
                android_vjoystick_set_axis(s, 0, Horiz(d)), 1, Vert(d))
    IN Latch(Latch(Latch(Latch(s1, "up", d["up"]), "down", d["down"]),
                   "left", d["left"]), "right", d["right"])

nativeSetButton(s, button, p) ==
    LET l == IF button = 0 THEN "a" ELSE "b"
    IN IF p # s.s_latch[l]
       THEN Latch(android_vjoystick_set_button(s, button, p), l, p)
       ELSE s

\* The GUI key releases of the clear block: every latch set is reset and
\* its key-up pushed.
ReleaseLatches(s) ==
    [s EXCEPT !.s_latch = [l \in Latches |-> FALSE],
              !.sdl = @ \ {SDLK[l] : l \in {x \in Latches : s.s_latch[x]}}]

\* The Kotlin state is cast to the native enum unchanged.
nativeSetOverlayState(s, state) ==
    LET s1 == [s EXCEPT !.s_overlay_state = state]
    IN IF state # OVERLAY_JOYSTICK /\ s.s_overlay_state = OVERLAY_JOYSTICK
       THEN ReleaseLatches(
              android_vjoystick_set_button(android_vjoystick_set_button(
                android_vjoystick_set_axis(android_vjoystick_set_axis(
                  s1, 0, 0), 1, 0), 0, FALSE), 1, FALSE))
       ELSE s1

android_vjoystick_is_active == s_overlay_state = OVERLAY_JOYSTICK

-----------------------------------------------------------------------------
(* VirtualJoystickOverlay (Kotlin) *)

DpadOf(s) == [k \in DpadKeys |-> s.pressed[k]]
WithDpad(s, d) ==
    [s EXCEPT !.pressed = [l \in Latches |->
                             IF l \in DpadKeys THEN d[l] ELSE s.pressed[l]]]

\* onJoystickChanged only logs.
updateDpadState(s, d) ==
    IF d # DpadOf(s) THEN nativeSetJoystick(WithDpad(s, d), d) ELSE s

clearDpadState(s) ==
    IF DpadOf(s) # NoDir THEN nativeSetJoystick(WithDpad(s, NoDir), NoDir)
                         ELSE s

\* setButtonAPressed / setButtonBPressed; onButtonChanged only logs.
setButtonPressed(s, l, p) ==
    IF s.pressed[l] # p
    THEN nativeSetButton([s EXCEPT !.pressed[l] = p], ButtonIndex[l], p)
    ELSE s

\* Mutant: the fall-through branch counts up instead of wrapping to OFF.
NextStateNoWrap(st) == CASE st = STATE_OFF -> STATE_JOYSTICK
                         [] OTHER          -> st + 1

NextState(st) == CASE st = STATE_OFF      -> STATE_JOYSTICK
                   [] st = STATE_JOYSTICK -> STATE_KEYBOARD
                   [] OTHER               -> STATE_OFF

\* The callback AmiberryActivity installs: the keyboard view is VISIBLE
\* exactly in STATE_KEYBOARD.
onStateChanged(s) ==
    [s EXCEPT !.keyboardVisible = (s.overlayState = STATE_KEYBOARD)]

\* Mutant: cycleState leaves the releases to nativeSetOverlayState.
cycleStateNativeClearOnly(s) ==
    LET st == NextState(s.overlayState)
    IN nativeSetOverlayState(onStateChanged([s EXCEPT !.overlayState = st]), st)

cycleState(s) ==
    LET st == NextState(s.overlayState)
        s1 == nativeSetOverlayState(
                onStateChanged([s EXCEPT !.overlayState = st]), st)
    IN IF st # STATE_JOYSTICK
       THEN [setButtonPressed(setButtonPressed(clearDpadState(s1),
                                               "a", FALSE), "b", FALSE)
             EXCEPT !.pointerId = [c \in Controls |-> NoPointer]]
       ELSE s1

\* saveScale writes the new scaleFactor to the preferences; the stored
\* value is always the current one and is not kept apart.
increaseScale(s) ==
    IF s.scaleFactor < MAX_SCALE
    THEN [s EXCEPT !.scaleFactor = Min({@ + SCALE_STEP, MAX_SCALE})]
    ELSE s

decreaseScale(s) ==
    IF s.scaleFactor > MIN_SCALE
    THEN [s EXCEPT !.scaleFactor = Max({@ - SCALE_STEP, MIN_SCALE})]
    ELSE s

\* The return value of onTouchEvent for ACTION_DOWN / ACTION_POINTER_DOWN.
DownHandled(s, e) ==
    \/ e.pos.region \in {"toggle", "plus", "minus", "f12"}
    \/ /\ s.overlayState = STATE_JOYSTICK
       /\ e.pos.region \in Controls
       /\ s.pointerId[e.pos.region] = NoPointer

\* onF12Pressed sends KEYCODE_F12 down and up at once: no key stays held.
OnDown(s, e) ==
    LET r == e.pos.region
    IN CASE r = "toggle" -> cycleState(s)
         [] r = "plus"   -> increaseScale(s)
         [] r = "minus"  -> decreaseScale(s)
         [] r = "dpad" /\ DownHandled(s, e) ->
              updateDpadState([s EXCEPT !.pointerId.dpad = e.pid], e.pos.dir)
         [] r \in {"a", "b"} /\ DownHandled(s, e) ->
              setButtonPressed([s EXCEPT !.pointerId[r] = e.pid], r, TRUE)
         [] OTHER -> s

\* ACTION_MOVE recomputes the D-pad from the D-pad pointer's position.
\* Only the moved pointer has a new position, so the call matters only
\* when that pointer is the D-pad pointer.
OnMove(s, e) ==
    IF e.pid = s.pointerId.dpad THEN updateDpadState(s, e.pos.dir) ELSE s

\* Fault variant: the UP branch forgets the D-pad clear.
ReleaseControlKeepsDpad(s, p, c) ==
    IF p = s.pointerId[c]
    THEN LET s1 == [s EXCEPT !.pointerId[c] = NoPointer]
         IN IF c = "dpad" THEN s1 ELSE setButtonPressed(s1, c, FALSE)
    ELSE s

ReleaseControl(s, p, c) ==
    IF p = s.pointerId[c]
    THEN LET s1 == [s EXCEPT !.pointerId[c] = NoPointer]
         IN IF c = "dpad" THEN clearDpadState(s1)
                          ELSE setButtonPressed(s1, c, FALSE)
    ELSE s

\* ACTION_UP, ACTION_POINTER_UP and ACTION_CANCEL, for the pointer at
\* actionIndex.
OnUp(s, p) ==
    ReleaseControl(ReleaseControl(ReleaseControl(s, p, "dpad"), p, "a"), p, "b")

-----------------------------------------------------------------------------
(* Environment: fingers, the input queue, and the emulator's device list *)

OnScreen == {p \in Pointers : fingers[p] # Lifted}
Event(t, p, x) == [type |-> t, pid |-> p, pos |-> x]

Init ==
    /\ overlayState = STATE_OFF
    /\ pressed = [l \in Latches |-> FALSE]
    /\ pointerId = [c \in Controls |-> NoPointer]
    \* prefs.getFloat(PREF_SCALE, DEFAULT_SCALE): a stored value is one that
    \* plus and minus reach from DEFAULT_SCALE, so the first start covers it.
    /\ scaleFactor = DEFAULT_SCALE
    /\ keyboardVisible = FALSE
    /\ s_overlay_state = OVERLAY_OFF
    /\ s_latch = [l \in Latches |-> FALSE]
    /\ s_virtual_joystick_device_id = -1
    /\ joyAxis = [a \in {0, 1} |-> 0]
    /\ joyButton = [b \in {0, 1} |-> FALSE]
    /\ sdlKeysDown = {}
    /\ fingers = [p \in Pointers |-> Lifted]
    /\ owned = {}
    /\ events = <<>>
    /\ deviceRegistered \in BOOLEAN

FingerDown(p, x) ==
    /\ fingers[p] = Lifted
    /\ Len(events) < MaxEvents
    /\ fingers' = [fingers EXCEPT ![p] = x]
    /\ events' = Append(events, Event("down", p, x))
    /\ UNCHANGED <<view, bridge, owned, deviceRegistered>>

FingerMove(p, x) ==
    /\ fingers[p] \notin {Lifted, x}
    /\ Len(events) < MaxEvents
    /\ fingers' = [fingers EXCEPT ![p] = x]
    /\ events' = Append(events, Event("move", p, x))
    /\ UNCHANGED <<view, bridge, owned, deviceRegistered>>

FingerUp(p) ==
    /\ fingers[p] # Lifted
    /\ Len(events) < MaxEvents
    /\ fingers' = [fingers EXCEPT ![p] = Lifted]
    /\ events' = Append(events, Event("up", p, fingers[p]))
    /\ UNCHANGED <<view, bridge, owned, deviceRegistered>>

\* The system takes the gesture away (a system-bar swipe, focus loss):
\* every finger is gone and one ACTION_CANCEL is queued.
SystemCancel ==
    /\ CancelPossible
    /\ OnScreen # {}
    /\ Len(events) < MaxEvents
    /\ fingers' = [p \in Pointers |-> Lifted]
    /\ events' = Append(events, Event("cancel", NoPointer, [region |-> "none", dir |-> NoDir]))
    /\ UNCHANGED <<view, bridge, owned, deviceRegistered>>

\* The emulator enumerates its joysticks, the virtual one included.
DeviceRegistered ==
    /\ ~deviceRegistered
    /\ deviceRegistered' = TRUE
    /\ UNCHANGED <<view, bridge, fingers, owned, events>>

-----------------------------------------------------------------------------
(* The UI thread dispatches the head of the input queue *)

Dequeue == events' = Tail(events)

\* Every new pointer is offered to the overlay, the topmost view; it owns
\* the pointer when onTouchEvent returns true, else the pointer goes to the
\* views below.
DispatchDown ==
    /\ events # <<>> /\ Head(events).type = "down"
    /\ LET e == Head(events)
       IN /\ Commit(OnDown(Snap, e))
          /\ owned' = IF DownHandled(Snap, e) THEN owned \cup {e.pid} ELSE owned
    /\ Dequeue
    /\ UNCHANGED <<fingers, deviceRegistered>>

DispatchMove ==
    /\ events # <<>> /\ Head(events).type = "move"
    /\ Head(events).pid \in owned
    /\ Commit(OnMove(Snap, Head(events)))
    /\ Dequeue
    /\ UNCHANGED <<fingers, owned, deviceRegistered>>

DispatchUp ==
    /\ events # <<>> /\ Head(events).type = "up"
    /\ Head(events).pid \in owned
    /\ Commit(OnUp(Snap, Head(events).pid))
    /\ owned' = owned \ {Head(events).pid}
    /\ Dequeue
    /\ UNCHANGED <<fingers, deviceRegistered>>

\* ACTION_CANCEL carries all the overlay's pointers; actionIndex is 0, the
\* pointer with the lowest id.
DispatchCancel ==
    /\ events # <<>> /\ Head(events).type = "cancel"
    /\ owned # {}
    /\ Commit(OnUp(Snap, Min(owned)))
    /\ owned' = {}
    /\ Dequeue
    /\ UNCHANGED <<fingers, deviceRegistered>>

\* A move, up or cancel of pointers the overlay does not own.
DispatchElsewhere ==
    /\ events # <<>>
    /\ \/ Head(events).type \in {"move", "up"} /\ Head(events).pid \notin owned
       \/ Head(events).type = "cancel" /\ owned = {}
    /\ Dequeue
    /\ UNCHANGED <<view, bridge, fingers, owned, deviceRegistered>>

Dispatch == DispatchDown \/ DispatchMove \/ DispatchUp \/ DispatchCancel
            \/ DispatchElsewhere

Next ==
    \/ \E p \in Pointers, x \in Pos : FingerDown(p, x) \/ FingerMove(p, x)
    \/ \E p \in Pointers : FingerUp(p)
    \/ SystemCancel
    \/ DeviceRegistered
    \/ Dispatch

\* The UI thread's Looper handles every queued input event; the user and
\* the emulator owe nothing.  Dispatch is enabled exactly when the queue
\* is not empty, and the steps of Next that take the head off the queue
\* are the Dispatch steps, so WF_vars(Dispatch) is weak fairness of taking
\* the head, which is how it is written here (its ENABLED is then
\* evaluated without computing a handler).
TakeHead == events # <<>> /\ events' = Tail(events)
Spec == Init /\ [][Next]_vars /\ WF_events(TakeHead)

-----------------------------------------------------------------------------
(* Properties *)

TypeOK ==
    /\ overlayState \in {STATE_OFF, STATE_JOYSTICK, STATE_KEYBOARD}
    /\ pressed \in [Latches -> BOOLEAN]
    /\ pointerId \in [Controls -> Pointers \cup {NoPointer}]
    /\ scaleFactor \in MIN_SCALE..MAX_SCALE
    /\ keyboardVisible \in BOOLEAN
    /\ s_overlay_state \in {OVERLAY_OFF, OVERLAY_MOUSE, OVERLAY_JOYSTICK, OVERLAY_KEYBOARD}
    /\ s_latch \in [Latches -> BOOLEAN]
    /\ s_virtual_joystick_device_id \in {-1, 0}
    /\ joyAxis \in [{0, 1} -> {-1, 0, 1}]
    /\ joyButton \in [{0, 1} -> BOOLEAN]
    /\ sdlKeysDown \subseteq {SDLK[l] : l \in Latches}
    /\ fingers \in [Pointers -> Pos \cup {Lifted}]
    /\ owned \subseteq Pointers
    /\ events \in Seq([type : {"down", "move", "up", "cancel"},
                       pid : Pointers \cup {NoPointer}, pos : Position])
    /\ deviceRegistered \in BOOLEAN

Ctrl(l) == IF l \in DpadKeys THEN "dpad" ELSE l
EmuHolds(l) ==
    CASE l = "a"     -> joyButton[0]
      [] l = "b"     -> joyButton[1]
      [] l = "up"    -> joyAxis[1] = -1
      [] l = "down"  -> joyAxis[1] = 1
      [] l = "left"  -> joyAxis[0] = -1
      [] l = "right" -> joyAxis[0] = 1

\* An input is held anywhere along the path: in the Kotlin view, in the
\* bridge's latch, as an SDL key down, or on the emulator's joystick.
Held(l) == pressed[l] \/ s_latch[l] \/ SDLK[l] \in sdlKeysDown \/ EmuHolds(l)

\* Once the UI thread has dispatched every input event, each direction or
\* fire held by the view, the bridge, SDL or the emulator is held by a
\* finger still on the screen: the tracked pointer of onTouchEvent is on
\* screen.  A release lost anywhere (the UP/CANCEL branch, the clears of
\* cycleState, the latch compare of nativeSetButton) leaves a ghost input.
HeldInputHasFinger ==
    events = <<>> =>
        \A l \in Latches : Held(l) => pointerId[Ctrl(l)] \in OnScreen

\* Joystick input exists only while the Kotlin overlay is in
\* STATE_JOYSTICK.  The native clear of nativeSetOverlayState never fires
\* when the view leaves joystick mode (the view's 1 is the native MOUSE),
\* so this rests on the clears that cycleState makes itself.
JoystickInputOnlyInJoystickMode ==
    (\E l \in Latches : Held(l)) => overlayState = STATE_JOYSTICK

=============================================================================
