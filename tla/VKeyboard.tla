------------------------------ MODULE VKeyboard ------------------------------
(***************************************************************************)
(* The on-screen Amiga keyboard: the Kotlin view VirtualKeyboardOverlay    *)
(* and nativeSetKey of the JNI bridge (android_vjoystick.cpp, in           *)
(* serial_stub.cpp).  While the emulator's GUI runs (gui_running) a key    *)
(* becomes an SDL key event or, when printable, SDL text; otherwise it     *)
(* goes to the emulated keyboard through inputdevice_do_keyboard.          *)
(*                                                                         *)
(* As in VJoystick, one dispatched MotionEvent is one atomic step of the   *)
(* UI thread, and the keyboard receives a pointer only when it consumed    *)
(* the pointer's DOWN.  The environment is the user's fingers, the         *)
(* emulator entering and leaving its GUI (gui_running is written by the    *)
(* SDL thread and read here without synchronisation), and the joystick     *)
(* overlay's cycleState, which makes the keyboard VISIBLE or GONE.         *)
(***************************************************************************)
EXTENDS Integers, Sequences, FiniteSets, FiniteSetsExt

CONSTANTS
    Pointers,         \* Android pointer ids
    Keys,             \* Amiga key codes present on the keyboard layout
    MaxEvents,        \* bound on undispatched input events
    GuiMayToggle,     \* the emulator may enter or leave its GUI
    KeyboardMayHide,  \* the overlay mode may change
    CancelPossible    \* the system may cancel the gesture

\* Amiga key codes used by name.
AK_SPC == \h40
AK_LSH == \h60
AK_RSH == \h61
AK_CTRL == \h63
AK_LALT == \h64
AK_RALT == \h65
AK_LAMI == \h66
AK_RAMI == \h67

\* The cases of amiga_to_sdl_key, by what sdl_key_to_char makes of them.
Letters == {\h20, \h35, \h33, \h22, \h12, \h23, \h24, \h25,
            \h17, \h26, \h27, \h28, \h37, \h36, \h18, \h19,
            \h10, \h13, \h21, \h14, \h16, \h34, \h11, \h32,
            \h15, \h31}
Digits == \h01..\h0A
Punctuation == {\h0B, \h0C, \h0D, \h1A, \h1B, \h29, \h2A,
                \h00, \h38, \h39, \h3A}
\* RET BS DEL ESC TAB, the arrows, the modifiers, F1-F10, F11, F12.
NonPrintable == {\h44, \h41, \h46, \h45, \h42,
                 \h4C, \h4D, \h4F, \h4E,
                 AK_LSH, AK_RSH, AK_CTRL, AK_LALT, AK_RALT, AK_LAMI, AK_RAMI,
                 \h4B, \h6F} \cup \h50..\h59
Mapped == Letters \cup Digits \cup Punctuation \cup {AK_SPC} \cup NonPrintable

\* SDL keycodes, one per mapped Amiga key.
SDLK(k) == <<"SDLK", k>>
SDLK_UNKNOWN == <<"SDLK", -1>>
amiga_to_sdl_key(k) == IF k \in Mapped THEN SDLK(k) ELSE SDLK_UNKNOWN
SDLK_LSHIFT == SDLK(AK_LSH)
SDLK_RSHIFT == SDLK(AK_RSH)

\* A character is the key it came from and whether it was shifted; 0 when
\* the key is not printable.  Space ignores shift.
NoChar == [key |-> -1, shifted |-> FALSE]
sdl_key_to_char(key, shift) ==
    CASE key[2] \in Letters \cup Digits \cup Punctuation ->
              [key |-> key[2], shifted |-> shift]
      [] key[2] = AK_SPC -> [key |-> AK_SPC, shifted |-> FALSE]
      [] OTHER -> NoChar

stickyKeys == {AK_LSH, AK_RSH, AK_CTRL, AK_LALT, AK_RALT, AK_LAMI, AK_RAMI}

NoPointer == -1
NoKey == -1
\* A finger is on a key, on the keyboard between keys (Board), or above
\* keyboardTop (Above, where the keyboard lets the touch pass through).
Board == -2
Above == -3
KPos == Keys \cup {Board, Above}
Lifted == -4

ASSUME Keys \subseteq Mapped \cup {\h5F} /\ Pointers \subseteq Nat

VARIABLES
    pressedKeys, activeStickyKeys, pointerToKey,   \* VirtualKeyboardOverlay
    keyboardVisible,                                \* set by AmiberryActivity
    s_shift_active,                                 \* JNI bridge
    amigaKeysDown,   \* keys held by the emulated keyboard
    sdlKeysDown,     \* SDL keys held as seen by the GUI
    gui_running,     \* the emulator shows its GUI
    fingers, owned, events                          \* environment

view == <<pressedKeys, activeStickyKeys, pointerToKey>>
native == <<s_shift_active, amigaKeysDown, sdlKeysDown>>
env == <<keyboardVisible, gui_running, fingers, owned, events>>
vars == <<view, native, env>>

Snap == [pressedKeys |-> pressedKeys, activeStickyKeys |-> activeStickyKeys,
         pointerToKey |-> pointerToKey, shift |-> s_shift_active,
         amiga |-> amigaKeysDown, sdl |-> sdlKeysDown]
Commit(s) ==
    /\ pressedKeys' = s.pressedKeys
    /\ activeStickyKeys' = s.activeStickyKeys
    /\ pointerToKey' = s.pointerToKey
    /\ s_shift_active' = s.shift
    /\ amigaKeysDown' = s.amiga
    /\ sdlKeysDown' = s.sdl

-----------------------------------------------------------------------------
(* nativeSetKey *)

push_sdl_key(s, key, p) ==
    [s EXCEPT !.sdl = IF p THEN @ \cup {key} ELSE @ \ {key}]

\* An SDL_TEXTINPUT event holds no key.
push_sdl_text_input(s, ch) == s

inputdevice_do_keyboard(s, code, state) ==
    [s EXCEPT !.amiga = IF state = 1 THEN @ \cup {code} ELSE @ \ {code}]

nativeSetKey(s, keyCode, p) ==
    IF gui_running
    THEN LET sdlKey == amiga_to_sdl_key(keyCode)
         IN CASE sdlKey = SDLK_UNKNOWN -> s
              [] sdlKey \in {SDLK_LSHIFT, SDLK_RSHIFT} ->
                   push_sdl_key([s EXCEPT !.shift = p], sdlKey, p)
              [] p /\ sdl_key_to_char(sdlKey, s.shift) # NoChar ->
                   push_sdl_text_input(s, sdl_key_to_char(sdlKey, s.shift))
              [] OTHER -> push_sdl_key(s, sdlKey, p)
    ELSE inputdevice_do_keyboard(s, keyCode, IF p THEN 1 ELSE 0)

-----------------------------------------------------------------------------
(* VirtualKeyboardOverlay *)

\* onKeyEvent only logs; nativeSetKey is always linked in the app.
sendKeyEvent(s, keyCode, p) == nativeSetKey(s, keyCode, p)

\* Sends key-up for each key of S, in any order (the order of a Kotlin
\* set's iteration does not change the result).
RECURSIVE SendReleases(_, _)
SendReleases(s, S) ==
    IF S = {} THEN s
    ELSE LET k == CHOOSE x \in S : TRUE
         IN SendReleases(sendKeyEvent(s, k, FALSE), S \ {k})

handleKeyPress(s, keyCode, pid) ==
    LET s1 == [s EXCEPT !.pointerToKey[pid] = keyCode]
    IN IF keyCode \in stickyKeys
       THEN IF keyCode \in s1.activeStickyKeys
            THEN sendKeyEvent([s1 EXCEPT !.activeStickyKeys = @ \ {keyCode}],
                              keyCode, FALSE)
            ELSE sendKeyEvent([s1 EXCEPT !.activeStickyKeys = @ \cup {keyCode}],
                              keyCode, TRUE)
       ELSE sendKeyEvent([s1 EXCEPT !.pressedKeys = @ \cup {keyCode}],
                         keyCode, TRUE)

\* Releasing a regular key also releases every active sticky key.
handleKeyRelease(s, keyCode, pid) ==
    LET s1 == [s EXCEPT !.pointerToKey[pid] = NoKey]
    IN IF keyCode \notin stickyKeys
       THEN SendReleases(
              [sendKeyEvent([s1 EXCEPT !.pressedKeys = @ \ {keyCode}],
                            keyCode, FALSE)
               EXCEPT !.activeStickyKeys = {}],
              s1.activeStickyKeys)
       ELSE s1

KeyAt(x) == IF x \in Keys THEN x ELSE NoKey

\* The return value of onTouchEvent for a DOWN: false above keyboardTop.
DownHandled(x) == x # Above

\* Mutant: the keyRect null check is dropped.
OnDownNoKeyCheck(s, pid, x) == handleKeyPress(s, x, pid)

OnDown(s, pid, x) ==
    IF x \in Keys THEN handleKeyPress(s, x, pid) ELSE s

\* ACTION_MOVE compares each pointer's key with the key under it; only the
\* moved pointer's key can differ.
OnMove(s, pid, x) ==
    LET cur == s.pointerToKey[pid]
        new == KeyAt(x)
        s1 == IF cur # NoKey THEN handleKeyRelease(s, cur, pid) ELSE s
    IN IF cur # new
       THEN IF new # NoKey THEN handleKeyPress(s1, new, pid) ELSE s1
       ELSE s

\* ACTION_UP, ACTION_POINTER_UP and ACTION_CANCEL, for the pointer at
\* actionIndex.
OnUp(s, pid) ==
    IF s.pointerToKey[pid] # NoKey
    THEN handleKeyRelease(s, s.pointerToKey[pid], pid)
    ELSE s

-----------------------------------------------------------------------------
(* Environment: fingers, the GUI, the overlay mode *)

OnScreen == {p \in Pointers : fingers[p] # Lifted}
Event(t, p, x) == [t |-> t, pid |-> p, x |-> x]

\* The keyboard view starts GONE (addVirtualKeyboardOverlay); a run in
\* which the mode never changes looks at it while it is VISIBLE.
Init ==
    /\ pressedKeys = {} /\ activeStickyKeys = {}
    /\ pointerToKey = [p \in Pointers |-> NoKey]
    /\ keyboardVisible = ~KeyboardMayHide
    /\ s_shift_active = FALSE /\ amigaKeysDown = {} /\ sdlKeysDown = {}
    /\ gui_running \in BOOLEAN
    /\ fingers = [p \in Pointers |-> Lifted] /\ owned = {} /\ events = <<>>

Input(e) ==
    /\ Len(events) < MaxEvents
    /\ events' = Append(events, e)
    /\ UNCHANGED <<view, native, keyboardVisible, gui_running, owned>>

FingerDown(p, x) ==
    /\ p \notin OnScreen
    /\ fingers' = [fingers EXCEPT ![p] = x]
    /\ Input(Event("down", p, x))

FingerMove(p, x) ==
    /\ p \in OnScreen /\ fingers[p] # x
    /\ fingers' = [fingers EXCEPT ![p] = x]
    /\ Input(Event("move", p, x))

FingerUp(p) ==
    /\ p \in OnScreen
    /\ fingers' = [fingers EXCEPT ![p] = Lifted]
    /\ Input(Event("up", p, Lifted))

\* The system cancels the gesture: one ACTION_CANCEL for all pointers.
SystemCancel ==
    /\ CancelPossible /\ OnScreen # {}
    /\ fingers' = [p \in Pointers |-> Lifted]
    /\ Input(Event("cancel", NoPointer, Lifted))

\* The emulator enters or leaves its GUI (F12, or closing the GUI).
GuiToggle ==
    /\ GuiMayToggle
    /\ gui_running' = ~gui_running
    /\ UNCHANGED <<view, native, keyboardVisible, fingers, owned, events>>

\* onStateChanged of the joystick overlay makes the keyboard VISIBLE in
\* keyboard mode and GONE otherwise; clearAllKeys is not called.
ModeChange ==
    /\ KeyboardMayHide
    /\ keyboardVisible' = ~keyboardVisible
    /\ UNCHANGED <<view, native, gui_running, fingers, owned, events>>

-----------------------------------------------------------------------------
(* Dispatch of the head of the queue on the UI thread *)

Dequeue == events' = Tail(events) /\ UNCHANGED <<keyboardVisible, gui_running, fingers>>

\* A DOWN reaches the keyboard only while it is VISIBLE; it keeps the
\* pointer when onTouchEvent returns true.
DispatchDown ==
    LET e == Head(events) IN
    /\ e.t = "down"
    /\ IF keyboardVisible
       THEN /\ Commit(OnDown(Snap, e.pid, e.x))
            /\ owned' = IF DownHandled(e.x) THEN owned \cup {e.pid} ELSE owned
       ELSE UNCHANGED <<view, native, owned>>
    /\ Dequeue

DispatchMove ==
    LET e == Head(events) IN
    /\ e.t = "move" /\ e.pid \in owned
    /\ Commit(OnMove(Snap, e.pid, e.x))
    /\ UNCHANGED owned
    /\ Dequeue

DispatchUp ==
    LET e == Head(events) IN
    /\ e.t = "up" /\ e.pid \in owned
    /\ Commit(OnUp(Snap, e.pid))
    /\ owned' = owned \ {e.pid}
    /\ Dequeue

\* ACTION_CANCEL names the pointer at actionIndex 0 only.
DispatchCancel ==
    LET e == Head(events) IN
    /\ e.t = "cancel" /\ owned # {}
    /\ Commit(OnUp(Snap, Min(owned)))
    /\ owned' = {}
    /\ Dequeue

DispatchElsewhere ==
    LET e == Head(events) IN
    /\ \/ e.t \in {"move", "up"} /\ e.pid \notin owned
       \/ e.t = "cancel" /\ owned = {}
    /\ UNCHANGED <<view, native, owned>>
    /\ Dequeue

Dispatch ==
    /\ events # <<>>
    /\ \/ DispatchDown \/ DispatchMove \/ DispatchUp
       \/ DispatchCancel \/ DispatchElsewhere

Next ==
    \/ \E p \in Pointers, x \in KPos : FingerDown(p, x) \/ FingerMove(p, x)
    \/ \E p \in Pointers : FingerUp(p)
    \/ SystemCancel \/ GuiToggle \/ ModeChange
    \/ Dispatch

\* The Looper takes every queued event; Dispatch is enabled exactly when
\* the queue is not empty and is the only action that shortens it, so
\* weak fairness of taking the head is weak fairness of Dispatch.
TakeHead == events # <<>> /\ events' = Tail(events)

Spec == Init /\ [][Next]_vars /\ WF_events(TakeHead)

-----------------------------------------------------------------------------
(* Properties *)

\* The view's maps and the native key sets hold only key codes of the
\* board: handleKeyPress is never reached for a touch between keys.
TypeOK ==
    /\ pressedKeys \subseteq Keys /\ activeStickyKeys \subseteq Keys \cap stickyKeys
    /\ pointerToKey \in [Pointers -> Keys \cup {NoKey}]
    /\ s_shift_active \in BOOLEAN /\ amigaKeysDown \subseteq Keys
    /\ sdlKeysDown \subseteq {SDLK(k) : k \in Keys}
    /\ fingers \in [Pointers -> KPos \cup {Lifted}] /\ owned \subseteq Pointers
    /\ Len(events) <= MaxEvents

HeldAt(k) == k \in amigaKeysDown \/ SDLK(k) \in sdlKeysDown
\* A key the keyboard shows as down: toggled sticky, or under a finger.
Shown(k) ==
    \/ k \in activeStickyKeys
    \/ \E p \in OnScreen \cap owned : pointerToKey[p] = k

\* Once the queued touches are handled, the emulator and the GUI hold no
\* key that the keyboard does not show as down (handleKeyRelease,
\* OnMove's release-then-press, nativeSetKey's two destinations).
NoGhostKey ==
    events = <<>> => \A k \in Keys : HeldAt(k) => Shown(k)

\* When the mode change has hidden the keyboard and no finger is down,
\* neither the emulator nor the GUI holds a key from it.
HiddenKeyboardHoldsNothing ==
    ~keyboardVisible /\ events = <<>> /\ OnScreen = {} =>
        \A k \in Keys : ~HeldAt(k)

=============================================================================
