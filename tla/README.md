# TLA+ models of amiberry-android

This directory holds TLA+ models of the Android port of Amiberry, the
`.cfg` files that check them with TLC, and `PROJECT.json`, which lists the
components, runs, mutants, hazards and the source lines each definition
models.

## 1. Inventory

### 1.1 JIT dual-mapping allocator — `android/app/src/main/jni/android_jit.cpp`

This is the subsystem `spec.md` is about. Android 10+ forbids pages that are
both writable and executable. The allocator maps one `memfd` twice: once
read/write, where the JIT writes code, and once read/execute, where the CPU
runs it.

* **State.**
  * `g_jit_allocations_by_rw`: a `std::map` from the rw address to a
    `JitAllocation {rw_ptr, rx_ptr, size, fd}`.
  * `g_jit_allocations_by_rx`: a `std::map` from the rx address to a
    *pointer into the by_rw node*.
  * `g_page_size` and `g_initialized`.
  * `g_jit_mutex`, which guards both maps.
  * The allocator's real state also includes the kernel's descriptor table
    and mapping set.
* **Operations.**
  * `android_jit_init` (idempotent) and `android_jit_shutdown` (frees
    everything).
  * `android_jit_alloc`. Its `memfd_create`, `ftruncate`, `mmap` RW and
    `mmap` RX run outside the mutex. Only the final store into the two maps
    is locked. It has three failure paths with rollback.
  * `android_jit_free`. The rw key is authoritative. A mismatched rx is
    logged and an unknown rw is a no-op.
  * `android_jit_rw_to_rx` and `android_jit_rx_to_rw`. Each first tries an
    exact key match, then scans for a containing range in key order.
  * `android_jit_flush_cache`: `__builtin___clear_cache`.
  * `android_jit_page_size`: an unlocked lazy probe.
* **What is hard.**
  * Several JIT/emulator threads call the allocator at once.
  * `g_initialized` and `g_page_size` are read without the lock.
  * Alloc's OS calls sit outside the lock, so shutdown and free can
    interleave with them.
  * Any OS call can fail midway.
  * The two indexes must stay in step, because `by_rx` holds raw pointers
    into `by_rw`.
  * The page round-up is done in `size_t` and wraps.
  * Interior-address translation has an exclusive upper bound.
  * The kernel reuses freed addresses.
* **Correctness.**
  * The registry describes exactly what is mapped.
  * Translations are sound, complete and invert each other.
  * No descriptor or mapping is leaked.
  * After shutdown nothing is left.
  * Every size > 0 that does not wrap is rounded to a length that covers it.
  * Written code is flushed before it is executed (a caller contract).

### 1.2 Input bridge (JNI) — `src/osdep/android/serial_stub.cpp` lines 117–557 (`android_vjoystick.cpp`)

* **State.**
  * `s_overlay_state`, an enum with `OFF=0, MOUSE=1, JOYSTICK=2,
    KEYBOARD=3`.
  * The D-pad and button latches `s_dpad_*` and `s_button_a/b`.
  * `s_virtual_joystick_device_id`, cached after the first successful
    lookup.
  * `s_shift_active`.
* **Operations.**
  * `nativeSetJoystick` sends axes to the emulator and pushes SDL key
    events when a latch changes.
  * `nativeSetButton` does the same for the buttons.
  * `nativeSetOverlayState` releases everything when leaving `JOYSTICK`.
  * `nativeSetKey` has two modes. With the GUI running it tracks shift,
    pushes text or key events and drops unknown keys. With the emulator
    running it calls `inputdevice_do_keyboard`.
  * `android_vjoystick_set_axis` and `android_vjoystick_set_button` drop
    the event when the device is not found.
* **Interaction.**
  * It is called over JNI from the two Kotlin overlays on the UI thread.
  * It produces SDL events and emulator input.
* **Correctness.**
  * Every press the emulator or the GUI sees is eventually released.
  * The native overlay state agrees with the Kotlin one.

### 1.3 VirtualJoystickOverlay — `LauncherActivity.kt` lines 365–954

* **State.**
  * `overlayState`, with Kotlin constants `OFF=0, JOYSTICK=1, KEYBOARD=2`.
  * The D-pad booleans and button booleans.
  * One tracked pointer id each for the D-pad, A and B.
  * `scaleFactor`, which is persisted.
* **Operations.**
  * `onTouchEvent` handles DOWN/POINTER_DOWN, MOVE and
    UP/POINTER_UP/CANCEL.
  * `cycleState` switches the mode and clears the controls when leaving
    joystick mode.
  * `increaseScale` and `decreaseScale`.
  * `setState`.
* **Hard parts.**
  * Multi-touch pointers.
  * CANCEL releases only the pointer at `actionIndex`.
  * The order of `nativeSetOverlayState` against the clears.

### 1.4 VirtualKeyboardOverlay — `VirtualKeyboardOverlay.kt`

* **State.**
  * `pressedKeys`, a set of keys.
  * `activeStickyKeys`, the modifiers that are toggled on.
  * `pointerToKey`.
* **Operations.**
  * Touch down, move between keys and up/cancel.
  * `handleKeyPress`, which toggles sticky keys.
  * `handleKeyRelease`, which also releases every sticky key after a
    regular key.
  * `clearAllKeys`.
* **Hard parts.**
  * Two pointers on one key.
  * Sliding onto and off sticky keys.
  * Hiding the view without clearing it (see 1.5).

### 1.5 AmiberryActivity — `unnamed/part_000`

This is the SDL activity. It creates both overlays. It wires
`onStateChanged` so that the keyboard is visible exactly in `STATE_KEYBOARD`.
It never calls `clearAllKeys`. The orientation layout is UI only.

### 1.6 LauncherActivity — `LauncherActivity.kt` lines 1–364

The first-run flow runs in this order:

1. A `MANAGE_EXTERNAL_STORAGE` permission dialog.
2. A check of the stored data path.
3. The welcome dialog.
4. The SAF folder picker, handled in `onActivityResult`.
5. The tree URI is resolved to a path and saved in SharedPreferences with
   `apply()`.
6. The native config file is written.
7. The subdirectories are created.
8. `AmiberryActivity` is launched.

A failure reopens the welcome dialog; a cancel or a denial exits.

### 1.7 File picker JNI — `serial_stub.cpp` lines 558–850 (`android_file_picker.cpp`)

* **State.** `init_jni_refs` lazily caches a class ref and four method IDs.
* **Hazard.** The class is cached before the method lookups. No failure
  path clears the exception it leaves pending. After a partial failure,
  the next JNI call aborts under CheckJNI. Without CheckJNI, later calls
  see the class, return true and use null method IDs.
* **Operations.** The folder picker, the file picker, the internal path and
  the external path. Each one checks for exceptions.

### 1.8 Stubs and build (not modelled)

* **Stateless stubs.** The serial, enet and FloppyBridge stubs, `shmem_serial`,
  `mp3decoder` and `specialmonitorfriendlynames` only return constants.
* **Build configuration.** CMake, Gradle and `android_sysconfig.h`.
* **Documentation.** `ANDROID_PORTING_PLAN.md`.

## 2. Plan

Modules are listed in the order they are written. The most important
behaviour comes first.

1. **`AndroidJit`** (done): the allocator with the OS it drives,
   and two caller threads.
2. **`JitRegistry` + refinement** (done; section 3). The abstract
   registry of spec 4.1–4.3 and 8, which `AndroidJit` is shown to implement.
3. **`JitCoherency`** (done; section 3). The allocator composed with a
   caller and the CPU caches, for `android_jit_flush_cache`. The caller is
   modelled from the spec, because the code generator is not in the
   repository.
4. **`VJoystick`** (done; section 3). It models the native JNI side
   (section 1.2) composed with the `VirtualJoystickOverlay` Kotlin view, the
   activity's keyboard-visibility callback and the window's split touch
   dispatch.
5. **`VKeyboard`** (done; section 3). It models the keyboard overlay
   composed with `nativeSetKey`, the GUI flag, and the activity's
   hide-on-mode-change.
6. **`AndroidFilePicker`** (done; section 3). It models `init_jni_refs`
   and its four callers, with JNI lookups and allocations that may fail.
7. **`Launcher`** (done; section 3). The first-run flow, with the
   permission, the picker, the three stores of the data path, process kills
   and the launcher's recreation.

## 3. Modules, runs and what they show

### `AndroidJit.tla` / `MC_AndroidJit.tla`

#### Variables

| TLA+ | code |
|---|---|
| `g_jit_allocations_by_rw`, `g_jit_allocations_by_rx`, `g_page_size`, `g_initialized` | the globals of lines 51–56. `by_rx` maps to the rw *key* of the node its pointer designates. |
| `fds`, `maps` | the kernel: open memfds with their length, and live mappings `[base, len, fd, prot]`. |
| `pc`, `loc` | the position of each thread inside `android_jit_alloc`, and its locals `size`, `alloc_size`, `fd`, `rw`, `rx`. |
| `seen` | the value of the two racy globals that each thread last synchronised with, that is, the values at its last mutex acquisition. |

An unlocked read returns either the current value or the value in `seen`.
This is how the data race is modelled as nondeterminism.

#### Actions

| Action | Models |
|---|---|
| `android_jit_init` | `android_jit_init` |
| `android_jit_shutdown` | `android_jit_shutdown` |
| `android_jit_page_size` | `android_jit_page_size` |
| `AllocEnter` | lines 104–118 |
| `AllocMemfd` | the call to `memfd_create` |
| `AllocFtruncate` | the call to `ftruncate` |
| `AllocMmapRw` | the RW `mmap` |
| `AllocMmapRx` | the RX `mmap` |
| `AllocStore` | the locked store |
| `android_jit_free(t, rw, rx)` | `android_jit_free`, for any pair of addresses including nullptr |

Each OS call may fail nondeterministically when `OsMayFail` is set.
`mmap` also fails with EINVAL for length 0, and with ENOMEM when no hole
fits. The two translations are read-only under the lock, so they are
operators. The properties evaluate them for every address in every
reachable state.

#### Bounds (MC_AndroidJit.cfg)

* **Threads.** Two threads, the least that produces every race.
* **Descriptors.** Three descriptors, so the table can run out.
* **Address space.** `PAGE = 2` and addresses 1..9: the null page, then four
  pages. That room is enough for two one-page allocations, or one two-page
  allocation, to be live at once.
* **Size width.** A 3-bit `size_t`.
* **Request sizes.** 0; 1, which rounds to one page; 3, which rounds to two
  pages; and 7, where `7 + 1` wraps to 0.
* **Symmetry.** Symmetry over the descriptor ids.

The run explores 57,453 distinct states.

#### Runs

* **`jit_safety`** (pass). It checks four invariants:
  * `TypeOK`.
  * `RegistryCoherent`: every record is two live mappings of its open
    memfd with the right protections and a page-multiple size, and
    `by_rx` is exactly the inverse index.
  * `TranslationSound`: for every address, each translation is nullptr or
    the same byte of the same memfd seen through the other view. It covers
    every byte of every registered range, and the round trip is the
    identity.
  * `NoLeak`: every open memfd and live mapping has exactly one owner,
    either a record or an in-flight alloc.

  Each invariant has a mutant that breaks it:

  | Mutant | Breaks |
  |---|---|
  | an unchecked `MAP_FAILED` | `TypeOK` |
  | a shutdown that forgets `by_rx.clear()` | `RegistryCoherent` |
  | an inclusive upper bound | `TranslationSound` |
  | an RX failure path without `munmap(rw)` | `NoLeak` |
* **`jit_refinement`** (pass, one caller thread). This run is on
  `MC_JitCoherency`, the allocator composed with its caller (see
  `JitCoherency` below). It checks two properties:
  * `RefinesJitRegistry` (see "Refinement" below);
  * `ExecutesWrittenCode`.

  The caller's steps leave the registry alone, so for the refinement they
  are stuttering steps. The refinement's mutant is a store that records the
  unrounded size.
* **`jit_shutdown_race`** (violation, two threads). `RefinesJitRegistry`
  fails in 7 steps.
  1. Thread t1 enters alloc and completes both mmaps.
  2. Another caller shuts down.
  3. t1 stores its record.

  The subsystem is now Uninitialized and holds a live allocation, a step
  the abstract registry cannot take. Spec 4.3 and 5 say this cannot happen.

`g_initialized` (line 113) and `g_page_size` (line 60) are read without
the lock. The model lets such a read see any value the build can produce
(`RacyInit`, `RacyPageSize`). With two threads, t1 initialises, and t2
can then read `g_initialized = true` but a stale `g_page_size = 0`. It
rounds size 1 to 0, and its `mmap` fails. With one thread the reads are
ordered and the rounding cannot fail. No run states the rounding property,
and the race is listed as a hazard.

#### Refinement: `JitRegistry.tla`

`JitRegistry` states what the subsystem promises, taken from spec 4.1–4.3
and 8, with no threads and no OS. Its variables are a set `open` of
allocations `[rw, rx, size]` and a `lifecycle`.

| Action | Meaning |
|---|---|
| `JitInit` | the lifecycle becomes Initialized |
| `Allocate` | adds a page-multiple pair of ranges, disjoint from each other and from every open range |
| `Free` | removes one allocation |
| `Shutdown` | empties `open` and returns to Uninitialized |

`AndroidJit` maps onto it as follows:
* `AbsOpen` is the set of records in `g_jit_allocations_by_rw`.
* `AbsLifecycle` is `g_initialized`.

`AllocStore` is `Allocate`. `android_jit_free` of a known pointer is
`Free`. `android_jit_shutdown` is `Shutdown`. Every other step stutters:
the OS calls, failures, and frees of unknown pointers.
`RefinesJitRegistry == Registry!Spec` is checked as a temporal property.

#### Not modelled here

* **`android_jit_flush_cache`.** It changes only the CPU caches.
  `JitCoherency` models it.
* **Logging.**
* **The `size` argument of free.** The code ignores it.
* **The EINVAL early return for null output pointers.** Callers pass the
  addresses of locals, and the return changes no state.

### `JitCoherency.tla` / `MC_JitCoherency.tla`

This module extends `AndroidJit` with what `android_jit_flush_cache`
(lines 275–280) acts on: the CPU caches, and a caller that writes code and
runs it.

#### Variables

Memory is addressed physically, as a byte of a memfd, `<<fd, offset>>`.
Both views of an allocation name the same bytes.
* `mem`: the content at the point of unification. A new memfd reads 0.
* `dcache`: the dirty data-cache lines. A store through the RW view lands
  here.
* `icache`: the instruction cache, which instruction fetches read.
* `call`: each thread's instruction in flight, in one of three phases:
  none, written or flushed.

A cache line is one byte. That is the finest granularity that `dc cvau`
and `ic ivau` allow, so no range error is hidden by line rounding.

#### Actions

| Action | Meaning |
|---|---|
| `JitStep(t)` | any allocator call of `AndroidJit` (`ThreadNext`), only while t has no instruction in flight; the bytes of a closed memfd leave all three stores, and a new one reads 0 |
| `CallerWrite(t)` | stores an instruction of `InsnLen` bytes at some offset of an allocation through its RW view |
| `CallerFlush(t)` | `android_jit_flush_cache(android_jit_rw_to_rx(rw), InsnLen)`: `__builtin___clear_cache(start, start + size)` cleans the dirty lines of the range to `mem` and drops the range from `icache` |
| `CallerExecute(t)` | the jump to the RX address; the fetched bytes fill `icache` |
| `WriteBack` | the hardware writes a dirty line back at any moment |
| `Prefetch` | the instruction cache fills speculatively from any byte mapped RX |

The three caller actions are spec-modelled (spec 4.3 and the scenario of
spec 8).

#### Property

`ExecutesWrittenCode`: once an instruction has been written and flushed,
every byte fetched at its RX address is the byte written. Two things break
it:
* a flush whose end is `start + size - 1` (the mutant). It leaves the
  last byte dirty in the data cache or stale in the instruction cache;
* a caller that skips the flush, which TLC breaks within a few steps.
  This is the caller contract that the allocator cannot enforce.

#### Bounds

The bounds are those of `MC_AndroidJit`, with one thread:
* `Code = {1}`;
* `InsnLen = 2`, which is a whole page of the model.

The run explores 152,926 distinct states in about a minute. Two code values
(rewriting code in place) would multiply the state space, and the flush
does not depend on the values.

### `VJoystick.tla` / `MC_VJoystick.tla`

The joystick overlay (Kotlin) and the native bridge it calls, in one module.
Each handler is an operator from a record `Snap` of all the view and bridge
variables to a new record; `Commit` assigns it. A handler that calls into
the bridge therefore runs its whole body, native calls included, in one step,
as the UI thread does.

#### Variables

* **View** (`LauncherActivity.kt`):
  * `overlayState`;
  * `pressed`, the D-pad and button flags;
  * `pointerId`, the pointer holding each control;
  * `scaleFactor`;
  * `keyboardVisible`, written by the activity's `onStateChanged`.
* **Bridge** (`serial_stub.cpp` 149–160, 507–555):
  * `s_overlay_state` and `s_latch`, the D-pad and button latches;
  * `s_virtual_joystick_device_id`, the cached device index;
  * `joyAxis` and `joyButton`, what the emulator's virtual joystick holds;
  * `sdlKeysDown`, the SDL keys held for GUI navigation.
* **Environment**:
  * `fingers`: the position of each pointer, or lifted;
  * `owned`: the pointers whose DOWN the overlay consumed;
  * `events`: the queue of undelivered MotionEvents;
  * `deviceRegistered`: the emulator has created its virtual joystick.

A position is the control under it and, on the D-pad, the direction reading
that `updateDpadState` computes there (the dead zone gives `NoDir`).

#### Actions

* **The user** (`FingerDown`, `FingerMove`, `FingerUp`, `SystemCancel`)
  appends events; the queue is bounded by `MaxEvents`.
* **The emulator** registers the virtual joystick (`DeviceRegistered`).
* **The UI thread** takes the head of the queue (`Dispatch`):
  * `DispatchDown` runs `OnDown`. That is `cycleState`, `increaseScale`,
    `decreaseScale`, the D-pad, or fire A or B, depending on the region.
    The overlay keeps the pointer only when the DOWN returned true.
  * `DispatchMove` runs `OnMove` for an owned pointer.
  * `DispatchUp` runs `OnUp` for an owned pointer.
  * `DispatchCancel` runs `OnUp` for the pointer at actionIndex 0, as
    `onTouchEvent` does for `ACTION_CANCEL`.
  * Everything else goes to the SDL surface (`DispatchElsewhere`).

#### Bounds

* **Two pointers and seven positions** in `MC_VJoystick.cfg`:
  * the toggle;
  * the D-pad centre, up, and up-left;
  * fire A;
  * fire B;
  * empty screen.

  This gives two fingers on one control, a slide between directions, and a
  toggle while the other finger holds input.
* **`MaxEvents = 2`** lets a second event queue behind an undelivered one.
* **`CancelPossible`**: false in `MC_VJoystick.cfg`, true in
  `MC_VJoystick_mode.cfg` and `MC_VJoystick_cancel.cfg`.
* Plus, minus and F12 are left out of the positions. They change only the
  scale, or send one SDL key down and up at once, and hold nothing.

#### Runs

* **`vjoy_two_fingers`** (pass, 332,427 states, no cancels):
  * `TypeOK`;
  * `HeldInputHasFinger`: once the queue is empty, every input held at
    the emulator or in SDL has a finger on its control. Once the fingers
    lift, nothing is held.
* **`vjoy_mode_cycle`** (pass, 1,304,651 states, with cancels):
  `JoystickInputOnlyInJoystickMode`. No input is held outside joystick
  mode, even when a cancel left a control held, and even though the native
  release block fires on the wrong transition. `cycleState` releases every
  control when it leaves joystick mode. The mutant is a `cycleState` that
  clears only the native latches.
* **`vjoy_cancel`** (violation):
  1. One finger is on the toggle and another on fire A.
  2. A system cancel releases only the first pointer.
  3. A stays held with no finger down.

`nativeSetOverlayState` casts the Kotlin state to a native enum with a
different numbering, so `android_vjoystick_is_active` is false in joystick
mode. Nothing in the repository calls it or `android_overlay_get_state`, and
the release block the cast misroutes finds nothing held, because
`cycleState` has already released every control. No run checks the getter.
The hazard list records the mismatch, covered by
`JoystickInputOnlyInJoystickMode`.

### `VKeyboard.tla` / `MC_VKeyboard.tla`

The keyboard overlay (`VirtualKeyboardOverlay.kt`) composed with
`nativeSetKey` (`serial_stub.cpp` 281–467). It is written in the same style
as `VJoystick`.

#### Variables

* **View** (lines 214–217):
  * `pressedKeys`;
  * `activeStickyKeys`;
  * `pointerToKey`, where `NoKey` means no mapping.
* **Bridge**: `s_shift_active`.
* **Outcomes**:
  * `amigaKeysDown`, the keys `inputdevice_do_keyboard` holds down;
  * `sdlKeysDown`, the SDL keys held in the GUI.
* **Environment**:
  * `gui_running`, written by the SDL thread;
  * `keyboardVisible`;
  * `fingers`, `owned` and `events`, as in VJoystick.

#### Operators

* **`amiga_to_sdl_key`** keeps the switch's cases as sets of AK codes:
  `Letters`, `Digits`, `Punctuation`, space, and `NonPrintable`. Any other
  code gives `SDLK_UNKNOWN`, as HELP does.
* **`sdl_key_to_char`** returns a character: the key and whether it is
  shifted. Space ignores shift, and a non-printable key gives `NoChar` (the
  C code's 0).
* **`nativeSetKey`** follows the code's branches in order:
  1. An unknown key is dropped.
  2. A shift key updates `s_shift_active` and sends an SDL key.
  3. A printable press sends SDL text, which holds no key.
  4. Any other key sends an SDL key event.
  5. When the GUI is not running, the key goes to the emulated keyboard.
* **The view's handlers**:
  * `handleKeyPress` toggles sticky keys.
  * `handleKeyRelease` releases every active sticky key after a regular
    key.
  * `OnMove` releases the old key, then presses the new one.
  * `OnDown` passes a touch above `keyboardTop` through.
* **Environment steps**:
  * `GuiToggle` is the emulator entering or leaving its GUI.
  * `ModeChange` is `onStateChanged` making the view VISIBLE or GONE.
    `clearAllKeys` has no caller, and a GONE view keeps its owned pointers'
    events.

#### Bounds

* **Four keys**, one of each kind the bridge treats differently:
  * A, a letter;
  * cursor up, an SDL key;
  * left shift, sticky and tracked by `s_shift_active`;
  * HELP, which has no SDL code.
* **Two pointers** in every run.
* **`MaxEvents = 1`** in `kbd_safety`. The GUI switches, the mode changes
  and the cancels are all enabled, and a second queued event would
  multiply the state space beyond a few minutes.

#### Runs

* **`kbd_safety`** (pass, 7,964,928 states, about 100 s). This run has
  every environment step: GUI switches, mode changes and cancels. It checks
  `TypeOK`: a touch between keys or above `keyboardTop` never becomes a key
  code in the view, the emulator or SDL. The mutant is an `OnDown` that
  presses whatever is under the finger.
* **`kbd_gui_switch`** (violation, `GuiMayToggle = TRUE`, no hiding and no
  cancels). It checks `NoGhostKey`: once the queue is empty, every key held
  by the emulator or SDL is shown as down (a sticky key toggled on, or a
  finger on the key). `nativeSetKey` routes each event by `gui_running` at
  the time of the call, and TLC breaks `NoGhostKey`:
  1. A key is pressed in emulation.
  2. The GUI opens.
  3. The release goes to SDL.
  4. The emulated keyboard keeps the key held.
* **`kbd_hidden_sticky`** (violation): a shift is toggled on, and the mode
  changes. The hidden keyboard keeps shift held in the emulator
  (`HiddenKeyboardHoldsNothing`).

Two fingers on one key share one entry of the `pressedKeys` set. When one
of them slides off, the emulator sees the key released while the other
finger still holds it. That is a lost press, not a ghost key, so
`NoGhostKey` holds through it, and no run claims it cannot happen.

The same switch leaves `s_shift_active` stale: shift is toggled in
emulation, then the GUI opens. That is listed as a hazard. A two-finger
system cancel leaves a key held exactly as `vjoy_cancel` shows for the
joystick, because the keyboard's `ACTION_CANCEL` branch (line 333) has
the same shape. That is also a hazard. `kbd_gui_switch` leaves cancels
out, so that its counterexample is the GUI switch.

#### Not modelled here

* Key geometry and drawing.
* The `onKeyEvent` logging callback.
* The `UnsatisfiedLinkError` catch. `nativeSetKey` is linked in the app.
* The character pushed as text. No property reads typed text, and its case
  is decided by `s_shift_active`, modelled as the flag itself.
* The keyboard view is added after the joystick overlay, so it is on top.
  It passes DOWNs above `keyboardTop` through, which is what reaches the
  overlay's toggle.

### `AndroidFilePicker.tla` / `MC_AndroidFilePicker.tla`

The file picker JNI (`serial_stub.cpp` 578–848): the lazily filled cache of
`init_jni_refs` and the four functions that call through it. The callers
run on the SDL thread. That thread entered native code once and never
returns to Java while the GUI runs, so a local reference lives until
`DeleteLocalRef`, and an exception stays pending until something clears it.
One step of the model is one JNI call.

#### Variables

* `sSDLActivityClass` and `methodIds`: the cache (lines 579–583), each one
  non-null or not.
* `pc`, `fn` and `k`: where the calling thread is, which API function it
  runs, and which lookup or argument string it is at.
* `localRefs`: the live local references (`localClass`, `jTitle`,
  `jMimeTypes`, `jResult`).
* `pending`: an exception is pending on the thread.
* `aborted`: why the process aborted (`pending_exception` or
  `null_method`), or `"none"`.

#### Actions

* `Call(f)` enters an API function.
* `InitCheck`, `FindClass`, `GlobalRef` and `Lookup` are `init_jni_refs`:
  the cached-class test, the class lookup, the global reference and the four
  `GetStaticMethodID` calls, each with its early return.
* `NewString` and `CheckStrings` create the argument strings.
  `android_select_folder` returns at once on a NULL string.
  `android_select_file` creates both strings, then deletes the non-null
  ones.
* `CallJava` is `CallStaticObjectMethod` followed by the deletion of the
  arguments.
* `ExceptionCheck` clears the exception and returns.
* `Convert` is `jstring_to_string`.
* `Release` deletes the result.
* `Restart` is Android starting the process again after an abort.
* `JniCall(A)` wraps every JNI call except `DeleteLocalRef` and the
  `Exception*` functions. Made with an exception pending, the call aborts,
  as CheckJNI does; this is the build's behaviour for what JNI leaves
  undefined.

The environment chooses what can fail:
* `FindClassMayFail` and `OomPossible`: FindClass may fail, and
  `NewStringUTF` and `GetStringUTFChars` may return NULL with
  OutOfMemoryError pending.
* `Present`: the set of methods the deployed `SDLActivity` defines.
  None of the four is defined in this repository's Java sources.
* The Java method returns a string, returns null or throws.

#### Runs

* **`fp_safety`** (pass, 108 states). All methods are present, FindClass
  may fail, and every allocation may run out of memory.
  It checks `NoLocalRefLeak`: every function returns having deleted every
  local reference it made, on each early-return path. The mutant is a
  string check that returns without deleting the strings.

  Aborts do happen in this run, as the hazard list records: a leaked
  exception from a failure makes the next call abort.
* **`fp_missing_method`** (violation). `showFilePicker` is missing, and
  nothing else fails.
  1. The first call fails in `init_jni_refs`, with NoSuchMethodError
     pending and the class already cached.
  2. It returns `""`, as a cancel would.
  3. The next call's `NewStringUTF` is made with the exception pending, and
     the process aborts (`NoJniAbort`).

  The same run with `FindClassMayFail` aborts in six steps. With
  `OomPossible`, a failed `jTitle` makes `android_select_file`'s second
  `NewStringUTF` abort.

#### Not modelled here

* `SDL_AndroidGetJNIEnv` is taken to succeed.
* `android_has_storage_access` (an `fopen`) and
  `android_request_persistent_access` (a log line) change no state.
* Two threads calling the picker at once. Only the GUI on the SDL thread
  calls it.

### `Launcher.tla` / `MC_Launcher.tla`

This module models `LauncherActivity`'s first-run flow (lines 37–363).

#### Variables

* `ui`: the screen in front. It is one of: none, the permission dialog, the
  settings screen, the welcome dialog, the picker, between
  `launchAmiberry()` and the launcher's pause, or AmiberryActivity.
* `alive`: whether the process exists.
* `granted`: whether `MANAGE_EXTERNAL_STORAGE` is granted.
* `dirs`: the folders that exist.
* The data path has three stores:
  * `prefsMem`: the process's SharedPreferences.
  * `prefsDisk`: the preferences file. `apply()` writes it in the
    background, and `applyPending` records that a write has not landed yet.
  * `nativeCfg`: `user_data_path.txt`. `ensureNativeConfig` writes it
    synchronously.

#### Actions

Each action models a whole code path:

| Action | Code |
|---|---|
| `onCreate` | `onCreate` with `hasValidUserDataPath`, `ensureNativeConfig` and `launchAmiberry`/`showWelcomeDialog` |
| `PermissionDialog` | the two buttons of `requestManageStoragePermission` |
| `SettingsResult` | `onActivityResult(REQUEST_CODE_MANAGE_STORAGE)` |
| `SelectFolder` | the welcome dialog's button and `launchFolderPicker`, including its failure |
| `PickerResult` | `onActivityResult(REQUEST_CODE_SELECT_DATA_FOLDER)` and `handleFolderSelection` |
| `LauncherPaused` | `launchAmiberry`'s `startActivity` and `finish()`: AmiberryActivity comes to the front. Pending `apply()` writes are awaited only at the launcher's `onStop`, after AmiberryActivity resumed, so this step leaves the files alone and a kill can still lose the write |

`getPathFromTreeUri` becomes a choice of a folder or null. The framework and
the environment take these steps:
* `ApplyWrite`: the background write lands.
* `Kill`: at any time. A pending write is lost, and the settings screen or
  the picker stays in front.
* `Recreate`: `onCreate` of a new process when the user returns to a
  killed launcher, run before the owed result.
* `FolderChange`: a folder appears or disappears.
* `LeaveAmiberry`.

#### Bounds

* Two folders and `NoPath`.
* `ApiR = TRUE`: the permission path is the longer one.
* The permission is initially granted or not.
* `RevokePossible = TRUE`: a kill may revoke the permission.

This reaches every combination of a stale file, a stale preferences file
and a missing folder (716 states).

#### Runs

* **`launcher_safety`** (pass). It checks `LaunchesWithSavedPath`, an
  action property: at every launch the folder exists, and the native config
  equals the saved path. Kills, lost `apply()` writes, revocations, stale
  config files and vanished folders may all come before. The mutant is an
  `ensureNativeConfig` that writes only a missing file.

A kill while the emulator runs can lose the `apply()` that saved a newly
picked folder. The next start then goes back to the older saved folder or
to the welcome dialog. `ensureNativeConfig` rewrites the file to match, so
`LaunchesWithSavedPath` holds through it.

`handleFolderSelection` (line 228) launches without checking the
permission. TLC shows a launch without it in 5 steps:
1. The welcome dialog opens the picker.
2. The user revokes the permission, which kills the process.
3. The launcher is recreated.
4. The picker result arrives, and `handleFolderSelection` launches.

Whether revoking this special permission kills the process depends on the
Android release, so this is recorded as a hazard, not as a run.

#### Not modelled here

* `createDataSubdirectories`, `takePersistableUriPermission` and
  `KEY_USER_DATA_URI`. Nothing in the flow reads them.
* Activity recreation on a configuration change. The process survives, so
  the flow restarts in the same state as a recreation.
* A partial write of `user_data_path.txt` by `writeText`. No reader of the
  file is in the repository.
* `ApiR = FALSE`, which removes the permission branch only.

## 4. Fairness

The JIT, cache, file picker and launcher modules check only safety properties, so they use
no fairness.

The input modules' specifications carry weak fairness of the UI thread taking the head of
the input queue, `WF_events(TakeHead)`. The Looper delivers every queued
MotionEvent, and no handler blocks. `Dispatch` is enabled exactly when the
queue is non-empty, and it is the only action that removes the head, so
this is weak fairness of `Dispatch`. It is written over `TakeHead` because
TLC re-evaluates the composed handlers when it computes `ENABLED Dispatch`,
which made the runs about a hundred times slower. Every run checks
safety only, so the fairness constrains no result. It is kept so that a
liveness property, such as "every press is eventually released once the
fingers lift", can be added without changing the specification.

Nothing is assumed about the user or about the emulator, which may never
register its joystick, never leave its GUI, and never change the mode.
