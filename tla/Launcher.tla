------------------------------ MODULE Launcher ------------------------------
(***************************************************************************)
(* The first-run flow of LauncherActivity.kt (lines 37-363): the storage   *)
(* permission, the saved data path, the native config file and the folder *)
(* picker, up to the start of AmiberryActivity.                            *)
(*                                                                         *)
(* Three stores hold the data path:                                        *)
(*   - the SharedPreferences of the process (prefsMem), loaded from disk   *)
(*     when the process starts and written back to disk by apply() on a    *)
(*     background thread (prefsDisk);                                      *)
(*   - user_data_path.txt, which ensureNativeConfig writes synchronously   *)
(*     and the native code reads (nativeCfg).                              *)
(* The framework waits for a pending apply() only when the launcher       *)
(* stops, after AmiberryActivity is in front; the process may be killed at *)
(* any moment, losing an apply() that has not reached the disk (the write  *)
(* itself is ApplyWrite).  The user answers dialogs, grants or refuses the *)
(* permission, picks or cancels; folders may disappear and come back       *)
(* (removable storage) between steps.                                      *)
(***************************************************************************)
EXTENDS Naturals

CONSTANTS
    Folders,   \* filesystem paths a picked tree URI may resolve to
    NoPath,    \* no saved path / getPathFromTreeUri returned null
    ApiR,          \* Build.VERSION.SDK_INT >= Build.VERSION_CODES.R
    RevokePossible \* the user may revoke the permission in the settings

ASSUME NoPath \notin Folders /\ ApiR \in BOOLEAN /\ RevokePossible \in BOOLEAN

Paths == Folders \cup {NoPath}

\* Where the user is: no launcher activity, one of its dialogs, a system
\* screen it started, between launchAmiberry() and the launcher's pause,
\* or in AmiberryActivity.
External == {"settings", "picker"}
Screens == {"none", "permDialog", "settings", "welcome", "picker",
            "launching", "amiberry"}

VARIABLES
    ui,            \* the screen in front
    alive,         \* the app process exists
    granted,       \* MANAGE_EXTERNAL_STORAGE is granted
    dirs,          \* folders that exist as directories
    prefsMem,      \* KEY_USER_DATA_PATH in the process's SharedPreferences
    prefsDisk,     \* KEY_USER_DATA_PATH in the preferences file
    applyPending,  \* an apply() has not reached the disk yet
    nativeCfg      \* content of filesDir/user_data_path.txt

vars == <<ui, alive, granted, dirs, prefsMem, prefsDisk, applyPending, nativeCfg>>
files == <<prefsMem, prefsDisk, applyPending, nativeCfg>>

Init ==
    /\ ui = "none" /\ alive = FALSE
    /\ granted \in BOOLEAN
    /\ dirs \in SUBSET Folders
    /\ prefsMem = NoPath /\ prefsDisk = NoPath /\ applyPending = FALSE
    /\ nativeCfg = NoPath

-----------------------------------------------------------------------------
(* The activity's helpers *)

\* Fault variant: the file is written only when it does not exist.
EnsureNativeConfigIfMissing(path) ==
    IF nativeCfg = NoPath THEN path ELSE nativeCfg

\* ensureNativeConfig: rewrite the file unless it already holds path.
EnsureNativeConfig(path) ==
    IF nativeCfg # path THEN path ELSE nativeCfg

\* hasValidUserDataPath: a non-empty saved path naming an existing
\* directory.
HasValidUserDataPath(path) == path # NoPath /\ path \in dirs

\* if (hasValidUserDataPath()) launchAmiberry() else showWelcomeDialog():
\* hasValidUserDataPath calls ensureNativeConfig when the path is valid.
LaunchOrWelcome(path) ==
    IF HasValidUserDataPath(path)
    THEN ui' = "launching" /\ nativeCfg' = EnsureNativeConfig(path)
    ELSE ui' = "welcome" /\ UNCHANGED nativeCfg

-----------------------------------------------------------------------------
(* The user and the framework drive the activity *)

\* The user opens the app: the process starts if needed, loading the
\* preferences from disk, and onCreate runs.
onCreate ==
    /\ ui = "none"
    /\ alive' = TRUE
    /\ prefsMem' = IF alive THEN prefsMem ELSE prefsDisk
    /\ IF ApiR /\ ~granted
       THEN ui' = "permDialog" /\ UNCHANGED nativeCfg
       ELSE LaunchOrWelcome(prefsMem')
    /\ UNCHANGED <<granted, dirs, prefsDisk, applyPending>>

\* requestManageStoragePermission's buttons: open the settings screen, or
\* finish.
PermissionDialog ==
    /\ ui = "permDialog"
    /\ ui' \in {"settings", "none"}
    /\ UNCHANGED <<alive, granted, dirs, files>>

\* onActivityResult(REQUEST_CODE_MANAGE_STORAGE) after the user set the
\* switch either way.
SettingsResult ==
    /\ ui = "settings" /\ alive
    /\ \E g \in BOOLEAN :
         /\ granted' = g
         /\ IF g THEN LaunchOrWelcome(prefsMem) ELSE ui' = "none" /\ UNCHANGED nativeCfg
    /\ UNCHANGED <<alive, dirs, prefsMem, prefsDisk, applyPending>>

\* The user returns from a system screen to a killed process: the launcher
\* is recreated and its onCreate runs before the result is delivered; an
\* onCreate that launches finishes the activity and the result is dropped.
Recreate ==
    /\ ui \in External /\ ~alive
    /\ alive' = TRUE /\ prefsMem' = prefsDisk
    /\ IF (~ApiR \/ granted) /\ HasValidUserDataPath(prefsDisk)
       THEN ui' = "launching" /\ nativeCfg' = EnsureNativeConfig(prefsDisk)
       ELSE UNCHANGED <<ui, nativeCfg>>
    /\ UNCHANGED <<granted, dirs, prefsDisk, applyPending>>

\* The welcome dialog's only button launches the folder picker;
\* launchFolderPicker finishes when no activity handles the intent.
SelectFolder ==
    /\ ui = "welcome"
    /\ ui' \in {"picker", "none"}
    /\ UNCHANGED <<alive, granted, dirs, files>>

\* onActivityResult(REQUEST_CODE_SELECT_DATA_FOLDER): cancel finishes; a
\* tree URI goes through handleFolderSelection, which saves the resolved
\* path with apply(), writes the native config and launches, or shows the
\* welcome dialog again when the path is null or missing.
PickerResult ==
    /\ ui = "picker" /\ alive
    /\ \/ ui' = "none" /\ UNCHANGED files
       \/ \E path \in Paths :
            IF path # NoPath /\ path \in dirs
            THEN /\ prefsMem' = path /\ applyPending' = TRUE
                 /\ nativeCfg' = EnsureNativeConfig(path)
                 /\ ui' = "launching"
                 /\ UNCHANGED prefsDisk
            ELSE ui' = "welcome" /\ UNCHANGED files
    /\ UNCHANGED <<alive, granted, dirs>>

\* apply()'s background write reaches the disk.
ApplyWrite ==
    /\ applyPending
    /\ prefsDisk' = prefsMem /\ applyPending' = FALSE
    /\ UNCHANGED <<ui, alive, granted, dirs, prefsMem, nativeCfg>>

\* launchAmiberry's startActivity and finish(): AmiberryActivity comes to
\* the front.  The framework waits for pending apply() writes at the
\* launcher's onStop, after AmiberryActivity has resumed, so a kill can
\* still lose them; their write is ApplyWrite, not part of this step.
LauncherPaused ==
    /\ ui = "launching"
    /\ ui' = "amiberry"
    /\ UNCHANGED <<alive, granted, dirs, files>>

\* The user leaves the emulator; the process may stay cached.
LeaveAmiberry ==
    /\ ui = "amiberry"
    /\ ui' = "none"
    /\ UNCHANGED <<alive, granted, dirs, files>>

\* The system kills the process (low memory, a crash, the permission
\* revoked in the settings): the in-memory preferences and an apply() not
\* yet on disk are lost.  A system screen the launcher started (the
\* settings, the picker) stays in front, its result still owed.
Kill ==
    /\ alive
    /\ alive' = FALSE
    /\ ui' = IF ui \in External THEN ui ELSE "none"
    /\ applyPending' = FALSE
    /\ granted' \in IF RevokePossible THEN {granted, FALSE} ELSE {granted}
    /\ UNCHANGED <<dirs, prefsMem, prefsDisk, nativeCfg>>

\* Removable storage goes away or comes back, or the user deletes or
\* recreates a folder.
FolderChange ==
    /\ \E f \in Folders : dirs' = (dirs \ {f}) \cup ({f} \ dirs)
    /\ UNCHANGED <<ui, alive, granted, files>>

Next ==
    \/ onCreate \/ PermissionDialog \/ SettingsResult \/ SelectFolder
    \/ PickerResult \/ ApplyWrite \/ LauncherPaused \/ LeaveAmiberry
    \/ Kill \/ Recreate \/ FolderChange

Spec == Init /\ [][Next]_vars

-----------------------------------------------------------------------------
(* Properties *)

(***************************************************************************)
(* Every launchAmiberry() happens with the native config file naming the *)
(* same existing folder that the preferences hold, whatever kills, lost   *)
(* apply() writes, revoked permissions, stale config files and vanished   *)
(* folders came before: the native side reads only the file, the launcher *)
(* only the preferences.                                                  *)
(***************************************************************************)
LaunchesWithSavedPath ==
    [][ ui' = "launching" /\ ui # "launching" =>
          /\ nativeCfg' = prefsMem'
          /\ prefsMem' \in dirs' ]_vars

=============================================================================
