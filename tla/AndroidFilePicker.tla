-------------------------- MODULE AndroidFilePicker --------------------------
(***************************************************************************)
(* The file picker JNI (android_file_picker.cpp, in serial_stub.cpp): the  *)
(* lazily filled cache of SDLActivity's class and four static method IDs   *)
(* (init_jni_refs) and the four functions that call through it.            *)
(*                                                                         *)
(* The callers run on the emulator's SDL thread, which entered native code *)
(* once and never returns to Java while the GUI runs: a local reference is *)
(* only freed by DeleteLocalRef, and an exception stays pending until      *)
(* something clears it.  One step is one JNI call.  The JVM is the         *)
(* environment: FindClass may fail, memory may run out (NewStringUTF and   *)
(* GetStringUTFChars return NULL and throw), the Java method may return a  *)
(* string, return null or throw, and a method missing from the deployed    *)
(* SDLActivity is not found.  A JNI call with an exception pending or with *)
(* a NULL method ID aborts the process (CheckJNI); Android restarts it.    *)
(***************************************************************************)
EXTENDS Integers, Sequences

CONSTANTS
    Present,           \* static methods the deployed SDLActivity defines
    OomPossible,       \* the JVM may run out of memory
    FindClassMayFail   \* the class may not be visible to the caller's loader

\* The lookups of init_jni_refs, in order.
MethodOrder == <<"showFolderPicker", "showFilePicker",
                 "getInternalStoragePath", "getExternalStoragePath">>
Methods == {MethodOrder[i] : i \in 1..Len(MethodOrder)}

\* Each API function: the method it calls and the Java strings it creates.
API == [android_select_folder |->
            [method |-> "showFolderPicker", args |-> <<"jTitle">>],
        android_select_file |->
            [method |-> "showFilePicker", args |-> <<"jTitle", "jMimeTypes">>],
        android_get_internal_storage_path |->
            [method |-> "getInternalStoragePath", args |-> <<>>],
        android_get_external_storage_path |->
            [method |-> "getExternalStoragePath", args |-> <<>>]]
Functions == DOMAIN API
None == "none"

ASSUME Present \subseteq Methods /\ OomPossible \in BOOLEAN
       /\ FindClassMayFail \in BOOLEAN

VARIABLES
    sSDLActivityClass,  \* the cached global class reference is non-null
    methodIds,          \* which cached method IDs are non-null
    pc,                 \* the step the calling thread is at
    fn,                 \* the API function it is executing
    k,                  \* index of the lookup or the string being created
    localRefs,          \* live local references of the thread
    pending,            \* an exception is pending on the thread
    aborted             \* why the process aborted, or "none"

vars == <<sSDLActivityClass, methodIds, pc, fn, k, localRefs, pending, aborted>>
cache == <<sSDLActivityClass, methodIds>>

Init ==
    /\ sSDLActivityClass = FALSE
    /\ methodIds = [m \in Methods |-> FALSE]
    /\ pc = "idle" /\ fn = None /\ k = 0
    /\ localRefs = {} /\ pending = FALSE /\ aborted = "none"

Outcome(possible) == IF possible THEN BOOLEAN ELSE {TRUE}
Args == API[fn].args

Goto(l) == pc' = l
\* A return of the API function: the thread is idle again.
Return == pc' = "idle" /\ fn' = None /\ k' = 0

\* Any JNI call but DeleteLocalRef and the Exception* functions, made with
\* an exception pending, aborts.
JniCall(A) ==
    IF pending
    THEN /\ aborted' = "pending_exception" /\ pc' = "aborted"
         /\ UNCHANGED <<cache, fn, k, localRefs, pending>>
    ELSE A

-----------------------------------------------------------------------------
(* The calling thread *)

Call(f) ==
    /\ pc = "idle"
    /\ fn' = f /\ Goto("init")
    /\ UNCHANGED <<cache, k, localRefs, pending, aborted>>

\* init_jni_refs: a non-null class means "already initialized".
InitCheck ==
    /\ pc = "init"
    /\ IF sSDLActivityClass THEN Goto("newString") /\ k' = 1
                            ELSE Goto("findClass") /\ UNCHANGED k
    /\ UNCHANGED <<cache, fn, localRefs, pending, aborted>>

FindClass ==
    /\ pc = "findClass"
    /\ JniCall(
         \E found \in Outcome(FindClassMayFail) :
            IF found
            THEN Goto("globalRef") /\ localRefs' = localRefs \cup {"localClass"}
                 /\ UNCHANGED <<pending, fn, k, aborted>>
            ELSE pending' = TRUE /\ Return /\ UNCHANGED <<localRefs, aborted>>)
    /\ UNCHANGED cache

\* NewGlobalRef, then DeleteLocalRef of the local class.  (ART aborts on a
\* full global table rather than returning NULL.)
GlobalRef ==
    /\ pc = "globalRef"
    /\ sSDLActivityClass' = TRUE
    /\ localRefs' = localRefs \ {"localClass"}
    /\ Goto("lookup") /\ k' = 1
    /\ UNCHANGED <<methodIds, fn, pending, aborted>>

\* GetStaticMethodID of the k-th method; a missing method returns NULL and
\* throws NoSuchMethodError, and init_jni_refs returns false with the
\* class already cached.
Lookup ==
    /\ pc = "lookup"
    /\ LET m == MethodOrder[k] IN
       IF m \in Present
       THEN /\ methodIds' = [methodIds EXCEPT ![m] = TRUE]
            /\ IF k = Len(MethodOrder) THEN Goto("newString") /\ k' = 1
                                       ELSE UNCHANGED pc /\ k' = k + 1
            /\ UNCHANGED <<fn, pending>>
       ELSE pending' = TRUE /\ Return /\ UNCHANGED methodIds
    /\ UNCHANGED <<sSDLActivityClass, localRefs, aborted>>

\* NewStringUTF for the k-th argument.  android_select_folder returns as
\* soon as its string is NULL; android_select_file creates both strings
\* before it checks them.
NewString ==
    /\ pc = "newString" /\ k <= Len(Args)
    /\ JniCall(
         \E ok \in Outcome(OomPossible) :
            /\ localRefs' = IF ok THEN localRefs \cup {Args[k]} ELSE localRefs
            /\ pending' = ~ok /\ UNCHANGED aborted
            /\ IF ~ok /\ fn = "android_select_folder" THEN Return
               ELSE k' = k + 1 /\ UNCHANGED <<pc, fn>>)
    /\ UNCHANGED cache

\* Mutant: the failure path forgets to delete the string that was created.
CheckStringsNoDelete ==
    /\ pc = "newString" /\ k > Len(Args)
    /\ IF \A i \in 1..Len(Args) : Args[i] \in localRefs
       THEN Goto("call") /\ UNCHANGED <<fn, k>>
       ELSE Return
    /\ UNCHANGED <<cache, localRefs, pending, aborted>>

\* All strings non-null, or delete the non-null ones and return "".
CheckStrings ==
    /\ pc = "newString" /\ k > Len(Args)
    /\ IF \A i \in 1..Len(Args) : Args[i] \in localRefs
       THEN Goto("call") /\ UNCHANGED <<fn, k, localRefs>>
       ELSE Return /\ localRefs' = localRefs \ {Args[i] : i \in 1..Len(Args)}
    /\ UNCHANGED <<cache, pending, aborted>>

\* CallStaticObjectMethod; the Java method returns a string, returns null
\* or throws.  Then the argument strings are deleted.
CallJava ==
    /\ pc = "call"
    /\ JniCall(
         IF ~methodIds[API[fn].method]
         THEN aborted' = "null_method" /\ Goto("aborted")
              /\ UNCHANGED <<fn, k, localRefs, pending>>
         ELSE \E r \in {"string", "null", "throws"} :
                /\ localRefs' = (localRefs \ {Args[i] : i \in 1..Len(Args)})
                                \cup (IF r = "string" THEN {"jResult"} ELSE {})
                /\ pending' = (r = "throws")
                /\ Goto("exceptionCheck") /\ UNCHANGED <<fn, k, aborted>>)
    /\ UNCHANGED cache

\* ExceptionCheck: describe, clear and return "".
ExceptionCheck ==
    /\ pc = "exceptionCheck"
    /\ IF pending THEN pending' = FALSE /\ Return
                  ELSE Goto("convert") /\ UNCHANGED <<pending, fn, k>>
    /\ UNCHANGED <<cache, localRefs, aborted>>

\* jstring_to_string: "" for a null string; GetStringUTFChars may run out
\* of memory (returns NULL and throws); otherwise copy and release.
Convert ==
    /\ pc = "convert"
    /\ IF "jResult" \notin localRefs
       THEN Goto("release") /\ UNCHANGED <<pending, aborted>>
       ELSE JniCall(\E ok \in Outcome(OomPossible) :
                       pending' = ~ok /\ Goto("release") /\ UNCHANGED aborted)
    /\ UNCHANGED <<cache, fn, k, localRefs>>

\* DeleteLocalRef of a non-null result, and return.
Release ==
    /\ pc = "release"
    /\ localRefs' = localRefs \ {"jResult"}
    /\ Return
    /\ UNCHANGED <<cache, pending, aborted>>

\* Android starts the process again: every static is back to its
\* initializer.
Restart ==
    /\ pc = "aborted"
    /\ sSDLActivityClass' = FALSE
    /\ methodIds' = [m \in Methods |-> FALSE]
    /\ Return
    /\ localRefs' = {} /\ pending' = FALSE /\ aborted' = "none"

Next ==
    \/ \E f \in Functions : Call(f)
    \/ InitCheck \/ FindClass \/ GlobalRef \/ Lookup
    \/ NewString \/ CheckStrings \/ CallJava
    \/ ExceptionCheck \/ Convert \/ Release
    \/ Restart

Spec == Init /\ [][Next]_vars

-----------------------------------------------------------------------------
(* Properties *)

\* Every API function returns having deleted every local reference it
\* created (the SDL thread never returns to Java to free them), on each of
\* its early-return paths.
NoLocalRefLeak == pc = "idle" => localRefs = {}

\* No picker call makes the process abort: after a failed init_jni_refs
\* (a lookup that throws) the next call on the SDL thread must neither call
\* JNI with the exception still pending nor use a NULL method ID.
NoJniAbort == aborted = "none"

=============================================================================
