------------------------ MODULE MC_AndroidFilePicker ------------------------
(* Instances of AndroidFilePicker for TLC.                                 *)
EXTENDS AndroidFilePicker

\* Every method the native code looks up is defined.
MC_AllPresent == Methods
\* showFilePicker is missing from the deployed SDLActivity.
MC_NoFilePicker == Methods \ {"showFilePicker"}
=============================================================================
