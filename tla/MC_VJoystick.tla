---------------------------- MODULE MC_VJoystick ----------------------------
EXTENDS VJoystick

\* Positions, with the reading updateDpadState computes there: the
\* toggle, resize and F12 buttons (top right, up-right of the D-pad
\* centre), the D-pad at its centre, straight up and up-left, the two fire
\* buttons (to the right of the D-pad) and an empty spot.
TopButtons ==
    { [region |-> r, dir |-> Dir({"up", "right"})] : r \in {"plus", "minus", "f12"} }
Controls_Pos ==
    { [region |-> "toggle", dir |-> Dir({"up", "right"})],
      [region |-> "dpad",   dir |-> NoDir],
      [region |-> "dpad",   dir |-> Dir({"up"})],
      [region |-> "dpad",   dir |-> Dir({"up", "left"})],
      [region |-> "a",      dir |-> Dir({"right"})],
      [region |-> "b",      dir |-> Dir({"right"})],
      [region |-> "none",   dir |-> Dir({"up", "right"})] }

\* Two fingers on the toggle and the controls: every interleaving of two
\* pointers with the mode changes.
MC_Pointers == {0, 1}
MC_Pos == Controls_Pos

\* One finger that may also use the resize and F12 buttons.
MC_OnePointer == {0}
MC_AllPos == Controls_Pos \cup TopButtons
=============================================================================
