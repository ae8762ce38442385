---------------------------- MODULE MCSobelFilter ----------------------------
(* Groups of 3 by 3 for the 16 by 4 of the code: one work-item between the *)
(* two edges, and a row that loads no row of the next block.               *)
EXTENDS SobelFilter

\* Three groups across and two down; a last row of groups that hangs over;
\* a width that is no multiple of the group's.
MCImages == {<<9, 4>>, <<3, 2>>, <<7, 4>>}
==============================================================================
