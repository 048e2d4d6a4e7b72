--------------------------- MODULE MCRoomMessages ---------------------------
(***************************************************************************)
(* The lists of posts on small instances.                                  *)
(***************************************************************************)
EXTENDS RoomMessages, TLC

\* Two slots are the fewest there can be; three have a middle.
MCLengths == {2, 3}

\* What happens in a behaviour, and how many posts there are in it.
MCMaxNum ==
  {"DELETE", "DUMP", "UNDELETE", "RDEL"} :> 5
  @@ {"DUMP", "UNDELETE", "RESIZE"} :> 4
  @@ {"DELETE", "MOVE", "COPY"} :> 3
  @@ {"UNDELETE", "MOVE", "MOVE_TO_DUMP", "COPY_TO_DUMP"} :> 3
  @@ {"DELETE", "DUMP", "UNDELETE", "POST_LONG"} :> 3
  @@ {"DELETE", "DUMP", "SAVE", "CRASH"} :> 3
  @@ {"DELETE", "MOVE", "COPY", "SAVE"} :> 2
  @@ {"UNDELETE", "MOVE_TO_DUMP", "RESIZE", "SAVE"} :> 2

\* The behaviours that show where the code departs from what it promises.
MCRefused  == {"POST_LONG"} :> 2
MCMoved    == {"DUMP", "UNDELETE", "MOVE_TO_DUMP"} :> 3
MCDumped   == {"DUMP", "SAVE"} :> 2
=============================================================================
