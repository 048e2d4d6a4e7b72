--------------------------- MODULE MCRoomReading ---------------------------
(***************************************************************************)
(* A reader of a room of three posts.                                      *)
(***************************************************************************)
EXTENDS RoomReading, TLC

MCLengths == {3}

\* What the others do, and how many posts there are.
MCMaxNum == {"DELETE", "DUMP"} :> 4 @@ {"DELETE", "DUMP", "UNDELETE"} :> 4

\* The behaviours that show where the code departs from what it promises.
MCResized == {"RESIZE"} :> 2
=============================================================================
