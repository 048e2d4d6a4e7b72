--------------------------- MODULE MCRoomPositions ---------------------------
(***************************************************************************)
(* The list of rooms and the marks on a small instance.                    *)
(***************************************************************************)
EXTENDS RoomPositions, TLC

\* Every command that moves slots with some that mark them; a crash with those
\* that it does not tear apart.
MCCommandSets ==
  { {"RNEW", "RSWP", "RDEL_LAST", "KICK"},
    {"RNEW", "RSWP", "GOTO"},
    {"RSWP", "RDEL_LAST", "RALL", "ZAP"},
    {"RNEW", "REDT", "RSWP"},
    {"RNEW", "GROW", "RSWP", "RALL"},
    {"RNEW", "KICK", "SAVE", "CRASH"} }

\* Deleting any room.
MCDeletes == { {"RDEL", "RALL"} }
=============================================================================
