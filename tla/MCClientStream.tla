--------------------------- MODULE MCClientStream ---------------------------
(***************************************************************************)
(* Short conversations over short buffers.                                 *)
(***************************************************************************)
EXTENDS ClientStream

Cmd(len, reply) == [len |-> len, data |-> 0, reply |-> reply, binary |-> FALSE]

\* Replies that fit in no buffer, a line that is cut, an upload, a download.
MCScripts ==
  { << Cmd(2, 3), Cmd(1, 7), Cmd(3, 1), Cmd(1, 2) >>,
    << Cmd(1, 1), [len |-> 2, data |-> 5, reply |-> 1, binary |-> FALSE],
       Cmd(2, 2), Cmd(1, 1) >>,
    << Cmd(1, 2), [len |-> 1, data |-> 0, reply |-> 9, binary |-> TRUE],
       Cmd(4, 2) >> }

MCCommandSets == { {}, {"WRITE_ERROR"}, {"THIRD_PART"} }
MCThirdPart == { {"THIRD_PART"} }
=============================================================================
