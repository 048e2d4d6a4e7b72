---------------------------- MODULE MCFileServer ----------------------------
(***************************************************************************)
(* The file server on a small instance.                                    *)
(***************************************************************************)
EXTENDS FileServer

\* Every way a booking and a file can end, few at a time.
MCCommandSets ==
  { {"FUPB", "ATXT", "DROP", "POST_AGAIN"},
    {"FUPB", "TIMEOUT", "FBKD", "DROP"},
    {"FUPB", "CUSR", "FDNL", "DROP"},
    {"FUPB", "MDEL", "ATXT"},
    {"FUPB", "MDEL", "MCPY"},
    {"FUPB", "MCPY", "COPY_LOSES"},
    {"FUPB", "SAVE", "CRASH"} }

\* Deleting any post.
MCDeletes == { {"FUPB", "MDEL", "DEL_MIDDLE"} }
=============================================================================
