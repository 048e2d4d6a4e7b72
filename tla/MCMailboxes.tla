----------------------------- MODULE MCMailboxes -----------------------------
(***************************************************************************)
(* Mail boxes on a small instance.                                         *)
(***************************************************************************)
EXTENDS Mailboxes, TLC

\* Ordinary use, and each way a session may go wrong with some of it.
MCCommandSets ==
  { {"SEND", "CC", "QUIT"},
    {"SEND", "GOTO", "LOST"},
    {"SEND", "READ", "GOTO"},
    {"SEND", "READ", "MDEL", "CUSR"},
    {"XINM", "IDLE"},
    {"SEND", "GOTO", "TAKEOVER"},
    {"SEND", "GUEST", "LOST"} }

\* Two sessions of a name may begin in one pass.
MCRace == { {"TAKEOVER", "RACE"} }

Symmetry == Permutations(Conns)
=============================================================================
