---------------------------- MODULE MCReferendum ----------------------------
(***************************************************************************)
(* Polls on a small instance.                                              *)
(***************************************************************************)
EXTENDS Referendum, TLC

\* Users who are lost, polls that are changed under those who vote, crashes, and
\* votes the slots do not hold; and how many polls there are.
MCMaxPolls ==
  {"BAD", "BLANK", "SDEL"} :> 2
  @@ {"DROP"} :> 2
  @@ {"DROP", "SSTP", "BAD"} :> 1
  @@ {"DROP", "SPST", "SDEL"} :> 1
  @@ {"BLANK", "SSTP", "SPST", "SAVE", "CRASH"} :> 1
  @@ {"SDEL", "SAVE", "CRASH", "LONG"} :> 1
  @@ {"SDEL", "CRASH"} :> 2
  @@ {"CROWD"} :> 1

\* In one of them a poll that two users saw or voted on is not read again.
MCMaxUtenti ==
  [c \in DOMAIN MCMaxPolls |-> IF c = {"SDEL", "CRASH"} THEN 1 ELSE 2]

\* That a restart finds every poll again, which is false: one of its choices may
\* be too long for load_voci, or its voters too many for load_dati.
KeptByRestart == \A n \in Open : Loaded[n] # NoPoll
=============================================================================
