----------------------------- MODULE MCExpress -----------------------------
(***************************************************************************)
(* X messages, chat and timeouts on a small instance.                      *)
(***************************************************************************)
EXTENDS Express, TLC

\* X messages, chat, broadcasts and idle users, each with ways a session may end.
MCCommandSets ==
  { {"XMSG", "QUIT"}, {"XMSG", "LOST"}, {"XMSG", "TAKEOVER"}, {"XMSG", "CUSR"},
    {"CHAT", "CHAT_IDLE", "QUIT", "LOST"},
    {"CHAT", "CUSR", "TAKEOVER"},
    {"BROAD", "QUIT", "TAKEOVER"},
    {"IDLE", "BROAD"},
    {"IDLE", "WRITE_ERROR"},
    {"IDLE", "TAKEOVER", "QUIT"} }

\* Two messages at a time where sessions are taken over, elsewhere one.
MCMaxMessages ==
  [c \in MCCommandSets |-> IF c = {"XMSG", "TAKEOVER"} THEN 2 ELSE 1]

Symmetry == Permutations(Conns) \cup Permutations(Users \ Unregistered)

\* That nobody is ever named as he leaves, which is false: who logs in, or enters a
\* channel, after another's QUIT in the same pass takes him to be there.
NobodyNamedLate ==
  \A c \in Connected, list \in {"HWHO", "CWHO"} : Late(Session(c), list) = {}
=============================================================================
