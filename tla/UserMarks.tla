------------------------------ MODULE UserMarks ------------------------------
(***************************************************************************)
(* What the marks of users on rooms promise: every user has marks on every *)
(* room, which stay where they are until somebody changes them.  Where a   *)
(* room stands in the list, and whether a user is connected, makes no      *)
(* difference, but for a crash: it may undo what happened to those who     *)
(* were connected.                                                         *)
(***************************************************************************)
CONSTANTS Users, Marks, Default

VARIABLES
  rooms,  \* the rooms that exist
  marks,  \* marks[u][r]
  online  \* users who are connected

vars == << rooms, marks, online >>

Init ==
  /\ marks \in [Users -> [rooms -> SUBSET Marks]]
  /\ online = {}

\* Everybody knows a new room; the other rooms keep their marks.
Create ==
  /\ \E r \in rooms' \ rooms :
       /\ rooms' = rooms \cup {r}
       /\ \A u \in Users : Default \subseteq marks'[u][r]
  /\ \A u \in Users : \A r \in rooms : marks'[u][r] = marks[u][r]
  /\ UNCHANGED online

Remove(r) ==
  /\ rooms' = rooms \ {r}
  /\ marks' = [u \in Users |-> [q \in rooms \ {r} |-> marks[u][q]]]
  /\ UNCHANGED online

\* A user's marks change on several rooms, or a room's marks for all users.
ChangeUser(u) ==
  /\ marks'[u] \in [rooms -> SUBSET Marks]
  /\ marks' = [marks EXCEPT ![u] = marks'[u]]
  /\ UNCHANGED << rooms, online >>

ChangeRoom(r) ==
  /\ \A u \in Users : marks'[u][r] \subseteq Marks
  /\ marks' = [u \in Users |-> [marks[u] EXCEPT ![r] = marks'[u][r]]]
  /\ UNCHANGED << rooms, online >>

Connect(u) ==
  /\ online' = online \cup {u}
  /\ UNCHANGED << rooms, marks >>

Leave(u) ==
  /\ online' = online \ {u}
  /\ UNCHANGED << rooms, marks >>

\* Rooms made since the last saving are gone.
Crash ==
  /\ rooms' \subseteq rooms
  /\ online' = {}
  /\ \A u \in Users \ online : \A r \in rooms' : marks'[u][r] = marks[u][r]

Next ==
  \/ Create
  \/ Crash
  \/ \E r \in rooms : Remove(r) \/ ChangeRoom(r)
  \/ \E u \in Users : ChangeUser(u) \/ Connect(u) \/ Leave(u)

Spec == Init /\ [][Next]_vars
=============================================================================
