------------------------------ MODULE RoomMutex ------------------------------
(***************************************************************************)
(* What the post lock promises: a place is written in by one user, who     *)
(* took it while it was free; it is shown busy exactly as long as that     *)
(* user writes.                                                            *)
(***************************************************************************)
CONSTANTS Users, Places, Nobody

VARIABLES holder,  \* who writes in each place
          busy     \* what the others see of it

mutexVars == << holder, busy >>

Take(u, p) == /\ holder[p] = Nobody /\ ~busy[p]
              /\ holder' = [holder EXCEPT ![p] = u]
              /\ busy' = [busy EXCEPT ![p] = TRUE]

\* Several users may be done at once.
Leave(P) == /\ holder' = [p \in Places |-> IF p \in P THEN Nobody ELSE holder[p]]
            /\ busy' = [p \in Places |-> p \notin P /\ busy[p]]

MutexInit == /\ holder = [p \in Places |-> Nobody]
             /\ busy = [p \in Places |-> FALSE]

MutexNext == \/ \E u \in Users, p \in Places : Take(u, p)
             \/ \E P \in SUBSET Places : Leave(P)

MutexSpec == MutexInit /\ [][MutexNext]_mutexVars
=============================================================================
