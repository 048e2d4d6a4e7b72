---------------------------- MODULE UserMailboxes ----------------------------
(***************************************************************************)
(* What the mail of a system promises, wherever it is kept: each user has  *)
(* one box of at most BoxLen mails, the oldest goes when it is full, and   *)
(* only the owner takes mails out or says which of them are new.           *)
(***************************************************************************)
EXTENDS Naturals, FiniteSets

CONSTANTS
  Users,  \* who has a box
  BoxLen, \* mails a box holds
  Mails   \* numbers of mails

VARIABLES
  boxes, \* of each user: the mails; a later mail has a higher number
  unread \* of each user: the mails that are new

vars == << boxes, unread >>

\* All mails but the oldest.
Later(box) == { n \in box : \E k \in box : k < n }

Kept(box) == IF Cardinality(box) > BoxLen THEN Later(box) ELSE box

\* A mail is new wherever it goes.
Deliver(n, to) ==
  /\ \A u \in Users : \A k \in boxes[u] : k < n
  /\ boxes' = [u \in Users |-> IF u \in to THEN Kept(boxes[u] \cup {n}) ELSE boxes[u]]
  /\ unread' = [u \in Users |-> (unread[u] \cup {n}) \cap boxes'[u]]

Delete(u, n) ==
  /\ boxes' = [boxes EXCEPT ![u] = @ \ {n}]
  /\ unread' = [unread EXCEPT ![u] = @ \ {n}]

\* The owner puts the mark after a mail, or before all of them: the later ones
\* are new, also some that were not.
Mark(u, n) ==
  /\ unread' = [unread EXCEPT ![u] = { m \in boxes[u] : m > n }]
  /\ UNCHANGED boxes

Init ==
  /\ boxes = [u \in Users |-> {}]
  /\ unread = [u \in Users |-> {}]

Next ==
  \/ \E n \in Mails, to \in SUBSET Users : Deliver(n, to)
  \/ \E u \in Users, n \in Mails : Delete(u, n)
  \/ \E u \in Users, n \in Mails \cup {0} : Mark(u, n)

Spec == Init /\ [][Next]_vars
=============================================================================
