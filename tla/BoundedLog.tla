----------------------------- MODULE BoundedLog -----------------------------
(***************************************************************************)
(* What a message file promises: a log of numbered posts that holds at     *)
(* most `cap' bytes.  Appending a post drops the oldest ones, only as many *)
(* as must go for the new one to fit; a post can be marked deleted, and    *)
(* keeps its room until it is dropped.                                     *)
(***************************************************************************)
EXTENDS Integers, FiniteSets

CONSTANTS Caps,    \* capacities a log can have
          Lengths  \* lengths of a post

VARIABLES cap,     \* bytes the log can hold
          log,     \* the posts in it: number, length, deleted?
          last     \* the last number given out

logVars == << cap, log, last >>

\* How many bytes the posts of s take: each has those numbered 1 to its length.
Room(s) == Cardinality(UNION { {m.num} \X (1 .. m.len) : m \in s })

\* A post and all that were appended after it.
Since(m) == { n \in log : m.num <= n.num }

\* The posts that leave len bytes free, with all that are newer.
Keep(len) == { m \in log : Room(Since(m)) + len <= cap }

Append1(len) ==
  /\ last' = last + 1
  /\ log' = Keep(len) \cup {[num |-> last + 1, len |-> len, dead |-> FALSE]}
  /\ UNCHANGED cap

Skip == last' = last + 1 /\ UNCHANGED << cap, log >>

MarkDeleted(m) ==
  /\ ~m.dead
  /\ log' = (log \ {m}) \cup {[m EXCEPT !.dead = TRUE]}
  /\ UNCHANGED << cap, last >>

LogInit == /\ cap \in Caps
           /\ log = {}
           /\ last = 0

LogNext == \/ \E len \in Lengths : Append1(len)
           \/ Skip
           \/ \E m \in log : MarkDeleted(m)

LogSpec == LogInit /\ [][LogNext]_logVars
=============================================================================
