-------------------------- MODULE Referendum_proofs --------------------------
(***************************************************************************)
(* Proofs about the polls, for any number of users and polls and any       *)
(* length of the rounds.                                                   *)
(*                                                                         *)
(* Four things make the properties inductive: what is on disk counts its   *)
(* voters as exactly as what is in memory, since a crash puts it in its    *)
(* place; it has seen no more polls end; the numbers below ultima_urna     *)
(* are the only ones in use; and whoever votes is listed under the poll    *)
(* his session began to vote on.                                           *)
(***************************************************************************)
EXTENDS Referendum, FunctionTheorems, FiniteSetTheorems, TLAPS

States == {"OFF", "COMANDI", "PARM", "VOTO"}
Stat   == [attive : Int, complete : Int, ultima : Nat \ {0}]
Lists  == [Numbers -> Poll \cup {NoPoll}]

TypeOK ==
  /\ commands \in CommandSets
  /\ clock \in Nat
  /\ polls \in Lists
  /\ stat \in Stat
  /\ votanti \in [Users -> Numbers \cup {None}]
  /\ stato \in [Users -> States]
  /\ voting \in [Users -> Numbers \cup {None}]
  /\ warned \subseteq Users
  /\ disk \in [numbers : SUBSET Numbers, stat : Stat, urne : Lists]

\* The ballots of a poll and its voters agree.
Counted(p) ==
  /\ \A u \in Users : p.uvot[u] <= 1
  /\ p.nvoti = Cardinality({ u \in Users : p.uvot[u] > 0 })
  /\ p.nvoti = p.voti + p.bianche

\* They do in memory and on disk.
AllCounted ==
  "CROWD" \notin commands =>
    \A n \in Numbers : /\ polls[n] # NoPoll => Counted(polls[n])
                       /\ disk.urne[n] # NoPoll => Counted(disk.urne[n])

\* Whoever began to vote is voting, listed under that poll, and knows if it is
\* closing.
VotersListed ==
  \A u \in Users, n \in Numbers :
    voting[u] = n => /\ stato[u] = "VOTO" /\ votanti[u] = n
                     /\ polls[n] # NoPoll /\ polls[n].conclusa => u \in warned

\* What a crash brings back counts no more finished polls than there are now.
SavedBefore == disk.stat.complete <= stat.complete

IInv == TypeOK /\ StatExact /\ SavedBefore /\ AllCounted /\ VotersListed

-----------------------------------------------------------------------------
(***************************************************************************)
(* Polls and their lists.                                                  *)
(***************************************************************************)

\* There are finitely many numbers, from 1 on.
LEMMA NumbersFinite ==
  IsFiniteSet(Numbers) /\ Numbers \subseteq Nat \ {0}
  <1> DEFINE Image == { 1 .. MaxPolls[c] : c \in CommandSets }
             f     == [c \in CommandSets |-> 1 .. MaxPolls[c]]
  <1>1. IsFiniteSet(CommandSets)
    <2>1. IsFiniteSet(AllCommands)
      <3>1. AllCommands = ((({"DROP"} \cup {"BAD"}) \cup ({"BLANK"} \cup {"SPST"}))
                             \cup (({"SSTP"} \cup {"SDEL"}) \cup ({"SAVE"} \cup {"CRASH"})))
                            \cup ({"CROWD"} \cup {"LONG"})
        BY DEF AllCommands
      <3>2. \A x : IsFiniteSet({x})
        BY FS_Singleton
      <3>3. \A S, T : IsFiniteSet(S) /\ IsFiniteSet(T) => IsFiniteSet(S \cup T)
        BY FS_Union
      <3>4. QED
        BY <3>1, <3>2, <3>3, Zenon
    <2>2. QED
      BY <2>1, CommandsAssumption, FS_SUBSET, FS_Subset
  <1>2. f \in Surjection(CommandSets, Image)
    BY DEF Surjection
  <1>3. IsFiniteSet(Image)
    BY <1>1, <1>2, FS_Surjection
  <1>4. \A T \in Image : IsFiniteSet(T) /\ T \subseteq Nat \ {0}
    <2>1. ASSUME NEW c \in CommandSets
          PROVE  IsFiniteSet(1 .. MaxPolls[c]) /\ 1 .. MaxPolls[c] \subseteq Nat \ {0}
      <3>1. MaxPolls[c] \in Int
        BY BoundsAssumption
      <3>2. QED
        BY <3>1, FS_Interval
    <2>2. QED
      BY <2>1
  <1>5. IsFiniteSet(UNION Image)
    BY <1>3, <1>4, FS_UNION
  <1>6. QED
    BY <1>4, <1>5 DEF Numbers

\* The operators on polls return polls, and what they do to ballots and voters.
LEMMA PollOps ==
  ASSUME NEW p \in Poll
  PROVE  /\ p # NoPoll
         /\ OnFile(p) \in Poll /\ OnFile(p).uvot = p.uvot
         /\ OnFile(p).nvoti = p.nvoti /\ OnFile(p).voti = p.voti
         /\ OnFile(p).bianche = p.bianche
         /\ \A who \in SUBSET Users :
               /\ Seen(p, who) \in Poll /\ Seen(p, who).uvot = p.uvot
               /\ Seen(p, who).nvoti = p.nvoti /\ Seen(p, who).voti = p.voti
               /\ Seen(p, who).bianche = p.bianche
               /\ Seen(p, who).conclusa = p.conclusa
  <1>1. p # NoPoll
    BY NoPollAssumption
  <1>2. /\ OnFile(p) \in Poll /\ OnFile(p).uvot = p.uvot
        /\ OnFile(p).nvoti = p.nvoti /\ OnFile(p).voti = p.voti
        /\ OnFile(p).bianche = p.bianche
    BY <1>1 DEF Poll, OnFile
  <1>3. ASSUME NEW who \in SUBSET Users
        PROVE  /\ Seen(p, who) \in Poll /\ Seen(p, who).uvot = p.uvot
               /\ Seen(p, who).nvoti = p.nvoti /\ Seen(p, who).voti = p.voti
               /\ Seen(p, who).bianche = p.bianche
               /\ Seen(p, who).conclusa = p.conclusa
    <2>1. PICK n \in Nat : Seen(p, who) = [p EXCEPT !.visti = @ \cup who, !.slots = n]
      <3>1. p.slots \in Nat /\ p.slots + 1 \in Nat
        BY DEF Poll
      <3>2. Seen(p, who) = [p EXCEPT !.visti = @ \cup who, !.slots = p.slots]
              \/ Seen(p, who) = [p EXCEPT !.visti = @ \cup who, !.slots = p.slots + 1]
        BY DEF Seen
      <3>3. QED
        BY <3>1, <3>2
    <2>2. QED
      BY <2>1 DEF Poll
  <1>4. QED
    BY <1>1, <1>2, <1>3

\* A new poll has no ballots.
LEMMA NewPollType ==
  ASSUME NEW stop \in Int, NEW long \in BOOLEAN
  PROVE  /\ NewPoll(stop, long) \in Poll /\ Counted(NewPoll(stop, long))
         /\ ~NewPoll(stop, long).conclusa
  <1>1. NewPoll(stop, long) \in Poll /\ ~NewPoll(stop, long).conclusa
    BY DEF NewPoll, Poll
  <1>2. { u \in Users : NewPoll(stop, long).uvot[u] > 0 } = {}
    BY DEF NewPoll
  <1>3. QED
    BY <1>1, <1>2, FS_EmptySet DEF NewPoll, Counted

\* Polls with the same ballots and voters are counted alike.
LEMMA SameCount ==
  ASSUME NEW p, NEW q, Counted(p), q.uvot = p.uvot, q.nvoti = p.nvoti,
         q.voti = p.voti, q.bianche = p.bianche
  PROVE  Counted(q)
  BY DEF Counted

\* A vote adds a ballot, and no voter loses his.
LEMMA VoteType ==
  ASSUME NEW p \in Poll, NEW u \in Users, NEW blank \in BOOLEAN
  PROVE  /\ WithVote(p, u, blank) \in Poll
         /\ [WithVote(p, u, blank) EXCEPT !.uvot = p.uvot] \in Poll
         /\ \A v \in Users : p.uvot[v] <= WithVote(p, u, blank).uvot[v]
         /\ WithVote(p, u, blank).conclusa = p.conclusa
  <1>1. PICK b \in Nat, v \in Nat :
           WithVote(p, u, blank) = [p EXCEPT !.nvoti = @ + 1, !.uvot[u] = @ + 1,
                                             !.bianche = b, !.voti = v]
    <2>1. /\ p.bianche \in Nat /\ p.bianche + 1 \in Nat
          /\ p.voti \in Nat /\ p.voti + 1 \in Nat
      BY DEF Poll
    <2>2. QED
      BY <2>1 DEF WithVote
  <1>2. p.nvoti \in Nat /\ p.uvot \in [Users -> Nat]
    BY DEF Poll
  <1>3. /\ [p.uvot EXCEPT ![u] = @ + 1] \in [Users -> Nat]
        /\ \A w \in Users : p.uvot[w] <= [p.uvot EXCEPT ![u] = @ + 1][w]
    BY <1>2
  <1>4. DEFINE uvot == [p.uvot EXCEPT ![u] = @ + 1]
               q    == [p EXCEPT !.nvoti = @ + 1, !.uvot = uvot,
                                 !.bianche = b, !.voti = v]
  <1>5. WithVote(p, u, blank) = q
    BY <1>1
  <1>6. q \in Poll /\ [q EXCEPT !.uvot = p.uvot] \in Poll
    <2>1. uvot \in [Users -> Nat] /\ p.nvoti + 1 \in Nat
      BY <1>2, <1>3
    <2> HIDE DEF uvot
    <2>2. QED
      BY <1>2, <2>1 DEF Poll
  <1>7. q.uvot = uvot /\ q.conclusa = p.conclusa
    BY DEF Poll
  <1>8. QED
    BY <1>3, <1>5, <1>6, <1>7

\* The vote of a user who has not voted counts once.
LEMMA VoteCounted ==
  ASSUME NEW p \in Poll, NEW u \in Users, NEW blank \in BOOLEAN,
         Counted(p), ~HaVotato(p, u)
  PROVE  Counted(WithVote(p, u, blank))
  <1> DEFINE q     == WithVote(p, u, blank)
             Old   == { v \in Users : p.uvot[v] > 0 }
             Voted == { v \in Users : q.uvot[v] > 0 }
  <1>1. /\ p.uvot \in [Users -> Nat] /\ p.nvoti \in Nat
        /\ p.voti \in Nat /\ p.bianche \in Nat
    BY DEF Poll
  <1>2. /\ q.nvoti = p.nvoti + 1
        /\ q.uvot = [p.uvot EXCEPT ![u] = @ + 1]
        /\ q.voti + q.bianche = p.voti + p.bianche + 1
    BY <1>1 DEF WithVote, Poll
  <1>3. p.uvot[u] = 0
    BY <1>1 DEF HaVotato
  <1>4. \A v \in Users : q.uvot[v] <= 1
    BY <1>1, <1>2, <1>3 DEF Counted
  <1>5. Voted = Old \cup {u} /\ u \notin Old
    BY <1>1, <1>2, <1>3
  <1>6. IsFiniteSet(Old)
    BY UsersAssumption, FS_Subset
  <1>7. Cardinality(Voted) = Cardinality(Old) + 1
    BY <1>5, <1>6, FS_AddElement
  <1>8. QED
    BY <1>1, <1>2, <1>4, <1>7 DEF Counted

-----------------------------------------------------------------------------
(***************************************************************************)
(* The types.                                                              *)
(***************************************************************************)

\* What is saved are lists of polls.
LEMMA SavedType ==
  ASSUME TypeOK, NEW which \in SUBSET Numbers, NEW list \in Lists, NEW st \in Stat
  PROVE  Saved(which, list, st) \in [numbers : SUBSET Numbers, stat : Stat, urne : Lists]
  <1>1. ASSUME NEW n \in Numbers
        PROVE  OnFile(list[n]) \in Poll \cup {NoPoll}
    BY PollOps DEF OnFile, Lists
  <1>2. [n \in Numbers |-> IF n \in which THEN OnFile(list[n]) ELSE disk.urne[n]] \in Lists
    BY <1>1 DEF Lists, TypeOK
  <1>3. QED
    BY <1>2 DEF Saved

\* What Sren leaves in the poll, with slots and without.
LEMMA SrenVotes ==
  ASSUME NEW u \in Users, NEW n \in Numbers, Sren(u, n)
  PROVE  \E blank \in BOOLEAN :
            \/ polls' = [polls EXCEPT ![n] = WithVote(@, u, blank)]
            \/ /\ may("CROWD")
               /\ polls' = [polls EXCEPT ![n] =
                              [WithVote(@, u, blank) EXCEPT !.uvot = polls[n].uvot]]
  <1>1. may("BLANK") \in BOOLEAN
    BY DEF may
  <1>2. \A blank \in {FALSE} \cup {may("BLANK")} : blank \in BOOLEAN
    BY <1>1
  <1>3. QED
    BY <1>2, Zenon DEF Sren

\* A poll that is put off, or about to close, keeps its ballots and voters.
LEMMA Changed ==
  ASSUME TypeOK, NEW u \in Users, NEW n \in Numbers, Spst(u, n) \/ Sstp(u, n)
  PROVE  /\ n \in Open
         /\ \E p \in Poll : /\ polls' = [polls EXCEPT ![n] = p]
                            /\ p.uvot = polls[n].uvot /\ p.nvoti = polls[n].nvoti
                            /\ p.voti = polls[n].voti /\ p.bianche = polls[n].bianche
                            /\ p.conclusa = polls[n].conclusa
  <1>1. n \in Open /\ polls[n] \in Poll
    BY DEF Spst, Sstp, Open, TypeOK, Lists
  <1> DEFINE Same(p) == /\ p \in Poll
                        /\ p.uvot = polls[n].uvot /\ p.nvoti = polls[n].nvoti
                        /\ p.voti = polls[n].voti /\ p.bianche = polls[n].bianche
                        /\ p.conclusa = polls[n].conclusa
  <1>2. SUFFICES \E p : Same(p) /\ polls' = [polls EXCEPT ![n] = p]
    BY <1>1
  <1>3. CASE Sstp(u, n)
    <2>1. Same([polls[n] EXCEPT !.prechiusa = TRUE])
      BY <1>1 DEF Poll
    <2>2. polls' = [polls EXCEPT ![n] = [polls[n] EXCEPT !.prechiusa = TRUE]]
      BY <1>3 DEF Sstp
    <2>3. QED
      BY <2>1, <2>2
  <1>4. CASE Spst(u, n)
    <2>1. PICK stop \in Int : polls' = [polls EXCEPT ![n] = Later(@, stop)]
      <3>1. clock .. MaxTime - Grace \subseteq Int
        BY BoundsAssumption DEF TypeOK
      <3>2. QED
        BY <1>4, <3>1, Zenon DEF Spst
    <2>2. polls[n].posticipo + 1 \in Nat
      BY <1>1 DEF Poll
    <2>3. Same(Later(polls[n], stop))
      BY <1>1, <2>2 DEF Later, Poll
    <2>4. polls' = [polls EXCEPT ![n] = Later(polls[n], stop)]
      BY <2>1
    <2>5. QED
      BY <2>3, <2>4
  <1>5. QED
    BY <1>3, <1>4

\* The poll that Srne opens.
LEMMA Opened ==
  ASSUME TypeOK, NEW u \in Users, Srne(u)
  PROVE  \E p \in Poll : /\ polls' = [polls EXCEPT ![stat.ultima] = p]
                         /\ Counted(p) /\ ~p.conclusa
  <1> DEFINE connected == { v \in Users : stato[v] # "OFF" }
  <1>1. PICK stop \in Int, long \in BOOLEAN :
          polls' = [polls EXCEPT ![stat.ultima] = Seen(NewPoll(stop, long), connected)]
    <2>1. clock + 1 .. MaxTime - Grace \subseteq Int
      BY BoundsAssumption DEF TypeOK
    <2>2. {FALSE} \cup {may("LONG")} \subseteq BOOLEAN
      BY DEF may
    <2>3. QED
      BY <2>1, <2>2, Zenon DEF Srne
  <1>2. connected \in SUBSET Users
    OBVIOUS
  <1> HIDE DEF connected
  <1>3. /\ NewPoll(stop, long) \in Poll /\ Counted(NewPoll(stop, long)) /\ ~NewPoll(stop, long).conclusa
    BY NewPollType
  <1> DEFINE p == Seen(NewPoll(stop, long), connected)
  <1>4. /\ p \in Poll /\ p.uvot = NewPoll(stop, long).uvot /\ p.nvoti = NewPoll(stop, long).nvoti
        /\ p.voti = NewPoll(stop, long).voti /\ p.bianche = NewPoll(stop, long).bianche
        /\ p.conclusa = NewPoll(stop, long).conclusa
    BY <1>2, <1>3, PollOps
  <1>5. Counted(p)
    BY <1>3, <1>4, SameCount
  <1>6. QED
    BY <1>1, <1>3, <1>4, <1>5

\* What happens in a behaviour is settled at its start.
LEMMA CommandsKept == [Next]_vars => commands' = commands
  <1>1. Tick \/ Expire \/ Save \/ CrashRestart \/ UNCHANGED vars => commands' = commands
    BY DEF Tick, Expire, Save, CrashRestart, vars
  <1>2. \A u \in Users : Login(u) \/ Drop(u) \/ Slst(u) \/ Srnb(u) \/ Srne(u) \/ SrneFails(u)
                           \/ SrenNot(u) => commands' = commands
    BY DEF Login, Drop, Slst, Srnb, Srne, SrneFails, SrenNot, VoteOver
  <1>3. \A u \in Users, n \in Numbers :
           Sris(u, n) \/ Sren(u, n) \/ Spst(u, n) \/ Sstp(u, n) \/ Sdel(u, n)
             => commands' = commands
    BY DEF Sris, Sren, VoteOver, Spst, Sstp, Sdel
  <1>4. QED
    BY <1>1, <1>2, <1>3 DEF Next, Command

\* Every variable has its type after every step.
LEMMA NextType == TypeOK /\ [Next]_vars => TypeOK'
  <1> SUFFICES ASSUME TypeOK, [Next]_vars PROVE TypeOK'
    OBVIOUS
  <1> USE DEF TypeOK, States
  <1>1. /\ polls \in [Numbers -> Poll \cup {NoPoll}] /\ Numbers \subseteq Nat
        /\ disk.urne \in Lists /\ disk.numbers \subseteq Numbers /\ disk.stat \in Stat
        /\ \A n \in Open : polls[n] \in Poll
    BY NumbersFinite DEF Lists, Open
  <1>2. CASE Tick
    BY <1>2 DEF Tick, sessions
  <1>3. CASE Expire
    <2>1. ASSUME NEW n \in Numbers, polls[n] # NoPoll
          PROVE  [polls[n] EXCEPT !.conclusa = TRUE] \in Poll
      BY <1>1, <2>1 DEF Poll
    <2>2. \A n \in Numbers : Over(n) => polls[n] # NoPoll
      BY DEF Over, Open
    <2>3. polls' \in Lists
      BY <1>1, <1>3, <2>1, <2>2 DEF Expire, Lists
    <2>4. \A gone : Cancelled(gone) \in Lists
      BY <1>1 DEF Cancelled, Lists
    <2>5. PICK ends \in SUBSET Numbers :
             /\ stat' = [stat EXCEPT !.attive = @ - Cardinality(ends),
                                     !.complete = @ + Cardinality(ends)]
             /\ disk' = [disk EXCEPT !.urne = Cancelled(ends)]
      BY <1>3 DEF Expire
    <2>6. Cardinality(ends) \in Nat
      BY NumbersFinite, FS_Subset, FS_CardinalityType
    <2>7. stat' \in Stat
      <3>1. /\ stat.attive - Cardinality(ends) \in Int
            /\ stat.complete + Cardinality(ends) \in Int
            /\ stat.ultima \in Nat \ {0}
        BY <2>6 DEF Stat
      <3>2. QED
        BY <2>5, <3>1 DEF Stat
    <2>8. QED
      BY <1>3, <2>3, <2>4, <2>5, <2>7 DEF Expire
  <1>4. CASE Save
    BY <1>1, <1>4, SavedType DEF Save, sessions, Open
  <1>5. CASE CrashRestart
    <2>1. polls' \in Lists
      <3>1. ASSUME NEW n \in Numbers PROVE Loaded[n] \in Poll \cup {NoPoll}
        BY <1>1 DEF Loaded, Lists
      <3>2. Loaded \in Lists
        BY <3>1 DEF Loaded, Lists
      <3>3. QED
        BY <1>5, <3>2 DEF CrashRestart
    <2>2. stat' \in Stat
      <3>1. Cardinality({ n \in Numbers : Loaded[n] # NoPoll }) \in Nat
        BY NumbersFinite, FS_Subset, FS_CardinalityType
      <3>2. QED
        BY <1>1, <1>5, <3>1 DEF CrashRestart, Stat
    <2>3. QED
      BY <1>5, <2>1, <2>2 DEF CrashRestart
  <1>6. ASSUME NEW u \in Users, Login(u) \/ Drop(u) \/ Srnb(u) \/ SrneFails(u)
        PROVE  TypeOK'
    BY <1>6 DEF Login, Drop, Srnb, SrneFails
  <1>7. ASSUME NEW u \in Users, Slst(u) PROVE TypeOK'
    <2>1. polls' \in Lists
      BY <1>1, <1>7, PollOps DEF Slst, Lists
    <2>2. QED
      BY <1>7, <2>1 DEF Slst, sessions
  <1>8. ASSUME NEW u \in Users, Srne(u) PROVE TypeOK'
    <2>1. polls' \in Lists
      BY <1>1, <1>8, Opened DEF Lists
    <2>2. stat' \in Stat
      <3>1. /\ stat.attive + 1 \in Int /\ stat.ultima + 1 \in Nat \ {0}
            /\ stat.complete \in Int
        BY DEF Stat
      <3>2. stat' = [stat EXCEPT !.attive = @ + 1, !.ultima = @ + 1]
        BY <1>8 DEF Srne
      <3>3. QED
        BY <3>1, <3>2 DEF Stat
    <2>3. stat.ultima \in Numbers
      BY <1>8 DEF Srne, Numbers
    <2>4. disk' = Saved({stat.ultima}, polls', stat')
      BY <1>8 DEF Srne
    <2>5. disk' \in [numbers : SUBSET Numbers, stat : Stat, urne : Lists]
      BY <2>1, <2>2, <2>3, <2>4, SavedType
    <2>6. QED
      BY <1>8, <2>1, <2>2, <2>5 DEF Srne
  <1>9. ASSUME NEW u \in Users, SrenNot(u) PROVE TypeOK'
    BY <1>9 DEF SrenNot, VoteOver, NotVoting
  <1>10. ASSUME NEW u \in Users, NEW n \in Numbers, Sris(u, n) PROVE TypeOK'
    BY <1>10 DEF Sris
  <1>11. ASSUME NEW u \in Users, NEW n \in Numbers, Sren(u, n) PROVE TypeOK'
    <2>1. PICK p \in Poll : polls' = [polls EXCEPT ![n] = p]
      <3>1. polls[n] \in Poll
        BY <1>1, <1>11 DEF Sren, MayCount
      <3>2. PICK blank \in BOOLEAN :
               \/ polls' = [polls EXCEPT ![n] = WithVote(@, u, blank)]
               \/ polls' = [polls EXCEPT ![n] =
                              [WithVote(@, u, blank) EXCEPT !.uvot = polls[n].uvot]]
        BY <1>11, SrenVotes
      <3>3. QED
        BY <1>1, <3>1, <3>2, VoteType
    <2>2. polls' \in Lists
      BY <1>1, <2>1 DEF Lists
    <2>3. QED
      BY <1>11, <2>2 DEF Sren, VoteOver, NotVoting
  <1>12. ASSUME NEW u \in Users, NEW n \in Numbers, Spst(u, n) \/ Sstp(u, n)
         PROVE  TypeOK'
    <2>1. polls' \in Lists
      BY <1>1, <1>12, Changed DEF Lists
    <2>2. QED
      BY <1>12, <2>1 DEF Spst, Sstp, sessions
  <1>13. ASSUME NEW u \in Users, NEW n \in Numbers, Sdel(u, n) PROVE TypeOK'
    BY <1>1, <1>13 DEF Sdel, sessions, Cancelled, Lists, Stat
  <1>14. CASE UNCHANGED vars
    BY <1>14 DEF vars, sessions
  <1>15. QED
    BY <1>2, <1>3, <1>4, <1>5, <1>6, <1>7, <1>8, <1>9, <1>10, <1>11, <1>12, <1>13,
       <1>14 DEF Next, Command

-----------------------------------------------------------------------------
(***************************************************************************)
(* What ustat says, and what is on disk.                                   *)
(***************************************************************************)

\* What TypeOK says of the polls there are.
LEMMA OpenPolls ==
  ASSUME TypeOK
  PROVE  /\ polls \in [Numbers -> Poll \cup {NoPoll}]
         /\ disk.urne \in [Numbers -> Poll \cup {NoPoll}]
         /\ Open \subseteq Numbers /\ \A n \in Open : polls[n] \in Poll
         /\ IsFiniteSet(Open) /\ Cardinality(Open) \in Nat
         /\ stat.attive \in Int /\ stat.complete \in Int /\ stat.ultima \in Nat \ {0}
         /\ disk.numbers \subseteq Numbers
  <1>1. Open \subseteq Numbers /\ IsFiniteSet(Open)
    BY NumbersFinite, FS_Subset DEF Open
  <1>2. Cardinality(Open) \in Nat
    BY <1>1, FS_CardinalityType
  <1>3. QED
    BY <1>1, <1>2 DEF TypeOK, Lists, Stat, Open

\* A step that opens and closes no poll and takes no vote away.
LEMMA PollsGrow ==
  ASSUME TypeOK, TypeOK', StatExact, UNCHANGED << commands, stat, disk >>,
         \A n \in Numbers : polls'[n] # NoPoll <=> polls[n] # NoPoll,
         \A n \in Open, u \in Users : polls[n].uvot[u] <= polls'[n].uvot[u]
  PROVE  StatExact'
  <1>1. Open' = Open
    BY DEF Open
  <1>2. ASSUME NEW n \in Open, NEW u \in Users
        PROVE  disk.urne[n].uvot[u] <= polls'[n].uvot[u]
    <2>1. n \in disk.numbers /\ disk.urne[n] # NoPoll
      BY DEF StatExact
    <2>2. /\ polls[n] \in Poll /\ polls'[n] \in Poll /\ disk.urne[n] \in Poll
      BY <1>1, <2>1, OpenPolls DEF TypeOK, Lists, Open
    <2>3. /\ polls[n].uvot[u] \in Nat /\ polls'[n].uvot[u] \in Nat
          /\ disk.urne[n].uvot[u] \in Nat
      BY <2>2 DEF Poll
    <2>4. disk.urne[n].uvot[u] <= polls[n].uvot[u] /\ polls[n].uvot[u] <= polls'[n].uvot[u]
      BY DEF StatExact
    <2>5. QED
      BY <2>3, <2>4
  <1>3. QED
    BY <1>1, <1>2 DEF StatExact, Readable

\* When polls end their files are gone and they are counted out.
LEMMA PollsEnd ==
  ASSUME TypeOK, StatExact, NEW ends \in SUBSET Open,
         \A n \in ends : polls'[n] = NoPoll,
         \A n \in Numbers \ ends : /\ polls'[n] # NoPoll <=> polls[n] # NoPoll
                                   /\ polls[n] # NoPoll => polls'[n].uvot = polls[n].uvot,
         stat'.attive = stat.attive - Cardinality(ends), stat'.ultima = stat.ultima,
         commands' = commands,
         disk' = [disk EXCEPT !.urne = Cancelled(ends)]
  PROVE  StatExact'
  <1>1. Open' = Open \ ends
    BY DEF Open
  <1>2. Cardinality(Open') = Cardinality(Open) - Cardinality(ends)
    <2>1. Open \cap ends = ends
      OBVIOUS
    <2>2. IsFiniteSet(Open)
      BY OpenPolls
    <2>3. Cardinality(Open \ ends) = Cardinality(Open) - Cardinality(Open \cap ends)
      BY <2>2, FS_Difference
    <2>4. QED
      BY <1>1, <2>1, <2>3
  <1>3. /\ disk'.numbers = disk.numbers /\ disk'.stat = disk.stat
        /\ \A n \in Numbers : disk'.urne[n] = IF n \in ends THEN NoPoll ELSE disk.urne[n]
    BY DEF Cancelled, TypeOK
  <1>4. /\ \A n \in Open \ ends : n \in disk'.numbers /\ disk'.urne[n] # NoPoll
        /\ \A n \in disk'.numbers \ (Open \ ends) :
              disk'.urne[n] # NoPoll => ~Readable(disk'.urne[n])
    BY <1>3, OpenPolls DEF StatExact
  <1>5. ASSUME NEW n \in Open \ ends, NEW u \in Users
        PROVE  disk'.urne[n].uvot[u] <= polls'[n].uvot[u]
    BY <1>3, OpenPolls DEF StatExact, Open
  <1>6. QED
    BY <1>1, <1>2, <1>3, <1>4, <1>5, OpenPolls DEF StatExact, Readable

\* Saving the polls in which leaves none behind if the others are on disk already.
LEMMA SavedExact ==
  ASSUME TypeOK, TypeOK', StatExact, NEW which \in SUBSET Numbers,
         disk' = Saved(which, polls', stat'),
         which \subseteq Open',
         \A n \in Open' \ which : n \in Open /\ polls'[n] = polls[n],
         stat'.attive = Cardinality(Open'),
         \A n \in Open' : n < stat'.ultima
  PROVE  StatExact'
  <1>1. /\ disk'.numbers = Open' /\ disk'.stat = stat'
        /\ \A n \in Numbers : disk'.urne[n] = IF n \in which THEN OnFile(polls'[n])
                                              ELSE disk.urne[n]
    BY DEF Saved, Open
  <1>2. \A n \in Open' : polls'[n] \in Poll
    BY OpenPolls DEF TypeOK, Lists, Open
  <1>3. ASSUME NEW n \in which
        PROVE  disk'.urne[n] # NoPoll /\ disk'.urne[n].uvot = polls'[n].uvot
    BY <1>1, <1>2, PollOps
  <1>4. ASSUME NEW n \in Open' \ which
        PROVE  /\ disk'.urne[n] # NoPoll
               /\ \A u \in Users : disk'.urne[n].uvot[u] <= polls'[n].uvot[u]
    <2>1. n \in Open /\ n \in Numbers /\ disk'.urne[n] = disk.urne[n]
      BY <1>1 DEF Open
    <2>2. disk.urne[n] # NoPoll
      BY <2>1 DEF StatExact
    <2>3. QED
      BY <2>1, <2>2 DEF StatExact
  <1>5. \A n \in which, u \in Users : polls'[n].uvot[u] <= polls'[n].uvot[u]
    BY <1>2 DEF Poll
  <1>6. /\ \A n \in Open' : n \in disk'.numbers /\ disk'.urne[n] # NoPoll
        /\ disk'.numbers \ Open' = {}
    BY <1>1, <1>3, <1>4
  <1>7. ASSUME NEW n \in Open', NEW u \in Users
        PROVE  disk'.urne[n].uvot[u] <= polls'[n].uvot[u]
    BY <1>3, <1>4, <1>5
  <1>8. QED
    BY <1>1, <1>6, <1>7 DEF StatExact

\* What ustat says and what is on disk agree with the polls after every step.
LEMMA NextStat == TypeOK /\ TypeOK' /\ StatExact /\ [Next]_vars => StatExact'
  <1> SUFFICES ASSUME TypeOK, TypeOK', StatExact, [Next]_vars PROVE StatExact'
    OBVIOUS
  <1>0. commands' = commands
    BY CommandsKept
  <1>1. ASSUME UNCHANGED << polls, stat, disk >> PROVE StatExact'
    BY <1>0, <1>1 DEF StatExact, Open, Readable
  <1>2. CASE Tick \/ UNCHANGED vars
    BY <1>1, <1>2 DEF Tick, vars
  <1>3. CASE Expire
    <2> DEFINE over == { n \in Numbers : Over(n) }
               ends == { n \in over : ~Lingers(n) }
    <2>1. /\ \A n \in Numbers :
                polls'[n] = IF n \in ends THEN NoPoll
                            ELSE IF n \in over THEN [polls[n] EXCEPT !.conclusa = TRUE]
                            ELSE polls[n]
          /\ stat' = [stat EXCEPT !.attive = @ - Cardinality(ends),
                                  !.complete = @ + Cardinality(ends)]
          /\ disk' = [disk EXCEPT !.urne = Cancelled(ends)]
      BY <1>3 DEF Expire
    <2>2. over \subseteq Open /\ ends \in SUBSET Open
      BY DEF Over
    <2>3. ASSUME NEW n \in Numbers \ ends
          PROVE  /\ polls'[n] # NoPoll <=> polls[n] # NoPoll
                 /\ polls[n] # NoPoll => polls'[n].uvot = polls[n].uvot
      <3>1. CASE n \in over
        <4>1. polls[n] \in Poll /\ polls'[n] = [polls[n] EXCEPT !.conclusa = TRUE]
          BY <2>1, <2>2, <2>3, <3>1, OpenPolls
        <4>2. polls'[n] \in Poll /\ polls'[n].uvot = polls[n].uvot
          BY <4>1 DEF Poll
        <4>3. QED
          BY <4>1, <4>2, NoPollAssumption
      <3>2. CASE n \notin over
        BY <2>1, <2>3, <3>2
      <3>3. QED
        BY <3>1, <3>2
    <2>4. stat'.attive = stat.attive - Cardinality(ends) /\ stat'.ultima = stat.ultima
      BY <2>1 DEF TypeOK, Stat
    <2>5. \A n \in ends : polls'[n] = NoPoll
      BY <2>1
    <2> HIDE DEF over, ends
    <2>6. QED
      BY <1>0, <2>1, <2>2, <2>3, <2>4, <2>5, PollsEnd
  <1>4. CASE Save
    <2>1. disk' = Saved(Open, polls', stat') /\ polls' = polls /\ stat' = stat
      BY <1>4 DEF Save
    <2>2. Open' = Open
      BY <2>1 DEF Open
    <2>3. Open \in SUBSET Numbers /\ Open \subseteq Open' /\ Open' \ Open = {}
      BY <2>2, OpenPolls
    <2>4. stat'.attive = Cardinality(Open') /\ \A n \in Open' : n < stat'.ultima
      BY <2>1, <2>2 DEF StatExact
    <2>5. QED
      BY <2>1, <2>3, <2>4, SavedExact
  <1>5. CASE CrashRestart
    <2>1. /\ polls' = Loaded /\ disk' = disk
          /\ stat' = [disk.stat EXCEPT
                        !.attive = Cardinality({ n \in Numbers : Loaded[n] # NoPoll })]
      BY <1>5 DEF CrashRestart
    <2> DEFINE Kept(n) == n \in disk.numbers /\ disk.urne[n] # NoPoll /\ Readable(disk.urne[n])
    <2>2. \A n \in Numbers : polls'[n] = IF Kept(n) THEN disk.urne[n] ELSE NoPoll
      BY <2>1 DEF Loaded
    <2>3. Open' = { n \in disk.numbers : Kept(n) }
      BY <2>2, OpenPolls DEF Open
    <2>4. stat'.attive = Cardinality(Open') /\ stat'.ultima = disk.stat.ultima
      BY <2>1 DEF Open, TypeOK, Stat
    <2>5. ASSUME NEW n \in Open', NEW u \in Users
          PROVE  disk'.urne[n].uvot[u] <= polls'[n].uvot[u]
      <3>1. polls'[n] = disk.urne[n] /\ polls'[n] \in Poll
        BY <2>2, <2>3, OpenPolls
      <3>2. polls'[n].uvot[u] \in Nat
        BY <3>1 DEF Poll
      <3>3. QED
        BY <2>1, <3>1, <3>2
    <2>6. \A n \in Open' : n \in Open
      BY <2>3 DEF StatExact
    <2>7. \A n \in disk'.numbers \ Open' : disk'.urne[n] # NoPoll => ~Readable(disk'.urne[n])
      BY <2>1, <2>3
    <2>8. QED
      BY <1>0, <2>1, <2>3, <2>4, <2>5, <2>6, <2>7 DEF StatExact, Readable
  <1>6. ASSUME NEW u \in Users,
               \/ Login(u) \/ Drop(u) \/ Srnb(u) \/ SrneFails(u) \/ SrenNot(u)
               \/ \E n \in Numbers : Sris(u, n)
        PROVE  StatExact'
    BY <1>1, <1>6 DEF Login, Drop, Srnb, SrneFails, SrenNot, VoteOver, Sris
  <1>7. ASSUME NEW n \in Open, NEW p \in Poll, polls' = [polls EXCEPT ![n] = p],
               \A u \in Users : polls[n].uvot[u] <= p.uvot[u],
               UNCHANGED << stat, disk >>
        PROVE  StatExact'
    <2>1. \A m \in Numbers : polls'[m] = IF m = n THEN p ELSE polls[m]
      BY <1>7, OpenPolls
    <2>2. \A m \in Numbers : polls'[m] # NoPoll <=> polls[m] # NoPoll
      BY <2>1, NoPollAssumption DEF Open
    <2>3. ASSUME NEW m \in Open, NEW u \in Users
          PROVE  polls[m].uvot[u] <= polls'[m].uvot[u]
      <3>1. polls[m].uvot[u] \in Nat /\ m \in Numbers
        BY OpenPolls DEF Poll
      <3>2. QED
        BY <1>7, <2>1, <3>1
    <2>4. QED
      BY <1>0, <1>7, <2>2, <2>3, PollsGrow
  <1>8. ASSUME NEW u \in Users, Slst(u) PROVE StatExact'
    <2>1. UNCHANGED << stat, disk >>
      BY <1>8 DEF Slst
    <2>2. ASSUME NEW n \in Numbers
          PROVE  /\ polls'[n] # NoPoll <=> polls[n] # NoPoll
                 /\ n \in Open => polls'[n].uvot = polls[n].uvot
      <3>1. polls'[n] = polls[n] \/ (n \in Open /\ polls'[n] = Seen(polls[n], {u}))
        <4>1. polls'[n] = IF n \in Open /\ Accepts(polls[n])
                          THEN Seen(polls[n], {u}) ELSE polls[n]
          BY <1>8 DEF Slst
        <4>2. CASE n \in Open /\ Accepts(polls[n])
          BY <4>1, <4>2
        <4>3. CASE ~(n \in Open /\ Accepts(polls[n]))
          BY <4>1, <4>3
        <4>4. QED
          BY <4>2, <4>3
      <3>2. n \in Open => /\ Seen(polls[n], {u}) \in Poll /\ polls[n] \in Poll
                          /\ Seen(polls[n], {u}).uvot = polls[n].uvot
        BY OpenPolls, PollOps
      <3>3. QED
        BY <3>1, <3>2, NoPollAssumption
    <2>3. ASSUME NEW n \in Open, NEW v \in Users
          PROVE  polls[n].uvot[v] <= polls'[n].uvot[v]
      <3>1. polls[n].uvot[v] \in Nat
        BY OpenPolls DEF Poll
      <3>2. QED
        BY <2>2, <3>1, OpenPolls
    <2>4. QED
      BY <1>0, <2>1, <2>2, <2>3, PollsGrow
  <1>9. ASSUME NEW u \in Users, Srne(u) PROVE StatExact'
    <2> DEFINE n == stat.ultima
    <2>1. n \in Numbers
      BY <1>9 DEF Srne, Numbers, TypeOK
    <2>2. PICK p \in Poll : polls' = [polls EXCEPT ![n] = p]
      BY <1>9, Opened
    <2>3. n \notin Open
      BY OpenPolls DEF StatExact
    <2>4. Open' = Open \cup {n}
      BY <2>1, <2>2, OpenPolls, NoPollAssumption DEF Open
    <2>5. Cardinality(Open') = Cardinality(Open) + 1
      BY <2>3, <2>4, OpenPolls, FS_AddElement
    <2>6. stat'.attive = stat.attive + 1 /\ stat'.ultima = n + 1
      BY <1>9 DEF Srne, TypeOK, Stat
    <2>7. stat'.attive = Cardinality(Open')
      BY <2>5, <2>6 DEF StatExact
    <2>8. \A m \in Open' : m < stat'.ultima
      <3>1. n \in Nat /\ n < n + 1
        BY OpenPolls
      <3>2. \A m \in Open : m \in Nat /\ m < n
        BY OpenPolls, NumbersFinite DEF StatExact
      <3>3. QED
        BY <2>4, <2>6, <3>1, <3>2
    <2>9. \A m \in Open' \ {n} : m \in Open /\ polls'[m] = polls[m]
      BY <2>2, <2>4, OpenPolls
    <2>10. disk' = Saved({n}, polls', stat')
      BY <1>9 DEF Srne
    <2> HIDE DEF n
    <2>11. QED
      BY <2>1, <2>4, <2>7, <2>8, <2>9, <2>10, SavedExact
  <1>10. ASSUME NEW u \in Users, NEW n \in Numbers, Sren(u, n) PROVE StatExact'
    <2>1. n \in Open /\ UNCHANGED << stat, disk >> /\ polls[n] \in Poll
      BY <1>10, OpenPolls DEF Sren, MayCount, VoteOver
    <2>2. PICK blank \in BOOLEAN :
             \/ polls' = [polls EXCEPT ![n] = WithVote(@, u, blank)]
             \/ polls' = [polls EXCEPT ![n] =
                            [WithVote(@, u, blank) EXCEPT !.uvot = polls[n].uvot]]
      BY <1>10, SrenVotes
    <2>3. CASE polls' = [polls EXCEPT ![n] = WithVote(@, u, blank)]
      <3>1. polls' = [polls EXCEPT ![n] = WithVote(polls[n], u, blank)]
        BY <2>3
      <3>2. QED
        BY <1>7, <2>1, <3>1, VoteType
    <2>4. CASE polls' = [polls EXCEPT ![n] =
                           [WithVote(@, u, blank) EXCEPT !.uvot = polls[n].uvot]]
      <3> DEFINE q == [WithVote(polls[n], u, blank) EXCEPT !.uvot = polls[n].uvot]
      <3>1. q \in Poll /\ WithVote(polls[n], u, blank) \in Poll
        BY <2>1, VoteType
      <3>2. q.uvot = polls[n].uvot
        BY <3>1 DEF Poll
      <3>3. \A v \in Users : polls[n].uvot[v] <= q.uvot[v]
        BY <2>1, <3>2 DEF Poll
      <3>4. polls' = [polls EXCEPT ![n] = q]
        BY <2>4
      <3> HIDE DEF q
      <3>5. QED
        BY <1>7, <2>1, <3>1, <3>3, <3>4
    <2>5. QED
      BY <2>2, <2>3, <2>4
  <1>11. ASSUME NEW u \in Users, NEW n \in Numbers, Spst(u, n) \/ Sstp(u, n)
         PROVE  StatExact'
    <2>1. n \in Open /\ UNCHANGED << stat, disk >> /\ polls[n] \in Poll
      BY <1>11, OpenPolls DEF Spst, Sstp
    <2>2. PICK p \in Poll : polls' = [polls EXCEPT ![n] = p] /\ p.uvot = polls[n].uvot
      BY <1>11, Changed
    <2>3. \A v \in Users : polls[n].uvot[v] <= p.uvot[v]
      BY <2>1, <2>2 DEF Poll
    <2>4. QED
      BY <1>7, <2>1, <2>2, <2>3
  <1>12. ASSUME NEW u \in Users, NEW n \in Numbers, Sdel(u, n) PROVE StatExact'
    <2>1. n \in Open /\ polls' = [polls EXCEPT ![n] = NoPoll]
          /\ stat' = [stat EXCEPT !.attive = @ - 1]
          /\ disk' = [disk EXCEPT !.urne = Cancelled({n})]
      BY <1>12 DEF Sdel
    <2>2. \A m \in Numbers : polls'[m] = IF m = n THEN NoPoll ELSE polls[m]
      BY <2>1, OpenPolls
    <2>3. Cardinality({n}) = 1
      BY FS_Singleton
    <2>4. stat'.attive = stat.attive - Cardinality({n}) /\ stat'.ultima = stat.ultima
      BY <2>1, <2>3 DEF TypeOK, Stat
    <2>5. /\ {n} \in SUBSET Open
          /\ \A m \in {n} : polls'[m] = NoPoll
          /\ \A m \in Numbers \ {n} : polls'[m] = polls[m]
      BY <2>1, <2>2
    <2>6. QED
      BY <1>0, <2>1, <2>4, <2>5, PollsEnd
  <1>13. QED
    BY <1>2, <1>3, <1>4, <1>5, <1>6, <1>8, <1>9, <1>10, <1>11, <1>12 DEF Next, Command

\* Polls that are over are counted in memory first.
LEMMA NextSaved == TypeOK /\ SavedBefore /\ [Next]_vars => SavedBefore'
  <1> SUFFICES ASSUME TypeOK, SavedBefore, [Next]_vars PROVE SavedBefore'
    OBVIOUS
  <1>1. disk.stat \in Stat /\ disk.stat.complete \in Int /\ stat \in Stat /\ stat.complete \in Int
    BY DEF TypeOK, Stat
  <1>2. CASE Expire
    <2>1. PICK ends \in SUBSET Numbers :
             /\ stat' = [stat EXCEPT !.attive = @ - Cardinality(ends),
                                     !.complete = @ + Cardinality(ends)]
             /\ disk' = [disk EXCEPT !.urne = Cancelled(ends)]
      BY <1>2 DEF Expire
    <2>2. Cardinality(ends) \in Nat
      BY NumbersFinite, FS_Subset, FS_CardinalityType
    <2>3. stat'.complete = stat.complete + Cardinality(ends) /\ disk'.stat = disk.stat
      BY <1>1, <2>1 DEF TypeOK, Stat
    <2>4. QED
      BY <1>1, <2>2, <2>3 DEF SavedBefore
  <1>3. CASE Save
    BY <1>1, <1>3 DEF Save, Saved, SavedBefore
  <1>4. CASE CrashRestart
    BY <1>1, <1>4 DEF CrashRestart, SavedBefore, Stat
  <1>5. ASSUME NEW u \in Users, Srne(u) PROVE SavedBefore'
    <2>1. disk'.stat = stat' /\ stat'.complete = stat.complete
      BY <1>1, <1>5 DEF Srne, Saved, Stat
    <2>2. QED
      BY <1>1, <2>1 DEF SavedBefore
  <1>6. ASSUME NEW u \in Users, NEW n \in Numbers, Sdel(u, n) PROVE SavedBefore'
    <2>1. disk'.stat = disk.stat /\ stat'.complete = stat.complete
      BY <1>1, <1>6 DEF Sdel, TypeOK, Stat
    <2>2. QED
      BY <2>1 DEF SavedBefore
  <1>7. CASE Tick \/ UNCHANGED vars
    BY <1>7 DEF Tick, vars, SavedBefore
  <1>8. ASSUME NEW u \in Users, Command(u), ~Srne(u), ~\E n \in Numbers : Sdel(u, n)
        PROVE  SavedBefore'
    BY <1>8 DEF Command, Login, Drop, Slst, Srnb, SrneFails, SrenNot, VoteOver, Sris,
                Sren, Spst, Sstp, SavedBefore
  <1>9. QED
    BY <1>2, <1>3, <1>4, <1>5, <1>6, <1>7, <1>8 DEF Next

-----------------------------------------------------------------------------
(***************************************************************************)
(* The ballots, and those who vote.                                        *)
(***************************************************************************)

\* Without votes that fit nowhere, every step leaves the ballots of all polls
\* counted, in memory and on disk.
LEMMA NextCounted ==
  TypeOK /\ StatExact /\ AllCounted /\ [Next]_vars => AllCounted'
  <1> SUFFICES ASSUME TypeOK, StatExact, AllCounted, [Next]_vars
               PROVE  AllCounted'
    OBVIOUS
  <1> SUFFICES ASSUME "CROWD" \notin commands, NEW n \in Numbers
               PROVE  /\ polls'[n] # NoPoll => Counted(polls'[n])
                      /\ disk'.urne[n] # NoPoll => Counted(disk'.urne[n])
    BY CommandsKept DEF AllCounted
  <1>1. /\ polls[n] # NoPoll => Counted(polls[n]) /\ polls[n] \in Poll
        /\ disk.urne[n] # NoPoll => Counted(disk.urne[n])
        /\ polls \in [Numbers -> Poll \cup {NoPoll}]
    BY OpenPolls DEF AllCounted
  <1>2. ASSUME UNCHANGED << polls, disk >>
        PROVE  /\ polls'[n] # NoPoll => Counted(polls'[n])
               /\ disk'.urne[n] # NoPoll => Counted(disk'.urne[n])
    BY <1>1, <1>2
  <1>3. ASSUME NEW which, polls'[n] # NoPoll => Counted(polls'[n]) /\ polls'[n] \in Poll,
               disk' = Saved(which, polls', stat')
        PROVE  disk'.urne[n] # NoPoll => Counted(disk'.urne[n])
    <2>1. disk'.urne[n] = IF n \in which THEN OnFile(polls'[n]) ELSE disk.urne[n]
      BY <1>3 DEF Saved
    <2>2. polls'[n] # NoPoll => Counted(OnFile(polls'[n]))
      BY <1>3, PollOps, SameCount
    <2>3. polls'[n] = NoPoll => OnFile(polls'[n]) = NoPoll
      BY DEF OnFile
    <2>4. QED
      BY <1>1, <2>1, <2>2, <2>3
  <1>4. CASE Tick \/ UNCHANGED vars
    BY <1>2, <1>4 DEF Tick, vars
  <1>5. CASE Expire
    <2>1. \/ polls'[n] = NoPoll \/ polls'[n] = polls[n]
          \/ n \in Open /\ polls'[n] = [polls[n] EXCEPT !.conclusa = TRUE]
      BY <1>5 DEF Expire, Over
    <2>2. n \in Open => Counted([polls[n] EXCEPT !.conclusa = TRUE])
      <3>1. SUFFICES ASSUME n \in Open PROVE Counted([polls[n] EXCEPT !.conclusa = TRUE])
        OBVIOUS
      <3>2. polls[n] \in Poll /\ Counted(polls[n])
        BY <1>1, <3>1 DEF Open
      <3>3. QED
        BY <3>2 DEF Counted, Poll
    <2>3. disk'.urne[n] = NoPoll \/ disk'.urne[n] = disk.urne[n]
      BY <1>5 DEF Expire, Cancelled, TypeOK
    <2>4. QED
      BY <1>1, <2>1, <2>2, <2>3
  <1>6. CASE Save
    BY <1>1, <1>3, <1>6 DEF Save
  <1>7. CASE CrashRestart
    BY <1>1, <1>7 DEF CrashRestart, Loaded
  <1>8. ASSUME NEW u \in Users,
               \/ Login(u) \/ Drop(u) \/ Srnb(u) \/ SrneFails(u) \/ SrenNot(u)
               \/ \E m \in Numbers : Sris(u, m)
        PROVE  UNCHANGED << polls, disk >>
    BY <1>8 DEF Login, Drop, Srnb, SrneFails, SrenNot, VoteOver, Sris
  <1>9. ASSUME NEW u \in Users, Slst(u)
        PROVE  /\ polls'[n] # NoPoll => Counted(polls'[n])
               /\ disk'.urne[n] # NoPoll => Counted(disk'.urne[n])
    <2>1. disk' = disk
      BY <1>9 DEF Slst
    <2>2. polls'[n] = IF n \in Open /\ Accepts(polls[n])
                      THEN Seen(polls[n], {u}) ELSE polls[n]
      BY <1>9 DEF Slst
    <2>3. n \in Open => Counted(Seen(polls[n], {u}))
      BY <1>1, PollOps, SameCount DEF Open
    <2>4. QED
      BY <1>1, <2>1, <2>2, <2>3
  <1>10. ASSUME NEW u \in Users, Srne(u)
         PROVE  /\ polls'[n] # NoPoll => Counted(polls'[n])
                /\ disk'.urne[n] # NoPoll => Counted(disk'.urne[n])
    <2>1. PICK p \in Poll : polls' = [polls EXCEPT ![stat.ultima] = p] /\ Counted(p)
      BY <1>10, Opened
    <2>2. polls'[n] # NoPoll => Counted(polls'[n]) /\ polls'[n] \in Poll
      BY <1>1, <2>1
    <2>3. disk' = Saved({stat.ultima}, polls', stat')
      BY <1>10 DEF Srne
    <2>4. QED
      BY <1>3, <2>2, <2>3
  <1>11. ASSUME NEW u \in Users, NEW m \in Numbers, Sren(u, m)
         PROVE  /\ polls'[n] # NoPoll => Counted(polls'[n])
                /\ disk'.urne[n] # NoPoll => Counted(disk'.urne[n])
    <2>1. PICK blank \in BOOLEAN : polls' = [polls EXCEPT ![m] = WithVote(@, u, blank)]
      BY <1>11, SrenVotes DEF may
    <2>2. /\ disk' = disk /\ polls[m] \in Poll /\ polls[m] # NoPoll
          /\ ~HaVotato(polls[m], u)
      BY <1>11, OpenPolls DEF Sren, MayCount, VoteOver, Open
    <2>3. Counted(polls[m])
      BY <2>2 DEF AllCounted
    <2>4. Counted(WithVote(polls[m], u, blank))
      BY <2>2, <2>3, VoteCounted
    <2>5. polls'[n] = IF n = m THEN WithVote(polls[m], u, blank) ELSE polls[n]
      BY <1>1, <2>1
    <2>6. QED
      BY <1>1, <2>2, <2>4, <2>5
  <1>12. ASSUME NEW u \in Users, NEW m \in Numbers, Spst(u, m) \/ Sstp(u, m)
         PROVE  /\ polls'[n] # NoPoll => Counted(polls'[n])
                /\ disk'.urne[n] # NoPoll => Counted(disk'.urne[n])
    <2>1. disk' = disk /\ m \in Open
      BY <1>12, Changed DEF Spst, Sstp
    <2>2. Counted(polls[m])
      BY <2>1 DEF AllCounted, Open
    <2>3. PICK p \in Poll : polls' = [polls EXCEPT ![m] = p] /\ Counted(p)
      BY <1>12, <2>2, Changed, SameCount
    <2>4. QED
      BY <1>1, <2>1, <2>3
  <1>13. ASSUME NEW u \in Users, NEW m \in Numbers, Sdel(u, m)
         PROVE  /\ polls'[n] # NoPoll => Counted(polls'[n])
                /\ disk'.urne[n] # NoPoll => Counted(disk'.urne[n])
    BY <1>1, <1>13 DEF Sdel, Cancelled, TypeOK
  <1>14. QED
    BY <1>2, <1>4, <1>5, <1>6, <1>7, <1>8, <1>9, <1>10, <1>11, <1>12, <1>13
       DEF Next, Command

\* Every step leaves those who vote on the list, and told if their poll is closing.
LEMMA NextListed ==
  TypeOK /\ VotersListed /\ [Next]_vars => VotersListed'
  <1> SUFFICES ASSUME TypeOK, VotersListed, [Next]_vars,
                      NEW v \in Users, NEW k \in Numbers, voting'[v] = k
               PROVE  /\ stato'[v] = "VOTO" /\ votanti'[v] = k
                      /\ polls'[k] # NoPoll /\ polls'[k].conclusa => v \in warned'
    BY DEF VotersListed
  <1>1. /\ voting[v] = k => /\ stato[v] = "VOTO" /\ votanti[v] = k
                            /\ polls[k] # NoPoll /\ polls[k].conclusa => v \in warned
        /\ polls \in [Numbers -> Poll \cup {NoPoll}]
        /\ votanti \in [Users -> Numbers \cup {None}]
        /\ voting \in [Users -> Numbers \cup {None}] /\ stato \in [Users -> States]
        /\ None \notin Numbers
    BY NumbersFinite DEF VotersListed, TypeOK, Lists, None
  <1>2. ASSUME UNCHANGED sessions, UNCHANGED votanti,
               polls'[k] # NoPoll /\ polls'[k].conclusa => polls[k] # NoPoll /\ polls[k].conclusa
        PROVE  /\ stato'[v] = "VOTO" /\ votanti'[v] = k
               /\ polls'[k] # NoPoll /\ polls'[k].conclusa => v \in warned'
    BY <1>1, <1>2 DEF sessions
  <1>3. CASE Tick \/ Save \/ UNCHANGED vars
    BY <1>2, <1>3 DEF Tick, Save, vars
  <1>4. CASE Expire
    <2>1. voting[v] = k /\ stato'[v] = stato[v] /\ votanti'[v] = votanti[v]
      BY <1>4 DEF Expire
    <2>2. \/ polls'[k] = NoPoll \/ polls'[k] = polls[k]
          \/ Over(k)
      BY <1>4 DEF Expire
    <2>3. Over(k) => v \in warned'
      BY <1>1, <1>4, <2>1 DEF Expire
    <2>4. warned \subseteq warned'
      BY <1>4 DEF Expire
    <2>5. QED
      BY <1>1, <2>1, <2>2, <2>3, <2>4
  <1>5. CASE CrashRestart
    BY <1>1, <1>5 DEF CrashRestart
  <1>6. ASSUME NEW u \in Users,
               Login(u) \/ Drop(u) \/ Srnb(u) \/ SrneFails(u) \/ SrenNot(u)
        PROVE  /\ stato'[v] = "VOTO" /\ votanti'[v] = k
               /\ polls'[k] # NoPoll /\ polls'[k].conclusa => v \in warned'
    <2>1. /\ polls' = polls /\ \A w \in Users \ {u} : /\ stato'[w] = stato[w]
                                                      /\ voting'[w] = voting[w]
                                                      /\ votanti'[w] = votanti[w]
          /\ warned \ {u} \subseteq warned'
      BY <1>1, <1>6 DEF Login, Drop, Srnb, SrneFails, SrenNot, VoteOver, NotVoting
    <2>2. v # u
      <3>1. CASE Login(u) \/ Srnb(u) \/ SrneFails(u)
        BY <1>1, <3>1 DEF Login, Srnb, SrneFails
      <3>2. CASE Drop(u) \/ SrenNot(u)
        BY <1>1, <3>2 DEF Drop, SrenNot, VoteOver
      <3>3. QED
        BY <1>6, <3>1, <3>2
    <2>3. QED
      BY <1>1, <2>1, <2>2
  <1>7. ASSUME NEW u \in Users, Slst(u)
        PROVE  /\ stato'[v] = "VOTO" /\ votanti'[v] = k
               /\ polls'[k] # NoPoll /\ polls'[k].conclusa => v \in warned'
    <2>1. polls'[k] = polls[k] \/ ~polls'[k].conclusa
      <3>1. polls'[k] = IF k \in Open /\ Accepts(polls[k])
                        THEN Seen(polls[k], {u}) ELSE polls[k]
        BY <1>7 DEF Slst
      <3>2. k \in Open /\ Accepts(polls[k]) => ~Seen(polls[k], {u}).conclusa
        BY OpenPolls, PollOps DEF Accepts
      <3>3. QED
        BY <3>1, <3>2
    <2>2. QED
      BY <1>2, <1>7, <2>1 DEF Slst
  <1>8. ASSUME NEW u \in Users, Srne(u)
        PROVE  /\ stato'[v] = "VOTO" /\ votanti'[v] = k
               /\ polls'[k] # NoPoll /\ polls'[k].conclusa => v \in warned'
    <2>1. PICK p \in Poll : polls' = [polls EXCEPT ![stat.ultima] = p] /\ ~p.conclusa
      BY <1>8, Opened
    <2>2. polls'[k] = polls[k] \/ ~polls'[k].conclusa
      BY <1>1, <2>1
    <2>3. /\ stato' = [stato EXCEPT ![u] = "COMANDI"] /\ stato[u] = "PARM"
          /\ voting' = voting /\ votanti' = votanti /\ warned' = warned
      BY <1>8 DEF Srne
    <2>4. QED
      BY <1>1, <2>2, <2>3
  <1>9. ASSUME NEW u \in Users, NEW n \in Numbers, Sris(u, n)
        PROVE  /\ stato'[v] = "VOTO" /\ votanti'[v] = k
               /\ polls'[k] # NoPoll /\ polls'[k].conclusa => v \in warned'
    BY <1>1, <1>9 DEF Sris, Accepts
  <1>10. ASSUME NEW u \in Users, NEW n \in Numbers, Sren(u, n)
         PROVE  /\ stato'[v] = "VOTO" /\ votanti'[v] = k
                /\ polls'[k] # NoPoll /\ polls'[k].conclusa => v \in warned'
    <2>1. n \in Open /\ polls[n] \in Poll /\ polls[n] # NoPoll
      BY <1>10, OpenPolls DEF Sren, MayCount, Open
    <2>2. PICK p : polls' = [polls EXCEPT ![n] = p] /\ p.conclusa = polls[n].conclusa
      <3>1. PICK blank \in BOOLEAN :
               \/ polls' = [polls EXCEPT ![n] = WithVote(@, u, blank)]
               \/ polls' = [polls EXCEPT ![n] =
                              [WithVote(@, u, blank) EXCEPT !.uvot = polls[n].uvot]]
        BY <1>10, SrenVotes
      <3> DEFINE p == WithVote(polls[n], u, blank)
                 q == [WithVote(polls[n], u, blank) EXCEPT !.uvot = polls[n].uvot]
      <3>2. p \in Poll /\ p.conclusa = polls[n].conclusa
        BY <2>1, VoteType
      <3>3. q.conclusa = polls[n].conclusa
        BY <3>2 DEF Poll
      <3>4. polls' = [polls EXCEPT ![n] = p] \/ polls' = [polls EXCEPT ![n] = q]
        BY <3>1
      <3> HIDE DEF p, q
      <3>5. QED
        BY <3>2, <3>3, <3>4
    <2>3. v # u /\ voting[v] = k
      BY <1>1, <1>10 DEF Sren, VoteOver
    <2>4. stato'[v] = stato[v] /\ votanti'[v] = votanti[v] /\ warned \ {u} \subseteq warned'
      BY <1>1, <1>10, <2>3 DEF Sren, VoteOver, NotVoting
    <2>5. polls'[k] = polls[k] \/ (k = n /\ polls'[k].conclusa = polls[k].conclusa)
      BY <1>1, <2>2
    <2>6. QED
      BY <1>1, <2>1, <2>3, <2>4, <2>5
  <1>11. ASSUME NEW u \in Users, NEW n \in Numbers, Spst(u, n) \/ Sstp(u, n)
         PROVE  /\ stato'[v] = "VOTO" /\ votanti'[v] = k
                /\ polls'[k] # NoPoll /\ polls'[k].conclusa => v \in warned'
    <2>1. polls[n] # NoPoll /\ \E p \in Poll : /\ polls' = [polls EXCEPT ![n] = p]
                                               /\ p.conclusa = polls[n].conclusa
      BY <1>11, Changed DEF Open
    <2>2. polls'[k] = polls[k] \/ (k = n /\ polls'[k].conclusa = polls[k].conclusa)
      BY <1>1, <2>1
    <2>3. UNCHANGED sessions /\ UNCHANGED votanti
      BY <1>11 DEF Spst, Sstp
    <2>4. QED
      BY <1>2, <2>1, <2>2, <2>3
  <1>12. ASSUME NEW u \in Users, NEW n \in Numbers, Sdel(u, n)
         PROVE  /\ stato'[v] = "VOTO" /\ votanti'[v] = k
                /\ polls'[k] # NoPoll /\ polls'[k].conclusa => v \in warned'
    BY <1>1, <1>2, <1>12 DEF Sdel
  <1>13. QED
    BY <1>3, <1>4, <1>5, <1>6, <1>7, <1>8, <1>9, <1>10, <1>11, <1>12 DEF Next, Command

-----------------------------------------------------------------------------
(***************************************************************************)
(* The theorems.                                                           *)
(***************************************************************************)

\* Before the first login there are no polls and nobody votes.
LEMMA InitEstablishes == Init => IInv
  <1> SUFFICES ASSUME Init PROVE IInv
    OBVIOUS
  <1>1. TypeOK
    BY DEF Init, TypeOK, Stat, Lists, States
  <1>2. Open = {}
    BY DEF Init, Open
  <1>3. StatExact /\ SavedBefore
    BY <1>2, FS_EmptySet DEF Init, StatExact, SavedBefore
  <1>4. AllCounted
    BY DEF Init, AllCounted
  <1>5. VotersListed
    BY NumbersFinite DEF Init, VotersListed, None
  <1>6. QED
    BY <1>1, <1>3, <1>4, <1>5 DEF IInv

\* Every step keeps the invariant.
LEMMA NextPreserves == IInv /\ [Next]_vars => IInv'
  BY NextType, NextStat, NextSaved, NextCounted, NextListed DEF IInv

\* The inductive invariant of the polls.
THEOREM PollsInvariant == Spec => []IInv
  BY InitEstablishes, NextPreserves, PTL DEF Spec

\* As many ballots are counted as voters are noted, and nobody is noted twice
\* (rs_vota, rs_ha_votato), as long as the slots hold the voters.
THEOREM VotesCounted == Spec => []CountedOnce
  <1>1. IInv => CountedOnce
    BY DEF IInv, AllCounted, Counted, CountedOnce, Open
  <1>2. QED
    BY <1>1, PollsInvariant, PTL

\* What ustat says of the polls is what there is, and what a crash would leave but
\* for the polls that load_urna refuses (save_stat, rs_del, load_urne).
THEOREM StatOfPolls == Spec => []StatExact
  <1>1. IInv => StatExact
    BY DEF IInv
  <1>2. QED
    BY <1>1, PollsInvariant, PTL

\* rs_expire ends no poll on which somebody is voting whom it has not told.
THEOREM WarnedFirst == Spec => WarnedBeforeEnd
  <1> DEFINE Warned == \A n \in Open :
                         polls'[n] = NoPoll /\ stat'.complete > stat.complete =>
                           \A u \in Users : voting[u] = n => u \in warned
  <1>1. ASSUME IInv, Next PROVE Warned
    <2> SUFFICES ASSUME NEW n \in Open, polls'[n] = NoPoll, stat'.complete > stat.complete,
                        NEW u \in Users, voting[u] = n
                 PROVE  u \in warned
      OBVIOUS
    <2>1. /\ TypeOK /\ StatExact /\ VotersListed /\ n \in Numbers /\ polls[n] # NoPoll
      BY <1>1 DEF IInv, Open
    <2>3. stat.complete \in Int /\ ~(stat.complete > stat.complete)
      BY <2>1, OpenPolls
    <2>4. CASE Expire
      <3>1. votanti[u] = n
        BY <2>1 DEF VotersListed
      <3>2. n \in Numbers /\ ~Lingers(n)
        <4>1. polls'[n] = IF Over(n) /\ ~Lingers(n) THEN NoPoll
                          ELSE IF Over(n) THEN [polls[n] EXCEPT !.conclusa = TRUE]
                          ELSE polls[n]
          BY <2>1, <2>4 DEF Expire
        <4>2. [polls[n] EXCEPT !.conclusa = TRUE] # NoPoll
          <5>1. polls[n] \in Poll
            BY <2>1, OpenPolls
          <5>2. [polls[n] EXCEPT !.conclusa = TRUE] \in Poll
            BY <5>1 DEF Poll
          <5>3. QED
            BY <5>2, NoPollAssumption
        <4>3. QED
          BY <2>1, <4>1, <4>2
      <3>3. polls[n].conclusa
        BY <3>1, <3>2 DEF Lingers, VotersOf
      <3>4. QED
        BY <2>1, <3>3 DEF VotersListed
    <2>5. CASE CrashRestart
      <3>1. stat'.complete = disk.stat.complete /\ disk.stat.complete \in Int
        BY <2>1, <2>5 DEF CrashRestart, TypeOK, Stat
      <3>2. disk.stat.complete <= stat.complete
        BY <1>1 DEF IInv, SavedBefore
      <3>3. QED
        BY <2>3, <3>1, <3>2
    <2>6. CASE Tick \/ Save \/ \E v \in Users : Command(v)
      <3>1. stat'.complete = stat.complete
        <4>1. ASSUME NEW v \in Users, Srne(v) \/ \E m \in Numbers : Sdel(v, m)
              PROVE  stat'.complete = stat.complete
          BY <2>1, <4>1 DEF Srne, Sdel, TypeOK, Stat
        <4>2. ASSUME NEW v \in Users, Command(v), ~Srne(v), ~\E m \in Numbers : Sdel(v, m)
              PROVE  stat' = stat
          BY <4>2 DEF Command, Login, Drop, Slst, Srnb, SrneFails, SrenNot, VoteOver,
                      Sris, Sren, Spst, Sstp
        <4>3. QED
          BY <2>6, <4>1, <4>2 DEF Tick, Save
      <3>2. QED
        BY <2>3, <3>1
    <2>7. QED
      BY <1>1, <2>4, <2>5, <2>6 DEF Next
  <1>2. IInv /\ [Next]_vars => [Warned]_vars
    BY <1>1
  <1>3. QED
    BY <1>2, PollsInvariant, PTL DEF Spec, WarnedBeforeEnd
=============================================================================
