----------------------------- MODULE Referendum -----------------------------
(***************************************************************************)
(* Polls (server/src/urna-*.c and the commands in x.c).  A user opens a    *)
(* poll, which is saved at once; the others begin to vote (SRIS), which    *)
(* puts them on the list of those who are voting, and send their ballot    *)
(* (SREN).  Every five minutes the main loop looks which polls are over:   *)
(* whoever is voting then is warned and has one more round, and the poll   *)
(* ends with its results.  The votes are saved now and then; list and      *)
(* sessions are lost in a crash, and polls whose files load_urna refuses.  *)
(*                                                                         *)
(* Left out: titles, letters, the text of the results, proposals.  Valid   *)
(* ballots are counted together, whatever they say.                        *)
(***************************************************************************)
EXTENDS Integers, FiniteSets

CONSTANTS
  Users,      \* who may vote
  MaxPolls,   \* what may happen, in one behaviour or another (a set of
              \* commands), and how many polls there are in it
  MaxTime,    \* when the clock of the model stops: a bound of the model
  Grace,      \* URNA_LASCIA_VOTARE
  Postponed,  \* MAX_POSTICIPI
  MaxActive,  \* MAX_REFERENDUM
  LenSlots,   \* LEN_SLOTS
  MaxUtenti,  \* MAX_UTENTI, of each behaviour: more voters or viewers of a poll
              \* are never refused, but its file then is
  MaxVotes, MaxCrashes, \* of a poll, and of a behaviour: bounds of the model
  NoPoll      \* no such poll

\* BAD: polls and ballots that are refused; BLANK: blank ballots (bianca); CROWD:
\* more votes than there are slots for; LONG: choices as long as MAXLEN_VOCE.
AllCommands ==
  {"DROP", "BAD", "BLANK", "SPST", "SSTP", "SDEL", "SAVE", "CRASH", "CROWD", "LONG"}

CommandSets == DOMAIN MaxPolls
Numbers     == UNION { 1 .. MaxPolls[c] : c \in CommandSets }
None        == 0

ASSUME BoundsAssumption ==
  /\ MaxPolls \in [CommandSets -> Nat] /\ MaxUtenti \in [CommandSets -> Nat]
  /\ MaxTime \in Nat /\ Grace \in Nat /\ Postponed \in Nat
  /\ MaxActive \in Nat /\ LenSlots \in Nat \ {0}
  /\ MaxVotes \in Nat /\ MaxCrashes \in Nat
ASSUME UsersAssumption    == IsFiniteSet(Users)
ASSUME CommandsAssumption == CommandSets \subseteq SUBSET AllCommands

\* struct urna_dati, and of the poll whether it is closing.
Poll == [stop : Int, posticipo : Nat, conclusa : BOOLEAN, prechiusa : BOOLEAN,
         nvoti : Nat, uvot : [Users -> Nat], voti : Nat, bianche : Nat,
         visti : SUBSET Users, slots : Nat, long : BOOLEAN]

ASSUME NoPollAssumption == NoPoll \notin Poll

VARIABLES
  commands, \* what happens in this behaviour; it never changes
  clock,    \* time()
  polls,    \* urna_testa: of each number, the poll
  stat,     \* ustat: attive, complete, ultima_urna
  votanti,  \* ustat.votanti: of each user, the poll he is listed as voting on
  stato,    \* of each user's session: its state
  voting,   \* for the properties: the poll each session began to vote on
  warned,   \* for the properties: who was told since then that it is closing
  disk,     \* the files of the polls
  crashes   \* how many there were

sessions == << stato, voting, warned >>
vars == << commands, clock, polls, stat, votanti, sessions, disk, crashes >>

may(c) == c \in commands

\* Operators introduced as a `slip' are no part of the program: each is a
\* plausible mistake in the definition after it that a property must notice.

-----------------------------------------------------------------------------
(***************************************************************************)
(* The polls.                                                              *)
(***************************************************************************)
Open == { n \in Numbers : polls[n] # NoPoll }

\* rs_new_ucf and rs_new_udt; long, if one of its choices fills its place, which
\* rs_ucf_parm allows.
NewPoll(stop, long) ==
  [stop |-> stop, posticipo |-> 0, conclusa |-> FALSE, prechiusa |-> FALSE,
   nvoti |-> 0, uvot |-> [u \in Users |-> 0], voti |-> 0, bianche |-> 0,
   visti |-> {}, slots |-> 1, long |-> long]

\* rs_ha_visto by the users in who.  rs_add_slots gives the voters a slot more
\* if theirs are full, and only when somebody sees the poll for the first time.
Seen(p, who) ==
  [p EXCEPT !.visti = @ \cup who,
            !.slots = IF who \subseteq p.visti \/ p.nvoti < @ * LenSlots THEN @
                      ELSE @ + 1]

\* SRIS and SLST pass over polls that are closing.
Accepts(p) == ~p.conclusa /\ ~p.prechiusa

\* Slip: the first of the voters is not looked at.
HaVotatoNotFirst(p, u) == p.nvoti > 1 /\ p.uvot[u] > 0

\* rs_ha_votato.
HaVotato(p, u) == p.uvot[u] > 0

\* Whether the slots hold one voter more.
Fits(p) == p.nvoti < p.slots * LenSlots

\* rs_add_vote.
WithVote(p, u, blank) ==
  [p EXCEPT !.nvoti = @ + 1,
            !.uvot[u] = @ + 1,
            !.bianche = IF blank THEN @ + 1 ELSE @,
            !.voti = IF blank THEN @ ELSE @ + 1]

\* The flags are not saved.
OnFile(p) == IF p = NoPoll THEN p
             ELSE [p EXCEPT !.conclusa = FALSE, !.prechiusa = FALSE]

\* Slip: the files of a poll that is over are left where they are.
CancelledNot(gone) == disk.urne

\* rs_del: the files go at once.
Cancelled(gone) ==
  [n \in Numbers |-> IF n \in gone THEN NoPoll ELSE disk.urne[n]]

\* del_votante.
NotVoting(u) == [votanti EXCEPT ![u] = None]

\* cerca_votante.
VotersOf(n) == { u \in Users : votanti[u] = n }

-----------------------------------------------------------------------------
(***************************************************************************)
(* Sessions.                                                               *)
(***************************************************************************)
Login(u) ==
  /\ stato[u] = "OFF"
  /\ stato' = [stato EXCEPT ![u] = "COMANDI"]
  /\ UNCHANGED << commands, clock, polls, stat, votanti, voting, warned, disk,
                  crashes >>

\* The session ends, whatever its user is doing; he stays on the list.
Drop(u) ==
  /\ may("DROP") /\ stato[u] # "OFF"
  /\ stato' = [stato EXCEPT ![u] = "OFF"]
  /\ voting' = [voting EXCEPT ![u] = None]
  /\ warned' = warned \ {u}
  /\ UNCHANGED << commands, clock, polls, stat, votanti, disk, crashes >>

\* cmd_slst of the polls one may vote on.
Slst(u) ==
  /\ stato[u] = "COMANDI"
  /\ polls' = [n \in Numbers |-> IF n \in Open /\ Accepts(polls[n])
                                 THEN Seen(polls[n], {u}) ELSE polls[n]]
  /\ UNCHANGED << commands, clock, stat, votanti, sessions, disk, crashes >>

-----------------------------------------------------------------------------
(***************************************************************************)
(* Opening a poll, and changing it.                                        *)
(***************************************************************************)
\* cmd_srnb: who is about to open a poll is not counted.
Srnb(u) ==
  /\ stato[u] = "COMANDI"
  /\ stat.attive < MaxActive
  /\ stat.ultima \in 1 .. MaxPolls[commands]
  /\ stato' = [stato EXCEPT ![u] = "PARM"]
  /\ UNCHANGED << commands, clock, polls, stat, votanti, voting, warned, disk,
                  crashes >>

\* cmd_srne given up or refused.
SrneFails(u) ==
  /\ may("BAD") /\ stato[u] = "PARM"
  /\ stato' = [stato EXCEPT ![u] = "COMANDI"]
  /\ UNCHANGED << commands, clock, polls, stat, votanti, voting, warned, disk,
                  crashes >>

\* What save_stat and save_urna of the polls in which write.
Saved(which, list, st) ==
  [numbers |-> { n \in Numbers : list[n] # NoPoll },
   stat    |-> st,
   urne    |-> [n \in Numbers |-> IF n \in which THEN OnFile(list[n])
                                  ELSE disk.urne[n]]]

\* cmd_srne, rs_new: those who are connected have seen the poll.
Srne(u) ==
  LET n == stat.ultima
      connected == { v \in Users : stato[v] # "OFF" }
  IN  /\ stato[u] = "PARM" /\ n \in 1 .. MaxPolls[commands]
      /\ \E stop \in clock + 1 .. MaxTime - Grace, long \in {FALSE} \cup {may("LONG")} :
            polls' = [polls EXCEPT ![n] = Seen(NewPoll(stop, long), connected)]
      /\ stat' = [stat EXCEPT !.attive = @ + 1, !.ultima = @ + 1]
      /\ disk' = Saved({n}, polls', stat')
      /\ stato' = [stato EXCEPT ![u] = "COMANDI"]
      /\ UNCHANGED << commands, clock, votanti, voting, warned, crashes >>

\* rs_postpone.
Later(p, stop) == [p EXCEPT !.stop = stop, !.posticipo = @ + 1]

\* cmd_spst; a poll that is closing goes on closing.
Spst(u, n) ==
  /\ may("SPST") /\ stato[u] = "COMANDI"
  /\ n \in Open /\ ~polls[n].prechiusa
  /\ polls[n].posticipo <= Postponed
  /\ \E stop \in clock .. MaxTime - Grace :
        /\ stop >= polls[n].stop
        /\ polls' = [polls EXCEPT ![n] = Later(@, stop)]
  /\ UNCHANGED << commands, clock, stat, votanti, sessions, disk, crashes >>

\* cmd_sstp.
Sstp(u, n) ==
  /\ may("SSTP") /\ stato[u] = "COMANDI"
  /\ n \in Open
  /\ polls' = [polls EXCEPT ![n].prechiusa = TRUE]
  /\ UNCHANGED << commands, clock, stat, votanti, sessions, disk, crashes >>

\* cmd_sdel: whoever is voting will find out.
Sdel(u, n) ==
  /\ may("SDEL") /\ stato[u] = "COMANDI"
  /\ n \in Open
  /\ polls' = [polls EXCEPT ![n] = NoPoll]
  /\ stat' = [stat EXCEPT !.attive = @ - 1]
  /\ disk' = [disk EXCEPT !.urne = Cancelled({n})]
  /\ UNCHANGED << commands, clock, votanti, sessions, crashes >>

-----------------------------------------------------------------------------
(***************************************************************************)
(* Voting.                                                                 *)
(***************************************************************************)
\* cmd_sris, rs_inizia_voto: an older entry of the user is replaced.
Sris(u, n) ==
  /\ stato[u] = "COMANDI"
  /\ n \in Open /\ Accepts(polls[n]) /\ ~HaVotato(polls[n], u)
  /\ votanti' = [votanti EXCEPT ![u] = n]
  /\ stato' = [stato EXCEPT ![u] = "VOTO"]
  /\ voting' = [voting EXCEPT ![u] = n]
  /\ UNCHANGED << commands, clock, polls, stat, warned, disk, crashes >>

\* The end of cmd_sren: counted or not, the user votes no longer.
VoteOver(u) ==
  /\ stato[u] = "VOTO"
  /\ votanti' = NotVoting(u)
  /\ stato' = [stato EXCEPT ![u] = "COMANDI"]
  /\ voting' = [voting EXCEPT ![u] = None]
  /\ warned' = warned \ {u}
  /\ UNCHANGED << commands, clock, stat, disk, crashes >>

\* urna_vota gets as far as the ballot.
MayCount(u, n) == votanti[u] = n /\ n \in Open /\ ~HaVotato(polls[n], u)

\* urna_vota: the vote is counted, also while the poll is closing.  One that has
\* no slot is written behind them, and may be found there again or not.
Sren(u, n) ==
  /\ VoteOver(u)
  /\ MayCount(u, n) /\ polls[n].nvoti < MaxVotes
  /\ \E blank \in {FALSE} \cup {may("BLANK")} :
        \/ /\ Fits(polls[n]) \/ may("CROWD")
           /\ polls' = [polls EXCEPT ![n] = WithVote(@, u, blank)]
        \/ /\ ~Fits(polls[n]) /\ may("CROWD")
           /\ polls' = [polls EXCEPT ![n] =
                          [WithVote(@, u, blank) EXCEPT !.uvot = polls[n].uvot]]

\* The poll is over, the ballot is wrong, another poll was named, or the user
\* changed his mind.
SrenNot(u) ==
  /\ VoteOver(u)
  /\ may("BAD") \/ votanti[u] \notin Open
  /\ UNCHANGED polls

-----------------------------------------------------------------------------
(***************************************************************************)
(* The main loop, and what outlives it.                                    *)
(***************************************************************************)
Tick ==
  /\ clock < MaxTime
  /\ clock' = clock + 1
  /\ UNCHANGED << commands, polls, stat, votanti, sessions, disk, crashes >>

\* Whose time is over; while somebody votes it is Grace longer.
Over(n) ==
  /\ n \in Open
  /\ \/ clock >= polls[n].stop + (IF VotersOf(n) = {} THEN 0 ELSE Grace)
     \/ polls[n].prechiusa

\* Slip: a poll that is over ends whoever is voting.
LingersNot(n) == FALSE

\* Slip: it lingers as long as somebody is on the list.
LingersOn(n) == VotersOf(n) # {}

\* Those who are voting have one more round.
Lingers(n) == VotersOf(n) # {} /\ ~polls[n].conclusa

\* rs_expire, rs_end, rs_del.
Expire ==
  LET over == { n \in Numbers : Over(n) }
      ends == { n \in over : ~Lingers(n) }
  IN  /\ polls' = [n \in Numbers |->
                     IF n \in ends THEN NoPoll
                     ELSE IF n \in over THEN [polls[n] EXCEPT !.conclusa = TRUE]
                     ELSE polls[n]]
      /\ stat' = [stat EXCEPT !.attive = @ - Cardinality(ends),
                              !.complete = @ + Cardinality(ends)]
      /\ disk' = [disk EXCEPT !.urne = Cancelled(ends)]
      /\ warned' = warned \cup { u \in Users : stato[u] = "VOTO" /\ votanti[u] \in over }
      /\ UNCHANGED << commands, clock, votanti, stato, voting, crashes >>

\* save_urne(1), of crash_save_perfavore.
Save ==
  /\ may("SAVE")
  /\ disk' = Saved(Open, polls, stat)
  /\ UNCHANGED << commands, clock, polls, stat, votanti, sessions, crashes >>

\* load_voci refuses a choice that with its end is longer than MAXLEN_VOCE,
\* load_dati too many voters or viewers.
Readable(p) == /\ ~p.long
               /\ p.nvoti <= MaxUtenti[commands]
               /\ Cardinality(p.visti) <= MaxUtenti[commands]

\* load_urne: the polls of the list whose files are there and readable.  Those of
\* the others stay where they are.
Loaded ==
  [n \in Numbers |->
     IF n \in disk.numbers /\ disk.urne[n] # NoPoll /\ Readable(disk.urne[n])
     THEN disk.urne[n] ELSE NoPoll]

CrashRestart ==
  /\ may("CRASH") /\ crashes < MaxCrashes
  /\ crashes' = crashes + 1
  /\ polls' = Loaded
  /\ stat' = [disk.stat EXCEPT
                !.attive = Cardinality({ n \in Numbers : Loaded[n] # NoPoll })]
  /\ votanti' = [u \in Users |-> None]
  /\ stato' = [u \in Users |-> "OFF"]
  /\ voting' = [u \in Users |-> None]
  /\ warned' = {}
  /\ UNCHANGED << commands, clock, disk >>

Init ==
  /\ commands \in CommandSets
  /\ clock = 0
  /\ polls = [n \in Numbers |-> NoPoll]
  /\ stat = [attive |-> 0, complete |-> 0, ultima |-> 1]
  /\ votanti = [u \in Users |-> None]
  /\ stato = [u \in Users |-> "OFF"]
  /\ voting = [u \in Users |-> None]
  /\ warned = {}
  /\ disk = [numbers |-> {}, stat |-> stat, urne |-> polls]
  /\ crashes = 0

Command(u) ==
  \/ Login(u) \/ Drop(u) \/ Slst(u)
  \/ Srnb(u)  \/ Srne(u) \/ SrneFails(u) \/ SrenNot(u)
  \/ \E n \in Numbers : \/ Sris(u, n) \/ Sren(u, n)
                        \/ Spst(u, n) \/ Sstp(u, n) \/ Sdel(u, n)

Next == Tick \/ Expire \/ Save \/ CrashRestart \/ \E u \in Users : Command(u)

\* Time passes, and the main loop looks at the polls every five minutes.
Fairness == WF_vars(Tick) /\ WF_vars(Expire)

Spec == Init /\ [][Next]_vars /\ Fairness

-----------------------------------------------------------------------------
(***************************************************************************)
(* Properties.                                                             *)
(***************************************************************************)
\* As many ballots are counted as voters are noted, and nobody is noted twice:
\* however often a user begins to vote, is thrown out, comes back, or the server
\* starts again from what was saved; as long as the slots hold the voters.
CountedOnce ==
  "CROWD" \notin commands =>
    \A n \in Open : LET p == polls[n]
                    IN  /\ \A u \in Users : p.uvot[u] <= 1
                        /\ p.nvoti = Cardinality({ u \in Users : p.uvot[u] > 0 })
                        /\ p.nvoti = p.voti + p.bianche

\* What ustat says of the polls is what there is ("ridondato dal fatto che quelli
\* non attivi sono NULL", urna-strutture.h), and so it will be after a crash: the
\* files of every poll are on the list and there, and those of no other that
\* load_urna would take, so that only polls it refuses are lost and none comes
\* back; no number is given out again, and no vote is found that was not cast.
StatExact ==
  /\ stat.attive = Cardinality(Open)
  /\ disk.stat.ultima = stat.ultima /\ \A n \in Open : n < stat.ultima
  /\ \A n \in Open : n \in disk.numbers /\ disk.urne[n] # NoPoll
  /\ \A n \in disk.numbers \ Open : disk.urne[n] # NoPoll => ~Readable(disk.urne[n])
  /\ \A n \in Open, u \in Users : disk.urne[n].uvot[u] <= polls[n].uvot[u]

\* A poll that comes to its end (rs_end) while somebody is voting has told him
\* since he began that it is closing (message 861), and a round before.
WarnedBeforeEnd ==
  [][\A n \in Open : polls'[n] = NoPoll /\ stat'.complete > stat.complete =>
       \A u \in Users : voting[u] = n => u \in warned]_vars

\* Every poll ends, though users begin to vote and never go on, or are lost while
\* they vote and stay on the list.
PollEnds == \A n \in Numbers : n \in Open ~> n \notin Open
=============================================================================
