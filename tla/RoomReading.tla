---------------------------- MODULE RoomReading ----------------------------
(***************************************************************************)
(* A user who reads a room while the others post, delete and move posts    *)
(* (server/src/messaggi.c: cmd_read, msg_send, new_msg; march.c: cmd_goto).*)
(* The server remembers of the reader the last post shown (lastread) and,  *)
(* per room, up to which post all is read (fullroom).  It finds the next   *)
(* post by its number each time, in the list as it is by then.             *)
(***************************************************************************)
EXTENDS RoomMessages, FiniteSetsExt

CONSTANTS
  Here,      \* the room that is read, a plain one
  Overwrites \* TRUE: the message file is full, new posts destroy old ones

ASSUME ReadingAssumption == /\ Here \in Rooms \ {Dump}
                            /\ Overwrites \in BOOLEAN
                            /\ \A C \in CommandSets : "RDEL" \notin C

VARIABLES
  lowest,    \* fm_lowest: older posts are overwritten
  inside,    \* the reader is in the room
  lastread,  \* struct sessione: last post shown
  rdir,      \* struct sessione: direction of reading
  newmsg,    \* struct sessione: fullroom as it was on entering
  fullroom   \* fullroom of this room for this user

readerVars  == << inside, lastread, rdir, newmsg, fullroom >>
readingVars == << vars, lowest, readerVars >>

List == Slots(Here)

\* fm_seek, fm_get: posts the message file still yields.
Readable(num) == num >= lowest /\ num \notin dead

Posts == { num \in Nums(Here) : Readable(num) }

-----------------------------------------------------------------------------
(***************************************************************************)
(* Which slot a READ shows; 0 if there is none.                            *)
(***************************************************************************)
First(S) == IF S = {} THEN 0 ELSE Min(S)
Last(S)  == IF S = {} THEN 0 ELSE Max(S)

NotOverwritten == { i \in DOMAIN List : List[i].num >= lowest }

\* Mode 0.
Forward == First(NotOverwritten)

\* Mode 1; with UT_LASTOLD the last post read is shown once more.
New(lastold) ==
  First({ i \in NotOverwritten : \/ List[i].num > fullroom
                                 \/ lastold /\ List[i].num = fullroom })

\* Mode 2.
Reverse == IF Len(List) \in NotOverwritten THEN Len(List) ELSE 0

\* Modes 5 and 6.
LastN(n) == First({ i \in NotOverwritten : i > Len(List) - n })

\* Mode 7.
Number(local) == First({ i \in DOMAIN List : List[i].local = local })

\* Slip: the post after the next one.
NextSlotSkips(dir) ==
  IF dir > 0
  THEN First({ i \in DOMAIN List : List[i].num > lastread + 1 })
  ELSE Last({ i \in DOMAIN List : List[i].num < lastread })

\* Slip: the post shown last is found again.
NextSlotStays(dir) ==
  IF dir > 0
  THEN First({ i \in DOMAIN List : List[i].num >= lastread })
  ELSE Last({ i \in DOMAIN List : List[i].num < lastread })

\* Modes 10 and 11.  Only backwards are overwritten posts left out.
NextSlot(dir) ==
  IF dir > 0
  THEN First({ i \in DOMAIN List : List[i].num > lastread })
  ELSE LET i == Last({ j \in DOMAIN List : List[j].num < lastread })
       IN  IF i \in NotOverwritten THEN i ELSE 0

\* Mode 12.
Again == First({ i \in DOMAIN List : List[i].num = lastread })

-----------------------------------------------------------------------------
(***************************************************************************)
(* Reading.                                                                *)
(***************************************************************************)
\* msg_send: the post in slot i is shown, or an error, which leaves lastread
\* alone.  A post the message file no longer yields may still be in the cache
\* of posts (cp_get), or not.  Only mode 1 reads fullroom before it is compared;
\* in the other modes an uninitialised variable decides whether fullroom follows.
Show(i, new) ==
  \/ /\ i # 0 /\ List[i].num > 0
     /\ lastread' = List[i].num
     /\ \/ ~new /\ fullroom' = fullroom
        \/ ~new /\ fullroom' = List[i].num
        \/ new  /\ fullroom' = Max({fullroom, List[i].num})
  \/ /\ i # 0 => ~Readable(List[i].num)
     /\ UNCHANGED << lastread, fullroom >>

Reads == inside /\ UNCHANGED << vars, lowest, inside, newmsg >>

ReadNew ==
  /\ Reads
  /\ \E lastold \in BOOLEAN : Show(New(lastold), TRUE)
  /\ rdir' = 1

ReadForward ==
  /\ Reads
  /\ \/ Show(Forward, FALSE)
     \/ \E n \in 0 .. Len(List) : Show(LastN(n), FALSE)
     \/ \E local \in 0 .. MaxNum[commands] : Show(Number(local), FALSE)
  /\ rdir' = 1

ReadReverse == Reads /\ Show(Reverse, FALSE) /\ rdir' = -1

ReadNext == Reads /\ Show(NextSlot(rdir), FALSE) /\ UNCHANGED rdir

ReadBack == Reads /\ Show(NextSlot(-rdir), FALSE) /\ rdir' = -rdir

ReadAgain == Reads /\ Show(Again, FALSE) /\ UNCHANGED rdir

\* Mode 3 (Brief), and any mode the switch does not know: which slot is shown is
\* left to an uninitialised variable.
ReadBrief ==
  /\ Reads
  /\ \E i \in 0 .. Len(List) : Show(i, FALSE)
  /\ UNCHANGED rdir

\* cmd_goto, away from the room: everything counts as read (goto), or as much
\* as on entering (skip), or as shown (abandon), or fullroom stays.
Leave ==
  /\ inside
  /\ inside' = FALSE
  /\ fullroom' \in { msg[Here].highmsg, newmsg, Max({fullroom, lastread}),
                     fullroom }
  /\ lastread' = 0
  /\ UNCHANGED << vars, lowest, rdir, newmsg >>

\* cmd_goto, into the room.
Enter ==
  /\ ~inside
  /\ inside' = TRUE
  /\ lastread' = 0
  /\ newmsg' = fullroom
  /\ UNCHANGED << vars, lowest, rdir, fullroom >>

\* The others.  New posts may overwrite old ones, in the order of their
\* numbers, never themselves.
Others ==
  /\ Next
  /\ IF Overwrites /\ highest' > highest
     THEN lowest' \in lowest .. highest'
     ELSE UNCHANGED lowest
  /\ UNCHANGED readerVars

ReadingInit ==
  /\ Init
  /\ lowest = 1
  /\ inside = FALSE
  /\ lastread = 0
  /\ rdir = 0
  /\ newmsg = 0
  /\ fullroom = 0

ReadingNext == \/ ReadNew  \/ ReadForward \/ ReadReverse \/ ReadNext
               \/ ReadBack \/ ReadAgain   \/ ReadBrief
               \/ Leave    \/ Enter       \/ Others

ReadingSpec == ReadingInit /\ [][ReadingNext]_readingVars

-----------------------------------------------------------------------------
(***************************************************************************)
(* Properties.                                                             *)
(***************************************************************************)
\* new_msg, which sends the user to the rooms with new posts.
NewMsg == fullroom < msg[Here].highmsg

\* Every post of a room raised its highmsg: MOVE and COPY bring in posts that do
\* not, RLEN sets it to 0, a refused post sets it to -1, and after a restart
\* UNDELETE may bring a post back to a room it does not come from.
NothingElsewhere ==
  /\ {"MOVE", "COPY", "MOVE_TO_DUMP", "COPY_TO_DUMP", "RESIZE", "POST_LONG"}
       \cap commands = {}
  /\ "UNDELETE" \in commands => "CRASH" \notin commands

\* "Restituisce 1 se ci sono nuovi messaggi in r per t, altrimenti 0"
\* (new_msg): no post that could be read is kept from the user.
NewMsgTells == (\E num \in Posts : num > fullroom) => NewMsg

\* That is so for posts that were written in the room.
NewMsgSeen == NothingElsewhere => NewMsgTells

\* No post is brought into the room from elsewhere, so that the posts stand in
\* the order of their numbers.  (msg_move and msg_copy push down the post in
\* slot 2 even if it is a later one than theirs.)
NothingBrought == {"UNDELETE", "MOVE", "COPY"} \cap commands = {}

\* A user who reads on gets on: while the room holds a later post that can be
\* read, READ 10 finds one (and not one that is gone from the message file, and
\* stays in front of it), whatever the others did since the last READ.  This is
\* so until the message file begins to overwrite posts, or a restart brings back
\* the list with posts that were deleted since it was saved.
NextDelivers ==
  (/\ NothingBrought /\ "CRASH" \notin commands /\ lowest = 1
   /\ inside /\ rdir = 1 /\ lastread > 0
   /\ \E num \in Posts : num > lastread)
    => LET i == NextSlot(rdir)
       IN  i # 0 /\ Readable(List[i].num) /\ List[i].num > lastread

\* Reading on shows every post: a step from one post to a later one leaves out
\* none that lies between them.
NothingSkipped ==
  [][NothingBrought /\ ReadNext /\ rdir = 1
       => ~ \E num \in Posts : lastread < num /\ num < lastread']_readingVars

\* "... il numero di messaggi rimanenti" (cmd_read): READ announces as many
\* more posts as there are slots after the one shown, and so many there are, if
\* none of them is the hole of a post that was refused.
RemainingRight ==
  NothingBrought /\ "POST_LONG" \notin commands =>
  \A i \in DOMAIN List : List[i].num > 0 =>
     Cardinality({ j \in DOMAIN List : List[j].num > List[i].num })
       = Len(List) - i
=============================================================================
