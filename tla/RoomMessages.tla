---------------------------- MODULE RoomMessages ----------------------------
(***************************************************************************)
(* The lists of posts of the rooms (server/src/rooms.c, messaggi.c,        *)
(* cestino.c, room_ops.c).  A room has maxmsg slots; slot 1 is the oldest  *)
(* and a slot without a post holds -1.  A new post pushes the others down  *)
(* one slot; moves, copies and the waste basket (Cestino) push a post in   *)
(* by number.  dump_undelete, an array that runs beside the slots of the   *)
(* Cestino, remembers which room each post was thrown out of.              *)
(*                                                                         *)
(* Each command is served in one piece.  The lists live in memory and go   *)
(* to one file per room when crash_save_perfavore runs, if they are marked *)
(* dirty; dump_undelete is always written.                                 *)
(*                                                                         *)
(* There is one message file (see MessageFile), of which this module keeps *)
(* the last number given and which posts are marked deleted.  Mail has     *)
(* lists of its own and is left out, and so are blogs.                     *)
(***************************************************************************)
EXTENDS Integers, Sequences

CONSTANTS
  Rooms,     \* rooms, none of them a mail room
  Dump,      \* the Cestino (dump_room)
  Aide,      \* where notices are posted (aide_room); NoRoom if there is none
  NoRoom,    \* no room
  Lengths,   \* numbers of slots a room can have
  MaxNum,    \* bound of the model: the highest post number issued, for each
             \* set of commands that a behaviour may be made of
  MaxSaves,  \* bound of the model: how often the server saves its data
  MaxCrashes \* bound of the model: how often the server dies

AllCommands == {"DELETE", "DUMP", "UNDELETE", "MOVE", "MOVE_TO_DUMP", "COPY",
                "COPY_TO_DUMP", "RESIZE", "RDEL",
                "POST_LONG", \* a post whose header is too long for fm_put
                "SAVE",      \* the server saves its data
                "CRASH"}     \* it dies and is started again

\* What may happen besides posting, in one behaviour or another.
CommandSets == DOMAIN MaxNum

ASSUME RoomsAssumption    == /\ Dump \in Rooms /\ NoRoom \notin Rooms
                             /\ Aide \in (Rooms \ {Dump}) \cup {NoRoom}
\* cmd_rlen refuses less than 2.
ASSUME LengthsAssumption  == Lengths \subseteq Nat \ {0, 1}
ASSUME BoundsAssumption   == /\ CommandSets \subseteq SUBSET AllCommands
                             /\ MaxNum \in [CommandSets -> Nat]
                             /\ {MaxSaves, MaxCrashes} \subseteq Nat

VARIABLES
  commands, \* what happens in this behaviour; it never changes
  rooms,   \* lista_room: the rooms that exist
  msg,     \* struct msg_list of each room
  dump,    \* dump_undelete
  highest, \* struct file_msg: the last number given
  dead,    \* the posts the message file marks deleted
  disk,    \* what was saved last
  saves,   \* how often the server saved its data (bounds the model)
  crashes  \* how often it died (bounds the model)

diskVars == << disk, saves, crashes >>
vars == << commands, rooms, msg, dump, highest, dead, diskVars >>

\* Operators introduced as a `slip' are no part of the program: each is a
\* plausible mistake in the definition after it that a property must notice.

\* A slot; home is there for the properties only: the room the post in it was
\* thrown out of.
Free == [num |-> -1, local |-> -1, home |-> NoRoom]

Slots(r) == msg[r].slots
Nums(r)  == { Slots(r)[i].num : i \in DOMAIN Slots(r) } \ {-1}

-----------------------------------------------------------------------------
(***************************************************************************)
(* Operations on one list of slots.                                        *)
(***************************************************************************)
\* msg_create.
Empty(n) == [i \in 1 .. n |-> Free]

\* msg_scroll, and the new post in the last slot.
Scrolled(s, slot) == [i \in DOMAIN s |-> IF i = Len(s) THEN slot ELSE s[i + 1]]

\* Slip: the slots before k are not moved up.
WithoutHole(s, k) == [s EXCEPT ![k] = Free]

\* msg_del, msg_move, msg_dump: slot k is closed from below.
Without(s, k) == [i \in DOMAIN s |-> IF i = 1      THEN Free
                                     ELSE IF i <= k THEN s[i - 1]
                                     ELSE s[i]]

\* Where msg_move, msg_copy and msg_dump put post num: they push down slot 2
\* in any case, and then as long as the next post is older.
Place(s, num) ==
  CHOOSE p \in 2 .. Len(s) :
    /\ p = Len(s) \/ s[p + 1].num >= num
    /\ \A q \in 2 .. (p - 1) : s[q + 1].num < num

\* Slip: the last slots are not pushed down but overwritten.
InsertedOver(s, slot) ==
  [i \in DOMAIN s |-> IF i = Place(s, slot.num) THEN slot ELSE s[i]]

Inserted(s, slot) ==
  LET p == Place(s, slot.num)
  IN  [i \in DOMAIN s |-> IF i < p THEN s[i + 1]
                          ELSE IF i = p THEN slot
                          ELSE s[i]]

\* msg_resize, msg_dump_resize: the last slots are kept.
Resized(s, n, none) ==
  [i \in 1 .. n |-> LET j == i + Len(s) - n IN IF j >= 1 THEN s[j] ELSE none]

\* The slot of post num (the first one, as every loop looks for it).
SlotOf(s, num) == CHOOSE k \in DOMAIN s : /\ s[k].num = num
                                          /\ \A j \in 1 .. (k - 1) : s[j].num # num

-----------------------------------------------------------------------------
(***************************************************************************)
(* Operations on the lists of all rooms, m.                                *)
(***************************************************************************)
\* Slip: the local number is not used up.
PostToSameLocal(m, r, num) ==
  [m EXCEPT ![r].slots = Scrolled(@, [num |-> num, local |-> m[r].highloc,
                                      home |-> NoRoom]),
            ![r].highmsg = num, ![r].dirty = TRUE]

\* Slip: the room does not learn the number of the post.
PostToQuiet(m, r, num) ==
  [m EXCEPT ![r].slots = Scrolled(@, [num |-> num, local |-> m[r].highloc,
                                      home |-> NoRoom]),
            ![r].highloc = @ + 1, ![r].dirty = TRUE]

\* save_post, citta_post: the post takes the next local number of the room.
PostTo(m, r, num) ==
  [m EXCEPT ![r] =
     [slots   |-> Scrolled(@.slots, [num |-> num, local |-> @.highloc,
                                     home |-> NoRoom]),
      highloc |-> @.highloc + 1,
      highmsg |-> num,
      dirty   |-> TRUE]]

\* Slip: the post stays where it was.
TakeOutNot(m, r, num) == [m EXCEPT ![r].dirty = TRUE]

\* msg_del, and the first half of msg_move.
TakeOut(m, r, num) ==
  [m EXCEPT ![r].slots = Without(@, SlotOf(@, num)), ![r].dirty = TRUE]

\* Slip: the list is not marked.
PutInClean(m, r, slot) == [m EXCEPT ![r].slots = Inserted(@, slot)]

\* msg_copy, and the second half of msg_move.
PutIn(m, r, slot) ==
  [m EXCEPT ![r].slots = Inserted(@, slot), ![r].dirty = TRUE]

\* The notice many commands leave in the room of the aides (citta_post), if
\* there is such a room; it takes a number of its own.
Notices == IF Aide \in rooms THEN 1 ELSE 0
Told(m) == IF Aide \in rooms THEN PostTo(m, Aide, highest + 1) ELSE m

-----------------------------------------------------------------------------
(***************************************************************************)
(* Commands.                                                               *)
(***************************************************************************)
Served(c) == c \in commands /\ UNCHANGED << commands, diskVars >>

\* fm_put writes n posts.  A number that is given again after a crash is that
\* of a new post.
Written(n) ==
  /\ highest + n <= MaxNum[commands]
  /\ highest' = highest + n
  /\ dead' = dead \ (highest + 1 .. highest + n)

\* save_post, citta_post; nobody posts in the Cestino (cmd_pstb).
Post(r) ==
  /\ r # Dump
  /\ Written(1)
  /\ msg' = PostTo(msg, r, highest + 1)
  /\ UNCHANGED << commands, rooms, dump, diskVars >>

\* fm_put refused the post and returned -1, which save_post takes for the
\* number of a post.
PostRefused(r) ==
  /\ Served("POST_LONG")
  /\ r # Dump
  /\ highest < MaxNum[commands]
  /\ highest' = highest + 1
  /\ msg' = PostTo(msg, r, -1)
  /\ UNCHANGED << rooms, dump, dead >>

\* cmd_mdel by the author of the post: msg_del.
Delete(r, num) ==
  /\ Served("DELETE")
  /\ r # Dump
  /\ msg' = TakeOut(msg, r, num)
  /\ dead' = dead \cup {num}
  /\ UNCHANGED << rooms, dump, highest >>

\* Slip: the room is written down in the slot after the one that the post got.
DumpedLate(r, num) ==
  LET p == Place(Slots(Dump), num)
  IN  [i \in DOMAIN dump |-> IF i < p THEN dump[i + 1]
                             ELSE IF i = p + 1 THEN r
                             ELSE dump[i]]

\* dump_undelete after msg_dump: pushed down with the slots.
Dumped(r, num) ==
  LET p == Place(Slots(Dump), num)
  IN  [i \in DOMAIN dump |-> IF i < p THEN dump[i + 1]
                             ELSE IF i = p THEN r
                             ELSE dump[i]]

\* msg_dump: neither list is marked dirty.
ThrownOut(r, num) ==
  LET k == SlotOf(Slots(r), num)
  IN  [msg EXCEPT
         ![r].slots = Without(@, k),
         ![Dump].slots = Inserted(@, [Slots(r)[k] EXCEPT !.home = r])]

\* cmd_mdel by somebody else who may: msg_dump.
DumpPost(r, num) ==
  /\ Served("DUMP")
  /\ r # Dump
  /\ Written(Notices)
  /\ msg' = Told(ThrownOut(r, num))
  /\ dump' = Dumped(r, num)
  /\ UNCHANGED rooms

\* cmd_mdel in the Cestino: msg_undelete, if the room is still there.
Undelete(num) ==
  LET k    == SlotOf(Slots(Dump), num)
      dest == dump[k]
      slot == [Slots(Dump)[k] EXCEPT !.home = NoRoom]
  IN  /\ Served("UNDELETE")
      /\ dest \in rooms
      /\ Written(Notices)
      /\ msg' = Told(PutIn(TakeOut(msg, Dump, num), dest, slot))
      /\ dump' = [i \in DOMAIN dump |-> IF 1 < i /\ i <= k THEN dump[i - 1]
                                        ELSE dump[i]]
      /\ UNCHANGED rooms

\* The slot of a post as it is copied elsewhere.
Copied(r, num) ==
  [Slots(r)[SlotOf(Slots(r), num)] EXCEPT !.home = NoRoom]

\* cmd_mmov: from any room but the Cestino to any room, the Cestino and the
\* very same room included.  Nobody is told when the mover is the author.
Move(r, dest, num) ==
  /\ Served(IF dest = Dump THEN "MOVE_TO_DUMP" ELSE "MOVE")
  /\ r # Dump
  /\ LET moved == PutIn(TakeOut(msg, r, num), dest, Copied(r, num))
     IN  \/ msg' = moved /\ Written(0)
         \/ msg' = Told(moved) /\ Written(Notices)
  /\ UNCHANGED << rooms, dump >>

\* cmd_mcpy: from any room to any room.
Copy(r, dest, num) ==
  /\ Served(IF dest = Dump THEN "COPY_TO_DUMP" ELSE "COPY")
  /\ msg' = PutIn(msg, dest, Copied(r, num))
  /\ UNCHANGED << rooms, dump, highest, dead >>

\* cmd_rlen: a new list is made, and only the slots are copied to it.
Resize(r, n) ==
  /\ Served("RESIZE")
  /\ msg' = [msg EXCEPT ![r] = [slots |-> Resized(@.slots, n, Free),
                                highloc |-> 0, highmsg |-> 0, dirty |-> TRUE]]
  /\ dump' = IF r = Dump THEN Resized(dump, n, NoRoom) ELSE dump
  /\ UNCHANGED << rooms, highest, dead >>

\* cmd_rdel, room_delete: the aides are told first.  The Cestino and the room
\* of the aides are base rooms and stay.
Rdel(r) ==
  /\ Served("RDEL")
  /\ r \notin {Dump, Aide}
  /\ Written(Notices)
  /\ msg' = Told(msg)
  /\ rooms' = rooms \ {r}
  /\ UNCHANGED dump

-----------------------------------------------------------------------------
(***************************************************************************)
(* Saving and restarting.                                                  *)
(***************************************************************************)
\* msg_save_data: the slots of a list that is not dirty are not written.
Saved(r) == IF msg[r].dirty THEN Slots(r) ELSE disk.slots[r]

\* room_save_data, fm_save_data, msg_save_dump, in crash_save_perfavore.  The
\* room data (maxmsg, highloc, highmsg) are written for every room.
Save ==
  /\ "SAVE" \in commands /\ saves < MaxSaves
  /\ saves' = saves + 1
  /\ disk' = [rooms   |-> rooms,
              slots   |-> [r \in Rooms |-> IF r \in rooms THEN Saved(r)
                                           ELSE disk.slots[r]],
              highloc |-> [r \in Rooms |-> msg[r].highloc],
              highmsg |-> [r \in Rooms |-> msg[r].highmsg],
              dump    |-> dump,
              highest |-> highest]
  /\ msg' = [r \in Rooms |-> IF r \in rooms THEN [msg[r] EXCEPT !.dirty = FALSE]
                             ELSE msg[r]]
  /\ UNCHANGED << commands, rooms, dump, highest, dead, crashes >>

\* The server dies and is started again: room_load_data, fm_load_data,
\* msg_load_dump.
CrashRestart ==
  /\ "CRASH" \in commands /\ crashes < MaxCrashes
  /\ crashes' = crashes + 1
  /\ rooms' = disk.rooms
  /\ msg' = [r \in Rooms |-> [slots |-> disk.slots[r],
                              highloc |-> disk.highloc[r],
                              highmsg |-> disk.highmsg[r], dirty |-> FALSE]]
  /\ dump' = disk.dump
  /\ highest' = disk.highest
  /\ UNCHANGED << commands, dead, disk, saves >>

\* room_create_basic, and what room_create makes of the others; the lists are
\* on disk as they are.
Init ==
  /\ commands \in CommandSets
  /\ rooms = Rooms
  /\ \E size \in [Rooms -> Lengths] :
       /\ msg = [r \in Rooms |-> [slots |-> Empty(size[r]), highloc |-> 0,
                                  highmsg |-> 0, dirty |-> FALSE]]
       /\ dump = [i \in 1 .. size[Dump] |-> NoRoom]
  /\ highest = 0
  /\ dead = {}
  /\ disk = [rooms   |-> rooms,
             slots   |-> [r \in Rooms |-> Slots(r)],
             highloc |-> [r \in Rooms |-> 0],
             highmsg |-> [r \in Rooms |-> 0],
             dump    |-> dump,
             highest |-> 0]
  /\ saves = 0
  /\ crashes = 0

Next ==
  \/ \E r \in rooms : Post(r) \/ PostRefused(r) \/ Rdel(r)
  \/ \E r \in rooms : \E num \in Nums(r) : Delete(r, num) \/ DumpPost(r, num)
  \/ \E r, dest \in rooms : \E num \in Nums(r) :
        Move(r, dest, num) \/ Copy(r, dest, num)
  \/ \E num \in Nums(Dump) : Undelete(num)
  \/ \E r \in rooms, n \in Lengths : Resize(r, n)
  \/ Save
  \/ CrashRestart

Spec == Init /\ [][Next]_vars

-----------------------------------------------------------------------------
(***************************************************************************)
(* Properties.                                                             *)
(***************************************************************************)
Slot == [num : Int, local : Int, home : Rooms \cup {NoRoom}]
IsList(s) == \E n \in Lengths : s \in [1 .. n -> Slot]
Homes(s)  == [DOMAIN s -> Rooms \cup {NoRoom}]

\* Every variable has its type, and dump_undelete is as long as the Cestino,
\* in memory and on disk.
TypeOK ==
  /\ commands \in CommandSets
  /\ rooms \subseteq Rooms
  /\ DOMAIN msg = Rooms
  /\ \A r \in Rooms : /\ IsList(Slots(r))
                      /\ msg[r].highloc \in Nat
                      /\ msg[r].highmsg \in Int
                      /\ msg[r].dirty \in BOOLEAN
  /\ dump \in Homes(Slots(Dump))
  /\ highest \in Nat
  /\ dead \subseteq Nat
  /\ disk.rooms \subseteq Rooms
  /\ \A r \in Rooms : IsList(disk.slots[r])
  /\ disk.dump \in Homes(disk.slots[Dump])

\* The free slots are the first ones of a list.  The loops of msg_move, msg_copy
\* and msg_dump rely on it: they give up slot 1 without looking.  A refused post
\* that was entered all the same is a hole.
FreeFirst ==
  "POST_LONG" \notin commands =>
  \A r \in rooms : \A i, j \in DOMAIN Slots(r) :
     i < j /\ Slots(r)[j].num = -1 => Slots(r)[i].num = -1

\* fm_put "restituisce il numero del messaggio se il post e' stato salvato con
\* successo, altrimenti 0", and save_post enters a post in the list if it is not
\* 0: what has a local number in a room is a post that was saved.
SlotsHoldPosts ==
  \A r \in rooms : \A i \in DOMAIN Slots(r) :
     Slots(r)[i].local >= 0 => Slots(r)[i].num > 0

\* No post is lost while there is room for it: a post leaves all lists only
\* when its author deletes it, or its room goes or is made shorter, or it is
\* in the last place of a room that is full and gets another one.  (The holes
\* that refused posts make cost posts.  The room of the aides may get two posts
\* in one step.)
NoNeedlessLoss ==
  [][crashes' = crashes /\ "POST_LONG" \notin commands =>
       \A r \in rooms \ {Aide} : \A num \in Nums(r) :
          \/ \E q \in rooms' : num \in Nums(q)'
          \/ num \in dead'
          \/ r \notin rooms'
          \/ Len(Slots(r)') < Len(Slots(r))
          \/ Slots(r)[1].num = num]_vars

\* "Copia in roomname il nome della room di origine del messaggio"
\* (msg_undelete): beside a post that was thrown out stands the room it was
\* thrown out of.
HomeKnown ==
  \A i \in DOMAIN Slots(Dump) :
     Slots(Dump)[i].home # NoRoom => dump[i] = Slots(Dump)[i].home

\* That is so between restarts, as long as posts come to the Cestino by msg_dump
\* alone, however long it is and whatever rooms are deleted.
HomeKnownOfDumped ==
  {"MOVE_TO_DUMP", "COPY_TO_DUMP"} \cap commands = {} /\ crashes = 0
    => HomeKnown

\* A list that is not marked dirty is on disk as it is in memory, so that
\* msg_save_data ("Salva le informazioni sui post nelle room") may skip it.
CleanIsSaved ==
  \A r \in rooms : ~msg[r].dirty => Slots(r) = disk.slots[r]

\* That is so for every command but msg_dump.
CleanIsSavedButDumped == "DUMP" \notin commands => CleanIsSaved

\* A post that nobody copied stands in one place: it is moved, not multiplied.
OnePlace ==
  {"COPY", "COPY_TO_DUMP"} \cap commands = {} /\ crashes = 0 =>
  \A r, q \in rooms : \A i \in DOMAIN Slots(r), j \in DOMAIN Slots(q) :
     Slots(r)[i].num = Slots(q)[j].num /\ Slots(r)[i].num > 0
        => r = q /\ i = j

\* RMSG and TMSG name a post by its room and its local number: two posts of a
\* room never share one, not after a restart either, unless posts were brought
\* in from elsewhere or the list was made anew (RLEN).  (A post may come back to
\* the wrong room after a restart.)
LocalNamesOne ==
  (/\ {"MOVE", "MOVE_TO_DUMP", "COPY", "COPY_TO_DUMP", "RESIZE"}
        \cap commands = {}
   /\ "UNDELETE" \in commands => crashes = 0) =>
  \A r \in rooms \ {Dump} : \A i, j \in DOMAIN Slots(r) :
     (Slots(r)[i].num > 0 /\ Slots(r)[j].num > 0
        /\ Slots(r)[i].local = Slots(r)[j].local)
       => Slots(r)[i].num = Slots(r)[j].num

\* Every post is in its place, under its own name, and if it was thrown out the
\* way back is known.
PostsPlaced == OnePlace /\ LocalNamesOne /\ HomeKnownOfDumped
=============================================================================
