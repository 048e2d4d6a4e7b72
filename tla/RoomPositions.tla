---------------------------- MODULE RoomPositions ----------------------------
(***************************************************************************)
(* The list of rooms and the marks of the users on them (server/src/       *)
(* rooms.c, ut_rooms.c, room_ops.c, march.c).  A mark on a room stands in  *)
(* a vector of the user, in the slot with the position of the room.  The   *)
(* vector of a connected user is in memory and goes to a file when the     *)
(* user leaves; that of any other is the file.  So whoever creates,        *)
(* deletes or swaps rooms has to shift the vectors of all users, in memory *)
(* and on disk.                                                            *)
(*                                                                         *)
(* An entry is the set of marks of the user on the room: of its flags, and *)
(* "SEEN" if fullroom is not 0.  The third vector, room_gen, is stored but *)
(* never read.  A user has one session here, and the room a user is in is  *)
(* left out (see PostLock).                                                *)
(***************************************************************************)
EXTENDS Integers, Sequences

CONSTANTS
  Users,     \* registered users
  Aides,     \* those who may create, delete, edit and swap rooms
  NoVector,  \* there is no vector in memory
  NumRooms,  \* rooms at the start, numbered from 1; the first is the Lobby
  Slots,     \* utr_nslot at the start
  SlotAdd,   \* UTR_NSLOTADD
  Junk,      \* marks that realloc may leave in memory it does not clear
  CommandSets,\* what may happen besides coming and going, in one behaviour
             \* or another
  MaxNum,    \* bound of the model: the highest room number
  MaxSaves,  \* bound of the model: how often the server saves its data
  MaxCrashes \* bound of the model: how often the server dies

AllCommands == {"RNEW", "GROW", \* a new room, also when vectors have to grow
                "RSWP", "RDEL_LAST", "RDEL",
                "GOTO", "RALL", "ZAP", "KICK", "REDT", "SAVE", "CRASH"}

Marks   == {"KNOWN", "ZAPPED", "KICKOUT", "SEEN"}
Default == {"KNOWN"} \* UTR_DEFAULT

ASSUME UsersAssumption  == Aides \subseteq Users
ASSUME SlotsAssumption  == /\ NumRooms \in Nat \ {0} /\ SlotAdd \in Nat \ {0}
                           /\ Slots \in Nat /\ NumRooms <= Slots
ASSUME MarksAssumption  == Junk \subseteq Marks
ASSUME BoundsAssumption == /\ CommandSets \subseteq SUBSET AllCommands
                           /\ {MaxNum, MaxSaves, MaxCrashes} \subseteq Nat

VARIABLES
  commands, \* what happens in this behaviour; it never changes
  order,    \* lista_room: the numbers of the rooms
  pos,      \* room->pos, by number
  num,      \* room_num: the last number given to a room
  nslot,    \* utr_nslot
  online,   \* users who are connected
  mem,      \* the vector of a connected user
  file,     \* the utr file of each user
  disk,     \* what was saved last
  saves,    \* how often the server saved its data (bounds the model)
  crashes   \* how often it died (bounds the model)

listVars == << order, pos, num, nslot >>
diskVars == << disk, saves, crashes >>
vars == << commands, listVars, online, mem, file, diskVars >>

Rooms   == { order[i] : i \in DOMAIN order }
Last    == order[Len(order)]
Vectors == [0 .. nslot - 1 -> SUBSET Marks]

\* What utr_getf and the sessions find.
Vector(u)       == IF u \in online THEN mem[u] ELSE file[u]
MarksOn(u, r)   == Vector(u)[pos[r]]

Lobby == 1
\* room_known: 0 unknown, 1 known, 2 zapped.
Known(u, r) ==
  CASE r = Lobby \/ u \in Aides        -> 1
    [] "KICKOUT" \in MarksOn(u, r)     -> 0
    [] "KNOWN" \notin MarksOn(u, r)    -> 0
    [] "ZAPPED" \in MarksOn(u, r)      -> 2
    [] OTHER                           -> 1

\* Operators introduced as a `slip' are no part of the program: each is a
\* plausible mistake in the definition after it that a property must notice.

-----------------------------------------------------------------------------
(***************************************************************************)
(* Operations on the vectors.                                              *)
(***************************************************************************)
\* utr_swap of one vector.
Swapped(v, p, q) == [v EXCEPT ![p] = v[q], ![q] = v[p]]

\* Slip: the last slot is not cleared.
ShiftedFull(v, k) ==
  [i \in DOMAIN v |-> IF i >= k /\ i + 1 \in DOMAIN v THEN v[i + 1] ELSE v[i]]

\* utr_rmslot of one vector.
Shifted(v, k) ==
  [i \in DOMAIN v |-> IF i < k            THEN v[i]
                      ELSE IF i + 1 \in DOMAIN v THEN v[i + 1]
                      ELSE {}]

\* Slip: the vectors stay as long as they were.
ExtendedShort(v, n, rest) == v

\* utr_resize of one vector, with rest in the new slots.
Extended(v, n, rest) ==
  [i \in 0 .. n - 1 |-> IF i \in DOMAIN v THEN v[i] ELSE rest[i]]

\* Slip: the vectors of connected users are overlooked.
InMemoryNot(f) == mem

\* All vectors in memory, and all files of those who are not connected, as in
\* the loops over lista_utenti.
InMemory(f) == [u \in Users |-> IF u \in online THEN f[u] ELSE NoVector]

OnFile(f) == [u \in Users |-> IF u \in online THEN file[u] ELSE f[u]]

-----------------------------------------------------------------------------
(***************************************************************************)
(* Coming and going.                                                       *)
(***************************************************************************)
\* cmd_usr1, utr_load.
Login(u) ==
  /\ u \notin online
  /\ online' = online \cup {u}
  /\ mem' = [mem EXCEPT ![u] = file[u]]
  /\ UNCHANGED << commands, listVars, file, diskVars >>

\* Slip: nothing is saved.
SavedNot(u) == file

\* utr_save, of a user who leaves.
Saved(u) == [file EXCEPT ![u] = mem[u]]

\* chiudi_sessione.
Logout(u) ==
  /\ u \in online
  /\ file' = Saved(u)
  /\ online' = online \ {u}
  /\ mem' = [mem EXCEPT ![u] = NoVector]
  /\ UNCHANGED << commands, listVars, diskVars >>

-----------------------------------------------------------------------------
(***************************************************************************)
(* The list of rooms.                                                      *)
(***************************************************************************)
Served(c) == c \in commands /\ UNCHANGED << commands, diskVars >>
AideThere == online \cap Aides # {}

\* cmd_rnew, room_create, utr_chval_all: the marks of connected users are
\* or-ed to what is in the slot.
Rnew(junk) ==
  LET r    == num + 1
      p    == pos[Last] + 1
      full == Len(order) + 1 > nslot
      n    == IF full THEN nslot + SlotAdd ELSE nslot
  IN  /\ Served(IF full THEN "GROW" ELSE "RNEW")
      /\ AideThere
      /\ r <= MaxNum
      /\ num' = r
      /\ order' = Append(order, r)
      /\ pos' = [q \in Rooms \cup {r} |-> IF q = r THEN p ELSE pos[q]]
      /\ nslot' = n
      /\ mem' = InMemory([u \in Users |->
                   [Extended(mem[u], n, [i \in 0 .. n - 1 |-> junk[u]])
                      EXCEPT ![p] = @ \cup Default]])
      /\ file' = OnFile([u \in Users |->
                   [Extended(file[u], n, [i \in 0 .. n - 1 |-> {}])
                      EXCEPT ![p] = Default]])
      /\ UNCHANGED online

\* Slip: the rooms keep their positions.
ExchangedNot(r, q) == pos

Exchanged(r, q) == [pos EXCEPT ![r] = pos[q], ![q] = pos[r]]

\* cmd_rswp, room_swap.
Rswp(i, j) ==
  LET r == order[i]
      q == order[j]
  IN  /\ Served("RSWP")
      /\ AideThere
      /\ i < j
      /\ order' = [order EXCEPT ![i] = q, ![j] = r]
      /\ pos' = Exchanged(r, q)
      /\ mem' = InMemory([u \in Users |-> Swapped(mem[u], pos[r], pos[q])])
      /\ file' = OnFile([u \in Users |-> Swapped(file[u], pos[r], pos[q])])
      /\ UNCHANGED << num, nslot, online >>

Without(s, i) == SubSeq(s, 1, i - 1) \o SubSeq(s, i + 1, Len(s))

\* room_delete: the loop ends before it reaches the last room, which keeps
\* its position.
Renumbered(s) ==
  [r \in { s[k] : k \in DOMAIN s } |->
     IF r = s[Len(s)] THEN pos[r]
     ELSE (CHOOSE k \in DOMAIN s : s[k] = r) - 1]

\* cmd_rdel, room_delete, utr_rmslot_all.
Rdel(i) ==
  LET r    == order[i]
      gone == pos[r] < Len(order)
  IN  /\ Served(IF i = Len(order) THEN "RDEL_LAST" ELSE "RDEL")
      /\ AideThere
      /\ r # Lobby
      /\ order' = Without(order, i)
      /\ pos' = Renumbered(order')
      /\ mem' = IF gone THEN InMemory([u \in Users |-> Shifted(mem[u], pos[r])])
                ELSE mem
      /\ file' = IF gone THEN OnFile([u \in Users |-> Shifted(file[u], pos[r])])
                 ELSE file
      /\ UNCHANGED << num, nslot, online >>

-----------------------------------------------------------------------------
(***************************************************************************)
(* Marks.                                                                  *)
(***************************************************************************)
\* The user's own marks, in the vector of the session.
OwnMarks(u, v) == /\ mem' = [mem EXCEPT ![u] = v]
                  /\ UNCHANGED << listVars, online, file >>

\* cmd_goto, from one room to another.
Goto(u, from, to) ==
  /\ Served("GOTO")
  /\ u \in online
  /\ Known(u, to) = 1
  /\ LET left == [mem[u] EXCEPT ![pos[from]] = @ \cup {"SEEN"}]
     IN  OwnMarks(u, [left EXCEPT ![pos[to]] = (@ \ {"ZAPPED"}) \cup {"KNOWN"}])

\* Slots of the rooms that are known to u in one of the ways hows.
SlotsKnown(u, hows) == { pos[r] : r \in { q \in Rooms : Known(u, q) \in hows } }

\* cmd_rall; the Lobby and the rooms of which the user is an aide are spared.
Rall(u) ==
  /\ Served("RALL")
  /\ u \in online \ Aides
  /\ OwnMarks(u, [i \in DOMAIN mem[u] |->
                    IF i \in SlotsKnown(u, {1, 2}) \ {pos[Lobby]}
                    THEN mem[u][i] \cup {"SEEN"} ELSE mem[u][i]])

\* cmd_rzpa.
Rzpa(u) ==
  /\ Served("ZAP")
  /\ u \in online \ Aides
  /\ OwnMarks(u, [i \in DOMAIN mem[u] |->
                    IF i \in SlotsKnown(u, {1, 2}) \ {pos[Lobby]}
                    THEN mem[u][i] \cup {"ZAPPED"} ELSE mem[u][i]])

\* cmd_ruzp.
Ruzp(u) ==
  /\ Served("ZAP")
  /\ u \in online
  /\ OwnMarks(u, [i \in DOMAIN mem[u] |->
                    IF i \in SlotsKnown(u, {2})
                    THEN mem[u][i] \ {"ZAPPED"} ELSE mem[u][i]])

\* utr_setf and utr_resetf: in memory if the user is connected, else on file.
SetMarks(u, p, e) ==
  IF u \in online THEN mem' = [mem EXCEPT ![u][p] = e] /\ file' = file
                  ELSE file' = [file EXCEPT ![u][p] = e] /\ mem' = mem

\* cmd_rkob.
Rkob(u, r) ==
  /\ Served("KICK")
  /\ AideThere
  /\ "KICKOUT" \notin MarksOn(u, r)
  /\ SetMarks(u, pos[r], MarksOn(u, r) \cup {"KICKOUT"})
  /\ UNCHANGED << listVars, online >>

\* cmd_rkoe.
Rkoe(u, r) ==
  /\ Served("KICK")
  /\ AideThere
  /\ "KICKOUT" \in MarksOn(u, r)
  /\ SetMarks(u, pos[r], MarksOn(u, r) \ {"KICKOUT"})
  /\ UNCHANGED << listVars, online >>

\* cmd_redt, of a guess room or not: who is below aide forgets the room, or
\* everybody knows it.
Redt(r, guess) ==
  LET edited == [u \in Users |->
        CASE ~ guess                  -> MarksOn(u, r) \cup {"KNOWN"}
          [] guess /\ u \notin Aides  -> MarksOn(u, r) \ {"KNOWN"}
          [] OTHER                    -> MarksOn(u, r)]
  IN  /\ Served("REDT")
      /\ AideThere
      /\ mem'  = InMemory([u \in Users |-> [mem[u] EXCEPT ![pos[r]] = edited[u]]])
      /\ file' = OnFile([u \in Users |-> [file[u] EXCEPT ![pos[r]] = edited[u]]])
      /\ UNCHANGED << listVars, online >>

-----------------------------------------------------------------------------
(***************************************************************************)
(* Saving and restarting.                                                  *)
(***************************************************************************)
\* dati_server and room_save_data in crash_save_perfavore: the vectors in
\* memory are not written.
Save ==
  /\ "SAVE" \in commands /\ saves < MaxSaves
  /\ saves' = saves + 1
  /\ disk' = [order |-> order, num |-> num, nslot |-> nslot]
  /\ UNCHANGED << commands, listVars, online, mem, file, crashes >>

\* The server dies and is started again: room_load_data numbers the rooms as
\* they come.  Bound of the model: not when a file has another number of slots
\* than the server will think, since the vectors grew.
CrashRestart ==
  /\ "CRASH" \in commands /\ crashes < MaxCrashes
  /\ disk.nslot = nslot
  /\ \A u \in Users : file[u] \in Vectors
  /\ crashes' = crashes + 1
  /\ order' = disk.order
  /\ pos' = [r \in { disk.order[k] : k \in DOMAIN disk.order } |->
               (CHOOSE k \in DOMAIN disk.order : disk.order[k] = r) - 1]
  /\ num' = disk.num
  /\ online' = {}
  /\ mem' = [u \in Users |-> NoVector]
  /\ UNCHANGED << commands, nslot, file, disk, saves >>

\* The basic rooms, saved once; nobody is connected, and everybody has the
\* file that utr_check makes.
Init ==
  /\ commands \in CommandSets
  /\ order = [i \in 1 .. NumRooms |-> i]
  /\ pos = [r \in 1 .. NumRooms |-> r - 1]
  /\ num = NumRooms
  /\ nslot = Slots
  /\ online = {}
  /\ mem = [u \in Users |-> NoVector]
  /\ file = [u \in Users |-> [i \in 0 .. Slots - 1 |->
               IF i < NumRooms THEN Default ELSE {}]]
  /\ disk = [order |-> order, num |-> num, nslot |-> nslot]
  /\ saves = 0
  /\ crashes = 0

Next ==
  \/ \E u \in Users : Login(u) \/ Logout(u) \/ Rall(u) \/ Rzpa(u) \/ Ruzp(u)
  \/ \E u \in Users, from, to \in Rooms : Goto(u, from, to)
  \/ \E u \in Users, r \in Rooms : Rkob(u, r) \/ Rkoe(u, r)
  \/ \E r \in Rooms, guess \in BOOLEAN : Redt(r, guess)
  \/ \E junk \in [Users -> SUBSET Junk] : Rnew(junk)
  \/ \E i, j \in DOMAIN order : Rswp(i, j)
  \/ \E i \in DOMAIN order : Rdel(i)
  \/ Save
  \/ CrashRestart

Spec == Init /\ [][Next]_vars

-----------------------------------------------------------------------------
(***************************************************************************)
(* Properties.                                                             *)
(***************************************************************************)
\* Type invariant.
TypeOK ==
  /\ commands \in CommandSets
  /\ num \in Nat /\ nslot \in Nat
  /\ order \in Seq(1 .. num)
  /\ pos \in [Rooms -> Nat]
  /\ online \subseteq Users
  /\ DOMAIN file = Users /\ DOMAIN mem = Users
  /\ \A u \in Users : Vector(u) \in Vectors

\* As long as only the last room is ever deleted, the position of a room is
\* its place in the list, and there is a slot for it in every vector
\* (rooms.c:265): otherwise a room created later would get a position past
\* the end of the vectors.
Dense ==
  "RDEL" \notin commands =>
     /\ Len(order) <= nslot
     /\ \A i \in DOMAIN order : pos[order[i]] = i - 1

\* What the marks promise, through all of the shifting: the marks of a user on
\* a room are in the slot of its position, wherever the vector is.
MarksOfAll == [u \in Users |-> [r \in Rooms |-> MarksOn(u, r)]]
Promised   == INSTANCE UserMarks WITH rooms <- Rooms, marks <- MarksOfAll
ImplementsUserMarks == Promised!Spec

\* A new room inherits no marks: neither from a deleted room that had its slot
\* nor from anything else (ut_rooms.c:527 ors the marks of connected users to
\* what it finds).  Not so when the vectors have to grow (ut_rooms.c:472), or its
\* slot may be past their end (rooms.c:265), and after a crash: the room before
\* may be forgotten and its marks not.
NewestIsClean == \A u \in Users : MarksOn(u, num) = Default
NewRoomClean ==
  [][ {"GROW", "RDEL"} \cap commands = {} /\ crashes = 0 /\ num' > num
      => NewestIsClean' ]_vars

\* Deleting a room leaves the marks on all others as they were ("Elimina lo
\* slot #slot dai vettori di slot degli utenti, e scrolla gli slot
\* successivi", ut_rooms.c:454).
DeletesOwnMarks ==
  [][ Len(order') < Len(order)
      => \A u \in Users : \A r \in Rooms' : MarksOfAll'[u][r] = MarksOfAll[u][r] ]_vars
=============================================================================
