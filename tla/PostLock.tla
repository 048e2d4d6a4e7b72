------------------------------ MODULE PostLock ------------------------------
(***************************************************************************)
(* The post lock of a room (server/src/post.c, x.c, room_ops.c, rooms.c,   *)
(* cittaserver.c).  In a room with RF_POSTLOCK "un solo utente alla volta  *)
(* puo` postare": PSTB takes room->lock, and whoever ends a post puts it   *)
(* back to FALSE.  The lock names no owner; the timer that frees it        *)
(* (rlock_timeout) lives in the session.                                   *)
(*                                                                         *)
(* The server is one loop: every action below is a command it serves or a  *)
(* pass it makes over the sessions.  The order of the passes is left open, *)
(* which only adds behaviours: a session waiting to be closed (CON_CHIUSA) *)
(* does nothing meanwhile.                                                 *)
(***************************************************************************)
EXTENDS Integers, FiniteSets

CONSTANTS
  Sessions,  \* connections
  NumRooms,  \* rooms of the model, 0 .. NumRooms - 1, in list order
  MailRooms, \* those with RF_MAIL, where PSTB looks for a recipient
  Timeout,   \* FREQUENZA * POSTLOCK_TIMEOUT, in passes of the loop
  Leaving,   \* how users leave: part of Exits
  RoomEdits, \* TRUE: rooms are edited and deleted meanwhile
  Blogs,     \* TRUE: users also visit blogs
  NoRoom     \* no room

Exits == {"DROP",   \* the connection breaks
          "QUIT",   \* the user leaves, or is idle too long
          "CUSR"}   \* an aide throws the user out

Rooms == 0 .. (NumRooms - 1)
Lobby == 0

ASSUME RoomsAssumption   == /\ NumRooms \in Nat \ {0}
                            /\ MailRooms \subseteq Rooms
                            /\ NoRoom \notin Rooms
ASSUME TimeoutAssumption == Timeout \in Nat \ {0}
ASSUME SwitchAssumption  == /\ Leaving \subseteq Exits
                            /\ RoomEdits \in BOOLEAN /\ Blogs \in BOOLEAN

VARIABLES
  rooms,  \* lista_room: the rooms that exist
  flags,  \* room_data: RF_POSTLOCK, RF_L_TIMEOUT
  lock,   \* struct room: the post lock
  stato,  \* struct sessione: state of the connection
  room,   \* struct sessione: the room it is in; with a blog, the room before
  blog,   \* the session is in a virtual room of its own (ROOM_DYNAMICAL)
  utente, \* struct sessione: utente # NULL
  timer,  \* struct sessione: rlock_timeout
  owns    \* for the properties: the room whose lock the session took for
          \* the post it is writing

sessionVars == << stato, room, blog, utente, timer, owns >>
vars == << rooms, flags, lock, sessionVars >>

LockFlags == {"POSTLOCK", "L_TIMEOUT"}
States    == {"NONE",     \* no connection
              "COMANDI",  \* CON_COMANDI
              "POST",     \* CON_POST
              "TESTO",    \* another text: CON_BROAD, CON_BUG_REP ...
              "CHIUSA"}   \* CON_CHIUSA: to be closed at the end of the loop

Posting(s) == stato[s] = "POST"

-----------------------------------------------------------------------------
(***************************************************************************)
(* Connections.                                                            *)
(***************************************************************************)
\* session_create, and a login: the session starts in the Lobby.
Login(s) ==
  /\ stato[s] = "NONE"
  /\ stato' = [stato EXCEPT ![s] = "COMANDI"]
  /\ room' = [room EXCEPT ![s] = Lobby]
  /\ utente' = [utente EXCEPT ![s] = TRUE]
  /\ UNCHANGED << rooms, flags, lock, blog, timer, owns >>

\* Slip: a lock is left to whoever comes next.
LockAfterCloseKeeps(s) == lock

\* What chiudi_sessione does to the lock: the session leaves its virtual room
\* first, and the lock freed is that of the room it is then in.
LockAfterClose(s) ==
  IF utente[s] /\ lock[room[s]] /\ Posting(s)
  THEN [lock EXCEPT ![room[s]] = FALSE]
  ELSE lock

\* chiudi_sessione.
Chiudi(s) ==
  /\ lock' = LockAfterClose(s)
  /\ stato' = [stato EXCEPT ![s] = "NONE"]
  /\ room' = [room EXCEPT ![s] = Lobby]
  /\ blog' = [blog EXCEPT ![s] = FALSE]
  /\ utente' = [utente EXCEPT ![s] = FALSE]
  /\ timer' = [timer EXCEPT ![s] = 0]
  /\ owns' = [owns EXCEPT ![s] = NoRoom]
  /\ UNCHANGED << rooms, flags >>

\* elabora_input or scrivi_a_client_iobuf failed, or an exceptional condition:
\* the session is closed in whatever state it is.
Drop(s) == "DROP" \in Leaving /\ stato[s] # "NONE" /\ Chiudi(s)

\* cmd_quit, allowed in every state (CON_NOCHECK), and the idle logout: the
\* session is closed by a later pass of the loop.
Quit(s) ==
  /\ "QUIT" \in Leaving
  /\ stato[s] # "NONE"
  /\ stato' = [stato EXCEPT ![s] = "CHIUSA"]
  /\ UNCHANGED << rooms, flags, lock, room, blog, utente, timer, owns >>

\* cmd_cusr: cmd_quit on behalf of another user, who is then forgotten.
Cusr(aide, s) ==
  /\ "CUSR" \in Leaving
  /\ stato[aide] = "COMANDI" /\ aide # s /\ utente[s]
  /\ stato' = [stato EXCEPT ![s] = "CHIUSA"]
  /\ utente' = [utente EXCEPT ![s] = FALSE]
  /\ UNCHANGED << rooms, flags, lock, room, blog, timer, owns >>

\* The pass over the sessions in state CON_CHIUSA.
Close(s) == stato[s] = "CHIUSA" /\ Chiudi(s)

\* cmd_goto: another room, or a blog; the virtual room of the latter hangs on
\* the room the user comes from.
Goto(s) ==
  /\ stato[s] = "COMANDI"
  /\ \/ /\ \E r \in rooms : room' = [room EXCEPT ![s] = r]
        /\ blog' = [blog EXCEPT ![s] = FALSE]
     \/ /\ Blogs
        /\ blog' = [blog EXCEPT ![s] = TRUE]
        /\ UNCHANGED room
  /\ UNCHANGED << rooms, flags, lock, stato, utente, timer, owns >>

-----------------------------------------------------------------------------
(***************************************************************************)
(* Posting.  A blog has the default flags, which lock nothing, and a lock  *)
(* of its own in each visitor's virtual room.                              *)
(***************************************************************************)
Locked(s) == ~blog[s] /\ "POSTLOCK" \in flags[room[s]]

\* Slip: nobody looks whether the room is locked already.
MayBeginUnchecked(s) == stato[s] = "COMANDI"

\* cmd_pstb gets as far as the lock.
MayBegin(s) ==
  /\ stato[s] = "COMANDI"
  /\ Locked(s) => ~lock[room[s]]

\* Slip: a timer that once ran is not started again.
TimerAtBeginStale(s) ==
  IF Locked(s) /\ "L_TIMEOUT" \notin flags[room[s]] THEN 0 ELSE timer[s]

\* rlock_timeout after cmd_pstb: untouched where posts take no lock.
TimerAtBegin(s) ==
  IF ~Locked(s)                            THEN timer[s]
  ELSE IF "L_TIMEOUT" \in flags[room[s]]   THEN Timeout
  ELSE 0

\* cmd_pstb.
Pstb(s) ==
  /\ MayBegin(s)
  /\ timer' = [timer EXCEPT ![s] = TimerAtBegin(s)]
  /\ stato' = [stato EXCEPT ![s] = "POST"]
  /\ IF Locked(s)
     THEN /\ lock' = [lock EXCEPT ![room[s]] = TRUE]
          /\ owns' = [owns EXCEPT ![s] = room[s]]
     ELSE UNCHANGED << lock, owns >>
  /\ UNCHANGED << rooms, flags, room, blog, utente >>

\* cmd_pstb for a recipient who does not exist or takes no mail: it returns
\* after rlock_timeout was set and before the lock is taken.
PstbNoRecipient(s) ==
  /\ MayBegin(s)
  /\ ~blog[s] /\ room[s] \in MailRooms
  /\ timer' = [timer EXCEPT ![s] = TimerAtBegin(s)]
  /\ UNCHANGED << rooms, flags, lock, stato, room, blog, utente, owns >>

\* What the end of a post frees: the lock of the room the session is in now.
\* In a blog that is the lock of the session's own virtual room.
Unlocked(s) == IF blog[s] THEN lock ELSE [lock EXCEPT ![room[s]] = FALSE]

\* cmd_pste, sent or refused, and cmd_atxt: the post is over.
EndPost(s) ==
  /\ Posting(s)
  /\ lock' = Unlocked(s)
  /\ timer' = [timer EXCEPT ![s] = 0]
  /\ stato' = [stato EXCEPT ![s] = "COMANDI"]
  /\ owns' = [owns EXCEPT ![s] = NoRoom]
  /\ UNCHANGED << rooms, flags, room, blog, utente >>

\* BUGB, BRDB ...: the user starts another text, which no lock protects.
BeginText(s) ==
  /\ stato[s] = "COMANDI"
  /\ stato' = [stato EXCEPT ![s] = "TESTO"]
  /\ UNCHANGED << rooms, flags, lock, room, blog, utente, timer, owns >>

\* That text is over: sent, or given up with cmd_atxt, which alone touches
\* rlock_timeout.
EndText(s) ==
  /\ stato[s] = "TESTO"
  /\ stato' = [stato EXCEPT ![s] = "COMANDI"]
  /\ \/ timer' = [timer EXCEPT ![s] = 0]
     \/ UNCHANGED timer
  /\ UNCHANGED << rooms, flags, lock, room, blog, utente, owns >>

\* The sessions the pass looks at, and those of them whose time is over.
Ticking == { s \in Sessions : timer[s] > 0 /\ Posting(s) }

\* Slip: the pass looks for the timers that have run out before it counts.
ExpiringLate == { s \in Ticking : timer[s] = 0 }

Expiring == { s \in Ticking : timer[s] = 1 }

\* One pass of the loop: rlock_timeout-- for whoever is writing a post, and
\* post_timeout at zero.
Tick ==
  /\ Ticking # {}
  /\ timer' = [s \in Sessions |->
                 IF s \in Ticking THEN timer[s] - 1 ELSE timer[s]]
  /\ stato' = [s \in Sessions |->
                 IF s \in Expiring THEN "COMANDI" ELSE stato[s]]
  /\ lock' = [r \in Rooms |->
                 lock[r] /\ ~ \E s \in Expiring : room[s] = r /\ ~blog[s]]
  /\ owns' = [s \in Sessions |->
                 IF s \in Expiring THEN NoRoom ELSE owns[s]]
  /\ UNCHANGED << rooms, flags, room, blog, utente >>

-----------------------------------------------------------------------------
(***************************************************************************)
(* Rooms that change under the feet of those who are in them.              *)
(***************************************************************************)
\* The room before r in the list (room->prev).
Prev(r) == CHOOSE p \in rooms : /\ p < r
                                /\ \A q \in rooms : q < r => q <= p

\* Slip: the visitors stay where they are.
EmptiedNot(r, except) == room

\* room_empty(r, except): to the Lobby, whatever they are doing; a virtual
\* room that hangs on r is hung on the room before it.
Emptied(r, except) ==
  [s \in Sessions |->
     IF room[s] # r \/ s \in except THEN room[s]
     ELSE IF blog[s] /\ r # Lobby   THEN Prev(r)
     ELSE Lobby]

\* cmd_redt: new flags, and if the room becomes a guess room its visitors go.
Redt(s) ==
  /\ RoomEdits
  /\ stato[s] = "COMANDI" /\ ~blog[s]
  /\ \E f \in SUBSET LockFlags : flags' = [flags EXCEPT ![room[s]] = f]
  /\ \/ UNCHANGED room
     \/ room[s] # Lobby /\ room' = Emptied(room[s], {s})
  /\ UNCHANGED << rooms, lock, stato, blog, utente, timer, owns >>

\* cmd_rdel, room_delete: the Lobby is a base room and stays.  The lock goes
\* with the room.
Rdel(s) ==
  /\ RoomEdits
  /\ stato[s] = "COMANDI" /\ ~blog[s] /\ room[s] # Lobby
  /\ rooms' = rooms \ {room[s]}
  /\ room' = Emptied(room[s], {})
  /\ lock' = [lock EXCEPT ![room[s]] = FALSE]
  /\ UNCHANGED << flags, stato, blog, utente, timer, owns >>

-----------------------------------------------------------------------------
Init ==
  /\ rooms = Rooms
  /\ flags \in [Rooms -> SUBSET LockFlags]
  /\ lock = [r \in Rooms |-> FALSE]
  /\ stato = [s \in Sessions |-> "NONE"]
  /\ room = [s \in Sessions |-> Lobby]
  /\ blog = [s \in Sessions |-> FALSE]
  /\ utente = [s \in Sessions |-> FALSE]
  /\ timer = [s \in Sessions |-> 0]
  /\ owns = [s \in Sessions |-> NoRoom]

Command(s) ==
  \/ Login(s)  \/ Drop(s)    \/ Quit(s)            \/ Goto(s)
  \/ Pstb(s)   \/ EndPost(s) \/ PstbNoRecipient(s)
  \/ BeginText(s) \/ EndText(s)
  \/ Redt(s)   \/ Rdel(s)
  \/ \E t \in Sessions : Cusr(s, t)

Next == Tick \/ \E s \in Sessions : Command(s) \/ Close(s)

Spec == Init /\ [][Next]_vars

\* The loop goes round for ever; nothing makes a user do anything.
FairSpec == Spec /\ WF_vars(Tick) /\ \A s \in Sessions : WF_vars(Close(s))

-----------------------------------------------------------------------------
(***************************************************************************)
(* Properties.                                                             *)
(***************************************************************************)
\* Every variable has its type.
TypeOK ==
  /\ rooms \subseteq Rooms /\ Lobby \in rooms
  /\ flags \in [Rooms -> SUBSET LockFlags]
  /\ lock \in [Rooms -> BOOLEAN]
  /\ stato \in [Sessions -> States]
  /\ room \in [Sessions -> rooms]
  /\ blog \in [Sessions -> BOOLEAN]
  /\ utente \in [Sessions -> BOOLEAN]
  /\ timer \in [Sessions -> 0 .. Timeout]
  /\ owns \in [Sessions -> Rooms \cup {NoRoom}]

\* Writers(r): those who are writing a post for room r.
Writers(r) == { s \in Sessions : Posting(s) /\ room[s] = r /\ ~blog[s] }

\* room_flags.h: "Un solo utente alla volta puo` postare", where RF_POSTLOCK
\* is set.
OneAtATime ==
  \A r \in rooms : "POSTLOCK" \in flags[r] =>
     \A s, t \in Writers(r) : s = t

\* chiudi_sessione: "Se lockava una room, la libera".  A lock that is taken
\* belongs to a session that is still there.
LockHasOwner ==
  \A r \in rooms : lock[r] => \E s \in Sessions : owns[s] = r

\* A post with a timer comes to an end, whatever its writer does or omits to
\* do, and however often the rooms change meanwhile (post_timeout).
TimedPostEnds ==
  \A s \in Sessions : Posting(s) /\ timer[s] > 0 ~> ~Posting(s)

\* In a room with RF_L_TIMEOUT nobody keeps the others from posting for ever.
TimedLockFreed ==
  \A r \in Rooms : lock[r] /\ "L_TIMEOUT" \in flags[r] ~> ~lock[r]

\* The session whose post took the lock of room r.
Owner(r) == IF \E s \in Sessions : owns[s] = r
            THEN CHOOSE s \in Sessions : owns[s] = r
            ELSE NoRoom

Mutex == INSTANCE RoomMutex
           WITH Users <- Sessions, Places <- Rooms, Nobody <- NoRoom,
                holder <- [r \in Rooms |-> Owner(r)], busy <- lock

\* PSTB takes a room nobody has; the room is locked as long as that post is
\* being written, and freed by its end, its timeout or the loss of the
\* connection, never by anybody else's (post.c, x.c, cittaserver.c).
ImplementsMutex == Mutex!MutexSpec
=============================================================================
