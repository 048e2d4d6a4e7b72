----------------------------- MODULE FileServer -----------------------------
(***************************************************************************)
(* Files attached to posts (server/src/fileserver.c with post.c, x.c,      *)
(* messaggi.c, rooms.c, cittaserver.c).  While a post is written its       *)
(* author books numbers for files; once it is saved the files are sent, and *)
(* they go when the post leaves its last room.                             *)
(*                                                                         *)
(* Left out: the bytes of the files and their names, counters of uploads   *)
(* and downloads.  The arrays are long enough not to be extended, and all  *)
(* their elements are below 256, so that each fits its lowest byte: a step *)
(* that moves elements in the middle is better here than it is there.      *)
(***************************************************************************)
EXTENDS Integers, Sequences, SequencesExt

CONSTANTS
  Users,      \* numbers (matricole) of the users
  Sizes,      \* sizes of files
  MaxUser,    \* FILE_MAXUSER: bytes of one user
  MaxNum,     \* FILE_MAXNUM: files of one user
  DirSize,    \* FILE_DIRSIZE: bytes of all files
  RoomLen,    \* slots of a room
  Allocated,  \* length of the arrays; bound of the model: they are not extended
  LongSize,   \* sizeof(long)
  CommandSets,\* what may happen, in one behaviour or another
  MaxNumber,  \* bound of the model: the highest number booked
  MaxCopies,  \* bound of the model: copies of a file
  MaxPosts,   \* bound of the model: how many posts are written
  MaxUploads, \* bound of the model: how many files are sent
  MaxSaves, MaxCrashes \* bounds of the model

AllCommands == {"FUPB", "ATXT", "TIMEOUT", "POST_AGAIN", "FDNL", "FBKD",
                "DROP", "CUSR", "MDEL", "DEL_MIDDLE", "ADD_MIDDLE",
                "USER_MIDDLE", "MCPY", "COPY_LOSES", "SAVE", "CRASH"}

NoPost == -1

ASSUME NumbersAssumption ==
  /\ Users \subseteq 1 .. 255 /\ Sizes \subseteq 1 .. 255
  /\ {MaxUser, MaxNum, DirSize, MaxNumber, MaxCopies, MaxPosts, MaxUploads,
      MaxSaves, MaxCrashes} \subseteq Nat
  /\ LongSize \in Nat \ {0} /\ Allocated \in Nat \ {0}
  /\ RoomLen \in Nat /\ RoomLen >= 2
ASSUME CommandsAssumption == CommandSets \subseteq SUBSET AllCommands

VARIABLES
  commands, \* what happens in this behaviour; it never changes
  fs,       \* file_index, file_ustats (and if they are dirty), the bookings
  session,  \* of each user: stato and last_msgnum
  list,     \* a room with RF_DIRECTORY, and another to copy to
  highest,  \* number of the last post
  disk,     \* the index and the statistics as saved last
  uploads, saves, crashes \* bound the model

vars == << commands, fs, session, list, highest, disk, uploads, saves, crashes >>

Rooms  == {"Files", "Other"}
Listed == { list[r][i] : r \in Rooms, i \in 1 .. RoomLen } \ {NoPost}
SlotsWith(m) == { s \in Rooms \X (1 .. RoomLen) : list[s[1]][s[2]] = m }
Online == { u \in Users : session[u].stato # "OFF" }

\* Operators introduced as a `slip' are no part of the program: each is a
\* plausible mistake in the definition after it that a property must notice.

-----------------------------------------------------------------------------
(***************************************************************************)
(* The arrays.  memmove counts bytes where the code passes it numbers of   *)
(* elements, so it reaches few of them.                                    *)
(***************************************************************************)
Moved(a, to, from, bytes) ==
  LET reached == (bytes + LongSize - 1) \div LongSize
  IN  [k \in DOMAIN a |-> IF k \in to .. to + reached - 1 THEN a[from + k - to]
                          ELSE a[k]]

\* The first slot of those that were looked for, or none.
Found(slots) == IF slots = {} THEN -1 ELSE Min(slots)

FindUser(f, u) == Found({ i \in 0 .. f.unum - 1 : f.ustats[i].user = u })

\* Where an element goes so that the arrays stay in order.
UserPlace(f, u) ==
  Min({f.unum} \cup { i \in 0 .. f.unum - 1 : f.ustats[i].user >= u })
FilePlace(f, n) ==
  Min({f.num} \cup { i \in 0 .. f.num - 1 : f.entries[i].filenum >= n })

\* fs_adduser.
Adduser(f, u) ==
  LET i == UserPlace(f, u)
  IN  [f EXCEPT !.ustats = [Moved(f.ustats, i + 1, i, f.unum - i)
                              EXCEPT ![i] = [user |-> u, totbytes |-> 0,
                                             numfiles |-> 0]],
                !.unum = @ + 1,
                !.udirty = TRUE]

WithUser(f, u) == IF FindUser(f, u) < 0 THEN Adduser(f, u) ELSE f

\* fs_addindex and what cmd_fupl writes.
Addindex(f, entry) ==
  LET i == FilePlace(f, entry.filenum)
  IN  [f EXCEPT !.entries = [Moved(f.entries, i + 1, i, f.num - i)
                               EXCEPT ![i] = entry],
                !.num = @ + 1,
                !.idirty = TRUE, !.udirty = TRUE]

\* size bytes more, and files files more, for the user in slot i.
Billed(stats, i, size, files) ==
  [stats EXCEPT ![i].totbytes = @ + size, ![i].numfiles = @ + files]
Charged(f, i, size, files) ==
  [f EXCEPT !.totbytes = @ + size,
            !.idirty = TRUE, !.udirty = TRUE,
            !.ustats = IF i < 0 THEN @ ELSE Billed(@, i, size, files)]

\* fs_delfile.
Delfile(f, i) ==
  LET e == f.entries[i]
  IN  [Charged(f, FindUser(f, e.user), 0 - e.size, -1)
         EXCEPT !.entries = Moved(f.entries, i, i + 1, f.num - i - 1),
                !.num = @ - 1]

\* Slip: a file goes with the first copy of its post.
DeleteFileAtOnce(f, m) ==
  LET deleted[i \in 0 .. Allocated] ==
        IF i = 0 THEN f
        ELSE LET g == deleted[i - 1]
             IN  IF i - 1 < g.num /\ g.entries[i - 1].msgnum = m
                 THEN Delfile(g, i - 1) ELSE g
  IN  deleted[Allocated]

\* fs_delete_file: what it does with slot i, and the loop, which goes on after
\* the slot it has removed.
Dropped(f, i, m) ==
  LET g == [f EXCEPT !.entries[i].copies = @ - 1]
  IN  IF ~ (i < f.num /\ f.entries[i].msgnum = m) THEN f
      ELSE IF g.entries[i].copies = 0 THEN Delfile(g, i)
      ELSE g
DeleteFile(f, m) ==
  LET deleted[i \in 0 .. Allocated] ==
        IF i = 0 THEN f ELSE Dropped(deleted[i - 1], i - 1, m)
  IN  deleted[Allocated]

\* It would move elements from a slot to the one before.
MiddleGoes(f, m) ==
  \E i \in 0 .. f.num - 2 : f.entries[i].msgnum = m /\ f.entries[i].copies = 1

\* Slip: a copy is not counted.
AddcopyNot(f, m) == f

\* fs_addcopy: the index is not marked dirty.
Addcopy(f, m) ==
  LET i == Found({ k \in 0 .. f.num - 1 : f.entries[k].msgnum = m })
  IN  IF i < 0 THEN f ELSE [f EXCEPT !.entries[i].copies = @ + 1]

-----------------------------------------------------------------------------
(***************************************************************************)
(* Bookings.                                                               *)
(***************************************************************************)
\* fs_delbook.
Delbook(f, b) ==
  [f EXCEPT !.books = RemoveAt(@, CHOOSE k \in DOMAIN f.books : f.books[k] = b)]

\* Slip: the number is given back whatever was booked after it.
CancelAnyNumber(f, b, i) ==
  [Delbook(Charged(f, i, 0 - b.size, -1), b) EXCEPT !.lastnum = @ - 1]

\* fs_cancel_booking.
Cancel(f, b, i) ==
  IF i < 0 THEN f
  ELSE [Delbook(Charged(f, i, 0 - b.size, -1), b)
          EXCEPT !.lastnum = IF @ = b.filenum THEN @ - 1 ELSE @]

\* fs_cancel_all_bookings: what it does with booking b, and the loop.
CancelOf(f, b, u, i) == IF b.user = u THEN Cancel(f, b, i) ELSE f
CancelAll(f, u) ==
  LET i == FindUser(f, u)
      cancelled[k \in 0 .. Len(f.books)] ==
        IF k = 0 THEN f ELSE CancelOf(cancelled[k - 1], f.books[k], u, i)
  IN  cancelled[Len(f.books)]

\* The bookings of a user that are for no post yet are for post n.
Assigned(books, u, n) ==
  [k \in DOMAIN books |-> IF books[k].user = u /\ books[k].purpose = NoPost
                          THEN [books[k] EXCEPT !.purpose = n] ELSE books[k]]

-----------------------------------------------------------------------------
(***************************************************************************)
(* Commands.                                                               *)
(***************************************************************************)
may(c) == c \in commands
Bounds == UNCHANGED << commands, disk, saves, crashes >>

To(u, stato) == session' = [session EXCEPT ![u].stato = stato]

Login(u) ==
  /\ session[u].stato = "OFF"
  /\ session' = [session EXCEPT ![u] = [stato |-> "COMANDI", last |-> NoPost]]
  /\ Bounds /\ UNCHANGED << fs, list, highest, uploads >>

\* cmd_pstb; POST_AGAIN: although files of the last post were not sent.
Pstb(u) ==
  /\ session[u].stato = "COMANDI"
  /\ (\E k \in DOMAIN fs.books : fs.books[k].user = u) => may("POST_AGAIN")
  /\ To(u, "POST")
  /\ Bounds /\ UNCHANGED << fs, list, highest, uploads >>

\* A user has statistics or there is a slot for them.
UserFits(u) ==
  FindUser(fs, u) < 0 => /\ fs.unum < Allocated
                         /\ UserPlace(fs, u) < fs.unum => may("USER_MIDDLE")

\* cmd_fupb; purpose is there for the properties: the post the file is for.
Fupb(u, size) ==
  LET f == WithUser(fs, u)
      i == FindUser(f, u)
      n == f.lastnum + 1
      refused == \/ f.ustats[i].totbytes + size > MaxUser
                 \/ f.ustats[i].numfiles = MaxNum
                 \/ f.totbytes + size > DirSize
  IN  /\ may("FUPB") /\ session[u].stato = "POST" /\ fs.lastnum < MaxNumber
      /\ UserFits(u)
      /\ fs' = IF refused THEN f
               ELSE [Charged(f, i, size, 1)
                       EXCEPT !.lastnum = n,
                              !.books = Append(@,
                                 [user |-> u, filenum |-> n, size |-> size,
                                  purpose |-> NoPost])]
      /\ Bounds /\ UNCHANGED << session, list, highest, uploads >>

\* A list loses its first slot.
Scrolled(s, n) == [i \in 1 .. RoomLen |-> IF i = RoomLen THEN n ELSE s[i + 1]]

\* save_post in room Files, and cmd_pste: the oldest post is scrolled away.
Pste(u) ==
  LET n == highest + 1
      scrolled == DeleteFile(fs, list["Files"][1])
  IN  /\ session[u].stato = "POST" /\ highest < MaxPosts
      /\ MiddleGoes(fs, list["Files"][1]) => may("DEL_MIDDLE")
      /\ highest' = n
      /\ list' = [list EXCEPT !["Files"] = Scrolled(@, n)]
      /\ fs' = [scrolled EXCEPT !.books = Assigned(@, u, n)]
      /\ session' = [session EXCEPT ![u] = [stato |-> "COMANDI", last |-> n]]
      /\ Bounds /\ UNCHANGED uploads

\* Slip: the bookings stay.
GivenUpNot(u) == fs

\* The bookings of a post that is not written, or of a session that ends.
GivenUp(u) == CancelAll(fs, u)

\* cmd_atxt, and cmd_pste when nothing is posted.
Atxt(u) ==
  /\ may("ATXT") /\ session[u].stato = "POST"
  /\ fs' = GivenUp(u)
  /\ To(u, "COMANDI")
  /\ Bounds /\ UNCHANGED << list, highest, uploads >>

\* post_timeout: the bookings stay.
PostTimeout(u) ==
  /\ may("TIMEOUT") /\ session[u].stato = "POST"
  /\ To(u, "COMANDI")
  /\ Bounds /\ UNCHANGED << fs, list, highest, uploads >>

\* cmd_fupl with a booking and the size that was booked, or (which FUPL that
\* does not match comes to, for the owner) another one.  late is there for the
\* properties: the post is gone, or was copied already.
Fupl(u, k, matches) ==
  LET b     == fs.books[k]
      entry == [filenum |-> b.filenum, size |-> b.size, user |-> u,
                msgnum |-> session[u].last, copies |-> 1,
                purpose |-> b.purpose,
                late |-> \/ session[u].last = NoPost
                         \/ Cardinality(SlotsWith(session[u].last)) # 1]
  IN  /\ session[u].stato = "COMANDI" /\ b.user = u /\ uploads < MaxUploads
      /\ uploads' = uploads + 1
      /\ IF matches
         THEN /\ fs.num < Allocated
              /\ FilePlace(fs, b.filenum) < fs.num => may("ADD_MIDDLE")
              /\ fs' = Delbook(Addindex(fs, entry), b)
              /\ To(u, "UPLOAD")
         ELSE /\ fs' = Cancel(fs, b, FindUser(fs, u))
              /\ UNCHANGED session
      /\ Bounds /\ UNCHANGED << list, highest >>

\* cmd_fupe.
Fupe(u) ==
  /\ session[u].stato = "UPLOAD"
  /\ To(u, "COMANDI")
  /\ Bounds /\ UNCHANGED << fs, list, highest, uploads >>

\* cmd_fbkd.
Fbkd(u, k) ==
  /\ may("FBKD") /\ session[u].stato = "UPLOAD" /\ fs.books[k].user = u
  /\ fs' = Cancel(fs, fs.books[k], FindUser(fs, u))
  /\ Bounds /\ UNCHANGED << session, list, highest, uploads >>

\* cmd_fdnl of a file there is.
Fdnl(u) ==
  /\ may("FDNL") /\ session[u].stato = "COMANDI" /\ fs.num > 0
  /\ UserFits(u)
  /\ fs' = WithUser(fs, u)
  /\ Bounds /\ UNCHANGED << session, list, highest, uploads >>

\* msg_del: the earlier slots move up.
Without(s, k) == [i \in 1 .. RoomLen |-> IF i = 1      THEN NoPost
                                         ELSE IF i <= k THEN s[i - 1]
                                         ELSE s[i]]

\* cmd_mdel.
Mdel(r, i) ==
  /\ may("MDEL") /\ list[r][i] # NoPost
  /\ fs' = DeleteFile(fs, list[r][i])
  /\ MiddleGoes(fs, list[r][i]) => may("DEL_MIDDLE")
  /\ list' = [list EXCEPT ![r] = Without(@, i)]
  /\ Bounds /\ UNCHANGED << session, highest, uploads >>

\* The do-while loop of msg_copy.
Place(s, n) == CHOOSE k \in 2 .. RoomLen :
                 /\ k = RoomLen \/ s[k + 1] >= n
                 /\ \A j \in 3 .. k : s[j] < n
Inserted(s, n) ==
  LET p == Place(s, n)
  IN  [i \in 1 .. RoomLen |-> IF i < p THEN s[i + 1]
                              ELSE IF i = p THEN n
                              ELSE s[i]]

\* cmd_mcpy, msg_copy; COPY_LOSES: a post that is pushed out of the other room
\* does not take its file with it, and of several files of a post only one is
\* counted twice.
Mcpy(k) ==
  LET n == list["Files"][k]
      files == { i \in 0 .. fs.num - 1 : fs.entries[i].msgnum = n }
      loses == list["Other"][1] # NoPost \/ Cardinality(files) > 1
  IN  /\ may("MCPY") /\ n # NoPost
      /\ \A i \in files : fs.entries[i].copies < MaxCopies
      /\ loses => may("COPY_LOSES")
      /\ list' = [list EXCEPT !["Other"] = Inserted(@, n)]
      /\ fs' = Addcopy(fs, n)
      /\ Bounds /\ UNCHANGED << session, highest, uploads >>

\* chiudi_sessione.
Drop(u) ==
  /\ may("DROP") /\ session[u].stato # "OFF"
  /\ fs' = GivenUp(u)
  /\ To(u, "OFF")
  /\ Bounds /\ UNCHANGED << list, highest, uploads >>

\* cmd_cusr: the session has no user any more when it is closed.
Cusr(u) ==
  /\ may("CUSR") /\ session[u].stato # "OFF"
  /\ To(u, "OFF")
  /\ Bounds /\ UNCHANGED << fs, list, highest, uploads >>

-----------------------------------------------------------------------------
(***************************************************************************)
(* Saving and restarting.                                                  *)
(***************************************************************************)
\* crash_save_perfavore: rooms, message file and fs_save.
Save ==
  /\ may("SAVE") /\ saves < MaxSaves
  /\ saves' = saves + 1
  /\ disk' = [list |-> list, highest |-> highest, fs |->
                [fs EXCEPT
                   !.lastnum = IF fs.idirty THEN @ ELSE disk.fs.lastnum,
                   !.num     = IF fs.idirty THEN @ ELSE disk.fs.num,
                   !.entries = IF fs.idirty THEN @ ELSE disk.fs.entries,
                   !.unum    = IF fs.udirty THEN @ ELSE disk.fs.unum,
                   !.ustats  = IF fs.udirty THEN @ ELSE disk.fs.ustats]]
  /\ fs' = [fs EXCEPT !.idirty = FALSE, !.udirty = FALSE]
  /\ UNCHANGED << commands, session, list, highest, uploads, crashes >>

\* fs_init after a crash: totbytes and the bookings were never saved, what the
\* bookings cost was.  fs_delete_overwritten finds nothing: no post was
\* overwritten here.
CrashRestart ==
  /\ may("CRASH") /\ crashes < MaxCrashes
  /\ crashes' = crashes + 1
  /\ fs' = [disk.fs EXCEPT !.totbytes = 0, !.books = << >>,
                            !.idirty = FALSE, !.udirty = FALSE]
  /\ list' = disk.list
  /\ highest' = disk.highest
  /\ session' = [u \in Users |-> [stato |-> "OFF", last |-> NoPost]]
  /\ UNCHANGED << commands, disk, uploads, saves >>

NoEntry == [filenum |-> 0, size |-> 0, user |-> 0, msgnum |-> 0, copies |-> 0,
            purpose |-> 0, late |-> FALSE]
NoStats == [user |-> 0, totbytes |-> 0, numfiles |-> 0]

Init ==
  /\ commands \in CommandSets
  /\ fs = [lastnum |-> 0, totbytes |-> 0,
           num |-> 0, entries |-> [i \in 0 .. Allocated - 1 |-> NoEntry],
           unum |-> 0, ustats |-> [i \in 0 .. Allocated - 1 |-> NoStats],
           books |-> << >>, idirty |-> FALSE, udirty |-> FALSE]
  /\ session = [u \in Users |-> [stato |-> "OFF", last |-> NoPost]]
  /\ list = [r \in Rooms |-> [i \in 1 .. RoomLen |-> NoPost]]
  /\ highest = 0
  /\ disk = [fs |-> fs, list |-> list, highest |-> highest]
  /\ uploads = 0 /\ saves = 0 /\ crashes = 0

Next ==
  \/ \E u \in Users :
       \/ Login(u) \/ Pstb(u) \/ Pste(u) \/ Atxt(u) \/ PostTimeout(u)
       \/ Fupe(u) \/ Fdnl(u) \/ Drop(u) \/ Cusr(u)
       \/ \E size \in Sizes : Fupb(u, size)
       \/ \E k \in DOMAIN fs.books :
            Fbkd(u, k) \/ \E matches \in BOOLEAN : Fupl(u, k, matches)
  \/ \E r \in Rooms, i \in 1 .. RoomLen : Mdel(r, i)
  \/ \E i \in 1 .. RoomLen : Mcpy(i)
  \/ Save
  \/ CrashRestart

Spec == Init /\ [][Next]_vars

-----------------------------------------------------------------------------
(***************************************************************************)
(* Properties.  None holds once elements were moved in the middle of the   *)
(* arrays (fileserver.c:704, 736, 807).                                    *)
(***************************************************************************)
Indexed    == { fs.entries[i] : i \in 0 .. fs.num - 1 }
Booked     == { fs.books[k] : k \in DOMAIN fs.books }
InOrder    == {"DEL_MIDDLE", "ADD_MIDDLE", "USER_MIDDLE"} \cap commands = {}
SizeOf(e)  == e.size

\* Until the server is started again, what is charged to a user, and to all of
\* them, is what the user's bookings and files take: whatever is uploaded, given
\* up, timed out or deleted, by whomever (fileserver.c:423, 787, 853).
UsageExact ==
  InOrder /\ crashes = 0 =>
    /\ \A i \in 0 .. fs.unum - 1 :
         LET u    == fs.ustats[i].user
             mine == { e \in Indexed \cup Booked : e.user = u }
         IN  /\ fs.ustats[i].totbytes = MapThenSumSet(SizeOf, mine)
             /\ fs.ustats[i].numfiles = Cardinality(mine)
    /\ fs.totbytes = MapThenSumSet(SizeOf, Indexed \cup Booked)

\* A number given back (fileserver.c:858) is never given out while a file or
\* a booking has it or one above it: the file would be overwritten.
NumbersOnce ==
  InOrder => /\ \A e \in Indexed \cup Booked : e.filenum <= fs.lastnum
             /\ \A e, d \in Indexed \cup Booked :
                  e.filenum = d.filenum => e = d

\* The copies of a file are those of its post in the rooms, so the file goes
\* with the last of them.  Not for a file sent too late, nor when a copy
\* pushes a post out of a room (rooms.c:895) or the post has more files (the
\* return in fileserver.c:326), nor when a copy was forgotten in a crash
\* (fileserver.c:319).
CopiesExact ==
  InOrder /\ "COPY_LOSES" \notin commands /\ ("MCPY" \in commands => crashes = 0) =>
    \A e \in Indexed : ~ e.late => e.copies = Cardinality(SlotsWith(e.msgnum))

\* What the index counts, bytes and files of each user and copies of each file,
\* is what there is.
IndexExact == UsageExact /\ CopiesExact

\* A file is attached to the post it was booked for, although cmd_fupl takes
\* the last one of the session (fileserver.c:489): when the post is not written
\* the bookings are given up.  Not so in post_timeout (post.c:64), when another
\* post is begun before the files are sent, and after CUSR.
AttachedRight ==
  InOrder /\ {"TIMEOUT", "POST_AGAIN", "CUSR"} \cap commands = {} =>
    \A e \in Indexed : e.msgnum = e.purpose

\* A file stays as long as its post is in a room; with the same exceptions.
Stays ==
  \A e \in Indexed :
    ~ e.late /\ e.msgnum \in Listed' => \E d \in Indexed' : d.filenum = e.filenum
FilesStay ==
  [][ InOrder /\ "COPY_LOSES" \notin commands /\ crashes' = 0 => Stays ]_vars

\* Only the files of the post that is deleted go ("Elimino gli eventuali file
\* associati", rooms.c:838).
DeletesOnlyTheirs == [][ crashes' = 0 => Stays ]_vars
=============================================================================
