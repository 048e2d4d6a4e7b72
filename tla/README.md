# A verification development of Cittadella/UX

Cittadella/UX is a bulletin board: a daemon (`server/src`), a terminal client
(`client/src`) and a library both share (`share`).  This directory holds TLA+
models of the parts of the server that keep posts, mail, files, rooms and polls, of
messages between users and of the connection to a client, TLC configurations which
check them on small instances, and TLAPS proofs for every instance.  Every
definition stands for lines of the C source; `PROJECT.json` ("map") names them.

To check a run: `tlc -workers 2 -config X.cfg M`; to check proofs: `tlapm M.tla`.

## 1. The system

The server is **one process and one thread**: `ciclo_server` (cittaserver.c)
goes round a `select`, accepts connections, reads one line from each session,
serves the complete command, makes the timers tick and closes the sessions in
state `CON_CHIUSA`.  So nothing interleaves *inside* a command.  What interleaves
is the commands of different users, with state that survives from one command to
the next in each session (position of reading, text being written, room, lock
timer), in the rooms and in files on disk.  A command that needs several lines
(a post: `PSTB`, `TEXT`..., `PSTE`) is several steps, and anything may happen
between them.  Most of what is on disk is written by `crash_save_perfavore`, every few
minutes and at shutdown, and a crash falls back to what was written then.  Not all:
posts go to the message file at once; a mailbox is written when a mail comes
for a user who is away (`mail_add`) and, with the user's marks, when a session is closed
(`mail_save`, `utr_save`); a poll is written when it is created.  What names a post and what
describes the file it is in thus reach the disk at different times.

| Component | State | Operations | Interacts with | What makes it correct |
|---|---|---|---|---|
| **Message file** (file_messaggi.c, fm_cmd.c) | `struct file_msg` (lowest, highest, posizione, nmsg, ndel, size), the circular file | fm_put, fm_get, fm_getheader, fm_delmsg, fm_create, fm_resize, fm_expand, load/save | rooms keep number and position of each post; the cache of posts; crash save | what is read is what was written, or an error; the oldest posts go first; the counters are those of the file |
| **Lists of posts, Cestino** (rooms.c, messaggi.c, cestino.c, room_ops.c) | `struct msg_list` of each room (num, pos, local, highloc, highmsg, dirty), `dump_undelete` | save_post, citta_post, MDEL, MMOV, MCPY, RLEN, RDEL, msg_dump, msg_undelete, save, load | message file; notices to the room of the aides | no post lost, doubled or renamed; thrown-out posts go back where they came from; what is not marked dirty is saved |
| **Reading** (messaggi.c, march.c) | lastread, rdir, newmsg of the session, fullroom of the user | READ in 12 modes, GOTO, new_msg | lists, which the others change; cache of posts; message file | nothing new is hidden, nothing skipped, reading on gets on |
| **Post lock** (post.c, x.c, rooms.c, room_ops.c, cittaserver.c) | room->lock, flags of the room, stato, room and rlock_timeout of the session | PSTB, PSTE, ATXT, post_timeout, QUIT, CUSR, chiudi_sessione, REDT, RDEL | main loop (timer), room list (room_empty) | one writer at a time; the lock is given back |
| **Main loop, sessions** (cittaserver.c) | list of sessions, stato, queues, idle clock | accept, elabora_input, idle_cycle, chiudi_sessione | everything | every session that ends is closed once, and its resources go |
| **Crash save** (cittaserver.c) | nine files on disk | crash_save_perfavore, the loads at start | all components with data on disk | what was loaded does no harm, although it need not fit together |
| **Room list, navigation** (rooms.c, room_ops.c, march.c, ut_rooms.c) | list of rooms with pos and num; vectors per user indexed by pos (fullroom, room_flags, room_gen), in memory for who is connected, on disk for the others | RNEW, RDEL, RSWP, GOTO, ZAP | users, crash save | a vector element always belongs to the room it was written for |
| **Mail** (mail.c) | list of each user, in memory or on disk | mail_add, mail_load, mail_save, READ, GOTO and MDEL in mail | login, logout, posting; message file | no mail lost between login and logout |
| **Cache of posts** (cache_post.c, share/cache.c) | posts by number and position | cp_put, cp_get | message file, reading | a stale post is not shown |
| **File server** (fileserver.c) | files and bookings | FUPB, FUPL, FDNL, deletion with the post | posting, main loop | a booking becomes a file or is given up |
| **X messages, chat, broadcasts** (express.c, x.c) | list of recipients, chat channel and its clock in the session | XMSG, DEST, XEND, XINM, BRDC, BEND, CASC, CMSG, CEND, CLAS, chat_timeout | sessions that come and go, and the notices of it (notify_logout) | each recipient gets it once or the sender is told; everybody knows who is there |
| **Referendum** (urna-*.c) | ballots, who voted | create, vote, close by date | main loop, users | a vote is counted once |
| **Blogs** (blog.c) | a blog per user, a virtual room per visitor | goto, posting | room list, lists of posts | as for rooms |
| **Text queues, sockets** (coda_testo.c, socket_citta.c, compress.c) | input and output queues of a session | push, pop, flush | main loop | lines arrive whole and in order |
| Users, floors, search, command interpreter | lists and files of their own | their commands | all | - |
| Web, POP3, IMAP4, services, conversion tools, client, shared library | - | - | - | - |

### What is hard here

* Copies of the same fact kept in step by hand: the slots of the Cestino and
  `dump_undelete`; positions remembered by rooms and a file that wraps; `lowest`
  and the posts in the file; `highmsg` and the posts of a room.
* A command that spans others: a post is begun in one room and ended in another,
  after the room was deleted or its flags changed; the lock has no owner.
* Crashes: posts are on disk at once, what describes them much later, each list
  only if somebody marked it dirty.
* A long life: counters stepped for years and never recomputed.
* A failure in the middle: `fm_put` refuses a header and its callers go on.

The full list, line by line, is in `PROJECT.json` under "hazards".  Where the guard of a property leaves a hazard
out, or the code has fallen to it, no property is named for it and a note says why.

## 2. What is modelled

| Module | Lines of code | What it is |
|---|---|---|
| `MessageFile` | file_messaggi.c | the circular file, byte by byte; its mapping to the log |
| `BoundedLog` | - | what a message file promises: a log that drops its oldest posts |
| `MCMessageFile` | - | instance |
| `MessageFileCrash` | file_messaggi.c, cittaserver.c, mail.c | the same file, the lists of the rooms and a mailbox through savings and crashes |
| `PostCache`, `MCPostCache`, `PostCache_proofs` | cache_post.c, share/cache.c, share/hash.c | the cache of posts in front of that file; the proofs about both |
| `PostLock` | post.c, x.c, utente_cmd.c, rooms.c, room_ops.c, march.c, cittaserver.c | sessions, rooms and the lock; their mapping to the mutex |
| `RoomMutex` | - | what the lock promises |
| `MCPostLock` | - | instance |
| `PostLock_proofs` | - | proofs |
| `RoomMessages`, `MCRoomMessages` | rooms.c, messaggi.c, cestino.c, room_ops.c, cittaserver.c | lists of posts, Cestino, saving |
| `RoomReading`, `MCRoomReading`, `RoomReading_proofs` | messaggi.c, march.c | a reader, composed with `RoomMessages`; the proofs about both |
| `RoomPositions`, `MCRoomPositions`, `RoomPositions_proofs` | rooms.c, ut_rooms.c, room_ops.c, march.c | the list of rooms and the vectors of users indexed by position |
| `UserMarks` | - | what the vectors promise: marks of users on rooms |
| `FileServer`, `MCFileServer`, `FileServer_proofs` | fileserver.c, post.c, x.c, messaggi.c, rooms.c | bookings and files of posts |
| `Mailboxes`, `MCMailboxes`, `Mailboxes_proofs` | mail.c, utente_cmd.c, messaggi.c, express.c, cittaserver.c | mail boxes in memory and on file, and the sessions that hold them |
| `UserMailboxes` | - | what they promise: one box for each user |
| `ClientStream`, `MCClientStream` | socket_citta.c, coda_testo.c, cittaserver.c | the bytes between a client and its session |
| `Express`, `MCExpress`, `Express_proofs` | express.c, x.c, utente_cmd.c, generic.c, interprete.c, cittaserver.c | X messages, chat, notices of who comes and goes, and the timeouts of the main loop |
| `Referendum`, `MCReferendum`, `Referendum_proofs` | urna-*.c, x.c, cittaserver.c | polls, from their opening to their end by date |

Definitions whose comment begins with "Slip" are no part of the program.  Each is a
plausible mistake in the definition that follows it; put in its place, it makes a
property fail (`PROJECT.json`, "mutants"), which shows that the property looks.

### MessageFile

`size`, `lowest`, `highest`, `posizione`, `nmsg`, `ndel` are the fields of
`struct file_msg`.  A byte of `disk` is what the code can tell of it: the mark if a
post begins there, and, for the checksum, which post it is part of and how many
bytes are left to its end.  `entries` is what the rooms remember: number and
position.  `Put` is the whole of `fm_put`: the scan of the bytes it overwrites and
the three counters, the bytes, the new position (which stays at `size` when a post
ends there: `fm_putc` folds it only before the next byte).  `Delmsg` is `fm_delmsg`,
which asks `fm_seek` only; `Get` is `fm_get`, which compares the number in the
header and the checksum too.  `PutTooLong` is the refusal of a long header: the
number is spent before it is noticed.  `Forget` is a room that drops a post.

Abstractions: contents are one of a few texts; lengths count header, text and
checksum; failing system calls are left out; `fm_resize`, `fm_expand` (offline
administration) are not modelled; there is one message file ("per ora un unico file
messaggi per tutte le room", `fm_default`).

### MessageFileCrash

`entries` is what the lists in memory remember, those of the rooms and one mailbox (`mails`); its
owner comes and goes.  `crash_save_perfavore` is two steps, the lists of the rooms (`room_save_data`) and then the
description (`fm_save_data`), with nothing served in between.  The mailbox is saved apart: `MailSave` when its
owner's session is closed, and within `Serve`, for a mail to an owner who is away, which `mail_add` adds to what is on
disk and writes at once.  `CrashRestart` loads what was saved last of each.  The bytes of posts survive, as in the code.

For the properties, `torn` remembers that a crash fell between the two savings, and `ahead` holds the posts that a
restart found in a list on disk although the description it found there did not know their numbers yet: mails, after
any crash, and posts of rooms after a torn one.  Their numbers are given out again.

### PostCache

A block of the queue has the post with number and position, and `found`, whether the hash table leads to it
from its number: `hash_insert` refuses a number that is there already, so of two blocks of one number the
second is not found, and `hash_remove` takes out what there is under the number, whichever block it is.
`freed` would be entries of the table whose block was freed.  `Read` is `cp_get` as READ and the web call it; `Others` is
a step of `MessageFileCrash`, in which `save_post` puts its post into the cache and notices do not.  A restart
begins with an empty cache.

### PostLock

`stato`, `room`, `blog`, `utente` and `timer` are fields of the session; `lock` and
`flags` of the room.  `owns` is there for the properties: which lock the post of a
session took.  Each command is one action, the passes of the loop are `Tick` (all
sessions at once, as the code walks over them in one pass) and `Close`.
`LockAfterClose` is the condition of `chiudi_sessione`, which looks at the state of
the session *after* QUIT may have changed it.  The constants `Leaving`, `RoomEdits`
and `Blogs` say what users do besides posting; properties that the code keeps only
without some of them are checked without them (see 5).

### RoomMessages

`msg[r]` is `struct msg_list` of room r, slot 1 the oldest.  One action per command,
each with everything it does: the notice that MDEL, MMOV and RDEL post in the room
of the aides is part of the action.  `Place` and `Inserted` translate the loop of
`msg_move`, `msg_copy` and `msg_dump`, which pushes slot 2 down before it compares.
`commands` is chosen at the beginning: the set of commands a behaviour is made of,
so that one run covers several mixes with bounds of their own, and a property may
say which command breaks it.  `home` (in a slot) is there for the properties.

### RoomReading

One reader, everybody else is `Others`, a step of `RoomMessages`.  `New`,
`NextSlot` and the other operators are the loops of `cmd_read` by mode; `Show` is `msg_send` with the update of
lastread and fullroom.  Two variables the code does not initialise (fullroom in all
modes but 1, the index in mode 3) are nondeterministic choices.  The cache of posts
may or may not still yield a post that is gone.

### RoomPositions

`order` is `lista_room`, `pos[r]` the field of the room, `nslot` is `utr_nslot`.  A vector
(`fullroom`, `room_flags`) is a function from positions to sets of marks; `SEEN` stands for an
element of `fullroom` that is not 0.  It is in memory (`mem`) while its user is connected
and in the file otherwise, and every operation on all vectors (`utr_*_all`) treats the two apart,
as the code does.  `Rnew`, `Rswp` and `Rdel` are the commands with the operation on the
vectors; `Renumbered` keeps the bound of the loop in `room_delete`.  `realloc` leaves anything in
the new slots (`junk`).  `UserMarks` knows no positions: a room created, removed, or one
user's or one room's marks changed, and a crash that may undo what happened to those connected.

### FileServer

`fs` holds `file_index`, `file_ustats` and the bookings; elements 0 .. `num` - 1 are in use.
`Moved` is `memmove` with what the code passes to it, numbers of elements where bytes are
due.  `late` and `purpose` are there for the properties.  `Fupb`, `Fupl`, `Fbkd`, `Fdnl` are the
commands; `Pste`, `Mdel` and `Mcpy` are the posts that files belong to, with the scrolling and
deleting that takes files along (`Dropped` is one turn of the loop of `fs_delete_file`, `CancelOf` one
of `fs_cancel_all_bookings`); `Atxt`, `PostTimeout`, `Drop`, `Cusr` are the ways out of a post.

### Mailboxes

A pass of the main loop is `Poll` (new and lost connections), a command for each session
in the order of the list (newest first), and `EndPass` (sessions taken over, then idle and
closed ones).  `Usr1` marks the newest other session of the user and loads box and marks from
the files; `Closed` is `chiudi_sessione`, which saves them.  `MailAdd` looks for the session by
number, `AlterEgoOut` by name, so that a guest, who has the number of the first user,
is found by one and not by the other.  `Read` is `cmd_read` in the mail room: the local that the number of the mail
is compared with is set by READ of the new mails only, so after any other READ the mark may stay or become the mail
shown, be it older (messaggi.c:380-387).  `Goto` is the ways to leave the room: all is read, what
was shown last (`lastread`) if it is newer, nothing, or, with skip, the mark is again what it was on entering (`newmsg`,
march.c:134).  So the mark of `UserMailboxes` may go either way; MDEL deletes the mail shown last.

### ClientStream

`text` and `ilen` are `iobuf.in` and `iobuf.ilen`, which need not agree (`Gap`); `queue` and `blocks` the
two queues of the session, `out` the buffer of output.  `Input` reads what TCP has
delivered, any number of bytes; `Elaborated` is `elabora_input`; `Command` serves one line and moves
what fits of the replies (`prendi_da_coda_o`); `Output` writes as many bytes as the socket takes.
A client sends the bytes of a file after it got the answer to FUPL.

### Referendum

`polls[n]` is the poll whose number (progressivo) is n; `votanti` the list in
`ustat`; `disk` its files, of which `save_stat` writes the numbers and counts and
`save_urna` one poll.  `Expire` is `rs_expire` over all polls.  `voting` and `warned` are there for the
properties.  A poll is saved when it is created, its files go when it ends, and votes
are saved by `crash_save_perfavore`.  `Loaded` is what a restart finds of it: `load_urna` refuses a poll one of whose choices has
as many characters as are accepted (`long`, urna-rw.c:780), or whose voters or viewers are more than `MaxUtenti`
(urna-rw.c:956, 982).  Such a poll is counted out and never comes back (`Readable`).

### Express

A session holds its `stato`, recipients (`rcpt`), the message it writes (`text`), `canale` and the two
clocks `idle` and `chat`; `warning` is `idle.warning`.  `quiet`, `warned`, `present` and `inchat` are there
for the properties: minutes and warnings since the last command, and what its client was told of
others by lists and notices.  A pass is a minute: `Poll` ticks and drops lost connections,
each session then serves a command or none (`Silent`), and `EndPass` is the rest of
`ciclo_server`: sessions taken over, idle warnings and logout, chat timeout, login timeout,
`CON_CHIUSA`.  Of output that fails only the notice of the idle logout counts (`broken`, cittaserver.c:860): `scrivi_a_client_iobuf`
returns a `size_t`, so the test of line 844 is never true.  HWHO and CWHO (`Hwho`, `Cwho`) list the sessions which leave in this
pass too; who is named by them for this reason only, after the notice, is in `leaving` and not in
`present` or `inchat`, until the client hears of him again.  The leaving of `Unregistered` users is announced to nobody
(`notify_logout`), though their coming is; they may chat here, since the level that allows it is set apart
from registration.  `Xend` keeps on the list whom `send_multix` did not find, `Xinm` sends them a mail
(the box itself is in `Mailboxes`).

## 3. The runs

| Run | Bounds | What it shows |
|---|---|---|
| `message_file` | files of 5 and 7 bytes, posts of 2 and 3, two texts, 5 numbers | the file wraps twice, posts end at, before and across its end, one write destroys one or two posts, deleted ones among them, headers are refused: reads are right, counters exact, and the file implements `BoundedLog`, which loses the oldest first |
| `post_cache` | one file of 4 bytes, posts of 2 and 3, 2 numbers, a mailbox, a cache of one post, a crash at any moment | after the fall back to an older description, numbers are given again and posts written over unknown ones: of two posts remembered under one number, one was on disk ahead of the description, and it is a mail unless the crash fell between two savings; of all others a wrong one is never handed out, by the file (the number in the header and the checksum see to it) or the cache |
| `post_lock` | three users, two rooms (one of them mail), a timer of 2 passes; connections break | one writer at a time; `RoomMutex` implemented; a lock with a timer is freed |
| `post_lock_edits` | two users; QUIT, CUSR, blogs, REDT and RDEL too | every session is in a room that exists; a post with a timer ends |
| `room_messages` | Cestino, a room, the aides' room; 2 or 3 slots each; up to 5 posts; one saving, one crash | no post lost needlessly; each stands once, under its own name, and if thrown out beside its room (`PostsPlaced`); unmarked lists are saved |
| `reading` | a room and a Cestino of 3 slots, 4 posts, overwriting | nothing new is hidden; READ 10 delivers while there is something; nothing is skipped; the announced rest is right |
| `room_positions` | two users, one an aide; two basic rooms, up to 4; three slots that grow by one; one saving, one crash | positions stay dense and within the vectors; the vectors, wherever they are, implement `UserMarks`; a new room inherits no marks |
| `file_server` | two users, two files each, sizes 2, quotas of 4 bytes; two rooms of 2 slots, 3 posts, 2 uploads; one saving, one crash | quotas and counts are what bookings and files take; numbers are given once; copies are counted; a file is attached to the post it was booked for, and stays as long as it |
| `mailboxes` | three connections, two users (one shares its number with the guest), boxes of 2, 3 mails; READ with GOTO, and with MDEL and CUSR, GOTO with connections lost and taken over | at the end of a pass a user has one session; unread mail is announced; boxes in memory and on file implement `UserMailboxes`, while the mark goes forward and back |
| `client_stream` | buffers of 6 bytes, lines of 3; a reply longer than the buffer, a line that is cut, an upload and a download, each over every cutting of the bytes | lines are queued as they are read, files get their bytes and no others, replies are sent in order, and in the end all of them |
| `referendum` | two users, up to two polls (numbers), 3 ticks of the clock, slots of one voter, one crash; polls that are too long, or seen by too many, to be loaded | votes counted once; `ustat` and the files agree with the polls; voters are warned before the end; polls end |
| `express` | three connections, three users, one of them unregistered; two recipients of a message (MAX_RCPT), one message, or two with takeovers; two channels; warnings after 1 and 2 minutes, logout after 3, chat and login after 1 and 2 | a recipient gets a message once, and only if it was named; between passes everybody knows who is in and who is in the channel, but for the exceptions that the properties name; nobody is thrown out without two warnings or while the terminal is locked, and nobody idle stays |

**Why the bounds are enough.**  A file of 4 or 5 bytes holds at most two posts and one of 7
three; with posts of 2 and 3 bytes every alignment of a post to the end of the file
occurs, a write destroys 0, 1 or 2 posts, and 5 numbers go round twice.  With the cache, a number
given before a crash and after it meets itself in the lists, the file and the block; posts of the two lives say
different things (`Says`), those of one life differ by number.  More numbers, blocks and crashes are
left to the proof, which is for any.  Two slots are the
fewest the code accepts (RLEN refuses less) and three have a middle, so a post can be
moved to the front, the middle and the end of a list, and lists of different length
exchange posts.  Two users contend for a lock, a third can come while one times out.
With two basic rooms and two more, rooms are swapped and deleted before, at and after
another one, and the third new room makes the vectors grow.  Three connections are
the fewest with which one user is taken over while another one writes to him; boxes of
two overflow with three mails.  Two files of a user fill the quota in number and in
bytes, and the whole server's in bytes.  Buffers of six bytes hold one long line, or
several short ones, and no long reply.  Two polls of which one ends while the other is
open, with a clock of three ticks, end before, in and after the time of grace.  Two of three
users can be recipients of the third, one there and one gone; clocks stop two minutes after the last
thing that depends on them (`IdleCap`, `ChatCap`).  One choice too long and one viewer more than `MaxUtenti`, in a mix each,
make a poll unreadable.
`commands` splits `MCCommandSets` into mixes of a few commands each: all pairs that
touch the same state are in one of them, but for the chat with WRITE_ERROR, which only the proof covers.
The lock and the reader have no bound on the length of behaviours; elsewhere the
number of posts bounds it.

**Symmetry**: the connections of `mailboxes`, and
the connections and the registered users of `express`, where no liveness is checked.

**Deadlock** is checked in `mailboxes`, where the main loop goes on for ever, and not
elsewhere: when all numbers are used and nobody does anything, the
models stop, as a board on which nobody writes does.

**Fairness** (`FairSpec`): weak fairness of `Tick` and of `Close`.  The main loop goes
round for ever, with a timeout in its `select`, and each time makes these passes over
all sessions.  No command of a user is fair: users may stop for ever, which is why only
a lock *with a timer* is promised to be freed.  In `ClientStream` the passes are fair
(`WF_vars(Next)`), and the network is: if bytes can be delivered, or taken, again and
again, at some time they are (`SF_vars(Reading)`, `SF_vars(Writing)`), since TCP does not
give up before it closes the connection, which ends the behaviour.  In `Referendum` time
passes and `rs_expire` is called every five minutes (`WF_vars(Tick)`, `WF_vars(Expire)`); voters
are not fair.

## 4. What is proved

TLAPS proves, for every value of the constants which the named assumptions allow:

* `PostCache_proofs`, about `MessageFile` (assuming `SizesAssumption`, `LengthsAssumption`: a post fits the
  file; `TextsAssumption`; `FlagsAssumption`):
  * `TypeCorrect`, `NeverErased`, `Counters`, `ReadsYieldOwn`: `Spec => []` of `TypeOK`,
    `NeverErasedWhileThere`, `CountersExact` and `ReadsOwn`.
  * The argument.  None of these is inductive: that the counters stay right depends on
    where posts lie.  The invariant `IInv` adds `FileInOrder`: seen from the write
    position backwards (`Behind`), a post that still begins in the file is whole, ends
    before the write position, and is newer than those behind it.  So the posts do
    not overlap, a write meets the oldest first (`PutOrder`), and the k posts it destroys
    have the k lowest numbers at least: `lowest + k` is still not above the next one
    (`HitBound`, a counting argument over the finite set of numbers).  `PutCounts` is the
    cardinality of the marks before and after.  `EntriesOwn` ties what the rooms remember
    to the texts on disk, and with `Whole` gives `ReadsOwn`.
  * `LowestExact` and `DeletesOnlyOwn`, assuming `~HeaderMayOverflow`: `lowest` is then the
    number of the oldest post, and `fm_delmsg` never marks another post than the one it is
    asked for.  Inductive with `NoGaps`: every number from `lowest` to `highest` is in the
    file, and a post that a room remembers stands where it was written or is gone.  A post
    destroyed takes all older ones with it (`HitIsPrefix`), so as many numbers are stepped
    over as are lost.
  * `BoundedLogOfPosts`: `Spec => ImplementsLog`, with and without refused headers.  Action by action: `Put` is
    `Append1`, `PutTooLong` `Skip`, `Delmsg` `MarkDeleted`, `Forget` is not seen.  The log drops posts by counting the bytes of those it
    holds, the file by looking for first bytes where it writes.  Inductive with `Packed`: between the first byte of a
    post and the write position there are just the bytes of that post and of the newer ones
    (a cardinality, which a write raises by the length of the new post: `PutPacked`).  Hence what the
    log counts is what `Behind` measures (`RoomSince`), and the posts it keeps are those not hit (`KeepIs`).
* `PostLock_proofs` (assuming `RoomsAssumption`, `TimeoutAssumption`, `SwitchAssumption`):
  * `TypeCorrect`: `Spec => []TypeOK`, with every way of leaving, edits and blogs; its heart
    is that `room_empty` finds a room before the deleted one (`PrevExists`).
  * `OneWriter`: without edits and blogs, `Spec => []OneAtATime`, for any number of users
    and rooms.  Inductive with `LockInv`: while somebody writes in a room with RF_POSTLOCK
    its lock is taken and nobody else writes there.
  * `ImplementsRoomMutex`: under the same conditions, and when connections only break,
    `Spec => ImplementsMutex`: every step is one of `RoomMutex` or a stutter.  With `OwnInv`: the lock of a
    room is taken if and only if the post of some session took it (the other half of `LockInv`, which
    QUIT and CUSR break), and that session is still in the room.
* `RoomReading_proofs`, about the lists alone (assuming `RoomsAssumption`, `LengthsAssumption`, `BoundsAssumption`):
  * `TypeCorrect`, `FreeSlotsFirst`, `CleanSaved`: `Spec => []` of `TypeOK`, `FreeFirst`,
    `CleanIsSavedButDumped`, for any rooms, lengths and mix of commands, savings and crashes.
  * The argument.  `Good` says what every command keeps of the lists (types, free slots
    first, unmarked lists on disk); each operation on one list keeps it (`ScrolledList`,
    `WithoutList`, `InsertedList`, `ResizedList`), hence each operation on all lists
    (`PostToGood`, ...), hence each command.  The invariant adds that the saved lists are as
    good, for a restart, and that an unmarked Cestino is as long on disk as in memory, since
    dump_undelete is always written and must fit it.
  * `NoPostLost`: `Spec => NoNeedlessLoss`.  Of each operation on a list it is shown which posts stay when slot 1
    is given up (`HasSafe`: in another slot than the first), and each command is composed of them.
  * `PostsArePlaced`: `Spec => []PostsPlaced`, from three theorems with an inductive invariant each.
    `PostsInOnePlace` (`OnePlace`): no list holds a post twice, no two lists hold the same, and none holds a number above
    `highest`, so that the next one is new.  `HomesKnown` (`HomeKnownOfDumped`): what dump_undelete holds in a slot is
    the room the post of that slot was thrown out of, and never the Cestino, so that no post goes back to where it
    already is; `Place` is computed for the slots and for dump_undelete from the same list.  `LocalNumbersNameOne`
    (`LocalNamesOne`): a name is a room and a local number, and a post keeps its name in the Cestino, where
    dump_undelete tells the room (`Origin`); deleting, throwing out and taking back make no new name (`FewerNames`), a
    new post gets one that is not used yet (`PostToLocal`).  For a restart the same is kept of the lists on disk,
    of which each may be of another saving (`MixedLocal`), with local numbers counted no higher than in memory.

* `PostCache_proofs`, about crashes and the cache (under the same assumptions):
  * `NumbersStayUnique`: `CrashSpec => []NumbersNotReused`; `CachedYieldOwn`: `CacheSpec => []CachedOwn`, for any
    number of crashes and savings and any size of the cache, with mailboxes saved apart.
  * The argument.  After a crash `FileInOrder` is lost: posts that nobody remembers lie over what the
    loaded description says.  `CrashInv` therefore speaks of each remembered post by itself
    (`KeptPost`), for the posts in memory and for those a restart would bring back, unless they are ahead or would be:
    the byte it began at has its number or a higher one, and in the first case it is whole and ends before the write
    position, the present one and the saved one.  A number that is given again is higher than all that the
    saved description knows, hence than all that lists remember without being ahead of it; and a list of a room is
    ahead only if the savings of lists and description were torn.  `CacheInv` says of every block that it has no other text than
    the post remembered under its number; each operation of the queue (`cp_put`, `cp_get`, the drop of
    the oldest) keeps the set of such blocks, so no induction over the queue is needed.
* `RoomReading_proofs`, about a reader (under the same assumptions, and none about the mix of commands, since the
  properties themselves say which commands break them):
  * `NewPostsSeen`, `ReadingGetsOn`, `NoPostSkipped`, `RemainingCounted`: `ReadingSpec` implies `NewMsgSeen`,
    `NextDelivers`, `NothingSkipped` and `RemainingRight`, for lists of any length.
  * The argument.  `ListsInv` adds to the invariant of `RoomMessages`: the posts of a room are in the order of
    their numbers (`Sorted`, without posts brought from elsewhere), none is dead or in two rooms (`Alive`), none is
    above `highmsg`, and what UNDELETE may bring back was below it before (`Returnable`); and the same of the lists
    on disk, for a restart.  Each operation on one list is shown to keep `Sorted` and not to bring in
    posts (`ScrolledHeld`, `InsertedHeld`, ...).  `ReaderInv` ties the slot of the reader to the number last read.
* `RoomPositions_proofs` (assuming `UsersAssumption`, `SlotsAssumption`, `MarksAssumption`, `BoundsAssumption`):
  * `PositionsDense`, `NewRoomsClean`: `Spec` implies `[]Dense` and `NewRoomClean`; `TypesWithoutRdel`: `TypeOK`,
    for any users, rooms, slots and command sets, as long as no room is deleted in the middle of the list.
  * `MarksStayOnRooms`: `Spec => ImplementsUserMarks`, if no command set has RDEL, nor CRASH together with RSWP or
    RDEL_LAST (the code breaks it then, see 5).  Action by action: RNEW is `Create`, RDEL `Remove`, a
    user's marks `ChangeUser`, REDT `ChangeRoom`, a restart `Crash`; RSWP and a saving are not seen.
  * The argument.  `Positions` is inductive: numbers in the list are distinct and the position of a room is its place
    (`ListInv`), every vector, wherever it is, has `nslot` slots (`VectorsInv`), behind the last room there is nothing
    in any vector (`CleanInv`, which `NewRoomClean` needs and which deletion keeps because what moves up
    from there is nothing), and without swaps and deletions the saved list is the beginning of the one in memory
    (`PrefixInv`, which makes a restart forget the newest rooms and move none).
* `Referendum_proofs` (assuming `UsersAssumption`: finitely many; `CommandsAssumption`, `BoundsAssumption`, `NoPollAssumption`):
  * `VotesCounted`, `StatOfPolls`, `WarnedFirst`: `Spec` implies `[]CountedOnce`, `[]StatExact` and `WarnedBeforeEnd`, for any
    number of voters and polls, any length of the periods and any polls that cannot be loaded.
  * The argument.  `IInv` says of memory and disk alike that a poll's counters agree with its list of voters (a restart
    exchanges the two), and that whoever is voting is listed under the poll he votes on and was warned if it
    is closing (`VotersListed`); and that no more polls are complete in the saved `ustat` than in memory (`SavedBefore`), so
    that a restart is not taken for an end.  The counting steps are cardinalities of finite sets.
* `FileServer_proofs` (assuming `NumbersAssumption`; the properties themselves say which commands break them):
  * `NumbersAreOnes`: `Spec => []NumbersOnce`; `FilesAttachedRight`: `Spec => []AttachedRight`; `CopiesCounted` and
    `UsageCounted`, which make up `IndexIsExact`: `Spec => []IndexExact`; `FilesAreKept`: `Spec => FilesStay`, for any users, sizes, limits and lengths of
    the arrays and of the rooms, through savings and restarts.
  * The argument.  `FilesNumbered` is the inductive invariant: entries stand in the order of their file numbers,
    numbers of files and bookings are distinct and none is above `lastnum`; and the same of the index on
    disk, for a restart.  A number is given back only if it is the last, so what is left stays
    below.  Elements are put at the end of the arrays and taken from there (`InOrder`), which `MovedNothing` uses: there
    `memmove` has nothing to move.  Attaching adds that a booking is for no post while its user writes
    and for the last post of the session afterwards.
  * Copies.  A list of a room changes by giving up the post of one slot and taking another into one; `CountMoves` pairs
    the slots in between, so that the number of slots with a post changes by these two only.  `StepEffect` reduces
    the commands to six effects, and `CopyInv` is kept by each: what is counted of a file is what its post has in
    the lists (`Counted`), in memory, and on disk when nothing is copied.  Then every file has one copy as long as it is
    there (`Single`) and what the index in memory has more or less than the one on disk is marked dirty.
  * Accounts.  `Fair` says that the users have one slot each and that what is charged, to each of them and in all, is the
    sum of the sizes and the number of what they hold, files and bookings together.  `ChargedMore` and `ChargedLess`
    carry it over one thing more and one less; `FairLike` over what changes things but not their numbers, sizes and
    users: a booking that becomes a file, a copy counted, a post assigned.  The community modules' sum takes the
    elements of a set in an order of its own, so `TotalWithout` and `TotalRenamed` show first that no order matters.
    `UsageInv` asks for `Fair` until the first restart, which keeps what bookings cost and forgets them.
  * The loops over slots and bookings are recursive functions; `LoopInduction` and `LoopExists` unfold them and carry
    an invariant of the loop, written as the set of states after each turn, through all turns.
* `Mailboxes_proofs` (assuming `NumbersAssumption`, `CommandsAssumption`):
  * `EachUserOnce`, `NoMailUnseen`: `Spec` implies `[]OneSession` and `[]NewMailAnnounced`; `TypeCorrect`: `[]TypeOK`;
    `OneMailbox`: `Spec => ImplementsUserMailboxes`, for any users, connections, mails and lengths of the boxes.
  * The argument.  `IInv` says of every box, in memory or in a file, that no mail in it has a number above its `highmsg`
    (`BoxOK`), of the list of sessions that it has each connection once (`ServerOK`), and of two sessions of one
    user that all but one are marked to be closed (`OneStays`), which the end of the pass turns into one
    session, since nobody is marked then (`NobodyOut`).  The loops over sessions (mails that go to every box, the
    closing of the marked ones) are recursive functions; `LoopInduction` carries what one turn keeps through
    all turns, written as a set of states.
  * The refinement.  As long as nobody takes over, is thrown out or is a guest, `Orderly` is kept: a user is in one
    session at most, the slots of every box are empty ones and then mails in ascending order, and a box that is not
    dirty is as in the file, which `mail_save` then may leave alone.  `Holds` says what the box of a user is, wherever it
    is; connecting, logging in, leaving and closing leave all boxes as they are (`Quiet`), deleting, reading and leaving
    the mail room change one (`OneBox`), and `mail_add` those it delivers to (`AllDelivered`).  `ScrolledKept` shows by counting that
    scrolling loses the oldest mail when the box is full, and an empty slot otherwise.  Action by
    action: SEND and XINM are `Deliver`, MDEL `Delete`, READ and GOTO `Mark`, everything else is not seen.
* `Express_proofs` (assuming `NamesAssumption`, `NumbersAssumption`, `CommandsAssumption`):
  * `TypeCorrect`, `EachOnce`, `PresenceIsKnown`, `ChatIsKnown`: `Spec => []` of `TypeOK`, `EachReachedOnce`, `PresenceKnown`
    and `ChatKnown`; `OutAfterTwoWarnings`: `Spec => IdleOutAfterWarnings`; for any users, connections, channels, recipients,
    messages and limits.  (Where CUSR goes together with CHAT_IDLE they say something of the model only: see 5, Messages.)
  * What is known, and to whom, has exceptions which the properties name, because the code makes them: users who have not
    registered leave unannounced; who was named by HWHO or CWHO as he left may be taken to be there for ever; ITOU that cannot be
    written; and, in the chat, sessions taken over.
  * The argument.  `BaseInv` says of the sessions what types do not: who is at the login has no user, who has none is at
    the login or leaves, who is in the chat has logged in, and between two passes nobody is marked
    (`AllStay`).  `TextInv` ties a message to its writer: two do not write the same one, and the list of the session holds, each once, recipients
    who have not got it (`ListOK`).  `ClockInv` bounds the clock of a session by the last limit and its warnings.
  * `SocialInv` is what `PresenceKnown` and `ChatKnown` need in the middle of a pass.  A user may have
    two sessions then, but all except one are marked and only one of the two is in or is still to be served (`TwoInPass`); one that is marked has a
    newer one in its place (`TakenOverBy`); what is known is told of sessions that stay (`Stays`): of whom HWHO and CWHO name, those
    that are listed and stay (`LoggedIn`, `InTheChannel`), and of a logout, if it is announced at all (`Announced`).  What each operation does is stated as a relation of two
    servers (`GoneBy`, `Enters`, `NamedAt`, ...) and each is shown to keep `Social`.  While CUSR throws out a user's sessions one by
    one `Social` holds for all other users (`but`), and for all again afterwards.
  * The loops over sessions are folds of the community modules; `FoldSteps` writes them as states after each turn, and
    `StepsKeep` carries what one turn keeps through all of them.

**Only model-checked**: liveness (`TimedLockFreed`, `TimedPostEnds`, `AllAnswered`, `PollEnds`), which is
beyond TLAPS; and `InputExact` and `RepliesInOrder` of `ClientStream`, which compare sequences that are sorted, filtered and
flattened, so that their proofs are inductions over data.  Type invariants that are proved are not listed in a run as well
(`MessageFile`, `RoomMessages`, `RoomPositions`, `Referendum`).

## 5. Where the code departs from what it says

They show when a configuration is changed (the definitions named
here are in the MC modules):

* `DeletesOwn` as a PROPERTY of `MessageFile.cfg`: `fm_put` spends the number of a refused header
  (file_messaggi.c:624), `lowest` lags behind, and `fm_delmsg`, which does not compare the number in the
  header as `fm_get` does, marks the post that stands now where the one to delete was.
* `LockHasOwner` as an INVARIANT of `PostLock.cfg` with "QUIT" in `Leaving`: `chiudi_sessione` ("Se lockava
  una room, la libera", cittaserver.c:1650) looks at the state, which QUIT, CUSR and the idle logout
  have changed before; the room stays locked.
* `SlotsHoldPosts` in `RoomMessages.cfg` with `MaxNum <- MCRefused`: `fm_put` returns -1 for a header that is too
  long, `save_post` tests for 0 and enters post -1, scrolling the oldest post away.
* `HomeKnown` with `MCMoved` (a third room B): `msg_move` and `msg_copy` into the Cestino shift its slots but
  not `dump_undelete`: the posts there are later restored to rooms they never were in.
* `CleanIsSaved` with `MCDumped`: `msg_dump` marks neither list dirty (cestino.c:103), so the next saving
  skips both, while `dump_undelete` is written.
* `NewMsgTells` in `Reading.cfg` with `MCResized`: RLEN makes a new list with `highmsg` 0 (rooms.c:714); new posts
  are not announced until the next one.
* `CachedOwn` without `e \notin ahead` (`PostCache.cfg`): mailboxes are saved apart from the description of the message file
  (mail.c:81-113, 185-214).  After any crash a box may name posts that the description does not know; their
  numbers are given out again, and the box shows another post as its own.  A crash between the saving of the lists of the rooms and
  of the description does the same to rooms (`NumbersNotReused` without `~ torn`).
* `AnswersAsFile` as an INVARIANT of `PostCache.cfg`: a post that was deleted through another room or overwritten is still
  shown from the cache, though `cp_get` promises the error of `fm_get`.
* `CountersExact` in `PostCache.cfg`: `fm_check` is empty, the counters
  stay wrong after a crash.
* `Blogs = TRUE` or `RoomEdits = TRUE` in `PostLock.cfg`: `OneAtATime` fails, since the end of a
  post frees the lock of the room the user is in by then, whoever took it, and since
  a flag set while two are writing does not stop them.
* `OnePlace` without `crashes = 0`: a post thrown out after the last saving may stand in
  both lists after a restart, since `msg_dump` marks neither dirty.
* `LocalNamesOne` with RESIZE (`highloc` begins again at 0), MOVE or COPY (the post keeps its
  local number in the new room): two posts of a room share a name.  The same after posts
  were moved or copied into the Cestino, or after a restart, and restored to a wrong room.
* `NewMsgTells` with MOVE or COPY: neither raises `highmsg`, so a post newer than all others of
  the room it is brought to is not announced there.
* `RemainingRight`, `NextDelivers`, `NothingSkipped` without their guards, with UNDELETE, MOVE or COPY: a post older than
  all others is put in front of a newer one, since slot 2 is pushed down before
  numbers are compared.  And READ 10 does not look at `lowest`, so it stops in front of a
  post that was overwritten (`NextDelivers` without `lowest = 1`).
* `highmsg` is not set back when posts are deleted: a room is then announced as having new
  posts when there are none.  The converse, that nothing new is hidden, is `NewMsgSeen`.
* `LowestIsLowest`, as the comment of `fm_lowest` has it, fails once a header was refused
  (`LowestIsLowest` as an invariant of `MessageFile.cfg`).

**Rooms** (`DeletesOwnMarks` as a PROPERTY of `RoomPositions.cfg` with `MCDeletes`, three rooms and no other
property): the loop that renumbers in `room_delete` (rooms.c:265, "Sistema room->pos per riallinearsi con gli
utr") ends before the last room.  After a room in the middle was deleted, the last one looks for its
marks in the slot after its own: kicked users are back, what was read is new.  Repeated, positions
leave the vectors.  A restart renumbers and so heals it.  Also: `utr_resize` by `realloc` leaves garbage in the
new slots of connected users, to which `utr_chval` ors the default (GROW); `utr_swap` forgets
`room_gen`, which nobody reads; `utr_get_fullroom` answers with `room_flags` for a connected user
(ut_rooms.c:594); a room forgotten in a crash leaves its marks to the next one of its position; a
crash after a swap or a deletion leaves files in the new order and the list in the old one.

**Mail** (`AlterEgoKilled` with `MCRace`): `collegato` finds the newest session only, so two logins of a user in one
pass both mark the same old session and both stay ("Killa l'alter ego se presente",
utente_cmd.c:219).  With TAKEOVER outside `Faithful`: the files are loaded before the earlier session is saved,
so mail it got meanwhile is not seen, and is lost when the later one gets some.  The same
with a login in the pass of a QUIT.  CUSR clears `utente`, so that nothing of the session is saved.
The mark may go back: READ of an old mail (messaggi.c:381, a local that is not initialised) and leaving with
skip (march.c:134) make mails new again that had been read, so nothing is promised of them but that it is the owner who does it.
A guest has number 0: mail to the first user goes to the guest, who loses it (GUEST).  Mail of
connected users is not written by `crash_save_perfavore`.

**Files** (`DeletesOnlyTheirs` as a PROPERTY of `FileServer.cfg` with `MCDeletes`): `fs_delete_file` ("Elimino gli
eventuali file associati", rooms.c:838) closes the gap in the arrays of the index with `memmove`, to which it gives
a number of elements for a number of bytes (fileserver.c:807): a file that is not the last of the index takes
the entry of another post's file along, which can no longer be found, downloaded or deleted.  The same when a
user or a file is put in the middle (fileserver.c:704, 736; DEL_MIDDLE, ADD_MIDDLE, USER_MIDDLE).  Also:
`post_timeout` keeps the bookings, and a file sent later goes to an earlier post of the session
(TIMEOUT; likewise POST_AGAIN and CUSR); `totbytes` is not saved, is 0 after a restart and wraps at the first deletion; what
bookings cost stays charged after a crash; `fs_addcopy` counts only the first file of a post, and
`msg_copy` pushes a post out without `fs_delete_file` (COPY_LOSES); neither copies nor `fs_addcopy` mark the index dirty;
`fs_delete_file` passes over the file after one that it removed.

**Stream** (`QueuedHoweverCut` with `MCThirdPart`): when a piece without a newline is joined to one
before, `ilen` grows by both (socket_citta.c:325, "Se l'input non contiene nessun newline esce senza fare
nulla"): the third piece lands behind a gap, and the session is deaf from then on.  A full buffer
is taken for the end of the connection.  The rest of a line that is too long is looked for without end
(socket_citta.c:351), also outside the buffer.  -1 from `write` is stored without sign: the session
goes on and the buffer grows by a byte (WRITE_ERROR).

**Messages** (`EachReachedOnce` without `Fits`, with `MaxRcpt = 1` in `Express.cfg`): DEST answers OK to a recipient
beyond MAX_RCPT and does not put it on the list (express.c:217), so the sender is told of a recipient who gets nothing.  A
second XEND after a partial one, or a recipient deleted meanwhile, reads a name through a null pointer
(express.c:285; the client asks XINM or ATXT instead).  A message to a session that leaves in the same pass counts
as sent.  HWHO and CWHO list who leaves in the pass after the others were told (generic.c:71, express.c:490), so who
asks then takes him to be there for ever (`NobodyNamedLate` as an invariant of `Express.cfg`).  The chat is not told of who
is taken over: others keep in it a user who has left it.  `notify_logout` tells of registered users only
(utente_cmd.c:1099), `cmd_chek` of all, so who has not registered comes and never goes.  The test for output that
fails (cittaserver.c:844) is never true, since a `size_t` is not below 0, and where the idle logout tests it the session is
freed and read again (cittaserver.c:862).  HWHO after CUSR reads a name through a null pointer
(generic.c:110), and the chat timeout that of a user whom CUSR has taken from the session in the same pass (express.c:508):
both are left out, and so are users who register while they are connected.  CASC 0 announces an entry to all who are not in the chat.

**Polls** (`KeptByRestart` as an invariant of `Referendum.cfg`): a choice of as many characters as `parm.c:337` and
`urna-crea.c:634` accept is saved with its end, and `load_voci` then finds it too long (urna-rw.c:780); voters and viewers
are not limited, but `load_dati` refuses more than MAX_UTENTI of them (urna-rw.c:956, 982).  Such a poll is lost at the
next start, with its votes.  CONCLUSA and PRECHIUSA are not saved: a poll stopped by SSTP goes on after a restart.
Slots for voters are made only when somebody sees the poll for the first time (`rs_ha_visto`): with more votes than
slots they are written past the array (CROWD).  A poll postponed while it closes stays open but
accepts nobody.  `posticipo` is compared with >, so a poll is postponed three times and not two.
`cmd_sstp` goes on after "not authorised".  MAX_REFERENDUM is looked at by SRNB only: two who open polls at once
exceed it.  A user lost while voting stays on the list and makes the poll last Grace longer.

## 6. Not modelled, and the plan

A configuration that shows many facets of a component at once is preferred to many
small ones, so each new component comes with one run; departures are described in 5.

What comes next: pure algorithms of share/ (text, prefix tree, extract) as functions against reference definitions.

What is mapped is about a tenth of the lines of the repository, and nearly a quarter of those of the server that are
compiled into it: two fifths of the repository are the client, whose screens and editor keep nothing the
server relies on, and much of the rest are tables, help texts, conversion and modules that are not
compiled (POP3, IMAP4, floors).

Left out for good: the client and the web, POP3 and IMAP4 ports (protocol text and I/O),
the conversion tools (run once, offline), and services such as banners and statistics (formatting of text).
