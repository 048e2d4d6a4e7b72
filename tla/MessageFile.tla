---------------------------- MODULE MessageFile ----------------------------
(***************************************************************************)
(* The circular message file of Cittadella/UX (server/src/                 *)
(* file_messaggi.c).  A file of `size' bytes holds the posts back to back; *)
(* a new post is written at `posizione', wraps at the end of the file and  *)
(* destroys the oldest posts it runs over.  Nothing but the first byte of  *)
(* a post (255 normal, 254 deleted) tells where a post begins, so fm_put   *)
(* keeps `lowest', `nmsg' and `ndel' up to date by looking at every byte   *)
(* before it overwrites it.                                                *)
(*                                                                         *)
(* A byte is modelled by what the code can tell of it: its mark, and the   *)
(* post it belongs to with the number of bytes from it to the end of that  *)
(* post.  Lengths are counted in bytes, header and checksum included.      *)
(***************************************************************************)
EXTENDS Integers, FiniteSets

CONSTANTS
  Sizes,             \* sizes a message file can be created with
  Lengths,           \* lengths of a post, in bytes of the file
  Texts,             \* what a post says
  NoText,            \* the content of a byte that belongs to no post
  HeaderMayOverflow, \* TRUE: some headers do not fit LBUF (see PutTooLong)
  MaxNum             \* bound of the model: the highest post number issued

ASSUME SizesAssumption   == Sizes \subseteq Nat \ {0}
ASSUME LengthsAssumption == /\ Lengths \subseteq Nat \ {0}
                            /\ \A l \in Lengths, s \in Sizes : l <= s
ASSUME TextsAssumption   == NoText \notin Texts
ASSUME FlagsAssumption   == HeaderMayOverflow \in BOOLEAN /\ MaxNum \in Nat

VARIABLES
  size,       \* struct file_msg: bytes of the file
  disk,       \* the bytes of the file itself
  lowest,     \* struct file_msg: lowest post number still in the file
  highest,    \* struct file_msg: highest post number
  posizione,  \* struct file_msg: where the next post goes, 0 .. size
  nmsg,       \* struct file_msg: posts in the file
  ndel,       \* struct file_msg: deleted posts in the file
  entries     \* what the rooms remember of the posts: number, position; the
              \* text is there for the properties only

fmVars  == << lowest, highest, posizione, nmsg, ndel >>
vars    == << size, disk, fmVars, entries >>

Normal  == 255  \* FM_MSG_NORMAL
Deleted == 254  \* FM_MSG_DELETED
Marks   == { Normal, Deleted }

\* Operators introduced as a `slip' are no part of the program: each is a
\* plausible mistake in the definition after it that a property must notice.

Bytes   == 0 .. (size - 1)
Blank   == [mark |-> 0, num |-> 0, rest |-> 0, text |-> NoText]
Entry   == [num : Nat, pos : 0 .. size, text : Texts]

-----------------------------------------------------------------------------
(***************************************************************************)
(* Reading.  fm_getc and fm_putc go back to byte 0 when the stream stands  *)
(* at the end of the file, so position `size' is another name of byte 0.   *)
(***************************************************************************)
Ring(p, k) == IF p + k >= size THEN p + k - size ELSE p + k

At(p) == disk[Ring(p, 0)]

Markers == { i \in Bytes : disk[i].mark \in Marks }

\* The post that begins at byte i is there to its last byte: its checksum
\* holds.
Whole(i) == \A k \in 0 .. (disk[i].rest - 1) :
               LET b == disk[Ring(i, k)]
               IN  /\ b.num  = disk[i].num
                   /\ b.text = disk[i].text
                   /\ b.rest = disk[i].rest - k

\* Slip: nothing is refused as overwritten.
SeekNoLowest(num, pos) ==
  IF At(pos).mark \notin Marks   THEN "NO_SUCH"
  ELSE IF At(pos).mark = Deleted THEN "DELETED"
  ELSE "OK"

\* fm_seek: the outcome of looking for post num at position pos.
Seek(num, pos) ==
  IF num < lowest                   THEN "ERASED"
  ELSE IF num > highest             THEN "NO_SUCH"
  ELSE IF At(pos).mark \notin Marks THEN "NO_SUCH"
  ELSE IF At(pos).mark = Deleted    THEN "DELETED"
  ELSE "OK"

\* Slip: the number in the header is not looked at.
GetNoNumber(num, pos) ==
  IF Seek(num, pos) # "OK"     THEN Seek(num, pos)
  ELSE IF ~Whole(Ring(pos, 0)) THEN "CHKSUM"
  ELSE "OK"

\* fm_get, fm_getheader: then the number in the header must be the one asked
\* for, and the checksum must be right.
Get(num, pos) ==
  IF Seek(num, pos) # "OK"          THEN Seek(num, pos)
  ELSE IF At(pos).num # num         THEN "MSGNUM"
  ELSE IF ~Whole(Ring(pos, 0))      THEN "CHKSUM"
  ELSE "OK"

-----------------------------------------------------------------------------
(***************************************************************************)
(* Writing.                                                                *)
(***************************************************************************)
\* fm_create: an empty file, all zero bytes.
Create(s) ==
  /\ size = s
  /\ disk = [i \in 0 .. (s - 1) |-> Blank]
  /\ lowest = 1
  /\ highest = 0
  /\ posizione = 0
  /\ nmsg = 0
  /\ ndel = 0

\* The bytes a post of length len is written to, and how far each is from the
\* first of them.
Offset(i) == LET first == Ring(posizione, 0)
             IN  IF i >= first THEN i - first ELSE i - first + size
Span(len) == { i \in Bytes : Offset(i) < len }

\* Slip: the scan sees the first byte only.
HitFirstByte(len) == { i \in Markers : Offset(i) = 0 }

\* Slip: the scan looks one byte too far.
HitOneTooFar(len) == Markers \cap Span(len + 1)

\* The beginnings of posts that such a post destroys.
Hit(len)  == Markers \cap Span(len)

\* Slip: a byte is left between two posts.
NextPosGap(len)     == Ring(posizione + 1, len)

\* Where fm_putc leaves the stream: the end of the file is folded back only
\* when one more byte is to be written.
NextPos(len) == IF posizione + len > size THEN posizione + len - size
                                          ELSE posizione + len

\* fm_put: number the post, write it at posizione byte by byte, count the
\* posts it destroys.  The caller records number and position.
Put(len, text) ==
  /\ highest < MaxNum
  /\ highest' = highest + 1
  /\ lowest' = lowest + Cardinality(Hit(len))
  /\ nmsg' = nmsg - Cardinality(Hit(len)) + 1
  /\ ndel' = ndel - Cardinality({i \in Hit(len) : disk[i].mark = Deleted})
  /\ disk' = [i \in Bytes |->
                IF i \in Span(len)
                THEN [mark |-> IF Offset(i) = 0 THEN Normal ELSE 0,
                      num  |-> highest + 1,
                      rest |-> len - Offset(i),
                      text |-> text]
                ELSE disk[i]]
  /\ posizione' = NextPos(len)
  /\ entries' = entries \cup {[num |-> highest + 1, pos |-> posizione,
                               text |-> text]}
  /\ UNCHANGED size

\* fm_put when number and header do not fit LBUF: the number is spent, and
\* nothing is written.
PutTooLong ==
  /\ HeaderMayOverflow
  /\ highest < MaxNum
  /\ highest' = highest + 1
  /\ UNCHANGED << size, disk, lowest, posizione, nmsg, ndel, entries >>

\* fm_delmsg, for a post some room remembers.  fm_seek alone stands between
\* the request and the mark: the number in the header is not compared.
Delmsg(e) ==
  /\ Seek(e.num, e.pos) = "OK"
  /\ disk' = [disk EXCEPT ![Ring(e.pos, 0)].mark = Deleted]
  /\ ndel' = ndel + 1
  /\ UNCHANGED << size, lowest, highest, posizione, nmsg, entries >>

\* msg_scroll, msg_del: a room forgets a post.
Forget(e) ==
  /\ entries' = entries \ {e}
  /\ UNCHANGED << size, disk, fmVars >>

Init == /\ \E s \in Sizes : Create(s)
        /\ entries = {}

Next == \/ \E len \in Lengths, text \in Texts : Put(len, text)
        \/ PutTooLong
        \/ \E e \in entries : Delmsg(e)
        \/ \E e \in entries : Forget(e)

Spec == Init /\ [][Next]_vars

-----------------------------------------------------------------------------
(***************************************************************************)
(* Properties.                                                             *)
(***************************************************************************)
Cell == [mark : {0} \cup Marks, num : Nat, rest : Nat,
         text : Texts \cup {NoText}]

\* Every variable has its type; posizione may stand at the end of the file.
TypeOK ==
  /\ size \in Sizes
  /\ disk \in [Bytes -> Cell]
  /\ lowest \in Nat
  /\ highest \in Nat
  /\ posizione \in 0 .. size
  /\ nmsg \in Int
  /\ ndel \in Int
  /\ entries \subseteq Entry

\* Reading through what a room remembers either yields the very post that was
\* written then, whole, or says why not; it never yields another post and
\* never finds a post half overwritten (fm_get's FMERR_CHKSUM).
ReadsOwn ==
  \A e \in entries :
     /\ Get(e.num, e.pos) # "CHKSUM"
     /\ Get(e.num, e.pos) = "OK" => At(e.pos).text = e.text

\* No post that is still in the file is refused as overwritten: lowest, which
\* fm_put only ever steps by the posts it counts, never overtakes one.
NeverErasedWhileThere ==
  \A i \in Markers : lowest <= disk[i].num /\ disk[i].num <= highest

\* The counters of struct file_msg count what is in the file, however posts
\* were deleted, overwritten and written across the end of the file.
CountersExact ==
  /\ nmsg = Cardinality(Markers)
  /\ ndel = Cardinality({i \in Markers : disk[i].mark = Deleted})

\* fm_lowest "Restituisce il numero del messaggio inferiore nel file
\* messaggi": lowest is the number of the oldest post in the file.  That is so
\* as long as no header is refused.
LowestIsLowest ==
  Markers # {} => \E i \in Markers : disk[i].num = lowest

\* A post changes from normal to deleted only when a room holds its number and
\* position.
MarksOwn ==
  \A i \in Markers :
     (disk[i].mark = Normal /\ disk'[i].mark = Deleted)
       => \E e \in entries : e.num = disk[i].num /\ Ring(e.pos, 0) = i

\* fm_delmsg marks the post its caller names, and no other.
DeletesOwn == [][MarksOwn]_vars

-----------------------------------------------------------------------------
(***************************************************************************)
(* The log the file implements.                                            *)
(***************************************************************************)
\* The posts in the file.
PostsInFile == { [num |-> disk[i].num, len |-> disk[i].rest,
                  dead |-> disk[i].mark = Deleted] : i \in Markers }

Log == INSTANCE BoundedLog WITH Caps <- Sizes, cap <- size,
                                log <- PostsInFile, last <- highest

\* The circular file is a bounded log of posts: a write drops exactly the
\* oldest posts that must make room (file_messaggi.c, fm_put), deleting marks
\* one post and moves none (fm_delmsg), a refused header spends a number only.
ImplementsLog == Log!LogSpec
=============================================================================
