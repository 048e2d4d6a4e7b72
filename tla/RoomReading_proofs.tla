------------------------- MODULE RoomReading_proofs -------------------------
(***************************************************************************)
(* Proofs about the lists of posts, for any rooms, lengths of lists and    *)
(* number of posts, and any mix of commands, savings and crashes; and,     *)
(* from "Reading" on, about a reader and the lists that change meanwhile.  *)
(*                                                                         *)
(* Where the reader stands is a number, not a slot, so everything there    *)
(* rests on what the lists keep: the posts of a room stand in the order of *)
(* their numbers, are not dead and not above highmsg, each under what      *)
(* commands it takes.  The same is said of the lists on disk, since a      *)
(* restart brings them back.                                               *)
(***************************************************************************)
EXTENDS RoomReading, SequenceTheorems, FiniteSetTheorems, WellFoundedInduction, TLAPS


\* A slot holds a post or is free (or was given to a refused post); a list
\* has one of the lengths.
GoodSlot == [num : {-1} \cup (Nat \ {0}), local : Int, home : Rooms \cup {NoRoom}]
Lists    == UNION { [1 .. n -> GoodSlot] : n \in Lengths }
MsgList  == [slots : Lists, highloc : Nat, highmsg : Int, dirty : BOOLEAN]

\* The free slots come first.
Ordered(s) == \A i, j \in DOMAIN s : i < j /\ s[j].num = -1 => s[i].num = -1

-----------------------------------------------------------------------------
(***************************************************************************)
(* One list.                                                               *)
(***************************************************************************)

\* A set of natural numbers has a least element.
LEMMA Least ==
  ASSUME NEW S \in SUBSET Nat, S # {}
  PROVE  \E m \in S : \A n \in S : m <= n
  <1>1. PICK m \in S : \A n \in S : <<n, m>> \notin OpToRel(<, Nat)
    BY NatLessThanWellFounded, WFMin
  <1>2. \A n \in S : ~ (n < m)
    BY <1>1 DEF OpToRel
  <1>3. QED
    BY <1>2

\* A list is a sequence of one of the lengths.
LEMMA ListProps ==
  ASSUME NEW s \in Lists
  PROVE  /\ Len(s) \in Lengths
         /\ Len(s) \in Nat \ {0, 1}
         /\ DOMAIN s = 1 .. Len(s)
         /\ s \in [1 .. Len(s) -> GoodSlot]
         /\ \A i \in DOMAIN s : s[i] \in GoodSlot
  <1>1. PICK n \in Lengths : s \in [1 .. n -> GoodSlot]
    BY DEF Lists
  <1>2. n \in Nat \ {0, 1}
    BY LengthsAssumption
  <1>3. s \in Seq(GoodSlot)
    BY <1>1, <1>2, SeqDef
  <1>4. Len(s) \in Nat /\ DOMAIN s = 1 .. Len(s)
    BY <1>3, LenProperties
  <1>5. Len(s) = n
    BY <1>1, <1>2, <1>4
  <1>6. QED
    BY <1>1, <1>2, <1>5

\* A function on the same slots is a list of the same length.
LEMMA SameSlots ==
  ASSUME NEW s \in Lists, NEW t, t \in [DOMAIN s -> GoodSlot]
  PROVE  t \in Lists /\ DOMAIN t = DOMAIN s /\ Len(t) = Len(s)
  <1>1. t \in Lists
    BY ListProps DEF Lists
  <1>2. QED
    BY <1>1, ListProps

\* The loops that look for a post find it.
LEMMA SlotOfIn ==
  ASSUME NEW s \in Lists, NEW num, \E i \in DOMAIN s : s[i].num = num
  PROVE  /\ SlotOf(s, num) \in DOMAIN s
         /\ s[SlotOf(s, num)].num = num
  <1> DEFINE S == { i \in DOMAIN s : s[i].num = num }
  <1>1. DOMAIN s \subseteq Nat /\ DOMAIN s = 1 .. Len(s) /\ Len(s) \in Nat
    BY ListProps
  <1>2. PICK k \in S : \A j \in S : k <= j
    BY <1>1, Least
  <1>3. k \in DOMAIN s /\ s[k].num = num /\ \A j \in 1 .. (k - 1) : s[j].num # num
    BY <1>1, <1>2
  <1>4. QED
    BY <1>3 DEF SlotOf

\* The loops that make room for a post end in the list.
LEMMA PlaceIn ==
  ASSUME NEW s \in Lists, NEW num \in Int
  PROVE  \E p \in 2 .. Len(s) : /\ p = Place(s, num)
                                /\ p = Len(s) \/ s[p + 1].num >= num
  <1>1. PICK n \in Nat \ {0, 1} : n = Len(s)
    BY ListProps
  <1>2. \A i \in 1 .. n : s[i].num \in Int
    BY <1>1, ListProps DEF GoodSlot
  <1> DEFINE Stop(p) == p = n \/ s[p + 1].num >= num
             S == { p \in 2 .. n : Stop(p) }
  <1>3. n \in S /\ S \subseteq Nat
    <2>1. n \in 2 .. n /\ Stop(n)
      BY <1>1
    <2>2. 2 .. n \subseteq Nat
      BY <1>1
    <2> HIDE DEF Stop
    <2>3. QED
      BY <2>1, <2>2
  <1>4. PICK p \in S : \A q \in S : p <= q
    <2> HIDE DEF S
    <2>1. QED
      BY <1>3, Least
  <1>5. p \in 2 .. n /\ Stop(p)
    BY <1>4
  <1>6. ASSUME NEW q \in 2 .. (p - 1)
        PROVE  s[q + 1].num < num
    <2>1. q \in 2 .. n /\ q < p
      BY <1>1, <1>5
    <2>2. q \notin S
      BY <1>3, <1>4, <2>1
    <2>3. ~Stop(q)
      BY <2>1, <2>2
    <2>4. s[q + 1].num \in Int
      BY <1>1, <1>2, <1>5, <2>1
    <2>5. QED
      BY <2>3, <2>4
  <1>7. \E x \in 2 .. Len(s) :
           /\ x = Len(s) \/ s[x + 1].num >= num
           /\ \A q \in 2 .. (x - 1) : s[q + 1].num < num
    BY <1>1, <1>5, <1>6
  <1>8. /\ Place(s, num) \in 2 .. Len(s)
        /\ Place(s, num) = Len(s) \/ s[Place(s, num) + 1].num >= num
    BY <1>7 DEF Place
  <1>9. QED
    BY <1>8

\* A free slot is a slot.
LEMMA FreeSlot == Free \in GoodSlot /\ Free.num = -1
  BY DEF Free, GoodSlot

\* msg_create.
LEMMA EmptyList ==
  ASSUME NEW n \in Lengths
  PROVE  Empty(n) \in Lists /\ Ordered(Empty(n)) /\ DOMAIN Empty(n) = 1 .. n
  BY FreeSlot DEF Empty, Lists, Ordered

\* msg_scroll.
LEMMA ScrolledList ==
  ASSUME NEW s \in Lists, NEW slot \in GoodSlot
  PROVE  /\ Scrolled(s, slot) \in Lists
         /\ DOMAIN Scrolled(s, slot) = DOMAIN s
         /\ slot.num # -1 /\ Ordered(s) => Ordered(Scrolled(s, slot))
  <1>1. /\ Len(s) \in Nat \ {0, 1} /\ DOMAIN s = 1 .. Len(s)
        /\ \A i \in DOMAIN s : s[i] \in GoodSlot
    BY ListProps
  <1>2. Scrolled(s, slot) \in [DOMAIN s -> GoodSlot]
    BY <1>1 DEF Scrolled
  <1>3. ASSUME slot.num # -1, Ordered(s)
        PROVE  Ordered(Scrolled(s, slot))
    BY <1>1, <1>3 DEF Scrolled, Ordered
  <1>4. QED
    BY <1>2, <1>3, SameSlots

\* msg_del, msg_move, msg_dump: a slot is closed.
LEMMA WithoutList ==
  ASSUME NEW s \in Lists, NEW k \in DOMAIN s
  PROVE  /\ Without(s, k) \in Lists
         /\ DOMAIN Without(s, k) = DOMAIN s
         /\ Ordered(s) => Ordered(Without(s, k))
  <1>1. /\ Len(s) \in Nat \ {0, 1} /\ DOMAIN s = 1 .. Len(s)
        /\ \A i \in DOMAIN s : s[i] \in GoodSlot
    BY ListProps
  <1>2. Without(s, k) \in [DOMAIN s -> GoodSlot]
    BY <1>1, FreeSlot DEF Without
  <1>3. ASSUME Ordered(s)
        PROVE  Ordered(Without(s, k))
    BY <1>1, <1>3, FreeSlot DEF Without, Ordered
  <1>4. QED
    BY <1>2, <1>3, SameSlots

\* msg_move, msg_copy, msg_dump: a post is pushed in.
LEMMA InsertedList ==
  ASSUME NEW s \in Lists, NEW slot \in GoodSlot
  PROVE  /\ Inserted(s, slot) \in Lists
         /\ DOMAIN Inserted(s, slot) = DOMAIN s
         /\ slot.num # -1 /\ Ordered(s) => Ordered(Inserted(s, slot))
  <1>1. /\ Len(s) \in Nat \ {0, 1} /\ DOMAIN s = 1 .. Len(s)
        /\ \A i \in DOMAIN s : s[i] \in GoodSlot
    BY ListProps
  <1>2. PICK p \in 2 .. Len(s) : /\ p = Place(s, slot.num)
                                 /\ p = Len(s) \/ s[p + 1].num >= slot.num
    <2>1. slot.num \in Int
      BY DEF GoodSlot
    <2>2. QED
      BY <2>1, PlaceIn
  <1>3. Inserted(s, slot) = [i \in DOMAIN s |-> IF i < p THEN s[i + 1]
                                               ELSE IF i = p THEN slot
                                               ELSE s[i]]
    BY <1>2 DEF Inserted
  <1>4. Inserted(s, slot) \in [DOMAIN s -> GoodSlot]
    BY <1>1, <1>3
  <1>5. ASSUME slot.num # -1, Ordered(s),
               NEW i \in DOMAIN s, NEW j \in DOMAIN s,
               i < j, Inserted(s, slot)[j].num = -1
        PROVE  Inserted(s, slot)[i].num = -1
    <2>1. slot.num \in Nat
      BY <1>5 DEF GoodSlot
    <2>2. CASE j < p
      BY <1>1, <1>3, <1>5, <2>2 DEF Ordered
    <2>3. CASE j = p
      BY <1>3, <1>5, <2>3
    <2>4. CASE j > p
      <3>1. PICK n \in Nat : n = Len(s) /\ DOMAIN s = 1 .. n
        BY <1>1
      <3>2. p \in 2 .. n /\ j \in 1 .. n /\ i \in 1 .. n
        BY <1>5, <3>1
      <3>3. p # n /\ p + 1 \in 1 .. n /\ (p + 1 = j \/ p + 1 < j)
        BY <2>4, <3>2
      <3>4. s[j].num = -1
        BY <1>3, <1>5, <2>4, <3>2
      <3>5. s[p + 1].num = -1
        BY <1>5, <3>1, <3>2, <3>3, <3>4 DEF Ordered
      <3>6. QED
        BY <1>2, <2>1, <3>1, <3>3, <3>5
    <2>5. QED
      BY <1>1, <2>2, <2>3, <2>4
  <1>6. slot.num # -1 /\ Ordered(s) => Ordered(Inserted(s, slot))
    BY <1>4, <1>5 DEF Ordered
  <1>7. QED
    BY <1>4, <1>6, SameSlots

\* msg_resize.
LEMMA ResizedList ==
  ASSUME NEW s \in Lists, NEW n \in Lengths
  PROVE  /\ Resized(s, n, Free) \in Lists
         /\ DOMAIN Resized(s, n, Free) = 1 .. n
         /\ Ordered(s) => Ordered(Resized(s, n, Free))
  <1>1. /\ Len(s) \in Nat \ {0, 1} /\ DOMAIN s = 1 .. Len(s)
        /\ \A i \in DOMAIN s : s[i] \in GoodSlot
        /\ n \in Nat
    BY ListProps, LengthsAssumption
  <1>2. Resized(s, n, Free)
          = [i \in 1 .. n |-> IF i + Len(s) - n >= 1 THEN s[i + Len(s) - n]
                                                     ELSE Free]
    BY DEF Resized
  <1>3. ASSUME NEW i \in 1 .. n, i + Len(s) - n >= 1
        PROVE  i + Len(s) - n \in DOMAIN s
    BY <1>1, <1>3
  <1>4. Resized(s, n, Free) \in [1 .. n -> GoodSlot]
    BY <1>1, <1>2, <1>3, FreeSlot
  <1>5. ASSUME Ordered(s)
        PROVE  Ordered(Resized(s, n, Free))
    BY <1>1, <1>2, <1>3, <1>5, FreeSlot DEF Ordered
  <1>6. QED
    BY <1>2, <1>4, <1>5 DEF Lists

-----------------------------------------------------------------------------
(***************************************************************************)
(* The lists of all rooms.                                                 *)
(***************************************************************************)

\* What every command keeps of the lists m: their types, the free slots in
\* front, and that what is not marked dirty is on disk.
Good(m) ==
  /\ m \in [Rooms -> MsgList]
  /\ "POST_LONG" \notin commands => \A r \in Rooms : Ordered(m[r].slots)
  /\ \A r \in Rooms : ~m[r].dirty =>
        /\ DOMAIN m[r].slots = DOMAIN disk.slots[r]
        /\ "DUMP" \notin commands => m[r].slots = disk.slots[r]

\* The slots of the Cestino stay as many as they are.
SameDump(m, mm) == DOMAIN mm[Dump].slots = DOMAIN m[Dump].slots

\* A list may be replaced by a good one.
LEMMA ReplaceGood ==
  ASSUME NEW m, Good(m), NEW r \in Rooms, NEW x \in MsgList,
         "POST_LONG" \notin commands => Ordered(x.slots),
         \/ x.dirty
         \/ /\ "DUMP" \in commands /\ x.dirty = m[r].dirty
            /\ DOMAIN x.slots = DOMAIN m[r].slots
  PROVE  /\ Good([m EXCEPT ![r] = x])
         /\ DOMAIN x.slots = DOMAIN m[r].slots => SameDump(m, [m EXCEPT ![r] = x])
  <1>1. m \in [Rooms -> MsgList] /\ Dump \in Rooms
    BY RoomsAssumption DEF Good
  <1>2. PICK mm : mm = [m EXCEPT ![r] = x]
    OBVIOUS
  <1>3. /\ mm \in [Rooms -> MsgList]
        /\ \A q \in Rooms : mm[q] = IF q = r THEN x ELSE m[q]
    BY <1>1, <1>2
  <1>4. Good(mm)
    BY <1>3 DEF Good
  <1>5. DOMAIN x.slots = DOMAIN m[r].slots => SameDump(m, mm)
    BY <1>1, <1>3 DEF SameDump
  <1>6. QED
    BY <1>2, <1>4, <1>5

\* The fields of a list.
LEMMA GoodFields ==
  ASSUME NEW m, Good(m), NEW r \in Rooms
  PROVE  /\ m[r] \in MsgList
         /\ m[r].slots \in Lists
         /\ m[r].highloc \in Nat /\ m[r].highmsg \in Int
         /\ m[r].dirty \in BOOLEAN
         /\ m[r] = [slots |-> m[r].slots, highloc |-> m[r].highloc,
                    highmsg |-> m[r].highmsg, dirty |-> m[r].dirty]
         /\ "POST_LONG" \notin commands => Ordered(m[r].slots)
  BY DEF Good, MsgList

\* save_post, citta_post.
LEMMA PostToGood ==
  ASSUME NEW m, Good(m), NEW r \in Rooms, NEW num \in {-1} \cup (Nat \ {0}),
         num = -1 => "POST_LONG" \in commands
  PROVE  Good(PostTo(m, r, num)) /\ SameDump(m, PostTo(m, r, num))
  <1> DEFINE slot == [num |-> num, local |-> m[r].highloc, home |-> NoRoom]
             x    == [slots   |-> Scrolled(m[r].slots, slot),
                      highloc |-> m[r].highloc + 1,
                      highmsg |-> num, dirty |-> TRUE]
  <1>0. /\ m[r].slots \in Lists
        /\ m[r].highloc \in Nat
        /\ "POST_LONG" \notin commands => Ordered(m[r].slots)
    BY GoodFields
  <1>1. slot \in GoodSlot /\ slot.num = num
    BY <1>0 DEF GoodSlot
  <1>2. /\ Scrolled(m[r].slots, slot) \in Lists
        /\ DOMAIN Scrolled(m[r].slots, slot) = DOMAIN m[r].slots
        /\ "POST_LONG" \notin commands => Ordered(Scrolled(m[r].slots, slot))
    <2> HIDE DEF slot
    <2>1. QED
      BY <1>0, <1>1, ScrolledList
  <1>3. x \in MsgList /\ x.dirty
    <2> HIDE DEF slot
    <2>1. QED
      BY <1>0, <1>2 DEF MsgList
  <1>4. PostTo(m, r, num) = [m EXCEPT ![r] = x]
    BY DEF PostTo, Good
  <1>5. x.slots = Scrolled(m[r].slots, slot)
    OBVIOUS
  <1>6. QED
    <2> HIDE DEF x
    <2>1. /\ "POST_LONG" \notin commands => Ordered(x.slots)
          /\ DOMAIN x.slots = DOMAIN m[r].slots
      BY <1>2, <1>5
    <2>2. Good([m EXCEPT ![r] = x]) /\ SameDump(m, [m EXCEPT ![r] = x])
      BY <1>3, <2>1, ReplaceGood
    <2>3. QED
      BY <1>4, <2>2

\* msg_del.
LEMMA TakeOutGood ==
  ASSUME NEW m, Good(m), NEW r \in Rooms, NEW num,
         \E i \in DOMAIN m[r].slots : m[r].slots[i].num = num
  PROVE  Good(TakeOut(m, r, num)) /\ SameDump(m, TakeOut(m, r, num))
  <1> DEFINE k == SlotOf(m[r].slots, num)
             x == [m[r] EXCEPT !.slots = Without(m[r].slots, k), !.dirty = TRUE]
  <1>0. /\ m[r] \in MsgList /\ m[r].slots \in Lists
        /\ m[r].highloc \in Nat /\ m[r].highmsg \in Int
        /\ "POST_LONG" \notin commands => Ordered(m[r].slots)
    BY GoodFields
  <1>1. k \in DOMAIN m[r].slots
    BY <1>0, SlotOfIn
  <1>2. /\ Without(m[r].slots, k) \in Lists
        /\ DOMAIN Without(m[r].slots, k) = DOMAIN m[r].slots
        /\ "POST_LONG" \notin commands => Ordered(Without(m[r].slots, k))
    <2> HIDE DEF k
    <2>1. QED
      BY <1>0, <1>1, WithoutList
  <1>3. x \in MsgList /\ x.dirty
    BY <1>0, <1>2 DEF MsgList
  <1>4. TakeOut(m, r, num) = [m EXCEPT ![r] = x]
    BY DEF TakeOut, Good
  <1>5. x.slots = Without(m[r].slots, k)
    BY <1>0 DEF MsgList
  <1>6. QED
    <2> HIDE DEF x
    <2>1. /\ "POST_LONG" \notin commands => Ordered(x.slots)
          /\ DOMAIN x.slots = DOMAIN m[r].slots
      BY <1>2, <1>5
    <2>2. Good([m EXCEPT ![r] = x]) /\ SameDump(m, [m EXCEPT ![r] = x])
      BY <1>3, <2>1, ReplaceGood
    <2>3. QED
      BY <1>4, <2>2

\* msg_copy.
LEMMA PutInGood ==
  ASSUME NEW m, Good(m), NEW r \in Rooms, NEW slot \in GoodSlot, slot.num # -1
  PROVE  Good(PutIn(m, r, slot)) /\ SameDump(m, PutIn(m, r, slot))
  <1> DEFINE x == [m[r] EXCEPT !.slots = Inserted(m[r].slots, slot), !.dirty = TRUE]
  <1>0. /\ m[r] \in MsgList /\ m[r].slots \in Lists
        /\ m[r].highloc \in Nat /\ m[r].highmsg \in Int
        /\ "POST_LONG" \notin commands => Ordered(m[r].slots)
    BY GoodFields
  <1>2. /\ Inserted(m[r].slots, slot) \in Lists
        /\ DOMAIN Inserted(m[r].slots, slot) = DOMAIN m[r].slots
        /\ "POST_LONG" \notin commands => Ordered(Inserted(m[r].slots, slot))
    BY <1>0, InsertedList
  <1>3. x \in MsgList /\ x.dirty
    BY <1>0, <1>2 DEF MsgList
  <1>4. PutIn(m, r, slot) = [m EXCEPT ![r] = x]
    BY DEF PutIn, Good
  <1>5. x.slots = Inserted(m[r].slots, slot)
    BY <1>0 DEF MsgList
  <1>6. QED
    <2> HIDE DEF x
    <2>1. /\ "POST_LONG" \notin commands => Ordered(x.slots)
          /\ DOMAIN x.slots = DOMAIN m[r].slots
      BY <1>2, <1>5
    <2>2. Good([m EXCEPT ![r] = x]) /\ SameDump(m, [m EXCEPT ![r] = x])
      BY <1>3, <2>1, ReplaceGood
    <2>3. QED
      BY <1>4, <2>2

\* The notice to the aides.
LEMMA ToldGood ==
  ASSUME NEW m, Good(m), rooms \subseteq Rooms, highest \in Nat
  PROVE  Good(Told(m)) /\ SameDump(m, Told(m))
  <1>1. CASE Aide \in rooms
    <2>1. Aide \in Rooms /\ highest + 1 \in Nat \ {0} /\ highest + 1 # -1
      BY <1>1
    <2>2. QED
      BY <1>1, <2>1, PostToGood DEF Told
  <1>2. CASE Aide \notin rooms
    BY <1>2 DEF Told, SameDump
  <1>3. QED
    BY <1>1, <1>2

\* The slot that SlotOf finds.
LEMMA FoundSlot ==
  ASSUME NEW m, Good(m), NEW r \in Rooms, NEW num,
         \E i \in DOMAIN m[r].slots : m[r].slots[i].num = num,
         NEW home \in Rooms \cup {NoRoom}
  PROVE  \E slot \in GoodSlot :
            /\ slot = [m[r].slots[SlotOf(m[r].slots, num)] EXCEPT !.home = home]
            /\ slot.num = num
  <1>1. PICK k \in DOMAIN m[r].slots : /\ k = SlotOf(m[r].slots, num)
                                       /\ m[r].slots[k].num = num
    <2>1. m[r].slots \in Lists
      BY GoodFields
    <2>2. QED
      BY <2>1, SlotOfIn
  <1>2. m[r].slots[k] \in GoodSlot
    BY GoodFields, ListProps
  <1>3. PICK slot : slot = [m[r].slots[k] EXCEPT !.home = home]
    OBVIOUS
  <1>4. slot \in GoodSlot /\ slot.num = num
    BY <1>1, <1>2, <1>3 DEF GoodSlot
  <1>5. QED
    BY <1>1, <1>3, <1>4

-----------------------------------------------------------------------------
(***************************************************************************)
(* The inductive invariant.                                                *)
(***************************************************************************)

\* What was saved is as good as what is in memory.
GoodDisk ==
  /\ disk.rooms \subseteq Rooms /\ Dump \in disk.rooms
  /\ disk.slots \in [Rooms -> Lists]
  /\ disk.highloc \in [Rooms -> Nat]
  /\ disk.highmsg \in [Rooms -> Int]
  /\ disk.dump \in Homes(disk.slots[Dump])
  /\ disk.highest \in Nat
  /\ "POST_LONG" \notin commands => \A r \in Rooms : Ordered(disk.slots[r])

IInv ==
  /\ commands \in CommandSets
  /\ rooms \subseteq Rooms /\ Dump \in rooms
  /\ Good(msg)
  /\ dump \in Homes(Slots(Dump))
  /\ highest \in Nat
  /\ dead \subseteq Nat
  /\ GoodDisk

\* The steps that leave the disk alone and the Cestino as long as it is.
LEMMA GoodStep ==
  ASSUME IInv, NEW m, Good(m), SameDump(msg, m), msg' = m,
         commands' = commands, disk' = disk, rooms' \subseteq rooms, Dump \in rooms',
         dump' \in Homes(Slots(Dump)), dead' \subseteq Nat,
         NEW h \in Nat, highest' = h
  PROVE  IInv'
  <1>1. Good(msg)'
    BY DEF Good
  <1>2. GoodDisk'
    BY DEF IInv, GoodDisk, Homes
  <1>3. dump' \in Homes(Slots(Dump))'
    BY DEF Homes, Slots, SameDump
  <1>4. QED
    BY <1>1, <1>2, <1>3 DEF IInv

\* fm_put gives numbers.
LEMMA WrittenNumbers ==
  ASSUME IInv, NEW n \in Nat, Written(n)
  PROVE  /\ dead' \subseteq Nat
         /\ \E h \in Nat : highest' = h
  BY DEF IInv, Written

\* There is a notice or there is none.
LEMMA NoticesNat == Notices \in Nat
  BY DEF Notices

\* A post of a room has a number of its own and a slot.
LEMMA NumsFound ==
  ASSUME IInv, NEW r \in Rooms, NEW num \in Nums(r)
  PROVE  /\ num \in Nat \ {0} /\ num # -1
         /\ \E i \in DOMAIN msg[r].slots : msg[r].slots[i].num = num
         /\ SlotOf(msg[r].slots, num) \in DOMAIN msg[r].slots
  <1>1. PICK i \in DOMAIN msg[r].slots : msg[r].slots[i].num = num /\ num # -1
    BY DEF Nums, Slots
  <1>2. msg[r].slots \in Lists
    BY GoodFields DEF IInv
  <1>3. msg[r].slots[i] \in GoodSlot
    BY <1>2, ListProps
  <1>4. num \in Nat \ {0}
    BY <1>1, <1>3 DEF GoodSlot
  <1>5. QED
    BY <1>1, <1>2, <1>4, SlotOfIn

\* dump_undelete is an array from 1 to the length of the Cestino.
LEMMA DumpProps ==
  ASSUME IInv
  PROVE  \E n \in Nat \ {0, 1} :
            /\ n = Len(Slots(Dump)) /\ n = Len(dump)
            /\ DOMAIN Slots(Dump) = 1 .. n
            /\ DOMAIN dump = 1 .. n
            /\ dump \in [1 .. n -> Rooms \cup {NoRoom}]
  <1>1. Slots(Dump) \in Lists
    BY GoodFields, RoomsAssumption DEF IInv, Slots
  <1>2. PICK n \in Nat \ {0, 1} : n = Len(Slots(Dump)) /\ DOMAIN Slots(Dump) = 1 .. n
    BY <1>1, ListProps
  <1>3. dump \in [1 .. n -> Rooms \cup {NoRoom}]
    BY <1>2 DEF IInv, Homes
  <1>4. dump \in Seq(Rooms \cup {NoRoom})
    BY <1>3, SeqDef
  <1>5. PICK l \in Nat : l = Len(dump) /\ DOMAIN dump = 1 .. l
    BY <1>4, LenProperties
  <1>6. l = n
    BY <1>3, <1>5
  <1>7. QED
    BY <1>2, <1>3, <1>5, <1>6

-----------------------------------------------------------------------------
(***************************************************************************)
(* The commands one by one.                                                *)
(***************************************************************************)

\* Posting.
LEMMA PostKeeps ==
  ASSUME IInv, NEW r \in rooms, Post(r) \/ PostRefused(r)
  PROVE  IInv'
  <1>1. r \in Rooms /\ Good(msg) /\ dump \in Homes(Slots(Dump)) /\ highest \in Nat
    BY DEF IInv
  <1>2. CASE Post(r)
    <2>1. highest + 1 \in Nat \ {0} /\ highest + 1 # -1
      BY <1>1
    <2>2. PICK m : /\ m = PostTo(msg, r, highest + 1)
                   /\ Good(m) /\ SameDump(msg, m) /\ msg' = m
      BY <1>1, <1>2, <2>1, PostToGood DEF Post
    <2>3. PICK h \in Nat : highest' = h /\ dead' \subseteq Nat
      BY <1>2, WrittenNumbers DEF Post
    <2>4. QED
      BY <1>1, <1>2, <2>2, <2>3, GoodStep DEF Post, diskVars, IInv
  <1>3. CASE PostRefused(r)
    <2>1. PICK m : /\ m = PostTo(msg, r, -1)
                   /\ Good(m) /\ SameDump(msg, m) /\ msg' = m
      BY <1>1, <1>3, PostToGood DEF PostRefused, Served
    <2>2. PICK h \in Nat : highest' = h
      BY <1>1, <1>3 DEF PostRefused
    <2>3. QED
      BY <1>1, <1>3, <2>1, <2>2, GoodStep DEF PostRefused, Served, diskVars, IInv
  <1>4. QED
    BY <1>2, <1>3

\* cmd_mdel by the author.
LEMMA DeleteKeeps ==
  ASSUME IInv, NEW r \in rooms, NEW num \in Nums(r), Delete(r, num)
  PROVE  IInv'
  <1>1. r \in Rooms /\ Good(msg) /\ dump \in Homes(Slots(Dump)) /\ highest \in Nat
    BY DEF IInv
  <1>2. PICK m : /\ m = TakeOut(msg, r, num)
                 /\ Good(m) /\ SameDump(msg, m) /\ msg' = m
    BY <1>1, NumsFound, TakeOutGood DEF Delete
  <1>3. dead' \subseteq Nat
    BY <1>1, NumsFound DEF Delete, IInv
  <1>4. QED
    BY <1>1, <1>2, <1>3, GoodStep DEF Delete, Served, diskVars, IInv

\* msg_dump.
LEMMA ThrownOutGood ==
  ASSUME IInv, NEW r \in rooms, NEW num \in Nums(r), r # Dump,
         "DUMP" \in commands
  PROVE  Good(ThrownOut(r, num)) /\ SameDump(msg, ThrownOut(r, num))
  <1>1. r \in Rooms /\ Dump \in Rooms /\ Good(msg)
    BY RoomsAssumption DEF IInv
  <1>2. PICK k \in DOMAIN msg[r].slots : k = SlotOf(msg[r].slots, num)
    BY <1>1, NumsFound
  <1>3. PICK slot \in GoodSlot : slot = [msg[r].slots[k] EXCEPT !.home = r]
                                 /\ slot.num = num
    <2>1. \E i \in DOMAIN msg[r].slots : msg[r].slots[i].num = num
      BY <1>1, NumsFound
    <2>2. r \in Rooms \cup {NoRoom}
      BY <1>1
    <2>3. QED
      BY <1>1, <1>2, <2>1, <2>2, FoundSlot
  <1> DEFINE x == [msg[r] EXCEPT !.slots = Without(msg[r].slots, k)]
             y == [msg[Dump] EXCEPT !.slots = Inserted(msg[Dump].slots, slot)]
             m == [msg EXCEPT ![r] = x]
  <1>4. /\ msg[r] \in MsgList /\ msg[r].slots \in Lists
        /\ msg[Dump] \in MsgList /\ msg[Dump].slots \in Lists
        /\ "POST_LONG" \notin commands => Ordered(msg[r].slots)
        /\ "POST_LONG" \notin commands => Ordered(msg[Dump].slots)
    BY <1>1, GoodFields
  <1>5. /\ x \in MsgList /\ x.dirty = msg[r].dirty
        /\ "POST_LONG" \notin commands => Ordered(x.slots)
        /\ DOMAIN x.slots = DOMAIN msg[r].slots
    <2>1. x.slots = Without(msg[r].slots, k)
      BY <1>4 DEF MsgList
    <2>2. Without(msg[r].slots, k) \in Lists
      BY <1>4, WithoutList
    <2>3. x \in MsgList /\ x.dirty = msg[r].dirty
      BY <1>4, <2>2 DEF MsgList
    <2> HIDE DEF x
    <2>4. QED
      BY <1>4, <2>1, <2>3, WithoutList
  <1>6. /\ y \in MsgList /\ y.dirty = msg[Dump].dirty
        /\ "POST_LONG" \notin commands => Ordered(y.slots)
        /\ DOMAIN y.slots = DOMAIN msg[Dump].slots
    <2>1. y.slots = Inserted(msg[Dump].slots, slot)
      BY <1>4 DEF MsgList
    <2>2. Inserted(msg[Dump].slots, slot) \in Lists
      BY <1>4, InsertedList
    <2>3. y \in MsgList /\ y.dirty = msg[Dump].dirty
      BY <1>4, <2>2 DEF MsgList
    <2>4. slot.num # -1
      BY <1>1, <1>3, NumsFound
    <2> HIDE DEF y
    <2>5. QED
      BY <1>4, <2>1, <2>3, <2>4, InsertedList
  <1> HIDE DEF x, y
  <1>7. Good(m) /\ SameDump(msg, m)
    BY <1>1, <1>5, ReplaceGood
  <1>8. m[Dump] = msg[Dump]
    BY <1>1 DEF Good
  <1>9. Good([m EXCEPT ![Dump] = y]) /\ SameDump(m, [m EXCEPT ![Dump] = y])
    <2> HIDE DEF m
    <2>1. QED
      BY <1>1, <1>6, <1>7, <1>8, ReplaceGood
  <1>10. ThrownOut(r, num) = [m EXCEPT ![Dump] = y]
    BY <1>1, <1>2, <1>3 DEF ThrownOut, Slots, Good, x, y
  <1>11. QED
    BY <1>7, <1>9, <1>10 DEF SameDump

\* cmd_mdel by somebody else.
LEMMA DumpPostKeeps ==
  ASSUME IInv, NEW r \in rooms, NEW num \in Nums(r), DumpPost(r, num)
  PROVE  IInv'
  <1>1. Good(msg) /\ rooms \subseteq Rooms /\ highest \in Nat
    BY DEF IInv
  <1>2. r # Dump /\ "DUMP" \in commands
    BY DEF DumpPost, Served
  <1>3. Good(ThrownOut(r, num)) /\ SameDump(msg, ThrownOut(r, num))
    BY <1>2, ThrownOutGood
  <1>4. PICK m : /\ m = Told(ThrownOut(r, num))
                 /\ Good(m) /\ SameDump(msg, m) /\ msg' = m
    BY <1>1, <1>3, ToldGood DEF DumpPost, SameDump
  <1>5. dump' \in Homes(Slots(Dump))
    <2>1. PICK n \in Nat \ {0, 1} :
                 /\ n = Len(Slots(Dump))
                 /\ DOMAIN Slots(Dump) = 1 .. n
                 /\ DOMAIN dump = 1 .. n
                 /\ dump \in [1 .. n -> Rooms \cup {NoRoom}]
      BY DumpProps
    <2>2. num \in Int /\ Slots(Dump) \in Lists
      <3>1. r \in Rooms /\ Dump \in Rooms
        BY <1>1, RoomsAssumption
      <3>2. num \in Nat \ {0}
        BY <3>1, NumsFound
      <3>3. Slots(Dump) \in Lists
        BY <1>1, <3>1, GoodFields DEF Slots
      <3>4. QED
        BY <3>2, <3>3
    <2>3. PICK p \in 2 .. n : p = Place(Slots(Dump), num)
      BY <2>1, <2>2, PlaceIn
    <2>4. dump' = [i \in 1 .. n |-> IF i < p THEN dump[i + 1]
                                    ELSE IF i = p THEN r
                                    ELSE dump[i]]
      BY <2>1, <2>3 DEF DumpPost, Dumped
    <2>5. dump' \in [1 .. n -> Rooms \cup {NoRoom}]
      BY <1>1, <2>1, <2>4
    <2>6. QED
      BY <2>1, <2>5 DEF Homes
  <1>6. PICK h \in Nat : highest' = h /\ dead' \subseteq Nat
    BY NoticesNat, WrittenNumbers DEF DumpPost
  <1>7. QED
    BY <1>4, <1>5, <1>6, GoodStep DEF DumpPost, Served, diskVars, IInv

\* cmd_mdel in the Cestino.
LEMMA UndeleteKeeps ==
  ASSUME IInv, NEW num \in Nums(Dump), Undelete(num)
  PROVE  IInv'
  <1>1. Good(msg) /\ rooms \subseteq Rooms /\ highest \in Nat /\ Dump \in Rooms
    BY RoomsAssumption DEF IInv
  <1>2. PICK k \in DOMAIN Slots(Dump) : k = SlotOf(Slots(Dump), num)
    BY <1>1, NumsFound DEF Slots
  <1>3. PICK dest \in rooms : dest = dump[k]
    BY <1>2 DEF Undelete
  <1>4. \E i \in DOMAIN msg[Dump].slots : msg[Dump].slots[i].num = num
    BY <1>1, NumsFound
  <1>5. PICK slot \in GoodSlot : /\ slot = [Slots(Dump)[k] EXCEPT !.home = NoRoom]
                                 /\ slot.num = num /\ slot.num # -1
    BY <1>1, <1>2, <1>4, NumsFound, FoundSlot DEF Slots
  <1>6. Good(TakeOut(msg, Dump, num)) /\ SameDump(msg, TakeOut(msg, Dump, num))
    BY <1>1, <1>4, TakeOutGood
  <1>7. PICK mm : /\ mm = PutIn(TakeOut(msg, Dump, num), dest, slot)
                  /\ Good(mm) /\ SameDump(msg, mm)
    <2>1. PICK t : /\ t = TakeOut(msg, Dump, num)
                   /\ Good(t) /\ SameDump(msg, t)
      BY <1>6
    <2>2. dest \in Rooms
      BY <1>1
    <2>3. Good(PutIn(t, dest, slot)) /\ SameDump(t, PutIn(t, dest, slot))
      BY <1>5, <2>1, <2>2, PutInGood
    <2>4. QED
      BY <2>1, <2>3 DEF SameDump
  <1>8. PICK m : m = Told(mm) /\ Good(m) /\ SameDump(msg, m) /\ msg' = m
    <2>1. Good(Told(mm)) /\ SameDump(mm, Told(mm))
      BY <1>1, <1>7, ToldGood
    <2>2. msg' = Told(mm)
      BY <1>2, <1>3, <1>5, <1>7 DEF Undelete
    <2>3. QED
      BY <1>7, <2>1, <2>2 DEF SameDump
  <1>9. dump' \in Homes(Slots(Dump))
    <2>1. PICK n \in Nat \ {0, 1} :
                 /\ DOMAIN Slots(Dump) = 1 .. n
                 /\ DOMAIN dump = 1 .. n
                 /\ dump \in [1 .. n -> Rooms \cup {NoRoom}]
      BY DumpProps
    <2>2. dump' = [i \in 1 .. n |-> IF 1 < i /\ i <= k THEN dump[i - 1]
                                    ELSE dump[i]]
      BY <1>2, <2>1 DEF Undelete
    <2>3. dump' \in [1 .. n -> Rooms \cup {NoRoom}]
      BY <2>1, <2>2
    <2>4. QED
      BY <2>1, <2>3 DEF Homes
  <1>10. PICK h \in Nat : highest' = h /\ dead' \subseteq Nat
    BY NoticesNat, WrittenNumbers DEF Undelete
  <1>11. QED
    BY <1>8, <1>9, <1>10, GoodStep DEF Undelete, Served, diskVars, IInv

\* cmd_mmov.
LEMMA MoveKeeps ==
  ASSUME IInv, NEW r \in rooms, NEW dest \in rooms, NEW num \in Nums(r),
         Move(r, dest, num)
  PROVE  IInv'
  <1>1. /\ Good(msg) /\ rooms \subseteq Rooms /\ highest \in Nat
        /\ r \in Rooms /\ dest \in Rooms /\ dump \in Homes(Slots(Dump))
    BY DEF IInv
  <1>2. \E i \in DOMAIN msg[r].slots : msg[r].slots[i].num = num
    BY <1>1, NumsFound
  <1>3. PICK slot \in GoodSlot : slot = Copied(r, num) /\ slot.num # -1
    <2>1. num # -1
      BY <1>1, NumsFound
    <2>2. NoRoom \in Rooms \cup {NoRoom}
      OBVIOUS
    <2>3. QED
      BY <1>1, <1>2, <2>1, <2>2, FoundSlot DEF Copied, Slots
  <1>4. Good(TakeOut(msg, r, num)) /\ SameDump(msg, TakeOut(msg, r, num))
    BY <1>1, <1>2, TakeOutGood
  <1>5. PICK mm : /\ mm = PutIn(TakeOut(msg, r, num), dest, slot)
                  /\ Good(mm) /\ SameDump(msg, mm)
    BY <1>1, <1>3, <1>4, PutInGood DEF SameDump
  <1>6. PICK m : Good(m) /\ SameDump(msg, m) /\ msg' = m
    <2>1. Good(Told(mm)) /\ SameDump(mm, Told(mm))
      BY <1>1, <1>5, ToldGood
    <2>2. msg' = mm \/ msg' = Told(mm)
      BY <1>3, <1>5 DEF Move
    <2>3. QED
      BY <1>5, <2>1, <2>2 DEF SameDump
  <1>7. PICK h \in Nat : highest' = h /\ dead' \subseteq Nat
    BY NoticesNat, WrittenNumbers DEF Move
  <1>8. QED
    BY <1>1, <1>6, <1>7, GoodStep DEF Move, Served, diskVars, IInv

\* cmd_mcpy.
LEMMA CopyKeeps ==
  ASSUME IInv, NEW r \in rooms, NEW dest \in rooms, NEW num \in Nums(r),
         Copy(r, dest, num)
  PROVE  IInv'
  <1>1. /\ Good(msg) /\ rooms \subseteq Rooms /\ highest \in Nat
        /\ r \in Rooms /\ dest \in Rooms /\ dump \in Homes(Slots(Dump))
        /\ dead \subseteq Nat
    BY DEF IInv
  <1>2. \E i \in DOMAIN msg[r].slots : msg[r].slots[i].num = num
    BY <1>1, NumsFound
  <1>3. PICK slot \in GoodSlot : slot = Copied(r, num) /\ slot.num # -1
    <2>1. num # -1
      BY <1>1, NumsFound
    <2>2. NoRoom \in Rooms \cup {NoRoom}
      OBVIOUS
    <2>3. QED
      BY <1>1, <1>2, <2>1, <2>2, FoundSlot DEF Copied, Slots
  <1>4. PICK m : Good(m) /\ SameDump(msg, m) /\ msg' = m
    BY <1>1, <1>3, PutInGood DEF Copy
  <1>5. QED
    BY <1>1, <1>4, GoodStep DEF Copy, Served, diskVars, IInv

\* cmd_rlen.
LEMMA ResizeKeeps ==
  ASSUME IInv, NEW r \in rooms, NEW n \in Lengths, Resize(r, n)
  PROVE  IInv'
  <1>1. /\ Good(msg) /\ rooms \subseteq Rooms /\ highest \in Nat
        /\ r \in Rooms /\ Dump \in Rooms /\ dump \in Homes(Slots(Dump))
        /\ dead \subseteq Nat
    BY RoomsAssumption DEF IInv
  <1> DEFINE x == [slots |-> Resized(msg[r].slots, n, Free),
                   highloc |-> 0, highmsg |-> 0, dirty |-> TRUE]
  <1>2. msg[r].slots \in Lists
    BY <1>1, GoodFields
  <1>3. /\ Resized(msg[r].slots, n, Free) \in Lists
        /\ DOMAIN Resized(msg[r].slots, n, Free) = 1 .. n
        /\ "POST_LONG" \notin commands => Ordered(Resized(msg[r].slots, n, Free))
    BY <1>1, <1>2, GoodFields, ResizedList
  <1>4. /\ x \in MsgList /\ x.dirty /\ DOMAIN x.slots = 1 .. n
        /\ "POST_LONG" \notin commands => Ordered(x.slots)
    BY <1>3 DEF MsgList
  <1>5. PICK m : m = [msg EXCEPT ![r] = x] /\ Good(m)
    <2> HIDE DEF x
    <2>1. QED
      BY <1>1, <1>4, ReplaceGood
  <1>6. msg' = m
    BY <1>5 DEF Resize
  <1>7. m[r] = x /\ \A q \in Rooms \ {r} : m[q] = msg[q]
    BY <1>1, <1>5 DEF Good
  <1>8. UNCHANGED << commands, diskVars, rooms, highest, dead >>
    BY DEF Resize, Served
  <1>9. dump' \in Homes(m[Dump].slots)
    <2>1. CASE r # Dump
      BY <1>1, <1>7, <2>1 DEF Resize, Homes, Slots
    <2>2. CASE r = Dump
      <3>1. PICK l \in Nat : /\ l = Len(dump) /\ DOMAIN dump = 1 .. l
                             /\ dump \in [1 .. l -> Rooms \cup {NoRoom}]
        BY DumpProps
      <3>2. dump' = Resized(dump, n, NoRoom)
        BY <2>2 DEF Resize
      <3>3. dump' = [i \in 1 .. n |-> IF i + l - n >= 1 THEN dump[i + l - n]
                                                         ELSE NoRoom]
        BY <3>1, <3>2 DEF Resized
      <3>4. n \in Nat
        BY LengthsAssumption
      <3>5. ASSUME NEW i \in 1 .. n, i + l - n >= 1
            PROVE  dump[i + l - n] \in Rooms \cup {NoRoom}
        <4>1. i + l - n \in 1 .. l
          BY <3>1, <3>4, <3>5
        <4>2. QED
          BY <3>1, <4>1
      <3>6. dump' \in [1 .. n -> Rooms \cup {NoRoom}]
        BY <3>3, <3>5
      <3>7. DOMAIN m[Dump].slots = 1 .. n
        BY <1>4, <1>7, <2>2
      <3>8. QED
        BY <3>6, <3>7 DEF Homes
    <2>3. QED
      BY <2>1, <2>2
  <1> HIDE DEF x
  <1>10. Good(msg)'
    BY <1>5, <1>6, <1>8 DEF Good, diskVars
  <1>11. dump' \in Homes(Slots(Dump))'
    BY <1>6, <1>9 DEF Homes, Slots
  <1>12. GoodDisk'
    BY <1>8 DEF IInv, GoodDisk, Homes, diskVars
  <1>13. QED
    BY <1>1, <1>8, <1>10, <1>11, <1>12 DEF IInv

\* cmd_rdel.
LEMMA RdelKeeps ==
  ASSUME IInv, NEW r \in rooms, Rdel(r)
  PROVE  IInv'
  <1>1. /\ Good(msg) /\ rooms \subseteq Rooms /\ highest \in Nat
        /\ dump \in Homes(Slots(Dump))
    BY DEF IInv
  <1>2. PICK m : Good(m) /\ SameDump(msg, m) /\ msg' = m
    BY <1>1, ToldGood DEF Rdel
  <1>3. PICK h \in Nat : highest' = h /\ dead' \subseteq Nat
    BY NoticesNat, WrittenNumbers DEF Rdel
  <1>4. QED
    BY <1>1, <1>2, <1>3, GoodStep DEF Rdel, Served, diskVars, IInv

\* crash_save_perfavore: what was not marked dirty was on disk.
LEMMA SaveKeeps ==
  ASSUME IInv, Save
  PROVE  IInv'
  <1>1. /\ Good(msg) /\ rooms \subseteq Rooms /\ highest \in Nat
        /\ Dump \in Rooms /\ GoodDisk
    BY RoomsAssumption DEF IInv
  <1>2. /\ commands' = commands /\ rooms' = rooms /\ dump' = dump
        /\ highest' = highest /\ dead' = dead
    BY DEF Save
  <1>3. DOMAIN msg = Rooms /\ DOMAIN msg' = Rooms
    BY <1>1 DEF Good, Save
  <1>4. ASSUME NEW r \in Rooms
        PROVE  /\ msg'[r] \in MsgList
               /\ msg'[r].slots = msg[r].slots
               /\ r \in rooms => ~msg'[r].dirty
               /\ r \notin rooms => msg'[r].dirty = msg[r].dirty
    <2>1. msg[r] \in MsgList
      BY <1>1, GoodFields
    <2>2. msg'[r] = IF r \in rooms THEN [msg[r] EXCEPT !.dirty = FALSE] ELSE msg[r]
      BY DEF Save
    <2>3. QED
      BY <2>1, <2>2 DEF MsgList
  <1>5. PICK d : d = disk'
    OBVIOUS
  <1>6. /\ d.rooms = rooms
        /\ d.slots = [r \in Rooms |-> IF r \in rooms THEN Saved(r)
                                      ELSE disk.slots[r]]
        /\ d.highloc = [r \in Rooms |-> msg[r].highloc]
        /\ d.highmsg = [r \in Rooms |-> msg[r].highmsg]
        /\ d.dump = dump
        /\ d.highest = highest
    BY <1>5 DEF Save
  <1>7. ASSUME NEW r \in Rooms
        PROVE  /\ d.slots[r] \in Lists
               /\ "POST_LONG" \notin commands => Ordered(d.slots[r])
               /\ r \in rooms => DOMAIN d.slots[r] = DOMAIN msg[r].slots
               /\ r \in rooms /\ "DUMP" \notin commands => d.slots[r] = msg[r].slots
               /\ r \notin rooms => d.slots[r] = disk.slots[r]
    <2>1. msg[r].slots \in Lists /\ disk.slots[r] \in Lists
      BY <1>1, GoodFields DEF GoodDisk
    <2>2. /\ "POST_LONG" \notin commands =>
               Ordered(msg[r].slots) /\ Ordered(disk.slots[r])
          /\ ~msg[r].dirty => DOMAIN msg[r].slots = DOMAIN disk.slots[r]
          /\ "DUMP" \notin commands /\ ~msg[r].dirty => msg[r].slots = disk.slots[r]
      BY <1>1 DEF Good, GoodDisk
    <2>3. d.slots[r] = IF r \in rooms
                       THEN IF msg[r].dirty THEN msg[r].slots ELSE disk.slots[r]
                       ELSE disk.slots[r]
      BY <1>6 DEF Saved, Slots
    <2>4. QED
      BY <2>1, <2>2, <2>3
  <1>8. Good(msg)'
    <2>1. msg' \in [Rooms -> MsgList]
      BY <1>4 DEF Save
    <2>2. "POST_LONG" \notin commands => \A r \in Rooms : Ordered(msg'[r].slots)
      BY <1>1, <1>4 DEF Good
    <2>3. \A r \in Rooms : ~msg'[r].dirty =>
             /\ DOMAIN msg'[r].slots = DOMAIN d.slots[r]
             /\ "DUMP" \notin commands => msg'[r].slots = d.slots[r]
      BY <1>1, <1>4, <1>7 DEF Good
    <2>4. QED
      BY <1>2, <1>5, <2>1, <2>2, <2>3 DEF Good
  <1>9. dump' \in Homes(Slots(Dump))'
    BY <1>1, <1>2, <1>4 DEF IInv, Homes, Slots
  <1>10. GoodDisk'
    <2>1. d.rooms \subseteq Rooms /\ Dump \in d.rooms /\ d.highest \in Nat
      BY <1>6 DEF IInv
    <2>2. d.slots \in [Rooms -> Lists]
      BY <1>6, <1>7
    <2>3. \A r \in Rooms : msg[r].highloc \in Nat /\ msg[r].highmsg \in Int
      BY <1>1, GoodFields
    <2>4. d.highloc \in [Rooms -> Nat] /\ d.highmsg \in [Rooms -> Int]
      BY <1>6, <2>3
    <2>5. d.dump \in Homes(d.slots[Dump])
      BY <1>1, <1>6, <1>7 DEF IInv, Homes, Slots
    <2>6. QED
      BY <1>2, <1>5, <1>7, <2>1, <2>2, <2>4, <2>5 DEF GoodDisk, Homes
  <1>11. QED
    BY <1>2, <1>8, <1>9, <1>10 DEF IInv

\* The restart.
LEMMA CrashKeeps ==
  ASSUME IInv, CrashRestart
  PROVE  IInv'
  <1>1. GoodDisk /\ Dump \in Rooms
    BY RoomsAssumption DEF IInv
  <1>2. /\ commands' = commands /\ disk' = disk /\ dead' = dead
        /\ rooms' = disk.rooms /\ dump' = disk.dump
    BY DEF CrashRestart
  <1>3. PICK h \in Nat : highest' = h
    BY <1>1 DEF CrashRestart, GoodDisk
  <1>4. PICK m : /\ m = msg'
                 /\ m = [r \in Rooms |-> [slots |-> disk.slots[r],
                                          highloc |-> disk.highloc[r],
                                          highmsg |-> disk.highmsg[r],
                                          dirty |-> FALSE]]
    BY DEF CrashRestart
  <1>5. m \in [Rooms -> MsgList]
    BY <1>1, <1>4 DEF GoodDisk, MsgList
  <1>6. \A r \in Rooms : m[r].slots = disk.slots[r]
    BY <1>4
  <1>7. Good(m)
    BY <1>1, <1>5, <1>6 DEF Good, GoodDisk
  <1>8. Good(msg)'
    BY <1>2, <1>4, <1>7 DEF Good
  <1>9. dump' \in Homes(Slots(Dump))'
    BY <1>1, <1>2, <1>4, <1>6 DEF GoodDisk, Homes, Slots
  <1>10. GoodDisk'
    BY <1>1, <1>2 DEF GoodDisk, Homes
  <1>11. QED
    BY <1>1, <1>2, <1>3, <1>8, <1>9, <1>10 DEF IInv, GoodDisk

-----------------------------------------------------------------------------
(***************************************************************************)
(* The theorems.                                                           *)
(***************************************************************************)

\* Empty lists are good ones.
LEMMA InitEstablishes == Init => IInv
  <1> SUFFICES ASSUME Init PROVE IInv
    OBVIOUS
  <1>1. PICK size \in [Rooms -> Lengths] :
          /\ msg = [r \in Rooms |-> [slots |-> Empty(size[r]), highloc |-> 0,
                                     highmsg |-> 0, dirty |-> FALSE]]
          /\ dump = [i \in 1 .. size[Dump] |-> NoRoom]
    BY DEF Init
  <1>2. \A r \in Rooms : /\ Empty(size[r]) \in Lists
                         /\ Ordered(Empty(size[r]))
                         /\ DOMAIN Empty(size[r]) = 1 .. size[r]
    BY <1>1, EmptyList
  <1>3. \A r \in Rooms : msg[r].slots = Empty(size[r])
    BY <1>1
  <1>4. msg \in [Rooms -> MsgList]
    BY <1>1, <1>2 DEF MsgList
  <1>5. /\ rooms = Rooms /\ Dump \in Rooms
        /\ commands \in CommandSets /\ highest = 0 /\ dead = {}
        /\ disk.rooms = Rooms /\ disk.dump = dump /\ disk.highest = 0
        /\ disk.slots = [r \in Rooms |-> msg[r].slots]
        /\ disk.highloc = [r \in Rooms |-> 0]
        /\ disk.highmsg = [r \in Rooms |-> 0]
    BY RoomsAssumption DEF Init, Slots
  <1>6. Good(msg)
    BY <1>2, <1>3, <1>4, <1>5 DEF Good
  <1>7. dump \in Homes(Slots(Dump))
    BY <1>1, <1>2, <1>3, <1>5 DEF Homes, Slots
  <1>8. GoodDisk
    BY <1>2, <1>3, <1>5, <1>7 DEF GoodDisk, Slots
  <1>9. QED
    BY <1>5, <1>6, <1>7, <1>8 DEF IInv

\* The commands, the savings and the crashes.
LEMMA NextPreserves == IInv /\ [Next]_vars => IInv'
  <1> SUFFICES ASSUME IInv, [Next]_vars PROVE IInv'
    OBVIOUS
  <1>1. rooms \subseteq Rooms /\ Dump \in rooms
    BY DEF IInv
  <1>2. ASSUME NEW r \in rooms, Post(r) \/ PostRefused(r) \/ Rdel(r)
        PROVE  IInv'
    BY <1>2, PostKeeps, RdelKeeps
  <1>3. ASSUME NEW r \in rooms, NEW num \in Nums(r),
               Delete(r, num) \/ DumpPost(r, num)
        PROVE  IInv'
    BY <1>3, DeleteKeeps, DumpPostKeeps
  <1>4. ASSUME NEW r \in rooms, NEW dest \in rooms, NEW num \in Nums(r),
               Move(r, dest, num) \/ Copy(r, dest, num)
        PROVE  IInv'
    BY <1>4, MoveKeeps, CopyKeeps
  <1>5. ASSUME NEW num \in Nums(Dump), Undelete(num)
        PROVE  IInv'
    BY <1>5, UndeleteKeeps
  <1>6. ASSUME NEW r \in rooms, NEW n \in Lengths, Resize(r, n)
        PROVE  IInv'
    BY <1>6, ResizeKeeps
  <1>7. CASE Save
    BY <1>7, SaveKeeps
  <1>8. CASE CrashRestart
    BY <1>8, CrashKeeps
  <1>9. CASE UNCHANGED vars
    BY <1>9 DEF vars, diskVars, IInv, Good, GoodDisk, Homes, Slots
  <1>10. QED
    BY <1>2, <1>3, <1>4, <1>5, <1>6, <1>7, <1>8, <1>9 DEF Next

\* In every reachable state the lists are good ones, in memory and on disk.
THEOREM ListsInvariant == Spec => []IInv
  BY InitEstablishes, NextPreserves, PTL DEF Spec

\* The lists and dump_undelete keep their types and their lengths, through
\* every command, saving and restart (rooms.c, cestino.c).
THEOREM TypeCorrect == Spec => []TypeOK
  <1>1. IInv => TypeOK
    <2> SUFFICES ASSUME IInv PROVE TypeOK
      OBVIOUS
    <2>1. ASSUME NEW s \in Lists PROVE IsList(s)
      <3>1. PICK n \in Lengths : s \in [1 .. n -> GoodSlot]
        BY DEF Lists
      <3>2. GoodSlot \subseteq Slot
        BY DEF GoodSlot, Slot
      <3>3. QED
        BY <3>1, <3>2 DEF IsList
    <2>2. \A r \in Rooms : /\ IsList(Slots(r))
                           /\ msg[r].highloc \in Nat
                           /\ msg[r].highmsg \in Int
                           /\ msg[r].dirty \in BOOLEAN
      BY <2>1, GoodFields DEF IInv, Slots
    <2>3. \A r \in Rooms : IsList(disk.slots[r])
      BY <2>1 DEF IInv, GoodDisk
    <2>4. QED
      BY <2>2, <2>3 DEF IInv, Good, GoodDisk, TypeOK
  <1>2. QED
    BY <1>1, ListsInvariant, PTL

\* As long as no post was refused, the free slots are the first ones, as
\* msg_move, msg_copy and msg_dump assume.
THEOREM FreeSlotsFirst == Spec => []FreeFirst
  <1>1. IInv => FreeFirst
    BY DEF IInv, Good, Ordered, FreeFirst, Slots
  <1>2. QED
    BY <1>1, ListsInvariant, PTL

\* As long as nobody throws out posts, what msg_save_data skips is on disk.
THEOREM CleanSaved == Spec => []CleanIsSavedButDumped
  <1>1. IInv => CleanIsSavedButDumped
    BY DEF IInv, Good, CleanIsSavedButDumped, CleanIsSaved, Slots
  <1>2. QED
    BY <1>1, ListsInvariant, PTL

-----------------------------------------------------------------------------
(***************************************************************************)
(* Which posts a list holds.                                               *)
(***************************************************************************)
\* The posts of a list.
Held(s) == { s[i].num : i \in DOMAIN s } \ {-1}

\* The posts stand in the order of their numbers, with holes or not.
Sorted(s) ==
  \A i, j \in DOMAIN s :
     i < j /\ s[i].num # -1 /\ s[j].num # -1 => s[i].num < s[j].num

\* Posts have numbers.
LEMMA HeldNat ==
  ASSUME NEW s \in Lists
  PROVE  Held(s) \subseteq Nat \ {0}
  BY ListProps DEF Held, GoodSlot

\* msg_scroll, with a new post or a refused one.
LEMMA ScrolledHeld ==
  ASSUME NEW s \in Lists, NEW slot \in GoodSlot
  PROVE  /\ Held(Scrolled(s, slot)) \subseteq Held(s) \cup ({slot.num} \ {-1})
         /\ Sorted(s) /\ (slot.num = -1 \/ \A n \in Held(s) : n < slot.num)
              => Sorted(Scrolled(s, slot))
  <1>1. /\ Len(s) \in Nat \ {0, 1} /\ DOMAIN s = 1 .. Len(s)
        /\ \A i \in DOMAIN s : s[i] \in GoodSlot
    BY ListProps
  <1>2. Held(Scrolled(s, slot)) \subseteq Held(s) \cup ({slot.num} \ {-1})
    BY <1>1 DEF Scrolled, Held
  <1>3. ASSUME Sorted(s), slot.num = -1 \/ \A n \in Held(s) : n < slot.num,
               NEW i \in DOMAIN s, NEW j \in DOMAIN s, i < j,
               Scrolled(s, slot)[i].num # -1, Scrolled(s, slot)[j].num # -1
        PROVE  Scrolled(s, slot)[i].num < Scrolled(s, slot)[j].num
    <2>1. i # Len(s) /\ i + 1 \in DOMAIN s /\ Scrolled(s, slot)[i] = s[i + 1]
      BY <1>1, <1>3 DEF Scrolled
    <2>2. CASE j = Len(s)
      <3>1. s[i + 1].num \in Held(s) /\ Scrolled(s, slot)[j] = slot
        BY <1>3, <2>1, <2>2 DEF Held, Scrolled
      <3>2. QED
        BY <1>3, <2>1, <3>1
    <2>3. CASE j # Len(s)
      <3>1. j + 1 \in DOMAIN s /\ Scrolled(s, slot)[j] = s[j + 1] /\ i + 1 < j + 1
        BY <1>1, <1>3, <2>3 DEF Scrolled
      <3>2. QED
        BY <1>3, <2>1, <3>1 DEF Sorted
    <2>4. QED
      BY <2>2, <2>3
  <1>4. DOMAIN Scrolled(s, slot) = DOMAIN s
    BY DEF Scrolled
  <1>5. QED
    BY <1>2, <1>3, <1>4 DEF Sorted

\* A slot is closed.
LEMMA WithoutHeld ==
  ASSUME NEW s \in Lists, NEW k \in DOMAIN s
  PROVE  /\ Held(Without(s, k)) \subseteq Held(s)
         /\ Sorted(s) => Sorted(Without(s, k))
         /\ Sorted(s) /\ s[k].num # -1 => s[k].num \notin Held(Without(s, k))
  <1>1. /\ Len(s) \in Nat \ {0, 1} /\ DOMAIN s = 1 .. Len(s)
        /\ \A i \in DOMAIN s : s[i] \in GoodSlot
    BY ListProps
  <1>2. PICK t : t = Without(s, k)
    OBVIOUS
  <1>3. /\ DOMAIN t = DOMAIN s
        /\ \A i \in DOMAIN s :
             \/ i = 1 /\ t[i].num = -1
             \/ i # 1 /\ i <= k /\ i - 1 \in DOMAIN s /\ t[i] = s[i - 1]
             \/ i > k /\ t[i] = s[i]
    BY <1>1, <1>2, FreeSlot DEF Without
  <1>4. Held(t) \subseteq Held(s)
    BY <1>3 DEF Held
  <1>5. Sorted(s) => Sorted(t)
    BY <1>1, <1>3 DEF Sorted
  <1>6. ASSUME Sorted(s), s[k].num # -1, NEW i \in DOMAIN s, t[i].num = s[k].num
        PROVE  FALSE
    <2>1. PICK j \in DOMAIN s : j # k /\ t[i] = s[j]
      BY <1>1, <1>3, <1>6
    <2>2. s[j].num \in Int /\ s[k].num \in Int /\ (j < k \/ k < j)
      BY <1>1, <2>1 DEF GoodSlot
    <2>3. QED
      BY <1>6, <2>1, <2>2 DEF Sorted
  <1>7. QED
    BY <1>2, <1>3, <1>4, <1>5, <1>6 DEF Held

\* A post is pushed in.
LEMMA InsertedHeld ==
  ASSUME NEW s \in Lists, NEW slot \in GoodSlot
  PROVE  Held(Inserted(s, slot)) \subseteq Held(s) \cup {slot.num}
  <1>1. /\ Len(s) \in Nat \ {0, 1} /\ DOMAIN s = 1 .. Len(s)
        /\ slot.num \in Int
    BY ListProps DEF GoodSlot
  <1>2. PICK p \in 2 .. Len(s) : p = Place(s, slot.num)
    BY <1>1, PlaceIn
  <1>3. Inserted(s, slot) = [i \in DOMAIN s |-> IF i < p THEN s[i + 1]
                                               ELSE IF i = p THEN slot
                                               ELSE s[i]]
    BY <1>2 DEF Inserted
  <1>4. ASSUME NEW i \in DOMAIN s, i < p
        PROVE  i + 1 \in DOMAIN s
    <2>1. PICK n \in Nat : n = Len(s) /\ DOMAIN s = 1 .. n
      BY <1>1
    <2>2. p \in 2 .. n /\ i \in 1 .. n
      BY <2>1
    <2>3. QED
      BY <1>4, <2>1, <2>2
  <1>5. QED
    BY <1>3, <1>4 DEF Held

\* msg_resize.
LEMMA ResizedHeld ==
  ASSUME NEW s \in Lists, NEW n \in Lengths
  PROVE  /\ Held(Resized(s, n, Free)) \subseteq Held(s)
         /\ Sorted(s) => Sorted(Resized(s, n, Free))
  <1>1. Len(s) \in Nat \ {0, 1} /\ DOMAIN s = 1 .. Len(s) /\ n \in Nat
    BY ListProps, LengthsAssumption
  <1>2. PICK t : t = Resized(s, n, Free)
    OBVIOUS
  <1>3. PICK d \in Int : d = Len(s) - n
    <2>1. Len(s) - n \in Int
      BY <1>1
    <2>2. QED
      BY <2>1
  <1>4. /\ DOMAIN t = 1 .. n
        /\ \A i \in 1 .. n : \/ i + d \in DOMAIN s /\ t[i] = s[i + d]
                             \/ t[i].num = -1
    BY <1>1, <1>2, <1>3, FreeSlot DEF Resized
  <1>5. Held(t) \subseteq Held(s)
    BY <1>4 DEF Held
  <1>6. ASSUME Sorted(s),
               NEW i \in 1 .. n, NEW j \in 1 .. n, i < j, t[i].num # -1, t[j].num # -1
        PROVE  t[i].num < t[j].num
    <2>1. i + d \in DOMAIN s /\ t[i] = s[i + d] /\ j + d \in DOMAIN s /\ t[j] = s[j + d]
      BY <1>4, <1>6
    <2>2. i + d < j + d
      BY <1>1, <1>3, <1>6
    <2>3. QED
      BY <1>6, <2>1, <2>2 DEF Sorted
  <1>7. Sorted(s) => Sorted(t)
    BY <1>4, <1>6 DEF Sorted
  <1>8. QED
    BY <1>2, <1>5, <1>7

-----------------------------------------------------------------------------
(***************************************************************************)
(* No post is lost without need.                                           *)
(***************************************************************************)

\* A post stands in a list; it does not stand in the slot that is given up next.
Has(s, num)     == \E i \in DOMAIN s : s[i].num = num
HasSafe(s, num) == \E i \in DOMAIN s \ {1} : s[i].num = num

\* A new post costs the one in slot 1.
LEMMA ScrolledHas ==
  ASSUME NEW s \in Lists, NEW slot, NEW num, HasSafe(s, num)
  PROVE  Has(Scrolled(s, slot), num)
  <1>1. PICK n \in Nat \ {0, 1} : n = Len(s) /\ DOMAIN s = 1 .. n
    BY ListProps
  <1>2. PICK i \in 2 .. n : s[i].num = num
    BY <1>1 DEF HasSafe
  <1>3. PICK t : t = Scrolled(s, slot)
    OBVIOUS
  <1>4. DOMAIN t = 1 .. n /\ \A j \in 1 .. n : j # n => t[j] = s[j + 1]
    BY <1>1, <1>3 DEF Scrolled
  <1>5. i - 1 \in 1 .. n /\ i - 1 # n /\ (i - 1) + 1 = i
    BY <1>1
  <1>6. t[i - 1] = s[i]
    BY <1>4, <1>5
  <1>7. QED
    BY <1>2, <1>3, <1>4, <1>5, <1>6 DEF Has

\* Taking out a post costs no other, and leaves slot 1 free.
LEMMA WithoutHas ==
  ASSUME NEW s \in Lists, NEW k \in DOMAIN s, NEW num, Has(s, num),
         s[k].num # num
  PROVE  HasSafe(Without(s, k), num)
  <1>1. PICK n \in Nat \ {0, 1} : n = Len(s) /\ DOMAIN s = 1 .. n
    BY ListProps
  <1>2. PICK i \in 1 .. n : s[i].num = num
    BY <1>1 DEF Has
  <1>3. PICK t : t = Without(s, k)
    OBVIOUS
  <1>4. /\ DOMAIN t = 1 .. n
        /\ \A j \in 2 .. n : t[j] = IF j <= k THEN s[j - 1] ELSE s[j]
    BY <1>1, <1>3 DEF Without
  <1>5. k \in 1 .. n /\ i # k
    BY <1>1, <1>2
  <1>6. CASE i < k
    <2>1. i + 1 \in 2 .. n /\ i + 1 <= k /\ (i + 1) - 1 = i
      BY <1>1, <1>5, <1>6
    <2>2. t[i + 1] = s[i]
      BY <1>4, <2>1
    <2>3. i + 1 \in DOMAIN t \ {1}
      BY <1>1, <1>4, <2>1
    <2>4. QED
      BY <1>2, <1>3, <2>2, <2>3 DEF HasSafe
  <1>7. CASE k < i
    <2>1. i \in 2 .. n /\ ~ (i <= k)
      BY <1>1, <1>5, <1>7
    <2>2. t[i] = s[i]
      BY <1>4, <2>1
    <2>3. i \in DOMAIN t \ {1}
      BY <1>1, <1>4, <2>1
    <2>4. QED
      BY <1>2, <1>3, <2>2, <2>3 DEF HasSafe
  <1>8. QED
    BY <1>1, <1>5, <1>6, <1>7

\* A post that is put in gets a slot that is not given up next, and costs the
\* one in slot 1.
LEMMA InsertedHas ==
  ASSUME NEW s \in Lists, NEW slot \in GoodSlot
  PROVE  /\ HasSafe(Inserted(s, slot), slot.num)
         /\ \A num : HasSafe(s, num) => Has(Inserted(s, slot), num)
  <1>1. PICK n \in Nat \ {0, 1} : n = Len(s) /\ DOMAIN s = 1 .. n
    BY ListProps
  <1>2. slot.num \in Int
    BY DEF GoodSlot
  <1>3. PICK p \in 2 .. n : p = Place(s, slot.num)
    BY <1>1, <1>2, PlaceIn
  <1>4. PICK t : t = Inserted(s, slot)
    OBVIOUS
  <1>5. t = [i \in 1 .. n |-> IF i < p THEN s[i + 1]
                              ELSE IF i = p THEN slot
                              ELSE s[i]]
    BY <1>1, <1>3, <1>4 DEF Inserted
  <1>6. p \in DOMAIN t \ {1} /\ t[p] = slot
    BY <1>1, <1>5
  <1>7. ASSUME NEW num, HasSafe(s, num)
        PROVE  Has(t, num)
    <2>1. PICK i \in 2 .. n : s[i].num = num
      BY <1>1, <1>7 DEF HasSafe
    <2>2. CASE i <= p
      <3>1. i - 1 \in 1 .. n /\ i - 1 < p /\ (i - 1) + 1 = i
        BY <1>1, <2>2
      <3>2. t[i - 1] = s[i]
        BY <1>5, <3>1
      <3>3. i - 1 \in DOMAIN t
        BY <1>5, <3>1
      <3>4. QED
        BY <2>1, <3>2, <3>3 DEF Has
    <2>3. CASE p < i
      <3>1. i \in 1 .. n /\ ~ (i < p) /\ i # p
        BY <1>1, <2>3
      <3>2. t[i] = s[i] /\ i \in DOMAIN t
        BY <1>5, <3>1
      <3>3. QED
        BY <2>1, <3>2 DEF Has
    <2>4. QED
      BY <1>1, <2>2, <2>3
  <1>8. QED
    BY <1>4, <1>6, <1>7 DEF HasSafe

\* A list that does not get shorter keeps its posts.
LEMMA ResizedHas ==
  ASSUME NEW s \in Lists, NEW n \in Lengths, NEW none, NEW num, Has(s, num),
         ~ (n < Len(s))
  PROVE  Has(Resized(s, n, none), num)
  <1>1. PICK l \in Nat \ {0, 1} : l = Len(s) /\ DOMAIN s = 1 .. l
    BY ListProps
  <1>2. n \in Nat /\ l <= n
    BY <1>1, LengthsAssumption
  <1>3. PICK i \in 1 .. l : s[i].num = num
    BY <1>1 DEF Has
  <1>4. PICK j : j = i + n - l
    OBVIOUS
  <1>5. j \in 1 .. n /\ j + l - n = i /\ j + l - n >= 1
    BY <1>1, <1>2, <1>3, <1>4
  <1>6. PICK t : t = Resized(s, n, none)
    OBVIOUS
  <1>7. /\ DOMAIN t = 1 .. n
        /\ \A q \in 1 .. n : q + l - n >= 1 => t[q] = s[q + l - n]
    BY <1>1, <1>6 DEF Resized
  <1>8. t[j] = s[i] /\ j \in DOMAIN t
    BY <1>5, <1>7
  <1>9. QED
    BY <1>3, <1>6, <1>8 DEF Has

\* What the operations on the lists of all rooms do to the slots.
LEMMA PostToSlots ==
  ASSUME NEW m, Good(m), NEW r \in Rooms, NEW num,
         NEW mm, mm = PostTo(m, r, num), NEW q \in Rooms
  PROVE  /\ q # r => mm[q] = m[q]
         /\ \A x : HasSafe(m[q].slots, x) => Has(mm[q].slots, x)
  <1>1. PICK slot : slot = [num |-> num, local |-> m[r].highloc, home |-> NoRoom]
    OBVIOUS
  <1>2. /\ q # r => mm[q] = m[q]
        /\ mm[r].slots = Scrolled(m[r].slots, slot)
    BY <1>1 DEF PostTo, Good
  <1>3. \A x : HasSafe(m[r].slots, x) => Has(mm[r].slots, x)
    BY <1>2, GoodFields, ScrolledHas
  <1>4. \A x : HasSafe(m[q].slots, x) => Has(m[q].slots, x)
    BY DEF Has, HasSafe
  <1>5. CASE q = r
    BY <1>3, <1>5
  <1>6. CASE q # r
    BY <1>2, <1>4, <1>6
  <1>7. QED
    BY <1>5, <1>6

LEMMA TakeOutSlots ==
  ASSUME NEW m, Good(m), NEW r \in Rooms, NEW num, Has(m[r].slots, num),
         NEW mm, mm = TakeOut(m, r, num)
  PROVE  /\ \A q \in Rooms \ {r} : mm[q] = m[q]
         /\ \A x : Has(m[r].slots, x) /\ x # num => HasSafe(mm[r].slots, x)
  <1>1. m[r].slots \in Lists /\ m[r] \in MsgList
    BY GoodFields
  <1>2. PICK k \in DOMAIN m[r].slots : /\ k = SlotOf(m[r].slots, num)
                                       /\ m[r].slots[k].num = num
    BY <1>1, SlotOfIn DEF Has
  <1>3. /\ \A q \in Rooms \ {r} : mm[q] = m[q]
        /\ mm[r].slots = Without(m[r].slots, k)
    BY <1>1, <1>2 DEF TakeOut, Good, MsgList
  <1>4. QED
    BY <1>1, <1>2, <1>3, WithoutHas

LEMMA PutInSlots ==
  ASSUME NEW m, Good(m), NEW r \in Rooms, NEW slot \in GoodSlot,
         NEW mm, mm = PutIn(m, r, slot)
  PROVE  /\ \A q \in Rooms \ {r} : mm[q] = m[q]
         /\ HasSafe(mm[r].slots, slot.num)
         /\ \A x : HasSafe(m[r].slots, x) => Has(mm[r].slots, x)
  <1>1. m[r].slots \in Lists /\ m[r] \in MsgList
    BY GoodFields
  <1>2. /\ \A q \in Rooms \ {r} : mm[q] = m[q]
        /\ mm[r].slots = Inserted(m[r].slots, slot)
    BY <1>1 DEF PutIn, Good, MsgList
  <1>3. QED
    BY <1>1, <1>2, InsertedHas

\* The notice costs no post, unless it stands in slot 1 of the room of the aides.
LEMMA ToldHas ==
  ASSUME NEW m, Good(m), rooms \subseteq Rooms, NEW q \in Rooms, NEW num,
         HasSafe(m[q].slots, num) \/ (q # Aide /\ Has(m[q].slots, num))
  PROVE  Has(Told(m)[q].slots, num)
  <1>1. HasSafe(m[q].slots, num) => Has(m[q].slots, num)
    BY DEF Has, HasSafe
  <1>2. CASE Aide \in rooms
    <2>1. PICK mm : mm = PostTo(m, Aide, highest + 1)
      OBVIOUS
    <2>2. /\ q # Aide => mm[q] = m[q]
          /\ HasSafe(m[q].slots, num) => Has(mm[q].slots, num)
      BY <1>2, <2>1, PostToSlots
    <2>3. Told(m) = mm
      BY <1>2, <2>1 DEF Told
    <2>4. QED
      BY <1>1, <2>2, <2>3
  <1>3. CASE Aide \notin rooms
    BY <1>1, <1>3 DEF Told
  <1>4. QED
    BY <1>2, <1>3

\* Post num is still listed somewhere, or is gone as it may be.
StillListed(num) == \E q \in rooms' : num \in Nums(q)'
Accounted(r, num) ==
  \/ StillListed(num)
  \/ num \in dead'
  \/ r \notin rooms'
  \/ Len(Slots(r)') < Len(Slots(r))

LEMMA ListedIn ==
  ASSUME NEW q, q \in rooms', NEW m, msg' = m, NEW num, num # -1,
         Has(m[q].slots, num)
  PROVE  StillListed(num)
  BY DEF Has, StillListed, Nums, Slots

\* cmd_pstb, citta_post.
LEMMA PostLoses ==
  ASSUME IInv, "POST_LONG" \notin commands, NEW r \in rooms, NEW num,
         num # -1, HasSafe(msg[r].slots, num),
         NEW q \in rooms, Post(q) \/ PostRefused(q)
  PROVE  Accounted(r, num)
  <1>1. Good(msg) /\ r \in Rooms /\ q \in Rooms
    BY DEF IInv
  <1>2. Post(q) /\ r \in rooms'
    BY DEF Post, PostRefused, Served
  <1>3. PICK m : m = PostTo(msg, q, highest + 1) /\ msg' = m
    BY <1>2 DEF Post
  <1>4. Has(m[r].slots, num)
    BY <1>1, <1>3, PostToSlots
  <1>5. QED
    BY <1>2, <1>3, <1>4, ListedIn DEF Accounted

\* cmd_mdel by the author.
LEMMA DeleteLoses ==
  ASSUME IInv, NEW r \in rooms, NEW num, num # -1, Has(msg[r].slots, num),
         NEW q \in rooms, NEW n \in Nums(q), Delete(q, n)
  PROVE  Accounted(r, num)
  <1>1. Good(msg) /\ r \in Rooms /\ q \in Rooms /\ Has(msg[q].slots, n)
    BY NumsFound DEF IInv, Has
  <1>2. PICK m : m = TakeOut(msg, q, n) /\ msg' = m /\ r \in rooms'
    BY DEF Delete
  <1>3. num = n => num \in dead'
    BY DEF Delete
  <1>4. num # n => Has(m[r].slots, num)
    <2>1. CASE r = q
      BY <1>1, <1>2, <2>1, TakeOutSlots DEF Has, HasSafe
    <2>2. CASE r # q
      BY <1>1, <1>2, <2>2, TakeOutSlots
    <2>3. QED
      BY <2>1, <2>2
  <1>5. QED
    BY <1>2, <1>3, <1>4, ListedIn DEF Accounted

\* msg_dump: what is thrown out is in the Cestino.
LEMMA ThrownOutHas ==
  ASSUME IInv, NEW q \in rooms, NEW n \in Nums(q), q # Dump,
         NEW m, m = ThrownOut(q, n)
  PROVE  /\ HasSafe(m[Dump].slots, n)
         /\ \A num : HasSafe(msg[Dump].slots, num) => Has(m[Dump].slots, num)
         /\ \A num : Has(msg[q].slots, num) /\ num # n => Has(m[q].slots, num)
         /\ \A r \in Rooms \ {q, Dump} : m[r] = msg[r]
  <1>1. Good(msg) /\ q \in Rooms /\ Dump \in Rooms
    BY RoomsAssumption DEF IInv
  <1>2. PICK k \in DOMAIN msg[q].slots : /\ k = SlotOf(msg[q].slots, n)
                                         /\ msg[q].slots[k].num = n
    <2>1. msg[q].slots \in Lists
      BY <1>1, GoodFields
    <2>2. \E i \in DOMAIN msg[q].slots : msg[q].slots[i].num = n
      BY <1>1, NumsFound
    <2>3. QED
      BY <2>1, <2>2, SlotOfIn
  <1>3. PICK slot \in GoodSlot : slot = [msg[q].slots[k] EXCEPT !.home = q]
                                 /\ slot.num = n
    BY <1>1, <1>2, NumsFound, FoundSlot
  <1>4. msg[q].slots \in Lists /\ msg[Dump].slots \in Lists
        /\ msg[q] \in MsgList /\ msg[Dump] \in MsgList
    BY <1>1, GoodFields
  <1>5. /\ m[q].slots = Without(msg[q].slots, k)
        /\ m[Dump].slots = Inserted(msg[Dump].slots, slot)
        /\ \A r \in Rooms \ {q, Dump} : m[r] = msg[r]
    BY <1>1, <1>2, <1>3, <1>4 DEF ThrownOut, Slots, Good, MsgList
  <1>6. \A num : Has(msg[q].slots, num) /\ num # n => Has(m[q].slots, num)
    BY <1>2, <1>4, <1>5, WithoutHas DEF Has, HasSafe
  <1>7. QED
    BY <1>3, <1>4, <1>5, <1>6, InsertedHas

\* cmd_mdel by somebody else.
LEMMA DumpPostLoses ==
  ASSUME IInv, NEW r \in rooms, r # Aide, NEW num, num # -1,
         HasSafe(msg[r].slots, num),
         NEW q \in rooms, NEW n \in Nums(q), DumpPost(q, n)
  PROVE  Accounted(r, num)
  <1>1. /\ Good(msg) /\ rooms \subseteq Rooms /\ r \in Rooms /\ Dump \in rooms
        /\ Dump \in Rooms /\ Dump # Aide
    BY RoomsAssumption DEF IInv
  <1>2. q # Dump /\ "DUMP" \in commands /\ rooms' = rooms
    BY DEF DumpPost, Served
  <1>3. PICK m : m = ThrownOut(q, n) /\ Good(m)
    BY <1>2, ThrownOutGood
  <1>4. PICK mm : mm = Told(m) /\ msg' = mm
    BY <1>3 DEF DumpPost
  <1>5. \E z \in rooms : z # Aide /\ Has(m[z].slots, num)
    <2>1. CASE r = q /\ num = n
      BY <1>1, <1>2, <1>3, <2>1, ThrownOutHas DEF Has, HasSafe
    <2>2. CASE r = q /\ num # n
      BY <1>2, <1>3, <2>2, ThrownOutHas DEF Has, HasSafe
    <2>3. CASE r = Dump
      BY <1>2, <1>3, <2>3, ThrownOutHas
    <2>4. CASE r # q /\ r # Dump
      BY <1>1, <1>2, <1>3, <2>4, ThrownOutHas DEF Has, HasSafe
    <2>5. QED
      BY <2>1, <2>2, <2>3, <2>4
  <1>6. PICK z \in rooms : z # Aide /\ Has(mm[z].slots, num)
    BY <1>1, <1>3, <1>4, <1>5, ToldHas
  <1>7. QED
    BY <1>2, <1>4, <1>6, ListedIn DEF Accounted

\* A post is taken out of one list and put in another, or in the same one.
LEMMA TransferHas ==
  ASSUME NEW m, Good(m), NEW q \in Rooms, NEW dest \in Rooms, NEW n,
         Has(m[q].slots, n), NEW slot \in GoodSlot, slot.num = n,
         NEW r \in Rooms, NEW num, HasSafe(m[r].slots, num),
         NEW mm, mm = PutIn(TakeOut(m, q, n), dest, slot)
  PROVE  \/ num = n /\ HasSafe(mm[dest].slots, num)
         \/ Has(mm[r].slots, num)
  <1>1. PICK t : t = TakeOut(m, q, n) /\ Good(t)
    BY TakeOutGood DEF Has
  <1>2. /\ \A z \in Rooms \ {dest} : mm[z] = t[z]
        /\ HasSafe(mm[dest].slots, slot.num)
        /\ \A x : HasSafe(t[dest].slots, x) => Has(mm[dest].slots, x)
    <2>1. mm = PutIn(t, dest, slot) /\ Good(t)
      BY <1>1
    <2>2. QED
      BY <2>1, PutInSlots
  <1>3. ASSUME num # n
        PROVE  Has(mm[r].slots, num)
    <2>1. HasSafe(t[r].slots, num)
      BY <1>1, <1>3, TakeOutSlots DEF Has, HasSafe
    <2>2. CASE r = dest
      BY <1>2, <2>1, <2>2
    <2>3. CASE r # dest
      BY <1>2, <2>1, <2>3 DEF Has, HasSafe
    <2>4. QED
      BY <2>2, <2>3
  <1>4. QED
    BY <1>2, <1>3

\* cmd_mmov.
LEMMA MoveLoses ==
  ASSUME IInv, NEW r \in rooms, r # Aide, NEW num, num # -1,
         HasSafe(msg[r].slots, num),
         NEW q \in rooms, NEW dest \in rooms, NEW n \in Nums(q), Move(q, dest, n)
  PROVE  Accounted(r, num)
  <1>1. /\ Good(msg) /\ rooms \subseteq Rooms /\ r \in Rooms /\ q \in Rooms
        /\ dest \in Rooms /\ highest \in Nat
    BY DEF IInv
  <1>2. Has(msg[q].slots, n) /\ n # -1
    BY <1>1, NumsFound DEF Has
  <1>3. PICK slot \in GoodSlot : slot = Copied(q, n) /\ slot.num = n
    <2>1. \E i \in DOMAIN msg[q].slots : msg[q].slots[i].num = n
      BY <1>2 DEF Has
    <2>2. NoRoom \in Rooms \cup {NoRoom}
      OBVIOUS
    <2>3. QED
      BY <1>1, <2>1, <2>2, FoundSlot DEF Copied, Slots
  <1>4. PICK t : t = TakeOut(msg, q, n) /\ Good(t)
    BY <1>1, <1>2, TakeOutGood DEF Has
  <1>5. PICK mm : mm = PutIn(t, dest, slot) /\ Good(mm)
    BY <1>1, <1>2, <1>3, <1>4, PutInGood
  <1>6. (num = n /\ HasSafe(mm[dest].slots, num)) \/ Has(mm[r].slots, num)
    BY <1>1, <1>2, <1>3, <1>4, <1>5, TransferHas
  <1>7. rooms' = rooms
    BY DEF Move
  <1>8. PICK m : msg' = m /\ (m = mm \/ m = Told(mm))
    BY <1>3, <1>4, <1>5 DEF Move
  <1>9. CASE HasSafe(mm[dest].slots, num)
    <2>1. Has(m[dest].slots, num)
      BY <1>1, <1>5, <1>8, <1>9, ToldHas DEF Has, HasSafe
    <2>2. QED
      BY <1>7, <1>8, <2>1, ListedIn DEF Accounted
  <1>10. CASE Has(mm[r].slots, num)
    <2>1. Has(m[r].slots, num)
      BY <1>1, <1>5, <1>8, <1>10, ToldHas
    <2>2. QED
      BY <1>7, <1>8, <2>1, ListedIn DEF Accounted
  <1>11. QED
    BY <1>6, <1>9, <1>10

\* cmd_mdel in the Cestino.
LEMMA UndeleteLoses ==
  ASSUME IInv, NEW r \in rooms, r # Aide, NEW num, num # -1,
         HasSafe(msg[r].slots, num),
         NEW n \in Nums(Dump), Undelete(n)
  PROVE  Accounted(r, num)
  <1>1. /\ Good(msg) /\ rooms \subseteq Rooms /\ r \in Rooms /\ Dump \in Rooms
        /\ highest \in Nat
    BY RoomsAssumption DEF IInv
  <1>2. Has(msg[Dump].slots, n) /\ n # -1
    BY <1>1, NumsFound DEF Has
  <1>3. PICK k \in DOMAIN Slots(Dump) : k = SlotOf(Slots(Dump), n)
    BY <1>1, NumsFound DEF Slots
  <1>4. PICK dest \in rooms : dest = dump[k]
    BY <1>3 DEF Undelete
  <1>5. PICK slot \in GoodSlot : /\ slot = [Slots(Dump)[k] EXCEPT !.home = NoRoom]
                                 /\ slot.num = n
    <2>1. \E i \in DOMAIN msg[Dump].slots : msg[Dump].slots[i].num = n
      BY <1>2 DEF Has
    <2>2. NoRoom \in Rooms \cup {NoRoom}
      OBVIOUS
    <2>3. QED
      BY <1>1, <1>3, <2>1, <2>2, FoundSlot DEF Slots
  <1>6. PICK t : t = TakeOut(msg, Dump, n) /\ Good(t)
    BY <1>1, <1>2, TakeOutGood DEF Has
  <1>7. dest \in Rooms
    BY <1>1
  <1>8. PICK mm : mm = PutIn(t, dest, slot) /\ Good(mm)
    BY <1>2, <1>5, <1>6, <1>7, PutInGood
  <1>9. (num = n /\ HasSafe(mm[dest].slots, num)) \/ Has(mm[r].slots, num)
    <2>1. mm = PutIn(TakeOut(msg, Dump, n), dest, slot) /\ slot.num = n
      BY <1>5, <1>6, <1>8
    <2>2. QED
      BY <1>1, <1>2, <1>7, <2>1, TransferHas
  <1>10. PICK m : msg' = m /\ m = Told(mm)
    BY <1>3, <1>4, <1>5, <1>6, <1>8 DEF Undelete
  <1>11. rooms' = rooms
    BY DEF Undelete
  <1>12. CASE HasSafe(mm[dest].slots, num)
    <2>1. Has(m[dest].slots, num)
      BY <1>1, <1>7, <1>8, <1>10, <1>12, ToldHas
    <2>2. QED
      BY <1>10, <1>11, <2>1, ListedIn DEF Accounted
  <1>13. CASE Has(mm[r].slots, num)
    <2>1. Has(m[r].slots, num)
      BY <1>1, <1>8, <1>10, <1>13, ToldHas
    <2>2. QED
      BY <1>10, <1>11, <2>1, ListedIn DEF Accounted
  <1>14. QED
    BY <1>9, <1>12, <1>13

\* cmd_mcpy.
LEMMA CopyLoses ==
  ASSUME IInv, NEW r \in rooms, NEW num, num # -1, HasSafe(msg[r].slots, num),
         NEW q \in rooms, NEW dest \in rooms, NEW n \in Nums(q), Copy(q, dest, n)
  PROVE  Accounted(r, num)
  <1>1. /\ Good(msg) /\ r \in Rooms /\ q \in Rooms /\ dest \in Rooms
    BY DEF IInv
  <1>2. \E i \in DOMAIN msg[q].slots : msg[q].slots[i].num = n
    BY <1>1, NumsFound
  <1>3. PICK slot \in GoodSlot : slot = Copied(q, n)
    <2>1. NoRoom \in Rooms \cup {NoRoom}
      OBVIOUS
    <2>2. QED
      BY <1>1, <1>2, <2>1, FoundSlot DEF Copied, Slots
  <1>4. PICK m : m = PutIn(msg, dest, slot) /\ msg' = m /\ rooms' = rooms
    BY <1>3 DEF Copy
  <1>5. Has(m[r].slots, num)
    <2>1. CASE r = dest
      BY <1>1, <1>4, <2>1, PutInSlots
    <2>2. CASE r # dest
      BY <1>1, <1>4, <2>2, PutInSlots DEF Has, HasSafe
    <2>3. QED
      BY <2>1, <2>2
  <1>6. QED
    BY <1>4, <1>5, ListedIn DEF Accounted

\* cmd_rlen.
LEMMA ResizeLoses ==
  ASSUME IInv, NEW r \in rooms, NEW num, num # -1, Has(msg[r].slots, num),
         NEW q \in rooms, NEW n \in Lengths, Resize(q, n)
  PROVE  Accounted(r, num)
  <1>1. Good(msg) /\ r \in Rooms /\ q \in Rooms /\ msg[r].slots \in Lists
    BY GoodFields DEF IInv
  <1>2. PICK m : /\ msg' = m /\ rooms' = rooms
                 /\ \A z \in Rooms \ {q} : m[z] = msg[z]
                 /\ m[q].slots = Resized(msg[q].slots, n, Free)
    <2>1. PICK x : x = [slots |-> Resized(msg[q].slots, n, Free),
                        highloc |-> 0, highmsg |-> 0, dirty |-> TRUE]
      OBVIOUS
    <2>2. PICK m : m = [msg EXCEPT ![q] = x]
      OBVIOUS
    <2>3. msg' = m /\ rooms' = rooms
      BY <2>1, <2>2 DEF Resize
    <2>4. /\ \A z \in Rooms \ {q} : m[z] = msg[z]
          /\ m[q] = x
      BY <1>1, <2>2 DEF Good
    <2>5. x.slots = Resized(msg[q].slots, n, Free)
      BY <2>1
    <2>6. QED
      BY <2>3, <2>4, <2>5
  <1>3. CASE r # q
    <2>1. Has(m[r].slots, num)
      BY <1>1, <1>2, <1>3
    <2>2. QED
      BY <1>2, <2>1, ListedIn DEF Accounted
  <1>4. CASE r = q /\ ~ (n < Len(msg[r].slots))
    <2>1. Has(m[r].slots, num)
      BY <1>1, <1>2, <1>4, ResizedHas
    <2>2. QED
      BY <1>2, <2>1, ListedIn DEF Accounted
  <1>5. CASE r = q /\ n < Len(msg[r].slots)
    <2>1. Len(m[r].slots) = n
      <3>1. Resized(msg[q].slots, n, Free) \in Lists
        BY <1>1, <1>5, FreeSlot, ResizedList
      <3>2. DOMAIN m[r].slots = 1 .. n
        BY <1>2, <1>5 DEF Resized
      <3>3. /\ Len(m[r].slots) \in Nat /\ n \in Nat
            /\ DOMAIN m[r].slots = 1 .. Len(m[r].slots)
        BY <1>2, <1>5, <3>1, ListProps, LengthsAssumption
      <3>4. QED
        BY <3>2, <3>3
    <2>2. Slots(r)' = m[r].slots /\ Slots(r) = msg[r].slots
      BY <1>2 DEF Slots
    <2>3. QED
      BY <1>5, <2>1, <2>2 DEF Accounted
  <1>6. QED
    BY <1>3, <1>4, <1>5

\* cmd_rdel.
LEMMA RdelLoses ==
  ASSUME IInv, NEW r \in rooms, r # Aide, NEW num, num # -1,
         Has(msg[r].slots, num), NEW q \in rooms, Rdel(q)
  PROVE  Accounted(r, num)
  <1>1. Good(msg) /\ rooms \subseteq Rooms /\ r \in Rooms
    BY DEF IInv
  <1>2. PICK m : m = Told(msg) /\ msg' = m /\ rooms' = rooms \ {q}
    BY DEF Rdel
  <1>3. Has(m[r].slots, num)
    BY <1>1, <1>2, ToldHas
  <1>4. QED
    BY <1>2, <1>3, ListedIn DEF Accounted

\* crash_save_perfavore.
LEMMA SaveLoses ==
  ASSUME IInv, NEW r \in rooms, NEW num, num # -1, Has(msg[r].slots, num), Save
  PROVE  Accounted(r, num)
  <1>1. Good(msg) /\ r \in Rooms /\ msg[r] \in MsgList
    BY GoodFields DEF IInv
  <1>2. PICK m : /\ msg' = m /\ rooms' = rooms
                 /\ m = [z \in Rooms |-> IF z \in rooms
                                         THEN [msg[z] EXCEPT !.dirty = FALSE]
                                         ELSE msg[z]]
    BY DEF Save
  <1>3. m[r].slots = msg[r].slots
    BY <1>1, <1>2 DEF MsgList
  <1>4. QED
    BY <1>2, <1>3, ListedIn DEF Accounted

LEMMA NextLoses ==
  ASSUME IInv, crashes \in Nat, [Next]_vars, crashes' = crashes,
         "POST_LONG" \notin commands, NEW r \in rooms, r # Aide, NEW num \in Nums(r),
         Slots(r)[1].num # num
  PROVE  Accounted(r, num)
  <1>1. /\ num # -1 /\ Has(msg[r].slots, num) /\ HasSafe(msg[r].slots, num)
    BY DEF Nums, Slots, Has, HasSafe
  <1>2. ASSUME NEW q \in rooms, Post(q) \/ PostRefused(q) \/ Rdel(q)
        PROVE  Accounted(r, num)
    BY <1>1, <1>2, PostLoses, RdelLoses
  <1>3. ASSUME NEW q \in rooms, NEW n \in Nums(q), Delete(q, n) \/ DumpPost(q, n)
        PROVE  Accounted(r, num)
    BY <1>1, <1>3, DeleteLoses, DumpPostLoses
  <1>4. ASSUME NEW q \in rooms, NEW dest \in rooms, NEW n \in Nums(q),
               Move(q, dest, n) \/ Copy(q, dest, n)
        PROVE  Accounted(r, num)
    BY <1>1, <1>4, MoveLoses, CopyLoses
  <1>5. ASSUME NEW n \in Nums(Dump), Undelete(n)
        PROVE  Accounted(r, num)
    BY <1>1, <1>5, UndeleteLoses
  <1>6. ASSUME NEW q \in rooms, NEW n \in Lengths, Resize(q, n)
        PROVE  Accounted(r, num)
    BY <1>1, <1>6, ResizeLoses
  <1>7. CASE Save
    BY <1>1, <1>7, SaveLoses
  <1>8. CASE CrashRestart
    BY <1>8 DEF CrashRestart
  <1>9. CASE UNCHANGED vars
    BY <1>9 DEF vars, Accounted, StillListed, Nums, Slots
  <1>10. QED
    BY <1>2, <1>3, <1>4, <1>5, <1>6, <1>7, <1>8, <1>9 DEF Next

LEMMA CrashesCounted == Spec => [](crashes \in Nat)
  <1>1. Init => crashes \in Nat
    BY DEF Init
  <1>2. [Next]_vars => crashes' = crashes \/ CrashRestart
    BY DEF Next, Post, PostRefused, Rdel, Delete, DumpPost, Move, Copy, Undelete,
           Resize, Save, Served, diskVars, vars
  <1>3. crashes \in Nat /\ CrashRestart => (crashes \in Nat)'
    BY DEF CrashRestart
  <1>4. crashes \in Nat /\ [Next]_vars => (crashes \in Nat)'
    BY <1>2, <1>3
  <1>5. QED
    BY <1>1, <1>4, PTL DEF Spec

\* Whatever is posted, deleted, thrown out, taken back, moved, copied, resized
\* or saved, a post leaves all lists only for one of the reasons the code has to
\* drop it; the loops of msg_move, msg_copy and msg_dump overwrite no other.
THEOREM NoPostLost == Spec => NoNeedlessLoss
  <1> DEFINE Lost ==
        crashes' = crashes /\ "POST_LONG" \notin commands =>
          \A r \in rooms \ {Aide} : \A num \in Nums(r) :
             \/ \E q \in rooms' : num \in Nums(q)'
             \/ num \in dead'
             \/ r \notin rooms'
             \/ Len(Slots(r)') < Len(Slots(r))
             \/ Slots(r)[1].num = num
  <1>1. IInv /\ crashes \in Nat /\ [Next]_vars => [Lost]_vars
    BY NextLoses DEF Accounted, StillListed
  <1>2. QED
    BY <1>1, ListsInvariant, CrashesCounted, PTL DEF Spec, NoNeedlessLoss

-----------------------------------------------------------------------------
(***************************************************************************)
(* A post that nobody copied stands in one place.                          *)
(***************************************************************************)
\* A post stands once in a list.
Once(s) ==
  \A i, j \in DOMAIN s : s[i].num # -1 /\ s[i].num = s[j].num => i = j

LEMMA ScrolledOnce ==
  ASSUME NEW s \in Lists, NEW slot \in GoodSlot, Once(s), slot.num \notin Held(s)
  PROVE  Once(Scrolled(s, slot))
  <1>1. PICK n \in Nat \ {0, 1} : n = Len(s) /\ DOMAIN s = 1 .. n
    BY ListProps
  <1>2. PICK t : t = Scrolled(s, slot)
    OBVIOUS
  <1>3. /\ DOMAIN t = 1 .. n /\ t[n] = slot
        /\ \A i \in 1 .. n : i # n => t[i] = s[i + 1]
    BY <1>1, <1>2 DEF Scrolled
  <1>4. \A i \in 1 .. n : i # n => i + 1 \in 1 .. n
    BY <1>1
  <1>5. ASSUME NEW i \in 1 .. n, NEW j \in 1 .. n,
               t[i].num # -1, t[i].num = t[j].num
        PROVE  i = j
    <2>1. CASE i # n /\ j # n
      <3>1. i + 1 = j + 1
        BY <1>1, <1>3, <1>4, <1>5, <2>1 DEF Once
      <3>2. QED
        BY <3>1
    <2>2. ASSUME NEW a \in 1 .. n, a # n, t[a].num # -1, t[a].num = slot.num
          PROVE  FALSE
      BY <1>1, <1>3, <1>4, <2>2 DEF Held
    <2>3. QED
      BY <1>3, <1>5, <2>1, <2>2
  <1>6. QED
    BY <1>2, <1>3, <1>5 DEF Once

LEMMA WithoutOnce ==
  ASSUME NEW s \in Lists, NEW k \in DOMAIN s, Once(s)
  PROVE  /\ Once(Without(s, k))
         /\ s[k].num \notin Held(Without(s, k))
  <1>1. PICK n \in Nat \ {0, 1} : n = Len(s) /\ DOMAIN s = 1 .. n
    BY ListProps
  <1>2. PICK t : t = Without(s, k)
    OBVIOUS
  <1>3. /\ DOMAIN t = 1 .. n
        /\ \A i \in 1 .. n : \/ i = 1 /\ t[i].num = -1
                             \/ i \in 2 .. k /\ t[i] = s[i - 1]
                             \/ i > k /\ t[i] = s[i]
    BY <1>1, <1>2, FreeSlot DEF Without
  <1>4. k \in 1 .. n
    BY <1>1
  <1>5. ASSUME NEW i \in 1 .. n, t[i].num # -1
        PROVE  \E a \in 1 .. n : /\ a # k /\ t[i] = s[a]
                                 /\ (i <= k /\ a = i - 1) \/ (i > k /\ a = i)
    <2>1. CASE i \in 2 .. k /\ t[i] = s[i - 1]
      <3>1. i - 1 \in 1 .. n /\ i - 1 # k /\ i <= k
        BY <1>1, <1>4, <2>1
      <3>2. QED
        BY <2>1, <3>1
    <2>2. CASE i > k /\ t[i] = s[i]
      <3>1. i # k /\ i > k
        BY <1>1, <1>4, <2>2
      <3>2. QED
        BY <2>2, <3>1
    <2>3. QED
      BY <1>3, <1>5, <2>1, <2>2
  <1>6. ASSUME NEW i \in 1 .. n, NEW j \in 1 .. n,
               t[i].num # -1, t[i].num = t[j].num
        PROVE  i = j
    <2>1. PICK a \in 1 .. n : /\ a # k /\ t[i] = s[a]
                              /\ (i <= k /\ a = i - 1) \/ (i > k /\ a = i)
      BY <1>5, <1>6
    <2>2. PICK b \in 1 .. n : /\ b # k /\ t[j] = s[b]
                              /\ (j <= k /\ b = j - 1) \/ (j > k /\ b = j)
      BY <1>5, <1>6
    <2>3. a = b
      BY <1>1, <1>6, <2>1, <2>2 DEF Once
    <2>4. a # k /\ b # k
      BY <2>1, <2>2
    <2>5. /\ (i <= k /\ a = i - 1) \/ (i > k /\ a = i)
          /\ (j <= k /\ b = j - 1) \/ (j > k /\ b = j)
      BY <2>1, <2>2
    <2>6. i \in Int /\ j \in Int /\ k \in Int
      BY <1>1, <1>4
    <2>7. QED
      BY <2>3, <2>4, <2>5, <2>6
  <1>7. ASSUME s[k].num \in Held(t)
        PROVE  FALSE
    <2>1. PICK i \in 1 .. n : t[i].num = s[k].num /\ t[i].num # -1
      BY <1>3, <1>7 DEF Held
    <2>2. PICK a \in 1 .. n : a # k /\ t[i] = s[a]
      BY <1>5, <2>1
    <2>3. QED
      BY <1>1, <1>4, <2>1, <2>2 DEF Once
  <1>8. QED
    BY <1>2, <1>3, <1>6, <1>7 DEF Once

LEMMA InsertedOnce ==
  ASSUME NEW s \in Lists, NEW slot \in GoodSlot, Once(s), slot.num \notin Held(s)
  PROVE  Once(Inserted(s, slot))
  <1>1. PICK n \in Nat \ {0, 1} : n = Len(s) /\ DOMAIN s = 1 .. n
    BY ListProps
  <1>2. slot.num \in Int
    BY DEF GoodSlot
  <1>3. PICK p \in 2 .. n : p = Place(s, slot.num)
    BY <1>1, <1>2, PlaceIn
  <1>4. PICK t : t = Inserted(s, slot)
    OBVIOUS
  <1>5. t = [i \in 1 .. n |-> IF i < p THEN s[i + 1]
                              ELSE IF i = p THEN slot
                              ELSE s[i]]
    BY <1>1, <1>3, <1>4 DEF Inserted
  <1>6. ASSUME NEW i \in 1 .. n, i # p
        PROVE  \E a \in 1 .. n : /\ t[i] = s[a]
                                 /\ (i < p /\ a = i + 1) \/ (i > p /\ a = i)
    <2>1. CASE i < p
      <3>1. i + 1 \in 1 .. n
        BY <1>1, <1>3, <2>1
      <3>2. QED
        BY <1>5, <2>1, <3>1
    <2>2. CASE i > p
      BY <1>1, <1>3, <1>5, <2>2
    <2>3. QED
      BY <1>1, <1>3, <1>6, <2>1, <2>2
  <1>7. ASSUME NEW i \in 1 .. n, i # p, t[i].num # -1
        PROVE  t[i].num # slot.num
    <2>1. PICK a \in 1 .. n : t[i] = s[a]
      BY <1>6, <1>7
    <2>2. s[a].num \in Held(s)
      BY <1>1, <1>7, <2>1 DEF Held
    <2>3. QED
      BY <2>1, <2>2
  <1>8. ASSUME NEW i \in 1 .. n, NEW j \in 1 .. n,
               t[i].num # -1, t[i].num = t[j].num
        PROVE  i = j
    <2>1. CASE i # p /\ j # p
      <3>1. PICK a \in 1 .. n : /\ t[i] = s[a]
                                /\ (i < p /\ a = i + 1) \/ (i > p /\ a = i)
        BY <1>6, <2>1
      <3>2. PICK b \in 1 .. n : /\ t[j] = s[b]
                                /\ (j < p /\ b = j + 1) \/ (j > p /\ b = j)
        BY <1>6, <2>1
      <3>3. a = b
        BY <1>1, <1>8, <3>1, <3>2 DEF Once
      <3>4. /\ (i < p /\ a = i + 1) \/ (i > p /\ a = i)
            /\ (j < p /\ b = j + 1) \/ (j > p /\ b = j)
        BY <3>1, <3>2
      <3>5. i \in Int /\ j \in Int /\ p \in Int
        BY <1>1, <1>3
      <3>6. QED
        BY <3>3, <3>4, <3>5
    <2>2. t[p] = slot
      BY <1>3, <1>5
    <2>3. QED
      BY <1>7, <1>8, <2>1, <2>2
  <1>9. DOMAIN t = 1 .. n
    BY <1>5
  <1>10. QED
    BY <1>4, <1>8, <1>9 DEF Once

LEMMA ResizedOnce ==
  ASSUME NEW s \in Lists, NEW n \in Lengths, Once(s)
  PROVE  Once(Resized(s, n, Free))
  <1>1. PICK l \in Nat \ {0, 1} : l = Len(s) /\ DOMAIN s = 1 .. l
    BY ListProps
  <1>2. n \in Nat
    BY LengthsAssumption
  <1>3. PICK t : t = Resized(s, n, Free)
    OBVIOUS
  <1>4. /\ DOMAIN t = 1 .. n
        /\ \A i \in 1 .. n : \/ i + l - n \in 1 .. l /\ t[i] = s[i + l - n]
                             \/ t[i].num = -1
    BY <1>1, <1>2, <1>3, FreeSlot DEF Resized
  <1>5. ASSUME NEW i \in 1 .. n, NEW j \in 1 .. n,
               t[i].num # -1, t[i].num = t[j].num
        PROVE  i = j
    <2>1. i + l - n = j + l - n
      BY <1>1, <1>4, <1>5 DEF Once
    <2>2. QED
      BY <1>1, <1>2, <2>1
  <1>6. QED
    BY <1>3, <1>4, <1>5 DEF Once

\* The posts of the lists m stand once each, and none was given a number after h.
PlacedOnce(m, h) ==
  /\ \A r \in Rooms : Once(m[r].slots) /\ \A n \in Held(m[r].slots) : n <= h
  /\ \A r, q \in Rooms : r # q => Held(m[r].slots) \cap Held(m[q].slots) = {}

\* Commands that copy no post, before any restart.
NoCopies == {"COPY", "COPY_TO_DUMP"} \cap commands = {} /\ crashes = 0

OnceInv == NoCopies => PlacedOnce(msg, highest)

\* One list is changed, and gets no posts but new ones.
LEMMA ChangedOnce ==
  ASSUME NEW m, Good(m), NEW h \in Nat, PlacedOnce(m, h), NEW r \in Rooms,
         NEW mm, \A q \in Rooms \ {r} : mm[q] = m[q], Once(mm[r].slots),
         NEW g \in Nat, h <= g,
         \A n \in Held(mm[r].slots) :
            \/ n \in Held(m[r].slots)
            \/ n <= g /\ \A q \in Rooms : n \notin Held(m[q].slots)
  PROVE  PlacedOnce(mm, g)
  <1>1. ASSUME NEW q \in Rooms
        PROVE  Held(m[q].slots) \subseteq Nat
    <2>1. m[q].slots \in Lists
      BY GoodFields
    <2>2. QED
      BY <2>1, HeldNat
  <1>2. \A q \in Rooms : \A n \in Held(m[q].slots) : n <= g
    BY <1>1 DEF PlacedOnce
  <1>3. ASSUME NEW q \in Rooms
        PROVE  Once(mm[q].slots) /\ \A n \in Held(mm[q].slots) : n <= g
    BY <1>2 DEF PlacedOnce
  <1>4. ASSUME NEW q \in Rooms, q # r
        PROVE  Held(mm[r].slots) \cap Held(mm[q].slots) = {}
    <2>1. mm[q] = m[q] /\ Held(m[r].slots) \cap Held(m[q].slots) = {}
      BY <1>4 DEF PlacedOnce
    <2>2. QED
      BY <2>1
  <1>5. ASSUME NEW p \in Rooms, NEW q \in Rooms, p # q
        PROVE  Held(mm[p].slots) \cap Held(mm[q].slots) = {}
    <2>1. CASE p # r /\ q # r
      BY <1>5, <2>1 DEF PlacedOnce
    <2>2. QED
      BY <1>4, <1>5, <2>1
  <1>6. QED
    BY <1>3, <1>5 DEF PlacedOnce

\* save_post, citta_post.
LEMMA PostToFields ==
  ASSUME NEW m, Good(m), NEW r \in Rooms, NEW num \in {-1} \cup (Nat \ {0}),
         NEW mm, mm = PostTo(m, r, num)
  PROVE  /\ \A q \in Rooms \ {r} : mm[q] = m[q]
         /\ mm[r].highloc = m[r].highloc + 1
         /\ \E slot \in GoodSlot :
              /\ slot.num = num /\ slot.local = m[r].highloc /\ slot.home = NoRoom
              /\ mm[r].slots = Scrolled(m[r].slots, slot)
  <1>1. PICK slot : slot = [num |-> num, local |-> m[r].highloc, home |-> NoRoom]
    OBVIOUS
  <1>2. slot \in GoodSlot
    <2>1. m[r].highloc \in Nat
      BY GoodFields
    <2>2. m[r].highloc \in Int
      BY <2>1
    <2>3. QED
      BY <1>1, <2>2 DEF GoodSlot
  <1>3. PICK x : x = [slots   |-> Scrolled(m[r].slots, slot),
                      highloc |-> m[r].highloc + 1,
                      highmsg |-> num, dirty |-> TRUE]
    OBVIOUS
  <1>4. mm = [m EXCEPT ![r] = x]
    BY <1>1, <1>3 DEF PostTo
  <1>5. /\ \A q \in Rooms \ {r} : mm[q] = m[q]
        /\ mm[r] = x
    BY <1>4 DEF Good
  <1>6. QED
    BY <1>1, <1>2, <1>3, <1>5

LEMMA PostToOnce ==
  ASSUME NEW m, Good(m), NEW h \in Nat, PlacedOnce(m, h), NEW r \in Rooms,
         NEW num \in {-1} \cup (Nat \ {0}), num = -1 \/ num = h + 1,
         NEW g \in Nat, h <= g, num <= g,
         NEW mm, mm = PostTo(m, r, num)
  PROVE  PlacedOnce(mm, g)
  <1>1. PICK slot \in GoodSlot : /\ slot.num = num
                                 /\ mm[r].slots = Scrolled(m[r].slots, slot)
    BY PostToFields
  <1>2. \A q \in Rooms \ {r} : mm[q] = m[q]
    BY PostToFields
  <1>4. ASSUME NEW q \in Rooms
        PROVE  num \notin Held(m[q].slots)
    <2>1. CASE num = -1
      BY <2>1 DEF Held
    <2>2. CASE num = h + 1
      <3>1. \A n \in Held(m[q].slots) : n <= h
        BY DEF PlacedOnce
      <3>2. ~ (num <= h)
        BY <2>2
      <3>3. QED
        BY <3>1, <3>2
    <2>3. QED
      BY <2>1, <2>2
  <1>5. m[r].slots \in Lists /\ Once(m[r].slots)
    BY GoodFields DEF PlacedOnce
  <1>6. Once(mm[r].slots)
    BY <1>1, <1>4, <1>5, ScrolledOnce
  <1>7. Held(mm[r].slots) \subseteq Held(m[r].slots) \cup {num}
    BY <1>1, <1>5, ScrolledHeld
  <1>8. \A n \in Held(mm[r].slots) :
           \/ n \in Held(m[r].slots)
           \/ n <= g /\ \A q \in Rooms : n \notin Held(m[q].slots)
    BY <1>4, <1>7
  <1>9. QED
    BY <1>2, <1>6, <1>8, ChangedOnce

\* The notice to the aides.
LEMMA ToldOnce ==
  ASSUME IInv, NEW m, Good(m), PlacedOnce(m, highest), NEW mm, mm = Told(m),
         NEW g, g = highest + Notices
  PROVE  PlacedOnce(mm, g)
  <1>1. highest \in Nat /\ rooms \subseteq Rooms
    BY DEF IInv
  <1>2. CASE Aide \in rooms
    <2>1. g = highest + 1 /\ g \in Nat /\ highest <= g
      BY <1>1, <1>2 DEF Notices
    <2>2. PICK num \in Nat \ {0} : num = highest + 1 /\ num <= g
      BY <1>1, <2>1
    <2>3. mm = PostTo(m, Aide, num) /\ Aide \in Rooms
      BY <1>1, <1>2, <2>2 DEF Told
    <2>4. QED
      BY <1>1, <2>1, <2>2, <2>3, PostToOnce
  <1>3. CASE Aide \notin rooms
    <2>1. mm = m /\ g = highest
      BY <1>1, <1>3 DEF Told, Notices
    <2>2. QED
      BY <2>1
  <1>4. QED
    BY <1>2, <1>3

\* msg_del.
LEMMA TakeOutOnce ==
  ASSUME NEW m, Good(m), NEW h \in Nat, PlacedOnce(m, h), NEW r \in Rooms,
         NEW num \in Held(m[r].slots), NEW mm, mm = TakeOut(m, r, num)
  PROVE  /\ PlacedOnce(mm, h)
         /\ \A q \in Rooms : num \notin Held(mm[q].slots)
  <1>1. m[r].slots \in Lists /\ m[r] \in MsgList /\ Once(m[r].slots)
    BY GoodFields DEF PlacedOnce
  <1>2. PICK k \in DOMAIN m[r].slots : /\ k = SlotOf(m[r].slots, num)
                                       /\ m[r].slots[k].num = num
    BY <1>1, SlotOfIn DEF Held
  <1>3. /\ \A q \in Rooms \ {r} : mm[q] = m[q]
        /\ mm[r].slots = Without(m[r].slots, k)
    BY <1>1, <1>2 DEF TakeOut, Good, MsgList
  <1>4. Once(mm[r].slots) /\ num \notin Held(mm[r].slots)
    BY <1>1, <1>2, <1>3, WithoutOnce
  <1>5. Held(mm[r].slots) \subseteq Held(m[r].slots)
    BY <1>1, <1>3, WithoutHeld
  <1>6. PlacedOnce(mm, h)
    <2>1. h <= h
      OBVIOUS
    <2>2. QED
      BY <1>3, <1>4, <1>5, <2>1, ChangedOnce
  <1>7. ASSUME NEW q \in Rooms \ {r}
        PROVE  num \notin Held(m[q].slots)
    BY DEF PlacedOnce
  <1>8. QED
    BY <1>3, <1>4, <1>6, <1>7

\* msg_copy, for a post that stands nowhere.
LEMMA PutInOnce ==
  ASSUME NEW m, Good(m), NEW h \in Nat, PlacedOnce(m, h), NEW r \in Rooms,
         NEW slot \in GoodSlot, \A q \in Rooms : slot.num \notin Held(m[q].slots),
         slot.num <= h, NEW mm, mm = PutIn(m, r, slot)
  PROVE  PlacedOnce(mm, h)
  <1>1. m[r].slots \in Lists /\ m[r] \in MsgList /\ Once(m[r].slots)
    BY GoodFields DEF PlacedOnce
  <1>2. /\ \A q \in Rooms \ {r} : mm[q] = m[q]
        /\ mm[r].slots = Inserted(m[r].slots, slot)
    BY <1>1 DEF PutIn, Good, MsgList
  <1>3. Once(mm[r].slots)
    BY <1>1, <1>2, InsertedOnce
  <1>4. Held(mm[r].slots) \subseteq Held(m[r].slots) \cup {slot.num}
    BY <1>1, <1>2, InsertedHeld
  <1>5. \A n \in Held(mm[r].slots) :
           \/ n \in Held(m[r].slots)
           \/ n <= h /\ \A q \in Rooms : n \notin Held(m[q].slots)
    BY <1>4
  <1>6. h <= h
    OBVIOUS
  <1>7. QED
    BY <1>2, <1>3, <1>5, <1>6, ChangedOnce

\* A post is taken out of one list and put in another, or in the same one.
LEMMA TransferOnce ==
  ASSUME NEW m, Good(m), NEW h \in Nat, PlacedOnce(m, h), NEW q \in Rooms,
         NEW dest \in Rooms, NEW n \in Held(m[q].slots),
         NEW slot \in GoodSlot, slot.num = n,
         NEW mm, mm = PutIn(TakeOut(m, q, n), dest, slot)
  PROVE  PlacedOnce(mm, h)
  <1>1. n <= h
    BY DEF PlacedOnce
  <1>2. PICK t : t = TakeOut(m, q, n)
    OBVIOUS
  <1>3. Good(t)
    BY <1>2, TakeOutGood DEF Held
  <1>4. PlacedOnce(t, h) /\ \A z \in Rooms : n \notin Held(t[z].slots)
    BY <1>2, TakeOutOnce
  <1>5. mm = PutIn(t, dest, slot)
    BY <1>2
  <1>6. ASSUME NEW z \in Rooms
        PROVE  slot.num \notin Held(t[z].slots)
    <2>1. n \notin Held(t[z].slots)
      BY <1>4
    <2>2. QED
      BY <2>1, Zenon
  <1>7. QED
    BY <1>1, <1>3, <1>4, <1>5, <1>6, PutInOnce

\* msg_dump.
LEMMA ThrownOutOnce ==
  ASSUME IInv, PlacedOnce(msg, highest), NEW q \in rooms, NEW n \in Nums(q),
         q # Dump, NEW m, m = ThrownOut(q, n)
  PROVE  PlacedOnce(m, highest)
  <1>1. Good(msg) /\ q \in Rooms /\ Dump \in Rooms /\ highest \in Nat
    BY RoomsAssumption DEF IInv
  <1>2. PICK k \in DOMAIN msg[q].slots : k = SlotOf(msg[q].slots, n)
    BY <1>1, NumsFound
  <1>3. PICK slot \in GoodSlot : slot = [msg[q].slots[k] EXCEPT !.home = q]
                                 /\ slot.num = n
    <2>1. \E i \in DOMAIN msg[q].slots : msg[q].slots[i].num = n
      BY <1>1, NumsFound
    <2>2. q \in Rooms \cup {NoRoom}
      BY <1>1
    <2>3. QED
      BY <1>1, <1>2, <2>1, <2>2, FoundSlot
  <1>4. msg[q].slots \in Lists /\ msg[Dump].slots \in Lists
        /\ msg[q] \in MsgList /\ msg[Dump] \in MsgList
    BY <1>1, GoodFields
  <1>5. PICK t : t = TakeOut(msg, q, n)
    OBVIOUS
  <1>6. PICK mm : mm = PutIn(t, Dump, slot)
    OBVIOUS
  <1>7. PlacedOnce(mm, highest)
    <2>1. n \in Held(msg[q].slots)
      BY DEF Nums, Slots, Held
    <2>2. mm = PutIn(TakeOut(msg, q, n), Dump, slot) /\ slot.num = n
      BY <1>3, <1>5, <1>6
    <2>3. QED
      BY <1>1, <2>1, <2>2, TransferOnce
  <1>8. \A z \in Rooms : m[z].slots = mm[z].slots
    <2>1. /\ \A z \in Rooms \ {q} : t[z] = msg[z]
          /\ t[q].slots = Without(msg[q].slots, k)
          /\ DOMAIN t = Rooms /\ t[Dump] \in MsgList
      BY <1>1, <1>2, <1>4, <1>5 DEF TakeOut, Good, MsgList
    <2>2. /\ \A z \in Rooms \ {Dump} : mm[z] = t[z]
          /\ mm[Dump].slots = Inserted(msg[Dump].slots, slot)
      BY <1>1, <1>4, <1>6, <2>1 DEF PutIn, MsgList
    <2>3. /\ m[q].slots = Without(msg[q].slots, k)
          /\ m[Dump].slots = Inserted(msg[Dump].slots, slot)
          /\ \A z \in Rooms \ {q, Dump} : m[z] = msg[z]
      BY <1>1, <1>2, <1>3, <1>4 DEF ThrownOut, Slots, Good, MsgList
    <2>4. m[q].slots = mm[q].slots
      BY <1>1, <2>1, <2>2, <2>3
    <2>5. m[Dump].slots = mm[Dump].slots
      BY <2>2, <2>3
    <2>6. ASSUME NEW z \in Rooms, z # q, z # Dump
          PROVE  m[z].slots = mm[z].slots
      <3>1. m[z] = msg[z]
        BY <2>3, <2>6
      <3>2. mm[z] = t[z]
        BY <2>2, <2>6
      <3>3. t[z] = msg[z]
        BY <2>1, <2>6
      <3>4. QED
        BY <3>1, <3>2, <3>3
    <2>7. QED
      BY <2>4, <2>5, <2>6, Zenon
  <1>9. QED
    BY <1>7, <1>8 DEF PlacedOnce

\* A command keeps the invariant by what it makes of the lists.
LEMMA OnceKept ==
  ASSUME NEW m, msg' = m, NEW h, highest' = h, crashes' = crashes,
         commands' = commands, NoCopies => PlacedOnce(m, h)
  PROVE  OnceInv'
  BY DEF OnceInv, NoCopies, PlacedOnce

LEMMA PostOnce ==
  ASSUME IInv, OnceInv, NEW r \in rooms, Post(r) \/ PostRefused(r)
  PROVE  OnceInv'
  <1>1. Good(msg) /\ r \in Rooms /\ highest \in Nat
    BY DEF IInv
  <1>2. PICK g \in Nat : g = highest + 1 /\ highest <= g
    BY <1>1
  <1>3. PICK num \in {-1} \cup (Nat \ {0}) :
               /\ num = -1 \/ num = highest + 1
               /\ num <= g /\ msg' = PostTo(msg, r, num)
    <2>1. CASE Post(r)
      <3>1. g \in {-1} \cup (Nat \ {0}) /\ g <= g /\ msg' = PostTo(msg, r, g)
        BY <1>1, <1>2, <2>1 DEF Post
      <3>2. QED
        BY <1>2, <3>1
    <2>2. CASE PostRefused(r)
      <3>1. -1 <= g /\ msg' = PostTo(msg, r, -1)
        BY <1>2, <2>2 DEF PostRefused
      <3>2. QED
        BY <3>1
    <2>3. QED
      BY <2>1, <2>2
  <1>4. PICK m : m = PostTo(msg, r, num) /\ msg' = m
    BY <1>3
  <1>5. highest' = g /\ crashes' = crashes /\ commands' = commands
    BY <1>2 DEF Post, PostRefused, Served, Written, diskVars
  <1>6. NoCopies => PlacedOnce(m, g)
    BY <1>1, <1>2, <1>3, <1>4, PostToOnce DEF OnceInv
  <1>7. QED
    BY <1>4, <1>5, <1>6, OnceKept

LEMMA DeleteOnce ==
  ASSUME IInv, OnceInv, NEW r \in rooms, NEW num \in Nums(r), Delete(r, num)
  PROVE  OnceInv'
  <1>1. Good(msg) /\ r \in Rooms /\ highest \in Nat /\ num \in Held(msg[r].slots)
    BY DEF IInv, Nums, Slots, Held
  <1>2. PICK m : m = TakeOut(msg, r, num) /\ msg' = m
    BY DEF Delete
  <1>3. highest' = highest /\ crashes' = crashes /\ commands' = commands
    BY DEF Delete, Served, diskVars
  <1>4. NoCopies => PlacedOnce(m, highest)
    BY <1>1, <1>2, TakeOutOnce DEF OnceInv
  <1>5. QED
    BY <1>2, <1>3, <1>4, OnceKept

\* What a command with a notice makes of the lists and the numbers.
LEMMA NoticedOnce ==
  ASSUME IInv, NEW m, Good(m), NoCopies => PlacedOnce(m, highest),
         msg' = Told(m), Written(Notices), crashes' = crashes, commands' = commands
  PROVE  OnceInv'
  <1>1. PICK mm : mm = Told(m) /\ msg' = mm
    OBVIOUS
  <1>2. PICK g : g = highest + Notices /\ highest' = g
    BY DEF Written
  <1>3. NoCopies => PlacedOnce(mm, g)
    BY <1>1, <1>2, ToldOnce
  <1>4. QED
    BY <1>1, <1>2, <1>3, OnceKept

LEMMA DumpPostOnce ==
  ASSUME IInv, OnceInv, NEW r \in rooms, NEW num \in Nums(r), DumpPost(r, num)
  PROVE  OnceInv'
  <1>1. r # Dump /\ "DUMP" \in commands
    BY DEF DumpPost, Served
  <1>2. PICK m : m = ThrownOut(r, num) /\ Good(m)
    BY <1>1, ThrownOutGood
  <1>3. NoCopies => PlacedOnce(m, highest)
    BY <1>1, <1>2, ThrownOutOnce DEF OnceInv
  <1>4. /\ msg' = Told(m) /\ Written(Notices)
        /\ crashes' = crashes /\ commands' = commands
    BY <1>2 DEF DumpPost, Served, diskVars
  <1>5. QED
    BY <1>2, <1>3, <1>4, NoticedOnce

LEMMA UndeleteOnce ==
  ASSUME IInv, OnceInv, NEW n \in Nums(Dump), Undelete(n)
  PROVE  OnceInv'
  <1>1. /\ Good(msg) /\ rooms \subseteq Rooms /\ Dump \in Rooms /\ highest \in Nat
        /\ n \in Held(msg[Dump].slots)
    BY RoomsAssumption DEF IInv, Nums, Slots, Held
  <1>2. PICK k \in DOMAIN Slots(Dump) : k = SlotOf(Slots(Dump), n)
    BY <1>1, NumsFound DEF Slots
  <1>3. PICK dest \in Rooms : dest = dump[k]
    BY <1>1, <1>2 DEF Undelete
  <1>4. \E i \in DOMAIN msg[Dump].slots : msg[Dump].slots[i].num = n
    BY <1>1, NumsFound
  <1>5. PICK slot \in GoodSlot : /\ slot = [Slots(Dump)[k] EXCEPT !.home = NoRoom]
                                 /\ slot.num = n /\ slot.num # -1
    BY <1>1, <1>2, <1>4, NumsFound, FoundSlot DEF Slots
  <1>6. PICK mm : mm = PutIn(TakeOut(msg, Dump, n), dest, slot)
    OBVIOUS
  <1>7. slot.num = n
    BY <1>5
  <1>8. NoCopies => PlacedOnce(mm, highest)
    BY <1>1, <1>6, <1>7, TransferOnce DEF OnceInv
  <1>9. Good(mm)
    <2>1. PICK t : t = TakeOut(msg, Dump, n) /\ Good(t)
      BY <1>1, <1>4, TakeOutGood
    <2>2. QED
      BY <1>5, <1>6, <2>1, PutInGood
  <1>10. /\ msg' = Told(mm) /\ Written(Notices)
         /\ crashes' = crashes /\ commands' = commands
    BY <1>2, <1>3, <1>5, <1>6 DEF Undelete, Served, diskVars
  <1>11. QED
    BY <1>8, <1>9, <1>10, NoticedOnce

LEMMA MoveOnce ==
  ASSUME IInv, OnceInv, NEW q \in rooms, NEW dest \in rooms, NEW n \in Nums(q),
         Move(q, dest, n)
  PROVE  OnceInv'
  <1>1. /\ Good(msg) /\ q \in Rooms /\ dest \in Rooms /\ highest \in Nat
        /\ n \in Held(msg[q].slots)
    BY DEF IInv, Nums, Slots, Held
  <1>2. \E i \in DOMAIN msg[q].slots : msg[q].slots[i].num = n
    BY <1>1, NumsFound
  <1>3. PICK slot \in GoodSlot : /\ slot = Copied(q, n)
                                 /\ slot.num = n /\ slot.num # -1
    <2>1. NoRoom \in Rooms \cup {NoRoom}
      OBVIOUS
    <2>2. QED
      BY <1>1, <1>2, <2>1, NumsFound, FoundSlot DEF Copied, Slots
  <1>4. PICK mm : mm = PutIn(TakeOut(msg, q, n), dest, slot)
    OBVIOUS
  <1>5. slot.num = n
    BY <1>3
  <1>6. NoCopies => PlacedOnce(mm, highest)
    BY <1>1, <1>4, <1>5, TransferOnce DEF OnceInv
  <1>7. Good(mm)
    <2>1. PICK t : t = TakeOut(msg, q, n) /\ Good(t)
      BY <1>1, <1>2, TakeOutGood
    <2>2. QED
      BY <1>1, <1>3, <1>4, <2>1, PutInGood
  <1>8. crashes' = crashes /\ commands' = commands
    BY DEF Move, Served, diskVars
  <1>9. CASE msg' = Told(mm) /\ Written(Notices)
    BY <1>6, <1>7, <1>8, <1>9, NoticedOnce
  <1>10. CASE msg' = mm /\ Written(0)
    <2>1. highest' = highest
      BY <1>1, <1>10 DEF Written
    <2>2. QED
      BY <1>6, <1>8, <1>10, <2>1, OnceKept
  <1>11. QED
    BY <1>3, <1>4, <1>9, <1>10 DEF Move

LEMMA ResizeOnce ==
  ASSUME IInv, OnceInv, NEW r \in rooms, NEW n \in Lengths, Resize(r, n)
  PROVE  OnceInv'
  <1>1. Good(msg) /\ r \in Rooms /\ msg[r].slots \in Lists /\ highest \in Nat
    BY GoodFields DEF IInv
  <1>2. PICK m : /\ msg' = m
                 /\ \A z \in Rooms \ {r} : m[z] = msg[z]
                 /\ m[r].slots = Resized(msg[r].slots, n, Free)
    <2>1. PICK x : x = [slots |-> Resized(msg[r].slots, n, Free),
                        highloc |-> 0, highmsg |-> 0, dirty |-> TRUE]
      OBVIOUS
    <2>2. PICK m : m = [msg EXCEPT ![r] = x]
      OBVIOUS
    <2>3. msg' = m
      BY <2>1, <2>2 DEF Resize
    <2>4. /\ \A z \in Rooms \ {r} : m[z] = msg[z]
          /\ m[r] = x
      BY <1>1, <2>2 DEF Good
    <2>5. x.slots = Resized(msg[r].slots, n, Free)
      BY <2>1
    <2>6. QED
      BY <2>3, <2>4, <2>5
  <1>3. highest' = highest /\ crashes' = crashes /\ commands' = commands
    BY DEF Resize, Served, diskVars
  <1>4. ASSUME PlacedOnce(msg, highest)
        PROVE  PlacedOnce(m, highest)
    <2>1. Once(m[r].slots)
      BY <1>1, <1>2, <1>4, ResizedOnce DEF PlacedOnce
    <2>2. Held(m[r].slots) \subseteq Held(msg[r].slots)
      BY <1>1, <1>2, ResizedHeld
    <2>3. highest <= highest
      BY <1>1
    <2>4. QED
      BY <1>1, <1>2, <1>4, <2>1, <2>2, <2>3, ChangedOnce
  <1>5. QED
    BY <1>2, <1>3, <1>4, OnceKept DEF OnceInv

LEMMA SaveOnce ==
  ASSUME IInv, OnceInv, Save
  PROVE  OnceInv'
  <1>1. Good(msg) /\ \A r \in Rooms : msg[r] \in MsgList
    BY GoodFields DEF IInv
  <1>2. PICK m : /\ msg' = m
                 /\ m = [z \in Rooms |-> IF z \in rooms
                                         THEN [msg[z] EXCEPT !.dirty = FALSE]
                                         ELSE msg[z]]
    BY DEF Save
  <1>3. \A r \in Rooms : m[r].slots = msg[r].slots
    BY <1>1, <1>2 DEF MsgList
  <1>4. highest' = highest /\ crashes' = crashes /\ commands' = commands
    BY DEF Save
  <1>5. PlacedOnce(msg, highest) => PlacedOnce(m, highest)
    BY <1>3 DEF PlacedOnce
  <1>6. QED
    BY <1>2, <1>4, <1>5, OnceKept DEF OnceInv

LEMMA NextOnce == IInv /\ crashes \in Nat /\ OnceInv /\ [Next]_vars => OnceInv'
  <1> SUFFICES ASSUME IInv, crashes \in Nat, OnceInv, [Next]_vars PROVE OnceInv'
    OBVIOUS
  <1>1. Good(msg) /\ (OnceInv <=> (NoCopies => PlacedOnce(msg, highest)))
    BY DEF IInv, OnceInv
  <1>2. ASSUME NEW r \in rooms, Post(r) \/ PostRefused(r) \/ Rdel(r)
        PROVE  OnceInv'
    <2>1. CASE Rdel(r)
      <3>1. msg' = Told(msg) /\ Written(Notices)
            /\ crashes' = crashes /\ commands' = commands
        BY <2>1 DEF Rdel, Served, diskVars
      <3>2. QED
        BY <1>1, <3>1, NoticedOnce
    <2>2. QED
      BY <1>2, <2>1, PostOnce
  <1>3. ASSUME NEW r \in rooms, NEW num \in Nums(r),
               Delete(r, num) \/ DumpPost(r, num)
        PROVE  OnceInv'
    BY <1>3, DeleteOnce, DumpPostOnce
  <1>4. ASSUME NEW r \in rooms, NEW dest \in rooms, NEW num \in Nums(r),
               Move(r, dest, num) \/ Copy(r, dest, num)
        PROVE  OnceInv'
    <2>1. CASE Copy(r, dest, num)
      BY <2>1 DEF Copy, Served, OnceInv, NoCopies
    <2>2. QED
      BY <1>4, <2>1, MoveOnce
  <1>5. ASSUME NEW num \in Nums(Dump), Undelete(num)
        PROVE  OnceInv'
    BY <1>5, UndeleteOnce
  <1>6. ASSUME NEW r \in rooms, NEW n \in Lengths, Resize(r, n)
        PROVE  OnceInv'
    BY <1>6, ResizeOnce
  <1>7. CASE Save
    BY <1>7, SaveOnce
  <1>8. CASE CrashRestart
    BY <1>8 DEF CrashRestart, OnceInv, NoCopies
  <1>9. CASE UNCHANGED vars
    BY <1>9 DEF vars, diskVars, OnceInv, NoCopies, PlacedOnce
  <1>10. QED
    BY <1>2, <1>3, <1>4, <1>5, <1>6, <1>7, <1>8, <1>9 DEF Next

LEMMA InitOnce == Init => OnceInv
  <1> SUFFICES ASSUME Init PROVE PlacedOnce(msg, highest)
    BY DEF OnceInv
  <1>1. PICK size \in [Rooms -> Lengths] :
               msg = [r \in Rooms |-> [slots |-> Empty(size[r]), highloc |-> 0,
                                      highmsg |-> 0, dirty |-> FALSE]]
    BY DEF Init
  <1>2. ASSUME NEW r \in Rooms
        PROVE  msg[r].slots = Empty(size[r])
    <2>1. msg[r] = [slots |-> Empty(size[r]), highloc |-> 0,
                    highmsg |-> 0, dirty |-> FALSE]
      BY <1>1, Zenon
    <2>2. QED
      BY <2>1
  <1>3. ASSUME NEW r \in Rooms
        PROVE  Once(msg[r].slots) /\ Held(msg[r].slots) = {}
    <2>1. \A i \in DOMAIN msg[r].slots : msg[r].slots[i] = Free
      BY <1>2 DEF Empty
    <2>2. \A i \in DOMAIN msg[r].slots : msg[r].slots[i].num = -1
      BY <2>1, FreeSlot
    <2>3. QED
      BY <2>2 DEF Once, Held
  <1>4. QED
    BY <1>3 DEF PlacedOnce

\* However posts are thrown out, taken back and moved, and lists made longer or
\* shorter, a post that nobody copied stands in one slot of one room (or in none).
THEOREM PostsInOnePlace == Spec => []OnePlace
  <1>1. IInv /\ OnceInv => OnePlace
    <2> SUFFICES ASSUME IInv, OnceInv, NoCopies,
                        NEW r \in rooms, NEW q \in rooms,
                        NEW i \in DOMAIN Slots(r), NEW j \in DOMAIN Slots(q),
                        Slots(r)[i].num = Slots(q)[j].num, Slots(r)[i].num > 0
                 PROVE  r = q /\ i = j
      BY DEF OnePlace, NoCopies
    <2>1. PlacedOnce(msg, highest) /\ r \in Rooms /\ q \in Rooms
      BY DEF OnceInv, IInv
    <2>2. Slots(r)[i].num # -1
      OBVIOUS
    <2>3. r = q
      BY <2>1, <2>2 DEF PlacedOnce, Held, Slots
    <2>4. QED
      BY <2>1, <2>2, <2>3 DEF PlacedOnce, Once, Slots
  <1>2. Spec => []OnceInv
    BY InitOnce, NextOnce, ListsInvariant, CrashesCounted, PTL DEF Spec
  <1>3. QED
    BY <1>1, <1>2, ListsInvariant, PTL

-----------------------------------------------------------------------------
(***************************************************************************)
(* dump_undelete runs beside the slots of the Cestino.                     *)
(***************************************************************************)
\* Beside each post in s stands in d the room it was thrown out of; no post was
\* thrown out of the Cestino.
HomesRight(s, d) ==
  \A i \in DOMAIN s : d[i] # Dump /\ (s[i].home # NoRoom => d[i] = s[i].home)

\* Commands that bring posts to the Cestino by msg_dump alone, before any restart.
OnlyDumped == {"MOVE_TO_DUMP", "COPY_TO_DUMP"} \cap commands = {} /\ crashes = 0

HomesInv == OnlyDumped => HomesRight(msg[Dump].slots, dump)

\* dump_undelete as cmd_mdel leaves it when the post in slot k goes back.
Undumped(d, k) == [i \in DOMAIN d |-> IF 1 < i /\ i <= k THEN d[i - 1] ELSE d[i]]

\* dump_undelete as msg_dump leaves it when a post is pushed in at p.
Pushed(d, p, home) == [i \in DOMAIN d |-> IF i < p THEN d[i + 1]
                                         ELSE IF i = p THEN home
                                         ELSE d[i]]

LEMMA DumpedHomes ==
  ASSUME NEW s \in Lists, NEW slot \in GoodSlot, slot.home # Dump,
         slot.home # NoRoom, NEW d, DOMAIN d = DOMAIN s, HomesRight(s, d),
         NEW p, p = Place(s, slot.num),
         NEW dd, dd = Pushed(d, p, slot.home)
  PROVE  HomesRight(Inserted(s, slot), dd)
  <1>1. PICK n \in Nat \ {0, 1} : n = Len(s) /\ DOMAIN s = 1 .. n
    BY ListProps
  <1>2. slot.num \in Int
    BY DEF GoodSlot
  <1>3. p \in 2 .. n
    BY <1>1, <1>2, PlaceIn
  <1>4. PICK t : t = Inserted(s, slot)
    OBVIOUS
  <1>5. t = [i \in 1 .. n |-> IF i < p THEN s[i + 1]
                              ELSE IF i = p THEN slot
                              ELSE s[i]]
    BY <1>1, <1>3, <1>4 DEF Inserted
  <1>6. /\ DOMAIN t = 1 .. n
        /\ dd = [i \in 1 .. n |-> IF i < p THEN d[i + 1]
                                 ELSE IF i = p THEN slot.home
                                 ELSE d[i]]
    BY <1>1, <1>5 DEF Pushed
  <1>7. ASSUME NEW i \in 1 .. n
        PROVE  dd[i] # Dump /\ (t[i].home # NoRoom => dd[i] = t[i].home)
    <2>1. CASE i < p
      <3>1. i + 1 \in 1 .. n
        BY <1>1, <1>3, <2>1
      <3>2. t[i] = s[i + 1] /\ dd[i] = d[i + 1]
        BY <1>5, <1>6, <2>1
      <3>3. QED
        BY <1>1, <3>1, <3>2 DEF HomesRight
    <2>2. CASE i = p
      BY <1>5, <1>6, <2>2
    <2>3. CASE i > p
      <3>1. t[i] = s[i] /\ dd[i] = d[i]
        BY <1>1, <1>3, <1>5, <1>6, <2>3
      <3>2. QED
        BY <1>1, <3>1 DEF HomesRight
    <2>4. QED
      BY <1>1, <1>3, <2>1, <2>2, <2>3
  <1>8. QED
    BY <1>4, <1>6, <1>7 DEF HomesRight

LEMMA UndumpedHomes ==
  ASSUME NEW s \in Lists, NEW k \in DOMAIN s, NEW d, DOMAIN d = DOMAIN s,
         HomesRight(s, d)
  PROVE  HomesRight(Without(s, k), Undumped(d, k))
  <1>1. PICK n \in Nat \ {0, 1} : n = Len(s) /\ DOMAIN s = 1 .. n
    BY ListProps
  <1>2. PICK t : t = Without(s, k)
    OBVIOUS
  <1>3. PICK dd : dd = Undumped(d, k)
    OBVIOUS
  <1>4. ASSUME NEW i \in 1 .. n
        PROVE  dd[i] # Dump /\ (t[i].home # NoRoom => dd[i] = t[i].home)
    <2>1. CASE i = 1
      <3>1. t[i].home = NoRoom /\ dd[i] = d[i]
        BY <1>1, <1>2, <1>3, <2>1 DEF Without, Undumped, Free
      <3>2. QED
        BY <1>1, <3>1 DEF HomesRight
    <2>2. CASE 1 < i /\ i <= k
      <3>1. i - 1 \in 1 .. n /\ i # 1
        BY <1>1, <2>2
      <3>2. t[i] = s[i - 1] /\ dd[i] = d[i - 1]
        BY <1>1, <1>2, <1>3, <2>2, <3>1 DEF Without, Undumped
      <3>3. QED
        BY <1>1, <3>1, <3>2 DEF HomesRight
    <2>3. CASE i # 1 /\ ~ (i <= k)
      <3>1. t[i] = s[i] /\ dd[i] = d[i]
        BY <1>1, <1>2, <1>3, <2>3 DEF Without, Undumped
      <3>2. QED
        BY <1>1, <3>1 DEF HomesRight
    <2>4. QED
      BY <1>1, <2>1, <2>2, <2>3
  <1>5. DOMAIN t = 1 .. n
    BY <1>1, <1>2 DEF Without
  <1>6. QED
    BY <1>2, <1>3, <1>4, <1>5 DEF HomesRight

LEMMA ResizedHomes ==
  ASSUME NEW s \in Lists, NEW n \in Lengths, NEW d, DOMAIN d = DOMAIN s,
         Len(d) = Len(s), HomesRight(s, d)
  PROVE  HomesRight(Resized(s, n, Free), Resized(d, n, NoRoom))
  <1>1. PICK l \in Nat \ {0, 1} : l = Len(s) /\ DOMAIN s = 1 .. l
    BY ListProps
  <1>2. n \in Nat /\ NoRoom # Dump
    BY LengthsAssumption, RoomsAssumption
  <1>3. PICK t : t = Resized(s, n, Free)
    OBVIOUS
  <1>4. PICK dd : dd = Resized(d, n, NoRoom)
    OBVIOUS
  <1>5. ASSUME NEW i \in 1 .. n
        PROVE  dd[i] # Dump /\ (t[i].home # NoRoom => dd[i] = t[i].home)
    <2>1. CASE i + l - n >= 1
      <3>1. i + l - n \in 1 .. l
        BY <1>1, <1>2, <2>1
      <3>2. t[i] = s[i + l - n] /\ dd[i] = d[i + l - n]
        BY <1>1, <1>3, <1>4, <2>1 DEF Resized
      <3>3. QED
        BY <1>1, <3>1, <3>2 DEF HomesRight
    <2>2. CASE ~ (i + l - n >= 1)
      <3>1. t[i] = Free /\ dd[i] = NoRoom
        BY <1>1, <1>3, <1>4, <2>2 DEF Resized
      <3>2. QED
        BY <1>2, <3>1 DEF Free
    <2>3. QED
      BY <2>1, <2>2
  <1>6. DOMAIN t = 1 .. n
    BY <1>3 DEF Resized
  <1>7. QED
    BY <1>3, <1>4, <1>5, <1>6 DEF HomesRight

\* msg_dump, with the names of what it moves.
LEMMA ThrownOutFields ==
  ASSUME IInv, NEW q \in rooms, NEW n \in Nums(q), q # Dump,
         NEW m, m = ThrownOut(q, n)
  PROVE  /\ \A r \in Rooms \ {q, Dump} : m[r] = msg[r]
         /\ \A r \in Rooms : m[r].highloc = msg[r].highloc
         /\ \E k \in DOMAIN msg[q].slots, slot \in GoodSlot :
              /\ msg[q].slots[k].num = n
              /\ slot.num = n /\ slot.home = q
              /\ slot.local = msg[q].slots[k].local
              /\ m[q].slots = Without(msg[q].slots, k)
              /\ m[Dump].slots = Inserted(msg[Dump].slots, slot)
  <1>1. Good(msg) /\ q \in Rooms /\ Dump \in Rooms
    BY RoomsAssumption DEF IInv
  <1>2. msg[q].slots \in Lists /\ msg[Dump].slots \in Lists
        /\ msg[q] \in MsgList /\ msg[Dump] \in MsgList
    BY <1>1, GoodFields
  <1>3. PICK k \in DOMAIN msg[q].slots : /\ k = SlotOf(msg[q].slots, n)
                                         /\ msg[q].slots[k].num = n
    <2>1. \E i \in DOMAIN msg[q].slots : msg[q].slots[i].num = n
      BY <1>1, NumsFound
    <2>2. QED
      BY <1>2, <2>1, SlotOfIn
  <1>4. PICK slot : slot = [msg[q].slots[k] EXCEPT !.home = q]
    OBVIOUS
  <1>5. /\ slot \in GoodSlot /\ slot.num = n /\ slot.home = q
        /\ slot.local = msg[q].slots[k].local
    <2>1. msg[q].slots[k] \in GoodSlot
      BY <1>2, ListProps
    <2>2. QED
      BY <1>1, <1>3, <1>4, <2>1 DEF GoodSlot
  <1>6. /\ m[q].slots = Without(msg[q].slots, k)
        /\ m[Dump].slots = Inserted(msg[Dump].slots, slot)
        /\ \A r \in Rooms \ {q, Dump} : m[r] = msg[r]
        /\ \A r \in Rooms : m[r].highloc = msg[r].highloc
    BY <1>1, <1>2, <1>3, <1>4 DEF ThrownOut, Slots, Good, MsgList
  <1>7. QED
    BY <1>3, <1>5, <1>6

\* The notice is not posted in the Cestino.
LEMMA ToldDump ==
  ASSUME IInv, NEW m, Good(m), NEW mm, mm = Told(m)
  PROVE  mm[Dump] = m[Dump]
  <1>1. rooms \subseteq Rooms /\ highest \in Nat
    BY DEF IInv
  <1>2. CASE Aide \in rooms
    <2>1. PICK num \in Nat \ {0} : num = highest + 1
      BY <1>1
    <2>2. mm = PostTo(m, Aide, num) /\ Aide \in Rooms /\ Aide # Dump
      BY <1>1, <1>2, <2>1, RoomsAssumption DEF Told
    <2>3. \A q \in Rooms \ {Aide} : mm[q] = m[q]
      BY <2>2, PostToFields
    <2>4. QED
      BY <2>2, <2>3, RoomsAssumption
  <1>3. CASE Aide \notin rooms
    BY <1>3 DEF Told
  <1>4. QED
    BY <1>2, <1>3

\* msg_undelete, with the names of what it moves.
LEMMA UndeleteFields ==
  ASSUME IInv, NEW n \in Nums(Dump), Undelete(n)
  PROVE  \E mm : \E k \in DOMAIN msg[Dump].slots, dest \in rooms, slot \in GoodSlot :
            /\ dest = dump[k] /\ k = SlotOf(msg[Dump].slots, n)
            /\ msg[Dump].slots[k].num = n
            /\ slot.num = n /\ slot.local = msg[Dump].slots[k].local
            /\ Good(mm) /\ msg' = Told(mm)
            /\ dump' = Undumped(dump, k)
            /\ \A r \in Rooms : mm[r].highloc = msg[r].highloc
            /\ dest # Dump =>
                 /\ \A r \in Rooms \ {Dump, dest} : mm[r] = msg[r]
                 /\ mm[Dump].slots = Without(msg[Dump].slots, k)
                 /\ mm[dest].slots = Inserted(msg[dest].slots, slot)
  <1>1. Good(msg) /\ Dump \in Rooms /\ rooms \subseteq Rooms
    BY RoomsAssumption DEF IInv
  <1>2. /\ msg[Dump].slots \in Lists
        /\ \E i \in DOMAIN msg[Dump].slots : msg[Dump].slots[i].num = n
    BY <1>1, GoodFields, NumsFound
  <1>3. PICK k \in DOMAIN msg[Dump].slots : /\ k = SlotOf(msg[Dump].slots, n)
                                            /\ msg[Dump].slots[k].num = n
    BY <1>2, SlotOfIn
  <1>4. PICK dest \in rooms : dest = dump[k]
    BY <1>3 DEF Undelete, Slots
  <1>5. PICK slot : slot = [msg[Dump].slots[k] EXCEPT !.home = NoRoom]
    OBVIOUS
  <1>6. /\ slot \in GoodSlot /\ slot.num = n
        /\ slot.local = msg[Dump].slots[k].local
    <2>1. msg[Dump].slots[k] \in GoodSlot
      BY <1>2, ListProps
    <2>2. QED
      BY <1>3, <1>5, <2>1 DEF GoodSlot
  <1>7. PICK t : t = TakeOut(msg, Dump, n) /\ Good(t)
    BY <1>1, <1>2, TakeOutGood
  <1>8. PICK mm : mm = PutIn(t, dest, slot)
    OBVIOUS
  <1>9. Good(mm)
    <2>1. dest \in Rooms /\ slot.num # -1
      BY <1>1, <1>6, NumsFound
    <2>2. QED
      BY <1>6, <1>7, <1>8, <2>1, PutInGood
  <1>10. msg' = Told(mm) /\ dump' = Undumped(dump, k)
    BY <1>3, <1>4, <1>5, <1>7, <1>8 DEF Undelete, Slots, Undumped
  <1>11. /\ \A r \in Rooms \ {Dump} : t[r] = msg[r]
         /\ \A r \in Rooms : t[r].highloc = msg[r].highloc
         /\ t[Dump].slots = Without(msg[Dump].slots, k)
    <2>1. msg[Dump] \in MsgList
      BY <1>1, GoodFields
    <2>2. QED
      BY <1>1, <1>3, <1>7, <2>1 DEF TakeOut, Good, MsgList
  <1>12. /\ \A r \in Rooms \ {dest} : mm[r] = t[r]
         /\ \A r \in Rooms : mm[r].highloc = t[r].highloc
         /\ mm[dest].slots = Inserted(t[dest].slots, slot)
    <2>1. t[dest] \in MsgList /\ dest \in Rooms
      BY <1>1, <1>7, GoodFields
    <2>2. QED
      BY <1>7, <1>8, <2>1 DEF PutIn, Good, MsgList
  <1>13. ASSUME NEW r \in Rooms
         PROVE  mm[r].highloc = msg[r].highloc
    <2>1. t[r].highloc = msg[r].highloc
      BY <1>11
    <2>2. mm[r].highloc = t[r].highloc
      BY <1>12
    <2>3. QED
      BY <2>1, <2>2
  <1>14. ASSUME dest # Dump
         PROVE  /\ \A r \in Rooms \ {Dump, dest} : mm[r] = msg[r]
                /\ mm[Dump].slots = Without(msg[Dump].slots, k)
                /\ mm[dest].slots = Inserted(msg[dest].slots, slot)
    BY <1>1, <1>11, <1>12, <1>14
  <1>15. QED
    BY <1>3, <1>4, <1>6, <1>9, <1>10, <1>13, <1>14

\* A command keeps the homes right by what it makes of the Cestino.
LEMMA HomesKept ==
  ASSUME commands' = commands, crashes' = crashes,
         NEW s, msg'[Dump].slots = s, NEW dd, dump' = dd,
         OnlyDumped => HomesRight(s, dd)
  PROVE  HomesInv'
  BY DEF HomesInv, OnlyDumped, HomesRight

\* Commands that leave the Cestino alone.
LEMMA DumpLeft ==
  ASSUME commands' = commands, crashes' = crashes, dump' = dump, HomesInv,
         msg'[Dump].slots = msg[Dump].slots
  PROVE  HomesInv'
  BY DEF HomesInv, OnlyDumped, HomesRight

LEMMA DumpPostHomes ==
  ASSUME IInv, HomesInv, NEW r \in rooms, NEW num \in Nums(r), DumpPost(r, num)
  PROVE  HomesInv'
  <1>1. /\ r # Dump /\ r \in Rooms /\ Dump \in Rooms /\ NoRoom \notin Rooms
        /\ msg[Dump].slots \in Lists
    BY RoomsAssumption, GoodFields DEF IInv, DumpPost
  <1>2. PICK m : m = ThrownOut(r, num) /\ Good(m)
    BY <1>1, ThrownOutGood DEF DumpPost, Served
  <1>3. PICK slot \in GoodSlot :
               /\ slot.num = num /\ slot.home = r
               /\ m[Dump].slots = Inserted(msg[Dump].slots, slot)
    BY <1>1, <1>2, ThrownOutFields
  <1>4. PICK s : s = msg[Dump].slots /\ s \in Lists
    BY <1>1
  <1>5. PICK p : p = Place(s, slot.num)
    OBVIOUS
  <1>6. PICK dd : dd = Pushed(dump, p, slot.home)
    OBVIOUS
  <1>7. dump' = dd
    BY <1>3, <1>4, <1>5, <1>6 DEF DumpPost, Dumped, Slots, Pushed
  <1>8. PICK t : t = Inserted(s, slot)
    OBVIOUS
  <1>9. msg'[Dump].slots = t
    <2>1. PICK mm : mm = Told(m) /\ msg' = mm
      BY <1>2 DEF DumpPost
    <2>2. mm[Dump] = m[Dump]
      BY <1>2, <2>1, ToldDump
    <2>3. QED
      BY <1>3, <1>4, <1>8, <2>1, <2>2
  <1>10. ASSUME OnlyDumped
         PROVE  HomesRight(t, dd)
    <2>1. DOMAIN dump = DOMAIN s
      BY <1>4 DEF IInv, Homes, Slots
    <2>2. HomesRight(s, dump)
      BY <1>4, <1>10 DEF HomesInv
    <2>3. slot.home # Dump /\ slot.home # NoRoom
      BY <1>1, <1>3
    <2>4. QED
      BY <1>4, <1>5, <1>6, <1>8, <2>1, <2>2, <2>3, DumpedHomes
  <1>11. commands' = commands /\ crashes' = crashes
    BY DEF DumpPost, Served, diskVars
  <1>12. QED
    BY <1>7, <1>9, <1>10, <1>11, HomesKept

LEMMA UndeleteHomes ==
  ASSUME IInv, HomesInv, NEW n \in Nums(Dump), Undelete(n)
  PROVE  HomesInv'
  <1>1. PICK mm : \E k \in DOMAIN msg[Dump].slots, dest \in rooms :
               /\ dest = dump[k]
               /\ Good(mm) /\ msg' = Told(mm)
               /\ dump' = Undumped(dump, k)
               /\ dest # Dump => mm[Dump].slots = Without(msg[Dump].slots, k)
    BY UndeleteFields
  <1>2. PICK k \in DOMAIN msg[Dump].slots, dest \in rooms :
               /\ dest = dump[k]
               /\ Good(mm) /\ msg' = Told(mm)
               /\ dump' = Undumped(dump, k)
               /\ dest # Dump => mm[Dump].slots = Without(msg[Dump].slots, k)
    BY <1>1
  <1>3. PICK s : s = msg[Dump].slots /\ s \in Lists
    BY RoomsAssumption, GoodFields DEF IInv
  <1>4. PICK dd : dd = Undumped(dump, k)
    OBVIOUS
  <1>5. PICK t : t = Without(s, k)
    OBVIOUS
  <1>6. commands' = commands /\ crashes' = crashes
    BY DEF Undelete, Served, diskVars
  <1>7. CASE OnlyDumped
    <2>1. HomesRight(s, dump)
      BY <1>3, <1>7 DEF HomesInv
    <2>2. k \in DOMAIN s /\ dest # Dump
      BY <1>2, <1>3, <2>1 DEF HomesRight
    <2>3. msg'[Dump].slots = t
      <3>1. PICK m : m = Told(mm)
        OBVIOUS
      <3>2. m[Dump] = mm[Dump]
        BY <1>2, <3>1, ToldDump
      <3>3. QED
        BY <1>2, <1>3, <1>5, <2>2, <3>1, <3>2
    <2>4. DOMAIN dump = DOMAIN s
      BY <1>3 DEF IInv, Homes, Slots
    <2>5. HomesRight(t, dd)
      BY <1>3, <1>4, <1>5, <2>1, <2>2, <2>4, UndumpedHomes
    <2>6. dump' = dd
      BY <1>2, <1>4
    <2>7. QED
      BY <1>6, <2>3, <2>5, <2>6, HomesKept
  <1>8. CASE ~OnlyDumped
    BY <1>6, <1>8 DEF HomesInv, OnlyDumped
  <1>9. QED
    BY <1>7, <1>8

\* The Cestino is neither source nor, without MOVE_TO_DUMP, destination.
LEMMA MoveHomes ==
  ASSUME IInv, HomesInv, NEW q \in rooms, NEW dest \in rooms, NEW n \in Nums(q),
         Move(q, dest, n)
  PROVE  HomesInv'
  <1>1. /\ Good(msg) /\ q \in Rooms /\ dest \in Rooms /\ Dump \in Rooms
        /\ \E i \in DOMAIN msg[q].slots : msg[q].slots[i].num = n
    BY RoomsAssumption, NumsFound DEF IInv
  <1>2. PICK slot \in GoodSlot : slot = Copied(q, n) /\ slot.num # -1
    <2>1. n # -1
      BY <1>1, NumsFound
    <2>2. NoRoom \in Rooms \cup {NoRoom}
      OBVIOUS
    <2>3. QED
      BY <1>1, <2>1, <2>2, FoundSlot DEF Copied, Slots
  <1>3. PICK t : t = TakeOut(msg, q, n) /\ Good(t)
    BY <1>1, TakeOutGood
  <1>4. PICK mm : mm = PutIn(t, dest, slot) /\ Good(mm)
    BY <1>1, <1>2, <1>3, PutInGood
  <1>5. commands' = commands /\ crashes' = crashes /\ dump' = dump
    BY DEF Move, Served, diskVars
  <1>6. CASE dest = Dump
    BY <1>5, <1>6 DEF HomesInv, OnlyDumped, Move, Served
  <1>7. CASE dest # Dump
    <2>1. t[Dump] = msg[Dump]
      BY <1>1, <1>3 DEF TakeOut, Good, Move
    <2>2. mm[Dump] = t[Dump]
      BY <1>1, <1>3, <1>4, <1>7 DEF PutIn, Good
    <2>3. PICK m : m = Told(mm)
      OBVIOUS
    <2>4. m[Dump] = mm[Dump]
      BY <1>4, <2>3, ToldDump
    <2>5. msg' = mm \/ msg' = m
      BY <1>2, <1>3, <1>4, <2>3 DEF Move
    <2>6. msg'[Dump].slots = msg[Dump].slots
      BY <2>1, <2>2, <2>4, <2>5
    <2>7. QED
      BY <1>5, <2>6, DumpLeft
  <1>8. QED
    BY <1>6, <1>7

LEMMA CopyHomes ==
  ASSUME IInv, HomesInv, NEW q \in rooms, NEW dest \in rooms, NEW n \in Nums(q),
         Copy(q, dest, n)
  PROVE  HomesInv'
  <1>1. Good(msg) /\ dest \in Rooms /\ Dump \in Rooms
    BY RoomsAssumption DEF IInv
  <1>2. commands' = commands /\ crashes' = crashes /\ dump' = dump
    BY DEF Copy, Served, diskVars
  <1>3. CASE dest = Dump
    BY <1>2, <1>3 DEF HomesInv, OnlyDumped, Copy, Served
  <1>4. CASE dest # Dump
    <2>1. PICK slot : slot = Copied(q, n)
      OBVIOUS
    <2>2. PICK mm : mm = PutIn(msg, dest, slot) /\ msg' = mm
      BY <2>1 DEF Copy
    <2>3. mm[Dump] = msg[Dump]
      BY <1>1, <1>4, <2>2 DEF PutIn, Good
    <2>4. QED
      BY <1>2, <2>2, <2>3, DumpLeft
  <1>5. QED
    BY <1>3, <1>4

LEMMA ResizeHomes ==
  ASSUME IInv, HomesInv, NEW r \in rooms, NEW n \in Lengths, Resize(r, n)
  PROVE  HomesInv'
  <1>1. /\ Good(msg) /\ r \in Rooms /\ Dump \in Rooms
        /\ msg[Dump].slots \in Lists
    BY RoomsAssumption, GoodFields DEF IInv
  <1>2. PICK x : x = [slots |-> Resized(msg[r].slots, n, Free),
                      highloc |-> 0, highmsg |-> 0, dirty |-> TRUE]
    OBVIOUS
  <1>3. PICK m : m = [msg EXCEPT ![r] = x] /\ msg' = m
    BY <1>2 DEF Resize
  <1>4. m[r] = x /\ \A z \in Rooms \ {r} : m[z] = msg[z]
    BY <1>1, <1>3 DEF Good
  <1>5. commands' = commands /\ crashes' = crashes
    BY DEF Resize, Served, diskVars
  <1>6. CASE r = Dump
    <2>1. PICK s : s = msg[Dump].slots /\ s \in Lists
      BY <1>1
    <2>2. PICK t : t = Resized(s, n, Free)
      OBVIOUS
    <2>3. PICK dd : dd = Resized(dump, n, NoRoom)
      OBVIOUS
    <2>4. msg'[Dump].slots = t /\ dump' = dd
      BY <1>2, <1>3, <1>4, <1>6, <2>1, <2>2, <2>3 DEF Resize
    <2>5. DOMAIN dump = DOMAIN s /\ Len(dump) = Len(s)
      BY <2>1, DumpProps DEF Slots
    <2>6. ASSUME OnlyDumped
          PROVE  HomesRight(t, dd)
      <3>1. HomesRight(s, dump)
        BY <2>1, <2>6 DEF HomesInv
      <3>2. QED
        BY <2>1, <2>2, <2>3, <2>5, <3>1, ResizedHomes
    <2>7. QED
      BY <1>5, <2>4, <2>6, HomesKept
  <1>7. CASE r # Dump
    <2>1. msg'[Dump].slots = msg[Dump].slots /\ dump' = dump
      BY <1>1, <1>3, <1>4, <1>7 DEF Resize
    <2>2. QED
      BY <1>5, <2>1, DumpLeft
  <1>8. QED
    BY <1>6, <1>7

LEMMA NextHomes ==
  IInv /\ crashes \in Nat /\ HomesInv /\ [Next]_vars => HomesInv'
  <1> SUFFICES ASSUME IInv, crashes \in Nat, HomesInv, [Next]_vars PROVE HomesInv'
    OBVIOUS
  <1>1. Good(msg) /\ rooms \subseteq Rooms /\ highest \in Nat /\ Dump \in Rooms
    BY RoomsAssumption DEF IInv
  <1>2. ASSUME NEW r \in rooms, Post(r) \/ PostRefused(r)
        PROVE  HomesInv'
    <2>1. PICK num \in {-1} \cup (Nat \ {0}) : msg' = PostTo(msg, r, num)
      <3>1. highest + 1 \in Nat \ {0}
        BY <1>1
      <3>2. msg' = PostTo(msg, r, highest + 1) \/ msg' = PostTo(msg, r, -1)
        BY <1>2 DEF Post, PostRefused
      <3>3. QED
        BY <3>1, <3>2
    <2>2. /\ commands' = commands /\ crashes' = crashes /\ dump' = dump
          /\ r # Dump /\ r \in Rooms
      BY <1>1, <1>2 DEF Post, PostRefused, Served, diskVars
    <2>3. PICK mm : mm = PostTo(msg, r, num) /\ msg' = mm
      BY <2>1
    <2>4. \A q \in Rooms \ {r} : mm[q] = msg[q]
      BY <1>1, <2>2, <2>3, PostToFields
    <2>5. msg'[Dump].slots = msg[Dump].slots
      BY <1>1, <2>2, <2>3, <2>4
    <2>6. QED
      BY <2>2, <2>5, DumpLeft
  <1>3. ASSUME NEW r \in rooms, Rdel(r)
        PROVE  HomesInv'
    <2>1. /\ commands' = commands /\ crashes' = crashes /\ dump' = dump
          /\ msg' = Told(msg)
      BY <1>3 DEF Rdel, Served, diskVars
    <2>2. PICK mm : mm = Told(msg)
      OBVIOUS
    <2>3. mm[Dump] = msg[Dump]
      BY <1>1, <2>2, ToldDump
    <2>4. QED
      BY <2>1, <2>2, <2>3, DumpLeft
  <1>4. ASSUME NEW r \in rooms, NEW num \in Nums(r), Delete(r, num)
        PROVE  HomesInv'
    <2>1. /\ commands' = commands /\ crashes' = crashes /\ dump' = dump
          /\ r # Dump /\ msg' = TakeOut(msg, r, num)
      BY <1>4 DEF Delete, Served, diskVars
    <2>2. msg'[Dump].slots = msg[Dump].slots
      BY <1>1, <2>1 DEF TakeOut, Good
    <2>3. QED
      BY <2>1, <2>2, DumpLeft
  <1>5. ASSUME NEW r \in rooms, NEW num \in Nums(r), DumpPost(r, num)
        PROVE  HomesInv'
    BY <1>5, DumpPostHomes
  <1>6. ASSUME NEW r \in rooms, NEW dest \in rooms, NEW num \in Nums(r),
               Move(r, dest, num) \/ Copy(r, dest, num)
        PROVE  HomesInv'
    BY <1>6, MoveHomes, CopyHomes
  <1>7. ASSUME NEW num \in Nums(Dump), Undelete(num)
        PROVE  HomesInv'
    BY <1>7, UndeleteHomes
  <1>8. ASSUME NEW r \in rooms, NEW n \in Lengths, Resize(r, n)
        PROVE  HomesInv'
    BY <1>8, ResizeHomes
  <1>9. CASE Save
    <2>1. msg[Dump] \in MsgList
      BY <1>1, GoodFields
    <2>2. msg'[Dump].slots = msg[Dump].slots
      BY <1>1, <1>9, <2>1 DEF Save, MsgList
    <2>3. commands' = commands /\ crashes' = crashes /\ dump' = dump
      BY <1>9 DEF Save
    <2>4. QED
      BY <2>2, <2>3, DumpLeft
  <1>10. CASE CrashRestart
    BY <1>10 DEF CrashRestart, HomesInv, OnlyDumped
  <1>11. CASE UNCHANGED vars
    <2>1. commands' = commands /\ crashes' = crashes /\ dump' = dump /\ msg' = msg
      BY <1>11 DEF vars, diskVars
    <2>2. QED
      BY <2>1, DumpLeft
  <1>12. QED
    BY <1>2, <1>3, <1>4, <1>5, <1>6, <1>7, <1>8, <1>9, <1>10, <1>11 DEF Next

\* The Cestino is empty at first.
LEMMA InitHomes == Init => HomesInv
  <1> SUFFICES ASSUME Init PROVE HomesRight(msg[Dump].slots, dump)
    BY DEF HomesInv
  <1>1. PICK size \in [Rooms -> Lengths] :
               /\ msg = [r \in Rooms |-> [slots |-> Empty(size[r]), highloc |-> 0,
                                         highmsg |-> 0, dirty |-> FALSE]]
               /\ dump = [i \in 1 .. size[Dump] |-> NoRoom]
    BY DEF Init
  <1>2. msg[Dump].slots = Empty(size[Dump])
    <2>1. msg[Dump] = [slots |-> Empty(size[Dump]), highloc |-> 0,
                       highmsg |-> 0, dirty |-> FALSE]
      BY <1>1, RoomsAssumption, Zenon
    <2>2. QED
      BY <2>1
  <1>3. PICK n : n = size[Dump]
    OBVIOUS
  <1>4. msg[Dump].slots = [i \in 1 .. n |-> Free] /\ dump = [i \in 1 .. n |-> NoRoom]
    BY <1>1, <1>2, <1>3 DEF Empty
  <1>5. QED
    BY <1>4, RoomsAssumption DEF HomesRight, Free

\* Between restarts, as long as nothing but msg_dump brings posts to the Cestino,
\* dump_undelete holds the room that each post was thrown out of, whatever else is
\* thrown out, taken back, made longer or shorter in between.
THEOREM HomesKnown == Spec => []HomeKnownOfDumped
  <1>1. HomesInv => HomeKnownOfDumped
    BY DEF HomesInv, OnlyDumped, HomesRight, HomeKnownOfDumped, HomeKnown, Slots
  <1>2. Spec => []HomesInv
    BY InitHomes, NextHomes, ListsInvariant, CrashesCounted, PTL DEF Spec
  <1>3. QED
    BY <1>1, <1>2, PTL

-----------------------------------------------------------------------------
(***************************************************************************)
(* Local numbers.                                                          *)
(***************************************************************************)
\* The room whose local number a post bears: its own, or that beside it in
\* dump_undelete, d.
Origin(d, r, i) == IF r = Dump THEN d[i] ELSE r

\* Post n stands somewhere under local number l of room h.
HasName(m, d, h, l, n) ==
  \E r \in Rooms : \E i \in DOMAIN m[r].slots :
     /\ Origin(d, r, i) = h
     /\ m[r].slots[i].local = l
     /\ m[r].slots[i].num = n
     /\ n > 0

\* A local number of a room is that of one post, and highloc is not used yet.
LocalOnce(m, d) ==
  \A h \in Rooms : \A l, n : HasName(m, d, h, l, n) =>
     /\ l < m[h].highloc
     /\ \A k : HasName(m, d, h, l, k) => k = n

\* When nothing is known of the posts in the Cestino.
Nowhere == [i \in Nat |-> NoRoom]

\* Every name of the lists mm is one of m.
FewerNames(m, d, mm, dd) ==
  /\ \A h \in Rooms : \A l, n : HasName(mm, dd, h, l, n) => HasName(m, d, h, l, n)
  /\ \A h \in Rooms : mm[h].highloc = m[h].highloc

LEMMA FewerLocal ==
  ASSUME NEW m, NEW d, LocalOnce(m, d), NEW mm, NEW dd, FewerNames(m, d, mm, dd)
  PROVE  LocalOnce(mm, dd)
  <1> SUFFICES ASSUME NEW h \in Rooms, NEW l, NEW n, HasName(mm, dd, h, l, n)
               PROVE  /\ l < mm[h].highloc
                      /\ \A k : HasName(mm, dd, h, l, k) => k = n
    BY DEF LocalOnce
  <1>1. HasName(m, d, h, l, n) /\ mm[h].highloc = m[h].highloc
    BY DEF FewerNames
  <1>2. l < m[h].highloc /\ \A k : HasName(m, d, h, l, k) => k = n
    BY <1>1 DEF LocalOnce
  <1>3. \A k : HasName(mm, dd, h, l, k) => HasName(m, d, h, l, k)
    BY DEF FewerNames
  <1>4. QED
    BY <1>1, <1>2, <1>3

\* save_post, citta_post: the new post gets a local number of its own.
LEMMA PostToLocal ==
  ASSUME NEW m, Good(m), NEW d, LocalOnce(m, d), NEW r \in Rooms, r # Dump,
         NEW num \in {-1} \cup (Nat \ {0}), NEW mm, mm = PostTo(m, r, num)
  PROVE  LocalOnce(mm, d)
  <1>1. PICK slot \in GoodSlot :
               /\ slot.num = num /\ slot.local = m[r].highloc
               /\ mm[r].slots = Scrolled(m[r].slots, slot)
    BY PostToFields
  <1>2. /\ \A q \in Rooms \ {r} : mm[q] = m[q]
        /\ mm[r].highloc = m[r].highloc + 1
    BY PostToFields
  <1>3. PICK c \in Nat : c = m[r].highloc
    BY GoodFields
  <1>4. PICK n \in Nat \ {0, 1} : n = Len(m[r].slots) /\ DOMAIN m[r].slots = 1 .. n
    BY GoodFields, ListProps
  <1>5. \A i \in DOMAIN mm[r].slots :
           \/ mm[r].slots[i] = slot
           \/ \E j \in DOMAIN m[r].slots : mm[r].slots[i] = m[r].slots[j]
    <2>1. /\ DOMAIN mm[r].slots = 1 .. n
          /\ \A i \in 1 .. n : mm[r].slots[i] = IF i = n THEN slot
                                                ELSE m[r].slots[i + 1]
      BY <1>1, <1>4 DEF Scrolled
    <2>2. \A i \in 1 .. n : i # n => i + 1 \in 1 .. n
      BY <1>4
    <2>3. QED
      BY <1>4, <2>1, <2>2
  <1>6. ASSUME NEW h \in Rooms, NEW l, NEW x, HasName(mm, d, h, l, x)
        PROVE  HasName(m, d, h, l, x) \/ (h = r /\ l = c /\ x = num)
    <2>0. PICK q \in Rooms : \E i \in DOMAIN mm[q].slots :
                 /\ Origin(d, q, i) = h /\ mm[q].slots[i].local = l
                 /\ mm[q].slots[i].num = x /\ x > 0
      BY <1>6 DEF HasName
    <2>1. PICK i \in DOMAIN mm[q].slots :
                 /\ Origin(d, q, i) = h /\ mm[q].slots[i].local = l
                 /\ mm[q].slots[i].num = x /\ x > 0
      BY <2>0
    <2>2. CASE q # r
      BY <1>2, <2>1, <2>2 DEF HasName
    <2>3. CASE q = r /\ mm[r].slots[i] = slot
      BY <1>1, <1>3, <2>1, <2>3 DEF Origin
    <2>4. CASE q = r /\ mm[r].slots[i] # slot
      <3>1. PICK j \in DOMAIN m[r].slots : mm[r].slots[i] = m[r].slots[j]
        BY <1>5, <2>1, <2>4
      <3>2. Origin(d, r, j) = h
        BY <2>1, <2>4 DEF Origin
      <3>3. QED
        BY <2>1, <2>4, <3>1, <3>2 DEF HasName
    <2>5. QED
      BY <2>2, <2>3, <2>4
  <1>7. \A l, x : HasName(m, d, r, l, x) => l < c /\ l # c
    BY <1>3 DEF LocalOnce
  <1>8. ASSUME NEW h \in Rooms, NEW l, NEW x, HasName(mm, d, h, l, x)
        PROVE  /\ l < mm[h].highloc
               /\ \A k : HasName(mm, d, h, l, k) => k = x
    <2>1. CASE h # r
      <3>1. /\ mm[h].highloc = m[h].highloc /\ HasName(m, d, h, l, x)
            /\ \A k : HasName(mm, d, h, l, k) => HasName(m, d, h, l, k)
        BY <1>2, <1>6, <1>8, <2>1
      <3>2. QED
        BY <3>1 DEF LocalOnce
    <2>2. CASE h = r /\ HasName(m, d, r, l, x)
      <3>1. l < c /\ l # c /\ l \in Int
        <4>1. l \in Int
          <5>1. PICK q \in Rooms : \E i \in DOMAIN m[q].slots : m[q].slots[i].local = l
            BY <2>2 DEF HasName
          <5>2. PICK i \in DOMAIN m[q].slots : m[q].slots[i].local = l
            BY <5>1
          <5>3. m[q].slots[i] \in GoodSlot
            BY GoodFields, ListProps
          <5>4. QED
            BY <5>2, <5>3 DEF GoodSlot
        <4>2. QED
          BY <1>7, <2>2, <4>1
      <3>2. \A k : HasName(mm, d, r, l, k) => HasName(m, d, r, l, k)
        BY <1>6, <3>1
      <3>3. l < c + 1
        BY <1>3, <3>1
      <3>4. mm[h].highloc = c + 1
        BY <1>2, <1>3, <2>2
      <3>5. \A k : HasName(m, d, r, l, k) => k = x
        BY <2>2 DEF LocalOnce
      <3>6. QED
        BY <2>2, <3>2, <3>3, <3>4, <3>5
    <2>3. CASE h = r /\ ~HasName(m, d, r, l, x)
      <3>1. l = c /\ x = num
        BY <1>6, <1>8, <2>3
      <3>2. \A k : HasName(mm, d, r, l, k) => k = num
        BY <1>6, <1>7, <3>1
      <3>3. l < c + 1
        BY <1>3, <3>1
      <3>4. mm[h].highloc = c + 1
        BY <1>2, <1>3, <2>3
      <3>5. QED
        BY <2>3, <3>1, <3>2, <3>3, <3>4
    <2>4. QED
      BY <2>1, <2>2, <2>3
  <1>9. QED
    BY <1>8 DEF LocalOnce

LEMMA ToldLocal ==
  ASSUME IInv, NEW m, Good(m), NEW d, LocalOnce(m, d), NEW mm, mm = Told(m)
  PROVE  LocalOnce(mm, d)
  <1>1. highest \in Nat /\ rooms \subseteq Rooms
    BY DEF IInv
  <1>2. CASE Aide \in rooms
    <2>1. PICK num \in Nat \ {0} : num = highest + 1
      BY <1>1
    <2>2. mm = PostTo(m, Aide, num) /\ Aide \in Rooms /\ Aide # Dump
      BY <1>1, <1>2, <2>1, RoomsAssumption DEF Told
    <2>3. QED
      BY <2>2, PostToLocal
  <1>3. CASE Aide \notin rooms
    BY <1>3 DEF Told
  <1>4. QED
    BY <1>2, <1>3

\* Where what stands in a list after an operation stood before it, and what
\* stood beside it in dump_undelete.
LEMMA WithoutFrom ==
  ASSUME NEW s \in Lists, NEW k \in DOMAIN s,
         NEW t, t = Without(s, k), NEW i \in DOMAIN t, t[i].num > 0,
         NEW d, DOMAIN d = DOMAIN s, NEW dd, dd = Undumped(d, k)
  PROVE  \E j \in DOMAIN s : t[i] = s[j] /\ dd[i] = d[j]
  <1>1. PICK n \in Nat \ {0, 1} : n = Len(s) /\ DOMAIN s = 1 .. n
    BY ListProps
  <1>2. i \in 1 .. n
    BY <1>1 DEF Without
  <1>3. dd[i] = IF 1 < i /\ i <= k THEN d[i - 1] ELSE d[i]
    BY <1>1, <1>2 DEF Undumped
  <1>4. CASE i = 1
    <2>1. t[i].num = -1
      BY <1>1, <1>4, FreeSlot DEF Without
    <2>2. QED
      BY <2>1
  <1>5. CASE 1 < i /\ i <= k
    <2>1. i - 1 \in 1 .. n /\ i # 1
      BY <1>1, <1>2, <1>5
    <2>2. t[i] = s[i - 1]
      BY <1>1, <1>2, <1>5, <2>1 DEF Without
    <2>3. dd[i] = d[i - 1]
      BY <1>3, <1>5
    <2>4. QED
      BY <1>1, <2>1, <2>2, <2>3
  <1>6. CASE i # 1 /\ ~ (i <= k)
    <2>1. t[i] = s[i]
      BY <1>1, <1>2, <1>6 DEF Without
    <2>2. dd[i] = d[i]
      BY <1>3, <1>6
    <2>3. QED
      BY <1>1, <1>2, <2>1, <2>2
  <1>7. QED
    BY <1>1, <1>2, <1>4, <1>5, <1>6

LEMMA InsertedFrom ==
  ASSUME NEW s \in Lists, NEW slot \in GoodSlot, NEW p, p = Place(s, slot.num),
         NEW t, t = Inserted(s, slot), NEW i \in DOMAIN t,
         NEW d, DOMAIN d = DOMAIN s, NEW home, NEW dd, dd = Pushed(d, p, home)
  PROVE  \/ t[i] = slot /\ dd[i] = home
         \/ \E j \in DOMAIN s : t[i] = s[j] /\ dd[i] = d[j]
  <1>1. PICK n \in Nat \ {0, 1} : n = Len(s) /\ DOMAIN s = 1 .. n
    BY ListProps
  <1>2. slot.num \in Int
    BY DEF GoodSlot
  <1>3. p \in 2 .. n
    BY <1>1, <1>2, PlaceIn
  <1>4. t = [x \in 1 .. n |-> IF x < p THEN s[x + 1]
                              ELSE IF x = p THEN slot
                              ELSE s[x]]
    BY <1>1, <1>3 DEF Inserted
  <1>5. i \in 1 .. n
    BY <1>4
  <1>6. dd[i] = IF i < p THEN d[i + 1] ELSE IF i = p THEN home ELSE d[i]
    BY <1>1, <1>5 DEF Pushed
  <1>7. CASE i < p
    <2>1. i + 1 \in 1 .. n
      BY <1>1, <1>3, <1>5, <1>7
    <2>2. t[i] = s[i + 1]
      BY <1>1, <1>4, <1>5, <1>7
    <2>3. dd[i] = d[i + 1]
      BY <1>6, <1>7
    <2>4. QED
      BY <1>1, <2>1, <2>2, <2>3
  <1>8. CASE i = p
    <2>1. t[i] = slot /\ ~ (i < p)
      BY <1>1, <1>3, <1>4, <1>5, <1>8
    <2>2. dd[i] = home
      BY <1>6, <1>8, <2>1
    <2>3. QED
      BY <2>1, <2>2
  <1>9. CASE i > p
    <2>1. t[i] = s[i] /\ ~ (i < p) /\ i # p
      BY <1>1, <1>3, <1>4, <1>5, <1>9
    <2>2. dd[i] = d[i]
      BY <1>6, <2>1
    <2>3. QED
      BY <1>1, <1>5, <2>1, <2>2
  <1>10. QED
    BY <1>1, <1>3, <1>5, <1>7, <1>8, <1>9

\* It is enough that what stands in a list with a name stood somewhere with it.
LEMMA NamesFrom ==
  ASSUME NEW m, NEW d, NEW mm, NEW dd,
         \A r \in Rooms : \A i \in DOMAIN mm[r].slots :
            mm[r].slots[i].num > 0 /\ Origin(dd, r, i) \in Rooms =>
              \E q \in Rooms : \E j \in DOMAIN m[q].slots :
                 /\ m[q].slots[j].num = mm[r].slots[i].num
                 /\ m[q].slots[j].local = mm[r].slots[i].local
                 /\ Origin(d, q, j) = Origin(dd, r, i),
         \A h \in Rooms : mm[h].highloc = m[h].highloc
  PROVE  FewerNames(m, d, mm, dd)
  <1> SUFFICES ASSUME NEW h \in Rooms, NEW l, NEW n, HasName(mm, dd, h, l, n)
               PROVE  HasName(m, d, h, l, n)
    BY DEF FewerNames
  <1>1. PICK r \in Rooms : \E i \in DOMAIN mm[r].slots :
               /\ Origin(dd, r, i) = h /\ mm[r].slots[i].local = l
               /\ mm[r].slots[i].num = n /\ n > 0
    BY DEF HasName
  <1>2. PICK i \in DOMAIN mm[r].slots :
               /\ Origin(dd, r, i) = h /\ mm[r].slots[i].local = l
               /\ mm[r].slots[i].num = n /\ n > 0
    BY <1>1
  <1>3. PICK q \in Rooms : \E j \in DOMAIN m[q].slots :
               /\ m[q].slots[j].num = n
               /\ m[q].slots[j].local = l
               /\ Origin(d, q, j) = h
    BY <1>2
  <1>4. QED
    BY <1>2, <1>3 DEF HasName

\* msg_del.
LEMMA TakeOutFewer ==
  ASSUME NEW m, Good(m), NEW r \in Rooms, r # Dump, NEW num,
         \E i \in DOMAIN m[r].slots : m[r].slots[i].num = num,
         NEW mm, mm = TakeOut(m, r, num), NEW d
  PROVE  FewerNames(m, d, mm, d)
  <1>1. m[r].slots \in Lists /\ m[r] \in MsgList
    BY GoodFields
  <1>2. PICK k \in DOMAIN m[r].slots : k = SlotOf(m[r].slots, num)
    BY <1>1, SlotOfIn
  <1>3. /\ \A q \in Rooms \ {r} : mm[q] = m[q]
        /\ mm[r].slots = Without(m[r].slots, k)
        /\ mm[r].highloc = m[r].highloc
    BY <1>1, <1>2 DEF TakeOut, Good, MsgList
  <1>4. ASSUME NEW q \in Rooms, NEW i \in DOMAIN mm[q].slots, mm[q].slots[i].num > 0
        PROVE  \E j \in DOMAIN m[q].slots :
                  /\ m[q].slots[j] = mm[q].slots[i]
                  /\ Origin(d, q, j) = Origin(d, q, i)
    <2>1. CASE q = r
      <3>1. PICK s : s = m[r].slots /\ s \in Lists
        BY <1>1
      <3>2. PICK j \in DOMAIN s : mm[r].slots[i] = s[j]
        <4>1. PICK t : t = mm[r].slots
          OBVIOUS
        <4>2. t = Without(s, k) /\ k \in DOMAIN s /\ s \in Lists
          BY <1>2, <1>3, <3>1, <4>1
        <4>3. i \in DOMAIN t /\ t[i].num > 0
          BY <1>4, <2>1, <4>1
        <4>4. PICK e : e = Undumped(s, k)
          OBVIOUS
        <4>5. \E j \in DOMAIN s : t[i] = s[j]
          BY <4>2, <4>3, <4>4, WithoutFrom
        <4>6. QED
          BY <4>1, <4>5
      <3>3. QED
        BY <2>1, <3>1, <3>2 DEF Origin
    <2>2. CASE q # r
      BY <1>3, <2>2
    <2>3. QED
      BY <2>1, <2>2
  <1>5. \A h \in Rooms : mm[h].highloc = m[h].highloc
    BY <1>3
  <1>6. QED
    BY <1>4, <1>5, NamesFrom

\* What is thrown out keeps its name, if dump_undelete is kept with it.
LEMMA ThrownOutFewer ==
  ASSUME IInv, NEW q \in rooms, NEW n \in Nums(q), q # Dump,
         NEW m, m = ThrownOut(q, n), NEW d, NEW dd,
         \/ d = dump /\ dd = Dumped(q, n)
         \/ d = Nowhere /\ dd = Nowhere
  PROVE  FewerNames(msg, d, m, dd)
  <1>1. /\ q \in Rooms /\ Dump \in Rooms /\ NoRoom \notin Rooms
        /\ msg[q].slots \in Lists /\ msg[Dump].slots \in Lists
    BY RoomsAssumption, GoodFields DEF IInv
  <1>2. PICK k \in DOMAIN msg[q].slots, slot \in GoodSlot :
               /\ msg[q].slots[k].num = n
               /\ slot.num = n
               /\ slot.local = msg[q].slots[k].local
               /\ m[q].slots = Without(msg[q].slots, k)
               /\ m[Dump].slots = Inserted(msg[Dump].slots, slot)
    BY ThrownOutFields
  <1>3. /\ \A r \in Rooms \ {q, Dump} : m[r] = msg[r]
        /\ \A r \in Rooms : m[r].highloc = msg[r].highloc
    BY ThrownOutFields
  <1>4. ASSUME NEW i \in DOMAIN m[q].slots, m[q].slots[i].num > 0
        PROVE  \E j \in DOMAIN msg[q].slots : msg[q].slots[j] = m[q].slots[i]
    <2>1. PICK s : s = msg[q].slots /\ s \in Lists
      BY <1>1
    <2>2. PICK t : t = m[q].slots
      OBVIOUS
    <2>3. k \in DOMAIN s /\ t = Without(s, k) /\ i \in DOMAIN t /\ t[i].num > 0
          /\ s \in Lists
      BY <1>2, <1>4, <2>1, <2>2
    <2>4. PICK e : e = Undumped(s, k)
      OBVIOUS
    <2>5. \E j \in DOMAIN s : t[i] = s[j]
      BY <2>3, <2>4, WithoutFrom
    <2>6. QED
      BY <2>1, <2>2, <2>5
  <1>5. ASSUME NEW i \in DOMAIN m[Dump].slots, Origin(dd, Dump, i) \in Rooms
        PROVE  \/ m[Dump].slots[i] = slot /\ dd[i] = q
               \/ \E j \in DOMAIN msg[Dump].slots :
                    msg[Dump].slots[j] = m[Dump].slots[i] /\ dd[i] = d[j]
    <2>1. PICK s : s = msg[Dump].slots /\ s \in Lists
      BY <1>1
    <2>2. PICK t : t = m[Dump].slots
      OBVIOUS
    <2>3. PICK p : p = Place(s, slot.num)
      OBVIOUS
    <2>4. t = Inserted(s, slot) /\ i \in DOMAIN t /\ s \in Lists /\ slot \in GoodSlot
      BY <1>2, <2>1, <2>2
    <2>5. CASE d = dump /\ dd = Dumped(q, n)
      <3>1. DOMAIN dump = DOMAIN s
        BY <2>1 DEF IInv, Homes, Slots
      <3>2. dd = Pushed(dump, p, q)
        BY <1>2, <2>1, <2>3, <2>5 DEF Dumped, Pushed, Slots
      <3>3. \/ t[i] = slot /\ dd[i] = q
            \/ \E j \in DOMAIN s : t[i] = s[j] /\ dd[i] = dump[j]
        BY <2>3, <2>4, <3>1, <3>2, InsertedFrom
      <3>4. QED
        BY <2>1, <2>2, <2>5, <3>3
    <2>6. CASE dd = Nowhere
      <3>1. i \in Nat
        <4>1. DOMAIN t = DOMAIN s
          BY <2>4 DEF Inserted
        <4>2. DOMAIN s \subseteq Nat
          BY <2>1, ListProps
        <4>3. QED
          BY <2>4, <4>1, <4>2
      <3>2. Origin(dd, Dump, i) = NoRoom
        BY <2>6, <3>1 DEF Origin, Nowhere
      <3>3. QED
        BY <1>1, <1>5, <3>2
    <2>7. QED
      BY <2>5, <2>6
  <1>6. ASSUME NEW r \in Rooms, NEW i \in DOMAIN m[r].slots,
               m[r].slots[i].num > 0, Origin(dd, r, i) \in Rooms
        PROVE  \E z \in Rooms : \E j \in DOMAIN msg[z].slots :
                 /\ msg[z].slots[j].num = m[r].slots[i].num
                 /\ msg[z].slots[j].local = m[r].slots[i].local
                 /\ Origin(d, z, j) = Origin(dd, r, i)
    <2>1. CASE r = q
      BY <1>1, <1>4, <1>6, <2>1 DEF Origin
    <2>2. CASE r = Dump /\ m[Dump].slots[i] = slot /\ dd[i] = q
      BY <1>1, <1>2, <2>2 DEF Origin
    <2>3. CASE r = Dump /\ ~ (m[Dump].slots[i] = slot /\ dd[i] = q)
      BY <1>1, <1>5, <1>6, <2>3 DEF Origin
    <2>4. CASE r # q /\ r # Dump
      BY <1>3, <1>6, <2>4 DEF Origin
    <2>5. QED
      BY <2>1, <2>2, <2>3, <2>4
  <1>7. QED
    BY <1>3, <1>6, NamesFrom

\* What is taken back has its name again, and it had it in the Cestino.
LEMMA UndeleteFewer ==
  ASSUME IInv, NEW n \in Nums(Dump), Undelete(n), dump[SlotOf(msg[Dump].slots, n)] # Dump
  PROVE  \E mm : /\ Good(mm) /\ msg' = Told(mm)
                 /\ \A r \in Rooms : mm[r].highloc = msg[r].highloc
                 /\ \A dd : dump' = dd => FewerNames(msg, dump, mm, dd)
  <1>1. PICK mm : \E k \in DOMAIN msg[Dump].slots, dest \in rooms, slot \in GoodSlot :
            /\ dest = dump[k] /\ k = SlotOf(msg[Dump].slots, n)
            /\ msg[Dump].slots[k].num = n
            /\ slot.num = n /\ slot.local = msg[Dump].slots[k].local
            /\ Good(mm) /\ msg' = Told(mm)
            /\ dump' = Undumped(dump, k)
            /\ \A r \in Rooms : mm[r].highloc = msg[r].highloc
            /\ dest # Dump =>
                 /\ \A r \in Rooms \ {Dump, dest} : mm[r] = msg[r]
                 /\ mm[Dump].slots = Without(msg[Dump].slots, k)
                 /\ mm[dest].slots = Inserted(msg[dest].slots, slot)
    BY UndeleteFields
  <1>2. PICK k \in DOMAIN msg[Dump].slots, dest \in rooms, slot \in GoodSlot :
            /\ dest = dump[k] /\ k = SlotOf(msg[Dump].slots, n)
            /\ msg[Dump].slots[k].num = n
            /\ slot.num = n /\ slot.local = msg[Dump].slots[k].local
            /\ Good(mm) /\ msg' = Told(mm)
            /\ dump' = Undumped(dump, k)
            /\ \A r \in Rooms : mm[r].highloc = msg[r].highloc
            /\ dest # Dump =>
                 /\ \A r \in Rooms \ {Dump, dest} : mm[r] = msg[r]
                 /\ mm[Dump].slots = Without(msg[Dump].slots, k)
                 /\ mm[dest].slots = Inserted(msg[dest].slots, slot)
    BY <1>1
  <1>3. /\ dest \in Rooms /\ Dump \in Rooms /\ dest # Dump
        /\ msg[dest].slots \in Lists /\ msg[Dump].slots \in Lists
    BY <1>2, RoomsAssumption, GoodFields DEF IInv
  <1>4. PICK dd : dd = Undumped(dump, k) /\ dump' = dd
    BY <1>2
  <1>5. ASSUME NEW i \in DOMAIN mm[Dump].slots, mm[Dump].slots[i].num > 0
        PROVE  \E j \in DOMAIN msg[Dump].slots :
                  mm[Dump].slots[i] = msg[Dump].slots[j] /\ dd[i] = dump[j]
    <2>1. PICK s : s = msg[Dump].slots /\ s \in Lists
      BY <1>3
    <2>2. PICK t : t = mm[Dump].slots
      OBVIOUS
    <2>3. /\ s \in Lists /\ k \in DOMAIN s /\ t = Without(s, k)
          /\ i \in DOMAIN t /\ t[i].num > 0
      BY <1>2, <1>3, <1>5, <2>1, <2>2
    <2>4. DOMAIN dump = DOMAIN s
      BY <2>1 DEF IInv, Homes, Slots
    <2>5. \E j \in DOMAIN s : t[i] = s[j] /\ dd[i] = dump[j]
      BY <1>4, <2>3, <2>4, WithoutFrom
    <2>6. QED
      BY <2>1, <2>2, <2>5
  <1>6. ASSUME NEW i \in DOMAIN mm[dest].slots
        PROVE  \/ mm[dest].slots[i] = slot
               \/ \E j \in DOMAIN msg[dest].slots : mm[dest].slots[i] = msg[dest].slots[j]
    <2>1. PICK s : s = msg[dest].slots /\ s \in Lists
      BY <1>3
    <2>2. PICK t : t = mm[dest].slots
      OBVIOUS
    <2>3. PICK p : p = Place(s, slot.num)
      OBVIOUS
    <2>4. PICK e : e = Pushed(s, p, slot)
      OBVIOUS
    <2>5. s \in Lists /\ slot \in GoodSlot /\ t = Inserted(s, slot) /\ i \in DOMAIN t
      BY <1>2, <1>3, <1>6, <2>1, <2>2
    <2>6. t[i] = slot \/ \E j \in DOMAIN s : t[i] = s[j]
      BY <2>3, <2>4, <2>5, InsertedFrom
    <2>7. QED
      BY <2>1, <2>2, <2>6
  <1>7. ASSUME NEW r \in Rooms, NEW i \in DOMAIN mm[r].slots,
               mm[r].slots[i].num > 0, Origin(dd, r, i) \in Rooms
        PROVE  \E z \in Rooms : \E j \in DOMAIN msg[z].slots :
                 /\ msg[z].slots[j].num = mm[r].slots[i].num
                 /\ msg[z].slots[j].local = mm[r].slots[i].local
                 /\ Origin(dump, z, j) = Origin(dd, r, i)
    <2>1. CASE r = Dump
      BY <1>3, <1>5, <1>7, <2>1 DEF Origin
    <2>2. CASE r = dest /\ mm[dest].slots[i] = slot
      <3>1. Origin(dump, Dump, k) = Origin(dd, r, i)
        BY <1>2, <1>3, <2>2 DEF Origin
      <3>2. QED
        BY <1>2, <1>3, <2>2, <3>1
    <2>3. CASE r = dest /\ mm[dest].slots[i] # slot
      <3>1. PICK j \in DOMAIN msg[dest].slots : mm[dest].slots[i] = msg[dest].slots[j]
        BY <1>6, <1>7, <2>3
      <3>2. Origin(dump, dest, j) = Origin(dd, r, i)
        BY <1>3, <2>3 DEF Origin
      <3>3. QED
        BY <1>3, <2>3, <3>1, <3>2
    <2>4. CASE r # dest /\ r # Dump
      <3>1. mm[r] = msg[r]
        BY <1>2, <1>3, <1>7, <2>4
      <3>2. Origin(dump, r, i) = Origin(dd, r, i)
        BY <2>4 DEF Origin
      <3>3. QED
        BY <1>7, <3>1, <3>2
    <2>5. QED
      BY <2>1, <2>2, <2>3, <2>4
  <1>8. FewerNames(msg, dump, mm, dd)
    BY <1>2, <1>7, NamesFrom
  <1>9. QED
    BY <1>2, <1>4, <1>8

\* What was saved, as lists.
DiskLists == [r \in Rooms |-> [slots |-> disk.slots[r], highloc |-> disk.highloc[r]]]

\* The names of the posts when posts do not come back from the Cestino: here it
\* does not matter where posts were thrown out of, and names survive a restart.
RoomNames ==
  /\ LocalOnce(msg, Nowhere)
  /\ LocalOnce(DiskLists, Nowhere)
  /\ \A r \in Rooms : disk.highloc[r] <= msg[r].highloc

\* Behaviours whose commands bring no post in from elsewhere and make no list anew.
NoneBrought ==
  {"MOVE", "MOVE_TO_DUMP", "COPY", "COPY_TO_DUMP", "RESIZE"} \cap commands = {}

NamesInv ==
  NoneBrought => /\ crashes = 0 => LocalOnce(msg, dump)
                 /\ "UNDELETE" \notin commands => RoomNames

\* Lists of which each comes from one of two families of lists.
LEMMA MixedLocal ==
  ASSUME NEW a, NEW b, NEW c, LocalOnce(a, Nowhere), LocalOnce(b, Nowhere),
         \A r \in Rooms :
            /\ a[r].slots \in Lists /\ b[r].slots \in Lists
            /\ a[r].highloc \in Nat /\ b[r].highloc \in Nat /\ c[r].highloc \in Nat
            /\ a[r].highloc <= c[r].highloc /\ b[r].highloc <= c[r].highloc
            /\ c[r].slots = a[r].slots \/ c[r].slots = b[r].slots
  PROVE  LocalOnce(c, Nowhere)
  <1>1. ASSUME NEW r \in Rooms, NEW i \in DOMAIN c[r].slots, NEW h \in Rooms,
               Origin(Nowhere, r, i) = h
        PROVE  r = h /\ r # Dump /\ c[r].slots[i].local \in Int
    <2>1. c[r].slots \in Lists
      OBVIOUS
    <2>2. i \in Nat /\ c[r].slots[i] \in GoodSlot
      BY <2>1, ListProps
    <2>3. Nowhere[i] = NoRoom
      BY <2>2 DEF Nowhere
    <2>4. NoRoom \notin Rooms
      BY RoomsAssumption
    <2>5. c[r].slots[i].local \in Int
      BY <2>2 DEF GoodSlot
    <2>6. QED
      BY <1>1, <2>3, <2>4, <2>5 DEF Origin
  <1>2. ASSUME NEW h \in Rooms, NEW l, NEW n, HasName(c, Nowhere, h, l, n)
        PROVE  /\ h # Dump /\ l \in Int
               /\ \E i \in DOMAIN c[h].slots :
                    c[h].slots[i].local = l /\ c[h].slots[i].num = n /\ n > 0
    <2>1. PICK r \in Rooms : \E i \in DOMAIN c[r].slots :
                 /\ Origin(Nowhere, r, i) = h /\ c[r].slots[i].local = l
                 /\ c[r].slots[i].num = n /\ n > 0
      BY <1>2 DEF HasName
    <2>2. PICK i \in DOMAIN c[r].slots :
                 /\ Origin(Nowhere, r, i) = h /\ c[r].slots[i].local = l
                 /\ c[r].slots[i].num = n /\ n > 0
      BY <2>1
    <2>3. r = h /\ r # Dump /\ l \in Int
      BY <1>1, <2>2
    <2>4. QED
      BY <2>2, <2>3
  <1>3. ASSUME NEW f, LocalOnce(f, Nowhere), NEW h \in Rooms, f[h].slots = c[h].slots,
               f[h].highloc \in Nat, c[h].highloc \in Nat,
               f[h].highloc <= c[h].highloc,
               NEW l, NEW n, HasName(c, Nowhere, h, l, n)
        PROVE  /\ l < c[h].highloc
               /\ \A k : HasName(c, Nowhere, h, l, k) => k = n
    <2>1. \A k : HasName(c, Nowhere, h, l, k) => HasName(f, Nowhere, h, l, k)
      <3>1. ASSUME NEW k, HasName(c, Nowhere, h, l, k)
            PROVE  HasName(f, Nowhere, h, l, k)
        <4>1. /\ h # Dump
              /\ \E i \in DOMAIN c[h].slots :
                   c[h].slots[i].local = l /\ c[h].slots[i].num = k /\ k > 0
          BY <1>2, <3>1
        <4>2. PICK i \in DOMAIN f[h].slots :
                   f[h].slots[i].local = l /\ f[h].slots[i].num = k /\ k > 0
          BY <1>3, <4>1
        <4>3. Origin(Nowhere, h, i) = h
          BY <4>1 DEF Origin
        <4>4. QED
          BY <4>2, <4>3 DEF HasName
      <3>2. QED
        BY <3>1
    <2>2. l < f[h].highloc /\ \A k : HasName(f, Nowhere, h, l, k) => k = n
      BY <1>3, <2>1 DEF LocalOnce
    <2>3. l < c[h].highloc
      <3>1. l \in Int
        BY <1>2, <1>3
      <3>2. PICK x \in Nat, y \in Nat : x = f[h].highloc /\ y = c[h].highloc
        BY <1>3
      <3>3. l < x /\ x <= y
        BY <1>3, <2>2, <3>2
      <3>4. QED
        BY <3>1, <3>2, <3>3
    <2>4. QED
      BY <2>1, <2>2, <2>3
  <1>4. ASSUME NEW h \in Rooms, NEW l, NEW n, HasName(c, Nowhere, h, l, n)
        PROVE  /\ l < c[h].highloc
               /\ \A k : HasName(c, Nowhere, h, l, k) => k = n
    <2>1. CASE c[h].slots = a[h].slots
      BY <1>3, <1>4, <2>1
    <2>2. CASE c[h].slots = b[h].slots
      BY <1>3, <1>4, <2>2
    <2>3. QED
      BY <2>1, <2>2
  <1>5. QED
    BY <1>4 DEF LocalOnce

\* The notice takes a local number, if any.
LEMMA ToldHighloc ==
  ASSUME IInv, NEW m, Good(m), NEW mm, mm = Told(m), NEW q \in Rooms
  PROVE  m[q].highloc <= mm[q].highloc
  <1>1. rooms \subseteq Rooms /\ highest \in Nat
    BY DEF IInv
  <1>2. PICK c \in Nat : c = m[q].highloc
    BY GoodFields
  <1>3. CASE Aide \in rooms
    <2>1. PICK num \in Nat \ {0} : num = highest + 1
      BY <1>1
    <2>2. mm = PostTo(m, Aide, num) /\ Aide \in Rooms
      BY <1>1, <1>3, <2>1 DEF Told
    <2>3. /\ \A z \in Rooms \ {Aide} : mm[z] = m[z]
          /\ mm[Aide].highloc = m[Aide].highloc + 1
      BY <2>2, PostToFields
    <2>4. mm[q].highloc = c \/ mm[q].highloc = c + 1
      BY <1>2, <2>2, <2>3
    <2>5. c <= c /\ c <= c + 1
      OBVIOUS
    <2>6. QED
      BY <1>2, <2>4, <2>5
  <1>4. CASE Aide \notin rooms
    <2>1. mm = m /\ c <= c
      BY <1>4 DEF Told
    <2>2. QED
      BY <1>2, <2>1
  <1>5. QED
    BY <1>3, <1>4

\* A command keeps the names by what it makes of the lists.
LEMMA NamesKept ==
  ASSUME IInv, NamesInv, commands' = commands, crashes' = crashes, disk' = disk,
         NEW m, Good(m), msg' = m, NEW dd, dump' = dd,
         NoneBrought =>
           /\ crashes = 0 => LocalOnce(m, dd)
           /\ "UNDELETE" \notin commands =>
                /\ LocalOnce(m, Nowhere)
                /\ \A r \in Rooms : msg[r].highloc <= m[r].highloc
  PROVE  NamesInv'
  <1>1. NoneBrought' <=> NoneBrought
    BY DEF NoneBrought
  <1>2. ASSUME NoneBrought, crashes = 0
        PROVE  LocalOnce(msg, dump)'
    <2>1. LocalOnce(m, dd)
      BY <1>2
    <2>2. \A h, l, n : HasName(msg, dump, h, l, n)' <=> HasName(m, dd, h, l, n)
      BY DEF HasName, Origin
    <2>3. QED
      BY <2>1, <2>2 DEF LocalOnce
  <1>3. ASSUME NoneBrought, "UNDELETE" \notin commands
        PROVE  RoomNames'
    <2>1. RoomNames
      BY <1>3 DEF NamesInv
    <2>2. LocalOnce(msg, Nowhere)'
      BY <1>3 DEF LocalOnce, HasName, Origin, Nowhere
    <2>3. LocalOnce(DiskLists, Nowhere)'
      <3>1. LocalOnce(DiskLists, Nowhere)
        BY <2>1 DEF RoomNames
      <3>2. DiskLists' = DiskLists
        BY DEF DiskLists
      <3>3. QED
        BY <3>1, <3>2 DEF LocalOnce, HasName, Origin, Nowhere
    <2>4. ASSUME NEW r \in Rooms
          PROVE  disk.highloc[r] <= m[r].highloc
      <3>1. PICK x \in Nat, y \in Nat, z \in Nat :
                   x = disk.highloc[r] /\ y = msg[r].highloc /\ z = m[r].highloc
        BY GoodFields DEF IInv, GoodDisk
      <3>2. x <= y /\ y <= z
        BY <1>3, <2>1, <3>1 DEF RoomNames
      <3>3. QED
        BY <3>1, <3>2
    <2>5. QED
      BY <2>2, <2>3, <2>4 DEF RoomNames
  <1>4. QED
    BY <1>1, <1>2, <1>3 DEF NamesInv

LEMMA PostNames ==
  ASSUME IInv, IInv', NamesInv, NEW r \in rooms, Post(r) \/ PostRefused(r)
  PROVE  NamesInv'
  <1>1. Good(msg) /\ r \in Rooms /\ r # Dump /\ highest \in Nat
    BY DEF IInv, Post, PostRefused
  <1>2. PICK num \in {-1} \cup (Nat \ {0}) : msg' = PostTo(msg, r, num)
    <2>1. highest + 1 \in Nat \ {0}
      BY <1>1
    <2>2. msg' = PostTo(msg, r, highest + 1) \/ msg' = PostTo(msg, r, -1)
      BY DEF Post, PostRefused
    <2>3. QED
      BY <2>1, <2>2
  <1>3. PICK m : m = PostTo(msg, r, num) /\ msg' = m
    BY <1>2
  <1>4. /\ commands' = commands /\ crashes' = crashes /\ disk' = disk
        /\ dump' = dump
    BY DEF Post, PostRefused, Served, diskVars
  <1>5. Good(m)
    BY <1>3, <1>4 DEF IInv, Good
  <1>6. \A d : LocalOnce(msg, d) => LocalOnce(m, d)
    BY <1>1, <1>3, PostToLocal
  <1>7. ASSUME NEW q \in Rooms
        PROVE  msg[q].highloc <= m[q].highloc
    <2>1. /\ \A z \in Rooms \ {r} : m[z] = msg[z]
          /\ m[r].highloc = msg[r].highloc + 1
      BY <1>1, <1>3, PostToFields
    <2>2. PICK c \in Nat : c = msg[q].highloc
      BY <1>1, GoodFields
    <2>3. m[q].highloc = c \/ m[q].highloc = c + 1
      BY <1>1, <2>1, <2>2
    <2>4. c <= c /\ c <= c + 1
      OBVIOUS
    <2>5. QED
      BY <2>2, <2>3, <2>4
  <1>8. PICK dd : dd = dump
    OBVIOUS
  <1>9. NoneBrought =>
          /\ crashes = 0 => LocalOnce(m, dd)
          /\ "UNDELETE" \notin commands =>
               /\ LocalOnce(m, Nowhere)
               /\ \A q \in Rooms : msg[q].highloc <= m[q].highloc
    BY <1>6, <1>7, <1>8 DEF NamesInv, RoomNames
  <1>10. QED
    BY <1>3, <1>4, <1>5, <1>8, <1>9, NamesKept

\* A command that takes posts away, and leaves a notice or none.
LEMMA FewerNamesKept ==
  ASSUME IInv, NamesInv, commands' = commands, crashes' = crashes, disk' = disk,
         NEW m, Good(m), NEW mm, mm = Told(m) \/ mm = m, msg' = mm,
         NEW dd, dump' = dd,
         NoneBrought => /\ crashes = 0 => FewerNames(msg, dump, m, dd)
                        /\ "UNDELETE" \notin commands => FewerNames(msg, Nowhere, m, Nowhere),
         \A r \in Rooms : m[r].highloc = msg[r].highloc
  PROVE  NamesInv'
  <1>1. Good(mm) /\ rooms \subseteq Rooms /\ highest \in Nat
    BY ToldGood DEF IInv
  <1>2. \A d : LocalOnce(m, d) => LocalOnce(mm, d)
    <2>1. CASE mm = Told(m)
      BY <2>1, ToldLocal
    <2>2. CASE mm = m
      BY <2>2
    <2>3. QED
      BY <2>1, <2>2
  <1>3. ASSUME NoneBrought, crashes = 0
        PROVE  LocalOnce(mm, dd)
    <2>1. LocalOnce(msg, dump) /\ FewerNames(msg, dump, m, dd)
      BY <1>3 DEF NamesInv
    <2>2. LocalOnce(m, dd)
      BY <2>1, FewerLocal
    <2>3. QED
      BY <1>2, <2>2
  <1>4. ASSUME NoneBrought, "UNDELETE" \notin commands
        PROVE  LocalOnce(mm, Nowhere)
    <2>1. LocalOnce(msg, Nowhere) /\ FewerNames(msg, Nowhere, m, Nowhere)
      BY <1>4 DEF NamesInv, RoomNames
    <2>2. PICK d : d = Nowhere
      OBVIOUS
    <2>3. LocalOnce(m, d)
      BY <2>1, <2>2, FewerLocal
    <2>4. QED
      BY <1>2, <2>2, <2>3
  <1>5. ASSUME NEW r \in Rooms
        PROVE  msg[r].highloc <= mm[r].highloc
    <2>1. m[r].highloc = msg[r].highloc /\ m[r].highloc \in Nat
      BY GoodFields
    <2>2. m[r].highloc <= m[r].highloc
      BY <2>1
    <2>3. m[r].highloc <= mm[r].highloc
      <3>1. CASE mm = Told(m)
        BY <3>1, ToldHighloc
      <3>2. CASE mm = m
        BY <2>2, <3>2
      <3>3. QED
        BY <3>1, <3>2
    <2>4. QED
      BY <2>1, <2>3
  <1>6. QED
    BY <1>1, <1>3, <1>4, <1>5, NamesKept

LEMMA DeleteNames ==
  ASSUME IInv, NamesInv, NEW r \in rooms, NEW num \in Nums(r), Delete(r, num)
  PROVE  NamesInv'
  <1>1. Good(msg) /\ r \in Rooms /\ r # Dump
    BY DEF IInv, Delete
  <1>2. \E i \in DOMAIN msg[r].slots : msg[r].slots[i].num = num
    BY <1>1, NumsFound
  <1>3. PICK m : m = TakeOut(msg, r, num) /\ Good(m)
    BY <1>1, <1>2, TakeOutGood
  <1>4. \A d : FewerNames(msg, d, m, d)
    BY <1>1, <1>2, <1>3, TakeOutFewer
  <1>5. \A q \in Rooms : m[q].highloc = msg[q].highloc
    BY <1>4 DEF FewerNames
  <1>6. /\ commands' = commands /\ crashes' = crashes /\ disk' = disk
        /\ dump' = dump /\ msg' = m
    BY <1>3 DEF Delete, Served, diskVars
  <1>7. PICK dd : dd = dump
    OBVIOUS
  <1>8. FewerNames(msg, dump, m, dd) /\ FewerNames(msg, Nowhere, m, Nowhere)
    BY <1>4, <1>7
  <1>9. QED
    BY <1>3, <1>5, <1>6, <1>7, <1>8, FewerNamesKept

LEMMA DumpPostNames ==
  ASSUME IInv, NamesInv, NEW r \in rooms, NEW num \in Nums(r), DumpPost(r, num)
  PROVE  NamesInv'
  <1>1. r # Dump /\ "DUMP" \in commands
    BY DEF DumpPost, Served
  <1>2. PICK m : m = ThrownOut(r, num) /\ Good(m)
    BY <1>1, ThrownOutGood
  <1>3. PICK dd : dd = Dumped(r, num)
    OBVIOUS
  <1>4. FewerNames(msg, dump, m, dd)
    <2>1. PICK d : d = dump
      OBVIOUS
    <2>2. FewerNames(msg, d, m, dd)
      BY <1>1, <1>2, <1>3, <2>1, ThrownOutFewer
    <2>3. QED
      BY <2>1, <2>2
  <1>5. FewerNames(msg, Nowhere, m, Nowhere)
    <2>1. PICK d : d = Nowhere
      OBVIOUS
    <2>2. FewerNames(msg, d, m, d)
      BY <1>1, <1>2, <2>1, ThrownOutFewer
    <2>3. QED
      BY <2>1, <2>2
  <1>6. \A q \in Rooms : m[q].highloc = msg[q].highloc
    BY <1>4 DEF FewerNames
  <1>7. PICK mm : mm = Told(m)
    OBVIOUS
  <1>8. /\ commands' = commands /\ crashes' = crashes /\ disk' = disk
        /\ dump' = dd /\ msg' = mm
    BY <1>2, <1>3, <1>7 DEF DumpPost, Served, diskVars
  <1>9. QED
    BY <1>2, <1>4, <1>5, <1>6, <1>7, <1>8, FewerNamesKept

LEMMA UndeleteNames ==
  ASSUME IInv, HomesInv, NamesInv, NEW n \in Nums(Dump), Undelete(n)
  PROVE  NamesInv'
  <1>1. /\ commands' = commands /\ crashes' = crashes /\ disk' = disk
        /\ "UNDELETE" \in commands
    BY DEF Undelete, Served, diskVars
  <1>2. CASE NoneBrought /\ crashes = 0
    <2>1. SlotOf(msg[Dump].slots, n) \in DOMAIN msg[Dump].slots
      BY RoomsAssumption, NumsFound
    <2>2. dump[SlotOf(msg[Dump].slots, n)] # Dump
      <3>1. HomesRight(msg[Dump].slots, dump)
        BY <1>2 DEF HomesInv, OnlyDumped, NoneBrought
      <3>2. QED
        BY <2>1, <3>1 DEF HomesRight
    <2>3. PICK m : /\ Good(m) /\ msg' = Told(m)
                   /\ \A r \in Rooms : m[r].highloc = msg[r].highloc
                   /\ \A dd : dump' = dd => FewerNames(msg, dump, m, dd)
      BY <2>2, UndeleteFewer
    <2>4. PICK dd : dd = dump'
      OBVIOUS
    <2>5. FewerNames(msg, dump, m, dd)
      BY <2>3, <2>4
    <2>6. PICK mm : mm = Told(m) /\ msg' = mm
      BY <2>3
    <2>7. QED
      BY <1>1, <2>3, <2>4, <2>5, <2>6, FewerNamesKept
  <1>3. CASE ~(NoneBrought /\ crashes = 0)
    BY <1>1, <1>3 DEF NamesInv, NoneBrought
  <1>4. QED
    BY <1>2, <1>3

LEMMA RdelNames ==
  ASSUME IInv, NamesInv, NEW r \in rooms, Rdel(r)
  PROVE  NamesInv'
  <1>1. Good(msg)
    BY DEF IInv
  <1>2. \A d : FewerNames(msg, d, msg, d)
    BY DEF FewerNames
  <1>3. PICK m : m = msg
    OBVIOUS
  <1>4. PICK mm : mm = Told(m)
    OBVIOUS
  <1>5. PICK dd : dd = dump
    OBVIOUS
  <1>6. FewerNames(msg, dump, m, dd) /\ FewerNames(msg, Nowhere, m, Nowhere)
    BY <1>2, <1>3, <1>5
  <1>7. /\ commands' = commands /\ crashes' = crashes /\ disk' = disk
        /\ dump' = dd /\ msg' = mm
    BY <1>3, <1>4, <1>5 DEF Rdel, Served, diskVars
  <1>8. Good(m) /\ \A q \in Rooms : m[q].highloc = msg[q].highloc
    BY <1>1, <1>3
  <1>9. QED
    BY <1>4, <1>6, <1>7, <1>8, FewerNamesKept

\* What is written is a list of this moment or the one that was saved before.
LEMMA SaveNames ==
  ASSUME IInv, NamesInv, Save
  PROVE  NamesInv'
  <1>1. Good(msg) /\ GoodDisk
    BY DEF IInv
  <1>2. PICK m : /\ msg' = m
                 /\ m = [r \in Rooms |-> IF r \in rooms
                                         THEN [msg[r] EXCEPT !.dirty = FALSE]
                                         ELSE msg[r]]
    BY DEF Save
  <1>3. \A r \in Rooms : m[r].slots = msg[r].slots /\ m[r].highloc = msg[r].highloc
    <2>1. \A r \in Rooms : msg[r] \in MsgList
      BY <1>1, GoodFields
    <2>2. QED
      BY <1>2, <2>1 DEF MsgList
  <1>4. commands' = commands /\ crashes' = crashes /\ dump' = dump
    BY DEF Save
  <1>5. PICK b : b = DiskLists
    OBVIOUS
  <1>6. PICK c : c = DiskLists'
    OBVIOUS
  <1>7. ASSUME NEW r \in Rooms
        PROVE  /\ b[r].slots = disk.slots[r] /\ b[r].highloc = disk.highloc[r]
               /\ c[r].slots = disk'.slots[r] /\ c[r].highloc = disk'.highloc[r]
               /\ disk'.highloc[r] = msg[r].highloc
               /\ disk'.slots[r] = msg[r].slots \/ disk'.slots[r] = disk.slots[r]
    <2>1. b[r].slots = disk.slots[r] /\ b[r].highloc = disk.highloc[r]
      BY <1>5 DEF DiskLists
    <2>2. c[r].slots = disk'.slots[r] /\ c[r].highloc = disk'.highloc[r]
      BY <1>6 DEF DiskLists
    <2>3. disk'.highloc = [z \in Rooms |-> msg[z].highloc]
      BY DEF Save
    <2>4. disk'.slots = [z \in Rooms |-> IF z \in rooms THEN Saved(z)
                                         ELSE disk.slots[z]]
      BY DEF Save
    <2>5. disk'.slots[r] = msg[r].slots \/ disk'.slots[r] = disk.slots[r]
      BY <2>4 DEF Saved, Slots
    <2>6. QED
      BY <2>1, <2>2, <2>3, <2>5
  <1>8. ASSUME NoneBrought, crashes = 0
        PROVE  LocalOnce(msg, dump)'
    <2>1. LocalOnce(msg, dump)
      BY <1>8 DEF NamesInv
    <2>2. \A h \in Rooms : \A l, n : HasName(msg, dump, h, l, n)' <=> HasName(msg, dump, h, l, n)
      BY <1>2, <1>3, <1>4 DEF HasName, Origin
    <2>3. \A r \in Rooms : msg'[r].highloc = msg[r].highloc
      BY <1>2, <1>3
    <2>4. QED
      BY <2>1, <2>2, <2>3 DEF LocalOnce
  <1>9. ASSUME NoneBrought, "UNDELETE" \notin commands
        PROVE  RoomNames'
    <2>1. PICK a : a = msg
      OBVIOUS
    <2>2. LocalOnce(a, Nowhere) /\ LocalOnce(b, Nowhere)
      BY <1>5, <1>9, <2>1 DEF NamesInv, RoomNames
    <2>3. ASSUME NEW r \in Rooms
          PROVE  /\ a[r].slots \in Lists /\ b[r].slots \in Lists
                 /\ a[r].highloc \in Nat /\ b[r].highloc \in Nat
                 /\ a[r].highloc <= a[r].highloc /\ b[r].highloc <= a[r].highloc
      <3>1. a[r].slots \in Lists /\ a[r].highloc \in Nat
        BY <1>1, <2>1, GoodFields
      <3>2. b[r].slots \in Lists /\ b[r].highloc \in Nat
        BY <1>1, <1>7 DEF GoodDisk
      <3>3. b[r].highloc <= a[r].highloc
        BY <1>7, <1>9, <2>1 DEF NamesInv, RoomNames
      <3>4. QED
        BY <3>1, <3>2, <3>3
    <2>4. ASSUME NEW r \in Rooms
          PROVE  /\ c[r].highloc = a[r].highloc
                 /\ c[r].slots = a[r].slots \/ c[r].slots = b[r].slots
                 /\ m[r].highloc = a[r].highloc /\ m[r].slots = a[r].slots
      BY <1>3, <1>7, <2>1
    <2>5. LocalOnce(c, Nowhere)
      <3>1. \A r \in Rooms :
              /\ a[r].slots \in Lists /\ b[r].slots \in Lists
              /\ a[r].highloc \in Nat /\ b[r].highloc \in Nat /\ c[r].highloc \in Nat
              /\ a[r].highloc <= c[r].highloc /\ b[r].highloc <= c[r].highloc
              /\ c[r].slots = a[r].slots \/ c[r].slots = b[r].slots
        BY <2>3, <2>4, Zenon
      <3>2. QED
        BY <2>2, <3>1, MixedLocal
    <2>6. LocalOnce(m, Nowhere)
      <3>1. \A r \in Rooms :
              /\ a[r].slots \in Lists /\ a[r].highloc \in Nat /\ m[r].highloc \in Nat
              /\ a[r].highloc <= m[r].highloc
              /\ m[r].slots = a[r].slots
        BY <2>3, <2>4, Zenon
      <3>2. QED
        BY <2>2, <3>1, MixedLocal
    <2>7. LocalOnce(msg, Nowhere)'
      BY <1>2, <2>6 DEF LocalOnce, HasName, Origin, Nowhere
    <2>8. LocalOnce(DiskLists, Nowhere)'
      BY <1>6, <2>5 DEF LocalOnce, HasName, Origin, Nowhere
    <2>9. \A r \in Rooms : disk'.highloc[r] <= msg'[r].highloc
      <3>1. ASSUME NEW r \in Rooms
            PROVE  disk'.highloc[r] <= msg'[r].highloc
        BY <1>2, <1>7, <2>1, <2>3, <2>4, <3>1
      <3>2. QED
        BY <3>1
    <2>10. QED
      BY <2>7, <2>8, <2>9 DEF RoomNames
  <1>10. QED
    BY <1>4, <1>8, <1>9 DEF NamesInv, NoneBrought

\* What is read back are the lists that were saved, and their counters.
LEMMA CrashNames ==
  ASSUME IInv, crashes \in Nat, NamesInv, CrashRestart
  PROVE  NamesInv'
  <1>1. GoodDisk /\ commands' = commands /\ disk' = disk /\ crashes' # 0
    BY DEF IInv, CrashRestart
  <1>2. PICK m : /\ msg' = m
                 /\ m = [r \in Rooms |-> [slots |-> disk.slots[r],
                                          highloc |-> disk.highloc[r],
                                          highmsg |-> disk.highmsg[r], dirty |-> FALSE]]
    BY DEF CrashRestart
  <1>3. \A r \in Rooms : /\ m[r].slots = disk.slots[r]
                         /\ m[r].highloc = disk.highloc[r]
    BY <1>2
  <1>4. PICK b : b = DiskLists
    OBVIOUS
  <1>5. ASSUME NEW r \in Rooms
        PROVE  b[r].slots = disk.slots[r] /\ b[r].highloc = disk.highloc[r]
    BY <1>4 DEF DiskLists
  <1>6. ASSUME NoneBrought, "UNDELETE" \notin commands
        PROVE  RoomNames'
    <2>1. LocalOnce(b, Nowhere)
      BY <1>4, <1>6 DEF NamesInv, RoomNames
    <2>2. ASSUME NEW r \in Rooms
          PROVE  /\ b[r].slots \in Lists /\ b[r].highloc \in Nat
                 /\ m[r].highloc \in Nat /\ b[r].highloc <= m[r].highloc
                 /\ m[r].slots = b[r].slots
                 /\ disk.highloc[r] <= m[r].highloc
      <3>1. disk.slots[r] \in Lists /\ disk.highloc[r] \in Nat
        BY <1>1 DEF GoodDisk
      <3>2. disk.highloc[r] <= disk.highloc[r]
        BY <3>1
      <3>3. QED
        BY <1>3, <1>5, <3>1, <3>2
    <2>3. LocalOnce(m, Nowhere)
      BY <2>1, <2>2, MixedLocal
    <2>4. LocalOnce(msg, Nowhere)'
      <3>1. msg' = m
        BY <1>2
      <3>2. QED
        BY <2>3, <3>1 DEF LocalOnce, HasName, Origin, Nowhere
    <2>5. LocalOnce(DiskLists, Nowhere)'
      <3>1. DiskLists' = b
        BY <1>1, <1>4 DEF DiskLists
      <3>2. QED
        BY <2>1, <3>1 DEF LocalOnce, HasName, Origin, Nowhere
    <2>6. \A r \in Rooms : disk'.highloc[r] <= msg'[r].highloc
      BY <1>1, <1>2, <2>2
    <2>7. QED
      BY <2>4, <2>5, <2>6 DEF RoomNames
  <1>7. QED
    BY <1>1, <1>6 DEF NamesInv, NoneBrought

LEMMA NextNames ==
  IInv /\ IInv' /\ crashes \in Nat /\ HomesInv /\ NamesInv /\ [Next]_vars => NamesInv'
  <1> SUFFICES ASSUME IInv, IInv', crashes \in Nat, HomesInv, NamesInv, [Next]_vars
               PROVE  NamesInv'
    OBVIOUS
  <1>1. ASSUME NEW r \in rooms, Post(r) \/ PostRefused(r) \/ Rdel(r)
        PROVE  NamesInv'
    BY <1>1, PostNames, RdelNames
  <1>2. ASSUME NEW r \in rooms, NEW num \in Nums(r),
               Delete(r, num) \/ DumpPost(r, num)
        PROVE  NamesInv'
    BY <1>2, DeleteNames, DumpPostNames
  <1>3. ASSUME NEW r \in rooms, NEW dest \in rooms, NEW num \in Nums(r),
               Move(r, dest, num) \/ Copy(r, dest, num)
        PROVE  NamesInv'
    BY <1>3 DEF Move, Copy, Served, NamesInv, NoneBrought
  <1>4. ASSUME NEW num \in Nums(Dump), Undelete(num)
        PROVE  NamesInv'
    BY <1>4, UndeleteNames
  <1>5. ASSUME NEW r \in rooms, NEW n \in Lengths, Resize(r, n)
        PROVE  NamesInv'
    BY <1>5 DEF Resize, Served, NamesInv, NoneBrought
  <1>6. CASE Save
    BY <1>6, SaveNames
  <1>7. CASE CrashRestart
    BY <1>7, CrashNames
  <1>8. CASE UNCHANGED vars
    <2>1. /\ commands' = commands /\ crashes' = crashes /\ dump' = dump
          /\ disk' = disk /\ msg' = msg
      BY <1>8 DEF vars, diskVars
    <2>2. \A h, l, n : HasName(msg, dump, h, l, n)' <=> HasName(msg, dump, h, l, n)
      BY <2>1 DEF HasName, Origin
    <2>3. LocalOnce(msg, dump)' <=> LocalOnce(msg, dump)
      BY <2>1, <2>2 DEF LocalOnce
    <2>4. \A h, l, n : HasName(msg, Nowhere, h, l, n)' <=> HasName(msg, Nowhere, h, l, n)
      BY <2>1 DEF HasName, Origin, Nowhere
    <2>5. LocalOnce(msg, Nowhere)' <=> LocalOnce(msg, Nowhere)
      BY <2>1, <2>4 DEF LocalOnce
    <2>6. LocalOnce(DiskLists, Nowhere)' <=> LocalOnce(DiskLists, Nowhere)
      <3>1. DiskLists' = DiskLists
        BY <2>1 DEF DiskLists
      <3>2. QED
        BY <3>1 DEF LocalOnce, HasName, Origin, Nowhere
    <2>7. QED
      BY <2>1, <2>3, <2>5, <2>6 DEF NamesInv, NoneBrought, RoomNames
  <1>9. QED
    BY <1>1, <1>2, <1>3, <1>4, <1>5, <1>6, <1>7, <1>8 DEF Next

LEMMA InitNames == Init => NamesInv
  <1> SUFFICES ASSUME Init PROVE NamesInv
    OBVIOUS
  <1>1. PICK size \in [Rooms -> Lengths] :
               msg = [r \in Rooms |-> [slots |-> Empty(size[r]), highloc |-> 0,
                                      highmsg |-> 0, dirty |-> FALSE]]
    BY DEF Init
  <1>2. ASSUME NEW r \in Rooms
        PROVE  msg[r].slots = Empty(size[r]) /\ msg[r].highloc = 0
    <2>1. msg[r] = [slots |-> Empty(size[r]), highloc |-> 0,
                    highmsg |-> 0, dirty |-> FALSE]
      BY <1>1, Zenon
    <2>2. QED
      BY <2>1
  <1>3. ASSUME NEW r \in Rooms
        PROVE  /\ disk.slots[r] = msg[r].slots /\ disk.highloc[r] = 0
               /\ \A i \in DOMAIN msg[r].slots : ~(msg[r].slots[i].num > 0)
    <2>1. disk.slots = [z \in Rooms |-> msg[z].slots] /\ disk.highloc = [z \in Rooms |-> 0]
      BY DEF Init, Slots
    <2>2. \A i \in DOMAIN msg[r].slots : msg[r].slots[i].num = -1
      BY <1>2, FreeSlot DEF Empty
    <2>3. QED
      BY <2>1, <2>2
  <1>4. \A d : LocalOnce(msg, d)
    BY <1>3 DEF LocalOnce, HasName
  <1>5. LocalOnce(DiskLists, Nowhere)
    BY <1>3 DEF LocalOnce, HasName, DiskLists
  <1>6. \A r \in Rooms : disk.highloc[r] <= msg[r].highloc
    <2>1. 0 <= 0
      OBVIOUS
    <2>2. QED
      BY <1>2, <1>3, <2>1, Zenon
  <1>7. QED
    BY <1>4, <1>5, <1>6 DEF NamesInv, RoomNames

\* The local number by which a command names a post of a room names one post, for
\* posts that were thrown out and taken back as well; if none is ever taken back,
\* after any number of restarts too.
THEOREM LocalNumbersNameOne == Spec => []LocalNamesOne
  <1>1. IInv /\ NamesInv => LocalNamesOne
    <2> SUFFICES ASSUME IInv, NamesInv, NoneBrought, "UNDELETE" \in commands => crashes = 0,
                        NEW r \in rooms \ {Dump},
                        NEW i \in DOMAIN Slots(r), NEW j \in DOMAIN Slots(r),
                        Slots(r)[i].num > 0, Slots(r)[j].num > 0,
                        Slots(r)[i].local = Slots(r)[j].local
                 PROVE  Slots(r)[i].num = Slots(r)[j].num
      BY DEF LocalNamesOne, NoneBrought
    <2>1. r \in Rooms /\ r # Dump
      BY DEF IInv
    <2>2. PICK d : LocalOnce(msg, d)
      BY DEF NamesInv, RoomNames
    <2>3. PICK l : l = Slots(r)[i].local
      OBVIOUS
    <2>4. /\ HasName(msg, d, r, l, Slots(r)[i].num)
          /\ HasName(msg, d, r, l, Slots(r)[j].num)
      BY <2>1, <2>3 DEF HasName, Origin, Slots
    <2>5. QED
      BY <2>1, <2>2, <2>4 DEF LocalOnce
  <1>2. Spec => []NamesInv
    <2>1. IInv /\ [Next]_vars => IInv'
      BY NextPreserves
    <2>2. Spec => []HomesInv
      BY InitHomes, NextHomes, ListsInvariant, CrashesCounted, PTL DEF Spec
    <2>3. QED
      BY <2>1, <2>2, InitNames, NextNames, ListsInvariant, CrashesCounted, PTL DEF Spec
  <1>3. QED
    BY <1>1, <1>2, ListsInvariant, PTL

\* Every post is in its place, under its own name, and if it was thrown out the
\* way back is known.
THEOREM PostsArePlaced == Spec => []PostsPlaced
  <1>1. OnePlace /\ LocalNamesOne /\ HomeKnownOfDumped => PostsPlaced
    BY DEF PostsPlaced
  <1>2. QED
    BY <1>1, PostsInOnePlace, LocalNumbersNameOne, HomesKnown, PTL

-----------------------------------------------------------------------------
(***************************************************************************)
(* Reading: the inductive invariant.                                       *)
(***************************************************************************)
\* The lists s with their highmsg, when h was the number given last.
InOrder(s, highmsg, h) ==
  /\ \A r \in Rooms : \A n \in Held(s[r]) : n <= h
  /\ NothingBrought => \A r \in Rooms \ {Dump} : Sorted(s[r])
  /\ NothingElsewhere =>
       \A r \in Rooms \ {Dump} : /\ highmsg[r] <= h
                                 /\ \A n \in Held(s[r]) : n <= highmsg[r]

SlotsOf(m)   == [r \in Rooms |-> m[r].slots]
HighmsgOf(m) == [r \in Rooms |-> m[r].highmsg]
Kept(m, h)   == InOrder(SlotsOf(m), HighmsgOf(m), h)

\* A post stands in one room, besides the Cestino, and is not dead.
Alive(m, gone) ==
  NothingBrought /\ "CRASH" \notin commands =>
  \A r \in Rooms \ {Dump} :
     /\ Held(m[r].slots) \cap gone = {}
     /\ \A q \in Rooms \ {Dump, r} : Held(m[r].slots) \cap Held(m[q].slots) = {}

\* A post that may come back was known to the room it comes back to.
Returnable(m, d) ==
  NothingElsewhere /\ "CRASH" \notin commands =>
  \A k \in DOMAIN d :
     /\ d[k] # Dump
     /\ d[k] # NoRoom /\ m[Dump].slots[k].num # -1 =>
          m[Dump].slots[k].num <= m[d[k]].highmsg

\* The lists m when h was the number given last, gone are the posts that are
\* dead, and d is dump_undelete.
ListsKept(m, h, gone, d) ==
  /\ Kept(m, h)
  /\ Alive(m, gone)
  /\ Returnable(m, d)
  /\ NothingElsewhere =>
       \A r \in Rooms \ {Dump} : disk.highmsg[r] <= m[r].highmsg

ListsInv ==
  /\ IInv
  /\ ListsKept(msg, highest, dead, dump)
  /\ InOrder(disk.slots, disk.highmsg, disk.highest)
  /\ disk.highest <= highest

-----------------------------------------------------------------------------
(***************************************************************************)
(* The lists of all rooms.                                                 *)
(***************************************************************************)
\* What the invariant says of one room.
LEMMA KeptRoom ==
  ASSUME NEW m, NEW h, Kept(m, h), NEW r \in Rooms
  PROVE  /\ \A n \in Held(m[r].slots) : n <= h
         /\ NothingBrought /\ r # Dump => Sorted(m[r].slots)
         /\ NothingElsewhere /\ r # Dump =>
              m[r].highmsg <= h /\ \A n \in Held(m[r].slots) : n <= m[r].highmsg
  BY DEF Kept, InOrder, SlotsOf, HighmsgOf

LEMMA KeptRooms ==
  ASSUME NEW m, NEW h,
         \A r \in Rooms :
            /\ \A n \in Held(m[r].slots) : n <= h
            /\ NothingBrought /\ r # Dump => Sorted(m[r].slots)
            /\ NothingElsewhere /\ r # Dump =>
                 m[r].highmsg <= h /\ \A n \in Held(m[r].slots) : n <= m[r].highmsg
  PROVE  Kept(m, h)
  BY DEF Kept, InOrder, SlotsOf, HighmsgOf

\* save_post, citta_post: one list is scrolled, with a new post.
LEMMA PostToLists ==
  ASSUME IInv, NEW m, Good(m), NEW h \in Nat, NEW gone, NEW d \in Homes(m[Dump].slots),
         ListsKept(m, h, gone, d), NEW r \in Rooms, r # Dump
  PROVE  ListsKept(PostTo(m, r, h + 1), h + 1, gone \ {h + 1}, d)
  <1>1. PICK slot \in GoodSlot :
           /\ slot = [num |-> h + 1, local |-> m[r].highloc, home |-> NoRoom]
           /\ slot.num = h + 1 /\ slot.num # -1
    <2>1. m[r].highloc \in Nat
      BY GoodFields
    <2>2. m[r].highloc \in Int /\ h + 1 \in Nat \ {0} /\ h + 1 # -1
      BY <2>1
    <2>3. [num |-> h + 1, local |-> m[r].highloc, home |-> NoRoom] \in GoodSlot
      BY <2>2 DEF GoodSlot
    <2>4. QED
      BY <2>2, <2>3
  <1>2. PICK mm : mm = PostTo(m, r, h + 1)
    OBVIOUS
  <1>3. /\ \A q \in Rooms \ {r} : mm[q] = m[q]
        /\ mm[r].slots = Scrolled(m[r].slots, slot)
        /\ mm[r].highmsg = h + 1
    BY <1>1, <1>2 DEF PostTo, Good
  <1>4. \A q \in Rooms : /\ m[q].slots \in Lists /\ m[q].highmsg \in Int
                         /\ Held(m[q].slots) \subseteq Nat \ {0}
                         /\ \A n \in Held(m[q].slots) : n <= h
    BY GoodFields, HeldNat, KeptRoom DEF ListsKept
  <1>5. Held(mm[r].slots) \subseteq Held(m[r].slots) \cup {h + 1}
    BY <1>1, <1>3, <1>4, ScrolledHeld
  <1>6. Kept(mm, h + 1)
    <2>1. ASSUME NEW q \in Rooms
          PROVE  /\ \A n \in Held(mm[q].slots) : n <= h + 1
                 /\ NothingBrought /\ q # Dump => Sorted(mm[q].slots)
                 /\ NothingElsewhere /\ q # Dump =>
                      /\ mm[q].highmsg <= h + 1
                      /\ \A n \in Held(mm[q].slots) : n <= mm[q].highmsg
      <3>1. Kept(m, h)
        BY DEF ListsKept
      <3>2. CASE q # r
        <4>1. mm[q] = m[q]
          BY <1>3, <3>2
        <4>2. \A x \in Int : x <= h => x <= h + 1
          OBVIOUS
        <4>3. m[q].highmsg \in Int /\ \A n \in Held(m[q].slots) : n \in Int
          BY <1>4
        <4>4. QED
          BY <3>1, <4>1, <4>2, <4>3, KeptRoom
      <3>3. CASE q = r
        <4>1. \A n \in Held(m[r].slots) : n < h + 1
          BY <1>4
        <4>2. NothingBrought => Sorted(mm[r].slots)
          BY <1>1, <1>3, <1>4, <3>1, <4>1, KeptRoom, ScrolledHeld
        <4>3. \A n \in Held(mm[r].slots) : n <= h + 1
          BY <1>4, <1>5, <4>1
        <4>4. QED
          BY <1>3, <3>3, <4>2, <4>3
      <3>4. QED
        BY <3>2, <3>3
    <2>2. QED
      BY <2>1, KeptRooms
  <1>7. Alive(mm, gone \ {h + 1})
    <2> SUFFICES ASSUME NothingBrought, "CRASH" \notin commands, NEW q \in Rooms \ {Dump}
                 PROVE  /\ Held(mm[q].slots) \cap (gone \ {h + 1}) = {}
                        /\ \A p \in Rooms \ {Dump, q} :
                              Held(mm[q].slots) \cap Held(mm[p].slots) = {}
      BY DEF Alive
    <2>1. \A p \in Rooms : h + 1 \notin Held(m[p].slots)
      BY <1>4
    <2>2. \A p \in Rooms \ {Dump} :
             /\ Held(m[p].slots) \cap gone = {}
             /\ \A x \in Rooms \ {Dump, p} : Held(m[p].slots) \cap Held(m[x].slots) = {}
      BY DEF ListsKept, Alive
    <2>3. \A p \in Rooms : Held(mm[p].slots) \subseteq
                              Held(m[p].slots) \cup (IF p = r THEN {h + 1} ELSE {})
      BY <1>3, <1>5
    <2>4. Held(mm[q].slots) \cap (gone \ {h + 1}) = {}
      BY <2>2, <2>3
    <2>5. ASSUME NEW p \in Rooms \ {Dump, q}
          PROVE  Held(mm[q].slots) \cap Held(mm[p].slots) = {}
      BY <2>1, <2>2, <2>3
    <2>6. QED
      BY <2>4, <2>5
  <1>8. \A q \in Rooms \ {Dump} : NothingElsewhere => m[q].highmsg <= mm[q].highmsg
    <2>1. NothingElsewhere => m[r].highmsg <= h
      BY KeptRoom DEF ListsKept
    <2>2. QED
      BY <1>3, <1>4, <2>1
  <1>9. Returnable(mm, d)
    <2> SUFFICES ASSUME NothingElsewhere, "CRASH" \notin commands, NEW k \in DOMAIN d
                 PROVE  /\ d[k] # Dump
                        /\ d[k] # NoRoom /\ mm[Dump].slots[k].num # -1 =>
                             mm[Dump].slots[k].num <= mm[d[k]].highmsg
      BY DEF Returnable
    <2>1. mm[Dump] = m[Dump] /\ k \in DOMAIN m[Dump].slots /\ d[k] \in Rooms \cup {NoRoom}
      BY <1>3, RoomsAssumption DEF Homes
    <2>2. /\ d[k] # Dump
          /\ d[k] # NoRoom /\ m[Dump].slots[k].num # -1 =>
                 m[Dump].slots[k].num <= m[d[k]].highmsg
      BY DEF ListsKept, Returnable
    <2>3. ASSUME d[k] # NoRoom, m[Dump].slots[k].num # -1
          PROVE  m[Dump].slots[k].num <= mm[d[k]].highmsg
      <3>1. PICK q \in Rooms \ {Dump} : q = d[k]
        BY <2>1, <2>2, <2>3
      <3>2. m[q].highmsg <= mm[q].highmsg /\ m[q].highmsg \in Int /\ mm[q].highmsg \in Int
        BY <1>3, <1>4, <1>8
      <3>3. PICK n \in Int : n = m[Dump].slots[k].num /\ n <= m[q].highmsg
        BY <1>4, <2>1, <2>2, <2>3, <3>1, ListProps, RoomsAssumption DEF GoodSlot
      <3>4. QED
        BY <3>1, <3>2, <3>3
    <2>4. QED
      BY <2>1, <2>2, <2>3
  <1>10. ASSUME NothingElsewhere, NEW q \in Rooms \ {Dump}
         PROVE  disk.highmsg[q] <= mm[q].highmsg
    <2>1. disk.highmsg[q] <= m[q].highmsg /\ disk.highmsg[q] \in Int
      BY <1>10 DEF ListsKept, IInv, GoodDisk
    <2>2. m[q].highmsg <= mm[q].highmsg /\ m[q].highmsg \in Int /\ mm[q].highmsg \in Int
      BY <1>3, <1>4, <1>8, <1>10
    <2>3. QED
      BY <2>1, <2>2
  <1>11. QED
    BY <1>2, <1>6, <1>7, <1>9, <1>10 DEF ListsKept

\* The notice to the aides, if there is one.
LEMMA ToldLists ==
  ASSUME IInv, NEW m, Good(m), NEW gone, NEW d \in Homes(m[Dump].slots),
         ListsKept(m, highest, gone, d)
  PROVE  ListsKept(Told(m), highest + Notices,
                   gone \ (highest + 1 .. highest + Notices), d)
  <1>1. highest \in Nat /\ rooms \subseteq Rooms
    BY DEF IInv
  <1>2. CASE Aide \in rooms
    <2>1. Aide \in Rooms /\ Aide # Dump
      BY <1>1, <1>2, RoomsAssumption
    <2>2. ListsKept(PostTo(m, Aide, highest + 1), highest + 1, gone \ {highest + 1}, d)
      BY <1>1, <2>1, PostToLists
    <2>3. Notices = 1 /\ Told(m) = PostTo(m, Aide, highest + 1)
      BY <1>2 DEF Notices, Told
    <2>4. (highest + 1 .. highest + 1) = {highest + 1}
      BY <1>1
    <2>5. QED
      BY <2>2, <2>3, <2>4
  <1>3. CASE Aide \notin rooms
    <2>1. Notices = 0 /\ Told(m) = m
      BY <1>3 DEF Notices, Told
    <2>2. highest + 0 = highest /\ (highest + 1 .. highest + 0) = {}
      BY <1>1
    <2>3. gone \ {} = gone
      OBVIOUS
    <2>4. QED
      BY <2>1, <2>2, <2>3
  <1>4. QED
    BY <1>2, <1>3

\* Posts are taken out of rooms, and go to the Cestino or nowhere.
LEMMA FewerKept ==
  ASSUME NEW m, NEW h, Kept(m, h), NEW mm,
         \A q \in Rooms : \A n \in Held(mm[q].slots) :
            \E p \in Rooms : n \in Held(m[p].slots),
         \A q \in Rooms \ {Dump} :
            /\ Held(mm[q].slots) \subseteq Held(m[q].slots)
            /\ Sorted(m[q].slots) => Sorted(mm[q].slots)
            /\ NothingElsewhere => mm[q].highmsg = m[q].highmsg
  PROVE  Kept(mm, h)
  <1>1. ASSUME NEW q \in Rooms, NEW n \in Held(mm[q].slots)
        PROVE  n <= h
    BY KeptRoom
  <1>2. ASSUME NEW q \in Rooms, q # Dump
        PROVE  /\ NothingBrought => Sorted(mm[q].slots)
               /\ NothingElsewhere =>
                    /\ mm[q].highmsg <= h
                    /\ \A n \in Held(mm[q].slots) : n <= mm[q].highmsg
    BY <1>2, KeptRoom
  <1>3. QED
    BY <1>1, <1>2, KeptRooms

LEMMA FewerAlive ==
  ASSUME NEW m, NEW gone, Alive(m, gone), NEW mm, NEW g,
         NothingBrought =>
           \A q \in Rooms \ {Dump} : /\ Held(mm[q].slots) \subseteq Held(m[q].slots)
                                     /\ Held(mm[q].slots) \cap (g \ gone) = {}
  PROVE  Alive(mm, g)
  <1> SUFFICES ASSUME NothingBrought, "CRASH" \notin commands, NEW q \in Rooms \ {Dump}
               PROVE  /\ Held(mm[q].slots) \cap g = {}
                      /\ \A p \in Rooms \ {Dump, q} :
                            Held(mm[q].slots) \cap Held(mm[p].slots) = {}
    BY DEF Alive
  <1>1. /\ Held(m[q].slots) \cap gone = {}
        /\ \A p \in Rooms \ {Dump, q} : Held(m[q].slots) \cap Held(m[p].slots) = {}
    BY DEF Alive
  <1>2. \A p \in Rooms \ {Dump} : Held(mm[p].slots) \subseteq Held(m[p].slots)
    OBVIOUS
  <1>3. Held(mm[q].slots) \cap (g \ gone) = {}
    OBVIOUS
  <1>4. Held(mm[q].slots) \cap g = {}
    BY <1>1, <1>2, <1>3
  <1>5. ASSUME NEW p \in Rooms \ {Dump, q}
        PROVE  Held(mm[q].slots) \cap Held(mm[p].slots) = {}
    BY <1>1, <1>2
  <1>6. QED
    BY <1>4, <1>5

\* msg_del.
LEMMA TakeOutFields ==
  ASSUME NEW m, Good(m), NEW r \in Rooms, NEW num \in Held(m[r].slots)
  PROVE  /\ \A q \in Rooms \ {r} : TakeOut(m, r, num)[q] = m[q]
         /\ TakeOut(m, r, num)[r].highmsg = m[r].highmsg
         /\ Held(TakeOut(m, r, num)[r].slots) \subseteq Held(m[r].slots)
         /\ Sorted(m[r].slots) => /\ Sorted(TakeOut(m, r, num)[r].slots)
                                  /\ num \notin Held(TakeOut(m, r, num)[r].slots)
         /\ \E k \in DOMAIN m[r].slots :
              /\ k = SlotOf(m[r].slots, num) /\ m[r].slots[k].num = num
              /\ TakeOut(m, r, num)[r].slots = Without(m[r].slots, k)
  <1>1. m[r].slots \in Lists /\ m[r] \in MsgList
    BY GoodFields
  <1>2. PICK k \in DOMAIN m[r].slots : /\ k = SlotOf(m[r].slots, num)
                                       /\ m[r].slots[k].num = num
    BY <1>1, SlotOfIn DEF Held
  <1>3. PICK mm : mm = TakeOut(m, r, num)
    OBVIOUS
  <1>4. /\ \A q \in Rooms \ {r} : mm[q] = m[q]
        /\ mm[r].slots = Without(m[r].slots, k)
        /\ mm[r].highmsg = m[r].highmsg
    BY <1>1, <1>2, <1>3 DEF TakeOut, Good, MsgList
  <1>5. num # -1
    BY DEF Held
  <1>6. QED
    BY <1>1, <1>2, <1>3, <1>4, <1>5, WithoutHeld

\* cmd_mdel by the author.
LEMMA TakeOutLists ==
  ASSUME NEW m, Good(m), NEW h, NEW gone, NEW d \in Homes(m[Dump].slots),
         ListsKept(m, h, gone, d),
         NEW r \in Rooms, r # Dump, NEW num \in Held(m[r].slots)
  PROVE  ListsKept(TakeOut(m, r, num), h, gone \cup {num}, d)
  <1>1. PICK mm : mm = TakeOut(m, r, num)
    OBVIOUS
  <1>2. /\ \A q \in Rooms \ {r} : mm[q] = m[q]
        /\ mm[r].highmsg = m[r].highmsg
        /\ Held(mm[r].slots) \subseteq Held(m[r].slots)
        /\ Sorted(m[r].slots) => Sorted(mm[r].slots) /\ num \notin Held(mm[r].slots)
    BY <1>1, TakeOutFields
  <1>3. \A q \in Rooms : /\ Held(mm[q].slots) \subseteq Held(m[q].slots)
                         /\ Sorted(m[q].slots) => Sorted(mm[q].slots)
                         /\ mm[q].highmsg = m[q].highmsg
    BY <1>2
  <1>4. Kept(mm, h)
    BY <1>3, FewerKept DEF ListsKept
  <1>5. Alive(mm, gone \cup {num})
    <2>1. Kept(m, h) /\ Alive(m, gone)
      BY DEF ListsKept
    <2>2. CASE NothingBrought /\ "CRASH" \notin commands
      <3>1. Sorted(m[r].slots)
        BY <2>1, <2>2, KeptRoom
      <3>2. \A q \in Rooms \ {Dump, r} : num \notin Held(m[q].slots)
        BY <2>1, <2>2 DEF Alive
      <3>3. \A q \in Rooms \ {Dump} : num \notin Held(mm[q].slots)
        BY <1>2, <3>1, <3>2
      <3>4. \A q \in Rooms \ {Dump} :
               Held(mm[q].slots) \cap ((gone \cup {num}) \ gone) = {}
        BY <3>3
      <3>5. QED
        BY <1>3, <2>1, <3>4, FewerAlive
    <2>3. CASE ~ (NothingBrought /\ "CRASH" \notin commands)
      BY <2>3 DEF Alive
    <2>4. QED
      BY <2>2, <2>3
  <1>6. Returnable(mm, d)
    <2>1. mm[Dump] = m[Dump]
      BY <1>2, RoomsAssumption
    <2>2. \A k \in DOMAIN d : d[k] \in Rooms \cup {NoRoom}
      BY DEF Homes
    <2>3. QED
      BY <1>3, <2>1, <2>2 DEF ListsKept, Returnable
  <1>7. QED
    BY <1>1, <1>3, <1>4, <1>5, <1>6 DEF ListsKept

\* msg_copy.
LEMMA PutInFields ==
  ASSUME NEW m, Good(m), NEW r \in Rooms, NEW slot \in GoodSlot
  PROVE  /\ \A q \in Rooms \ {r} : PutIn(m, r, slot)[q] = m[q]
         /\ PutIn(m, r, slot)[r].highmsg = m[r].highmsg
         /\ PutIn(m, r, slot)[r].slots = Inserted(m[r].slots, slot)
         /\ Held(PutIn(m, r, slot)[r].slots) \subseteq Held(m[r].slots) \cup {slot.num}
  <1>1. m[r].slots \in Lists /\ m[r] \in MsgList
    BY GoodFields
  <1>2. PICK mm : mm = PutIn(m, r, slot)
    OBVIOUS
  <1>3. /\ \A q \in Rooms \ {r} : mm[q] = m[q]
        /\ mm[r].slots = Inserted(m[r].slots, slot)
        /\ mm[r].highmsg = m[r].highmsg
    BY <1>1, <1>2 DEF PutIn, Good, MsgList
  <1>4. QED
    BY <1>1, <1>2, <1>3, InsertedHeld

LEMMA PutInKept ==
  ASSUME NEW m, Good(m), NEW h \in Nat, Kept(m, h), NEW r \in Rooms,
         NEW slot \in GoodSlot, slot.num <= h,
         r = Dump \/ ~NothingBrought,
         r = Dump \/ ~NothingElsewhere \/ slot.num <= m[r].highmsg
  PROVE  Kept(PutIn(m, r, slot), h)
  <1>1. PICK mm : mm = PutIn(m, r, slot)
    OBVIOUS
  <1>2. /\ \A q \in Rooms \ {r} : mm[q] = m[q]
        /\ mm[r].highmsg = m[r].highmsg
        /\ Held(mm[r].slots) \subseteq Held(m[r].slots) \cup {slot.num}
    BY <1>1, PutInFields
  <1>3. ASSUME NEW q \in Rooms
        PROVE  /\ \A n \in Held(mm[q].slots) : n <= h
               /\ NothingBrought /\ q # Dump => Sorted(mm[q].slots)
               /\ NothingElsewhere /\ q # Dump =>
                    /\ mm[q].highmsg <= h
                    /\ \A n \in Held(mm[q].slots) : n <= mm[q].highmsg
    <2>1. CASE q # r
      BY <1>2, <2>1, KeptRoom
    <2>2. CASE q = r
      BY <1>2, <2>2, KeptRoom
    <2>3. QED
      BY <2>1, <2>2
  <1>4. QED
    BY <1>1, <1>3, KeptRooms

-----------------------------------------------------------------------------
(***************************************************************************)
(* The commands one by one.                                                *)
(***************************************************************************)
\* A command leaves the disk alone.
LEMMA ListsStep ==
  ASSUME ListsInv, IInv', commands' = commands, disk' = disk,
         NEW m, msg' = m, NEW h \in Nat, highest <= h, highest' = h,
         NEW g, dead' = g, NEW d, dump' = d, ListsKept(m, h, g, d)
  PROVE  ListsInv'
  <1>1. /\ NothingBrought' <=> NothingBrought
        /\ NothingElsewhere' <=> NothingElsewhere
    BY DEF NothingBrought, NothingElsewhere
  <1>2. InOrder(disk.slots, disk.highmsg, disk.highest)'
    BY <1>1 DEF ListsInv, InOrder
  <1>3. ListsKept(msg, highest, dead, dump)'
    BY <1>1 DEF ListsKept, Kept, InOrder, SlotsOf, HighmsgOf, Alive, Returnable
  <1>4. disk'.highest <= highest'
    <2>1. disk.highest \in Nat /\ highest \in Nat /\ disk.highest <= highest
      BY DEF ListsInv, IInv, GoodDisk
    <2>2. QED
      BY <2>1
  <1>5. QED
    BY <1>2, <1>3, <1>4 DEF ListsInv

\* fm_put gives new numbers to posts that are not dead.
LEMMA WrittenLists ==
  ASSUME IInv, NEW n \in Nat, Written(n)
  PROVE  /\ highest + n \in Nat /\ highest <= highest + n /\ highest' = highest + n
         /\ dead' = dead \ (highest + 1 .. highest + n)
  BY DEF IInv, Written

\* The facts every command starts from.
LEMMA ListsFacts ==
  ASSUME ListsInv
  PROVE  /\ IInv /\ Good(msg) /\ highest \in Nat
         /\ Dump \in Rooms /\ rooms \subseteq Rooms
         /\ dump \in Homes(msg[Dump].slots)
         /\ ListsKept(msg, highest, dead, dump)
         /\ \A r \in Rooms : Nums(r) = Held(msg[r].slots)
  BY RoomsAssumption DEF ListsInv, IInv, Slots, Nums, Held

\* Posting.
LEMMA PostLists ==
  ASSUME ListsInv, IInv', NEW r \in rooms, Post(r)
  PROVE  ListsInv'
  <1>1. /\ IInv /\ Good(msg) /\ highest \in Nat /\ r \in Rooms /\ r # Dump
        /\ dump \in Homes(msg[Dump].slots) /\ ListsKept(msg, highest, dead, dump)
    BY ListsFacts DEF Post
  <1>2. ListsKept(PostTo(msg, r, highest + 1), highest + 1, dead \ {highest + 1}, dump)
    BY <1>1, PostToLists
  <1>3. /\ highest + 1 \in Nat /\ highest <= highest + 1 /\ highest' = highest + 1
        /\ dead' = dead \ (highest + 1 .. highest + 1)
    BY <1>1, WrittenLists DEF Post
  <1>4. dead' = dead \ {highest + 1}
    BY <1>1, <1>3
  <1>5. QED
    BY <1>2, <1>3, <1>4, ListsStep DEF Post, diskVars

\* A refused post makes a hole.
LEMMA RefusedLists ==
  ASSUME ListsInv, IInv', NEW r \in rooms, PostRefused(r)
  PROVE  ListsInv'
  <1>1. /\ IInv /\ Good(msg) /\ highest \in Nat /\ r \in Rooms /\ r # Dump
        /\ Kept(msg, highest) /\ Alive(msg, dead)
        /\ "POST_LONG" \in commands
    BY ListsFacts DEF PostRefused, Served, ListsKept
  <1>2. PICK slot \in GoodSlot :
           /\ slot = [num |-> -1, local |-> msg[r].highloc, home |-> NoRoom]
           /\ slot.num = -1
    <2>1. msg[r].highloc \in Nat
      BY <1>1, GoodFields
    <2>2. msg[r].highloc \in Int
      BY <2>1
    <2>3. [num |-> -1, local |-> msg[r].highloc, home |-> NoRoom] \in GoodSlot
      BY <2>2 DEF GoodSlot
    <2>4. QED
      BY <2>3
  <1>3. PICK mm : mm = PostTo(msg, r, -1)
    OBVIOUS
  <1>4. /\ \A q \in Rooms \ {r} : mm[q] = msg[q]
        /\ mm[r].slots = Scrolled(msg[r].slots, slot)
    BY <1>1, <1>2, <1>3 DEF PostTo, Good
  <1>5. \A q \in Rooms : /\ Held(mm[q].slots) \subseteq Held(msg[q].slots)
                         /\ Sorted(msg[q].slots) => Sorted(mm[q].slots)
    <2>1. msg[r].slots \in Lists
      BY <1>1, GoodFields
    <2>2. QED
      BY <1>2, <1>4, <2>1, ScrolledHeld
  <1>6. ~NothingElsewhere
    BY <1>1 DEF NothingElsewhere
  <1>7. Kept(mm, highest)
    BY <1>1, <1>5, <1>6, FewerKept
  <1>8. Kept(mm, highest + 1)
    <2>1. \A q \in Rooms : Held(mm[q].slots) \subseteq Nat
      BY <1>1, <1>5, GoodFields, HeldNat
    <2>2. \A q \in Rooms : \A n \in Held(mm[q].slots) : n <= highest + 1
      BY <1>1, <1>7, <2>1, KeptRoom
    <2>3. \A q \in Rooms : NothingBrought /\ q # Dump => Sorted(mm[q].slots)
      BY <1>7, KeptRoom
    <2>4. QED
      BY <1>6, <2>2, <2>3, KeptRooms
  <1>9. Alive(mm, dead)
    BY <1>1, <1>5, FewerAlive
  <1>10. ListsKept(mm, highest + 1, dead, dump)
    BY <1>6, <1>8, <1>9 DEF ListsKept, Returnable
  <1>11. highest + 1 \in Nat /\ highest <= highest + 1
    BY <1>1
  <1>12. QED
    BY <1>3, <1>10, <1>11, ListsStep DEF PostRefused, Served, diskVars

\* cmd_mdel by the author.
LEMMA DeleteLists ==
  ASSUME ListsInv, IInv', NEW r \in rooms, NEW num \in Nums(r), Delete(r, num)
  PROVE  ListsInv'
  <1>1. /\ Good(msg) /\ highest \in Nat /\ r \in Rooms /\ r # Dump
        /\ num \in Held(msg[r].slots)
        /\ dump \in Homes(msg[Dump].slots) /\ ListsKept(msg, highest, dead, dump)
    BY ListsFacts DEF Delete
  <1>2. ListsKept(TakeOut(msg, r, num), highest, dead \cup {num}, dump)
    BY <1>1, TakeOutLists
  <1>3. highest <= highest
    BY <1>1
  <1>4. QED
    BY <1>1, <1>2, <1>3, ListsStep DEF Delete, Served, diskVars

\* msg_dump.
LEMMA ThrownOutLists ==
  ASSUME ListsInv, NEW r \in rooms, NEW num \in Nums(r), r # Dump
  PROVE  ListsKept(ThrownOut(r, num), highest, dead, Dumped(r, num))
  <1>1. /\ IInv /\ Good(msg) /\ highest \in Nat /\ r \in Rooms /\ Dump \in Rooms
        /\ num \in Held(msg[r].slots)
        /\ dump \in Homes(msg[Dump].slots)
        /\ Kept(msg, highest) /\ Alive(msg, dead) /\ Returnable(msg, dump)
        /\ NothingElsewhere =>
             \A q \in Rooms \ {Dump} : disk.highmsg[q] <= msg[q].highmsg
    BY ListsFacts DEF ListsKept
  <1>2. PICK k \in DOMAIN msg[r].slots : /\ k = SlotOf(msg[r].slots, num)
                                         /\ msg[r].slots[k].num = num
    <2>1. msg[r].slots \in Lists /\ \E i \in DOMAIN msg[r].slots : msg[r].slots[i].num = num
      BY <1>1, GoodFields DEF Held
    <2>2. QED
      BY <2>1, SlotOfIn
  <1>3. PICK slot \in GoodSlot : /\ slot = [msg[r].slots[k] EXCEPT !.home = r]
                                 /\ slot.num = num
    <2>1. \E i \in DOMAIN msg[r].slots : msg[r].slots[i].num = num
      BY <1>2
    <2>2. r \in Rooms \cup {NoRoom}
      BY <1>1
    <2>3. QED
      BY <1>1, <1>2, <2>1, <2>2, FoundSlot
  <1>4. PICK mm : mm = ThrownOut(r, num)
    OBVIOUS
  <1>5. /\ \A q \in Rooms \ {r, Dump} : mm[q] = msg[q]
        /\ mm[r].slots = Without(msg[r].slots, k)
        /\ mm[Dump].slots = Inserted(msg[Dump].slots, slot)
        /\ \A q \in Rooms : mm[q].highmsg = msg[q].highmsg
    BY <1>1, <1>2, <1>3, <1>4 DEF ThrownOut, Slots, Good, MsgList
  <1>6. /\ msg[r].slots \in Lists /\ msg[Dump].slots \in Lists
        /\ num \in Nat \ {0}
    BY <1>1, GoodFields, HeldNat
  <1>7. \A q \in Rooms \ {Dump} :
           /\ Held(mm[q].slots) \subseteq Held(msg[q].slots)
           /\ Sorted(msg[q].slots) => Sorted(mm[q].slots)
           /\ mm[q].highmsg = msg[q].highmsg
    <2>1. /\ Held(mm[r].slots) \subseteq Held(msg[r].slots)
          /\ Sorted(msg[r].slots) => Sorted(mm[r].slots)
      BY <1>5, <1>6, WithoutHeld
    <2>2. QED
      BY <1>5, <2>1
  <1>8. Held(mm[Dump].slots) \subseteq Held(msg[Dump].slots) \cup {num}
    BY <1>3, <1>5, <1>6, InsertedHeld
  <1>9. Kept(mm, highest)
    <2>1. \A q \in Rooms : \A n \in Held(mm[q].slots) :
             \E p \in Rooms : n \in Held(msg[p].slots)
      BY <1>1, <1>7, <1>8
    <2>2. QED
      BY <1>1, <1>7, <2>1, FewerKept
  <1>10. Alive(mm, dead)
    BY <1>1, <1>7, FewerAlive
  <1>11. Returnable(mm, Dumped(r, num))
    <2>1. PICK n \in Nat \ {0, 1} :
             /\ n = Len(msg[Dump].slots)
             /\ DOMAIN msg[Dump].slots = 1 .. n
             /\ DOMAIN dump = 1 .. n
             /\ dump \in [1 .. n -> Rooms \cup {NoRoom}]
      BY <1>1, DumpProps DEF Slots
    <2>2. PICK p \in 2 .. n : p = Place(msg[Dump].slots, num)
      BY <1>6, <2>1, PlaceIn
    <2>3. /\ DOMAIN Dumped(r, num) = 1 .. n
          /\ \A i \in 1 .. n :
               \/ /\ i = p /\ Dumped(r, num)[i] = r
                  /\ mm[Dump].slots[i] = slot
               \/ \E j \in 1 .. n : /\ Dumped(r, num)[i] = dump[j]
                                    /\ mm[Dump].slots[i] = msg[Dump].slots[j]
      <3>1. ASSUME NEW i \in 1 .. n, i < p
            PROVE  i + 1 \in 1 .. n
        BY <2>2, <3>1
      <3>2. /\ DOMAIN Dumped(r, num) = 1 .. n
            /\ \A i \in 1 .. n : Dumped(r, num)[i] =
                 IF i < p THEN dump[i + 1] ELSE IF i = p THEN r ELSE dump[i]
        BY <2>1, <2>2 DEF Dumped, Slots
      <3>3. \A i \in 1 .. n : mm[Dump].slots[i] =
               IF i < p THEN msg[Dump].slots[i + 1]
               ELSE IF i = p THEN slot ELSE msg[Dump].slots[i]
        BY <1>3, <1>5, <2>1, <2>2 DEF Inserted
      <3>4. QED
        BY <3>1, <3>2, <3>3
    <2>4. ASSUME NothingElsewhere, "CRASH" \notin commands, NEW i \in 1 .. n
          PROVE  /\ Dumped(r, num)[i] # Dump
                 /\ Dumped(r, num)[i] # NoRoom /\ mm[Dump].slots[i].num # -1 =>
                      mm[Dump].slots[i].num <= mm[Dumped(r, num)[i]].highmsg
      <3>1. CASE Dumped(r, num)[i] = r /\ mm[Dump].slots[i] = slot
        <4>1. num <= msg[r].highmsg
          BY <1>1, <2>4, KeptRoom
        <4>2. QED
          BY <1>1, <1>3, <1>5, <3>1, <4>1
      <3>2. ASSUME NEW j \in 1 .. n, Dumped(r, num)[i] = dump[j],
                   mm[Dump].slots[i] = msg[Dump].slots[j]
            PROVE  /\ Dumped(r, num)[i] # Dump
                   /\ Dumped(r, num)[i] # NoRoom /\ mm[Dump].slots[i].num # -1 =>
                        mm[Dump].slots[i].num <= mm[Dumped(r, num)[i]].highmsg
        <4>1. dump[j] \in Rooms \cup {NoRoom}
          BY <2>1
        <4>2. /\ dump[j] # Dump
              /\ dump[j] # NoRoom /\ msg[Dump].slots[j].num # -1 =>
                   msg[Dump].slots[j].num <= msg[dump[j]].highmsg
          BY <1>1, <2>1, <2>4 DEF Returnable
        <4>3. QED
          BY <1>5, <3>2, <4>1, <4>2
      <3>3. QED
        BY <2>3, <3>1, <3>2
    <2>5. QED
      BY <2>3, <2>4 DEF Returnable
  <1>12. QED
    BY <1>1, <1>4, <1>5, <1>9, <1>10, <1>11 DEF ListsKept

\* A command that ends with the notice to the aides.
LEMMA NoticedLists ==
  ASSUME ListsInv, IInv', commands' = commands, disk' = disk,
         NEW m, Good(m), msg' = Told(m), NEW d, dump' = d,
         ListsKept(m, highest, dead, d), Written(Notices)
  PROVE  ListsInv'
  <1>1. IInv /\ highest \in Nat /\ rooms \subseteq Rooms
    BY ListsFacts DEF IInv
  <1>2. d \in Homes(m[Dump].slots)
    <2>1. SameDump(m, Told(m))
      BY <1>1, ToldGood
    <2>2. d \in Homes(msg'[Dump].slots)
      BY DEF IInv, Slots, Homes
    <2>3. QED
      BY <2>1, <2>2 DEF SameDump, Homes
  <1>3. ListsKept(Told(m), highest + Notices,
                  dead \ (highest + 1 .. highest + Notices), d)
    BY <1>1, <1>2, ToldLists
  <1>4. /\ highest + Notices \in Nat /\ highest <= highest + Notices
        /\ highest' = highest + Notices
        /\ dead' = dead \ (highest + 1 .. highest + Notices)
    BY <1>1, NoticesNat, WrittenLists
  <1>5. QED
    BY <1>3, <1>4, ListsStep

\* cmd_mdel by somebody else who may.
LEMMA DumpPostLists ==
  ASSUME ListsInv, IInv', NEW r \in rooms, NEW num \in Nums(r), DumpPost(r, num)
  PROVE  ListsInv'
  <1>1. IInv /\ r # Dump /\ "DUMP" \in commands
    BY ListsFacts DEF DumpPost, Served
  <1>2. PICK m : m = ThrownOut(r, num) /\ Good(m)
    BY <1>1, ThrownOutGood
  <1>3. ListsKept(m, highest, dead, Dumped(r, num))
    BY <1>1, <1>2, ThrownOutLists
  <1>4. QED
    BY <1>2, <1>3, NoticedLists DEF DumpPost, Served, diskVars

\* cmd_rdel.
LEMMA RdelLists ==
  ASSUME ListsInv, IInv', NEW r \in rooms, Rdel(r)
  PROVE  ListsInv'
  BY ListsFacts, NoticedLists DEF Rdel, Served, diskVars

\* cmd_mdel in the Cestino: the post comes back to a room that knew it.
LEMMA UndeleteLists ==
  ASSUME ListsInv, IInv', NEW num \in Nums(Dump), Undelete(num)
  PROVE  ListsInv'
  <1>1. /\ IInv /\ Good(msg) /\ highest \in Nat /\ Dump \in Rooms
        /\ rooms \subseteq Rooms /\ num \in Held(msg[Dump].slots)
        /\ Kept(msg, highest) /\ Returnable(msg, dump)
        /\ NothingElsewhere =>
             \A q \in Rooms \ {Dump} : disk.highmsg[q] <= msg[q].highmsg
    BY ListsFacts DEF ListsKept
  <1>2. ~NothingBrought /\ (NothingElsewhere => "CRASH" \notin commands)
    BY DEF Undelete, Served, NothingBrought, NothingElsewhere
  <1>3. PICK k \in DOMAIN msg[Dump].slots :
           /\ k = SlotOf(msg[Dump].slots, num) /\ msg[Dump].slots[k].num = num
           /\ TakeOut(msg, Dump, num)[Dump].slots = Without(msg[Dump].slots, k)
    BY <1>1, TakeOutFields
  <1>4. PICK dest \in rooms : dest = dump[k]
    BY <1>3 DEF Undelete, Slots
  <1>5. \E i \in DOMAIN msg[Dump].slots : msg[Dump].slots[i].num = num
    BY <1>3
  <1>6. PICK slot \in GoodSlot : /\ slot = [Slots(Dump)[k] EXCEPT !.home = NoRoom]
                                 /\ slot.num = num /\ slot.num # -1
    BY <1>1, <1>3, <1>5, NumsFound, FoundSlot DEF Slots
  <1>7. PICK t : t = TakeOut(msg, Dump, num) /\ Good(t)
    BY <1>1, <1>5, TakeOutGood
  <1>8. /\ \A q \in Rooms \ {Dump} : t[q] = msg[q]
        /\ t[Dump].highmsg = msg[Dump].highmsg
        /\ t[Dump].slots = Without(msg[Dump].slots, k)
        /\ Held(t[Dump].slots) \subseteq Held(msg[Dump].slots)
    BY <1>1, <1>3, <1>7, TakeOutFields
  <1>9. PICK n \in Nat : DOMAIN msg[Dump].slots = 1 .. n /\ DOMAIN dump = 1 .. n
    BY <1>1, DumpProps DEF Slots
  <1>10. NothingElsewhere => dest # Dump /\ num <= msg[dest].highmsg
    BY <1>1, <1>2, <1>3, <1>4, <1>6, <1>9, RoomsAssumption DEF Returnable
  <1>11. Kept(t, highest)
    <2>1. \A q \in Rooms : Held(t[q].slots) \subseteq Held(msg[q].slots)
      BY <1>8
    <2>2. QED
      BY <1>1, <1>8, <2>1, FewerKept
  <1>12. PICK mm : mm = PutIn(t, dest, slot) /\ Good(mm)
    BY <1>1, <1>6, <1>7, PutInGood
  <1>13. Kept(mm, highest)
    <2>1. num <= highest
      BY <1>1, KeptRoom
    <2>2. ~NothingElsewhere \/ slot.num <= t[dest].highmsg
      BY <1>1, <1>6, <1>8, <1>10
    <2>3. dest \in Rooms
      BY <1>1
    <2>4. QED
      BY <1>1, <1>2, <1>6, <1>7, <1>11, <1>12, <2>1, <2>2, <2>3, PutInKept
  <1>14. \A q \in Rooms : mm[q].highmsg = msg[q].highmsg
    BY <1>1, <1>7, <1>8, <1>12, PutInFields
  <1>15. PICK d : d = dump' /\ d = [i \in 1 .. n |-> IF 1 < i /\ i <= k THEN dump[i - 1]
                                                    ELSE dump[i]]
    BY <1>3, <1>9 DEF Undelete, Slots
  <1>16. Returnable(mm, d)
    <2> SUFFICES ASSUME NothingElsewhere, "CRASH" \notin commands, NEW i \in 1 .. n
                 PROVE  /\ d[i] # Dump
                        /\ d[i] # NoRoom /\ mm[Dump].slots[i].num # -1 =>
                             mm[Dump].slots[i].num <= mm[d[i]].highmsg
      BY <1>15 DEF Returnable
    <2>1. mm[Dump] = t[Dump]
      BY <1>1, <1>6, <1>7, <1>10, <1>12, PutInFields
    <2>2. \A j \in 1 .. n :
             /\ dump[j] \in Rooms \cup {NoRoom}
             /\ dump[j] # Dump
             /\ dump[j] # NoRoom /\ msg[Dump].slots[j].num # -1 =>
                  msg[Dump].slots[j].num <= mm[dump[j]].highmsg
      BY <1>1, <1>9, <1>14 DEF Returnable, IInv, Homes
    <2>3. CASE i = 1
      <3>1. mm[Dump].slots[i].num = -1 /\ d[i] = dump[i]
        BY <1>8, <1>9, <1>15, <2>1, <2>3, FreeSlot DEF Without
      <3>2. QED
        BY <2>2, <3>1
    <2>4. CASE i # 1
      <3>1. PICK j \in 1 .. n : d[i] = dump[j] /\ mm[Dump].slots[i] = msg[Dump].slots[j]
        <4>1. CASE i <= k
          <5>1. i - 1 \in 1 .. n
            BY <2>4
          <5>2. d[i] = dump[i - 1] /\ mm[Dump].slots[i] = msg[Dump].slots[i - 1]
            BY <1>8, <1>9, <1>15, <2>1, <2>4, <4>1 DEF Without
          <5>3. QED
            BY <5>1, <5>2
        <4>2. CASE ~ (i <= k)
          BY <1>8, <1>9, <1>15, <2>1, <2>4, <4>2 DEF Without
        <4>3. QED
          BY <4>1, <4>2
      <3>2. QED
        BY <2>2, <3>1
    <2>5. QED
      BY <2>3, <2>4
  <1>17. ListsKept(mm, highest, dead, d)
    BY <1>1, <1>2, <1>13, <1>14, <1>16 DEF ListsKept, Alive
  <1>18. msg' = Told(mm) /\ Written(Notices) /\ commands' = commands /\ disk' = disk
    BY <1>3, <1>4, <1>6, <1>7, <1>12 DEF Undelete, Served, diskVars, Slots
  <1>19. QED
    BY <1>12, <1>15, <1>17, <1>18, NoticedLists

\* A list is made shorter, when that may disturb highmsg.
LEMMA FewerLists ==
  ASSUME NEW m, NEW h, Kept(m, h), NEW gone, Alive(m, gone), NEW mm,
         ~NothingElsewhere,
         \A q \in Rooms : /\ Held(mm[q].slots) \subseteq Held(m[q].slots)
                          /\ Sorted(m[q].slots) => Sorted(mm[q].slots)
  PROVE  Kept(mm, h) /\ Alive(mm, gone)
  <1>1. Kept(mm, h)
    BY FewerKept
  <1>2. gone \ gone = {}
    OBVIOUS
  <1>3. Alive(mm, gone)
    BY <1>2, FewerAlive
  <1>4. QED
    BY <1>1, <1>3

\* Posts that MOVE or COPY brings in, to the Cestino or anywhere.
LEMMA BroughtLists ==
  ASSUME ListsInv, NEW t, Good(t), Kept(t, highest), Alive(t, dead),
         NEW dest \in Rooms, NEW slot \in GoodSlot, slot.num <= highest,
         dest = Dump \/ ~NothingBrought, ~NothingElsewhere
  PROVE  ListsKept(PutIn(t, dest, slot), highest, dead, dump)
  <1>1. highest \in Nat
    BY ListsFacts
  <1>2. Kept(PutIn(t, dest, slot), highest)
    BY <1>1, PutInKept
  <1>3. PICK mm : mm = PutIn(t, dest, slot) /\ \A q \in Rooms \ {dest} : mm[q] = t[q]
    BY PutInFields
  <1>4. Alive(mm, dead)
    BY <1>3, FewerAlive
  <1>5. QED
    BY <1>2, <1>3, <1>4 DEF ListsKept, Returnable

\* cmd_mmov.
LEMMA MoveLists ==
  ASSUME ListsInv, IInv', NEW r \in rooms, NEW dest \in rooms, NEW num \in Nums(r),
         Move(r, dest, num)
  PROVE  ListsInv'
  <1>1. /\ IInv /\ Good(msg) /\ highest \in Nat /\ r \in Rooms /\ dest \in Rooms
        /\ r # Dump /\ num \in Held(msg[r].slots)
        /\ Kept(msg, highest) /\ Alive(msg, dead)
    BY ListsFacts DEF Move, ListsKept
  <1>2. (dest = Dump \/ ~NothingBrought) /\ ~NothingElsewhere
    BY DEF Move, Served, NothingBrought, NothingElsewhere
  <1>3. \E i \in DOMAIN msg[r].slots : msg[r].slots[i].num = num
    BY <1>1, NumsFound
  <1>4. PICK slot \in GoodSlot : slot = Copied(r, num) /\ slot.num = num /\ num # -1
    <2>1. num # -1
      BY <1>1, NumsFound
    <2>2. NoRoom \in Rooms \cup {NoRoom}
      OBVIOUS
    <2>3. QED
      BY <1>1, <1>3, <2>1, <2>2, FoundSlot DEF Copied, Slots
  <1>5. PICK t : t = TakeOut(msg, r, num) /\ Good(t)
    BY <1>1, <1>3, TakeOutGood
  <1>6. /\ \A q \in Rooms \ {r} : t[q] = msg[q]
        /\ Held(t[r].slots) \subseteq Held(msg[r].slots)
        /\ Sorted(msg[r].slots) => Sorted(t[r].slots)
    BY <1>1, <1>5, TakeOutFields
  <1>7. \A q \in Rooms : /\ Held(t[q].slots) \subseteq Held(msg[q].slots)
                         /\ Sorted(msg[q].slots) => Sorted(t[q].slots)
    BY <1>6
  <1>8. Kept(t, highest) /\ Alive(t, dead)
    BY <1>1, <1>2, <1>7, FewerLists
  <1>9. slot.num <= highest
    BY <1>1, <1>4, KeptRoom
  <1>10. PICK mm : /\ mm = PutIn(t, dest, slot) /\ Good(mm)
                   /\ ListsKept(mm, highest, dead, dump)
    BY <1>1, <1>2, <1>4, <1>5, <1>8, <1>9, BroughtLists, PutInGood
  <1>11. CASE msg' = mm /\ Written(0)
    <2>1. /\ highest + 0 = highest /\ (highest + 1 .. highest + 0) = {}
          /\ highest <= highest
      BY <1>1
    <2>2. highest' = highest /\ dead' = dead
      BY <1>11, <2>1 DEF Written
    <2>3. QED
      BY <1>1, <1>10, <1>11, <2>1, <2>2, ListsStep DEF Move, Served, diskVars
  <1>12. CASE msg' = Told(mm) /\ Written(Notices)
    BY <1>10, <1>12, NoticedLists DEF Move, Served, diskVars
  <1>13. QED
    BY <1>4, <1>5, <1>10, <1>11, <1>12 DEF Move

\* cmd_mcpy.
LEMMA CopyLists ==
  ASSUME ListsInv, IInv', NEW r \in rooms, NEW dest \in rooms, NEW num \in Nums(r),
         Copy(r, dest, num)
  PROVE  ListsInv'
  <1>1. /\ IInv /\ Good(msg) /\ highest \in Nat /\ highest <= highest
        /\ r \in Rooms /\ dest \in Rooms
        /\ num \in Held(msg[r].slots)
        /\ Kept(msg, highest) /\ Alive(msg, dead)
    BY ListsFacts DEF ListsKept
  <1>2. (dest = Dump \/ ~NothingBrought) /\ ~NothingElsewhere
    BY DEF Copy, Served, NothingBrought, NothingElsewhere
  <1>3. PICK slot \in GoodSlot : slot = Copied(r, num) /\ slot.num = num
    <2>1. \E i \in DOMAIN msg[r].slots : msg[r].slots[i].num = num
      BY <1>1, NumsFound
    <2>2. NoRoom \in Rooms \cup {NoRoom}
      OBVIOUS
    <2>3. QED
      BY <1>1, <2>1, <2>2, FoundSlot DEF Copied, Slots
  <1>4. slot.num <= highest
    BY <1>1, <1>3, KeptRoom
  <1>5. ListsKept(PutIn(msg, dest, slot), highest, dead, dump)
    BY <1>1, <1>2, <1>4, BroughtLists
  <1>6. QED
    BY <1>1, <1>3, <1>5, ListsStep DEF Copy, Served, diskVars

\* cmd_rlen.
LEMMA ResizeLists ==
  ASSUME ListsInv, IInv', NEW r \in rooms, NEW n \in Lengths, Resize(r, n)
  PROVE  ListsInv'
  <1>1. /\ IInv /\ Good(msg) /\ highest \in Nat /\ highest <= highest
        /\ r \in Rooms /\ Kept(msg, highest) /\ Alive(msg, dead)
        /\ ~NothingElsewhere
    BY ListsFacts DEF ListsKept, Resize, Served, NothingElsewhere
  <1>2. PICK m : /\ m = msg'
                 /\ \A q \in Rooms \ {r} : m[q] = msg[q]
                 /\ m[r].slots = Resized(msg[r].slots, n, Free)
    <2>1. PICK x : x = [slots |-> Resized(msg[r].slots, n, Free),
                        highloc |-> 0, highmsg |-> 0, dirty |-> TRUE]
      OBVIOUS
    <2>2. x.slots = Resized(msg[r].slots, n, Free)
      BY <2>1
    <2>3. msg' = [msg EXCEPT ![r] = x] /\ msg \in [Rooms -> MsgList]
      BY <1>1, <2>1 DEF Resize, Good
    <2>4. QED
      BY <1>1, <2>2, <2>3
  <1>3. \A q \in Rooms : /\ Held(m[q].slots) \subseteq Held(msg[q].slots)
                         /\ Sorted(msg[q].slots) => Sorted(m[q].slots)
    BY <1>1, <1>2, GoodFields, ResizedHeld
  <1>4. Kept(m, highest) /\ Alive(m, dead)
    BY <1>1, <1>3, FewerLists
  <1>5. PICK d : d = dump'
    OBVIOUS
  <1>6. ListsKept(m, highest, dead, d)
    BY <1>1, <1>4 DEF ListsKept, Returnable
  <1>7. QED
    BY <1>1, <1>2, <1>5, <1>6, ListsStep DEF Resize, Served, diskVars

\* crash_save_perfavore: a list on disk is one that is or that was in memory.
LEMMA SaveLists ==
  ASSUME ListsInv, IInv', Save
  PROVE  ListsInv'
  <1>1. /\ IInv /\ Good(msg) /\ highest \in Nat /\ disk.highest \in Nat
        /\ disk.highest <= highest
        /\ ListsKept(msg, highest, dead, dump) /\ Kept(msg, highest)
        /\ InOrder(disk.slots, disk.highmsg, disk.highest)
    BY ListsFacts DEF ListsInv, ListsKept, IInv, GoodDisk
  <1>2. /\ commands' = commands /\ dump' = dump
        /\ highest' = highest /\ dead' = dead
    BY DEF Save
  <1>3. /\ NothingBrought' <=> NothingBrought
        /\ NothingElsewhere' <=> NothingElsewhere
    BY <1>2 DEF NothingBrought, NothingElsewhere
  <1>4. PICK m : m = msg'
    OBVIOUS
  <1>5. ASSUME NEW r \in Rooms
        PROVE  m[r].slots = msg[r].slots /\ m[r].highmsg = msg[r].highmsg
    <2>1. msg[r] \in MsgList
      BY <1>1, GoodFields
    <2>2. m[r] = IF r \in rooms THEN [msg[r] EXCEPT !.dirty = FALSE] ELSE msg[r]
      BY <1>4 DEF Save
    <2>3. QED
      BY <2>1, <2>2 DEF MsgList
  <1>6. PICK d : /\ d = disk' /\ d.highest = highest
                 /\ \A r \in Rooms : /\ d.highmsg[r] = msg[r].highmsg
                                     /\ \/ d.slots[r] = msg[r].slots
                                        \/ d.slots[r] = disk.slots[r]
    BY DEF Save, Saved, Slots
  <1>7. InOrder(d.slots, d.highmsg, highest)
    <2>1. \A r \in Rooms : /\ Held(disk.slots[r]) \subseteq Nat
                           /\ disk.highmsg[r] \in Int
                           /\ msg[r].highmsg \in Int
      BY <1>1, GoodFields, HeldNat DEF IInv, GoodDisk
    <2>2. \A r \in Rooms : \A n \in Held(d.slots[r]) : n <= highest
      <3>1. ASSUME NEW r \in Rooms, NEW n \in Held(disk.slots[r])
            PROVE  n <= highest
        <4>1. n \in Nat /\ n <= disk.highest
          BY <1>1, <2>1 DEF InOrder
        <4>2. QED
          BY <1>1, <4>1
      <3>2. QED
        BY <1>1, <1>6, <3>1, KeptRoom
    <2>3. ASSUME NothingBrought, NEW r \in Rooms \ {Dump}
          PROVE  Sorted(d.slots[r])
      BY <1>1, <1>6, <2>3, KeptRoom DEF InOrder
    <2>4. ASSUME NothingElsewhere, NEW r \in Rooms \ {Dump}
          PROVE  /\ d.highmsg[r] <= highest
                 /\ \A n \in Held(d.slots[r]) : n <= d.highmsg[r]
      <3>1. /\ msg[r].highmsg <= highest
            /\ \A n \in Held(msg[r].slots) : n <= msg[r].highmsg
        BY <1>1, <2>4, KeptRoom
      <3>2. ASSUME NEW n \in Held(disk.slots[r])
            PROVE  n <= msg[r].highmsg
        <4>1. n <= disk.highmsg[r] /\ disk.highmsg[r] <= msg[r].highmsg
          BY <1>1, <2>4 DEF InOrder, ListsKept
        <4>2. n \in Nat /\ disk.highmsg[r] \in Int /\ msg[r].highmsg \in Int
          BY <2>1
        <4>3. QED
          BY <4>1, <4>2
      <3>3. QED
        BY <1>6, <3>1, <3>2
    <2>5. QED
      BY <2>2, <2>3, <2>4 DEF InOrder
  <1>8. InOrder(disk.slots, disk.highmsg, disk.highest)'
    BY <1>3, <1>6, <1>7 DEF InOrder
  <1>9. SlotsOf(m) = SlotsOf(msg) /\ HighmsgOf(m) = HighmsgOf(msg)
    BY <1>5 DEF SlotsOf, HighmsgOf
  <1>10. Kept(msg, highest)'
    BY <1>1, <1>2, <1>3, <1>4, <1>9 DEF Kept, InOrder, SlotsOf, HighmsgOf
  <1>11. Alive(msg, dead)'
    BY <1>1, <1>2, <1>3, <1>4, <1>5 DEF ListsKept, Alive
  <1>12. Returnable(msg, dump)'
    <2>1. \A k \in DOMAIN dump : dump[k] \in Rooms \cup {NoRoom}
      BY <1>1 DEF IInv, Homes
    <2>2. Returnable(m, dump)
      BY <1>1, <1>5, <2>1, RoomsAssumption DEF ListsKept, Returnable
    <2>3. QED
      BY <1>2, <1>3, <1>4, <2>2 DEF Returnable
  <1>13. ASSUME NothingElsewhere', NEW r \in Rooms \ {Dump}
         PROVE  disk'.highmsg[r] <= msg'[r].highmsg
    <2>1. /\ msg[r].highmsg \in Int /\ disk'.highmsg[r] = msg[r].highmsg
          /\ msg'[r].highmsg = msg[r].highmsg
      BY <1>1, <1>4, <1>5, <1>6, GoodFields
    <2>2. QED
      BY <2>1
  <1>14. ListsKept(msg, highest, dead, dump)'
    BY <1>10, <1>11, <1>12, <1>13 DEF ListsKept
  <1>15. disk'.highest <= highest'
    BY <1>1, <1>2, <1>6
  <1>16. QED
    BY <1>8, <1>14, <1>15 DEF ListsInv

\* The restart: the lists in memory are those on disk.
LEMMA CrashLists ==
  ASSUME ListsInv, IInv', CrashRestart
  PROVE  ListsInv'
  <1>1. /\ commands' = commands /\ disk' = disk /\ highest' = disk.highest
        /\ "CRASH" \in commands
        /\ InOrder(disk.slots, disk.highmsg, disk.highest)
        /\ GoodDisk
    BY DEF CrashRestart, ListsInv, IInv
  <1>2. /\ NothingBrought' <=> NothingBrought
        /\ NothingElsewhere' <=> NothingElsewhere
    BY <1>1 DEF NothingBrought, NothingElsewhere
  <1>3. PICK m : /\ m = msg'
                 /\ \A r \in Rooms : /\ m[r].slots = disk.slots[r]
                                     /\ m[r].highmsg = disk.highmsg[r]
    BY DEF CrashRestart
  <1>4. InOrder(disk.slots, disk.highmsg, disk.highest)'
    BY <1>1, <1>2 DEF InOrder
  <1>5. Kept(m, disk.highest)
    BY <1>1, <1>3 DEF Kept, InOrder, SlotsOf, HighmsgOf
  <1>6. Kept(msg, highest)'
    BY <1>1, <1>2, <1>3, <1>5 DEF Kept, InOrder, SlotsOf, HighmsgOf
  <1>7. Alive(msg, dead)' /\ Returnable(msg, dump)'
    BY <1>1 DEF Alive, Returnable
  <1>8. ASSUME NEW r \in Rooms \ {Dump}
        PROVE  disk'.highmsg[r] <= msg'[r].highmsg
    <2>1. disk.highmsg[r] \in Int
      BY <1>1 DEF GoodDisk
    <2>2. QED
      BY <1>1, <1>3, <2>1
  <1>9. disk'.highest <= highest'
    <2>1. disk.highest \in Nat
      BY <1>1 DEF GoodDisk
    <2>2. QED
      BY <1>1, <2>1
  <1>10. QED
    BY <1>4, <1>6, <1>7, <1>8, <1>9 DEF ListsInv, ListsKept

\* Empty lists hold nothing.
LEMMA InitLists == Init => ListsInv
  <1> SUFFICES ASSUME Init PROVE ListsInv
    OBVIOUS
  <1>1. IInv
    BY InitEstablishes
  <1>2. PICK size \in [Rooms -> Lengths] :
          /\ msg = [r \in Rooms |-> [slots |-> Empty(size[r]), highloc |-> 0,
                                     highmsg |-> 0, dirty |-> FALSE]]
          /\ dump = [i \in 1 .. size[Dump] |-> NoRoom]
    BY DEF Init
  <1>3. \A r \in Rooms : /\ msg[r].slots = Empty(size[r]) /\ msg[r].highmsg = 0
                         /\ disk.slots[r] = Empty(size[r]) /\ disk.highmsg[r] = 0
    BY <1>2 DEF Init, Slots
  <1>4. ASSUME NEW n PROVE Held(Empty(n)) = {} /\ Sorted(Empty(n))
    BY FreeSlot DEF Held, Sorted, Empty
  <1>5. highest = 0 /\ disk.highest = 0
    BY DEF Init
  <1>6. InOrder(disk.slots, disk.highmsg, disk.highest)
    BY <1>3, <1>4, <1>5 DEF InOrder
  <1>7. Kept(msg, highest)
    BY <1>3, <1>4, <1>5, KeptRooms
  <1>8. Alive(msg, dead)
    BY <1>3, <1>4 DEF Alive
  <1>9. Returnable(msg, dump)
    BY <1>2, RoomsAssumption DEF Returnable
  <1>10. QED
    BY <1>1, <1>3, <1>5, <1>6, <1>7, <1>8, <1>9 DEF ListsInv, ListsKept

\* The commands, the savings and the crashes.
LEMMA NextLists == ListsInv /\ [Next]_vars => ListsInv'
  <1> SUFFICES ASSUME ListsInv, [Next]_vars PROVE ListsInv'
    OBVIOUS
  <1>1. IInv'
    BY NextPreserves DEF ListsInv
  <1>2. ASSUME NEW r \in rooms, Post(r) \/ PostRefused(r) \/ Rdel(r)
        PROVE  ListsInv'
    BY <1>1, <1>2, PostLists, RefusedLists, RdelLists
  <1>3. ASSUME NEW r \in rooms, NEW num \in Nums(r),
               Delete(r, num) \/ DumpPost(r, num)
        PROVE  ListsInv'
    BY <1>1, <1>3, DeleteLists, DumpPostLists
  <1>4. ASSUME NEW r \in rooms, NEW dest \in rooms, NEW num \in Nums(r),
               Move(r, dest, num) \/ Copy(r, dest, num)
        PROVE  ListsInv'
    BY <1>1, <1>4, MoveLists, CopyLists
  <1>5. ASSUME NEW num \in Nums(Dump), Undelete(num)
        PROVE  ListsInv'
    BY <1>1, <1>5, UndeleteLists
  <1>6. ASSUME NEW r \in rooms, NEW n \in Lengths, Resize(r, n)
        PROVE  ListsInv'
    BY <1>1, <1>6, ResizeLists
  <1>7. CASE Save
    BY <1>1, <1>7, SaveLists
  <1>8. CASE CrashRestart
    BY <1>1, <1>8, CrashLists
  <1>9. CASE UNCHANGED vars
    <2>1. /\ commands' = commands /\ disk' = disk /\ msg' = msg
          /\ highest' = highest /\ dead' = dead /\ dump' = dump
      BY <1>9 DEF vars, diskVars
    <2>2. highest \in Nat /\ highest <= highest /\ ListsKept(msg, highest, dead, dump)
      BY ListsFacts
    <2>3. PICK m, h, g, d : m = msg /\ h = highest /\ g = dead /\ d = dump
      OBVIOUS
    <2>4. QED
      BY <1>1, <2>1, <2>2, <2>3, ListsStep
  <1>10. QED
    BY <1>2, <1>3, <1>4, <1>5, <1>6, <1>7, <1>8, <1>9 DEF Next

-----------------------------------------------------------------------------
(***************************************************************************)
(* The reader.                                                             *)
(***************************************************************************)
\* The reader changes no list.
LEMMA ReaderLists ==
  /\ ReadingInit => Init
  /\ [ReadingNext]_readingVars => [Next]_vars
  BY DEF ReadingInit, ReadingNext, readingVars, Reads, ReadNew, ReadForward,
         ReadReverse, ReadNext, ReadBack, ReadAgain, ReadBrief, Leave, Enter, Others

\* In every reachable state, on disk as in memory, the posts of a room stand in
\* the order of their numbers, are not dead, and are none that the room does not
\* know of, as far as the commands allow (rooms.c, messaggi.c, cestino.c).
THEOREM ListsInvariantReading == ReadingSpec => []ListsInv
  <1>1. ReadingInit => ListsInv
    BY InitLists, ReaderLists
  <1>2. ListsInv /\ [ReadingNext]_readingVars => ListsInv'
    BY NextLists, ReaderLists
  <1>3. QED
    BY <1>1, <1>2, PTL DEF ReadingSpec

\* The first slot of some is one of them.
LEMMA FirstIn ==
  ASSUME NEW S \in SUBSET Nat, S # {}
  PROVE  First(S) \in S /\ \A i \in S : First(S) <= i
  <1>1. \E m \in S : \A n \in S : m <= n
    BY Least
  <1>2. Min(S) \in S /\ \A n \in S : Min(S) <= n
    BY <1>1 DEF Min
  <1>3. QED
    BY <1>2 DEF First

\* So is the last one.
LEMMA LastIn ==
  ASSUME NEW k \in Nat, NEW S \in SUBSET (1 .. k), S # {}
  PROVE  Last(S) \in S
  <1> DEFINE T == { k - i : i \in S }
  <1>1. T \in SUBSET Nat /\ T # {}
    <2>1. ASSUME NEW i \in S PROVE k - i \in Nat
      <3>1. i \in 1 .. k
        OBVIOUS
      <3>2. QED
        BY <3>1
    <2>2. QED
      BY <2>1
  <1>2. PICK m \in T : \A n \in T : m <= n
    <2> HIDE DEF T
    <2>1. QED
      BY <1>1, Least
  <1>3. PICK i \in S : m = k - i
    BY <1>2
  <1>4. ASSUME NEW j \in S PROVE i >= j
    <2>1. k - j \in T
      OBVIOUS
    <2>2. k - i <= k - j
      BY <1>2, <1>3, <2>1
    <2>3. i \in 1 .. k /\ j \in 1 .. k
      OBVIOUS
    <2>4. QED
      BY <2>2, <2>3
  <1>5. Max(S) \in S
    BY <1>3, <1>4 DEF Max
  <1>6. QED
    BY <1>5 DEF Last

\* What the server remembers of the reader are numbers.
ReaderInv ==
  /\ lastread \in Nat
  /\ {newmsg, fullroom} \subseteq Int

LEMMA ListIn ==
  ASSUME IInv
  PROVE  /\ List \in Lists /\ msg[Here].highmsg \in Int
         /\ \E n \in Nat : n = Len(List) /\ DOMAIN List = 1 .. n
         /\ \A i \in DOMAIN List : List[i].num \in {-1} \cup (Nat \ {0})
  <1>1. List \in Lists /\ msg[Here].highmsg \in Int
    BY GoodFields, ReadingAssumption DEF IInv, List, Slots
  <1>2. QED
    BY <1>1, ListProps DEF GoodSlot

\* The greater of two numbers is a number.
LEMMA MaxOfTwo ==
  ASSUME NEW a \in Int, NEW b \in Int
  PROVE  Max({a, b}) \in {a, b}
  BY DEF Max

\* msg_send.
LEMMA ShowNumbers ==
  ASSUME ListsInv, ReaderInv, NEW i \in {0} \cup DOMAIN List, NEW new, Show(i, new)
  PROVE  lastread' \in Nat /\ fullroom' \in Int
  <1>1. \A j \in DOMAIN List : List[j].num \in {-1} \cup (Nat \ {0})
    BY ListIn DEF ListsInv
  <1>2. CASE UNCHANGED << lastread, fullroom >>
    BY <1>2 DEF ReaderInv
  <1>3. CASE i # 0 /\ List[i].num > 0 /\ lastread' = List[i].num
             /\ fullroom' \in {fullroom, List[i].num, Max({fullroom, List[i].num})}
    <2>1. PICK x \in Nat : x = List[i].num
      BY <1>1, <1>3
    <2>2. fullroom \in Int /\ x \in Int
      BY DEF ReaderInv
    <2>3. Max({fullroom, x}) \in Int
      BY <2>2, MaxOfTwo
    <2>4. QED
      BY <1>3, <2>1, <2>2, <2>3
  <1>4. QED
    BY <1>2, <1>3 DEF Show

\* A READ looks at a slot of the list, if at any.
LEMMA SlotsOfModes ==
  ASSUME IInv
  PROVE  /\ \A S \in SUBSET DOMAIN List : {First(S), Last(S)} \subseteq {0} \cup DOMAIN List
         /\ Reverse \in {0} \cup DOMAIN List
         /\ \A dir \in {-1, 0, 1} : NextSlot(dir) \in {0} \cup DOMAIN List
         /\ 0 .. Len(List) \subseteq {0} \cup DOMAIN List
  <1>1. PICK n \in Nat : n = Len(List) /\ DOMAIN List = 1 .. n
    BY ListIn
  <1>2. ASSUME NEW S \in SUBSET DOMAIN List
        PROVE  First(S) \in {0} \cup DOMAIN List /\ Last(S) \in {0} \cup DOMAIN List
    <2>1. CASE S = {}
      BY <2>1 DEF First, Last
    <2>2. CASE S # {}
      <3>1. S \in SUBSET Nat /\ S \in SUBSET (1 .. n)
        BY <1>1
      <3>2. QED
        BY <2>2, <3>1, FirstIn, LastIn
    <2>3. QED
      BY <2>1, <2>2
  <1>3. Reverse \in {0} \cup DOMAIN List
    BY <1>1 DEF Reverse, NotOverwritten
  <1>4. ASSUME NEW dir \in {-1, 0, 1}
        PROVE  NextSlot(dir) \in {0} \cup DOMAIN List
    <2>1. First({ i \in DOMAIN List : List[i].num > lastread }) \in {0} \cup DOMAIN List
      BY <1>2
    <2>2. Last({ i \in DOMAIN List : List[i].num < lastread }) \in {0} \cup DOMAIN List
      BY <1>2
    <2>3. QED
      BY <2>1, <2>2 DEF NextSlot
  <1>5. 0 .. Len(List) \subseteq {0} \cup DOMAIN List
    BY <1>1
  <1>6. QED
    BY <1>2, <1>3, <1>4, <1>5

\* A READ, a step in or out, or a step of the others.
LEMMA ReaderKeeps ==
  ASSUME ListsInv, ReaderInv, rdir \in {-1, 0, 1}, [ReadingNext]_readingVars
  PROVE  ReaderInv' /\ rdir' \in {-1, 0, 1}
  <1>1. IInv
    BY DEF ListsInv
  <1>2. ASSUME NEW i \in {0} \cup DOMAIN List, NEW new, Show(i, new), newmsg' = newmsg
        PROVE  ReaderInv'
    BY <1>2, ShowNumbers DEF ReaderInv
  <1>3. CASE ReadNew
    <2>1. PICK lastold \in BOOLEAN : Show(New(lastold), TRUE)
      BY <1>3 DEF ReadNew
    <2>2. New(lastold) \in {0} \cup DOMAIN List
      BY <1>1, SlotsOfModes DEF New, NotOverwritten
    <2>3. QED
      BY <1>2, <1>3, <2>1, <2>2 DEF ReadNew, Reads
  <1>4. CASE ReadForward
    <2>1. PICK i : Show(i, FALSE) /\ (\/ i = Forward
                                      \/ \E n \in 0 .. Len(List) : i = LastN(n)
                                      \/ \E local \in 0 .. MaxNum[commands] :
                                           i = Number(local))
      BY <1>4 DEF ReadForward
    <2>2. /\ Forward \in {0} \cup DOMAIN List
          /\ \A n : LastN(n) \in {0} \cup DOMAIN List
          /\ \A local : Number(local) \in {0} \cup DOMAIN List
      BY <1>1, SlotsOfModes DEF Forward, LastN, Number, NotOverwritten
    <2>3. QED
      BY <1>2, <1>4, <2>1, <2>2 DEF ReadForward, Reads
  <1>5. CASE ReadReverse
    BY <1>1, <1>2, <1>5, SlotsOfModes DEF ReadReverse, Reads
  <1>6. CASE ReadNext
    BY <1>1, <1>2, <1>6, SlotsOfModes DEF ReadNext, Reads
  <1>7. CASE ReadBack
    <2>1. -rdir \in {-1, 0, 1}
      OBVIOUS
    <2>2. NextSlot(-rdir) \in {0} \cup DOMAIN List
      BY <1>1, <2>1, SlotsOfModes
    <2>3. Show(NextSlot(-rdir), FALSE) /\ newmsg' = newmsg /\ rdir' = -rdir
      BY <1>7 DEF ReadBack, Reads
    <2>4. QED
      BY <1>2, <2>1, <2>2, <2>3
  <1>8. CASE ReadAgain
    <2>1. Again \in {0} \cup DOMAIN List
      BY <1>1, SlotsOfModes DEF Again
    <2>2. QED
      BY <1>2, <1>8, <2>1 DEF ReadAgain, Reads
  <1>9. CASE ReadBrief
    BY <1>1, <1>2, <1>9, SlotsOfModes DEF ReadBrief, Reads
  <1>10. CASE Leave
    <2>1. msg[Here].highmsg \in Int /\ newmsg \in Int /\ fullroom \in Int
          /\ lastread \in Int
      BY <1>1, ListIn DEF ReaderInv
    <2>2. Max({fullroom, lastread}) \in Int
      BY <2>1, MaxOfTwo
    <2>3. QED
      BY <1>10, <2>1, <2>2 DEF Leave, ReaderInv
  <1>11. CASE Enter
    BY <1>11 DEF Enter, ReaderInv
  <1>12. CASE Others \/ UNCHANGED readingVars
    BY <1>12 DEF Others, readingVars, readerVars, ReaderInv
  <1>13. QED
    BY <1>3, <1>4, <1>5, <1>6, <1>7, <1>8, <1>9, <1>10, <1>11, <1>12
       DEF ReadingNext

LEMMA ReaderInvariant ==
  ReadingSpec => [](ListsInv /\ ReaderInv /\ rdir \in {-1, 0, 1})
  <1>1. ReadingInit => ReaderInv /\ rdir \in {-1, 0, 1}
    BY DEF ReadingInit, ReaderInv
  <1>2. ListsInv /\ ReaderInv /\ rdir \in {-1, 0, 1} /\ [ReadingNext]_readingVars
          => ReaderInv' /\ (rdir \in {-1, 0, 1})'
    BY ReaderKeeps
  <1>3. QED
    BY <1>1, <1>2, ListsInvariantReading, PTL DEF ReadingSpec

-----------------------------------------------------------------------------
(***************************************************************************)
(* The theorems.                                                           *)
(***************************************************************************)
\* new_msg: the room has a highmsg above what the user has read as long as it
\* holds a post above it.
THEOREM NewPostsSeen == ReadingSpec => []NewMsgSeen
  <1>1. ListsInv /\ ReaderInv => NewMsgSeen
    <2> SUFFICES ASSUME ListsInv, ReaderInv, NothingElsewhere,
                        NEW num \in Posts, num > fullroom
                 PROVE  fullroom < msg[Here].highmsg
      BY DEF NewMsgSeen, NewMsgTells, NewMsg
    <2>1. /\ Here \in Rooms /\ Here # Dump /\ IInv /\ Kept(msg, highest)
          /\ num \in Held(msg[Here].slots) /\ msg[Here].slots \in Lists
      BY ReadingAssumption, ListsFacts, ListIn DEF ListsKept, Posts, List, Slots
    <2>2. num <= msg[Here].highmsg
      BY <2>1, KeptRoom
    <2>3. num \in Int /\ fullroom \in Int /\ msg[Here].highmsg \in Int
      BY <2>1, HeldNat, ListIn DEF ReaderInv
    <2>4. QED
      BY <2>2, <2>3
  <1>2. QED
    BY <1>1, ReaderInvariant, PTL

\* cmd_read, READ 10: whatever the others did since the last READ, the next post
\* is one that the message file still yields.
THEOREM ReadingGetsOn == ReadingSpec => []NextDelivers
  <1>1. ListsInv /\ ReaderInv => NextDelivers
    <2> SUFFICES ASSUME ListsInv, ReaderInv, NothingBrought, "CRASH" \notin commands,
                        lowest = 1, rdir = 1, lastread > 0,
                        NEW num \in Posts, num > lastread
                 PROVE  LET i == NextSlot(rdir)
                        IN  i # 0 /\ Readable(List[i].num) /\ List[i].num > lastread
      BY DEF NextDelivers
    <2>1. PICK n \in Nat : DOMAIN List = 1 .. n
      BY ListIn DEF ListsInv
    <2> DEFINE S == { i \in DOMAIN List : List[i].num > lastread }
    <2>2. S # {} /\ S \in SUBSET Nat
      BY <2>1 DEF Posts, Nums, List, Slots
    <2>3. PICK i \in S : i = First(S)
      <3> HIDE DEF S
      <3>1. QED
        BY <2>2, FirstIn
    <2>4. NextSlot(rdir) = i
      BY <2>3 DEF NextSlot
    <2>5. i # 0 /\ List[i].num > lastread /\ i \in DOMAIN List
      BY <2>1, <2>3
    <2>6. PICK x \in {-1} \cup (Nat \ {0}) : x = List[i].num
      BY <2>5, ListIn DEF ListsInv
    <2>7. x > 0 /\ x >= 1 /\ x # -1
      BY <2>5, <2>6 DEF ReaderInv
    <2>8. x \in Held(msg[Here].slots)
      BY <2>5, <2>6, <2>7 DEF Held, List, Slots
    <2>9. x \notin dead
      BY <2>8, ReadingAssumption, ListsFacts DEF ListsKept, Alive
    <2>10. QED
      BY <2>4, <2>5, <2>6, <2>7, <2>9 DEF Readable
  <1>2. QED
    BY <1>1, ReaderInvariant, PTL

\* cmd_read, READ 10: no post lies between one that is shown and the next.
THEOREM NoPostSkipped == ReadingSpec => NothingSkipped
  <1>1. ListsInv /\ ReaderInv /\ [ReadingNext]_readingVars
          => [NothingBrought /\ ReadNext /\ rdir = 1
                => ~ \E num \in Posts : lastread < num /\ num < lastread']_readingVars
    <2> SUFFICES ASSUME ListsInv, ReaderInv, NothingBrought, ReadNext, rdir = 1,
                        NEW num \in Posts, lastread < num, num < lastread'
                 PROVE  FALSE
      OBVIOUS
    <2>1. PICK n \in Nat : DOMAIN List = 1 .. n
      BY ListIn DEF ListsInv
    <2>2. PICK j \in DOMAIN List : List[j].num = num /\ num # -1
      BY DEF Posts, Nums, List, Slots
    <2> DEFINE S == { i \in DOMAIN List : List[i].num > lastread }
    <2>3. num \in Nat /\ lastread \in Nat /\ j \in S /\ S # {} /\ S \in SUBSET Nat
      BY <2>1, <2>2, ListIn DEF ListsInv, ReaderInv
    <2>4. PICK i \in S : i = First(S) /\ i <= j
      <3> HIDE DEF S
      <3>1. QED
        BY <2>3, FirstIn
    <2>5. NextSlot(rdir) = i
      BY <2>4 DEF NextSlot
    <2>6. lastread' = List[i].num /\ List[i].num > 0
      <3>1. Show(i, FALSE)
        BY <2>5 DEF ReadNext
      <3>2. lastread' # lastread
        BY <2>3
      <3>3. QED
        BY <3>1, <3>2 DEF Show
    <2>7. PICK x \in Nat : x = List[i].num /\ x # -1 /\ num < x
      <3>1. PICK x \in {-1} \cup (Nat \ {0}) : x = List[i].num
        BY <2>4, ListIn DEF ListsInv
      <3>2. x \in Nat /\ x # -1
        BY <2>6, <3>1
      <3>3. num < x
        BY <2>6, <3>1
      <3>4. QED
        BY <3>1, <3>2, <3>3
    <2>8. i < j
      BY <2>1, <2>2, <2>3, <2>4, <2>7
    <2>9. Sorted(List)
      BY ReadingAssumption, ListsFacts, KeptRoom DEF ListsKept, List, Slots
    <2>10. x < num
      BY <2>2, <2>4, <2>7, <2>8, <2>9 DEF Sorted
    <2>11. QED
      BY <2>3, <2>7, <2>10
  <1>2. QED
    BY <1>1, ReaderInvariant, PTL DEF ReadingSpec, NothingSkipped

\* cmd_read: the slots after the one shown are as many as the later posts.
THEOREM RemainingCounted == ReadingSpec => []RemainingRight
  <1>1. ListsInv => RemainingRight
    <2> SUFFICES ASSUME ListsInv, NothingBrought, "POST_LONG" \notin commands,
                        NEW i \in DOMAIN List, List[i].num > 0
                 PROVE  Cardinality({ j \in DOMAIN List : List[j].num > List[i].num })
                          = Len(List) - i
      BY DEF RemainingRight
    <2>1. IInv /\ Here \in Rooms /\ Here # Dump /\ Good(msg) /\ Kept(msg, highest)
      BY ReadingAssumption, ListsFacts DEF ListsKept
    <2>2. PICK n \in Nat : n = Len(List) /\ DOMAIN List = 1 .. n
      BY <2>1, ListIn
    <2>3. Sorted(List) /\ Ordered(List)
      BY <2>1, KeptRoom, GoodFields DEF List, Slots
    <2>4. \A j \in 1 .. n : List[j].num \in Int /\ (List[j].num = -1 \/ List[j].num > 0)
      BY <2>1, <2>2, ListIn
    <2>5. ASSUME NEW j \in 1 .. n
          PROVE  List[j].num > List[i].num <=> i < j
      <3>1. CASE i < j
        <4>1. List[j].num # -1
          BY <2>2, <2>3, <2>4, <3>1 DEF Ordered
        <4>2. List[i].num < List[j].num
          BY <2>2, <2>3, <3>1, <4>1 DEF Sorted
        <4>3. QED
          BY <2>2, <2>4, <3>1, <4>2
      <3>2. CASE j < i
        <4>1. CASE List[j].num = -1
          BY <2>2, <2>4, <3>2, <4>1
        <4>2. CASE List[j].num # -1
          <5>1. List[j].num < List[i].num
            BY <2>2, <2>3, <3>2, <4>2 DEF Sorted
          <5>2. QED
            BY <2>2, <2>4, <3>2, <5>1
        <4>3. QED
          BY <4>1, <4>2
      <3>3. CASE j = i
        BY <2>4, <3>3
      <3>4. QED
        BY <2>2, <3>1, <3>2, <3>3
    <2>6. { j \in DOMAIN List : List[j].num > List[i].num } = (i + 1) .. n
      BY <2>2, <2>5
    <2>7. Cardinality((i + 1) .. n) = n - i
      <3>1. i \in Int /\ i + 1 \in Int /\ n \in Int /\ i <= n
        BY <2>2
      <3>2. Cardinality((i + 1) .. n) = IF i + 1 > n THEN 0 ELSE n - (i + 1) + 1
        BY <3>1, FS_Interval
      <3>3. QED
        BY <3>1, <3>2
    <2>8. QED
      BY <2>2, <2>6, <2>7
  <1>2. QED
    BY <1>1, ReaderInvariant, PTL
=============================================================================
