------------------------ MODULE RoomPositions_proofs ------------------------
(***************************************************************************)
(* Proofs about the list of rooms and the marks of the users, for any      *)
(* users, rooms and vectors, and any commands but the deletion of a room   *)
(* in the middle of the list, after which the positions are wrong.         *)
(***************************************************************************)
EXTENDS RoomPositions, SequenceTheorems, TLAPS

-----------------------------------------------------------------------------
(***************************************************************************)
(* The inductive invariant.                                                *)
(***************************************************************************)
Distinct(s) == \A i, j \in DOMAIN s : s[i] = s[j] => i = j

\* A list of rooms with numbers up to n, among them the Lobby.
Listed(s, n) == /\ n \in Nat
                /\ s \in Seq(1 .. n)
                /\ Distinct(s)
                /\ \E i \in DOMAIN s : s[i] = Lobby

ListInv ==
  /\ nslot \in Nat /\ crashes \in Nat
  /\ Listed(order, num) /\ Len(order) <= nslot
  /\ pos \in [Rooms -> Nat]
  /\ \A i \in DOMAIN order : pos[order[i]] = i - 1
  /\ Listed(disk.order, disk.num) /\ Len(disk.order) <= disk.nslot
  /\ disk.num <= num

VectorsInv ==
  /\ online \subseteq Users
  /\ DOMAIN mem = Users /\ DOMAIN file = Users
  /\ \A u \in Users : Vector(u) \in Vectors

\* The list on disk is the beginning of that in memory.
PrefixInv ==
  {"RSWP", "RDEL_LAST"} \cap commands = {} =>
     /\ Len(disk.order) <= Len(order)
     /\ \A i \in DOMAIN disk.order : disk.order[i] = order[i]

\* No marks behind those of the last room.
CleanInv ==
  "GROW" \notin commands /\ crashes = 0 =>
     \A u \in Users : \A i \in 0 .. nslot - 1 : i >= Len(order) => Vector(u)[i] = {}

Positions == ListInv /\ VectorsInv /\ PrefixInv /\ CleanInv

PInv == commands \in CommandSets /\ ("RDEL" \notin commands => Positions)

-----------------------------------------------------------------------------
(***************************************************************************)
(* Lists of rooms.                                                         *)
(***************************************************************************)
\* A list has a length, and it is not 0.
LEMMA ListedProps ==
  ASSUME NEW s, NEW n, Listed(s, n)
  PROVE  \E k \in Nat \ {0} : /\ k = Len(s) /\ DOMAIN s = 1 .. k
                              /\ \A i \in 1 .. k : s[i] \in 1 .. n
  <1>1. PICK k \in Nat : k = Len(s) /\ DOMAIN s = 1 .. k
    BY LenProperties DEF Listed
  <1>2. \A i \in 1 .. k : s[i] \in 1 .. n
    BY <1>1, ElementOfSeq DEF Listed
  <1>3. k # 0
    BY <1>1 DEF Listed
  <1>4. QED
    BY <1>1, <1>2, <1>3

\* A function on 1 .. k is a sequence.
LEMMA ArrayIsSeq ==
  ASSUME NEW S, NEW k \in Nat, NEW t \in [1 .. k -> S]
  PROVE  t \in Seq(S) /\ Len(t) = k
  <1>1. t \in Seq(S)
    BY SeqDef
  <1>2. PICK l \in Nat : l = Len(t) /\ DOMAIN t = 1 .. l
    BY <1>1, LenProperties
  <1>3. l = k
    BY <1>2
  <1>4. QED
    BY <1>1, <1>2, <1>3

\* A new room at the end.
LEMMA AppendListed ==
  ASSUME NEW s, NEW n, Listed(s, n)
  PROVE  /\ Listed(Append(s, n + 1), n + 1)
         /\ Len(Append(s, n + 1)) = Len(s) + 1
         /\ \A i \in 1 .. Len(s) : Append(s, n + 1)[i] = s[i]
         /\ Append(s, n + 1)[Len(s) + 1] = n + 1
  <1>1. PICK k \in Nat \ {0} : /\ k = Len(s) /\ DOMAIN s = 1 .. k
                               /\ \A i \in 1 .. k : s[i] \in 1 .. n
    BY ListedProps
  <1>2. n \in Nat /\ n + 1 \in Nat
    BY DEF Listed
  <1>3. s \in Seq(1 .. n + 1) /\ n + 1 \in 1 .. n + 1
    <2>1. s \in [1 .. k -> 1 .. n + 1]
      <3>1. s \in [1 .. k -> 1 .. n]
        BY <1>1, LenProperties DEF Listed
      <3>2. 1 .. n \subseteq 1 .. n + 1
        BY <1>2
      <3>3. QED
        BY <3>1, <3>2
    <2>2. QED
      BY <1>2, <2>1, SeqDef
  <1>4. PICK t : t = Append(s, n + 1)
    OBVIOUS
  <1>5. /\ t \in Seq(1 .. n + 1) /\ Len(t) = k + 1
        /\ \A i \in 1 .. k : t[i] = s[i]
        /\ t[k + 1] = n + 1
    BY <1>1, <1>3, <1>4, AppendProperties
  <1>6. DOMAIN t = 1 .. k + 1
    BY <1>5, LenProperties
  <1>7. Distinct(t)
    <2>1. ASSUME NEW i \in 1 .. k PROVE t[i] # n + 1 /\ i \in 1 .. k + 1
      BY <1>1, <1>2, <1>5
    <2>2. \A i \in 1 .. k + 1 : i \in 1 .. k \/ i = k + 1
      OBVIOUS
    <2>3. QED
      BY <1>1, <1>5, <1>6, <2>1, <2>2 DEF Listed, Distinct
  <1>8. \E i \in DOMAIN t : t[i] = Lobby
    BY <1>1, <1>5, <1>6 DEF Listed
  <1>9. QED
    BY <1>1, <1>2, <1>4, <1>5, <1>7, <1>8 DEF Listed

\* Two rooms are exchanged.
LEMMA SwapListed ==
  ASSUME NEW s, NEW n, Listed(s, n), NEW i \in DOMAIN s, NEW j \in DOMAIN s,
         NEW t \in [DOMAIN s -> 1 .. n], t[i] = s[j], t[j] = s[i],
         \A x \in DOMAIN s : x # i /\ x # j => t[x] = s[x]
  PROVE  /\ Listed(t, n) /\ Len(t) = Len(s)
         /\ { t[k] : k \in DOMAIN t } = { s[k] : k \in DOMAIN s }
  <1>1. PICK k \in Nat \ {0} : /\ k = Len(s) /\ DOMAIN s = 1 .. k
                               /\ \A x \in 1 .. k : s[x] \in 1 .. n
    BY ListedProps
  <1>3. /\ t \in [1 .. k -> 1 .. n] /\ DOMAIN t = 1 .. k
        /\ \A x \in 1 .. k : x # i /\ x # j => t[x] = s[x]
    BY <1>1
  <1>4. t \in Seq(1 .. n) /\ Len(t) = k
    <2>1. t \in [1 .. k -> 1 .. n]
      BY <1>3
    <2>2. QED
      BY <1>1, <2>1, ArrayIsSeq
  <1>6. Distinct(t)
    <2>1. \A x, y \in 1 .. k : s[x] = s[y] => x = y
      BY <1>1 DEF Listed, Distinct
    <2>2. i \in 1 .. k /\ j \in 1 .. k
      BY <1>1
    <2>3. \A x, y \in 1 .. k : t[x] = t[y] => x = y
      BY <1>3, <2>1, <2>2
    <2>4. QED
      BY <1>3, <2>3 DEF Distinct
  <1>7. \A x \in DOMAIN s : \E y \in DOMAIN t : t[y] = s[x]
    BY <1>1, <1>3
  <1>8. \A x \in DOMAIN t : \E y \in DOMAIN s : s[y] = t[x]
    BY <1>1, <1>3
  <1>9. \E x \in DOMAIN t : t[x] = Lobby /\ n \in Nat
    BY <1>7 DEF Listed
  <1>10. QED
    <2>1. Listed(t, n)
      BY <1>4, <1>6, <1>9 DEF Listed
    <2>2. { t[x] : x \in DOMAIN t } = { s[x] : x \in DOMAIN s }
      BY <1>7, <1>8
    <2>3. QED
      BY <1>1, <1>4, <2>1, <2>2

\* The last room is deleted.
LEMMA CutListed ==
  ASSUME NEW s, NEW n, Listed(s, n), s[Len(s)] # Lobby
  PROVE  /\ Listed(Without(s, Len(s)), n)
         /\ Len(Without(s, Len(s))) = Len(s) - 1
         /\ \A i \in 1 .. Len(s) - 1 : Without(s, Len(s))[i] = s[i]
  <1>1. PICK k \in Nat \ {0} : /\ k = Len(s) /\ DOMAIN s = 1 .. k
                               /\ \A x \in 1 .. k : s[x] \in 1 .. n
    BY ListedProps
  <1>2. k - 1 \in Nat /\ 1 .. k - 1 \subseteq 1 .. k
    BY <1>1
  <1>3. PICK t : t = SubSeq(s, 1, k - 1)
    OBVIOUS
  <1>4. /\ t \in Seq(1 .. n) /\ Len(t) = k - 1
        /\ \A i \in 1 .. k - 1 : t[i] = s[i]
    <2>1. \A i \in 1 .. k - 1 : s[i] \in 1 .. n
      BY <1>1, <1>2
    <2>2. /\ t \in Seq(1 .. n)
          /\ Len(t) = IF 1 <= k - 1 THEN k - 1 - 1 + 1 ELSE 0
          /\ \A i \in 1 .. (k - 1) - 1 + 1 : t[i] = s[1 + i - 1]
      BY <1>2, <1>3, <2>1, SubSeqProperties
    <2>3. Len(t) = k - 1
      BY <1>1, <2>2
    <2>4. \A i \in 1 .. k - 1 : t[i] = s[i]
      BY <1>1, <2>2
    <2>5. QED
      BY <2>2, <2>3, <2>4
  <1>5. Without(s, k) = t
    <2>1. SubSeq(s, k + 1, k) = << >>
      BY <1>1, SubSeqEmpty
    <2>2. t \o << >> = t
      BY <1>4, ConcatEmptySeq
    <2>3. QED
      BY <1>1, <1>3, <2>1, <2>2 DEF Without
  <1>6. DOMAIN t = 1 .. k - 1
    BY <1>4, LenProperties
  <1>7. Distinct(t)
    BY <1>1, <1>2, <1>4, <1>6 DEF Listed, Distinct
  <1>8. \E i \in DOMAIN t : t[i] = Lobby
    <2>1. PICK i \in 1 .. k : s[i] = Lobby
      BY <1>1 DEF Listed
    <2>2. i # k
      BY <1>1, <2>1
    <2>3. i \in 1 .. k - 1
      BY <1>1, <2>2
    <2>4. QED
      BY <1>4, <1>6, <2>1, <2>3
  <1>9. QED
    BY <1>1, <1>4, <1>5, <1>7, <1>8 DEF Listed

\* Every room has its place.
LEMMA RoomsPlaced ==
  ASSUME ListInv
  PROVE  \E n \in Nat \ {0} :
            /\ n = Len(order) /\ DOMAIN order = 1 .. n /\ n <= nslot
            /\ Last = order[n]
            /\ \A i \in 1 .. n : /\ order[i] \in Rooms /\ order[i] \in 1 .. num
                                 /\ pos[order[i]] = i - 1
            /\ \A r \in Rooms : /\ r \in 1 .. num
                                /\ pos[r] \in 0 .. n - 1
                                /\ order[pos[r] + 1] = r
            /\ \A r, q \in Rooms : pos[r] = pos[q] => r = q
  <1>1. PICK n \in Nat \ {0} : /\ n = Len(order) /\ DOMAIN order = 1 .. n
                               /\ \A i \in 1 .. n : order[i] \in 1 .. num
    BY ListedProps DEF ListInv
  <1>2. \A i \in 1 .. n : order[i] \in Rooms /\ pos[order[i]] = i - 1
    BY <1>1 DEF ListInv, Rooms
  <1>3. ASSUME NEW r \in Rooms
        PROVE  r \in 1 .. num /\ pos[r] \in 0 .. n - 1 /\ order[pos[r] + 1] = r
    <2>1. PICK i \in 1 .. n : order[i] = r
      BY <1>1 DEF Rooms
    <2>2. pos[r] = i - 1 /\ (i - 1) + 1 = i /\ i - 1 \in 0 .. n - 1
      BY <1>2, <2>1
    <2>3. QED
      BY <1>1, <2>1, <2>2
  <1>4. QED
    BY <1>1, <1>2, <1>3 DEF ListInv, Last

-----------------------------------------------------------------------------
(***************************************************************************)
(* What the commands do to the list.                                       *)
(***************************************************************************)
LEMMA RnewList ==
  ASSUME ListInv, PrefixInv, NEW junk, Rnew(junk)
  PROVE  /\ ListInv' /\ PrefixInv'
         /\ commands' = commands /\ crashes' = crashes
         /\ num' = num + 1 /\ num + 1 \notin Rooms
         /\ Rooms' = Rooms \cup {num + 1}
         /\ \A q \in Rooms : pos'[q] = pos[q]
         /\ pos'[num + 1] = Len(order) /\ pos[Last] + 1 = Len(order)
         /\ Len(order') = Len(order) + 1
         /\ Len(order) < nslot' /\ nslot <= nslot'
         /\ "GROW" \notin commands => nslot' = nslot
  <1>1. PICK n \in Nat \ {0} :
            /\ n = Len(order) /\ DOMAIN order = 1 .. n /\ n <= nslot
            /\ Last = order[n]
            /\ \A i \in 1 .. n : /\ order[i] \in Rooms /\ order[i] \in 1 .. num
                                 /\ pos[order[i]] = i - 1
            /\ \A r \in Rooms : /\ r \in 1 .. num
                                /\ pos[r] \in 0 .. n - 1
                                /\ order[pos[r] + 1] = r
    BY RoomsPlaced
  <1>2. num \in Nat /\ nslot \in Nat /\ SlotAdd \in Nat \ {0}
    BY SlotsAssumption DEF ListInv, Listed
  <1>3. /\ commands' = commands /\ crashes' = crashes /\ disk' = disk
        /\ num' = num + 1
        /\ order' = Append(order, num + 1)
        /\ pos' = [q \in Rooms \cup {num + 1} |->
                     IF q = num + 1 THEN pos[Last] + 1 ELSE pos[q]]
    BY DEF Rnew, Served, diskVars
  <1>4. /\ nslot' = IF Len(order) + 1 > nslot THEN nslot + SlotAdd ELSE nslot
        /\ Len(order) + 1 > nslot => "GROW" \in commands
    BY DEF Rnew, Served
  <1>5. PICK t : t = order'
    OBVIOUS
  <1>6. /\ Listed(t, num + 1) /\ Len(t) = n + 1
        /\ \A i \in 1 .. n : t[i] = order[i]
        /\ t[n + 1] = num + 1
    BY <1>1, <1>3, <1>5, AppendListed DEF ListInv
  <1>7. DOMAIN t = 1 .. n + 1
    BY <1>6, LenProperties DEF Listed
  <1>8. num + 1 \notin Rooms
    BY <1>1, <1>2
  <1>9. Rooms' = Rooms \cup {num + 1}
    <2>1. \A i \in 1 .. n + 1 : i \in 1 .. n \/ i = n + 1
      OBVIOUS
    <2>2. \A i \in 1 .. n : i \in 1 .. n + 1
      OBVIOUS
    <2>3. \A x \in 1 .. n + 1 : t[x] \in Rooms \cup {num + 1}
      BY <1>1, <1>6, <2>1
    <2>4. \A r \in Rooms : \E x \in 1 .. n + 1 : t[x] = r
      BY <1>1, <1>6, <2>2 DEF Rooms
    <2>5. \E x \in 1 .. n + 1 : t[x] = num + 1
      BY <1>6
    <2>6. Rooms' = { t[i] : i \in 1 .. n + 1 }
      BY <1>5, <1>7 DEF Rooms
    <2>7. QED
      BY <2>3, <2>4, <2>5, <2>6
  <1>10. /\ \A q \in Rooms : pos'[q] = pos[q]
         /\ pos[Last] + 1 = n /\ pos'[num + 1] = n
    BY <1>1, <1>3, <1>8
  <1>11. /\ nslot' \in Nat /\ n + 1 <= nslot' /\ nslot <= nslot'
         /\ "GROW" \notin commands => nslot' = nslot
    <2>1. CASE n + 1 > nslot
      <3>1. nslot' = nslot + SlotAdd /\ "GROW" \in commands
        BY <1>1, <1>4, <2>1
      <3>2. QED
        BY <1>1, <1>2, <3>1
    <2>2. CASE ~ n + 1 > nslot
      <3>1. nslot' = nslot
        BY <1>1, <1>4, <2>2
      <3>2. QED
        BY <1>1, <1>2, <2>2, <3>1
    <2>3. QED
      BY <2>1, <2>2
  <1>12. ListInv'
    <2>1. pos' \in [Rooms' -> Nat]
      <3>1. \A q \in Rooms : pos[q] \in Nat
        BY <1>1
      <3>2. \A q \in Rooms \cup {num + 1} :
               (IF q = num + 1 THEN pos[Last] + 1 ELSE pos[q]) \in Nat
        BY <1>10, <3>1
      <3>3. QED
        BY <1>3, <1>9, <3>2
    <2>2. \A i \in 1 .. n + 1 : pos'[t[i]] = i - 1
      <3>1. \A i \in 1 .. n + 1 : i \in 1 .. n \/ i = n + 1
        OBVIOUS
      <3>2. ASSUME NEW i \in 1 .. n PROVE pos'[t[i]] = i - 1
        BY <1>1, <1>6, <1>10
      <3>3. pos'[t[n + 1]] = (n + 1) - 1
        BY <1>6, <1>10
      <3>4. QED
        BY <3>1, <3>2, <3>3
    <2>3. /\ Listed(disk'.order, disk'.num) /\ Len(disk'.order) <= disk'.nslot
          /\ crashes' \in Nat
      BY <1>3 DEF ListInv
    <2>4. disk'.num <= num'
      BY <1>2, <1>3 DEF ListInv, Listed
    <2>5. QED
      BY <1>3, <1>5, <1>6, <1>7, <1>11, <2>1, <2>2, <2>3, <2>4 DEF ListInv
  <1>13. PrefixInv'
    <2>1. SUFFICES ASSUME {"RSWP", "RDEL_LAST"} \cap commands = {}
                   PROVE  /\ Len(disk.order) <= Len(t)
                          /\ \A i \in DOMAIN disk.order : t[i] = disk.order[i]
      BY <1>3, <1>5 DEF PrefixInv
    <2>2. PICK k \in Nat : k = Len(disk.order) /\ DOMAIN disk.order = 1 .. k
      BY ListedProps DEF ListInv
    <2>3. k <= n /\ \A i \in 1 .. k : order[i] = disk.order[i]
      BY <1>1, <2>1, <2>2 DEF PrefixInv
    <2>4. k <= n + 1 /\ \A i \in 1 .. k : i \in 1 .. n
      BY <2>3
    <2>5. QED
      BY <1>6, <2>2, <2>3, <2>4
  <1>14. QED
    BY <1>1, <1>3, <1>6, <1>8, <1>9, <1>10, <1>11, <1>12, <1>13, <1>5

\* Two rooms exchange their places.
LEMMA RswpList ==
  ASSUME ListInv, NEW i \in DOMAIN order, NEW j \in DOMAIN order, Rswp(i, j)
  PROVE  /\ ListInv' /\ PrefixInv'
         /\ commands' = commands /\ crashes' = crashes
         /\ Rooms' = Rooms /\ Len(order') = Len(order) /\ nslot' = nslot
         /\ order[i] # order[j]
         /\ pos'[order[i]] = pos[order[j]] /\ pos'[order[j]] = pos[order[i]]
         /\ \A q \in Rooms \ {order[i], order[j]} : pos'[q] = pos[q]
  <1>1. PICK n \in Nat \ {0} :
            /\ n = Len(order) /\ DOMAIN order = 1 .. n /\ n <= nslot
            /\ \A x \in 1 .. n : /\ order[x] \in Rooms /\ order[x] \in 1 .. num
                                 /\ pos[order[x]] = x - 1
            /\ \A r \in Rooms : /\ r \in 1 .. num
                                /\ pos[r] \in 0 .. n - 1
                                /\ order[pos[r] + 1] = r
    BY RoomsPlaced
  <1>2. /\ commands' = commands /\ crashes' = crashes /\ disk' = disk
        /\ "RSWP" \in commands /\ i < j
        /\ num' = num /\ nslot' = nslot
        /\ order' = [order EXCEPT ![i] = order[j], ![j] = order[i]]
        /\ pos' = [pos EXCEPT ![order[i]] = pos[order[j]], ![order[j]] = pos[order[i]]]
    BY DEF Rswp, Served, diskVars, Exchanged
  <1>3. i \in 1 .. n /\ j \in 1 .. n /\ i # j /\ order[i] # order[j]
    <2>1. i \in 1 .. n /\ j \in 1 .. n /\ i # j
      BY <1>1, <1>2
    <2>2. QED
      BY <1>1, <2>1 DEF ListInv, Listed, Distinct
  <1>4. PICK t : t = order'
    OBVIOUS
  <1>5. /\ Listed(t, num) /\ Len(t) = n
        /\ { t[k] : k \in DOMAIN t } = Rooms
    <2>1. /\ t \in [DOMAIN order -> 1 .. num]
          /\ t[i] = order[j] /\ t[j] = order[i]
          /\ \A x \in DOMAIN order : x # i /\ x # j => t[x] = order[x]
      BY <1>1, <1>2, <1>3, <1>4
    <2>2. /\ Listed(t, num) /\ Len(t) = Len(order)
          /\ { t[k] : k \in DOMAIN t } = { order[k] : k \in DOMAIN order }
      BY <2>1, SwapListed DEF ListInv
    <2>3. QED
      BY <1>1, <2>2 DEF Rooms
  <1>6. /\ DOMAIN t = 1 .. n /\ t[i] = order[j] /\ t[j] = order[i]
        /\ \A x \in 1 .. n : x # i /\ x # j => t[x] = order[x]
    BY <1>1, <1>2, <1>3, <1>4
  <1>7. Rooms' = Rooms
    BY <1>4, <1>5 DEF Rooms
  <1>8. /\ pos'[order[i]] = pos[order[j]] /\ pos'[order[j]] = pos[order[i]]
        /\ \A q \in Rooms \ {order[i], order[j]} : pos'[q] = pos[q]
        /\ pos' \in [Rooms -> Nat]
    BY <1>1, <1>2, <1>3 DEF ListInv
  <1>9. \A x \in 1 .. n : pos'[t[x]] = x - 1
    <2>1. ASSUME NEW x \in 1 .. n, x # i, x # j PROVE pos'[t[x]] = x - 1
      <3>1. order[x] # order[i] /\ order[x] # order[j]
        BY <1>1, <1>3, <2>1 DEF ListInv, Listed, Distinct
      <3>2. QED
        BY <1>1, <1>6, <1>8, <2>1, <3>1
    <2>2. pos'[t[i]] = i - 1 /\ pos'[t[j]] = j - 1
      BY <1>1, <1>3, <1>6, <1>8
    <2>3. QED
      BY <2>1, <2>2
  <1>10. ListInv'
    <2>1. /\ Listed(disk'.order, disk'.num) /\ Len(disk'.order) <= disk'.nslot
          /\ crashes' \in Nat /\ nslot' \in Nat
      BY <1>2 DEF ListInv
    <2>2. QED
      BY <1>1, <1>2, <1>4, <1>5, <1>6, <1>7, <1>8, <1>9, <2>1 DEF ListInv
  <1>11. PrefixInv'
    BY <1>2 DEF PrefixInv
  <1>12. QED
    BY <1>1, <1>2, <1>3, <1>4, <1>5, <1>7, <1>8, <1>10, <1>11

\* The only rooms that go are those at the end of the list.
LEMMA RdelList ==
  ASSUME ListInv, "RDEL" \notin commands, NEW i \in DOMAIN order, Rdel(i)
  PROVE  /\ ListInv' /\ PrefixInv'
         /\ commands' = commands /\ crashes' = crashes /\ nslot' = nslot
         /\ order[i] \in Rooms /\ pos[order[i]] = Len(order) - 1
         /\ Rooms' = Rooms \ {order[i]}
         /\ Len(order') = Len(order) - 1
         /\ \A q \in Rooms' : pos'[q] = pos[q] /\ pos[q] < Len(order) - 1
  <1>1. PICK n \in Nat \ {0} :
            /\ n = Len(order) /\ DOMAIN order = 1 .. n /\ n <= nslot
            /\ \A x \in 1 .. n : /\ order[x] \in Rooms /\ order[x] \in 1 .. num
                                 /\ pos[order[x]] = x - 1
            /\ \A r \in Rooms : /\ r \in 1 .. num
                                /\ pos[r] \in 0 .. n - 1
                                /\ order[pos[r] + 1] = r
    BY RoomsPlaced
  <1>2. /\ commands' = commands /\ crashes' = crashes /\ disk' = disk
        /\ num' = num /\ nslot' = nslot
        /\ order[i] # Lobby
        /\ order' = Without(order, i)
        /\ pos' = Renumbered(order')
    BY DEF Rdel, Served, diskVars
  <1>3. i = n /\ "RDEL_LAST" \in commands
    BY <1>1 DEF Rdel, Served
  <1>4. PICK t : t = order'
    OBVIOUS
  <1>5. /\ Listed(t, num) /\ Len(t) = n - 1
        /\ \A x \in 1 .. n - 1 : t[x] = order[x]
    BY <1>1, <1>2, <1>3, <1>4, CutListed DEF ListInv
  <1>6. PICK m \in Nat \ {0} : m = n - 1 /\ m = Len(t) /\ DOMAIN t = 1 .. m
    BY <1>5, ListedProps
  <1>7. n \in 1 .. n /\ \A x \in 1 .. m : x \in 1 .. n /\ x # n
    BY <1>6
  <1>8. \A x, y \in 1 .. n : order[x] = order[y] => x = y
    BY <1>1 DEF ListInv, Listed, Distinct
  <1>9. Rooms' = { t[x] : x \in 1 .. m }
    BY <1>4, <1>6 DEF Rooms
  <1>10. \A x \in 1 .. m : t[x] = order[x] /\ t[x] \in Rooms /\ t[x] # order[n]
    BY <1>1, <1>5, <1>6, <1>7, <1>8
  <1>11. Rooms' = Rooms \ {order[n]}
    <2>1. \A r \in Rooms : \E x \in 1 .. n : order[x] = r
      BY <1>1 DEF Rooms
    <2>2. \A x \in 1 .. n : x = n \/ x \in 1 .. m
      BY <1>6
    <2>3. \A r \in Rooms \ {order[n]} : \E x \in 1 .. m : t[x] = r
      BY <2>1, <2>2, <1>10
    <2>4. QED
      BY <1>9, <1>10, <2>3
  <1>12. \A x \in 1 .. m : pos'[t[x]] = x - 1 /\ pos[t[x]] = x - 1
    <2>1. ASSUME NEW x \in 1 .. m
          PROVE  pos'[t[x]] = x - 1 /\ pos[t[x]] = x - 1
      <3>1. pos[t[x]] = x - 1
        BY <1>1, <1>7, <1>10
      <3>2. pos'[t[x]] = IF t[x] = t[m] THEN pos[t[x]]
                         ELSE (CHOOSE k \in 1 .. m : t[k] = t[x]) - 1
        <4>1. pos' = [r \in { t[k] : k \in 1 .. m } |->
                        IF r = t[m] THEN pos[r]
                        ELSE (CHOOSE k \in 1 .. m : t[k] = r) - 1]
          <5>1. DOMAIN t = 1 .. m /\ Len(t) = m /\ pos' = Renumbered(t)
            BY <1>2, <1>4, <1>6
          <5>2. Renumbered(t) =
                  [r \in { t[k] : k \in DOMAIN t } |->
                     IF r = t[Len(t)] THEN pos[r]
                     ELSE (CHOOSE k \in DOMAIN t : t[k] = r) - 1]
            BY Zenon DEF Renumbered
          <5>3. QED
            BY <5>1, <5>2
        <4>2. t[x] \in { t[k] : k \in 1 .. m }
          OBVIOUS
        <4>3. QED
          BY <4>1, <4>2, Zenon
      <3>3. \A k \in 1 .. m : t[k] = t[x] => k = x
        BY <1>5, <1>6 DEF Listed, Distinct
      <3>4. (CHOOSE k \in 1 .. m : t[k] = t[x]) = x
        BY <3>3
      <3>5. QED
        BY <3>1, <3>2, <3>4
    <2>2. QED
      BY <2>1
  <1>13. \A q \in Rooms' : pos'[q] = pos[q] /\ pos[q] < n - 1 /\ pos'[q] \in Nat
    BY <1>6, <1>9, <1>12
  <1>14. ListInv'
    <2>1. /\ Listed(disk'.order, disk'.num) /\ Len(disk'.order) <= disk'.nslot
          /\ crashes' \in Nat /\ nslot' \in Nat /\ Len(t) <= nslot'
      BY <1>1, <1>2, <1>5 DEF ListInv
    <2>2. pos' \in [Rooms' -> Nat]
      <3>1. DOMAIN pos' = Rooms' /\ pos' = [r \in DOMAIN pos' |-> pos'[r]]
        BY <1>2, <1>4, <1>6, <1>9 DEF Renumbered
      <3>2. QED
        BY <1>13, <3>1
    <2>3. \A x \in DOMAIN t : pos'[t[x]] = x - 1
      BY <1>6, <1>12
    <2>4. QED
      BY <1>2, <1>4, <1>5, <2>1, <2>2, <2>3 DEF ListInv
  <1>15. PrefixInv'
    BY <1>2, <1>3 DEF PrefixInv
  <1>16. QED
    BY <1>1, <1>2, <1>3, <1>4, <1>5, <1>7, <1>11, <1>13, <1>14, <1>15

LEMMA SaveList ==
  ASSUME ListInv, Save
  PROVE  ListInv' /\ PrefixInv'
  <1>1. /\ commands' = commands /\ UNCHANGED listVars /\ crashes' = crashes
        /\ disk' = [order |-> order, num |-> num, nslot |-> nslot]
    BY DEF Save
  <1>2. disk'.order = order /\ disk'.num = num /\ disk'.nslot = nslot
    BY <1>1
  <1>3. PICK n \in Nat : n = Len(order)
    BY ListedProps DEF ListInv
  <1>4. ListInv'
    <2>1. /\ order' = order /\ pos' = pos /\ num' = num /\ nslot' = nslot
          /\ Rooms' = Rooms /\ num <= num
      BY <1>1 DEF listVars, Rooms, ListInv, Listed
    <2>2. QED
      BY <1>1, <1>2, <2>1 DEF ListInv
  <1>5. Len(disk'.order) <= Len(order')
    BY <1>1, <1>2, <1>3 DEF listVars
  <1>6. PrefixInv'
    BY <1>1, <1>2, <1>5 DEF listVars, PrefixInv
  <1>7. QED
    BY <1>4, <1>6

\* The rooms that come back are where they were, if only rooms were added.
LEMMA CrashList ==
  ASSUME ListInv, PrefixInv, CrashRestart
  PROVE  /\ ListInv' /\ PrefixInv'
         /\ {"RSWP", "RDEL_LAST"} \cap commands = {} =>
               Rooms' \subseteq Rooms /\ \A q \in Rooms' : pos'[q] = pos[q]
  <1>1. /\ commands' = commands /\ nslot' = nslot /\ disk' = disk
        /\ disk.nslot = nslot /\ crashes' = crashes + 1
        /\ order' = disk.order /\ num' = disk.num
        /\ pos' = [r \in { disk.order[k] : k \in DOMAIN disk.order } |->
                     (CHOOSE k \in DOMAIN disk.order : disk.order[k] = r) - 1]
    BY DEF CrashRestart
  <1>2. PICK t : t = disk.order
    OBVIOUS
  <1>3. PICK m \in Nat \ {0} : /\ m = Len(t) /\ DOMAIN t = 1 .. m /\ m <= nslot
                               /\ Listed(t, disk.num)
    <2>1. Listed(t, disk.num) /\ Len(t) <= nslot
      BY <1>1, <1>2 DEF ListInv
    <2>2. QED
      BY <2>1, ListedProps
  <1>4. Rooms' = { t[x] : x \in 1 .. m }
    BY <1>1, <1>2, <1>3 DEF Rooms
  <1>5. \A x \in 1 .. m : pos'[t[x]] = x - 1
    <2>1. ASSUME NEW x \in 1 .. m PROVE pos'[t[x]] = x - 1
      <3>1. pos'[t[x]] = (CHOOSE k \in 1 .. m : t[k] = t[x]) - 1
        BY <1>1, <1>2, <1>3
      <3>2. \A k \in 1 .. m : t[k] = t[x] => k = x
        BY <1>3 DEF Listed, Distinct
      <3>3. (CHOOSE k \in 1 .. m : t[k] = t[x]) = x
        BY <3>2
      <3>4. QED
        BY <3>1, <3>3
    <2>2. QED
      BY <2>1
  <1>6. ListInv'
    <2>1. pos' \in [Rooms' -> Nat]
      <3>1. DOMAIN pos' = Rooms' /\ pos' = [r \in DOMAIN pos' |-> pos'[r]]
        BY <1>1, <1>2, <1>3, <1>4
      <3>2. \A r \in Rooms' : pos'[r] \in Nat
        BY <1>4, <1>5
      <3>3. QED
        BY <3>1, <3>2
    <2>2. nslot' \in Nat /\ crashes' \in Nat
      BY <1>1 DEF ListInv
    <2>3. \A x \in DOMAIN order' : pos'[order'[x]] = x - 1
      BY <1>1, <1>2, <1>3, <1>5
    <2>4. Listed(order', num') /\ Len(order') <= nslot'
      BY <1>1, <1>2, <1>3
    <2>5. Listed(disk'.order, disk'.num) /\ Len(disk'.order) <= disk'.nslot
      BY <1>1 DEF ListInv
    <2>6. disk'.num <= num'
      BY <1>1 DEF ListInv, Listed
    <2>7. QED
      BY <2>1, <2>2, <2>3, <2>4, <2>5, <2>6 DEF ListInv
  <1>7. PrefixInv'
    BY <1>1, <1>2, <1>3 DEF PrefixInv
  <1>8. ASSUME {"RSWP", "RDEL_LAST"} \cap commands = {}
        PROVE  Rooms' \subseteq Rooms /\ \A q \in Rooms' : pos'[q] = pos[q]
    <2>1. PICK n \in Nat \ {0} :
             /\ n = Len(order) /\ DOMAIN order = 1 .. n
             /\ \A x \in 1 .. n : order[x] \in Rooms /\ pos[order[x]] = x - 1
      BY RoomsPlaced
    <2>2. m <= n /\ \A x \in 1 .. m : order[x] = t[x]
      BY <1>2, <1>3, <1>8, <2>1 DEF PrefixInv
    <2>3. \A x \in 1 .. m : t[x] \in Rooms /\ pos[t[x]] = x - 1
      BY <2>1, <2>2
    <2>4. QED
      BY <1>4, <1>5, <2>3
  <1>9. QED
    BY <1>6, <1>7, <1>8

\* Most steps leave the list alone.
LEMMA SameList ==
  ASSUME UNCHANGED << commands, listVars, disk, crashes >>
  PROVE  /\ ListInv => ListInv'
         /\ PrefixInv => PrefixInv'
         /\ Rooms' = Rooms
  <1>1. /\ commands' = commands /\ order' = order /\ pos' = pos /\ num' = num
        /\ nslot' = nslot /\ disk' = disk /\ crashes' = crashes
    BY DEF listVars
  <1>2. Rooms' = Rooms
    BY <1>1 DEF Rooms
  <1>3. QED
    BY <1>1, <1>2 DEF ListInv, PrefixInv

-----------------------------------------------------------------------------
(***************************************************************************)
(* What the commands do to the vectors.                                    *)
(***************************************************************************)
\* A loop over all users finds the vector of each where it is.
LEMMA AllVectors ==
  ASSUME VectorsInv, NEW f, NEW g,
         online' = online, mem' = InMemory(f), file' = OnFile(g)
  PROVE  /\ online' \subseteq Users /\ DOMAIN mem' = Users /\ DOMAIN file' = Users
         /\ \A u \in Users : Vector(u)' = IF u \in online THEN f[u] ELSE g[u]
  BY DEF VectorsInv, InMemory, OnFile, Vector

\* One vector is changed, where it is.
LEMMA OneVector ==
  ASSUME VectorsInv, NEW u \in Users, NEW v, online' = online,
         \/ u \in online /\ mem' = [mem EXCEPT ![u] = v] /\ file' = file
         \/ u \notin online /\ file' = [file EXCEPT ![u] = v] /\ mem' = mem
  PROVE  /\ online' \subseteq Users /\ DOMAIN mem' = Users /\ DOMAIN file' = Users
         /\ Vector(u)' = v
         /\ \A w \in Users \ {u} : Vector(w)' = Vector(w)
  BY DEF VectorsInv, Vector

\* A user takes the vector along.
LEMMA ComesAndGoes ==
  ASSUME VectorsInv, NEW u \in Users, Login(u) \/ Logout(u)
  PROVE  /\ UNCHANGED << commands, listVars, diskVars >>
         /\ online' \subseteq Users /\ DOMAIN mem' = Users /\ DOMAIN file' = Users
         /\ \A w \in Users : Vector(w)' = Vector(w)
  <1>1. CASE Login(u)
    BY <1>1 DEF VectorsInv, Vector, Login
  <1>2. CASE Logout(u)
    BY <1>2 DEF VectorsInv, Vector, Logout, Saved
  <1>3. QED
    BY <1>1, <1>2

\* A vector that differs in slots of rooms only.
Remarked(v, w) == /\ w \in Vectors
                  /\ \A i \in 0 .. nslot - 1 : i >= Len(order) => w[i] = v[i]

LEMMA EntryRemarked ==
  ASSUME ListInv, NEW v, NEW w, Remarked(v, w), NEW r \in Rooms,
         NEW e \in SUBSET Marks
  PROVE  /\ Remarked(v, [w EXCEPT ![pos[r]] = e])
         /\ \A q \in Rooms \ {r} : [w EXCEPT ![pos[r]] = e][pos[q]] = w[pos[q]]
         /\ [w EXCEPT ![pos[r]] = e][pos[r]] = e
  <1>1. PICK n \in Nat \ {0} :
            /\ n = Len(order) /\ n <= nslot
            /\ \A q \in Rooms : pos[q] \in 0 .. n - 1
            /\ \A q, x \in Rooms : pos[q] = pos[x] => q = x
    BY RoomsPlaced
  <1>2. nslot \in Nat
    BY DEF ListInv
  <1>3. \A q \in Rooms : pos[q] \in 0 .. nslot - 1
    BY <1>1, <1>2
  <1>4. w \in [0 .. nslot - 1 -> SUBSET Marks]
    BY DEF Remarked, Vectors
  <1>5. [w EXCEPT ![pos[r]] = e] \in Vectors
    BY <1>3, <1>4 DEF Vectors
  <1>6. \A i \in 0 .. nslot - 1 : i >= n => i # pos[r]
    BY <1>1, <1>2
  <1>7. \A i \in 0 .. nslot - 1 : i >= n => [w EXCEPT ![pos[r]] = e][i] = v[i]
    BY <1>1, <1>4, <1>6 DEF Remarked
  <1>8. QED
    BY <1>1, <1>3, <1>4, <1>5, <1>7 DEF Remarked

LEMMA SlotsRemarked ==
  ASSUME ListInv, NEW v, v \in Vectors, NEW u, NEW hows,
         NEW w, w \in [DOMAIN v -> SUBSET Marks],
         \A i \in DOMAIN v \ SlotsKnown(u, hows) : w[i] = v[i]
  PROVE  Remarked(v, w)
  <1>1. PICK n \in Nat \ {0} :
            /\ n = Len(order) /\ n <= nslot
            /\ \A q \in Rooms : pos[q] \in 0 .. n - 1
    BY RoomsPlaced
  <1>2. nslot \in Nat
    BY DEF ListInv
  <1>3. SlotsKnown(u, hows) \subseteq 0 .. n - 1
    BY <1>1 DEF SlotsKnown
  <1>4. DOMAIN v = 0 .. nslot - 1
    BY DEF Vectors
  <1>5. w \in Vectors
    BY <1>4 DEF Vectors
  <1>6. \A i \in 0 .. nslot - 1 : i >= n => i \notin SlotsKnown(u, hows)
    BY <1>1, <1>2, <1>3
  <1>7. QED
    BY <1>1, <1>4, <1>5, <1>6 DEF Remarked

\* Entering a room, marking as read or zapping, and kicking out.
OneUser(u) == \/ Rall(u) \/ Rzpa(u) \/ Ruzp(u)
              \/ \E from, to \in Rooms : Goto(u, from, to)
              \/ \E r \in Rooms : Rkob(u, r) \/ Rkoe(u, r)

LEMMA OneUserStep ==
  ASSUME ListInv, VectorsInv, NEW u \in Users, OneUser(u)
  PROVE  /\ UNCHANGED << commands, listVars, diskVars, online >>
         /\ DOMAIN mem' = Users /\ DOMAIN file' = Users
         /\ Remarked(Vector(u), Vector(u)')
         /\ \A w \in Users \ {u} : Vector(w)' = Vector(w)
  <1>1. PICK v : v = Vector(u)
    OBVIOUS
  <1>2. v \in Vectors /\ (u \in online => v = mem[u])
    BY <1>1 DEF VectorsInv, Vector
  <1>3. Remarked(v, v)
    BY <1>2 DEF Remarked
  <1>4. \A i \in DOMAIN v : v[i] \subseteq Marks
    BY <1>2 DEF Vectors
  <1>5. {"SEEN"} \subseteq Marks /\ {"ZAPPED"} \subseteq Marks /\ {"KNOWN"} \subseteq Marks
        /\ {"KICKOUT"} \subseteq Marks
    BY DEF Marks
  <1>6. ASSUME NEW w, Remarked(v, w),
               UNCHANGED << commands, listVars, diskVars, online >>,
               \/ u \in online /\ mem' = [mem EXCEPT ![u] = w] /\ file' = file
               \/ u \notin online /\ file' = [file EXCEPT ![u] = w] /\ mem' = mem
        PROVE  /\ UNCHANGED << commands, listVars, diskVars, online >>
               /\ DOMAIN mem' = Users /\ DOMAIN file' = Users
               /\ Remarked(Vector(u), Vector(u)')
               /\ \A x \in Users \ {u} : Vector(x)' = Vector(x)
    <2>1. online' = online
      BY <1>6
    <2>2. /\ DOMAIN mem' = Users /\ DOMAIN file' = Users
          /\ Vector(u)' = w
          /\ \A x \in Users \ {u} : Vector(x)' = Vector(x)
      BY <1>6, <2>1, OneVector
    <2>3. Remarked(Vector(u), Vector(u)')
      BY <1>1, <1>6, <2>2
    <2>4. QED
      BY <1>6, <2>2, <2>3
  <1>7. CASE Rall(u)
    <2>1. PICK w : w = [i \in DOMAIN v |->
                          IF i \in SlotsKnown(u, {1, 2}) \ {pos[Lobby]}
                          THEN v[i] \cup {"SEEN"} ELSE v[i]]
      OBVIOUS
    <2>2. /\ u \in online /\ mem' = [mem EXCEPT ![u] = w] /\ file' = file
          /\ UNCHANGED << commands, listVars, diskVars, online >>
      BY <1>2, <1>7, <2>1 DEF Rall, Served, OwnMarks
    <2>3. /\ w \in [DOMAIN v -> SUBSET Marks]
          /\ \A i \in DOMAIN v \ SlotsKnown(u, {1, 2}) : w[i] = v[i]
      BY <1>4, <1>5, <2>1
    <2>4. Remarked(v, w)
      BY <1>2, <2>3, SlotsRemarked
    <2>5. QED
      BY <1>6, <2>2, <2>4
  <1>8. CASE Rzpa(u)
    <2>1. PICK w : w = [i \in DOMAIN v |->
                          IF i \in SlotsKnown(u, {1, 2}) \ {pos[Lobby]}
                          THEN v[i] \cup {"ZAPPED"} ELSE v[i]]
      OBVIOUS
    <2>2. /\ u \in online /\ mem' = [mem EXCEPT ![u] = w] /\ file' = file
          /\ UNCHANGED << commands, listVars, diskVars, online >>
      BY <1>2, <1>8, <2>1 DEF Rzpa, Served, OwnMarks
    <2>3. /\ w \in [DOMAIN v -> SUBSET Marks]
          /\ \A i \in DOMAIN v \ SlotsKnown(u, {1, 2}) : w[i] = v[i]
      BY <1>4, <1>5, <2>1
    <2>4. Remarked(v, w)
      BY <1>2, <2>3, SlotsRemarked
    <2>5. QED
      BY <1>6, <2>2, <2>4
  <1>9. CASE Ruzp(u)
    <2>1. PICK w : w = [i \in DOMAIN v |->
                          IF i \in SlotsKnown(u, {2})
                          THEN v[i] \ {"ZAPPED"} ELSE v[i]]
      OBVIOUS
    <2>2. /\ u \in online /\ mem' = [mem EXCEPT ![u] = w] /\ file' = file
          /\ UNCHANGED << commands, listVars, diskVars, online >>
      BY <1>2, <1>9, <2>1 DEF Ruzp, Served, OwnMarks
    <2>3. /\ w \in [DOMAIN v -> SUBSET Marks]
          /\ \A i \in DOMAIN v \ SlotsKnown(u, {2}) : w[i] = v[i]
      BY <1>4, <1>5, <2>1
    <2>4. Remarked(v, w)
      BY <1>2, <2>3, SlotsRemarked
    <2>5. QED
      BY <1>6, <2>2, <2>4
  <1>10. ASSUME NEW r \in Rooms
         PROVE  \A x : Remarked(v, x) =>
                  x[pos[r]] \subseteq Marks
    <2>1. PICK n \in Nat \ {0} : n <= nslot /\ pos[r] \in 0 .. n - 1
      BY RoomsPlaced
    <2>2. pos[r] \in 0 .. nslot - 1
      BY <2>1 DEF ListInv
    <2>3. QED
      BY <2>2 DEF Remarked, Vectors
  <1>11. ASSUME NEW from \in Rooms, NEW to \in Rooms, Goto(u, from, to)
         PROVE  /\ UNCHANGED << commands, listVars, diskVars, online >>
                /\ DOMAIN mem' = Users /\ DOMAIN file' = Users
                /\ Remarked(Vector(u), Vector(u)')
                /\ \A x \in Users \ {u} : Vector(x)' = Vector(x)
    <2>1. PICK left : left = [v EXCEPT ![pos[from]] = v[pos[from]] \cup {"SEEN"}]
      OBVIOUS
    <2>2. PICK w : w = [left EXCEPT ![pos[to]] =
                          (left[pos[to]] \ {"ZAPPED"}) \cup {"KNOWN"}]
      OBVIOUS
    <2>3. /\ u \in online /\ mem' = [mem EXCEPT ![u] = w] /\ file' = file
          /\ UNCHANGED << commands, listVars, diskVars, online >>
      BY <1>2, <1>11, <2>1, <2>2 DEF Goto, Served, OwnMarks
    <2>4. Remarked(v, left)
      <3>1. v[pos[from]] \cup {"SEEN"} \in SUBSET Marks
        BY <1>3, <1>5, <1>10
      <3>2. QED
        BY <1>3, <2>1, <3>1, EntryRemarked
    <2>5. Remarked(v, w)
      <3>1. (left[pos[to]] \ {"ZAPPED"}) \cup {"KNOWN"} \in SUBSET Marks
        BY <1>5, <1>10, <2>4
      <3>2. QED
        BY <2>2, <2>4, <3>1, EntryRemarked
    <2>6. QED
      BY <1>6, <2>3, <2>5
  <1>12. ASSUME NEW r \in Rooms, Rkob(u, r) \/ Rkoe(u, r)
         PROVE  /\ UNCHANGED << commands, listVars, diskVars, online >>
                /\ DOMAIN mem' = Users /\ DOMAIN file' = Users
                /\ Remarked(Vector(u), Vector(u)')
                /\ \A x \in Users \ {u} : Vector(x)' = Vector(x)
    <2>1. PICK e \in SUBSET Marks :
             /\ SetMarks(u, pos[r], e)
             /\ UNCHANGED << commands, listVars, diskVars, online >>
      <3>1. v[pos[r]] \subseteq Marks /\ MarksOn(u, r) = v[pos[r]]
        BY <1>1, <1>3, <1>10 DEF MarksOn
      <3>2. CASE Rkob(u, r)
        BY <1>5, <3>1, <3>2 DEF Rkob, Served
      <3>3. CASE Rkoe(u, r)
        BY <1>5, <3>1, <3>3 DEF Rkoe, Served
      <3>4. QED
        BY <1>12, <3>2, <3>3
    <2>2. PICK w : w = [v EXCEPT ![pos[r]] = e]
      OBVIOUS
    <2>3. Remarked(v, w)
      BY <1>3, <2>2, EntryRemarked
    <2>4. \/ u \in online /\ mem' = [mem EXCEPT ![u] = w] /\ file' = file
          \/ u \notin online /\ file' = [file EXCEPT ![u] = w] /\ mem' = mem
      BY <1>1, <2>1, <2>2 DEF SetMarks, Vector
    <2>5. QED
      BY <1>6, <2>1, <2>3, <2>4
  <1>13. QED
    BY <1>7, <1>8, <1>9, <1>11, <1>12 DEF OneUser

\* The marks of all users on one room.
LEMMA RedtStep ==
  ASSUME ListInv, VectorsInv, NEW r \in Rooms, NEW guess \in BOOLEAN, Redt(r, guess)
  PROVE  /\ UNCHANGED << commands, listVars, diskVars, online >>
         /\ DOMAIN mem' = Users /\ DOMAIN file' = Users
         /\ \A u \in Users :
              /\ Remarked(Vector(u), Vector(u)')
              /\ \A q \in Rooms \ {r} : Vector(u)'[pos[q]] = Vector(u)[pos[q]]
  <1>1. PICK edited : edited = [u \in Users |->
             CASE ~ guess                  -> MarksOn(u, r) \cup {"KNOWN"}
               [] guess /\ u \notin Aides  -> MarksOn(u, r) \ {"KNOWN"}
               [] OTHER                    -> MarksOn(u, r)]
    OBVIOUS
  <1>2. /\ UNCHANGED << commands, listVars, diskVars, online >>
        /\ mem'  = InMemory([u \in Users |-> [mem[u] EXCEPT ![pos[r]] = edited[u]]])
        /\ file' = OnFile([u \in Users |-> [file[u] EXCEPT ![pos[r]] = edited[u]]])
    BY <1>1 DEF Redt, Served
  <1>3. /\ DOMAIN mem' = Users /\ DOMAIN file' = Users
        /\ \A u \in Users :
             Vector(u)' = [Vector(u) EXCEPT ![pos[r]] = edited[u]]
    <2>1. PICK f, g : /\ f = [u \in Users |-> [mem[u] EXCEPT ![pos[r]] = edited[u]]]
                      /\ g = [u \in Users |-> [file[u] EXCEPT ![pos[r]] = edited[u]]]
      OBVIOUS
    <2>2. /\ DOMAIN mem' = Users /\ DOMAIN file' = Users
          /\ \A u \in Users : Vector(u)' = IF u \in online THEN f[u] ELSE g[u]
      BY <1>2, <2>1, AllVectors
    <2>3. QED
      BY <2>1, <2>2 DEF Vector
  <1>4. ASSUME NEW u \in Users
        PROVE  /\ Remarked(Vector(u), Vector(u)')
               /\ \A q \in Rooms \ {r} : Vector(u)'[pos[q]] = Vector(u)[pos[q]]
    <2>1. PICK v : v = Vector(u)
      OBVIOUS
    <2>2. v \in Vectors
      BY <2>1 DEF VectorsInv
    <2>3. Remarked(v, v)
      BY <2>2 DEF Remarked
    <2>4. v[pos[r]] \subseteq Marks
      <3>1. PICK n \in Nat \ {0} : n <= nslot /\ pos[r] \in 0 .. n - 1
        BY RoomsPlaced
      <3>2. pos[r] \in 0 .. nslot - 1
        BY <3>1 DEF ListInv
      <3>3. QED
        BY <2>2, <3>2 DEF Vectors
    <2>5. edited[u] \in SUBSET Marks
      <3>1. MarksOn(u, r) \subseteq Marks
        BY <2>1, <2>4 DEF MarksOn
      <3>2. \/ edited[u] = MarksOn(u, r) \cup {"KNOWN"}
            \/ edited[u] = MarksOn(u, r) \ {"KNOWN"}
            \/ edited[u] = MarksOn(u, r)
        BY <1>1
      <3>3. QED
        BY <3>1, <3>2 DEF Marks
    <2>6. /\ Remarked(v, [v EXCEPT ![pos[r]] = edited[u]])
          /\ \A q \in Rooms \ {r} : [v EXCEPT ![pos[r]] = edited[u]][pos[q]] = v[pos[q]]
      BY <2>3, <2>5, EntryRemarked
    <2>7. PICK w : w = Vector(u)'
      OBVIOUS
    <2>8. w = [v EXCEPT ![pos[r]] = edited[u]]
      BY <1>3, <2>1, <2>7
    <2>9. Remarked(v, w) /\ \A q \in Rooms \ {r} : w[pos[q]] = v[pos[q]]
      BY <2>6, <2>8
    <2>10. QED
      BY <2>1, <2>7, <2>9
  <1>5. QED
    BY <1>2, <1>3, <1>4

LEMMA ExtendedProps ==
  ASSUME nslot \in Nat, NEW v \in Vectors, NEW k \in Nat, nslot <= k,
         NEW rest \in [0 .. k - 1 -> SUBSET Marks]
  PROVE  /\ Extended(v, k, rest) \in [0 .. k - 1 -> SUBSET Marks]
         /\ \A i \in 0 .. nslot - 1 : Extended(v, k, rest)[i] = v[i]
  <1>1. DOMAIN v = 0 .. nslot - 1 /\ \A i \in 0 .. nslot - 1 : v[i] \in SUBSET Marks
    BY DEF Vectors
  <1>2. \A i \in 0 .. nslot - 1 : i \in 0 .. k - 1
    OBVIOUS
  <1>3. QED
    BY <1>1, <1>2 DEF Extended

\* The new room gets a slot with the default marks, or-ed to what is there in
\* the vectors in memory.
LEMMA RnewVectors ==
  ASSUME ListInv, PrefixInv, VectorsInv, NEW junk \in [Users -> SUBSET Junk], Rnew(junk)
  PROVE  /\ online' = online /\ DOMAIN mem' = Users /\ DOMAIN file' = Users
         /\ \A u \in Users :
              /\ Vector(u)' \in [0 .. nslot' - 1 -> SUBSET Marks]
              /\ \A i \in 0 .. nslot - 1 : i # Len(order) => Vector(u)'[i] = Vector(u)[i]
              /\ Default \subseteq Vector(u)'[Len(order)]
              /\ Len(order) < nslot /\ Vector(u)[Len(order)] = {} =>
                    Vector(u)'[Len(order)] = Default
  <1>1. PICK p \in Nat : p = Len(order)
    BY ListedProps DEF ListInv
  <1>2. PICK k \in Nat : k = nslot' /\ nslot <= k /\ p < k /\ pos[Last] + 1 = p
    BY <1>1, RnewList DEF ListInv
  <1>3. Default \subseteq Marks
    BY DEF Default, Marks
  <1>4. PICK l \in Nat : l = nslot
    BY DEF ListInv
  <1>5. /\ p \in 0 .. k - 1 /\ (p < l => p \in 0 .. l - 1)
         /\ \A i \in 0 .. l - 1 : i \in 0 .. k - 1
    <2>1. l <= k /\ p < k
      BY <1>2, <1>4
    <2>2. QED
      BY <2>1
  <1>6. PICK restM, restF :
             /\ restM = [u \in Users |-> [i \in 0 .. k - 1 |-> junk[u]]]
             /\ restF = [i \in 0 .. k - 1 |-> {}]
    OBVIOUS
  <1>7. PICK f, g :
             /\ f = [u \in Users |-> [Extended(mem[u], k, restM[u])
                                        EXCEPT ![p] = @ \cup Default]]
             /\ g = [u \in Users |-> [Extended(file[u], k, restF)
                                        EXCEPT ![p] = Default]]
    OBVIOUS
  <1>8. /\ online' = online /\ mem' = InMemory(f) /\ file' = OnFile(g)
    <2>1. nslot' = IF Len(order) + 1 > nslot THEN nslot + SlotAdd ELSE nslot
      BY DEF Rnew
    <2>2. f = [u \in Users |-> [Extended(mem[u], k, [i \in 0 .. k - 1 |-> junk[u]])
                                  EXCEPT ![p] = @ \cup Default]]
      BY <1>6, <1>7
    <2>3. g = [u \in Users |-> [Extended(file[u], k, [i \in 0 .. k - 1 |-> {}])
                                  EXCEPT ![p] = Default]]
      BY <1>6, <1>7
    <2>4. mem' = InMemory(f)
      BY <1>2, <2>1, <2>2 DEF Rnew
    <2>5. file' = OnFile(g)
      BY <1>2, <2>1, <2>3 DEF Rnew
    <2>6. QED
      BY <2>4, <2>5 DEF Rnew
  <1>9. /\ DOMAIN mem' = Users /\ DOMAIN file' = Users
        /\ \A u \in Users : Vector(u)' = IF u \in online THEN f[u] ELSE g[u]
    BY <1>8, AllVectors
  <1>10. ASSUME NEW u \in Users
        PROVE  /\ Vector(u)' \in [0 .. k - 1 -> SUBSET Marks]
               /\ \A i \in 0 .. nslot - 1 : i # p => Vector(u)'[i] = Vector(u)[i]
               /\ Default \subseteq Vector(u)'[p]
               /\ p < nslot /\ Vector(u)[p] = {} => Vector(u)'[p] = Default
    <2>1. PICK v : v = Vector(u) /\ v \in Vectors
      BY DEF VectorsInv
    <2>2. PICK w : w = Vector(u)'
      OBVIOUS
    <2>3. p \in 0 .. k - 1 /\ (p < nslot => p \in 0 .. nslot - 1)
      BY <1>4, <1>5
    <2>4. CASE u \in online
      <3>1. restM[u] \in [0 .. k - 1 -> SUBSET Marks]
        BY <1>6, MarksAssumption
      <3>2. PICK x : x = Extended(v, k, restM[u])
        OBVIOUS
      <3>3. /\ x \in [0 .. k - 1 -> SUBSET Marks]
            /\ \A i \in 0 .. nslot - 1 : x[i] = v[i]
        BY <1>2, <1>4, <2>1, <3>1, <3>2, ExtendedProps
      <3>4. w = [x EXCEPT ![p] = x[p] \cup Default]
        BY <1>7, <1>9, <2>1, <2>2, <2>4, <3>2 DEF Vector
      <3>5. x[p] \cup Default \in SUBSET Marks
        BY <1>3, <2>3, <3>3
      <3>6. w \in [0 .. k - 1 -> SUBSET Marks]
        BY <2>3, <3>3, <3>4, <3>5
      <3>7. \A i \in 0 .. k - 1 : w[i] = IF i = p THEN x[p] \cup Default ELSE x[i]
        BY <3>3, <3>4
      <3>8. \A i \in 0 .. nslot - 1 : i \in 0 .. k - 1
        BY <1>4, <1>5
      <3>9. \A i \in 0 .. nslot - 1 : i # p => w[i] = v[i]
        BY <3>3, <3>7, <3>8
      <3>10. w[p] = x[p] \cup Default
        BY <2>3, <3>7
      <3>11. p < nslot /\ v[p] = {} => w[p] = Default
        BY <2>3, <3>3, <3>10
      <3>12. QED
        BY <2>1, <2>2, <3>6, <3>9, <3>10, <3>11
    <2>5. CASE u \notin online
      <3>1. restF \in [0 .. k - 1 -> SUBSET Marks]
        BY <1>6
      <3>2. PICK x : x = Extended(v, k, restF)
        OBVIOUS
      <3>3. /\ x \in [0 .. k - 1 -> SUBSET Marks]
            /\ \A i \in 0 .. nslot - 1 : x[i] = v[i]
        BY <1>2, <1>4, <2>1, <3>1, <3>2, ExtendedProps
      <3>4. w = [x EXCEPT ![p] = Default]
        BY <1>7, <1>9, <2>1, <2>2, <2>5, <3>2 DEF Vector
      <3>5. w \in [0 .. k - 1 -> SUBSET Marks]
        BY <1>3, <2>3, <3>3, <3>4
      <3>6. \A i \in 0 .. k - 1 : w[i] = IF i = p THEN Default ELSE x[i]
        BY <3>3, <3>4
      <3>7. \A i \in 0 .. nslot - 1 : i \in 0 .. k - 1
        BY <1>4, <1>5
      <3>8. \A i \in 0 .. nslot - 1 : i # p => w[i] = v[i]
        BY <3>3, <3>6, <3>7
      <3>9. w[p] = Default
        BY <2>3, <3>6
      <3>10. QED
        BY <2>1, <2>2, <3>5, <3>8, <3>9
    <2>6. QED
      BY <2>4, <2>5
  <1>11. QED
    BY <1>1, <1>2, <1>8, <1>9, <1>10

\* The slots are exchanged as the rooms are.
LEMMA RswpVectors ==
  ASSUME ListInv, VectorsInv, NEW i \in DOMAIN order, NEW j \in DOMAIN order, Rswp(i, j)
  PROVE  /\ online' = online /\ DOMAIN mem' = Users /\ DOMAIN file' = Users
         /\ \A u \in Users :
              /\ Remarked(Vector(u), Vector(u)')
              /\ \A q \in Rooms : Vector(u)'[pos'[q]] = Vector(u)[pos[q]]
  <1>1. PICK n \in Nat \ {0} :
            /\ n = Len(order) /\ DOMAIN order = 1 .. n /\ n <= nslot
            /\ \A x \in 1 .. n : order[x] \in Rooms
            /\ \A q \in Rooms : pos[q] \in 0 .. n - 1
            /\ \A r, q \in Rooms : pos[r] = pos[q] => r = q
    BY RoomsPlaced
  <1>2. PICK r, q : r = order[i] /\ q = order[j]
    OBVIOUS
  <1>3. /\ r \in Rooms /\ q \in Rooms /\ r # q
        /\ pos'[r] = pos[q] /\ pos'[q] = pos[r]
        /\ \A x \in Rooms \ {r, q} : pos'[x] = pos[x]
    BY <1>1, <1>2, RswpList
  <1>4. PICK f, g : /\ f = [u \in Users |-> Swapped(mem[u], pos[r], pos[q])]
                    /\ g = [u \in Users |-> Swapped(file[u], pos[r], pos[q])]
    OBVIOUS
  <1>5. online' = online /\ mem' = InMemory(f) /\ file' = OnFile(g)
    BY <1>2, <1>4 DEF Rswp
  <1>6. /\ DOMAIN mem' = Users /\ DOMAIN file' = Users
        /\ \A u \in Users : Vector(u)' = IF u \in online THEN f[u] ELSE g[u]
    BY <1>5, AllVectors
  <1>7. nslot \in Nat
    BY DEF ListInv
  <1>8. \A x \in Rooms : pos[x] \in 0 .. nslot - 1
    BY <1>1, <1>7
  <1>9. ASSUME NEW u \in Users
        PROVE  /\ Remarked(Vector(u), Vector(u)')
               /\ \A x \in Rooms : Vector(u)'[pos'[x]] = Vector(u)[pos[x]]
    <2>1. PICK v : v = Vector(u) /\ v \in Vectors
      BY DEF VectorsInv
    <2>2. PICK w : w = Vector(u)'
      OBVIOUS
    <2>3. w = [v EXCEPT ![pos[r]] = v[pos[q]], ![pos[q]] = v[pos[r]]]
      BY <1>4, <1>6, <2>1, <2>2 DEF Vector, Swapped
    <2>4. v \in [0 .. nslot - 1 -> SUBSET Marks]
      BY <2>1 DEF Vectors
    <2>5. pos[r] \in 0 .. nslot - 1 /\ pos[q] \in 0 .. nslot - 1 /\ pos[r] # pos[q]
      BY <1>1, <1>3, <1>8
    <2>6. /\ w \in [0 .. nslot - 1 -> SUBSET Marks]
          /\ w[pos[r]] = v[pos[q]] /\ w[pos[q]] = v[pos[r]]
          /\ \A x \in 0 .. nslot - 1 : x # pos[r] /\ x # pos[q] => w[x] = v[x]
      BY <2>3, <2>4, <2>5
    <2>7. \A x \in Rooms : w[pos'[x]] = v[pos[x]]
      <3>1. ASSUME NEW x \in Rooms \ {r, q} PROVE w[pos'[x]] = v[pos[x]]
        <4>1. pos[x] # pos[r] /\ pos[x] # pos[q]
          BY <1>1, <1>3
        <4>2. QED
          BY <1>3, <1>8, <2>6, <4>1
      <3>2. QED
        BY <1>3, <2>6, <3>1
    <2>8. \A x \in 0 .. nslot - 1 : x >= n => x # pos[r] /\ x # pos[q]
      BY <1>1, <1>3, <1>7
    <2>9. Remarked(v, w)
      BY <1>1, <2>6, <2>8 DEF Remarked, Vectors
    <2>10. QED
      BY <2>1, <2>2, <2>7, <2>9
  <1>10. QED
    BY <1>5, <1>6, <1>9

\* The slots before that of the deleted room stay, the others move up.
LEMMA RdelVectors ==
  ASSUME ListInv, VectorsInv, "RDEL" \notin commands, NEW i \in DOMAIN order, Rdel(i)
  PROVE  /\ online' = online /\ DOMAIN mem' = Users /\ DOMAIN file' = Users
         /\ \A u \in Users :
              /\ Vector(u)' \in Vectors
              /\ \A x \in 0 .. nslot - 1 :
                   IF x < Len(order) - 1 THEN Vector(u)'[x] = Vector(u)[x]
                   ELSE IF x + 1 \in 0 .. nslot - 1
                        THEN Vector(u)'[x] = Vector(u)[x + 1]
                        ELSE Vector(u)'[x] = {}
  <1>1. PICK n \in Nat \ {0} : n = Len(order) /\ n <= nslot
    BY RoomsPlaced
  <1>2. PICK p \in Nat : p = n - 1 /\ p = pos[order[i]]
    BY <1>1, RdelList
  <1>3. PICK f, g : /\ f = [u \in Users |-> Shifted(mem[u], p)]
                    /\ g = [u \in Users |-> Shifted(file[u], p)]
    OBVIOUS
  <1>4. online' = online /\ mem' = InMemory(f) /\ file' = OnFile(g)
    <2>1. pos[order[i]] < Len(order)
      BY <1>1, <1>2
    <2>2. QED
      BY <1>2, <1>3, <2>1 DEF Rdel
  <1>5. /\ DOMAIN mem' = Users /\ DOMAIN file' = Users
        /\ \A u \in Users : Vector(u)' = IF u \in online THEN f[u] ELSE g[u]
    BY <1>4, AllVectors
  <1>6. ASSUME NEW u \in Users
        PROVE  /\ Vector(u)' \in Vectors
               /\ \A x \in 0 .. nslot - 1 :
                    IF x < p THEN Vector(u)'[x] = Vector(u)[x]
                    ELSE IF x + 1 \in 0 .. nslot - 1
                         THEN Vector(u)'[x] = Vector(u)[x + 1]
                         ELSE Vector(u)'[x] = {}
    <2>1. PICK v : v = Vector(u) /\ v \in Vectors
      BY DEF VectorsInv
    <2>2. PICK w : w = Vector(u)'
      OBVIOUS
    <2>3. w = [x \in DOMAIN v |-> IF x < p THEN v[x]
                                  ELSE IF x + 1 \in DOMAIN v THEN v[x + 1] ELSE {}]
      BY <1>3, <1>5, <2>1, <2>2 DEF Vector, Shifted
    <2>4. DOMAIN v = 0 .. nslot - 1 /\ \A x \in 0 .. nslot - 1 : v[x] \in SUBSET Marks
      BY <2>1 DEF Vectors
    <2>5. w \in Vectors
      BY <2>3, <2>4 DEF Vectors
    <2>6. \A x \in 0 .. nslot - 1 :
             IF x < p THEN w[x] = v[x]
             ELSE IF x + 1 \in 0 .. nslot - 1 THEN w[x] = v[x + 1] ELSE w[x] = {}
      BY <2>3, <2>4
    <2>7. QED
      BY <2>1, <2>2, <2>5, <2>6
  <1>7. QED
    BY <1>1, <1>2, <1>4, <1>5, <1>6

-----------------------------------------------------------------------------
(***************************************************************************)
(* The invariant.                                                          *)
(***************************************************************************)
LEMMA PositionsInit == Init => PInv
  <1> SUFFICES ASSUME Init PROVE PInv
    OBVIOUS
  <1>1. PICK k \in Nat \ {0} : k = NumRooms
    BY SlotsAssumption
  <1>2. /\ commands \in CommandSets /\ order = [i \in 1 .. k |-> i]
        /\ pos = [r \in 1 .. k |-> r - 1] /\ num = k /\ nslot = Slots /\ online = {}
        /\ DOMAIN mem = Users
        /\ file = [u \in Users |-> [i \in 0 .. Slots - 1 |->
                                      IF i < k THEN Default ELSE {}]]
        /\ disk = [order |-> order, num |-> num, nslot |-> nslot]
        /\ crashes = 0
    BY <1>1 DEF Init
  <1>3. disk.order = order /\ disk.num = num /\ disk.nslot = nslot
    BY <1>2
  <1>4. DOMAIN order = 1 .. k /\ \A i \in 1 .. k : order[i] = i
    BY <1>2
  <1>5. order \in Seq(1 .. k) /\ Len(order) = k
    <2>1. order \in [1 .. k -> 1 .. k]
      BY <1>2
    <2>2. QED
      BY <2>1, ArrayIsSeq
  <1>6. Listed(order, num)
    <2>1. Distinct(order)
      BY <1>4 DEF Distinct
    <2>2. 1 \in DOMAIN order /\ order[1] = Lobby
      BY <1>4 DEF Lobby
    <2>3. QED
      BY <1>2, <1>5, <2>1, <2>2 DEF Listed
  <1>7. ListInv
    <2>1. Rooms = 1 .. k
      BY <1>4 DEF Rooms
    <2>2. pos \in [Rooms -> Nat] /\ \A i \in DOMAIN order : pos[order[i]] = i - 1
      BY <1>2, <1>4, <2>1
    <2>3. nslot \in Nat /\ k <= nslot /\ crashes \in Nat
      BY <1>1, <1>2, SlotsAssumption
    <2>4. disk.num <= num
      BY <1>2, <1>3
    <2>5. QED
      BY <1>3, <1>5, <1>6, <2>2, <2>3, <2>4 DEF ListInv
  <1>8. ASSUME NEW u \in Users
        PROVE  Vector(u) = [i \in 0 .. nslot - 1 |-> IF i < k THEN Default ELSE {}]
    BY <1>2 DEF Vector
  <1>9. VectorsInv
    <2>1. Default \subseteq Marks
      BY DEF Default, Marks
    <2>2. \A u \in Users : Vector(u) \in Vectors
      BY <1>8, <2>1 DEF Vectors
    <2>3. DOMAIN file = Users /\ online \subseteq Users
      BY <1>2
    <2>4. QED
      BY <1>2, <2>2, <2>3 DEF VectorsInv
  <1>10. PrefixInv
    BY <1>3, <1>5 DEF PrefixInv
  <1>11. CleanInv
    <2>1. ASSUME NEW u \in Users, NEW i \in 0 .. nslot - 1, i >= k
          PROVE  Vector(u)[i] = {}
      <3>1. ~ i < k
        BY <2>1
      <3>2. QED
        BY <1>8, <3>1
    <2>2. QED
      BY <1>5, <2>1 DEF CleanInv
  <1>12. QED
    BY <1>2, <1>7, <1>9, <1>10, <1>11 DEF PInv, Positions

\* Changed marks on the rooms that are there do not disturb it.
LEMMA RemarkedKeeps ==
  ASSUME ListInv, VectorsInv, PrefixInv, CleanInv,
         UNCHANGED << commands, listVars, disk, crashes >>,
         online' \subseteq Users, DOMAIN mem' = Users, DOMAIN file' = Users,
         \A u \in Users : Remarked(Vector(u), Vector(u)')
  PROVE  ListInv' /\ VectorsInv' /\ PrefixInv' /\ CleanInv'
  <1>1. ListInv' /\ PrefixInv'
    BY SameList
  <1>2. /\ commands' = commands /\ order' = order /\ nslot' = nslot
        /\ crashes' = crashes
    BY DEF listVars
  <1>3. VectorsInv'
    BY <1>2 DEF VectorsInv, Remarked, Vectors
  <1>4. CleanInv'
    BY <1>2 DEF CleanInv, Remarked
  <1>5. QED
    BY <1>1, <1>3, <1>4

LEMMA SameRemarked ==
  ASSUME VectorsInv, NEW u \in Users, Vector(u)' = Vector(u)
  PROVE  Remarked(Vector(u), Vector(u)')
  <1>1. Vector(u) \in Vectors
    BY DEF VectorsInv
  <1>2. Remarked(Vector(u), Vector(u))
    BY <1>1 DEF Remarked
  <1>3. QED
    BY <1>2

\* A new room takes a slot in which there is nothing.
LEMMA RnewKeeps ==
  ASSUME Positions, NEW junk \in [Users -> SUBSET Junk], Rnew(junk)
  PROVE  Positions'
  <1>1. ListInv /\ VectorsInv /\ PrefixInv /\ CleanInv
    BY DEF Positions
  <1>2. PICK p \in Nat : p = Len(order)
    BY <1>1, ListedProps DEF ListInv
  <1>3. /\ ListInv' /\ PrefixInv' /\ commands' = commands /\ crashes' = crashes
        /\ Len(order') = p + 1 /\ nslot <= nslot'
        /\ "GROW" \notin commands => nslot' = nslot
    BY <1>1, <1>2, RnewList
  <1>4. online \subseteq Users
    BY <1>1 DEF VectorsInv
  <1>5. /\ online' = online /\ DOMAIN mem' = Users /\ DOMAIN file' = Users
        /\ \A u \in Users :
              /\ Vector(u)' \in [0 .. nslot' - 1 -> SUBSET Marks]
              /\ \A i \in 0 .. nslot - 1 : i # p => Vector(u)'[i] = Vector(u)[i]
    BY <1>1, <1>2, RnewVectors
  <1>6. VectorsInv'
    BY <1>4, <1>5 DEF VectorsInv, Vectors
  <1>7. CleanInv'
    <2>1. SUFFICES ASSUME "GROW" \notin commands, crashes = 0,
                          NEW u \in Users, NEW i \in 0 .. nslot - 1, i >= p + 1
                   PROVE  Vector(u)'[i] = {}
      BY <1>3 DEF CleanInv
    <2>2. i # p /\ i >= p
      BY <2>1
    <2>3. Vector(u)[i] = {}
      BY <1>1, <1>2, <2>1, <2>2 DEF CleanInv
    <2>4. QED
      BY <1>5, <2>2, <2>3
  <1>8. QED
    BY <1>3, <1>6, <1>7 DEF Positions

LEMMA RswpKeeps ==
  ASSUME Positions, NEW i \in DOMAIN order, NEW j \in DOMAIN order, Rswp(i, j)
  PROVE  Positions'
  <1>1. ListInv /\ VectorsInv /\ PrefixInv /\ CleanInv
    BY DEF Positions
  <1>2. /\ ListInv' /\ PrefixInv' /\ commands' = commands /\ crashes' = crashes
        /\ Len(order') = Len(order) /\ nslot' = nslot
    BY <1>1, RswpList
  <1>3. online \subseteq Users
    BY <1>1 DEF VectorsInv
  <1>4. /\ online' = online /\ DOMAIN mem' = Users /\ DOMAIN file' = Users
        /\ \A u \in Users : Remarked(Vector(u), Vector(u)')
    BY <1>1, RswpVectors
  <1>5. VectorsInv'
    BY <1>2, <1>3, <1>4 DEF VectorsInv, Vectors, Remarked
  <1>6. CleanInv'
    BY <1>1, <1>2, <1>4 DEF CleanInv, Remarked
  <1>7. QED
    BY <1>2, <1>5, <1>6 DEF Positions

\* Behind the last room what moves up is nothing.
LEMMA RdelKeeps ==
  ASSUME Positions, "RDEL" \notin commands, NEW i \in DOMAIN order, Rdel(i)
  PROVE  Positions'
  <1>1. ListInv /\ VectorsInv /\ PrefixInv /\ CleanInv
    BY DEF Positions
  <1>2. PICK n \in Nat \ {0} : n = Len(order)
    BY <1>1, RoomsPlaced
  <1>3. /\ ListInv' /\ PrefixInv' /\ commands' = commands /\ crashes' = crashes
        /\ Len(order') = n - 1 /\ nslot' = nslot
    BY <1>1, <1>2, RdelList
  <1>4. online \subseteq Users
    BY <1>1 DEF VectorsInv
  <1>5. /\ online' = online /\ DOMAIN mem' = Users /\ DOMAIN file' = Users
        /\ \A u \in Users :
             /\ Vector(u)' \in Vectors
             /\ \A x \in 0 .. nslot - 1 :
                  IF x < n - 1 THEN Vector(u)'[x] = Vector(u)[x]
                  ELSE IF x + 1 \in 0 .. nslot - 1
                       THEN Vector(u)'[x] = Vector(u)[x + 1]
                       ELSE Vector(u)'[x] = {}
    BY <1>1, <1>2, RdelVectors
  <1>6. VectorsInv'
    BY <1>3, <1>4, <1>5 DEF VectorsInv, Vectors
  <1>7. CleanInv'
    <2>1. SUFFICES ASSUME "GROW" \notin commands, crashes = 0,
                          NEW u \in Users, NEW x \in 0 .. nslot - 1, x >= n - 1
                   PROVE  Vector(u)'[x] = {}
      BY <1>3 DEF CleanInv
    <2>2. ~ x < n - 1 /\ x + 1 >= n
      BY <2>1
    <2>3. x + 1 \in 0 .. nslot - 1 => Vector(u)[x + 1] = {}
      BY <1>1, <1>2, <2>1, <2>2 DEF CleanInv
    <2>4. QED
      BY <1>5, <2>2, <2>3
  <1>8. QED
    BY <1>3, <1>6, <1>7 DEF Positions

LEMMA CrashKeeps ==
  ASSUME Positions, CrashRestart
  PROVE  Positions' /\ \A u \in Users : Vector(u)' = file[u]
  <1>1. ListInv /\ VectorsInv /\ PrefixInv /\ CleanInv
    BY DEF Positions
  <1>2. ListInv' /\ PrefixInv'
    BY <1>1, CrashList
  <1>3. /\ nslot' = nslot /\ file' = file /\ online' = {} /\ crashes' = crashes + 1
        /\ mem' = [u \in Users |-> NoVector]
        /\ \A u \in Users : file[u] \in Vectors
    BY DEF CrashRestart
  <1>4. \A u \in Users : Vector(u)' = file[u]
    BY <1>3 DEF Vector
  <1>5. VectorsInv'
    <2>1. DOMAIN file' = Users /\ DOMAIN mem' = Users /\ online' \subseteq Users
      BY <1>1, <1>3 DEF VectorsInv
    <2>2. Vectors' = Vectors
      BY <1>3 DEF Vectors
    <2>3. QED
      BY <1>3, <1>4, <2>1, <2>2 DEF VectorsInv
  <1>6. CleanInv'
    <2>1. crashes' # 0
      BY <1>1, <1>3 DEF ListInv
    <2>2. QED
      BY <2>1 DEF CleanInv
  <1>7. QED
    BY <1>2, <1>4, <1>5, <1>6 DEF Positions

\* Every step, one action at a time.
LEMMA PositionsStep ==
  ASSUME Positions, "RDEL" \notin commands, Next
  PROVE  Positions'
  <1>1. ListInv /\ VectorsInv /\ PrefixInv /\ CleanInv
    BY DEF Positions
  <1>2. ASSUME NEW u \in Users, OneUser(u) PROVE Positions'
    <2>1. /\ UNCHANGED << commands, listVars, diskVars, online >>
          /\ DOMAIN mem' = Users /\ DOMAIN file' = Users
          /\ Remarked(Vector(u), Vector(u)')
          /\ \A w \in Users \ {u} : Vector(w)' = Vector(w)
      BY <1>1, <1>2, OneUserStep
    <2>2. \A w \in Users : Remarked(Vector(w), Vector(w)')
      BY <1>1, <2>1, SameRemarked
    <2>3. online' \subseteq Users /\ UNCHANGED << commands, listVars, disk, crashes >>
      BY <1>1, <2>1 DEF VectorsInv, diskVars
    <2>4. QED
      BY <1>1, <2>1, <2>2, <2>3, RemarkedKeeps DEF Positions
  <1>3. ASSUME NEW u \in Users, Login(u) \/ Logout(u) PROVE Positions'
    <2>1. /\ UNCHANGED << commands, listVars, diskVars >>
          /\ online' \subseteq Users /\ DOMAIN mem' = Users /\ DOMAIN file' = Users
          /\ \A w \in Users : Vector(w)' = Vector(w)
      BY <1>1, <1>3, ComesAndGoes
    <2>2. \A w \in Users : Remarked(Vector(w), Vector(w)')
      BY <1>1, <2>1, SameRemarked
    <2>3. UNCHANGED << commands, listVars, disk, crashes >>
      BY <2>1 DEF diskVars
    <2>4. QED
      BY <1>1, <2>1, <2>2, <2>3, RemarkedKeeps DEF Positions
  <1>4. ASSUME NEW r \in Rooms, NEW guess \in BOOLEAN, Redt(r, guess) PROVE Positions'
    <2>1. /\ UNCHANGED << commands, listVars, diskVars, online >>
          /\ DOMAIN mem' = Users /\ DOMAIN file' = Users
          /\ \A w \in Users : Remarked(Vector(w), Vector(w)')
      BY <1>1, <1>4, RedtStep
    <2>2. online' \subseteq Users /\ UNCHANGED << commands, listVars, disk, crashes >>
      BY <1>1, <2>1 DEF VectorsInv, diskVars
    <2>3. QED
      BY <1>1, <2>1, <2>2, RemarkedKeeps DEF Positions
  <1>5. ASSUME Save PROVE Positions'
    <2>1. ListInv' /\ PrefixInv'
      BY <1>1, <1>5, SaveList
    <2>2. /\ commands' = commands /\ order' = order /\ nslot' = nslot
          /\ crashes' = crashes /\ online' = online /\ mem' = mem /\ file' = file
      BY <1>5 DEF Save, listVars
    <2>3. VectorsInv' /\ CleanInv'
      BY <1>1, <2>2 DEF VectorsInv, CleanInv, Vector, Vectors
    <2>4. QED
      BY <2>1, <2>3 DEF Positions
  <1>6. QED
    BY <1>2, <1>3, <1>4, <1>5, RnewKeeps, RswpKeeps, RdelKeeps, CrashKeeps
       DEF Next, OneUser

LEMMA CommandsStay ==
  ASSUME [Next]_vars
  PROVE  commands' = commands
  BY DEF Next, vars, Login, Logout, Rall, Rzpa, Ruzp, Goto, Rkob, Rkoe, Redt, Rnew,
         Rswp, Rdel, Save, CrashRestart, Served

\* The invariant of the list of rooms and the vectors, for any users, rooms and
\* bounds, whatever happens but a deletion in the middle of the list.
THEOREM PositionsInvariant == Spec => []PInv
  <1>1. PInv /\ [Next]_vars => PInv'
    <2> SUFFICES ASSUME PInv, [Next]_vars PROVE PInv'
      OBVIOUS
    <2>1. commands' = commands
      BY CommandsStay
    <2>2. ASSUME "RDEL" \notin commands PROVE Positions'
      <3>1. Positions
        BY <2>2 DEF PInv, Positions
      <3>2. CASE Next
        BY <2>2, <3>1, <3>2, PositionsStep
      <3>3. CASE UNCHANGED vars
        <4>1. /\ order' = order /\ nslot' = nslot /\ crashes' = crashes /\ num' = num
              /\ online' = online /\ mem' = mem /\ file' = file /\ pos' = pos
              /\ disk' = disk
          BY <3>3 DEF vars, listVars, diskVars
        <4>2. ListInv' /\ PrefixInv'
          BY <2>1, <3>1, <4>1 DEF Positions, ListInv, PrefixInv, Rooms
        <4>3. VectorsInv' /\ CleanInv'
          BY <2>1, <3>1, <4>1 DEF Positions, VectorsInv, CleanInv, Vector, Vectors
        <4>4. QED
          BY <4>2, <4>3 DEF Positions
      <3>4. QED
        BY <3>2, <3>3
    <2>3. QED
      BY <2>1, <2>2 DEF PInv, Positions
  <1>2. QED
    BY PositionsInit, <1>1, PTL DEF Spec

-----------------------------------------------------------------------------
(***************************************************************************)
(* What follows.                                                           *)
(***************************************************************************)
\* The position of a room is its place in the list, and there is a slot for it
\* in every vector (room_create, room_swap, room_delete, utr_resize).
THEOREM PositionsDense == Spec => []Dense
  <1>1. PInv => Dense
    BY DEF PInv, Positions, ListInv, Dense
  <1>2. QED
    BY <1>1, PositionsInvariant, PTL

\* Where no room is deleted in the middle, everything has its type.
THEOREM TypesWithoutRdel == Spec => []("RDEL" \notin commands => TypeOK)
  <1>1. PInv => ("RDEL" \notin commands => TypeOK)
    BY DEF PInv, Positions, ListInv, Listed, VectorsInv, TypeOK
  <1>2. QED
    BY <1>1, PositionsInvariant, PTL

\* The number of a room is given once, and only a new room takes one.
LEMMA OnlyRnewCounts ==
  ASSUME Positions, Next, num' > num
  PROVE  \E junk \in [Users -> SUBSET Junk] : Rnew(junk)
  <1>1. num \in Nat /\ disk.num \in Nat /\ disk.num <= num
    BY DEF Positions, ListInv, Listed
  <1>2. num' # num /\ num' # disk.num
    BY <1>1
  <1>3. ~ CrashRestart
    BY <1>2 DEF CrashRestart
  <1>4. QED
    BY <1>2, <1>3 DEF Next, Login, Logout, Rall, Rzpa, Ruzp, Goto, Rkob, Rkoe, Redt, Rswp,
       Rdel, Save, OwnMarks, listVars

\* A new room is clean: what was in its slot is gone (utr_rmslot, utr_chval_all).
THEOREM NewRoomsClean == Spec => NewRoomClean
  <1>1. ASSUME PInv, PInv', [Next]_vars,
               {"GROW", "RDEL"} \cap commands = {}, crashes = 0, num' > num
        PROVE  NewestIsClean'
    <2>1. "GROW" \notin commands /\ "RDEL" \notin commands
      BY <1>1
    <2>2. ListInv /\ VectorsInv /\ PrefixInv /\ CleanInv /\ Positions
      BY <1>1, <2>1 DEF PInv, Positions
    <2>3. PICK x \in Nat : x = num
      BY <2>2 DEF ListInv, Listed
    <2>4. Next
      BY <1>1, <2>3 DEF vars, listVars
    <2>5. PICK junk \in [Users -> SUBSET Junk] : Rnew(junk)
      BY <1>1, <2>2, <2>4, OnlyRnewCounts
    <2>6. PICK p \in Nat : p = Len(order)
      BY <2>2, ListedProps DEF ListInv
    <2>7. /\ pos'[x + 1] = p /\ num' = x + 1 /\ p < nslot' /\ nslot' = nslot
      BY <2>1, <2>2, <2>3, <2>5, <2>6, RnewList
    <2>8. PICK l \in Nat : l = nslot
      BY <2>2 DEF ListInv
    <2>9. p \in 0 .. l - 1 /\ p >= p /\ p < l
      BY <2>7, <2>8
    <2>10. \A u \in Users : Vector(u)[p] = {}
      BY <1>1, <2>1, <2>2, <2>6, <2>8, <2>9 DEF CleanInv
    <2>11. \A u \in Users : Vector(u)'[p] = Default
      BY <2>2, <2>5, <2>6, <2>8, <2>9, <2>10, RnewVectors
    <2>12. \A u \in Users : MarksOn(u, num)' = Default
      BY <2>7, <2>11 DEF MarksOn
    <2>13. QED
      BY <2>12 DEF NewestIsClean
  <1>2. QED
    BY <1>1, PositionsInvariant, PTL DEF Spec, NewRoomClean

-----------------------------------------------------------------------------
(***************************************************************************)
(* The marks stay on their rooms: every step is one of UserMarks.          *)
(***************************************************************************)
LEMMA MarksAre ==
  /\ MarksOfAll  = [u \in Users |-> [r \in Rooms  |-> Vector(u)[pos[r]]]]
  /\ MarksOfAll' = [u \in Users |-> [r \in Rooms' |-> Vector(u)'[pos'[r]]]]
  BY DEF MarksOfAll, MarksOn

\* Marks that are where they were, on rooms that are where they were.
LEMMA MarksStay ==
  ASSUME Rooms' = Rooms,
         \A u \in Users : \A q \in Rooms : Vector(u)'[pos'[q]] = Vector(u)[pos[q]]
  PROVE  MarksOfAll' = MarksOfAll
  <1>1. \A u \in Users : [r \in Rooms' |-> Vector(u)'[pos'[r]]]
                           = [r \in Rooms |-> Vector(u)[pos[r]]]
    OBVIOUS
  <1>2. QED
    BY <1>1, MarksAre

LEMMA MarksHaveType ==
  ASSUME Positions
  PROVE  \A u \in Users : \A r \in Rooms : Vector(u)[pos[r]] \in SUBSET Marks
  <1>1. ListInv /\ VectorsInv
    BY DEF Positions
  <1>2. PICK n \in Nat \ {0} : n <= nslot /\ \A q \in Rooms : pos[q] \in 0 .. n - 1
    BY <1>1, RoomsPlaced
  <1>3. \A q \in Rooms : pos[q] \in 0 .. nslot - 1
    BY <1>1, <1>2 DEF ListInv
  <1>4. QED
    BY <1>1, <1>3 DEF VectorsInv, Vectors

LEMMA PromisedInit ==
  ASSUME Init, Positions
  PROVE  Promised!Init
  <1>1. MarksOfAll \in [Users -> [Rooms -> SUBSET Marks]]
    BY MarksHaveType, MarksAre
  <1>2. online = {}
    BY DEF Init
  <1>3. QED
    BY <1>1, <1>2 DEF Promised!Init

LEMMA RnewIsCreate ==
  ASSUME Positions, NEW junk \in [Users -> SUBSET Junk], Rnew(junk)
  PROVE  Promised!Create
  <1>1. ListInv /\ VectorsInv /\ PrefixInv
    BY DEF Positions
  <1>2. PICK n \in Nat : n = Len(order) /\ n <= nslot /\ \A q \in Rooms : pos[q] \in 0 .. n - 1
    BY <1>1, RoomsPlaced
  <1>3. PICK r : r = num + 1
    OBVIOUS
  <1>4. /\ r \notin Rooms /\ Rooms' = Rooms \cup {r} /\ pos'[r] = n
        /\ \A q \in Rooms : pos'[q] = pos[q]
    BY <1>1, <1>2, <1>3, RnewList
  <1>5. /\ online' = online
        /\ \A u \in Users :
              /\ \A i \in 0 .. nslot - 1 : i # n => Vector(u)'[i] = Vector(u)[i]
              /\ Default \subseteq Vector(u)'[n]
    BY <1>1, <1>2, RnewVectors
  <1>6. \A q \in Rooms : pos[q] \in 0 .. nslot - 1 /\ pos[q] # n
    BY <1>1, <1>2 DEF ListInv
  <1>7. \A u \in Users : \A q \in Rooms : MarksOfAll'[u][q] = MarksOfAll[u][q]
    <2>1. ASSUME NEW u \in Users, NEW q \in Rooms
          PROVE  MarksOfAll'[u][q] = MarksOfAll[u][q]
      <3>1. Vector(u)'[pos'[q]] = Vector(u)[pos[q]]
        BY <1>4, <1>5, <1>6
      <3>2. QED
        BY <1>4, <3>1, MarksAre
    <2>2. QED
      BY <2>1
  <1>8. \A u \in Users : Default \subseteq MarksOfAll'[u][r]
    BY <1>4, <1>5, MarksAre
  <1>9. r \in Rooms' \ Rooms
    BY <1>4
  <1>10. QED
    BY <1>4, <1>5, <1>7, <1>8, <1>9 DEF Promised!Create

LEMMA RdelIsRemove ==
  ASSUME Positions, "RDEL" \notin commands, NEW i \in DOMAIN order, Rdel(i)
  PROVE  order[i] \in Rooms /\ Promised!Remove(order[i])
  <1>1. ListInv /\ VectorsInv /\ PrefixInv
    BY DEF Positions
  <1>2. PICK n \in Nat \ {0} : n = Len(order) /\ n <= nslot /\ \A q \in Rooms : pos[q] \in 0 .. n - 1
    BY <1>1, RoomsPlaced
  <1>3. PICK r : r = order[i]
    OBVIOUS
  <1>4. /\ r \in Rooms /\ Rooms' = Rooms \ {r}
        /\ \A q \in Rooms' : pos'[q] = pos[q] /\ pos[q] < n - 1
    BY <1>1, <1>2, <1>3, RdelList
  <1>5. /\ online' = online
        /\ \A u \in Users : \A x \in 0 .. nslot - 1 :
              x < n - 1 => Vector(u)'[x] = Vector(u)[x]
    BY <1>1, <1>2, RdelVectors
  <1>6. \A q \in Rooms' : q \in Rooms /\ pos[q] \in 0 .. nslot - 1
    BY <1>1, <1>2, <1>4 DEF ListInv
  <1>7. MarksOfAll' = [u \in Users |-> [q \in Rooms \ {r} |-> MarksOfAll[u][q]]]
    <2>1. ASSUME NEW u \in Users
          PROVE  [q \in Rooms' |-> Vector(u)'[pos'[q]]]
                   = [q \in Rooms \ {r} |-> MarksOfAll[u][q]]
      <3>1. ASSUME NEW q \in Rooms' PROVE Vector(u)'[pos'[q]] = MarksOfAll[u][q]
        <4>1. Vector(u)'[pos'[q]] = Vector(u)[pos[q]]
          BY <1>4, <1>5, <1>6
        <4>2. QED
          BY <1>6, <4>1, MarksAre
      <3>2. QED
        BY <1>4, <3>1
    <2>2. QED
      BY <2>1, MarksAre
  <1>8. QED
    BY <1>3, <1>4, <1>5, <1>7 DEF Promised!Remove

LEMMA OneUserIsChange ==
  ASSUME Positions, Positions', NEW u \in Users, OneUser(u)
  PROVE  Promised!ChangeUser(u)
  <1>1. ListInv /\ VectorsInv
    BY DEF Positions
  <1>2. /\ UNCHANGED << commands, listVars, diskVars, online >>
        /\ \A w \in Users \ {u} : Vector(w)' = Vector(w)
        /\ Remarked(Vector(u), Vector(u)')
    BY <1>1, OneUserStep
  <1>3. pos' = pos /\ Rooms' = Rooms /\ online' = online /\ nslot' = nslot
    BY <1>2 DEF listVars, Rooms
  <1>4. PICK n \in Nat \ {0} : n <= nslot /\ \A q \in Rooms : pos[q] \in 0 .. n - 1
    BY <1>1, RoomsPlaced
  <1>5. \A q \in Rooms : pos[q] \in 0 .. nslot - 1
    BY <1>1, <1>4 DEF ListInv
  <1>6. \A q \in Rooms : Vector(u)'[pos[q]] \in SUBSET Marks
    BY <1>2, <1>5 DEF Remarked, Vectors
  <1>7. MarksOfAll'[u] \in [Rooms -> SUBSET Marks]
    BY <1>3, <1>6, MarksAre
  <1>8. MarksOfAll' = [MarksOfAll EXCEPT ![u] = MarksOfAll'[u]]
    <2>1. \A w \in Users \ {u} : MarksOfAll'[w] = MarksOfAll[w]
      BY <1>2, <1>3, MarksAre
    <2>2. /\ DOMAIN MarksOfAll = Users /\ DOMAIN MarksOfAll' = Users
          /\ MarksOfAll  = [w \in Users |-> MarksOfAll[w]]
          /\ MarksOfAll' = [w \in Users |-> MarksOfAll'[w]]
      BY MarksAre
    <2>3. QED
      BY <2>1, <2>2
  <1>9. QED
    BY <1>3, <1>7, <1>8 DEF Promised!ChangeUser

LEMMA RedtIsChange ==
  ASSUME Positions, NEW r \in Rooms, NEW guess \in BOOLEAN, Redt(r, guess)
  PROVE  Promised!ChangeRoom(r)
  <1>1. ListInv /\ VectorsInv
    BY DEF Positions
  <1>2. /\ UNCHANGED << commands, listVars, diskVars, online >>
        /\ \A u \in Users :
              /\ Remarked(Vector(u), Vector(u)')
              /\ \A q \in Rooms \ {r} : Vector(u)'[pos[q]] = Vector(u)[pos[q]]
    BY <1>1, RedtStep
  <1>3. pos' = pos /\ Rooms' = Rooms /\ online' = online
    BY <1>2 DEF listVars, Rooms
  <1>4. PICK n \in Nat \ {0} : n <= nslot /\ \A q \in Rooms : pos[q] \in 0 .. n - 1
    BY <1>1, RoomsPlaced
  <1>5. pos[r] \in 0 .. nslot - 1
    BY <1>1, <1>4 DEF ListInv
  <1>6. \A u \in Users : Vector(u)'[pos[r]] \in SUBSET Marks
    BY <1>2, <1>5 DEF Remarked, Vectors
  <1>7. \A u \in Users : MarksOfAll'[u][r] \subseteq Marks
    BY <1>3, <1>6, MarksAre
  <1>8. MarksOfAll' = [u \in Users |-> [MarksOfAll[u] EXCEPT ![r] = MarksOfAll'[u][r]]]
    <2>1. ASSUME NEW u \in Users
          PROVE  MarksOfAll'[u] = [MarksOfAll[u] EXCEPT ![r] = MarksOfAll'[u][r]]
      <3>1. PICK v, w : v = MarksOfAll[u] /\ w = MarksOfAll'[u]
        OBVIOUS
      <3>2. /\ v = [q \in Rooms |-> Vector(u)[pos[q]]]
            /\ w = [q \in Rooms |-> Vector(u)'[pos[q]]]
        BY <1>3, <3>1, MarksAre
      <3>3. \A q \in Rooms : q # r => w[q] = v[q]
        BY <1>2, <3>2
      <3>4. w = [v EXCEPT ![r] = w[r]]
        BY <3>2, <3>3
      <3>5. QED
        BY <3>1, <3>4
    <2>2. MarksOfAll' = [u \in Users |-> MarksOfAll'[u]]
      BY MarksAre
    <2>3. QED
      BY <2>1, <2>2
  <1>9. QED
    BY <1>3, <1>7, <1>8 DEF Promised!ChangeRoom

\* The rooms saved last come back with the marks they had, but for those of the
\* users who were connected.
LEMMA CrashIsCrash ==
  ASSUME Positions, {"RSWP", "RDEL_LAST"} \cap commands = {}, CrashRestart
  PROVE  Promised!Crash
  <1>1. ListInv /\ VectorsInv /\ PrefixInv
    BY DEF Positions
  <1>2. Rooms' \subseteq Rooms /\ \A q \in Rooms' : pos'[q] = pos[q]
    BY <1>1, CrashList
  <1>3. online' = {}
    BY DEF CrashRestart
  <1>4. ASSUME NEW u \in Users \ online, NEW r \in Rooms'
        PROVE  MarksOfAll'[u][r] = MarksOfAll[u][r]
    <2>1. Vector(u)' = file[u] /\ Vector(u) = file[u]
      BY CrashKeeps DEF Vector
    <2>2. r \in Rooms /\ pos'[r] = pos[r]
      BY <1>2
    <2>3. QED
      BY <2>1, <2>2, MarksAre
  <1>5. QED
    BY <1>2, <1>3, <1>4 DEF Promised!Crash

LEMMA ComesAndGoesIs ==
  ASSUME Positions, NEW u \in Users, Login(u) \/ Logout(u)
  PROVE  Promised!Connect(u) \/ Promised!Leave(u)
  <1>1. ListInv /\ VectorsInv
    BY DEF Positions
  <1>2. /\ UNCHANGED << commands, listVars, diskVars >>
        /\ \A w \in Users : Vector(w)' = Vector(w)
    BY <1>1, ComesAndGoes
  <1>3. pos' = pos /\ Rooms' = Rooms
    BY <1>2 DEF listVars, Rooms
  <1>4. MarksOfAll' = MarksOfAll
    BY <1>2, <1>3, MarksStay
  <1>5. QED
    BY <1>3, <1>4 DEF Login, Logout, Promised!Connect, Promised!Leave

\* Neither saving nor exchanging rooms is seen.
LEMMA UnseenSteps ==
  ASSUME Positions, Save \/ (\E i, j \in DOMAIN order : Rswp(i, j)) \/ UNCHANGED vars
  PROVE  UNCHANGED << Rooms, MarksOfAll, online >>
  <1>1. ListInv /\ VectorsInv
    BY DEF Positions
  <1>2. CASE Save \/ UNCHANGED vars
    <2>1. /\ pos' = pos /\ order' = order /\ online' = online /\ mem' = mem
          /\ file' = file
      BY <1>2 DEF Save, vars, listVars
    <2>2. QED
      BY <2>1 DEF Rooms, MarksOfAll, MarksOn, Vector
  <1>3. ASSUME NEW i \in DOMAIN order, NEW j \in DOMAIN order, Rswp(i, j)
        PROVE  UNCHANGED << Rooms, MarksOfAll, online >>
    <2>1. Rooms' = Rooms
      BY <1>1, <1>3, RswpList
    <2>2. /\ online' = online
          /\ \A u \in Users : \A q \in Rooms : Vector(u)'[pos'[q]] = Vector(u)[pos[q]]
      BY <1>1, <1>3, RswpVectors
    <2>3. QED
      BY <2>1, <2>2, MarksStay
  <1>4. QED
    BY <1>2, <1>3

\* Creating, exchanging and deleting the last of the rooms, coming and going:
\* the marks of every user stay on the rooms they were put on.  After a crash,
\* only if no room was exchanged or deleted (what was saved is the beginning of
\* the list); and no room is deleted in the middle of the list.
THEOREM MarksStayOnRooms ==
  ASSUME \A C \in CommandSets :
            /\ "RDEL" \notin C
            /\ "CRASH" \in C => {"RSWP", "RDEL_LAST"} \cap C = {}
  PROVE  Spec => ImplementsUserMarks
  <1>1. PInv => /\ Positions /\ "RDEL" \notin commands
                /\ "CRASH" \in commands => {"RSWP", "RDEL_LAST"} \cap commands = {}
    BY DEF PInv, Positions
  <1>2. PInv /\ Init => Promised!Init
    BY <1>1, PromisedInit
  <1>3. PInv /\ PInv' /\ [Next]_vars
           => Promised!Next \/ UNCHANGED << Rooms, MarksOfAll, online >>
    <2> SUFFICES ASSUME PInv, PInv', [Next]_vars
                 PROVE  Promised!Next \/ UNCHANGED << Rooms, MarksOfAll, online >>
      OBVIOUS
    <2>1. /\ Positions /\ "RDEL" \notin commands
          /\ "CRASH" \in commands => {"RSWP", "RDEL_LAST"} \cap commands = {}
      BY <1>1
    <2>2. Positions'
      <3>1. commands' = commands
        BY CommandsStay
      <3>2. QED
        BY <2>1, <3>1 DEF PInv, Positions
    <2>3. ASSUME NEW u \in Users, OneUser(u) PROVE Promised!Next
      BY <2>1, <2>2, <2>3, OneUserIsChange DEF Promised!Next
    <2>4. ASSUME NEW u \in Users, Login(u) \/ Logout(u) PROVE Promised!Next
      BY <2>1, <2>4, ComesAndGoesIs DEF Promised!Next
    <2>5. ASSUME NEW r \in Rooms, NEW guess \in BOOLEAN, Redt(r, guess)
          PROVE  Promised!Next
      BY <2>1, <2>5, RedtIsChange DEF Promised!Next
    <2>6. ASSUME NEW junk \in [Users -> SUBSET Junk], Rnew(junk) PROVE Promised!Next
      BY <2>1, <2>6, RnewIsCreate DEF Promised!Next
    <2>7. ASSUME NEW i \in DOMAIN order, Rdel(i) PROVE Promised!Next
      BY <2>1, <2>7, RdelIsRemove DEF Promised!Next
    <2>8. ASSUME CrashRestart PROVE Promised!Next
      <3>1. "CRASH" \in commands
        BY <2>8 DEF CrashRestart
      <3>2. QED
        BY <2>1, <2>8, <3>1, CrashIsCrash DEF Promised!Next
    <2>9. CASE Save \/ (\E i, j \in DOMAIN order : Rswp(i, j)) \/ UNCHANGED vars
      BY <2>1, <2>9, UnseenSteps
    <2>10. QED
      BY <2>3, <2>4, <2>5, <2>6, <2>7, <2>8, <2>9 DEF Next, OneUser
  <1>4. QED
    BY <1>2, <1>3, PositionsInvariant, PTL
       DEF Spec, ImplementsUserMarks, Promised!Spec, Promised!vars
=============================================================================
