-------------------------- MODULE PostCache_proofs --------------------------
(***************************************************************************)
(* Proofs about the circular message file, about the message file through  *)
(* crashes of the server, and about the cache of posts in front of it, for *)
(* every size of file and of cache, every length of post and every number  *)
(* of posts and of crashes.                                                *)
(***************************************************************************)
EXTENDS PostCache, FunctionTheorems, FiniteSetTheorems, SequenceTheorems, TLAPS

-----------------------------------------------------------------------------
(***************************************************************************)
(* The file, as long as the server runs.                                   *)
(*                                                                         *)
(* The inductive invariant says how the file lies on the disk: seen from   *)
(* the write position backwards, every post that still begins in the file  *)
(* is there to its last byte, ends before the write position, and is newer *)
(* than the posts behind it.  A write then meets the posts oldest first,   *)
(* which is why stepping `lowest' once per post destroyed is enough.       *)
(***************************************************************************)

\* How far the write position is ahead of byte i: 1 .. size.
Behind(i) == IF i < posizione THEN posizione - i ELSE posizione - i + size

FileInOrder ==
  /\ \A i \in Markers : disk[i].rest \in 1 .. Behind(i) /\ Whole(i)
  /\ \A i, j \in Markers : Behind(j) < Behind(i) => disk[i].num < disk[j].num

EntriesOwn ==
  \A e \in entries :
     /\ e.num <= highest
     /\ \A i \in Markers : disk[i].num = e.num => disk[i].text = e.text

IInv == /\ TypeOK
        /\ FileInOrder
        /\ NeverErasedWhileThere
        /\ lowest <= highest + 1
        /\ EntriesOwn
        /\ CountersExact

-----------------------------------------------------------------------------
(***************************************************************************)
(* The geometry of the file.                                               *)
(***************************************************************************)

\* What the type invariant and the assumptions say of sizes and lengths.
LEMMA SizesAndLengths ==
  ASSUME TypeOK
  PROVE  /\ size \in Nat \ {0}
         /\ posizione \in 0 .. size
         /\ \A l \in Lengths : l \in 1 .. size
  BY SizesAssumption, LengthsAssumption DEF TypeOK

\* Offset, the distance from the write position forwards, and Behind, the
\* distance backwards, add up to the size of the file.
LEMMA Geometry ==
  ASSUME size \in Nat \ {0}, posizione \in 0 .. size, NEW i \in Bytes
  PROVE  /\ Offset(i) \in 0 .. (size - 1)
         /\ Behind(i) \in 1 .. size
         /\ Offset(i) = size - Behind(i)
  BY DEF Bytes, Offset, Ring, Behind

\* The k-th byte after byte i.
LEMMA RingStep ==
  ASSUME size \in Nat \ {0}, posizione \in 0 .. size, NEW i \in Bytes,
         NEW k \in Nat, k < Behind(i)
  PROVE  /\ Ring(i, k) \in Bytes
         /\ Offset(Ring(i, k)) = Offset(i) + k
  BY DEF Bytes, Offset, Ring, Behind

\* Different bytes are at different distances.
LEMMA BehindInjective ==
  ASSUME size \in Nat \ {0}, posizione \in 0 .. size,
         NEW i \in Bytes, NEW j \in Bytes
  PROVE  Behind(i) = Behind(j) => i = j
  BY DEF Bytes, Behind

\* The set of markers is finite, as is every part of it.
LEMMA MarkersFinite ==
  ASSUME size \in Nat \ {0}
  PROVE  \A S : S \subseteq Markers =>
            /\ IsFiniteSet(S)
            /\ Cardinality(S) \in Nat
  <1>1. IsFiniteSet(Bytes)
    BY FS_Interval DEF Bytes
  <1>2. Markers \subseteq Bytes
    BY DEF Markers
  <1>3. ASSUME NEW S, S \subseteq Markers
        PROVE  IsFiniteSet(S) /\ Cardinality(S) \in Nat
    <2>1. S \in SUBSET Bytes
      BY <1>2, <1>3
    <2>2. QED
      BY <1>1, <2>1, FS_Subset, FS_CardinalityType
  <1>4. QED
    BY <1>3

-----------------------------------------------------------------------------
(***************************************************************************)
(* What fm_put does to the file, given the invariant.                      *)
(***************************************************************************)

\* First: the byte a post begins at.
First == Ring(posizione, 0)

\* The write position moves len bytes on: every byte outside the new post is
\* len bytes further behind it, those of the new post are counted anew.
LEMMA PutGeometry ==
  ASSUME TypeOK, NEW len \in Lengths, NEW text \in Texts, Put(len, text)
  PROVE  /\ posizione' \in 0 .. size
         /\ First \in Bytes
         /\ \A i \in Bytes : Offset(i) = 0 <=> i = First
         /\ \A i \in Bytes : i \in Span(len) => Behind(i)' = len - Offset(i)
         /\ \A i \in Bytes : i \notin Span(len) => Behind(i)' = Behind(i) + len
  <1>1. /\ size \in Nat \ {0}
        /\ posizione \in 0 .. size
        /\ len \in 1 .. size
        /\ size' = size
        /\ posizione' = IF posizione + len > size THEN posizione + len - size
                                                  ELSE posizione + len
    BY SizesAndLengths DEF Put, NextPos
  <1>2. posizione' \in 0 .. size
    BY <1>1
  <1>3. /\ First \in Bytes
        /\ \A i \in Bytes : Offset(i) = 0 <=> i = First
    BY <1>1 DEF Bytes, Offset, Ring, First
  <1>4. ASSUME NEW i \in Bytes
        PROVE  Behind(i)' = IF i < posizione' THEN posizione' - i
                                              ELSE posizione' - i + size
    BY <1>1 DEF Behind
  <1>5. ASSUME NEW i \in Bytes
        PROVE  /\ i \in Span(len) => Behind(i)' = len - Offset(i)
               /\ i \notin Span(len) => Behind(i)' = Behind(i) + len
    <2>1. i \in 0 .. (size - 1)
      BY DEF Bytes
    <2>2. i \in Span(len) <=> Offset(i) < len
      BY DEF Span
    <2>3. QED
      BY <1>1, <1>4, <2>1, <2>2 DEF Offset, Ring, Behind
  <1>6. QED
    BY <1>2, <1>3, <1>5

\* The new post is the only new marker; those it runs over are gone.
LEMMA PutMarkers ==
  ASSUME TypeOK, NEW len \in Lengths, NEW text \in Texts, Put(len, text)
  PROVE  /\ Bytes' = Bytes
         /\ First \in Span(len)
         /\ Markers' = (Markers \ Hit(len)) \cup {First}
         /\ \A i \in Bytes \ Span(len) : disk'[i] = disk[i]
         /\ disk'[First] = [mark |-> Normal, num |-> highest + 1,
                            rest |-> len, text |-> text]
  <1>1. /\ Bytes' = Bytes
        /\ size \in Nat \ {0}
        /\ len \in 1 .. size
        /\ First \in Bytes
        /\ \A i \in Bytes : Offset(i) = 0 <=> i = First
    BY SizesAndLengths, PutGeometry DEF Put, Bytes
  <1>2. First \in Span(len)
    BY <1>1 DEF Span
  <1>3. \A i \in Bytes :
           disk'[i] = IF i \in Span(len)
                      THEN [mark |-> IF Offset(i) = 0 THEN Normal ELSE 0,
                            num  |-> highest + 1,
                            rest |-> len - Offset(i),
                            text |-> text]
                      ELSE disk[i]
    BY <1>1 DEF Put
  <1>4. disk'[First] = [mark |-> Normal, num |-> highest + 1,
                        rest |-> len, text |-> text]
    BY <1>1, <1>2, <1>3
  <1>5. ASSUME NEW i \in Bytes
        PROVE  i \in Markers' <=> i \in (Markers \ Hit(len)) \cup {First}
    <2>1. CASE i = First
      BY <1>1, <1>4, <2>1 DEF Markers, Marks
    <2>2. CASE i # First /\ i \in Span(len)
      <3>1. disk'[i].mark = 0
        <4>1. Offset(i) # 0
          BY <1>1, <2>2
        <4>2. disk'[i] = [mark |-> IF Offset(i) = 0 THEN Normal ELSE 0,
                          num  |-> highest + 1,
                          rest |-> len - Offset(i),
                          text |-> text]
          BY <1>3, <2>2
        <4>3. QED
          BY <4>1, <4>2
      <3>2. i \notin Markers'
        BY <3>1 DEF Markers, Marks, Normal, Deleted
      <3>3. i \notin Markers \ Hit(len)
        BY <2>2 DEF Hit
      <3>4. QED
        BY <2>2, <3>2, <3>3
    <2>3. CASE i \notin Span(len)
      BY <1>1, <1>2, <1>3, <2>3 DEF Markers, Hit
    <2>4. QED
      BY <2>1, <2>2, <2>3
  <1>6. Markers' \subseteq Bytes /\ Markers \subseteq Bytes
    BY <1>1 DEF Markers
  <1>7. Markers' = (Markers \ Hit(len)) \cup {First}
    BY <1>1, <1>5, <1>6
  <1>8. QED
    BY <1>1, <1>2, <1>3, <1>4, <1>7

\* A post that is not run over is left whole: it ends before the write
\* position, hence before the new post begins.
LEMMA PutLeavesWhole ==
  ASSUME TypeOK, NEW len \in Lengths, NEW text \in Texts, Put(len, text),
         NEW i \in Bytes, i \notin Span(len),
         disk[i].rest \in 1 .. Behind(i), Whole(i)
  PROVE  /\ disk'[i] = disk[i]
         /\ disk'[i].rest \in 1 .. Behind(i)'
         /\ Whole(i)'
  <1>1. /\ size \in Nat \ {0}
        /\ size' = size
        /\ posizione \in 0 .. size
        /\ len \in 1 .. size
    BY SizesAndLengths DEF Put
  <1>2. disk'[i] = disk[i] /\ disk[i].rest \in 1 .. Behind(i) /\ Whole(i)
    BY <1>1, PutMarkers
  <1>3. Behind(i) \in 1 .. size /\ Behind(i)' = Behind(i) + len
    BY <1>1, Geometry, PutGeometry
  <1>4. ASSUME NEW k \in 0 .. (disk[i].rest - 1)
        PROVE  Ring(i, k)' = Ring(i, k) /\ disk'[Ring(i, k)] = disk[Ring(i, k)]
    <2>1. k \in Nat /\ k < Behind(i)
      BY <1>2, <1>3
    <2>2. /\ Ring(i, k) \in Bytes
          /\ Offset(Ring(i, k)) = Offset(i) + k
          /\ Offset(i) \in Nat
      BY <1>1, <2>1, RingStep, Geometry
    <2>3. Ring(i, k) \notin Span(len)
      BY <1>1, <2>1, <2>2 DEF Span
    <2>4. disk'[Ring(i, k)] = disk[Ring(i, k)]
      BY <2>2, <2>3, PutMarkers
    <2>5. QED
      BY <1>1, <2>4 DEF Ring
  <1>5. Whole(i)'
    BY <1>2, <1>4 DEF Whole
  <1>6. QED
    BY <1>1, <1>2, <1>3, <1>5

\* The new post is whole.
LEMMA PutWritesWhole ==
  ASSUME TypeOK, NEW len \in Lengths, NEW text \in Texts, Put(len, text),
         NEW f, f = First
  PROVE  disk'[f].rest \in 1 .. Behind(f)' /\ Whole(f)'
  <1>1. /\ size \in Nat \ {0}
        /\ size' = size
        /\ posizione \in 0 .. size
        /\ len \in 1 .. size
    BY SizesAndLengths DEF Put, NextPos
  <1>2. /\ f \in Bytes
        /\ Offset(f) = 0
        /\ Behind(f) = size
    BY <1>1, PutGeometry, Geometry
  <1>3. /\ disk'[f] = [mark |-> Normal, num |-> highest + 1,
                       rest |-> len, text |-> text]
        /\ Behind(f)' = len
    BY <1>1, <1>2, PutMarkers, PutGeometry
  <1>4. ASSUME NEW k \in 0 .. (len - 1)
        PROVE  /\ Ring(f, k)' = Ring(f, k)
               /\ disk'[Ring(f, k)].num = highest + 1
               /\ disk'[Ring(f, k)].text = text
               /\ disk'[Ring(f, k)].rest = len - k
    <2>1. Ring(f, k) \in Bytes /\ Offset(Ring(f, k)) = k
      BY <1>1, <1>2, RingStep
    <2>2. Ring(f, k) \in Span(len)
      BY <1>1, <2>1 DEF Span
    <2>3. QED
      BY <1>1, <2>1, <2>2 DEF Put, Ring
  <1>5. QED
    BY <1>1, <1>3, <1>4 DEF Whole

-----------------------------------------------------------------------------
(***************************************************************************)
(* What fm_put does to the counters.                                       *)
(***************************************************************************)

\* The posts run over bear different numbers, lowest at least: if all are at
\* most b there are at most b - lowest + 1 of them.
LEMMA HitBound ==
  ASSUME TypeOK, FileInOrder, NeverErasedWhileThere,
         NEW len \in Lengths, NEW b \in Int, b >= lowest - 1,
         \A i \in Hit(len) : disk[i].num <= b
  PROVE  Cardinality(Hit(len)) <= b - lowest + 1
  <1>1. /\ size \in Nat \ {0}
        /\ posizione \in 0 .. size
        /\ lowest \in Nat
    BY SizesAndLengths DEF TypeOK
  <1>2. \A i \in Hit(len) : i \in Markers /\ i \in Bytes
    BY DEF Hit, Markers
  <1>3. \A i \in Hit(len) : disk[i].num \in Nat /\ lowest <= disk[i].num
    BY <1>2 DEF TypeOK, Cell, NeverErasedWhileThere
  <1>4. ASSUME NEW i \in Hit(len), NEW j \in Hit(len), i # j
        PROVE  disk[i].num # disk[j].num
    <2>1. Behind(i) # Behind(j) /\ Behind(i) \in Int /\ Behind(j) \in Int
      BY <1>1, <1>2, <1>4, BehindInjective, Geometry
    <2>2. Behind(i) < Behind(j) \/ Behind(j) < Behind(i)
      BY <2>1
    <2>3. disk[i].num < disk[j].num \/ disk[j].num < disk[i].num
      BY <1>2, <2>2 DEF FileInOrder
    <2>4. QED
      BY <1>3, <2>3
  <1> DEFINE f == [i \in Hit(len) |-> disk[i].num]
             T == lowest .. b
  <1>5. f \in Injection(Hit(len), T)
    <2>1. f \in [Hit(len) -> T]
      BY <1>3
    <2>2. \A i, j \in Hit(len) : f[i] = f[j] => i = j
      BY <1>4
    <2>3. QED
      BY <2>1, <2>2 DEF Injection, IsInjective
  <1>6. IsFiniteSet(T) /\ Cardinality(T) <= b - lowest + 1
    <2>1. lowest \in Int
      BY <1>1
    <2>2. /\ IsFiniteSet(T)
          /\ Cardinality(T) = IF lowest > b THEN 0 ELSE b - lowest + 1
      BY <2>1, FS_Interval
    <2>3. QED
      BY <1>1, <2>2
  <1>7. Cardinality(Hit(len)) <= Cardinality(T)
    BY <1>5, <1>6, FS_Injection
  <1>8. Cardinality(Hit(len)) \in Nat /\ Cardinality(T) \in Nat
    BY <1>1, <1>6, MarkersFinite, FS_CardinalityType DEF Hit
  <1>9. QED
    BY <1>1, <1>6, <1>7, <1>8

\* A set loses a part and gains one element from outside.
LEMMA SwapCardinality ==
  ASSUME NEW S, NEW H, NEW x, IsFiniteSet(S), H \subseteq S, x \notin S \ H
  PROVE  /\ Cardinality((S \ H) \cup {x}) = Cardinality(S) - Cardinality(H) + 1
         /\ Cardinality(S \ H) = Cardinality(S) - Cardinality(H)
  <1>1. IsFiniteSet(H) /\ IsFiniteSet(S \ H)
    BY FS_Subset
  <1>2. S = (S \ H) \cup H /\ (S \ H) \cap H = {}
    OBVIOUS
  <1>3. Cardinality(S) = Cardinality(S \ H) + Cardinality(H)
                           - Cardinality((S \ H) \cap H)
    BY <1>1, <1>2, FS_Union
  <1>4. Cardinality((S \ H) \cap H) = 0
    BY <1>2, FS_EmptySet
  <1>5. Cardinality((S \ H) \cup {x}) = Cardinality(S \ H) + 1
    BY <1>1, FS_AddElement
  <1>6. /\ Cardinality(S) \in Nat
        /\ Cardinality(H) \in Nat
        /\ Cardinality(S \ H) \in Nat
    BY <1>1, FS_CardinalityType
  <1>7. QED
    BY <1>3, <1>4, <1>5, <1>6

\* nmsg and ndel follow.
LEMMA PutCounts ==
  ASSUME TypeOK, CountersExact,
         NEW len \in Lengths, NEW text \in Texts, Put(len, text)
  PROVE  CountersExact'
  <1> DEFINE Dead == {i \in Markers : disk[i].mark = Deleted}
             DeadHit == {i \in Hit(len) : disk[i].mark = Deleted}
  <1>1. /\ size \in Nat \ {0}
        /\ First \in Span(len)
        /\ First \in Bytes
        /\ Markers' = (Markers \ Hit(len)) \cup {First}
        /\ \A i \in Bytes \ Span(len) : disk'[i] = disk[i]
        /\ disk'[First].mark = Normal
    <2>1. disk'[First] = [mark |-> Normal, num |-> highest + 1,
                          rest |-> len, text |-> text]
      BY PutMarkers
    <2>2. disk'[First].mark = Normal
      BY <2>1
    <2>3. QED
      BY <2>2, SizesAndLengths, PutMarkers, PutGeometry
  <1>2. /\ Hit(len) \subseteq Markers
        /\ First \notin Markers \ Hit(len)
        /\ \A i \in Markers \ Hit(len) : i \in Bytes \ Span(len)
    BY <1>1 DEF Hit, Markers
  <1>3. IsFiniteSet(Markers) /\ IsFiniteSet(Dead)
    BY <1>1, MarkersFinite
  <1>4. Cardinality(Markers') = Cardinality(Markers) - Cardinality(Hit(len)) + 1
    BY <1>1, <1>2, <1>3, SwapCardinality
  <1>5. {i \in Markers' : disk'[i].mark = Deleted} = Dead \ DeadHit
    BY <1>1, <1>2 DEF Normal, Deleted
  <1>6. Cardinality(Dead \ DeadHit) = Cardinality(Dead) - Cardinality(DeadHit)
    <2>1. DeadHit \subseteq Dead
      BY <1>2
    <2>2. \A x : x \notin Dead =>
             Cardinality(Dead \ DeadHit) = Cardinality(Dead) - Cardinality(DeadHit)
      BY <1>3, <2>1, SwapCardinality
    <2>3. size \notin Dead
      BY <1>1 DEF Markers, Bytes
    <2>4. QED
      BY <2>2, <2>3
  <1>7. /\ nmsg' = nmsg - Cardinality(Hit(len)) + 1
        /\ ndel' = ndel - Cardinality(DeadHit)
    BY DEF Put
  <1>8. QED
    BY <1>4, <1>5, <1>6, <1>7 DEF CountersExact

-----------------------------------------------------------------------------
(***************************************************************************)
(* Every step preserves the invariant.                                     *)
(***************************************************************************)

\* fm_put keeps the types.
LEMMA PutTypeOK ==
  ASSUME TypeOK, NEW len \in Lengths, NEW text \in Texts, Put(len, text)
  PROVE  TypeOK'
  <1>1. /\ size \in Nat \ {0}
        /\ size' = size
        /\ Bytes' = Bytes
        /\ posizione' \in 0 .. size'
        /\ len \in Nat
    BY SizesAndLengths, PutMarkers, PutGeometry DEF Put
  <1>2. Cardinality(Hit(len)) \in Nat
    BY <1>1, MarkersFinite DEF Hit
  <1>3. Cardinality({i \in Hit(len) : disk[i].mark = Deleted}) \in Nat
    <2>1. {i \in Hit(len) : disk[i].mark = Deleted} \subseteq Markers
      BY DEF Hit
    <2>2. QED
      BY <1>1, <2>1, MarkersFinite
  <1>4. /\ lowest' \in Nat
        /\ highest' \in Nat
        /\ nmsg' \in Int
        /\ ndel' \in Int
    BY <1>2, <1>3 DEF Put, TypeOK
  <1>5. ASSUME NEW i \in Bytes
        PROVE  disk'[i] \in Cell
    <2>1. CASE i \in Span(len)
      <3>1. /\ disk'[i] = [mark |-> IF Offset(i) = 0 THEN Normal ELSE 0,
                           num  |-> highest + 1,
                           rest |-> len - Offset(i),
                           text |-> text]
            /\ Offset(i) \in Nat
            /\ Offset(i) < len
        BY <1>1, <2>1, Geometry, SizesAndLengths DEF Put, Span
      <3>2. len - Offset(i) \in Nat
        BY <1>1, <3>1
      <3>3. (IF Offset(i) = 0 THEN Normal ELSE 0) \in {0} \cup Marks
        BY DEF Marks
      <3>4. highest + 1 \in Nat
        BY DEF TypeOK
      <3>5. QED
        BY <3>1, <3>2, <3>3, <3>4 DEF Cell
    <2>2. CASE i \notin Span(len)
      BY <2>2, PutMarkers DEF TypeOK
    <2>3. QED
      BY <2>1, <2>2
  <1>6. disk' \in [Bytes' -> Cell]
    <2>1. disk' = [i \in Bytes |-> disk'[i]]
      BY DEF Put
    <2>2. QED
      BY <1>1, <1>5, <2>1
  <1>7. entries' \subseteq Entry'
    <2>1. Entry' = Entry
      BY <1>1 DEF Entry
    <2>2. [num |-> highest + 1, pos |-> posizione, text |-> text] \in Entry
      BY SizesAndLengths DEF TypeOK, Entry
    <2>3. QED
      BY <2>1, <2>2 DEF Put, TypeOK
  <1>8. size' \in Sizes
    BY <1>1 DEF TypeOK
  <1>9. QED
    BY <1>1, <1>4, <1>6, <1>7, <1>8 DEF TypeOK, Cell

\* The order of the file, and lowest at its tail.
LEMMA PutOrder ==
  ASSUME TypeOK, FileInOrder, NeverErasedWhileThere, lowest <= highest + 1,
         NEW len \in Lengths, NEW text \in Texts, Put(len, text)
  PROVE  FileInOrder' /\ NeverErasedWhileThere' /\ lowest' <= highest' + 1
  <1>1. /\ size \in Nat \ {0}
        /\ posizione \in 0 .. size
        /\ lowest \in Nat
        /\ highest \in Nat
        /\ highest' = highest + 1
        /\ lowest' = lowest + Cardinality(Hit(len))
        /\ Cardinality(Hit(len)) \in Nat
        /\ len \in Nat \ {0}
    BY SizesAndLengths, MarkersFinite DEF TypeOK, Put, Hit
  <1>2. /\ Markers' = (Markers \ Hit(len)) \cup {First}
        /\ First \in Bytes
        /\ First \in Span(len)
        /\ disk'[First].num = highest + 1
    <2>1. disk'[First] = [mark |-> Normal, num |-> highest + 1,
                          rest |-> len, text |-> text]
      BY PutMarkers
    <2>2. QED
      BY <2>1, PutMarkers, PutGeometry
  <1>3. ASSUME NEW j \in Markers \ Hit(len)
        PROVE  /\ disk'[j] = disk[j]
               /\ disk'[j].rest \in 1 .. Behind(j)'
               /\ Whole(j)'
               /\ j \in Bytes
               /\ j \notin Span(len)
               /\ Behind(j)' = Behind(j) + len
               /\ Behind(j) \in 1 .. size
               /\ disk[j].num \in Nat
               /\ lowest <= disk[j].num
               /\ disk[j].num <= highest
    <2>1. j \in Bytes /\ j \notin Span(len)
      BY DEF Hit, Markers
    <2>2. disk[j].num \in Nat /\ lowest <= disk[j].num /\ disk[j].num <= highest
      BY <2>1 DEF TypeOK, Cell, NeverErasedWhileThere
    <2>3. Behind(j) \in 1 .. size /\ Behind(j)' = Behind(j) + len
      BY <1>1, <2>1, Geometry, PutGeometry
    <2>4. disk[j].rest \in 1 .. Behind(j) /\ Whole(j)
      BY DEF FileInOrder
    <2>5. QED
      BY <2>1, <2>2, <2>3, <2>4, PutLeavesWhole
  <1>4. PICK f \in Bytes : f = First
    BY <1>2
  <1>5. /\ Behind(f)' = len
        /\ disk'[f].rest \in 1 .. Behind(f)'
        /\ Whole(f)'
        /\ disk'[f].num = highest + 1
    <2>1. Offset(f) = 0 /\ f \in Span(len)
      BY <1>2, <1>4, PutGeometry
    <2>2. Behind(f)' = len
      BY <1>1, <2>1, PutGeometry
    <2>3. QED
      BY <1>2, <1>4, <2>2, PutWritesWhole
  <1>6. Markers' = (Markers \ Hit(len)) \cup {f}
    BY <1>2, <1>4
  <1>7. ASSUME NEW i \in Hit(len), NEW j \in Markers \ Hit(len)
        PROVE  disk[i].num < disk[j].num
    <2>1. /\ i \in Markers
          /\ i \in Bytes
          /\ Offset(i) < len
      BY DEF Hit, Span, Markers
    <2>2. ~(Offset(j) < len)
      BY <1>3 DEF Span
    <2>3. /\ Offset(i) = size - Behind(i) /\ Offset(j) = size - Behind(j)
          /\ Behind(i) \in 1 .. size /\ Behind(j) \in 1 .. size
      BY <1>1, <1>3, <2>1, Geometry
    <2>4. Behind(j) < Behind(i)
      BY <1>1, <2>1, <2>2, <2>3
    <2>5. QED
      BY <2>1, <2>4 DEF FileInOrder
  <1>8. FileInOrder'
    <2>1. \A i \in Markers' : disk'[i].rest \in 1 .. Behind(i)' /\ Whole(i)'
      BY <1>3, <1>5, <1>6
    <2>2. ASSUME NEW i \in Markers', NEW j \in Markers', Behind(j)' < Behind(i)'
          PROVE  disk'[i].num < disk'[j].num
      <3>1. CASE i = f
        <4>1. j # f
          BY <1>1, <1>5, <2>2, <3>1
        <4>2. len < Behind(j)'
          BY <1>1, <1>3, <1>6, <4>1
        <4>3. QED
          BY <1>1, <1>3, <1>5, <1>6, <2>2, <3>1, <4>1, <4>2
      <3>2. CASE i # f /\ j = f
        <4>1. disk'[i].num = disk[i].num /\ disk[i].num \in Nat
              /\ disk[i].num <= highest
          BY <1>3, <1>6, <3>2
        <4>2. QED
          BY <1>1, <1>5, <3>2, <4>1
      <3>3. CASE i # f /\ j # f
        <4>1. i \in Markers \ Hit(len) /\ j \in Markers \ Hit(len)
          BY <1>6, <3>3
        <4>2. Behind(j) < Behind(i)
          BY <1>1, <1>3, <2>2, <4>1
        <4>3. disk[i].num < disk[j].num
          BY <4>1, <4>2 DEF FileInOrder
        <4>4. QED
          BY <1>3, <4>1, <4>3
      <3>4. QED
        BY <3>1, <3>2, <3>3
    <2>3. QED
      BY <2>1, <2>2 DEF FileInOrder
  <1>9. NeverErasedWhileThere'
    <2>1. ASSUME NEW j \in Markers \ Hit(len)
          PROVE  lowest' <= disk'[j].num /\ disk'[j].num <= highest'
      <3>1. \A i \in Hit(len) : disk[i].num <= disk[j].num - 1
        <4>1. \A i \in Hit(len) : disk[i].num \in Nat
          BY DEF Hit, Markers, TypeOK, Cell
        <4>2. QED
          BY <1>3, <1>7, <4>1
      <3>2. /\ disk[j].num - 1 \in Int
            /\ disk[j].num - 1 >= lowest - 1
        BY <1>1, <1>3
      <3>3. Cardinality(Hit(len)) <= (disk[j].num - 1) - lowest + 1
        BY <3>1, <3>2, HitBound
      <3>4. QED
        BY <1>1, <1>3, <3>3
    <2>2. lowest' <= highest + 1
      <3>1. \A i \in Hit(len) : disk[i].num <= highest
        BY DEF Hit, NeverErasedWhileThere
      <3>2. Cardinality(Hit(len)) <= highest - lowest + 1
        BY <1>1, <3>1, HitBound
      <3>3. QED
        BY <1>1, <3>2
    <2>3. lowest' <= disk'[f].num /\ disk'[f].num <= highest'
      BY <1>1, <1>5, <2>2
    <2>4. QED
      BY <1>6, <2>1, <2>3 DEF NeverErasedWhileThere
  <1>10. lowest' <= highest' + 1
    <2>1. lowest' <= disk'[f].num
      BY <1>6, <1>9 DEF NeverErasedWhileThere
    <2>2. lowest' \in Nat
      BY <1>1
    <2>3. QED
      BY <1>1, <1>5, <2>1, <2>2
  <1>11. QED
    BY <1>8, <1>9, <1>10

\* The number of a new post is new, so no room confuses it with another.
LEMMA PutEntriesOwn ==
  ASSUME TypeOK, NeverErasedWhileThere, EntriesOwn,
         NEW len \in Lengths, NEW text \in Texts, Put(len, text)
  PROVE  EntriesOwn'
  <1>1. PICK f \in Bytes : f = First
    BY PutGeometry
  <1>2. /\ disk'[f].num = highest + 1
        /\ disk'[f].text = text
    <2>1. disk'[f] = [mark |-> Normal, num |-> highest + 1,
                      rest |-> len, text |-> text]
      BY <1>1, PutMarkers
    <2>2. QED
      BY <2>1
  <1>3. /\ Markers' = (Markers \ Hit(len)) \cup {f}
        /\ \A i \in Markers \ Hit(len) : disk'[i] = disk[i]
    <2>1. \A i \in Markers \ Hit(len) : i \in Bytes \ Span(len)
      BY DEF Hit, Markers
    <2>2. QED
      BY <1>1, <2>1, PutMarkers
  <1>4. /\ highest \in Nat /\ highest' = highest + 1
        /\ \A e \in entries : e.num \in Nat
        /\ \A i \in Markers : disk[i].num \in Nat /\ disk[i].num <= highest
    BY DEF TypeOK, Entry, Cell, Markers, NeverErasedWhileThere, Put
  <1>5. ASSUME NEW e \in entries'
        PROVE  /\ e.num <= highest'
               /\ \A i \in Markers' : disk'[i].num = e.num => disk'[i].text = e.text
    <2>1. CASE e \in entries
      <3>1. e.num <= highest
        BY <2>1 DEF EntriesOwn
      <3>2. disk'[f].num # e.num
        BY <1>2, <1>4, <2>1, <3>1
      <3>3. QED
        BY <1>3, <1>4, <2>1, <3>1, <3>2 DEF EntriesOwn
    <2>2. CASE e = [num |-> highest + 1, pos |-> posizione, text |-> text]
      <3>1. e.num = highest + 1 /\ e.text = text
        BY <2>2
      <3>2. \A i \in Markers \ Hit(len) : disk'[i].num # e.num
        BY <1>3, <1>4, <3>1
      <3>3. QED
        BY <1>2, <1>3, <1>4, <3>1, <3>2
    <2>3. QED
      BY <2>1, <2>2 DEF Put
  <1>6. QED
    BY <1>5 DEF EntriesOwn

\* A post stays whole when no byte changes but for its mark.
LEMMA WholeKept ==
  ASSUME TypeOK, size' = size, NEW i \in Bytes,
         disk[i].rest \in 1 .. Behind(i), Whole(i),
         \A j \in Bytes : /\ disk'[j].num = disk[j].num
                          /\ disk'[j].rest = disk[j].rest
                          /\ disk'[j].text = disk[j].text
  PROVE  Whole(i)'
  <1>1. size \in Nat \ {0} /\ posizione \in 0 .. size
    BY SizesAndLengths
  <1>2. ASSUME NEW k \in 0 .. (disk[i].rest - 1)
        PROVE  Ring(i, k)' = Ring(i, k) /\ Ring(i, k) \in Bytes
    <2>1. Behind(i) \in 1 .. size
      BY <1>1, Geometry
    <2>2. k \in Nat /\ k < Behind(i)
      BY <2>1
    <2>3. QED
      BY <1>1, <2>2, RingStep DEF Ring
  <1>3. QED
    BY <1>2 DEF Whole

\* fm_delmsg changes one mark.
LEMMA DelmsgCells ==
  ASSUME TypeOK, NEW e \in entries, Delmsg(e), NEW d, d = Ring(e.pos, 0)
  PROVE  /\ d \in Bytes
         /\ disk[d].mark = Normal
         /\ Bytes' = Bytes
         /\ \A i \in Bytes : /\ disk'[i] \in Cell
                            /\ disk'[i].num = disk[i].num
                            /\ disk'[i].rest = disk[i].rest
                            /\ disk'[i].text = disk[i].text
                            /\ disk'[i].mark = IF i = d THEN Deleted ELSE disk[i].mark
         /\ TypeOK'
  <1>1. /\ size \in Nat \ {0}
        /\ size' = size
        /\ ndel' = ndel + 1
        /\ disk' = [disk EXCEPT ![d].mark = Deleted]
        /\ UNCHANGED << lowest, highest, posizione, nmsg, entries >>
    BY SizesAndLengths DEF Delmsg
  <1>2. d \in Bytes /\ disk[d].mark = Normal
    <2>1. e.pos \in 0 .. size
      BY DEF TypeOK, Entry
    <2>2. d \in Bytes
      BY <1>1, <2>1 DEF Ring, Bytes
    <2>3. disk[d].mark = Normal
      BY DEF Delmsg, Seek, At, Marks
    <2>4. QED
      BY <2>2, <2>3
  <1>3. ASSUME NEW i \in Bytes
        PROVE  /\ disk'[i] \in Cell
               /\ disk'[i].num = disk[i].num
               /\ disk'[i].rest = disk[i].rest
               /\ disk'[i].text = disk[i].text
               /\ disk'[i].mark = IF i = d THEN Deleted ELSE disk[i].mark
    <2>1. disk \in [Bytes -> Cell]
      BY DEF TypeOK
    <2>2. disk[i] \in Cell
      BY <2>1
    <2>3. disk'[i] = IF i = d THEN [disk[i] EXCEPT !.mark = Deleted] ELSE disk[i]
      BY <1>1, <2>1
    <2>4. QED
      BY <2>2, <2>3 DEF Cell, Marks
  <1>4. Bytes' = Bytes
    BY <1>1 DEF Bytes
  <1>5. TypeOK'
    <2>1. DOMAIN disk' = Bytes /\ disk' = [i \in Bytes |-> disk'[i]]
      BY <1>1 DEF TypeOK
    <2>2. disk' \in [Bytes' -> Cell]
      BY <1>3, <1>4, <2>1
    <2>3. Entry' = Entry /\ Cell' = Cell
      BY <1>1 DEF Entry, Cell
    <2>4. ndel' \in Int
      BY <1>1 DEF TypeOK
    <2>5. QED
      BY <1>1, <2>2, <2>3, <2>4 DEF TypeOK
  <1>6. QED
    BY <1>2, <1>3, <1>4, <1>5

\* Marking a post deleted changes one mark, and no marker comes or goes.
LEMMA DelmsgPreserves ==
  ASSUME IInv, NEW e \in entries, Delmsg(e)
  PROVE  IInv'
  <1> DEFINE d == Ring(e.pos, 0)
  <1>1. /\ size \in Nat \ {0}
        /\ size' = size
        /\ posizione' = posizione
        /\ lowest' = lowest
        /\ highest' = highest
        /\ entries' = entries
        /\ nmsg' = nmsg
        /\ ndel' = ndel + 1
    BY SizesAndLengths DEF Delmsg, IInv
  <1>2. /\ d \in Markers
        /\ disk[d].mark = Normal
        /\ TypeOK'
        /\ Bytes' = Bytes
    BY DelmsgCells DEF IInv, Markers, Marks
  <1>3. ASSUME NEW i \in Bytes
        PROVE  /\ disk'[i].num = disk[i].num
               /\ disk'[i].rest = disk[i].rest
               /\ disk'[i].text = disk[i].text
               /\ disk'[i].mark = IF i = d THEN Deleted ELSE disk[i].mark
    BY DelmsgCells DEF IInv
  <1>4. Markers' = Markers
    BY <1>2, <1>3 DEF Markers, Marks
  <1>5. FileInOrder'
    <2>1. \A i \in Bytes : Behind(i)' = Behind(i)
      BY <1>1 DEF Behind
    <2>2. Markers \subseteq Bytes
      BY DEF Markers
    <2>3. \A i \in Markers : Whole(i)'
      BY <1>1, <1>3, <2>2, WholeKept DEF IInv, FileInOrder
    <2>4. QED
      BY <1>3, <1>4, <2>1, <2>2, <2>3 DEF IInv, FileInOrder
  <1>6. NeverErasedWhileThere' /\ lowest' <= highest' + 1
    BY <1>1, <1>3, <1>4 DEF IInv, NeverErasedWhileThere, Markers
  <1>7. EntriesOwn'
    BY <1>1, <1>3, <1>4 DEF IInv, EntriesOwn, Markers
  <1>8. CountersExact'
    <2> DEFINE Dead == {i \in Markers : disk[i].mark = Deleted}
    <2>1. {i \in Markers' : disk'[i].mark = Deleted} = Dead \cup {d}
      BY <1>2, <1>3, <1>4 DEF Markers
    <2>2. d \notin Dead
      BY <1>2 DEF Normal, Deleted
    <2>3. IsFiniteSet(Dead)
      BY <1>1, MarkersFinite
    <2>4. Cardinality(Dead \cup {d}) = Cardinality(Dead) + 1
      BY <2>2, <2>3, FS_AddElement
    <2>5. QED
      BY <1>1, <1>4, <2>1, <2>4 DEF IInv, CountersExact
  <1>9. QED
    BY <1>2, <1>5, <1>6, <1>7, <1>8 DEF IInv

\* Nothing of the file depends on what the rooms hold, and a step that leaves
\* the file alone and adds no entry preserves the invariant.
LEMMA FileUntouched ==
  ASSUME IInv,
         size' = size, disk' = disk, lowest' = lowest,
         posizione' = posizione, nmsg' = nmsg, ndel' = ndel,
         entries' \subseteq entries, NEW h \in Nat, highest' = h, highest <= h
  PROVE  IInv'
  <1>1. Bytes' = Bytes /\ Markers' = Markers
    BY DEF Bytes, Markers
  <1>2. highest \in Nat /\ lowest \in Nat
    BY DEF IInv, TypeOK
  <1>3. TypeOK'
    BY <1>1 DEF IInv, TypeOK, Entry, Cell
  <1>4. FileInOrder'
    <2>1. \A i : Whole(i)' = Whole(i) /\ Behind(i)' = Behind(i)
      BY DEF Whole, Ring, Behind
    <2>2. QED
      BY <1>1, <2>1 DEF IInv, FileInOrder
  <1>5. NeverErasedWhileThere' /\ lowest' <= highest' + 1
    <2>1. \A i \in Markers : disk[i].num \in Nat
      BY DEF IInv, TypeOK, Markers, Cell
    <2>2. \A i \in Markers : lowest <= disk[i].num /\ disk[i].num <= highest
      BY DEF IInv, NeverErasedWhileThere
    <2>3. \A i \in Markers : disk[i].num <= highest'
      BY <1>2, <2>1, <2>2
    <2>4. lowest' <= highest' + 1
      <3>1. lowest <= highest + 1
        BY DEF IInv
      <3>2. QED
        BY <1>2, <3>1
    <2>5. QED
      BY <1>1, <2>2, <2>3, <2>4 DEF NeverErasedWhileThere
  <1>6. EntriesOwn'
    <2>1. \A e \in entries : e.num \in Nat
      BY DEF IInv, TypeOK, Entry
    <2>2. QED
      BY <1>1, <1>2, <2>1 DEF IInv, EntriesOwn
  <1>7. CountersExact'
    BY <1>1 DEF IInv, CountersExact
  <1>8. QED
    BY <1>3, <1>4, <1>5, <1>6, <1>7 DEF IInv

\* An empty file is in order.
LEMMA InitEstablishes == Init => IInv
  <1> SUFFICES ASSUME Init PROVE IInv
    OBVIOUS
  <1>1. PICK s \in Sizes : Create(s)
    BY DEF Init
  <1>2. /\ size = s
        /\ s \in Nat \ {0}
        /\ disk = [i \in Bytes |-> Blank]
        /\ lowest = 1 /\ highest = 0 /\ posizione = 0 /\ nmsg = 0 /\ ndel = 0
        /\ entries = {}
    BY <1>1, SizesAssumption DEF Init, Create, Bytes
  <1>3. Markers = {}
    BY <1>2 DEF Markers, Marks, Normal, Deleted, Blank
  <1>4. TypeOK
    BY <1>2 DEF TypeOK, Cell, Blank, Entry
  <1>5. CountersExact
    BY <1>2, <1>3, FS_EmptySet DEF CountersExact
  <1>6. QED
    BY <1>2, <1>3, <1>4, <1>5
       DEF IInv, FileInOrder, NeverErasedWhileThere, EntriesOwn

\* The four operations one by one.
LEMMA NextPreserves == IInv /\ [Next]_vars => IInv'
  <1> SUFFICES ASSUME IInv, [Next]_vars PROVE IInv'
    OBVIOUS
  <1> USE DEF IInv
  <1>1. ASSUME NEW len \in Lengths, NEW text \in Texts, Put(len, text)
        PROVE  IInv'
    BY <1>1, PutTypeOK, PutOrder, PutEntriesOwn, PutCounts
  <1>2. CASE PutTooLong
    <2>1. highest' \in Nat /\ highest <= highest'
      BY <1>2 DEF PutTooLong, TypeOK
    <2>2. QED
      BY <1>2, <2>1, FileUntouched DEF PutTooLong
  <1>3. ASSUME NEW e \in entries, Delmsg(e)
        PROVE  IInv'
    BY <1>3, DelmsgPreserves
  <1>4. ASSUME NEW e \in entries, Forget(e)
        PROVE  IInv'
    <2>1. highest' \in Nat /\ highest <= highest' /\ entries' \subseteq entries
      BY <1>4 DEF Forget, fmVars, TypeOK
    <2>2. QED
      BY <1>4, <2>1, FileUntouched DEF Forget, fmVars
  <1>5. CASE UNCHANGED vars
    <2>1. highest' \in Nat /\ highest <= highest' /\ entries' \subseteq entries
      BY <1>5 DEF vars, fmVars, TypeOK
    <2>2. QED
      BY <1>5, <2>1, FileUntouched DEF vars, fmVars
  <1>6. QED
    BY <1>1, <1>2, <1>3, <1>4, <1>5 DEF Next

-----------------------------------------------------------------------------
(***************************************************************************)
(* The theorems.                                                           *)
(***************************************************************************)

\* The inductive invariant holds in every reachable state: the posts lie in
\* the file whole, in order, behind the write position.
THEOREM FileInvariant == Spec => []IInv
  BY InitEstablishes, NextPreserves, PTL DEF Spec

\* struct file_msg and the file keep their types (file_messaggi.c).
THEOREM TypeCorrect == Spec => []TypeOK
  <1>1. IInv => TypeOK
    BY DEF IInv
  <1>2. QED
    BY <1>1, FileInvariant, PTL

\* fm_get never answers "erased" for a post that is still in the file.
THEOREM NeverErased == Spec => []NeverErasedWhileThere
  <1>1. IInv => NeverErasedWhileThere
    BY DEF IInv
  <1>2. QED
    BY <1>1, FileInvariant, PTL

\* nmsg and ndel are the numbers of posts and of deleted posts in the file.
THEOREM Counters == Spec => []CountersExact
  <1>1. IInv => CountersExact
    BY DEF IInv
  <1>2. QED
    BY <1>1, FileInvariant, PTL

\* fm_get through a number and position a room recorded yields the post that
\* was written then or an error, and never finds a damaged post.
THEOREM ReadsYieldOwn == Spec => []ReadsOwn
  <1>1. ASSUME IInv PROVE ReadsOwn
    <2>1. ASSUME NEW e \in entries
          PROVE  /\ Get(e.num, e.pos) # "CHKSUM"
                 /\ Get(e.num, e.pos) = "OK" => At(e.pos).text = e.text
      <3>1. Ring(e.pos, 0) \in Bytes
        <4>1. e.pos \in 0 .. size /\ size \in Nat \ {0}
          BY <1>1, SizesAndLengths DEF IInv, TypeOK, Entry
        <4>2. QED
          BY <4>1 DEF Ring, Bytes
      <3>2. ASSUME Seek(e.num, e.pos) = "OK", At(e.pos).num = e.num
            PROVE  Whole(Ring(e.pos, 0)) /\ At(e.pos).text = e.text
        <4>1. At(e.pos).mark \in Marks
          BY <3>2 DEF Seek
        <4>2. Ring(e.pos, 0) \in Markers
          BY <3>1, <4>1 DEF At, Markers
        <4>3. QED
          BY <1>1, <3>2, <4>2 DEF IInv, FileInOrder, EntriesOwn, At
      <3>3. Seek(e.num, e.pos) # "CHKSUM"
        BY DEF Seek
      <3>4. QED
        BY <3>2, <3>3 DEF Get
    <2>2. QED
      BY <2>1 DEF ReadsOwn
  <1>2. IInv => ReadsOwn
    BY <1>1
  <1>3. QED
    BY <1>2, FileInvariant, PTL
-----------------------------------------------------------------------------
(***************************************************************************)
(* When every header fits: the numbers in the file have no gaps, and what  *)
(* a room remembers is either gone or stands where it was written.         *)
(***************************************************************************)
NoGaps ==
  /\ \A n \in lowest .. highest : \E i \in Markers : disk[i].num = n
  /\ \A e \in entries, i \in Markers :
        disk[i].num = e.num => Ring(e.pos, 0) = i

\* A post destroyed takes with it all that are older, so that lowest steps
\* over its number.
LEMMA HitIsPrefix ==
  ASSUME TypeOK, FileInOrder, NoGaps, NEW len \in Lengths,
         NEW i \in Hit(len), disk[i].num \in lowest .. highest
  PROVE  disk[i].num < lowest + Cardinality(Hit(len))
  <1>1. /\ size \in Nat \ {0}
        /\ posizione \in 0 .. size
        /\ lowest \in Nat /\ highest \in Nat
        /\ len \in Nat
    BY SizesAndLengths DEF TypeOK
  <1>2. i \in Markers /\ i \in Bytes /\ Offset(i) < len /\ disk[i].num \in Nat
    BY DEF Hit, Markers, Span, TypeOK, Cell
  <1>3. ASSUME NEW j \in Markers, disk[j].num <= disk[i].num
        PROVE  j \in Hit(len)
    <2>1. j \in Bytes /\ disk[j].num \in Nat
      BY DEF Markers, TypeOK, Cell
    <2>2. Behind(j) \in Int /\ Behind(i) \in Int
      BY <1>1, <1>2, <2>1, Geometry
    <2>3. ~ (Behind(j) < Behind(i))
      BY <1>2, <1>3, <2>1 DEF FileInOrder
    <2>4. Offset(j) <= Offset(i)
      BY <1>1, <1>2, <2>1, <2>2, <2>3, Geometry
    <2>5. Offset(j) < len
      <3>1. Offset(j) \in Int /\ Offset(i) \in Int
        BY <1>1, <1>2, <2>1, Geometry
      <3>2. QED
        BY <1>1, <1>2, <2>4, <3>1
    <2>6. QED
      BY <2>1, <2>5 DEF Hit, Span
  <1> DEFINE N == lowest .. disk[i].num
             g == [n \in N |-> CHOOSE j \in Markers : disk[j].num = n]
  <1>4. ASSUME NEW n \in N
        PROVE  g[n] \in Hit(len) /\ disk[g[n]].num = n
    <2>1. n \in lowest .. highest
      BY <1>1, <1>2
    <2>2. \E j \in Markers : disk[j].num = n
      BY <2>1 DEF NoGaps
    <2>3. g[n] \in Markers /\ disk[g[n]].num = n
      BY <2>2
    <2>4. disk[g[n]].num <= disk[i].num
      BY <1>1, <1>2, <2>3
    <2>5. QED
      BY <1>3, <2>3, <2>4
  <1>5. g \in Injection(N, Hit(len))
    <2>1. g \in [N -> Hit(len)]
      BY <1>4
    <2>2. \A m, n \in N : g[m] = g[n] => m = n
      BY <1>4
    <2>3. QED
      BY <2>1, <2>2 DEF Injection, IsInjective
  <1>6. Hit(len) \subseteq Markers
    BY DEF Hit
  <1>7. IsFiniteSet(Hit(len)) /\ Cardinality(Hit(len)) \in Nat
    BY <1>1, <1>6, MarkersFinite
  <1>8. Cardinality(N) <= Cardinality(Hit(len))
    BY <1>5, <1>7, FS_Injection
  <1>9. Cardinality(N) = disk[i].num - lowest + 1
    <2>1. lowest \in Int /\ disk[i].num \in Int /\ lowest <= disk[i].num
      BY <1>1, <1>2
    <2>2. Cardinality(N) = IF lowest > disk[i].num THEN 0
                           ELSE disk[i].num - lowest + 1
      BY <2>1, FS_Interval
    <2>3. QED
      BY <2>1, <2>2
  <1>10. QED
    BY <1>1, <1>2, <1>7, <1>8, <1>9

\* fm_put leaves no gap: the numbers it destroys are the lowest ones.
LEMMA PutNoGaps ==
  ASSUME IInv, NoGaps,
         NEW len \in Lengths, NEW text \in Texts, Put(len, text)
  PROVE  NoGaps'
  <1> USE DEF IInv
  <1>1. PICK f \in Bytes : f = First
    BY PutGeometry
  <1>2. disk'[f].num = highest + 1
    <2>1. disk'[f] = [mark |-> Normal, num |-> highest + 1,
                      rest |-> len, text |-> text]
      BY <1>1, PutMarkers
    <2>2. QED
      BY <2>1
  <1>3. /\ Markers' = (Markers \ Hit(len)) \cup {f}
        /\ \A i \in Markers \ Hit(len) : disk'[i] = disk[i]
    <2>1. \A i \in Markers \ Hit(len) : i \in Bytes \ Span(len)
      BY DEF Hit, Markers
    <2>2. QED
      BY <1>1, <2>1, PutMarkers
  <1>4. PICK k \in Nat : k = Cardinality(Hit(len))
    <2>1. Hit(len) \subseteq Markers
      BY DEF Hit
    <2>2. QED
      BY <2>1, SizesAndLengths, MarkersFinite
  <1>5. /\ lowest \in Nat /\ highest \in Nat
        /\ lowest' = lowest + k /\ highest' = highest + 1
        /\ size' = size
    BY <1>4 DEF Put, TypeOK
  <1>6. ASSUME NEW n \in Nat, lowest + k <= n, n <= highest + 1
        PROVE  \E i \in Markers' : disk'[i].num = n
    <2>1. CASE n = highest + 1
      BY <1>2, <1>3, <2>1
    <2>2. CASE n # highest + 1
      <3>1. n \in lowest .. highest
        BY <1>4, <1>5, <1>6, <2>2
      <3>2. PICK i \in Markers : disk[i].num = n
        BY <3>1 DEF NoGaps
      <3>3. ASSUME i \in Hit(len) PROVE FALSE
        <4>1. disk[i].num < lowest + k
          BY <1>4, <3>1, <3>2, <3>3, HitIsPrefix
        <4>2. QED
          BY <1>5, <1>6, <3>2, <4>1
      <3>4. QED
        BY <1>3, <3>2, <3>3
    <2>3. QED
      BY <2>1, <2>2
  <1>7. \A n \in lowest' .. highest' : \E i \in Markers' : disk'[i].num = n
    BY <1>5, <1>6
  <1>8. ASSUME NEW e \in entries', NEW i \in Markers', disk'[i].num = e.num
        PROVE  Ring(e.pos, 0)' = i
    <2>1. /\ \A j \in Markers : disk[j].num \in Nat /\ disk[j].num <= highest
          /\ \A x \in entries : x.num \in Nat /\ x.num <= highest
      BY DEF TypeOK, Cell, Markers, Entry, NeverErasedWhileThere, EntriesOwn
    <2>2. CASE e \in entries
      <3>1. i # f
        BY <1>2, <1>5, <1>8, <2>1, <2>2
      <3>2. i \in Markers /\ disk[i].num = e.num
        BY <1>3, <1>8, <3>1
      <3>3. Ring(e.pos, 0) = i
        BY <2>2, <3>2 DEF NoGaps
      <3>4. QED
        BY <1>5, <3>3 DEF Ring
    <2>3. CASE e = [num |-> highest + 1, pos |-> posizione, text |-> text]
      <3>1. e.num = highest + 1 /\ e.pos = posizione
        BY <2>3
      <3>2. i = f
        BY <1>3, <1>5, <1>8, <2>1, <3>1
      <3>3. QED
        BY <1>1, <1>5, <3>1, <3>2 DEF Ring, First
    <2>4. QED
      BY <2>2, <2>3 DEF Put
  <1>9. QED
    BY <1>7, <1>8 DEF NoGaps

\* Marking a post deleted changes no number and no position.
LEMMA DelmsgNoGaps ==
  ASSUME IInv, NoGaps, NEW e \in entries, Delmsg(e)
  PROVE  NoGaps'
  <1> DEFINE d == Ring(e.pos, 0)
  <1>1. /\ size' = size /\ lowest' = lowest /\ highest' = highest
        /\ entries' = entries
    BY DEF Delmsg
  <1>2. d \in Markers /\ Bytes' = Bytes
    BY DelmsgCells DEF IInv, Markers, Marks
  <1>3. \A i \in Bytes : /\ disk'[i].num = disk[i].num
                       /\ disk'[i].mark = IF i = d THEN Deleted ELSE disk[i].mark
    BY DelmsgCells DEF IInv
  <1>4. Markers' = Markers
    BY <1>2, <1>3 DEF Markers, Marks
  <1>5. QED
    BY <1>1, <1>3, <1>4 DEF NoGaps, Ring, Markers

\* Together with the invariant of the file this is inductive.
LEMMA NoGapsInvariant ==
  ASSUME ~HeaderMayOverflow
  PROVE  Spec => [](IInv /\ NoGaps)
  <1>1. Init => NoGaps
    <2> SUFFICES ASSUME Init PROVE NoGaps
      OBVIOUS
    <2>1. lowest = 1 /\ highest = 0 /\ entries = {}
      BY DEF Init, Create
    <2>2. QED
      BY <2>1 DEF NoGaps
  <1>2. IInv /\ NoGaps /\ [Next]_vars => NoGaps'
    <2> SUFFICES ASSUME IInv, NoGaps, [Next]_vars PROVE NoGaps'
      OBVIOUS
    <2>1. ASSUME NEW len \in Lengths, NEW text \in Texts, Put(len, text)
          PROVE  NoGaps'
      BY <2>1, PutNoGaps
    <2>2. ASSUME NEW e \in entries, Delmsg(e)
          PROVE  NoGaps'
      BY <2>2, DelmsgNoGaps
    <2>3. ASSUME size' = size, disk' = disk, lowest' = lowest,
                 highest' = highest, entries' \subseteq entries
          PROVE  NoGaps'
      BY <2>3 DEF NoGaps, Markers, Bytes, Ring
    <2>4. ASSUME NEW e \in entries, Forget(e)
          PROVE  NoGaps'
      BY <2>3, <2>4 DEF Forget, fmVars
    <2>5. CASE UNCHANGED vars
      BY <2>3, <2>5 DEF vars, fmVars
    <2>6. ~PutTooLong
      BY DEF PutTooLong
    <2>7. QED
      BY <2>1, <2>2, <2>4, <2>5, <2>6 DEF Next
  <1>3. QED
    BY <1>1, <1>2, InitEstablishes, NextPreserves, PTL DEF Spec

\* As long as no header was refused, lowest is the number of the oldest post
\* in the file (fm_lowest).
THEOREM LowestExact ==
  ASSUME ~HeaderMayOverflow
  PROVE  Spec => []LowestIsLowest
  <1>1. IInv /\ NoGaps => LowestIsLowest
    <2> SUFFICES ASSUME IInv, NoGaps, NEW j \in Markers
                 PROVE  \E i \in Markers : disk[i].num = lowest
      BY DEF LowestIsLowest
    <2>1. /\ lowest \in Nat /\ highest \in Nat /\ disk[j].num \in Nat
          /\ lowest <= disk[j].num /\ disk[j].num <= highest
      BY DEF IInv, TypeOK, Markers, Cell, NeverErasedWhileThere
    <2>2. lowest \in lowest .. highest
      BY <2>1
    <2>3. QED
      BY <2>2 DEF NoGaps
  <1>2. QED
    BY <1>1, NoGapsInvariant, PTL

\* As long as no header was refused, fm_delmsg, which does not compare the
\* number in the header, marks no other post than the one it is asked for.
THEOREM DeletesOnlyOwn ==
  ASSUME ~HeaderMayOverflow
  PROVE  Spec => DeletesOwn
  <1>1. IInv /\ NoGaps /\ [Next]_vars => [MarksOwn]_vars
    <2> SUFFICES ASSUME IInv, NoGaps, Next,
                        NEW i \in Markers,
                        disk[i].mark = Normal, disk'[i].mark = Deleted
                 PROVE  \E e \in entries : e.num = disk[i].num /\ Ring(e.pos, 0) = i
      BY DEF MarksOwn
    <2>1. i \in Bytes /\ disk'[i] # disk[i]
      BY DEF Markers, Normal, Deleted
    <2>2. ASSUME NEW len \in Lengths, NEW text \in Texts, Put(len, text)
          PROVE  FALSE
      <3>1. CASE i \in Span(len)
        <4>1. disk'[i].mark \in {Normal, 0}
          BY <2>1, <2>2, <3>1 DEF Put
        <4>2. QED
          BY <4>1 DEF Normal, Deleted
      <3>2. CASE i \notin Span(len)
        BY <2>1, <2>2, <3>2 DEF Put
      <3>3. QED
        BY <3>1, <3>2
    <2>3. ASSUME NEW e \in entries, Delmsg(e)
          PROVE  e.num = disk[i].num /\ Ring(e.pos, 0) = i
      <3>1. Ring(e.pos, 0) = i
        BY <2>1, <2>3 DEF Delmsg, IInv, TypeOK
      <3>2. e.num \in Nat /\ lowest \in Nat /\ highest \in Nat
        BY DEF IInv, TypeOK, Entry
      <3>3. lowest <= e.num /\ e.num <= highest
        BY <2>3, <3>2 DEF Delmsg, Seek
      <3>4. PICK j \in Markers : disk[j].num = e.num
        BY <3>2, <3>3 DEF NoGaps
      <3>5. Ring(e.pos, 0) = j
        BY <3>4 DEF NoGaps
      <3>6. QED
        BY <3>1, <3>4, <3>5
    <2>4. ~PutTooLong /\ \A e \in entries : ~Forget(e)
      BY <2>1 DEF PutTooLong, Forget
    <2>5. QED
      BY <2>2, <2>3, <2>4 DEF Next
  <1>2. QED
    BY <1>1, NoGapsInvariant, PTL DEF Spec, DeletesOwn

-----------------------------------------------------------------------------
(***************************************************************************)
(* The file implements the bounded log.                                    *)
(*                                                                         *)
(* The log counts the bytes of the posts it holds; the file counts none,   *)
(* and drops the posts whose first byte it is about to write.  Both come   *)
(* to the same because the posts lie back to back: from the first byte of  *)
(* a post to the write position there are just the bytes of that post and  *)
(* of the newer ones.                                                      *)
(***************************************************************************)

\* The post that begins at byte i, as the log has it.
Post(i) == [num |-> disk[i].num, len |-> disk[i].rest,
            dead |-> disk[i].mark = Deleted]

\* Where that post and the newer ones begin.
Newer(i) == { j \in Markers : Behind(j) <= Behind(i) }

\* The bytes of the posts that begin in I.
Taken(I) == UNION { {disk[i].num} \X (1 .. disk[i].rest) : i \in I }

Packed == \A i \in Markers : /\ IsFiniteSet(Taken(Newer(i)))
                             /\ Cardinality(Taken(Newer(i))) = Behind(i)

\* One post has as many bytes as its length says.
LEMMA OnePostTakes ==
  ASSUME NEW n, NEW len \in Nat
  PROVE  /\ IsFiniteSet({n} \X (1 .. len))
         /\ Cardinality({n} \X (1 .. len)) = len
  <1>1. IsFiniteSet({n}) /\ Cardinality({n}) = 1
    BY FS_Singleton
  <1>2. IsFiniteSet(1 .. len) /\ Cardinality(1 .. len) = len
    BY FS_Interval
  <1>3. /\ IsFiniteSet({n} \X (1 .. len))
        /\ Cardinality({n} \X (1 .. len)) = Cardinality({n}) * Cardinality(1 .. len)
    BY <1>1, <1>2, FS_Product
  <1>4. QED
    BY <1>1, <1>2, <1>3

\* A write leaves the posts back to back: those that stay are all farther behind
\* the write position by the length of the new one.
LEMMA PutPacked ==
  ASSUME IInv, Packed, NEW len \in Lengths, NEW text \in Texts, Put(len, text)
  PROVE  Packed'
  <1> DEFINE New == {highest + 1} \X (1 .. len)
  <1>0. PICK f : f = First
    OBVIOUS
  <1>1. /\ size \in Nat \ {0} /\ posizione \in 0 .. size
        /\ len \in 1 .. size /\ highest \in Nat
    BY SizesAndLengths DEF IInv, TypeOK
  <1>2. /\ f \in Bytes
        /\ f \in Span(len)
        /\ Bytes' = Bytes
        /\ Markers' = (Markers \ Hit(len)) \cup {f}
        /\ disk'[f].num = highest + 1
        /\ disk'[f].rest = len
        /\ Behind(f)' = len
    <2>1. Offset(f) = 0 /\ f \in Bytes /\ f \in Span(len)
      BY <1>0, PutGeometry, PutMarkers DEF IInv
    <2>2. Behind(f)' = len - 0
      BY <2>1, PutGeometry DEF IInv
    <2>3. /\ Bytes' = Bytes
          /\ Markers' = (Markers \ Hit(len)) \cup {f}
          /\ disk'[f] = [mark |-> Normal, num |-> highest + 1,
                         rest |-> len, text |-> text]
      BY <1>0, PutMarkers DEF IInv
    <2>4. QED
      BY <1>1, <2>1, <2>2, <2>3
  <1>3. ASSUME NEW i \in Markers \ Hit(len)
        PROVE  /\ i \in Bytes \ Span(len)
               /\ disk'[i] = disk[i]
               /\ Behind(i)' = Behind(i) + len
               /\ Behind(i) \in 1 .. size
               /\ len <= Offset(i)
               /\ i # f
    <2>1. i \in Bytes \ Span(len)
      BY <1>3 DEF Hit, Markers
    <2>2. /\ disk'[i] = disk[i]
          /\ Behind(i)' = Behind(i) + len
      BY <2>1, PutGeometry, PutMarkers DEF IInv
    <2>3. Behind(i) \in 1 .. size /\ Offset(i) \in 0 .. (size - 1)
      BY <1>1, <2>1, Geometry
    <2>4. ~(Offset(i) < len)
      BY <2>1 DEF Span
    <2>5. QED
      BY <1>1, <1>2, <2>1, <2>2, <2>3, <2>4
  <1>4. IsFiniteSet(New) /\ Cardinality(New) = len
    <2>1. len \in Nat
      BY <1>1
    <2>2. QED
      BY <2>1, OnePostTakes
  <1>5. Newer(f)' = {f}
    <2>1. Newer(f)' = { j \in Markers' : Behind(j)' <= Behind(f)' }
      BY DEF Newer
    <2>2. \A j \in Markers' : Behind(j)' <= Behind(f)' => j = f
      BY <1>1, <1>2, <1>3
    <2>3. f \in Markers' /\ Behind(f)' <= Behind(f)'
      BY <1>1, <1>2
    <2>4. QED
      BY <2>1, <2>2, <2>3
  <1>6. Taken(Newer(f))' = New
    BY <1>2, <1>5 DEF Taken
  <1>7. ASSUME NEW i \in Markers \ Hit(len)
        PROVE  IsFiniteSet(Taken(Newer(i))') /\ Cardinality(Taken(Newer(i))') = Behind(i)'
    <2>1. ASSUME NEW j \in Newer(i)
          PROVE  j \in Markers \ Hit(len)
      <3>1. j \in Markers /\ j \in Bytes /\ Behind(j) <= Behind(i)
        BY DEF Newer, Markers
      <3>2. /\ Offset(j) = size - Behind(j) /\ Behind(j) \in 1 .. size
            /\ Offset(i) = size - Behind(i)
        BY <1>1, <1>3, <3>1, Geometry
      <3>3. ~(Offset(j) < len)
        BY <1>1, <1>3, <3>1, <3>2
      <3>4. QED
        BY <3>1, <3>3 DEF Hit, Span
    <2>2. Newer(i)' = Newer(i) \cup {f}
      <3>1. Newer(i)' = { j \in Markers' : Behind(j)' <= Behind(i)' }
        BY DEF Newer
      <3>3. f \in Newer(i)'
        BY <1>1, <1>2, <1>3, <3>1
      <3>4. ASSUME NEW j \in Newer(i)
            PROVE  j \in Newer(i)'
        <4>1. Behind(j) <= Behind(i) /\ j \in Markers \ Hit(len)
          BY <2>1 DEF Newer
        <4>2. QED
          BY <1>1, <1>2, <1>3, <3>1, <4>1
      <3>5. ASSUME NEW j \in Newer(i)', j # f
            PROVE  j \in Newer(i)
        <4>1. j \in Markers \ Hit(len) /\ Behind(j)' <= Behind(i)'
          BY <1>2, <3>1, <3>5
        <4>2. QED
          BY <1>1, <1>3, <4>1 DEF Newer
      <3>6. QED
        BY <3>3, <3>4, <3>5
    <2>3. Taken(Newer(i))' = Taken(Newer(i)) \cup New
      BY <1>2, <1>3, <2>1, <2>2 DEF Taken
    <2>4. Taken(Newer(i)) \cap New = {}
      <3>1. \A j \in Newer(i) : disk[j].num <= highest /\ disk[j].num \in Nat
        BY DEF Newer, IInv, NeverErasedWhileThere, TypeOK, Cell, Markers
      <3>2. \A x \in Taken(Newer(i)) : x[1] # highest + 1
        BY <1>1, <3>1 DEF Taken
      <3>3. QED
        BY <3>2
    <2>5. IsFiniteSet(Taken(Newer(i))) /\ Cardinality(Taken(Newer(i))) = Behind(i)
      BY DEF Packed
    <2>6. /\ IsFiniteSet(Taken(Newer(i)) \cup New)
          /\ Cardinality(Taken(Newer(i)) \cup New) = Behind(i) + len
      <3>1. Cardinality({}) = 0
        BY FS_EmptySet
      <3>2. /\ IsFiniteSet(Taken(Newer(i)) \cup New)
            /\ Cardinality(Taken(Newer(i)) \cup New) = Behind(i) + len - 0
        BY <1>4, <2>4, <2>5, <3>1, FS_Union
      <3>3. QED
        BY <1>1, <1>3, <3>2
    <2>7. QED
      BY <1>3, <2>3, <2>6
  <1>8. QED
    BY <1>2, <1>4, <1>6, <1>7 DEF Packed

\* Nothing else moves a post or changes its length.
LEMMA PackedKept ==
  ASSUME Packed, Markers' = Markers, UNCHANGED << size, posizione >>,
         \A i \in Markers : disk'[i].num = disk[i].num /\ disk'[i].rest = disk[i].rest
  PROVE  Packed'
  <1>1. \A i : Behind(i)' = Behind(i)
    BY DEF Behind
  <1>2. \A i : Newer(i)' = Newer(i)
    BY <1>1 DEF Newer
  <1>3. \A i : Newer(i) \subseteq Markers
    BY DEF Newer
  <1>4. ASSUME NEW i
        PROVE  Taken(Newer(i))' = Taken(Newer(i))
    BY <1>2, <1>3 DEF Taken
  <1>5. QED
    BY <1>1, <1>4 DEF Packed

\* fm_delmsg, seen from the file: one normal post becomes a deleted one.
LEMMA DelmsgMarks ==
  ASSUME IInv, NEW e \in entries, Delmsg(e), NEW d, d = Ring(e.pos, 0)
  PROVE  /\ d \in Markers
         /\ disk[d].mark = Normal
         /\ Markers' = Markers
         /\ \A i \in Markers : /\ disk'[i].num = disk[i].num
                               /\ disk'[i].rest = disk[i].rest
                               /\ disk'[i].mark = IF i = d THEN Deleted ELSE disk[i].mark
         /\ UNCHANGED << size, posizione, highest >>
  <1>1. /\ d \in Markers /\ disk[d].mark = Normal /\ Bytes' = Bytes
    BY DelmsgCells DEF IInv, Markers, Marks
  <1>2. \A i \in Bytes : /\ disk'[i].num = disk[i].num
                       /\ disk'[i].rest = disk[i].rest
                       /\ disk'[i].mark = IF i = d THEN Deleted ELSE disk[i].mark
    BY DelmsgCells DEF IInv
  <1>3. Markers' = Markers
    BY <1>1, <1>2 DEF Markers, Marks
  <1>4. \A i \in Markers : i \in Bytes
    BY DEF Markers
  <1>5. QED
    BY <1>1, <1>2, <1>3, <1>4 DEF Delmsg

\* Posts lie back to back in every reachable state.
LEMMA PackedInvariant == Spec => [](IInv /\ Packed)
  <1>1. Init => Packed
    <2> SUFFICES ASSUME Init PROVE Packed
      OBVIOUS
    <2>1. Markers = {}
      BY DEF Init, Create, Markers, Marks, Normal, Deleted, Bytes, Blank
    <2>2. QED
      BY <2>1 DEF Packed
  <1>2. IInv /\ Packed /\ [Next]_vars => Packed'
    <2> SUFFICES ASSUME IInv, Packed, [Next]_vars PROVE Packed'
      OBVIOUS
    <2>1. ASSUME NEW len \in Lengths, NEW text \in Texts, Put(len, text)
          PROVE  Packed'
      BY <2>1, PutPacked
    <2>2. ASSUME NEW e \in entries, Delmsg(e)
          PROVE  Packed'
      BY <2>2, DelmsgMarks, PackedKept
    <2>3. ASSUME UNCHANGED << size, disk, posizione >>
          PROVE  Packed'
      <3>1. Markers' = Markers
        BY <2>3 DEF Markers, Bytes
      <3>2. QED
        BY <2>3, <3>1, PackedKept
    <2>4. ASSUME NEW e \in entries, Forget(e)
          PROVE  Packed'
      BY <2>3, <2>4 DEF Forget, fmVars
    <2>5. CASE PutTooLong
      BY <2>3, <2>5 DEF PutTooLong
    <2>6. CASE UNCHANGED vars
      BY <2>3, <2>6 DEF vars, fmVars
    <2>7. QED
      BY <2>1, <2>2, <2>4, <2>5, <2>6 DEF Next
  <1>3. QED
    BY <1>1, <1>2, InitEstablishes, NextPreserves, PTL DEF Spec

\* The posts of the file, by the bytes they begin at.
LEMMA PostsAre == PostsInFile = { Post(i) : i \in Markers }
  BY DEF PostsInFile, Post

\* The log counts as the file does.
LEMMA LogCounts == \A S : Log!Cardinality(S) = Cardinality(S)
  BY Zenon DEF Log!Cardinality, Cardinality, Log!IsFiniteSet, IsFiniteSet

\* The log counts as many bytes from a post to its end as the file has between
\* that post and the write position.
LEMMA RoomSince ==
  ASSUME IInv, Packed, NEW i \in Markers
  PROVE  Log!Room(Log!Since(Post(i))) = Behind(i)
  <1>1. /\ size \in Nat \ {0} /\ posizione \in 0 .. size
        /\ \A j \in Markers : j \in Bytes /\ disk[j].num \in Nat
    BY SizesAndLengths DEF IInv, TypeOK, Markers, Cell
  <1>2. ASSUME NEW j \in Markers
        PROVE  disk[i].num <= disk[j].num <=> Behind(j) <= Behind(i)
    <2>1. Behind(i) \in Int /\ Behind(j) \in Int
      BY <1>1, Geometry
    <2>2. CASE Behind(j) < Behind(i)
      BY <1>1, <2>1, <2>2 DEF IInv, FileInOrder
    <2>3. CASE Behind(i) < Behind(j)
      BY <1>1, <2>1, <2>3 DEF IInv, FileInOrder
    <2>4. CASE Behind(i) = Behind(j)
      <3>1. i = j
        BY <1>1, <2>4, BehindInjective
      <3>2. QED
        BY <1>1, <2>1, <3>1
    <2>5. QED
      BY <2>1, <2>2, <2>3, <2>4
  <1>3. Log!Since(Post(i)) = { Post(j) : j \in Newer(i) }
    <2>1. Log!Since(Post(i)) = { n \in { Post(j) : j \in Markers } : disk[i].num <= n.num }
      BY PostsAre DEF Log!Since, Post
    <2>2. \A j \in Markers : disk[i].num <= Post(j).num <=> j \in Newer(i)
      BY <1>2 DEF Post, Newer
    <2>3. Newer(i) \subseteq Markers
      BY DEF Newer
    <2>4. QED
      BY <2>1, <2>2, <2>3
  <1>4. UNION { {m.num} \X (1 .. m.len) : m \in { Post(j) : j \in Newer(i) } }
          = Taken(Newer(i))
    <2>1. \A j : Post(j).num = disk[j].num /\ Post(j).len = disk[j].rest
      BY DEF Post
    <2>2. QED
      BY <2>1 DEF Taken
  <1>5. QED
    BY <1>3, <1>4, LogCounts DEF Log!Room, Packed

\* The log keeps what the file keeps: the posts whose first byte is not written.
LEMMA KeepIs ==
  ASSUME IInv, Packed, NEW len \in Lengths
  PROVE  Log!Keep(len) = { Post(i) : i \in Markers \ Hit(len) }
  <1>1. /\ size \in Nat \ {0} /\ posizione \in 0 .. size /\ len \in 1 .. size
    BY SizesAndLengths DEF IInv
  <1>2. ASSUME NEW i \in Markers
        PROVE  Log!Room(Log!Since(Post(i))) + len <= size <=> i \notin Hit(len)
    <2>1. i \in Bytes
      BY DEF Markers
    <2>2. Offset(i) = size - Behind(i) /\ Behind(i) \in 1 .. size
      BY <1>1, <2>1, Geometry
    <2>3. i \in Hit(len) <=> Offset(i) < len
      BY <2>1 DEF Hit, Span
    <2>4. QED
      BY <1>1, <2>2, <2>3, RoomSince
  <1>3. Log!Keep(len) = { m \in { Post(i) : i \in Markers } :
                            Log!Room(Log!Since(m)) + len <= size }
    BY PostsAre DEF Log!Keep
  <1>4. QED
    BY <1>2, <1>3

\* fm_put appends to the log.
LEMMA PutAppends ==
  ASSUME IInv, Packed, NEW len \in Lengths, NEW text \in Texts, Put(len, text)
  PROVE  Log!Append1(len)
  <1>0. PICK f : f = First
    OBVIOUS
  <1>1. /\ Markers' = (Markers \ Hit(len)) \cup {f}
        /\ disk'[f] = [mark |-> Normal, num |-> highest + 1,
                       rest |-> len, text |-> text]
        /\ \A i \in Bytes \ Span(len) : disk'[i] = disk[i]
    BY <1>0, PutMarkers DEF IInv
  <1>2. \A i \in Markers \ Hit(len) : i \in Bytes \ Span(len)
    BY DEF Hit, Markers
  <1>3. \A i \in Markers \ Hit(len) : Post(i)' = Post(i)
    BY <1>1, <1>2 DEF Post
  <1>4. Post(f)' = [num |-> highest + 1, len |-> len, dead |-> FALSE]
    <2>1. disk'[f].num = highest + 1 /\ disk'[f].rest = len /\ disk'[f].mark = 255
      BY <1>1 DEF Normal
    <2>2. (disk'[f].mark = Deleted) = FALSE
      BY <2>1 DEF Deleted
    <2>3. QED
      BY <2>1, <2>2, Zenon DEF Post
  <1>5. PostsInFile' = { Post(i)' : i \in Markers' }
    BY PostsAre DEF PostsInFile, Post
  <1>6. PostsInFile' = Log!Keep(len)
                         \cup {[num |-> highest + 1, len |-> len, dead |-> FALSE]}
    BY <1>1, <1>3, <1>4, <1>5, KeepIs
  <1>7. highest' = highest + 1 /\ size' = size
    BY DEF Put
  <1>8. QED
    BY <1>6, <1>7 DEF Log!Append1

\* fm_delmsg marks one post of the log.
LEMMA DelmsgMarksOne ==
  ASSUME IInv, NEW e \in entries, Delmsg(e)
  PROVE  \E m \in PostsInFile : Log!MarkDeleted(m)
  <1>0. PICK d : d = Ring(e.pos, 0)
    OBVIOUS
  <1>1. /\ d \in Markers
        /\ disk[d].mark = Normal
        /\ Markers' = Markers
        /\ UNCHANGED << size, posizione, highest >>
    BY <1>0, DelmsgMarks
  <1>2. \A i \in Markers : /\ disk'[i].num = disk[i].num
                         /\ disk'[i].rest = disk[i].rest
                         /\ disk'[i].mark = IF i = d THEN Deleted ELSE disk[i].mark
    BY <1>0, DelmsgMarks
  <1>3. \A i \in Markers : i # d => Post(i)' = Post(i)
    BY <1>2 DEF Post
  <1>4. Post(d)' = [Post(d) EXCEPT !.dead = TRUE] /\ ~Post(d).dead
    <2>1. disk'[d].num = disk[d].num /\ disk'[d].rest = disk[d].rest
      BY <1>1, <1>2
    <2>2. (disk[d].mark = Deleted) = FALSE
      BY <1>1 DEF Normal, Deleted
    <2>3. (disk'[d].mark = Deleted) = TRUE
      BY <1>1, <1>2
    <2>4. /\ Post(d) = [num |-> disk[d].num, len |-> disk[d].rest, dead |-> FALSE]
          /\ Post(d)' = [num |-> disk[d].num, len |-> disk[d].rest, dead |-> TRUE]
      BY <2>1, <2>2, <2>3, Zenon DEF Post
    <2>5. ~Post(d).dead
      BY <2>2 DEF Post
    <2>6. Post(d)' = [Post(d) EXCEPT !.dead = TRUE]
      <3>1. PICK p, no, yes : p = Post(d) /\ no = FALSE /\ yes = TRUE
        BY Zenon
      <3>2. p = [num |-> disk[d].num, len |-> disk[d].rest, dead |-> no]
        BY <2>4, <3>1, Zenon
      <3>3. [p EXCEPT !.dead = yes]
              = [num |-> disk[d].num, len |-> disk[d].rest, dead |-> yes]
        BY <3>2
      <3>4. QED
        BY <2>4, <3>1, <3>3, Zenon
    <2>7. QED
      BY <2>5, <2>6
  <1>5. \A i \in Markers : Post(i) = Post(d) => i = d
    <2>1. /\ size \in Nat \ {0} /\ posizione \in 0 .. size
          /\ \A j \in Markers : j \in Bytes /\ disk[j].num \in Nat
      BY SizesAndLengths DEF IInv, TypeOK, Markers, Cell
    <2>2. ASSUME NEW i \in Markers, i # d
          PROVE  disk[i].num # disk[d].num
      <3>1. Behind(i) # Behind(d) /\ Behind(i) \in Int /\ Behind(d) \in Int
        BY <1>1, <2>1, <2>2, BehindInjective, Geometry
      <3>2. Behind(i) < Behind(d) \/ Behind(d) < Behind(i)
        BY <3>1
      <3>3. disk[i].num < disk[d].num \/ disk[d].num < disk[i].num
        BY <1>1, <3>2 DEF IInv, FileInOrder
      <3>4. QED
        BY <1>1, <2>1, <3>3
    <2>3. QED
      BY <2>2 DEF Post
  <1>6. PostsInFile' = { Post(i)' : i \in Markers' }
    BY DEF PostsInFile, Post
  <1>7. PostsInFile' = (PostsInFile \ {Post(d)}) \cup {[Post(d) EXCEPT !.dead = TRUE]}
    BY <1>1, <1>3, <1>4, <1>5, <1>6, PostsAre
  <1>8. Log!MarkDeleted(Post(d))
    BY <1>1, <1>4, <1>7 DEF Log!MarkDeleted
  <1>9. Post(d) \in PostsInFile
    BY <1>1, PostsAre
  <1>10. QED
    BY <1>8, <1>9

\* The message file implements the bounded log: fm_put drops exactly the oldest
\* posts that must make room for the new one, however the posts lie across the
\* end of the file; fm_delmsg marks one post; a refused header spends a number;
\* nothing else is seen of the file.
THEOREM BoundedLogOfPosts == Spec => ImplementsLog
  <1>1. Init => Log!LogInit
    <2> SUFFICES ASSUME Init PROVE Log!LogInit
      OBVIOUS
    <2>1. Markers = {}
      BY DEF Init, Create, Markers, Marks, Normal, Deleted, Bytes, Blank
    <2>2. size \in Sizes /\ highest = 0
      BY DEF Init, Create
    <2>3. PostsInFile = {}
      BY <2>1 DEF PostsInFile
    <2>4. QED
      BY <2>2, <2>3 DEF Log!LogInit
  <1>2. IInv /\ Packed /\ [Next]_vars => [Log!LogNext]_(Log!logVars)
    <2> SUFFICES ASSUME IInv, Packed, [Next]_vars
                 PROVE  Log!LogNext \/ UNCHANGED << size, PostsInFile, highest >>
      BY DEF Log!logVars
    <2>1. ASSUME NEW len \in Lengths, NEW text \in Texts, Put(len, text)
          PROVE  Log!LogNext
      BY <2>1, PutAppends DEF Log!LogNext
    <2>2. ASSUME NEW e \in entries, Delmsg(e)
          PROVE  Log!LogNext
      BY <2>2, DelmsgMarksOne DEF Log!LogNext
    <2>3. ASSUME UNCHANGED << size, disk >>
          PROVE  PostsInFile' = PostsInFile
      BY <2>3 DEF PostsInFile, Markers, Bytes
    <2>4. CASE PutTooLong
      BY <2>3, <2>4 DEF PutTooLong, Log!LogNext, Log!Skip
    <2>5. ASSUME NEW e \in entries, Forget(e)
          PROVE  UNCHANGED << size, PostsInFile, highest >>
      BY <2>3, <2>5 DEF Forget, fmVars
    <2>6. CASE UNCHANGED vars
      BY <2>3, <2>6 DEF vars, fmVars
    <2>7. QED
      BY <2>1, <2>2, <2>4, <2>5, <2>6 DEF Next
  <1>3. QED
    BY <1>1, <1>2, PackedInvariant, PTL DEF Spec, ImplementsLog, Log!LogSpec
-----------------------------------------------------------------------------
(***************************************************************************)
(* The file through crashes.                                               *)
(*                                                                         *)
(* After a crash the description of the file and the lists are those saved *)
(* last, and posts written since then lie over what they describe: the     *)
(* file is no more in the order that FileInOrder describes.  What remains  *)
(* is said of each remembered post by itself, the posts of the saved lists *)
(* included: the byte it began at belongs to it or to a post with a higher *)
(* number, and when it still belongs to it, the post is there to its last  *)
(* byte and ends before the write position; before the saved one, too, if  *)
(* the saved description knows its number.  The posts that were on disk    *)
(* ahead of a description are left out of this.                            *)
(***************************************************************************)

-----------------------------------------------------------------------------
(***************************************************************************)
(* The inductive invariant.                                                *)
(***************************************************************************)
\* Behind, for the write position p.
BehindOf(p, i) == IF i < p THEN p - i ELSE p - i + size

\* A post is overwritten by a newer one or is there to its last byte, which is
\* before the write position p.
KeptPost(e, p) ==
  LET i == Ring(e.pos, 0)
  IN  /\ e.num <= disk[i].num
      /\ disk[i].num = e.num => /\ disk[i].text = e.text
                                /\ disk[i].rest \in 1 .. BehindOf(p, i)
                                /\ Whole(i)

Kept(E, p) == \A e \in E : KeptPost(e, p)

\* Each number was given to one post of E, and none is above h.
Numbered(E, h) ==
  /\ \A e \in E : e.num <= h
  /\ \A e, f \in E : e.num = f.num => e = f

Description == [lowest : Nat, highest : Nat, posizione : 0 .. size,
                nmsg : Int, ndel : Int]

DiskTypeOK ==
  /\ fmdata \in Description
  /\ fmdata.highest <= highest
  /\ mails \subseteq entries
  /\ msgdata \subseteq Entry
  /\ maildata \subseteq Entry
  /\ saving \in BOOLEAN

\* What the lists remember, in memory or on disk.
Known == (entries \cup msgdata \cup maildata) \ ahead

KnownKept ==
  /\ Numbered(Known, highest)
  /\ Kept(Known, posizione)
  /\ \A e \in Known : e.num <= fmdata.highest => KeptPost(e, fmdata.posizione)

\* What the rooms remember, and will after a crash, the saved description knows.
RoomsKnown ==
  ~ torn => /\ ahead \cap Rooms = {}
            /\ ahead \cap msgdata = {}
            /\ saving \/ \A e \in msgdata : e.num <= fmdata.highest

CrashInv == /\ TypeOK
            /\ DiskTypeOK
            /\ KnownKept
            /\ RoomsKnown

Block == [num : Nat, pos : Nat, text : Texts \cup {NoText}, found : BOOLEAN]
Caches(B) == [queue : Seq(B), freed : {{}}]

\* A block never has another text than the post remembered under its number at
\* its position.
GoodBlocks ==
  { b \in Block :
      /\ b.num <= highest
      /\ \A e \in entries \ ahead :
           e.num = b.num /\ e.pos = b.pos => b.text = e.text }

CacheInv == CrashInv /\ cache \in Caches(GoodBlocks)

-----------------------------------------------------------------------------
(***************************************************************************)
(* What the commands do to the posts that are remembered.                  *)
(***************************************************************************)
\* Where a post began is a byte of the file.
LEMMA HeadInFile ==
  ASSUME TypeOK, NEW e \in Entry
  PROVE  Ring(e.pos, 0) \in Bytes
  BY SizesAndLengths DEF Entry, Ring, Bytes

\* fm_put overwrites a post with one of a higher number or leaves it as it is.
LEMMA PutKeeps ==
  ASSUME TypeOK, NEW len \in Lengths, NEW text \in Texts, Put(len, text),
         NEW e \in Entry, e.num <= highest, KeptPost(e, posizione),
         NEW p \in 0 .. size, KeptPost(e, p)
  PROVE  KeptPost(e, p)' /\ KeptPost(e, posizione)'
  <1>1. PICK i \in Bytes : i = Ring(e.pos, 0)
    BY HeadInFile
  <1>2. /\ size \in Nat \ {0} /\ posizione \in 0 .. size
        /\ size' = size
        /\ Ring(e.pos, 0)' = i
        /\ e.num \in Nat /\ highest \in Nat
        /\ len \in 1 .. size
    BY <1>1, SizesAndLengths DEF Put, Ring, Entry, TypeOK
  <1>3. CASE i \in Span(len)
    <2>1. disk'[i].num = highest + 1
      BY <1>3 DEF Put
    <2>2. QED
      BY <1>2, <2>1 DEF KeptPost
  <1>4. CASE i \notin Span(len)
    <2>1. disk'[i] = disk[i]
      BY <1>4, PutMarkers
    <2>2. Behind(i)' = BehindOf(posizione, i)' /\ Behind(i) = BehindOf(posizione, i)
      BY <1>2 DEF Behind, BehindOf
    <2>3. CASE disk[i].num = e.num
      <3>1. /\ disk[i].rest \in 1 .. Behind(i) /\ Whole(i)
            /\ disk[i].rest \in 1 .. BehindOf(p, i)
            /\ disk[i].text = e.text
        BY <1>1, <2>2, <2>3 DEF KeptPost
      <3>2. disk'[i].rest \in 1 .. Behind(i)' /\ Whole(i)'
        BY <1>4, <3>1, PutLeavesWhole
      <3>3. BehindOf(p, i)' = BehindOf(p, i)
        BY <1>2 DEF BehindOf
      <3>4. QED
        BY <1>2, <2>1, <2>2, <2>3, <3>1, <3>2, <3>3 DEF KeptPost
    <2>4. CASE disk[i].num # e.num
      BY <1>1, <1>2, <2>1, <2>4 DEF KeptPost
    <2>5. QED
      BY <2>3, <2>4
  <1>5. QED
    BY <1>3, <1>4

\* The post it writes is there, under the number given last.
LEMMA PutKeepsNew ==
  ASSUME TypeOK, NEW len \in Lengths, NEW text \in Texts, Put(len, text),
         NEW e, e = [num |-> highest + 1, pos |-> posizione, text |-> text]
  PROVE  KeptPost(e, posizione)'
  <1>1. PICK f \in Bytes : f = First
    BY PutGeometry
  <1>2. /\ e.num = highest + 1 /\ e.text = text
        /\ size' = size /\ highest \in Nat
        /\ Ring(e.pos, 0)' = f
    BY <1>1 DEF First, Ring, Put, TypeOK
  <1>3. disk'[f].num = highest + 1 /\ disk'[f].text = text
    <2>1. disk'[f] = [mark |-> Normal, num |-> highest + 1,
                      rest |-> len, text |-> text]
      BY <1>1, PutMarkers
    <2>2. QED
      BY <2>1
  <1>4. disk'[f].rest \in 1 .. Behind(f)' /\ Whole(f)'
    BY <1>1, PutWritesWhole
  <1>5. Behind(f)' = BehindOf(posizione, f)'
    BY DEF Behind, BehindOf
  <1>6. QED
    BY <1>2, <1>3, <1>4, <1>5 DEF KeptPost

\* fm_delmsg and what does not touch the file: posts stay as they are.
LEMMA MarksKeep ==
  ASSUME TypeOK, size' = size, posizione' = posizione,
         \A j \in Bytes : /\ disk'[j].num = disk[j].num
                          /\ disk'[j].rest = disk[j].rest
                          /\ disk'[j].text = disk[j].text,
         NEW e \in Entry, KeptPost(e, posizione),
         NEW p \in 0 .. size, KeptPost(e, p)
  PROVE  KeptPost(e, p)' /\ KeptPost(e, posizione)'
  <1>1. PICK i \in Bytes : i = Ring(e.pos, 0)
    BY HeadInFile
  <1>2. Ring(e.pos, 0)' = i
    BY <1>1 DEF Ring
  <1>3. /\ Behind(i) = BehindOf(posizione, i)
        /\ BehindOf(posizione, i)' = BehindOf(posizione, i)
        /\ BehindOf(p, i)' = BehindOf(p, i)
    BY DEF Behind, BehindOf
  <1>4. ASSUME disk[i].num = e.num PROVE Whole(i)'
    <2>1. disk[i].rest \in 1 .. Behind(i) /\ Whole(i)
      BY <1>1, <1>3, <1>4 DEF KeptPost
    <2>2. QED
      BY <2>1, WholeKept
  <1>5. QED
    BY <1>1, <1>2, <1>3, <1>4 DEF KeptPost

\* Any command, on a post whose number was given before.
LEMMA CommandsKeep ==
  ASSUME TypeOK, [Next]_vars,
         NEW e \in Entry, e.num <= highest, KeptPost(e, posizione),
         NEW p \in 0 .. size, KeptPost(e, p)
  PROVE  KeptPost(e, p)' /\ KeptPost(e, posizione)'
  <1>1. ASSUME NEW len \in Lengths, NEW text \in Texts, Put(len, text)
        PROVE  KeptPost(e, p)' /\ KeptPost(e, posizione)'
    BY <1>1, PutKeeps
  <1>2. ASSUME NEW f \in entries, Delmsg(f)
        PROVE  KeptPost(e, p)' /\ KeptPost(e, posizione)'
    <2>1. size' = size /\ posizione' = posizione
      BY <1>2 DEF Delmsg
    <2>2. \A j \in Bytes : /\ disk'[j].num = disk[j].num
                           /\ disk'[j].rest = disk[j].rest
                           /\ disk'[j].text = disk[j].text
      BY <1>2, DelmsgCells
    <2>3. QED
      BY <2>1, <2>2, MarksKeep
  <1>3. CASE UNCHANGED << size, disk, posizione >>
    BY <1>3, MarksKeep
  <1>4. QED
    BY <1>1, <1>2, <1>3 DEF Next, PutTooLong, Forget, vars, fmVars

\* Any command: the types, and what the rooms may remember afterwards.
LEMMA CommandsNumber ==
  ASSUME TypeOK, [Next]_vars
  PROVE  /\ TypeOK'
         /\ size' = size
         /\ highest \in Nat /\ highest' \in Nat /\ highest <= highest'
         /\ \A e \in entries' \ entries :
               e.num = highest + 1 /\ e.num = highest' /\ KeptPost(e, posizione)'
         /\ \A e, f \in entries' \ entries : e = f
  <1>1. ASSUME NEW len \in Lengths, NEW text \in Texts, Put(len, text)
        PROVE  /\ TypeOK'
               /\ size' = size /\ highest' = highest + 1
               /\ \A e \in entries' \ entries :
                     /\ e = [num |-> highest + 1, pos |-> posizione, text |-> text]
                     /\ KeptPost(e, posizione)'
    <2>1. size' = size /\ highest' = highest + 1
      BY <1>1 DEF Put
    <2>2. ASSUME NEW e \in entries' \ entries
          PROVE  e = [num |-> highest + 1, pos |-> posizione, text |-> text]
      BY <1>1, <2>2 DEF Put
    <2>3. QED
      BY <1>1, <2>1, <2>2, PutTypeOK, PutKeepsNew
  <1>2. ASSUME NEW e \in entries, Delmsg(e)
        PROVE  TypeOK' /\ size' = size /\ highest' = highest /\ entries' = entries
    BY <1>2, DelmsgCells DEF Delmsg
  <1>3. ASSUME size' = size, disk' = disk, lowest' = lowest, posizione' = posizione,
               nmsg' = nmsg, ndel' = ndel, entries' \subseteq entries, highest' \in Nat
        PROVE  TypeOK'
    BY <1>3 DEF TypeOK, Bytes, Cell, Entry
  <1>4. CASE PutTooLong
    BY <1>3, <1>4 DEF PutTooLong, TypeOK
  <1>5. ASSUME NEW e \in entries, Forget(e)
        PROVE  /\ TypeOK' /\ size' = size /\ highest' = highest
               /\ entries' \subseteq entries
    BY <1>3, <1>5 DEF Forget, fmVars, TypeOK
  <1>6. CASE UNCHANGED vars
    BY <1>3, <1>6 DEF vars, fmVars, TypeOK
  <1>7. highest \in Nat
    BY DEF TypeOK
  <1>8. CASE \E len \in Lengths, text \in Texts : Put(len, text)
    BY <1>1, <1>7, <1>8
  <1>9. CASE TypeOK' /\ size' = size /\ highest' \in {highest, highest + 1}
             /\ entries' \subseteq entries
    BY <1>7, <1>9
  <1>10. QED
    BY <1>2, <1>4, <1>5, <1>6, <1>8, <1>9 DEF Next, PutTooLong, vars, fmVars

-----------------------------------------------------------------------------
(***************************************************************************)
(* The saves and the restart.                                              *)
(***************************************************************************)
LEMMA CrashInitInv == CrashInit => CrashInv
  <1> SUFFICES ASSUME CrashInit PROVE CrashInv
    OBVIOUS
  <1>1. TypeOK /\ size \in Nat \ {0} /\ entries = {} /\ highest = 0
    BY InitEstablishes, SizesAndLengths DEF CrashInit, Init, Create, IInv
  <1>2. DiskTypeOK
    <2>1. fmdata \in Description /\ fmdata.highest <= highest
      BY <1>1 DEF CrashInit, Description
    <2>2. mails = {} /\ msgdata = {} /\ maildata = {} /\ saving \in BOOLEAN
      BY DEF CrashInit
    <2>3. QED
      BY <1>1, <2>1, <2>2 DEF DiskTypeOK
  <1>3. Known = {} /\ Rooms = {} /\ msgdata = {}
    BY <1>1 DEF CrashInit, Known, Rooms
  <1>4. QED
    BY <1>1, <1>2, <1>3 DEF CrashInv, KnownKept, RoomsKnown, Kept, Numbered

\* What a command adds to the lists is one post, the newest.
LEMMA ServeKnown ==
  ASSUME CrashInv, Serve
  PROVE  /\ Known' \subseteq Known \cup Arrived
         /\ Rooms' \subseteq Rooms \cup Arrived
         /\ ahead' = ahead \ Arrived
         /\ mails' \subseteq entries'
         /\ maildata' \subseteq maildata \cup mails \cup Arrived
  <1>1. PICK got \in {{}, Arrived} : mails' = (mails \cap entries') \cup got
    BY DEF Serve
  <1>2. /\ maildata' = maildata \/ maildata' = mails'
        /\ ahead' = ahead \ Arrived
        /\ msgdata' = msgdata
    BY DEF Serve, diskVars
  <1>3. mails \subseteq entries
    BY DEF CrashInv, DiskTypeOK
  <1>4. QED
    BY <1>1, <1>2, <1>3 DEF Known, Rooms, Arrived

\* A command keeps what is remembered readable, and what was saved too.
LEMMA ServeInv ==
  ASSUME CrashInv, Serve
  PROVE  CrashInv'
  <1>1. /\ TypeOK /\ TypeOK' /\ size' = size /\ [Next]_vars
        /\ highest \in Nat /\ highest' \in Nat /\ highest <= highest'
        /\ entries \subseteq Entry /\ entries' \subseteq Entry
        /\ posizione \in 0 .. size
    <2>1. TypeOK /\ [Next]_vars
      BY DEF CrashInv, Serve
    <2>2. QED
      BY <2>1, CommandsNumber DEF TypeOK, Entry
  <1>2. /\ fmdata' = fmdata /\ msgdata' = msgdata /\ saving' = saving /\ torn' = torn
        /\ fmdata.highest <= highest /\ fmdata.highest \in Nat
        /\ fmdata.posizione \in 0 .. size
        /\ mails \subseteq entries /\ msgdata \subseteq Entry /\ maildata \subseteq Entry
    BY DEF Serve, diskVars, CrashInv, DiskTypeOK, Description
  <1>3. DiskTypeOK'
    <2>1. Description' = Description /\ Entry' = Entry
      BY <1>1 DEF Description, Entry
    <2>2. maildata' \subseteq Entry
      BY <1>1, <1>2, ServeKnown DEF Arrived
    <2>3. QED
      BY <1>1, <1>2, <2>1, <2>2, ServeKnown DEF CrashInv, DiskTypeOK
  <1>4. PICK p \in 0 .. size : p = fmdata.posizione
    BY <1>2
  <1>5. ASSUME NEW e \in Known
        PROVE  /\ e.num \in Nat /\ e.num <= highest
               /\ KeptPost(e, posizione)'
               /\ e.num <= fmdata.highest => KeptPost(e, p)'
    <2>1. e \in Entry /\ e.num \in Nat
      BY <1>1, <1>2 DEF Known, Entry
    <2>2. /\ e.num <= highest /\ KeptPost(e, posizione)
          /\ e.num <= fmdata.highest => KeptPost(e, p)
      BY <1>4 DEF CrashInv, KnownKept, Numbered, Kept
    <2>3. KeptPost(e, posizione)'
      BY <1>1, <2>1, <2>2, CommandsKeep
    <2>4. e.num <= fmdata.highest => KeptPost(e, p)'
      BY <1>1, <2>1, <2>2, CommandsKeep
    <2>5. QED
      BY <2>1, <2>2, <2>3, <2>4
  <1>6. ASSUME NEW e \in Arrived
        PROVE  /\ e.num = highest + 1 /\ e.num = highest'
               /\ KeptPost(e, posizione)'
               /\ \A f \in Arrived : e = f
    BY <1>1, <1>6, CommandsNumber DEF Arrived
  <1>7. KnownKept'
    <2>1. \A e, f \in Known : e.num = f.num => e = f
      BY DEF CrashInv, KnownKept, Numbered
    <2>2. ASSUME NEW e \in Known', NEW f \in Known', e.num = f.num
          PROVE  e = f
      BY <1>1, <1>5, <1>6, <2>1, <2>2, ServeKnown
    <2>3. \A e \in Known' : e.num <= highest' /\ KeptPost(e, posizione)'
      BY <1>1, <1>5, <1>6, ServeKnown
    <2>4. Numbered(Known, highest)'
      BY <2>2, <2>3 DEF Numbered
    <2>5. ASSUME NEW e \in Known', e.num <= fmdata'.highest
          PROVE  KeptPost(e, fmdata.posizione)'
      <3>1. e \in Known
        BY <1>1, <1>2, <1>6, <2>5, ServeKnown
      <3>2. KeptPost(e, p)'
        BY <1>2, <1>5, <2>5, <3>1
      <3>3. fmdata'.posizione = p
        BY <1>2, <1>4
      <3>4. QED
        BY <3>2, <3>3 DEF KeptPost, BehindOf
    <2>6. QED
      BY <2>3, <2>4, <2>5 DEF KnownKept, Kept
  <1>8. RoomsKnown'
    BY <1>2, ServeKnown DEF CrashInv, RoomsKnown
  <1>9. QED
    BY <1>1, <1>3, <1>7, <1>8 DEF CrashInv

\* Saving a mailbox, the rooms' lists, the description.
LEMMA SavesInv ==
  ASSUME CrashInv, MailSave \/ RoomSaveData \/ FmSaveData \/ UNCHANGED crashVars
  PROVE  CrashInv'
  <1>1. /\ UNCHANGED << size, disk, entries, lowest, highest, posizione, nmsg, ndel,
                        mails, torn, ahead >>
        /\ entries \subseteq Entry /\ highest \in Nat /\ mails \subseteq entries
    BY DEF MailSave, RoomSaveData, FmSaveData, crashVars, mailVars, diskVars, vars, fmVars,
           CrashInv, TypeOK, DiskTypeOK
  <1>2. TypeOK' /\ Entry' = Entry /\ Description' = Description
    BY <1>1 DEF CrashInv, TypeOK, Bytes, Cell, Entry, Description
  <1>3. \A e, p : KeptPost(e, p)' <=> KeptPost(e, p)
    BY <1>1 DEF KeptPost, Whole, Ring, BehindOf
  <1>4. /\ msgdata' \in {msgdata, Rooms}
        /\ maildata' \in {maildata, mails}
    BY DEF MailSave, RoomSaveData, FmSaveData, crashVars, mailVars, diskVars
  <1>5. Known' \subseteq Known
    BY <1>1, <1>4 DEF Known, Rooms
  <1>6. Numbered(Known, highest)' /\ Kept(Known, posizione)'
    BY <1>1, <1>3, <1>5 DEF CrashInv, KnownKept, Numbered, Kept
  <1>7. CASE fmdata' = fmdata
    <2>1. saving' \in BOOLEAN
      BY DEF MailSave, RoomSaveData, FmSaveData, crashVars, diskVars, CrashInv, DiskTypeOK
    <2>2. DiskTypeOK'
      BY <1>1, <1>2, <1>4, <1>7, <2>1 DEF CrashInv, DiskTypeOK, Rooms
    <2>3. KnownKept'
      BY <1>3, <1>5, <1>6, <1>7 DEF CrashInv, KnownKept
    <2>4. RoomsKnown'
      <3>1. Rooms' = Rooms
        BY <1>1 DEF Rooms
      <3>2. CASE RoomSaveData
        BY <1>1, <1>7, <3>1, <3>2 DEF CrashInv, RoomsKnown, RoomSaveData
      <3>3. CASE msgdata' = msgdata /\ saving' = saving
        BY <1>1, <1>7, <3>1, <3>3 DEF CrashInv, RoomsKnown
      <3>4. CASE FmSaveData
        <4>1. \A e \in msgdata \ ahead : e.num <= highest
          BY DEF CrashInv, KnownKept, Numbered, Known
        <4>2. fmdata'.highest = highest
          BY <3>4 DEF FmSaveData, FmData
        <4>3. QED
          BY <1>1, <3>1, <3>4, <4>1, <4>2 DEF CrashInv, RoomsKnown, FmSaveData
      <3>5. QED
        BY <3>2, <3>3, <3>4 DEF MailSave, crashVars, diskVars
    <2>5. QED
      BY <1>2, <2>2, <2>3, <2>4 DEF CrashInv
  <1>8. CASE FmSaveData
    <2>1. /\ fmdata' \in Description
          /\ fmdata'.highest = highest /\ fmdata'.posizione = posizione
      BY <1>8 DEF FmSaveData, FmData, Description, CrashInv, TypeOK
    <2>2. msgdata' = msgdata /\ maildata' = maildata /\ saving' = FALSE
      BY <1>8 DEF FmSaveData, mailVars
    <2>3. DiskTypeOK'
      <3>1. fmdata'.highest <= highest'
        BY <1>1, <2>1
      <3>2. QED
        BY <1>1, <1>2, <2>1, <2>2, <3>1 DEF CrashInv, DiskTypeOK
    <2>4. KnownKept'
      <3>1. fmdata'.posizione = posizione'
        BY <1>1, <2>1
      <3>2. QED
        BY <1>6, <3>1 DEF KnownKept, Kept, KeptPost
    <2>5. RoomsKnown'
      <3>1. \A e \in msgdata \ ahead : e.num <= highest
        BY DEF CrashInv, KnownKept, Numbered, Known
      <3>2. QED
        BY <1>1, <2>1, <2>2, <3>1 DEF CrashInv, RoomsKnown, Rooms
    <2>6. QED
      BY <1>2, <2>3, <2>4, <2>5 DEF CrashInv
  <1>9. QED
    BY <1>7, <1>8 DEF MailSave, RoomSaveData, crashVars, diskVars

\* A restart remembers what was saved last.
LEMMA RestartInv ==
  ASSUME CrashInv, CrashRestart
  PROVE  CrashInv'
  <1>1. /\ size' = size /\ disk' = disk /\ fmdata' = fmdata
        /\ msgdata' = msgdata /\ maildata' = maildata
        /\ entries' = msgdata \cup maildata /\ mails' = maildata
        /\ highest' = fmdata.highest
        /\ posizione' = fmdata.posizione /\ lowest' = fmdata.lowest
        /\ nmsg' = fmdata.nmsg /\ ndel' = fmdata.ndel
        /\ saving' = FALSE /\ torn' = (torn \/ saving)
        /\ ahead' = { e \in msgdata \cup maildata : e \in ahead \/ e.num > fmdata.highest }
    BY DEF CrashRestart
  <1>2. /\ fmdata \in Description /\ msgdata \subseteq Entry /\ maildata \subseteq Entry
    BY DEF CrashInv, DiskTypeOK
  <1>3. /\ fmdata.lowest \in Nat /\ fmdata.highest \in Nat
        /\ fmdata.posizione \in 0 .. size /\ fmdata.nmsg \in Int /\ fmdata.ndel \in Int
    BY <1>2 DEF Description
  <1>4. Entry' = Entry /\ Description' = Description
    BY <1>1 DEF Entry, Description
  <1>5. TypeOK'
    BY <1>1, <1>2, <1>3, <1>4 DEF CrashInv, TypeOK, Bytes, Cell
  <1>6. DiskTypeOK'
    <2>1. fmdata'.highest <= highest'
      BY <1>1, <1>3
    <2>2. QED
      BY <1>1, <1>2, <1>4, <2>1 DEF DiskTypeOK
  <1>7. \A e, p : KeptPost(e, p)' <=> KeptPost(e, p)
    BY <1>1 DEF KeptPost, Whole, Ring, BehindOf
  <1>8. ASSUME NEW e \in Known'
        PROVE  e \in Known /\ e.num <= fmdata.highest
    <2>1. e \in msgdata \cup maildata /\ e \notin ahead /\ ~(e.num > fmdata.highest)
      BY <1>1, <1>8 DEF Known
    <2>2. e.num \in Nat
      BY <1>2, <2>1 DEF Entry
    <2>3. QED
      BY <1>3, <2>1, <2>2 DEF Known
  <1>9. KnownKept'
    <2>1. \A e \in Known' : e.num <= highest' /\ KeptPost(e, fmdata.posizione)'
      BY <1>1, <1>7, <1>8 DEF CrashInv, KnownKept, KeptPost, BehindOf
    <2>2. Numbered(Known, highest)'
      BY <1>8, <2>1 DEF CrashInv, KnownKept, Numbered
    <2>3. fmdata'.posizione = posizione'
      BY <1>1
    <2>4. QED
      BY <2>1, <2>2, <2>3 DEF KnownKept, Kept, KeptPost
  <1>10. RoomsKnown'
    <2>1. SUFFICES ASSUME ~torn, ~saving
                   PROVE  /\ ahead' \cap Rooms' = {}
                          /\ ahead' \cap msgdata = {}
                          /\ \A e \in msgdata : e.num <= fmdata.highest
      BY <1>1 DEF RoomsKnown
    <2>2. /\ ahead \cap msgdata = {}
          /\ \A e \in msgdata : e.num <= fmdata.highest /\ e.num \in Nat
      BY <1>2, <2>1 DEF CrashInv, RoomsKnown, Entry
    <2>3. ahead' \cap msgdata = {}
      BY <1>1, <1>3, <2>2
    <2>4. Rooms' \subseteq msgdata
      BY <1>1 DEF Rooms
    <2>5. QED
      BY <2>2, <2>3, <2>4
  <1>11. QED
    BY <1>5, <1>6, <1>9, <1>10 DEF CrashInv

LEMMA CrashNextInv == CrashInv /\ [CrashNext]_crashVars => CrashInv'
  BY ServeInv, SavesInv, RestartInv DEF CrashNext

\* The invariant of the message file and of what is saved of it, through any
\* number of crashes.
THEOREM CrashInvariant == CrashSpec => []CrashInv
  BY CrashInitInv, CrashNextInv, PTL DEF CrashSpec

\* A server that comes back from a crash with an older description of the file
\* gives no number again under which that description knew a post that is still
\* remembered; and it knew every post of the rooms, unless the crash fell between
\* the savings of the lists and of the description.
THEOREM NumbersStayUnique == CrashSpec => []NumbersNotReused
  <1>1. CrashInv => NumbersNotReused
    BY DEF CrashInv, KnownKept, RoomsKnown, Numbered, Known, NumbersNotReused
  <1>2. QED
    BY <1>1, CrashInvariant, PTL

-----------------------------------------------------------------------------
(***************************************************************************)
(* The cache (share/cache.c), whichever blocks B it holds.                 *)
(***************************************************************************)
\* The blocks of B stay blocks of B when the table forgets them.
Forgettable(B) == \A b \in B : [b EXCEPT !.found = FALSE] \in B

\* The block that the table has is one of the queue.
LEMMA FoundBlock ==
  ASSUME NEW B, NEW c \in Caches(B), NEW num, InTable(c, num) # {}
  PROVE  BlockOf(c, num) \in B /\ BlockOf(c, num).num = num
  <1>1. PICK i \in InTable(c, num) : i = CHOOSE k \in InTable(c, num) : TRUE
    OBVIOUS
  <1>2. i \in DOMAIN c.queue /\ c.queue[i].num = num /\ c.queue \in Seq(B)
    BY DEF InTable, Caches
  <1>3. QED
    BY <1>1, <1>2 DEF BlockOf

\* Taking a block to the end of the queue.
LEMMA UsedCache ==
  ASSUME NEW B, NEW c \in Caches(B), NEW num
  PROVE  Used(c, num) \in Caches(B)
  <1>1. CASE InTable(c, num) = {}
    BY <1>1 DEF Used
  <1>2. CASE InTable(c, num) # {}
    <2>1. PICK i \in InTable(c, num) : i = CHOOSE k \in InTable(c, num) : TRUE
      BY <1>2
    <2>2. c.queue \in Seq(B) /\ i \in 1 .. Len(c.queue)
      BY DEF InTable, Caches
    <2>3. RemoveAt(c.queue, i) \in Seq(B) /\ c.queue[i] \in B
      BY <2>2 DEF RemoveAt
    <2>4. Append(RemoveAt(c.queue, i), c.queue[i]) \in Seq(B)
      BY <2>3
    <2>5. Used(c, num) = [c EXCEPT !.queue = Append(RemoveAt(@, i), @[i])]
      BY <1>2, <2>1 DEF Used
    <2>6. QED
      BY <2>4, <2>5 DEF Caches
  <1>3. QED
    BY <1>1, <1>2

\* Freeing the block used least recently.
LEMMA EvictedCache ==
  ASSUME NEW B, Forgettable(B), NEW c \in Caches(B), c.queue # << >>
  PROVE  Evicted(c) \in Caches(B)
  <1> DEFINE num == Head(c.queue).num
             out == { k \in 2 .. Len(c.queue) : c.queue[k].num = num }
             q == [k \in 1 .. Len(c.queue) - 1 |->
                     IF k + 1 \in out THEN [c.queue[k + 1] EXCEPT !.found = FALSE]
                                      ELSE c.queue[k + 1]]
             f == IF Head(c.queue).found \/ \E k \in out : c.queue[k].found
                  THEN c.freed ELSE c.freed \ {num}
  <1>1. /\ c.queue \in Seq(B) /\ Len(c.queue) \in Nat /\ Len(c.queue) > 0
        /\ c.freed = {}
    BY DEF Caches
  <1>2. ASSUME NEW k \in 1 .. Len(c.queue) - 1
        PROVE  q[k] \in B
    <2>1. k + 1 \in 1 .. Len(c.queue)
      BY <1>1
    <2>2. c.queue[k + 1] \in B
      BY <1>1, <2>1
    <2>3. QED
      BY <2>2 DEF Forgettable
  <1>3. q \in [1 .. Len(c.queue) - 1 -> B]
    BY <1>2
  <1>4. q \in Seq(B)
    BY <1>1, <1>3
  <1>5. f = {}
    BY <1>1
  <1>6. Evicted(c) = [queue |-> q, freed |-> f]
    BY DEF Evicted
  <1>7. QED
    BY <1>4, <1>5, <1>6 DEF Caches

\* cp_put: what the cache holds afterwards it held before, but for one block.
LEMMA CpPutCache ==
  ASSUME NEW B, Forgettable(B), NEW c \in Caches(B), NEW num, NEW pos, NEW text,
         \A found \in BOOLEAN :
            [num |-> num, pos |-> pos, text |-> text, found |-> found] \in B
  PROVE  CpPut(c, num, pos, text) \in Caches(B)
  <1>1. ASSUME NEW d \in Caches(B)
        PROVE  Inserted(d, num, pos, text) \in Caches(B)
    <2> DEFINE g == IF Len(d.queue) < CacheSize THEN d ELSE Evicted(d)
               b == [num |-> num, pos |-> pos, text |-> text,
                     found |-> InTable(g, num) = {} /\ num \notin g.freed]
    <2>1. g \in Caches(B)
      <3>1. d.queue # << >> \/ Len(d.queue) < CacheSize
        BY CacheAssumption DEF Caches
      <3>2. QED
        BY <3>1, EvictedCache
    <2>2. b \in B
      <3>1. (InTable(g, num) = {} /\ num \notin g.freed) \in BOOLEAN
        OBVIOUS
      <3>2. QED
        BY <3>1
    <2>3. Inserted(d, num, pos, text) = [g EXCEPT !.queue = Append(@, b)]
      BY DEF Inserted
    <2> HIDE DEF g, b
    <2>4. /\ g.queue \in Seq(B) /\ g.freed \in {{}}
          /\ g = [queue |-> g.queue, freed |-> g.freed]
      BY <2>1 DEF Caches
    <2>5. Append(g.queue, b) \in Seq(B)
      BY <2>2, <2>4
    <2>6. Inserted(d, num, pos, text) = [queue |-> Append(g.queue, b), freed |-> g.freed]
      BY <2>3, <2>4
    <2>7. QED
      BY <2>4, <2>5, <2>6 DEF Caches
  <1>2. Used(c, num) \in Caches(B)
    BY UsedCache
  <1>3. QED
    BY <1>1, <1>2 DEF CpPut

-----------------------------------------------------------------------------
(***************************************************************************)
(* The cache in front of the file.                                         *)
(***************************************************************************)
\* Blocks that are no cached copy of another post stay so, when the table
\* forgets them and when another command is served.
LEMMA ForgettableBlocks == Forgettable(Block) /\ Forgettable(GoodBlocks)
  BY DEF Forgettable, Block, GoodBlocks

LEMMA CachesMonotone ==
  ASSUME NEW A, NEW B, A \subseteq B
  PROVE  Caches(A) \subseteq Caches(B)
  <1>1. Seq(A) \subseteq Seq(B)
    OBVIOUS
  <1>2. QED
    BY <1>1 DEF Caches

LEMMA GoodBlocksStay ==
  ASSUME CrashInv, Serve
  PROVE  GoodBlocks \subseteq GoodBlocks'
  <1> SUFFICES ASSUME NEW b \in GoodBlocks PROVE b \in GoodBlocks'
    OBVIOUS
  <1>1. /\ b \in Block /\ b.num \in Nat /\ b.num <= highest
        /\ \A e \in entries \ ahead : e.num = b.num /\ e.pos = b.pos => b.text = e.text
    BY DEF GoodBlocks, Block
  <1>2. /\ highest \in Nat /\ highest' \in Nat /\ highest <= highest'
        /\ \A e \in entries' \ entries : e.num = highest + 1
    BY CommandsNumber DEF CrashInv, Serve
  <1>3. b.num <= highest' /\ \A e \in entries' \ entries : e.num # b.num
    BY <1>1, <1>2
  <1>4. entries' \ ahead' \subseteq (entries \ ahead) \cup (entries' \ entries)
    BY ServeKnown DEF Arrived
  <1>5. QED
    BY <1>1, <1>3, <1>4 DEF GoodBlocks, Block

\* The answer of cp_get.
LEMMA CpGetAnswer ==
  ASSUME CacheInv, NEW e \in entries
  PROVE  /\ CpGet(e.num, e.pos).err # "FREED"
         /\ CpGet(e.num, e.pos).err = "OK" =>
              /\ CpGet(e.num, e.pos).text \in Texts \cup {NoText}
              /\ e.num <= highest
         /\ e \notin ahead => /\ CpGet(e.num, e.pos).err # "CHKSUM"
                              /\ CpGet(e.num, e.pos).err = "OK" =>
                                   CpGet(e.num, e.pos).text = e.text
  <1>1. /\ cache \in Caches(GoodBlocks) /\ cache.freed = {}
        /\ TypeOK /\ e \in Entry /\ Ring(e.pos, 0) \in Bytes
    BY HeadInFile DEF CacheInv, CrashInv, Caches, TypeOK
  <1>2. CASE Lookup(cache, e.num, e.pos) = "HIT"
    <2>1. CpGet(e.num, e.pos) = [err |-> "OK", text |-> BlockOf(cache, e.num).text]
      BY <1>2 DEF CpGet
    <2>2. InTable(cache, e.num) # {} /\ BlockOf(cache, e.num).pos = e.pos
      BY <1>1, <1>2 DEF Lookup
    <2>3. BlockOf(cache, e.num) \in GoodBlocks /\ BlockOf(cache, e.num).num = e.num
      BY <1>1, <2>2, FoundBlock
    <2>4. /\ BlockOf(cache, e.num).text \in Texts \cup {NoText}
          /\ e.num <= highest
      BY <2>3 DEF GoodBlocks, Block
    <2>5. e \notin ahead => BlockOf(cache, e.num).text = e.text
      BY <2>2, <2>3 DEF GoodBlocks
    <2>6. QED
      BY <2>1, <2>4, <2>5
  <1>3. CASE Lookup(cache, e.num, e.pos) = "MISS"
    <2>1. /\ CpGet(e.num, e.pos).err = Get(e.num, e.pos)
          /\ Get(e.num, e.pos) = "OK" => CpGet(e.num, e.pos).text = At(e.pos).text
      BY <1>3 DEF CpGet
    <2>2. At(e.pos).text \in Texts \cup {NoText}
      BY <1>1 DEF At, TypeOK, Cell
    <2>3. Get(e.num, e.pos) # "FREED"
      BY DEF Get, Seek
    <2>4. Get(e.num, e.pos) = "OK" => e.num <= highest
      BY <1>1 DEF Get, Seek, TypeOK, Entry
    <2>5. Get(e.num, e.pos) \in {"OK", "CHKSUM"} => At(e.pos).num = e.num
      BY DEF Get, Seek
    <2>6. Get(e.num, e.pos) = "CHKSUM" => ~Whole(Ring(e.pos, 0))
      BY DEF Get, Seek
    <2>7. ASSUME e \notin ahead, At(e.pos).num = e.num
          PROVE  At(e.pos).text = e.text /\ Whole(Ring(e.pos, 0))
      BY <2>7 DEF CacheInv, CrashInv, KnownKept, Known, Kept, KeptPost, At
    <2>8. QED
      BY <2>1, <2>2, <2>3, <2>4, <2>5, <2>6, <2>7
  <1>4. Lookup(cache, e.num, e.pos) \in {"HIT", "MISS"}
    BY <1>1 DEF Lookup
  <1>5. QED
    BY <1>2, <1>3, <1>4

\* cp_get keeps what it answers.  The post may be one that was on disk ahead of
\* the description: of the post that has its number now, at the same position, it
\* yields the text.
LEMMA ReadInv ==
  ASSUME CacheInv, NEW e \in entries, Read(e)
  PROVE  CacheInv'
  <1>1. UNCHANGED crashVars /\ UNCHANGED << entries, highest, ahead >>
    BY DEF Read, crashVars, vars, fmVars
  <1>2. CrashInv'
    BY <1>1, SavesInv DEF CacheInv
  <1>3. ASSUME CpGet(e.num, e.pos).err = "OK", NEW found \in BOOLEAN
        PROVE  [num |-> e.num, pos |-> e.pos, text |-> CpGet(e.num, e.pos).text,
                found |-> found] \in GoodBlocks
    <2>1. /\ e.num \in Nat /\ e.pos \in Nat
      BY SizesAndLengths DEF CacheInv, CrashInv, TypeOK, Entry
    <2>2. /\ CpGet(e.num, e.pos).text \in Texts \cup {NoText}
          /\ e.num <= highest
      BY <1>3, CpGetAnswer
    <2>3. ASSUME NEW f \in entries \ ahead, f.num = e.num, f.pos = e.pos
          PROVE  CpGet(e.num, e.pos).text = f.text
      BY <1>3, <2>3, CpGetAnswer
    <2>4. QED
      BY <2>1, <2>2, <2>3 DEF GoodBlocks, Block
  <1>4. cache' \in Caches(GoodBlocks)
    <2>1. cache \in Caches(GoodBlocks)
      BY DEF CacheInv
    <2>2. CASE CpGet(e.num, e.pos).err = "OK"
      BY <1>3, <2>1, <2>2, CpPutCache, ForgettableBlocks DEF Read
    <2>3. CASE CpGet(e.num, e.pos).err # "OK"
      BY <2>1, <2>3, UsedCache DEF Read
    <2>4. QED
      BY <2>2, <2>3
  <1>5. Caches(GoodBlocks)' = Caches(GoodBlocks)
    BY <1>1 DEF GoodBlocks, Block, Caches
  <1>6. QED
    BY <1>2, <1>4, <1>5 DEF CacheInv

\* save_post puts what it wrote.
LEMMA OthersInv ==
  ASSUME CacheInv, Others
  PROVE  CacheInv'
  <1>1. CrashInv /\ CrashInv' /\ TypeOK /\ TypeOK' /\ Serve
    BY ServeInv DEF CacheInv, Others, CrashInv
  <1>2. PICK G : G = GoodBlocks'
    OBVIOUS
  <1>3. cache \in Caches(G) /\ Forgettable(G)
    <2>1. cache \in Caches(GoodBlocks) /\ GoodBlocks \subseteq G
      BY <1>1, <1>2, GoodBlocksStay DEF CacheInv
    <2>2. ASSUME NEW b \in G
          PROVE  [b EXCEPT !.found = FALSE] \in G
      BY <1>2, <2>2 DEF GoodBlocks, Block
    <2>3. QED
      BY <2>1, <2>2, CachesMonotone DEF Forgettable
  <1>4. ASSUME NEW e \in entries' \ entries, NEW found \in BOOLEAN
        PROVE  [num |-> e.num, pos |-> e.pos, text |-> e.text, found |-> found] \in G
    <2>1. e.num \in Nat /\ e.pos \in Nat /\ e.text \in Texts
      <3>1. e \in Entry' /\ size' = size /\ size \in Nat
        BY <1>1, CommandsNumber, SizesAndLengths DEF TypeOK, Serve
      <3>2. QED
        BY <3>1 DEF Entry
    <2>2. e \in Known' /\ entries' \ ahead' \subseteq Known'
      BY <1>1, ServeKnown DEF Known, Arrived
    <2>3. e.num <= highest' /\ \A f \in entries' \ ahead' : f.num = e.num => e = f
      BY <1>1, <2>2 DEF CrashInv, KnownKept, Numbered
    <2>4. QED
      BY <1>2, <2>1, <2>3 DEF GoodBlocks, Block
  <1>5. cache' \in Caches(G)
    BY <1>3, <1>4, CpPutCache DEF Others
  <1>6. QED
    BY <1>1, <1>2, <1>5 DEF CacheInv, Caches

LEMMA CacheNextInv == CacheInv /\ [CacheNext]_cacheVars => CacheInv'
  <1> SUFFICES ASSUME CacheInv, [CacheNext]_cacheVars PROVE CacheInv'
    OBVIOUS
  <1>1. ASSUME NEW e \in entries, Read(e) PROVE CacheInv'
    BY <1>1, ReadInv
  <1>2. CASE Others
    BY <1>2, OthersInv
  <1>3. CASE /\ MailSave \/ RoomSaveData \/ FmSaveData \/ UNCHANGED crashVars
             /\ UNCHANGED cache
    <2>1. CrashInv'
      BY <1>3, SavesInv DEF CacheInv
    <2>2. UNCHANGED << entries, highest, ahead, cache >>
      BY <1>3 DEF MailSave, RoomSaveData, FmSaveData, crashVars, vars, fmVars
    <2>3. Caches(GoodBlocks)' = Caches(GoodBlocks)
      BY <2>2 DEF Caches, GoodBlocks, Block
    <2>4. QED
      BY <2>1, <2>2, <2>3 DEF CacheInv
  <1>4. CASE CrashRestart /\ cache' = EmptyCache
    <2>1. CrashInv'
      BY <1>4, RestartInv DEF CacheInv
    <2>2. \A B : EmptyCache \in Caches(B)
      BY DEF EmptyCache, Caches
    <2>3. QED
      BY <1>4, <2>1, <2>2 DEF CacheInv, Caches
  <1>5. QED
    BY <1>1, <1>2, <1>3, <1>4 DEF CacheNext, cacheVars

LEMMA CacheInitInv == CacheInit => CacheInv
  <1> SUFFICES ASSUME CacheInit PROVE CacheInv
    OBVIOUS
  <1>1. CrashInv
    BY CrashInitInv DEF CacheInit
  <1>2. \A B : cache \in Caches(B)
    BY DEF CacheInit, EmptyCache, Caches
  <1>3. QED
    BY <1>1, <1>2 DEF CacheInv

\* The invariant of file and cache together.
THEOREM CacheInvariant == CacheSpec => []CacheInv
  BY CacheInitInv, CacheNextInv, PTL DEF CacheSpec

\* Whatever the file, the lists, the cache and the saves went through, cp_get
\* answers with the text written under the number asked for or with an error,
\* and hands out no freed memory; for the posts that the description knew after
\* a crash, and the second for all.
THEOREM CachedYieldOwn == CacheSpec => []CachedOwn
  <1>1. CacheInv => CachedOwn
    BY CpGetAnswer DEF CachedOwn
  <1>2. QED
    BY <1>1, CacheInvariant, PTL

\* The message file behind the cache does what it does without one.
LEMMA CacheTransparent == CacheSpec => CrashSpec
  <1>1. CacheInit => CrashInit
    BY DEF CacheInit
  <1>2. [CacheNext]_cacheVars => [CrashNext]_crashVars
    BY DEF CacheNext, CrashNext, Read, Others, cacheVars
  <1>3. QED
    BY <1>1, <1>2, PTL DEF CacheSpec, CrashSpec

\* So the numbers are as unique in front of the cache, which would take the one
\* post for the other (cp_get goes by number and position).
COROLLARY NumbersStayUniqueCached == CacheSpec => []NumbersNotReused
  BY CacheTransparent, NumbersStayUnique, PTL
=============================================================================
