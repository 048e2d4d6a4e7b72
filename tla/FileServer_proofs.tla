-------------------------- MODULE FileServer_proofs --------------------------
(***************************************************************************)
(* Proofs about the file server, for any users, sizes, limits, lengths of  *)
(* the arrays and of the rooms, and any mix of commands.                   *)
(***************************************************************************)
EXTENDS FileServer, SequenceTheorems, FiniteSetTheorems, WellFoundedInduction, TLAPS

-----------------------------------------------------------------------------
(***************************************************************************)
(* What the states are made of.                                            *)
(***************************************************************************)
Slot    == 0 .. Allocated - 1
Entry   == [filenum : Nat, size : Int, user : Int, msgnum : Int, copies : Int,
            purpose : Int, late : BOOLEAN]
Stat    == [user : Int, totbytes : Int, numfiles : Int]
Booking == [user : Users, filenum : Nat \ {0}, size : Int, purpose : Int]
Server  == [lastnum : Nat, totbytes : Int,
            num : 0 .. Allocated, entries : [Slot -> Entry],
            unum : 0 .. Allocated, ustats : [Slot -> Stat],
            books : Seq(Booking), idirty : BOOLEAN, udirty : BOOLEAN]

\* The numbers of the files grow with the slots, and lastnum is not below them.
Increasing(f) ==
  /\ \A i, j \in 0 .. f.num - 1 :
       i < j => f.entries[i].filenum < f.entries[j].filenum
  /\ \A i \in 0 .. f.num - 1 : f.entries[i].filenum <= f.lastnum

\* No other booking, and no file, has the number of a booking; lastnum is not
\* below it.
Apart(f) ==
  \A k \in DOMAIN f.books :
    /\ f.books[k].filenum <= f.lastnum
    /\ \A i \in 0 .. f.num - 1 : f.entries[i].filenum # f.books[k].filenum
    /\ \A l \in DOMAIN f.books : l # k => f.books[l].filenum # f.books[k].filenum

Numbered(f) == Increasing(f) /\ Apart(f)

BookSet(f) == { f.books[k] : k \in DOMAIN f.books }
Known(f, u) == \E i \in 0 .. f.unum - 1 : f.ustats[i].user = u

\* g has the files, or the users, that f has; if the index was dirty it still is.
Dirty(f) == f.idirty = TRUE
SameIndex(f, g) == g.num = f.num /\ g.entries = f.entries
StillDirty(f, g) == Dirty(f) => Dirty(g)
SameFiles(f, g) == /\ g.num = f.num /\ g.entries = f.entries
                   /\ StillDirty(f, g)
SameUsers(f, g) == /\ g.unum = f.unum
                   /\ \A i \in Slot : g.ustats[i].user = f.ustats[i].user

-----------------------------------------------------------------------------
(***************************************************************************)
(* Arithmetic, loops and sequences.                                        *)
(***************************************************************************)

\* A set of natural numbers has a least element.
LEMMA LeastOf ==
  ASSUME NEW S \in SUBSET Nat, S # {}
  PROVE  Min(S) \in S /\ \A n \in S : Min(S) <= n
  <1>1. PICK m \in S : \A n \in S : <<n, m>> \notin OpToRel(<, Nat)
    BY NatLessThanWellFounded, WFMin
  <1>2. \A n \in S : ~ (n < m)
    BY <1>1 DEF OpToRel
  <1>3. \A n \in S : m <= n
    BY <1>2
  <1>4. QED
    BY <1>3 DEF Min

\* What holds before a loop and is kept by each of its N steps holds after it.
LEMMA LoopInduction ==
  ASSUME NEW N \in Nat, NEW P, 0 \in P, \A i \in 1 .. N : i - 1 \in P => i \in P
  PROVE  \A i \in 0 .. N : i \in P
  <1> DEFINE S == { i \in 0 .. N : i \notin P }
  <1>1. SUFFICES ASSUME S # {} PROVE FALSE
    OBVIOUS
  <1>2. S \in SUBSET Nat
    OBVIOUS
  <1> HIDE DEF S
  <1>5. PICK m \in S : \A n \in S : m <= n
    BY <1>1, <1>2, LeastOf
  <1> USE DEF S
  <1>3. m \in 1 .. N /\ m - 1 \in 0 .. N /\ m - 1 \notin S
    BY <1>5
  <1>4. QED
    BY <1>3

\* A loop of n steps that starts with f: d is what it passes through, which is
\* in T[i] after step i.
Passes(d, f, step, n) == d = [i \in 0 .. n |-> IF i = 0 THEN f ELSE step[i][d[i - 1]]]
Within(d, T, n)       == \A i \in 0 .. n : d[i] \in T[i]

\* Step i leads from T[i - 1] into T[i].
Leads(step, T, n) == \A i \in 1 .. n : \A g \in T[i - 1] : step[i][g] \in T[i]

\* A loop that starts in T[0] and whose steps lead from one T[i] to the next
\* passes through them.
LEMMA LoopExists ==
  ASSUME NEW N \in Nat, NEW T, NEW step, NEW f \in T[0], Leads(step, T, N)
  PROVE  \E d : Passes(d, f, step, N) /\ Within(d, T, N)
  <1> USE DEF Passes, Within, Leads
  <1> DEFINE Is(d, n) == /\ d = [i \in 0 .. n |-> IF i = 0 THEN f ELSE step[i][d[i - 1]]]
                         /\ \A i \in 0 .. n : d[i] \in T[i]
             P == { n \in 0 .. N : \E x : Is(x, n) }
  <1>1. 0 \in P
    <2> DEFINE d == [i \in 0 .. 0 |-> f]
    <2>1. Is(d, 0)
      OBVIOUS
    <2> HIDE DEF d, Is
    <2>2. QED
      BY <2>1
  <1>2. ASSUME NEW n \in 1 .. N, n - 1 \in P
        PROVE  n \in P
    <2>1. PICK d : Is(d, n - 1)
      BY <1>2
    <2> DEFINE e == [i \in 0 .. n |-> IF i = n THEN step[n][d[n - 1]] ELSE d[i]]
    <2>2. \A i \in 0 .. n - 1 : e[i] = d[i]
      OBVIOUS
    <2>3. e[n] = step[n][e[n - 1]]
      BY <2>2
    <2>4. \A i \in 0 .. n : e[i] = IF i = 0 THEN f ELSE step[i][e[i - 1]]
      <3>1. TAKE i \in 0 .. n
      <3>2. CASE i = n
        BY <2>3, <3>2
      <3>3. CASE i # n
        <4>1. i \in 0 .. n - 1 /\ e[i] = d[i]
          BY <2>2, <3>3
        <4>2. d[i] = IF i = 0 THEN f ELSE step[i][d[i - 1]]
          BY <2>1, <4>1
        <4>3. CASE i = 0
          BY <4>1, <4>2, <4>3
        <4>4. CASE i # 0
          <5>1. i - 1 \in 0 .. n - 1
            BY <4>1, <4>4
          <5>2. e[i - 1] = d[i - 1]
            BY <2>2, <5>1
          <5>3. QED
            BY <4>1, <4>2, <4>4, <5>2
        <4>5. QED
          BY <4>3, <4>4
      <3>4. QED
        BY <3>2, <3>3
    <2>5. \A i \in 0 .. n : e[i] \in T[i]
      <3>1. d[n - 1] \in T[n - 1]
        BY <2>1
      <3>2. step[n][d[n - 1]] \in T[n]
        BY <3>1
      <3>3. QED
        BY <2>1, <3>2
    <2>6. Is(e, n)
      BY <2>4, <2>5
    <2> HIDE DEF e, Is
    <2>7. QED
      BY <2>6
  <1> HIDE DEF P
  <1>3. \A i \in 0 .. N : i \in P
    BY <1>1, <1>2, LoopInduction
  <1>4. N \in P
    BY <1>3
  <1>5. QED
    BY <1>4 DEF P

\* A sequence without its element k.
LEMMA RemoveAtProps ==
  ASSUME NEW S, NEW s \in Seq(S), NEW k \in DOMAIN s, NEW t, t = RemoveAt(s, k)
  PROVE  /\ t \in Seq(S)
         /\ DOMAIN t = 1 .. Len(s) - 1
         /\ \A j \in DOMAIN t : t[j] = IF j < k THEN s[j] ELSE s[j + 1]
  <1>1. Len(s) \in Nat /\ k \in 1 .. Len(s)
    BY LenProperties
  <1> DEFINE a == SubSeq(s, 1, k - 1)
             b == SubSeq(s, k + 1, Len(s))
  <1>2. a \in Seq(S) /\ Len(a) = k - 1 /\ \A j \in 1 .. k - 1 : a[j] = s[j]
    BY <1>1, SubSeqProperties
  <1>3. b \in Seq(S) /\ Len(b) = Len(s) - k /\ \A j \in 1 .. Len(s) - k : b[j] = s[k + j]
    BY <1>1, SubSeqProperties
  <1> HIDE DEF a, b
  <1>4. t = a \o b
    BY DEF RemoveAt, a, b
  <1>5. /\ t \in Seq(S)
        /\ Len(t) = Len(a) + Len(b)
        /\ \A j \in 1 .. Len(a) : t[j] = a[j]
        /\ \A j \in Len(a) + 1 .. Len(a) + Len(b) : t[j] = b[j - Len(a)]
    BY <1>2, <1>3, <1>4, ConcatProperties
  <1>6. Len(t) = Len(s) - 1 /\ DOMAIN t = 1 .. Len(s) - 1
    BY <1>1, <1>2, <1>3, <1>5, LenProperties
  <1>7. ASSUME NEW j \in DOMAIN t
        PROVE  t[j] = IF j < k THEN s[j] ELSE s[j + 1]
    <2>1. j \in 1 .. Len(s) - 1
      BY <1>6
    <2>2. CASE j < k
      <3>1. j \in 1 .. k - 1 /\ j \in 1 .. Len(a)
        BY <1>1, <1>2, <2>1, <2>2
      <3>2. QED
        BY <1>2, <1>5, <2>2, <3>1
    <2>3. CASE ~ (j < k)
      <3>1. j - Len(a) \in 1 .. Len(s) - k /\ j \in Len(a) + 1 .. Len(a) + Len(b)
        BY <1>1, <1>2, <1>3, <2>1, <2>3
      <3>2. t[j] = b[j - Len(a)]
        BY <1>5, <3>1
      <3>3. k + (j - Len(a)) = j + 1
        BY <1>1, <1>2, <2>1
      <3>4. QED
        BY <1>3, <2>3, <3>1, <3>2, <3>3
    <2>4. QED
      BY <2>2, <2>3
  <1>8. QED
    BY <1>5, <1>6, <1>7

-----------------------------------------------------------------------------
(***************************************************************************)
(* The arrays.                                                             *)
(***************************************************************************)

\* To move no bytes leaves an array as it is.
LEMMA MovedNothing ==
  ASSUME NEW V, NEW a \in [Slot -> V], NEW to \in Nat, NEW from
  PROVE  Moved(a, to, from, 0) = a
  <1>1. (0 + LongSize - 1) \div LongSize = 0
    BY NumbersAssumption
  <1>2. \A k \in Slot : k \notin to .. to + 0 - 1
    BY NumbersAssumption DEF Slot
  <1>3. QED
    BY <1>1, <1>2 DEF Moved

\* The fields of a server.
LEMMA ServerFields ==
  ASSUME NEW f \in Server
  PROVE  /\ f.lastnum \in Nat /\ f.totbytes \in Int
         /\ f.num \in 0 .. Allocated /\ f.entries \in [Slot -> Entry]
         /\ f.unum \in 0 .. Allocated /\ f.ustats \in [Slot -> Stat]
         /\ f.books \in Seq(Booking) /\ f.idirty \in BOOLEAN /\ f.udirty \in BOOLEAN
         /\ f = [lastnum |-> f.lastnum, totbytes |-> f.totbytes, num |-> f.num,
                 entries |-> f.entries, unum |-> f.unum, ustats |-> f.ustats,
                 books |-> f.books, idirty |-> f.idirty, udirty |-> f.udirty]
  BY DEF Server

\* The files that are there.
LEMMA EntryFound ==
  ASSUME NEW f \in Server, NEW i \in 0 .. f.num - 1
  PROVE  /\ i \in Slot /\ f.entries[i] \in Entry
         /\ f.entries[i].filenum \in Nat /\ f.entries[i].copies \in Int
         /\ f.entries[i].msgnum \in Int
  <1>1. i \in Slot
    BY ServerFields, NumbersAssumption DEF Slot
  <1>2. QED
    BY <1>1, ServerFields DEF Entry

\* The bookings.
LEMMA BookFound ==
  ASSUME NEW f \in Server, NEW k \in DOMAIN f.books
  PROVE  /\ f.books[k] \in Booking
         /\ f.books[k].filenum \in Nat /\ f.books[k].user \in Users
         /\ f.books[k].purpose \in Int /\ f.books[k].size \in Int
  <1>1. f.books[k] \in Booking
    BY ServerFields, LenProperties
  <1>2. QED
    BY <1>1 DEF Booking

\* fs_find_user finds a slot of the user, if there is one.
LEMMA FindUserIs ==
  ASSUME NEW f \in Server, NEW u
  PROVE  /\ Known(f, u) => /\ FindUser(f, u) \in 0 .. f.unum - 1
                           /\ FindUser(f, u) \in Slot
                           /\ f.ustats[FindUser(f, u)].user = u
         /\ ~ Known(f, u) => FindUser(f, u) = -1
  <1> DEFINE S == { i \in 0 .. f.unum - 1 : f.ustats[i].user = u }
  <1>1. f.unum \in 0 .. Allocated
    BY DEF Server
  <1>2. S \in SUBSET Nat
    BY <1>1, NumbersAssumption
  <1>3. FindUser(f, u) = IF S = {} THEN -1 ELSE Min(S)
    BY DEF FindUser, Found
  <1>4. CASE S = {}
    BY <1>3, <1>4 DEF Known
  <1>5. CASE S # {}
    <2> HIDE DEF S
    <2>1. Min(S) \in S
      BY <1>2, <1>5, LeastOf
    <2>2. FindUser(f, u) \in 0 .. f.unum - 1 /\ f.ustats[FindUser(f, u)].user = u
      BY <1>3, <1>5, <2>1 DEF S
    <2>3. QED
      BY <1>1, <2>2, NumbersAssumption DEF Known, Slot
  <1>6. QED
    BY <1>4, <1>5

\* The accounts change, nothing else.
LEMMA ChargedKeeps ==
  ASSUME NEW f \in Server, NEW i \in {-1} \cup Slot, NEW size \in Int, NEW files \in Int,
         NEW g, g = Charged(f, i, size, files)
  PROVE  /\ g \in Server /\ Dirty(g)
         /\ SameFiles(f, g) /\ SameUsers(f, g)
         /\ g.books = f.books /\ g.lastnum = f.lastnum
  <1> DEFINE stats == IF i < 0 THEN f.ustats ELSE Billed(f.ustats, i, size, files)
  <1>1. f.ustats \in [Slot -> Stat]
    BY DEF Server
  <1>2. /\ stats \in [Slot -> Stat]
        /\ \A j \in Slot : stats[j].user = f.ustats[j].user
    <2>1. CASE i = -1
      BY <1>1, <2>1
    <2>2. CASE i \in Slot
      <3>1. f.ustats[i] \in Stat
        BY <1>1, <2>2
      <3>2. ~ (i < 0)
        BY <2>2, NumbersAssumption DEF Slot
      <3>3. QED
        BY <1>1, <2>2, <3>1, <3>2 DEF Billed, Stat
    <2>3. QED
      BY <2>1, <2>2
  <1> HIDE DEF stats
  <1>3. g = [f EXCEPT !.totbytes = @ + size, !.idirty = TRUE, !.udirty = TRUE,
                      !.ustats = stats]
    BY DEF Charged, stats
  <1>4. g = [lastnum |-> f.lastnum, totbytes |-> f.totbytes + size, num |-> f.num,
             entries |-> f.entries, unum |-> f.unum, ustats |-> stats,
             books |-> f.books, idirty |-> TRUE, udirty |-> TRUE]
    BY <1>3 DEF Server
  <1>5. QED
    BY <1>2, <1>4, ServerFields DEF Server, SameFiles, SameUsers, Dirty, StillDirty

-----------------------------------------------------------------------------
(***************************************************************************)
(* Sums of sizes.  MapThenSumSet takes the elements of a set in an order   *)
(* of its own; the lemmas say that no order matters.                       *)
(***************************************************************************)
Total(S) == MapThenSumSet(SizeOf, S)
Picked(s) == CHOOSE x \in s : TRUE

\* The sums of the subsets of S that are in D.
Sums(d, D) == d = [s \in D |-> IF s = {} THEN 0 ELSE Picked(s).size + d[s \ {Picked(s)}]]

Sized(S) == IsFiniteSet(S) /\ \A e \in S : e.size \in Int

\* The same number of things on both sides of a pairing.
LEMMA SameNumber ==
  ASSUME NEW S, IsFiniteSet(S), NEW T, NEW h \in [S -> T],
         \A s, t \in S : h[s] = h[t] => s = t,
         \A t \in T : \E s \in S : h[s] = t
  PROVE  Cardinality(T) = Cardinality(S)
  <1>1. h \in Bijection(S, T)
    BY DEF Bijection, Injection, Surjection, IsInjective
  <1>2. ExistsBijection(S, T)
    BY <1>1 DEF ExistsBijection
  <1>3. QED
    BY <1>2, FS_Bijection

LEMMA PickedIn ==
  ASSUME NEW s, s # {}
  PROVE  Picked(s) \in s
  BY DEF Picked

\* A set without an element has one less.
LEMMA OneLess ==
  ASSUME NEW S, IsFiniteSet(S), NEW x \in S, NEW n \in Nat, Cardinality(S) <= n
  PROVE  /\ IsFiniteSet(S \ {x})
         /\ Cardinality(S) \in Nat /\ Cardinality(S) # 0
         /\ n # 0 /\ Cardinality(S \ {x}) <= n - 1
  <1>1. /\ IsFiniteSet(S \ {x})
        /\ Cardinality(S \ {x}) = Cardinality(S) - 1
    BY FS_RemoveElement
  <1>2. Cardinality(S) \in Nat /\ Cardinality(S) # 0 /\ Cardinality(S \ {x}) \in Nat
    BY <1>1, FS_CardinalityType, FS_EmptySet
  <1>3. QED
    BY <1>1, <1>2

\* The sums of the subsets of a finite set.
LEMMA SumsExist ==
  ASSUME NEW S, IsFiniteSet(S)
  PROVE  \E d : Sums(d, SUBSET S)
  <1> DEFINE N == Cardinality(S)
             Few(n) == { s \in SUBSET S : Cardinality(s) <= n }
             P == { n \in 0 .. N : \E d : Sums(d, Few(n)) }
  <1>1. N \in Nat
    BY FS_CardinalityType
  <1>2. \A s \in SUBSET S : IsFiniteSet(s) /\ Cardinality(s) \in Nat /\ Cardinality(s) <= N
    BY FS_Subset, FS_CardinalityType
  <1>3. 0 \in P
    <2> DEFINE d == [s \in Few(0) |-> 0]
    <2>1. \A s \in Few(0) : s = {}
      BY <1>2, FS_EmptySet
    <2>2. Sums(d, Few(0))
      BY <2>1 DEF Sums
    <2> HIDE DEF d, Few
    <2>3. QED
      BY <1>1, <2>2
  <1>4. ASSUME NEW n \in 1 .. N, n - 1 \in P
        PROVE  n \in P
    <2>1. PICK d : Sums(d, Few(n - 1))
      BY <1>4
    <2> DEFINE e == [s \in Few(n) |-> IF s \in Few(n - 1) THEN d[s]
                                      ELSE Picked(s).size + d[s \ {Picked(s)}]]
    <2>2. ASSUME NEW s \in Few(n), s # {}
          PROVE  s \ {Picked(s)} \in Few(n - 1) /\ s \ {Picked(s)} \in Few(n)
      <3>1. Picked(s) \in s /\ s \in SUBSET S /\ n \in Nat
        BY <2>2, PickedIn
      <3>2. Cardinality(s \ {Picked(s)}) <= n - 1
        BY <1>2, <3>1, OneLess
      <3>3. s \ {Picked(s)} \in SUBSET S /\ Cardinality(s \ {Picked(s)}) \in Nat
        BY <1>2, <3>1
      <3>4. QED
        BY <3>1, <3>2, <3>3
    <2>3. {} \in Few(n - 1)
      <3>1. Cardinality({}) = 0
        BY FS_EmptySet
      <3>2. QED
        BY <1>1, <3>1
    <2>4. ASSUME NEW s \in Few(n)
          PROVE  e[s] = IF s = {} THEN 0 ELSE Picked(s).size + e[s \ {Picked(s)}]
      <3>1. CASE s = {}
        BY <2>1, <2>3, <3>1 DEF Sums
      <3>2. CASE s # {}
        <4>1. PICK r : r = s \ {Picked(s)}
          OBVIOUS
        <4>2. r \in Few(n - 1) /\ r \in Few(n)
          BY <2>2, <3>2, <4>1
        <4>3. e[r] = d[r]
          BY <4>2
        <4>4. s \in Few(n - 1) => d[s] = Picked(s).size + d[r]
          BY <2>1, <3>2, <4>1 DEF Sums
        <4>5. e[s] = Picked(s).size + d[r]
          BY <4>1, <4>4
        <4>6. QED
          BY <3>2, <4>1, <4>3, <4>5
      <3>3. QED
        BY <3>1, <3>2
    <2>5. Sums(e, Few(n))
      BY <2>4 DEF Sums
    <2> HIDE DEF e, Few
    <2>6. QED
      BY <2>5
  <1>5. Few(N) = SUBSET S
    BY <1>2
  <1> HIDE DEF P
  <1>6. \A n \in 0 .. N : n \in P
    BY <1>1, <1>3, <1>4, LoopInduction
  <1>7. N \in P
    BY <1>1, <1>6
  <1> HIDE DEF Few
  <1>8. QED
    BY <1>5, <1>7 DEF P

\* The sum of a set does not depend on the set whose subset it is.
LEMMA SumsAgree ==
  ASSUME NEW S, NEW R, NEW d, NEW e, Sums(d, SUBSET S), Sums(e, SUBSET R),
         NEW T \in SUBSET (S \cap R), IsFiniteSet(T)
  PROVE  d[T] = e[T]
  <1> DEFINE N == Cardinality(T)
             P == { n \in 0 .. N : \A s \in SUBSET T : Cardinality(s) <= n => d[s] = e[s] }
  <1>1. N \in Nat
    BY FS_CardinalityType
  <1>2. \A s \in SUBSET T : IsFiniteSet(s) /\ Cardinality(s) \in Nat /\ Cardinality(s) <= N
    BY FS_Subset, FS_CardinalityType
  <1>3. ASSUME NEW s \in SUBSET T
        PROVE  /\ d[s] = IF s = {} THEN 0 ELSE Picked(s).size + d[s \ {Picked(s)}]
               /\ e[s] = IF s = {} THEN 0 ELSE Picked(s).size + e[s \ {Picked(s)}]
    BY DEF Sums
  <1>4. 0 \in P
    <2>1. ASSUME NEW s \in SUBSET T, Cardinality(s) <= 0
          PROVE  d[s] = e[s]
      <3>1. s = {}
        BY <1>2, <2>1, FS_EmptySet
      <3>2. QED
        BY <1>3, <3>1
    <2>2. QED
      BY <1>1, <2>1
  <1>5. ASSUME NEW n \in 1 .. N, n - 1 \in P
        PROVE  n \in P
    <2>1. ASSUME NEW s \in SUBSET T, Cardinality(s) <= n
          PROVE  d[s] = e[s]
      <3>1. CASE s = {}
        BY <1>3, <3>1
      <3>2. CASE s # {}
        <4>1. PICK r : r = s \ {Picked(s)}
          OBVIOUS
        <4>2. Picked(s) \in s /\ n \in Nat
          BY <3>2, PickedIn
        <4>3. Cardinality(r) <= n - 1 /\ r \in SUBSET T
          BY <1>2, <2>1, <4>1, <4>2, OneLess
        <4>4. d[r] = e[r]
          BY <1>5, <4>3
        <4>5. QED
          BY <1>3, <3>2, <4>1, <4>4
      <3>3. QED
        BY <3>1, <3>2
    <2>2. QED
      BY <1>1, <2>1
  <1> HIDE DEF P
  <1>6. \A n \in 0 .. N : n \in P
    BY <1>1, <1>4, <1>5, LoopInduction
  <1>7. N \in P
    BY <1>1, <1>6
  <1>8. T \in SUBSET T /\ Cardinality(T) <= N
    BY <1>1
  <1>9. QED
    BY <1>7, <1>8 DEF P

\* The sum of a set is that of one element and the others.
LEMMA TotalPicked ==
  ASSUME NEW S, IsFiniteSet(S)
  PROVE  Total(S) = IF S = {} THEN 0 ELSE Picked(S).size + Total(S \ {Picked(S)})
  <1> DEFINE t(R) == CHOOSE d : Sums(d, SUBSET R)
  <1>1. \A R : Total(R) = t(R)[R]
    BY DEF Total, MapThenSumSet, MapThenFoldSet, SizeOf, Sums, Picked
  <1>2. \A R : IsFiniteSet(R) => Sums(t(R), SUBSET R)
    BY SumsExist
  <1> HIDE DEF t
  <1>3. t(S)[S] = IF S = {} THEN 0 ELSE Picked(S).size + t(S)[S \ {Picked(S)}]
    <2>1. Sums(t(S), SUBSET S) /\ S \in SUBSET S
      BY <1>2
    <2>2. QED
      BY <2>1 DEF Sums
  <1>4. PICK R : R = S \ {Picked(S)}
    OBVIOUS
  <1>5. IsFiniteSet(R) /\ R \in SUBSET (S \cap R)
    BY <1>4, FS_Subset
  <1>6. t(S)[R] = t(R)[R]
    <2>1. Sums(t(S), SUBSET S) /\ Sums(t(R), SUBSET R)
      BY <1>2, <1>5
    <2>2. QED
      BY <1>5, <2>1, SumsAgree
  <1>7. QED
    BY <1>1, <1>3, <1>4, <1>6

LEMMA TotalEmpty == Total({}) = 0
  <1>1. IsFiniteSet({})
    BY FS_EmptySet
  <1>2. QED
    BY <1>1, TotalPicked

\* Sums are numbers.
LEMMA TotalInt ==
  ASSUME NEW S, Sized(S)
  PROVE  Total(S) \in Int
  <1> DEFINE N == Cardinality(S)
             P == { n \in 0 .. N : \A s \in SUBSET S : Cardinality(s) <= n => Total(s) \in Int }
  <1>1. IsFiniteSet(S) /\ N \in Nat /\ \A e \in S : e.size \in Int
    BY FS_CardinalityType DEF Sized
  <1>2. \A s \in SUBSET S : IsFiniteSet(s) /\ Cardinality(s) \in Nat /\ Cardinality(s) <= N
    BY <1>1, FS_Subset, FS_CardinalityType
  <1>3. 0 \in P
    <2>1. ASSUME NEW s \in SUBSET S, Cardinality(s) <= 0
          PROVE  Total(s) \in Int
      <3>1. s = {}
        BY <1>2, <2>1, FS_EmptySet
      <3>2. QED
        BY <3>1, TotalEmpty
    <2>2. QED
      BY <1>1, <2>1
  <1>4. ASSUME NEW n \in 1 .. N, n - 1 \in P
        PROVE  n \in P
    <2>1. ASSUME NEW s \in SUBSET S, Cardinality(s) <= n
          PROVE  Total(s) \in Int
      <3>1. CASE s = {}
        BY <3>1, TotalEmpty
      <3>2. CASE s # {}
        <4>1. PICK r : r = s \ {Picked(s)}
          OBVIOUS
        <4>2. Picked(s) \in s /\ n \in Nat
          BY <3>2, PickedIn
        <4>3. Cardinality(r) <= n - 1 /\ r \in SUBSET S
          BY <1>2, <2>1, <4>1, <4>2, OneLess
        <4>4. Total(r) \in Int /\ Picked(s).size \in Int
          BY <1>1, <1>4, <4>2, <4>3
        <4>5. Total(s) = Picked(s).size + Total(r)
          BY <1>2, <3>2, <4>1, TotalPicked
        <4>6. QED
          BY <4>4, <4>5
      <3>3. QED
        BY <3>1, <3>2
    <2>2. QED
      BY <1>1, <2>1
  <1> HIDE DEF P
  <1>5. \A n \in 0 .. N : n \in P
    BY <1>1, <1>3, <1>4, LoopInduction
  <1>6. N \in P
    BY <1>1, <1>5
  <1>7. S \in SUBSET S /\ Cardinality(S) <= N
    BY <1>1
  <1>8. QED
    BY <1>6, <1>7 DEF P

\* Any element may be taken out of a sum.
LEMMA TotalWithout ==
  ASSUME NEW S, Sized(S), NEW x \in S
  PROVE  Total(S) = x.size + Total(S \ {x})
  <1> DEFINE N == Cardinality(S)
             P == { n \in 0 .. N : \A s \in SUBSET S : Cardinality(s) <= n =>
                                     \A y \in s : Total(s) = y.size + Total(s \ {y}) }
  <1>1. IsFiniteSet(S) /\ N \in Nat /\ \A e \in S : e.size \in Int
    BY FS_CardinalityType DEF Sized
  <1>2. \A s \in SUBSET S : IsFiniteSet(s) /\ Cardinality(s) \in Nat /\ Cardinality(s) <= N
    BY <1>1, FS_Subset, FS_CardinalityType
  <1>3. \A s \in SUBSET S : Total(s) \in Int
    BY <1>1, <1>2, TotalInt DEF Sized
  <1>4. 0 \in P
    <2>1. \A s \in SUBSET S : Cardinality(s) <= 0 => s = {}
      BY <1>2, FS_EmptySet
    <2>2. QED
      BY <1>1, <2>1
  <1>5. ASSUME NEW n \in 1 .. N, n - 1 \in P
        PROVE  n \in P
    <2>1. ASSUME NEW s \in SUBSET S, Cardinality(s) <= n, NEW y \in s
          PROVE  Total(s) = y.size + Total(s \ {y})
      <3>1. PICK z : z = Picked(s)
        OBVIOUS
      <3>2. z \in s /\ n \in Nat /\ y.size \in Int /\ z.size \in Int
        BY <1>1, <3>1, PickedIn
      <3>3. PICK r, t, q : r = s \ {z} /\ t = s \ {y} /\ q = (s \ {z}) \ {y}
        OBVIOUS
      <3>4. Total(s) = z.size + Total(r)
        BY <1>2, <3>1, <3>2, <3>3, TotalPicked
      <3>5. CASE y = z
        BY <3>3, <3>4, <3>5
      <3>6. CASE y # z
        <4>1. y \in r /\ z \in t /\ q = r \ {y} /\ q = t \ {z}
          BY <3>2, <3>3, <3>6
        <4>2. Cardinality(r) <= n - 1 /\ Cardinality(t) <= n - 1
          BY <1>2, <2>1, <3>2, <3>3, OneLess
        <4>3. r \in SUBSET S /\ t \in SUBSET S /\ q \in SUBSET S
          BY <3>3
        <4>4. Total(r) = y.size + Total(q) /\ Total(t) = z.size + Total(q)
          BY <1>5, <4>1, <4>2, <4>3
        <4>5. Total(q) \in Int
          BY <1>3, <4>3
        <4>6. QED
          BY <3>2, <3>3, <3>4, <4>4, <4>5
      <3>7. QED
        BY <3>5, <3>6
    <2>2. QED
      BY <1>1, <2>1
  <1> HIDE DEF P
  <1>6. \A n \in 0 .. N : n \in P
    BY <1>1, <1>4, <1>5, LoopInduction
  <1>7. N \in P
    BY <1>1, <1>6
  <1>8. S \in SUBSET S /\ Cardinality(S) <= N
    BY <1>1
  <1>9. QED
    BY <1>7, <1>8 DEF P

\* One more element.
LEMMA TotalWith ==
  ASSUME NEW S, Sized(S), NEW x, x \notin S, x.size \in Int
  PROVE  Sized(S \cup {x}) /\ Total(S \cup {x}) = x.size + Total(S)
  <1>1. PICK R : R = S \cup {x}
    OBVIOUS
  <1>2. Sized(R)
    BY <1>1, FS_AddElement DEF Sized
  <1>3. Total(R) = x.size + Total(R \ {x})
    BY <1>1, <1>2, TotalWithout
  <1>4. R \ {x} = S
    BY <1>1
  <1>5. QED
    BY <1>1, <1>2, <1>3, <1>4

\* h renames what is in S to what is in T, whose sizes are the same.
Renames(h, S, T) ==
  /\ h \in [S -> T]
  /\ \A x, y \in S : h[x] = h[y] => x = y
  /\ \A y \in T : \E x \in S : h[x] = y
  /\ \A x \in S : h[x].size = x.size

LEMMA TotalRenamed ==
  ASSUME NEW S, NEW T, NEW h, Renames(h, S, T), Sized(S)
  PROVE  Sized(T) /\ Total(T) = Total(S) /\ Cardinality(T) = Cardinality(S)
  <1> DEFINE N == Cardinality(S)
             Image(s) == { h[x] : x \in s }
             P == { n \in 0 .. N : \A s \in SUBSET S : Cardinality(s) <= n =>
                                     Total(Image(s)) = Total(s) }
  <1>1. IsFiniteSet(S) /\ N \in Nat /\ \A e \in S : e.size \in Int
    BY FS_CardinalityType DEF Sized
  <1>2. \A s \in SUBSET S : IsFiniteSet(s) /\ Cardinality(s) \in Nat /\ Cardinality(s) <= N
    BY <1>1, FS_Subset, FS_CardinalityType
  <1>3. /\ h \in [S -> T]
        /\ \A x, y \in S : h[x] = h[y] => x = y
        /\ \A y \in T : \E x \in S : h[x] = y
        /\ \A x \in S : h[x].size = x.size
    BY DEF Renames
  <1>4. Cardinality(T) = Cardinality(S) /\ IsFiniteSet(T)
    <2>1. Cardinality(T) = Cardinality(S)
      BY <1>1, <1>3, SameNumber
    <2>2. IsFiniteSet(T)
      <3>1. h \in Surjection(S, T)
        BY <1>3 DEF Surjection
      <3>2. QED
        BY <1>1, <3>1, FS_Surjection
    <2>3. QED
      BY <2>1, <2>2
  <1>5. Sized(T)
    BY <1>1, <1>3, <1>4 DEF Sized
  <1>6. \A s \in SUBSET T : Sized(s)
    BY <1>4, <1>5, FS_Subset DEF Sized
  <1>7. 0 \in P
    <2>1. ASSUME NEW s \in SUBSET S, Cardinality(s) <= 0
          PROVE  Total(Image(s)) = Total(s)
      <3>1. s = {}
        BY <1>2, <2>1, FS_EmptySet
      <3>2. Image(s) = {}
        BY <3>1
      <3>3. QED
        BY <3>1, <3>2
    <2>2. QED
      BY <1>1, <2>1
  <1>8. ASSUME NEW n \in 1 .. N, n - 1 \in P
        PROVE  n \in P
    <2>1. ASSUME NEW s \in SUBSET S, Cardinality(s) <= n
          PROVE  Total(Image(s)) = Total(s)
      <3>1. CASE s = {}
        <4>1. Image(s) = {}
          BY <3>1
        <4>2. QED
          BY <3>1, <4>1
      <3>2. CASE s # {}
        <4>1. PICK x : x \in s
          BY <3>2
        <4>2. PICK r : r = s \ {x}
          OBVIOUS
        <4>3. Cardinality(r) <= n - 1 /\ r \in SUBSET S
          <5>1. n \in Nat
            OBVIOUS
          <5>2. QED
            BY <1>2, <2>1, <4>1, <4>2, <5>1, OneLess
        <4>4. Total(Image(r)) = Total(r)
          BY <1>8, <4>3
        <4>5. Image(r) = Image(s) \ {h[x]} /\ h[x] \in Image(s) /\ Image(s) \in SUBSET T
          BY <1>3, <4>1, <4>2
        <4> HIDE DEF Image
        <4>6. Total(Image(s)) = h[x].size + Total(Image(r))
          BY <1>6, <4>5, TotalWithout
        <4>7. Total(s) = x.size + Total(r)
          <5>1. Sized(s)
            BY <1>1, <1>2 DEF Sized
          <5>2. QED
            BY <4>1, <4>2, <5>1, TotalWithout
        <4>8. QED
          BY <1>3, <4>1, <4>4, <4>6, <4>7
      <3>3. QED
        BY <3>1, <3>2
    <2>2. QED
      BY <1>1, <2>1
  <1> HIDE DEF P
  <1>9. \A n \in 0 .. N : n \in P
    BY <1>1, <1>7, <1>8, LoopInduction
  <1>10. N \in P
    BY <1>1, <1>9
  <1>11. Image(S) = T
    BY <1>3
  <1>12. S \in SUBSET S /\ Cardinality(S) <= N
    BY <1>1
  <1>13. QED
    BY <1>4, <1>5, <1>10, <1>11, <1>12 DEF P

-----------------------------------------------------------------------------
(***************************************************************************)
(* Accounts.  What is held, files and bookings, is what is charged.        *)
(***************************************************************************)
Files(f) == { f.entries[i] : i \in 0 .. f.num - 1 }
Held(f)  == Files(f) \cup BookSet(f)
Of(H, u) == { e \in H : e.user = u }

OnePerUser(f) ==
  \A i, j \in 0 .. f.unum - 1 : f.ustats[i].user = f.ustats[j].user => i = j

\* Slot i of the users is charged what its user has in H.
Right(f, H, i) ==
  /\ f.ustats[i].totbytes = Total(Of(H, f.ustats[i].user))
  /\ f.ustats[i].numfiles = Cardinality(Of(H, f.ustats[i].user))

Balanced(f, H) ==
  /\ Sized(H) /\ f.totbytes = Total(H)
  /\ \A e \in H : Known(f, e.user)
  /\ OnePerUser(f)
  /\ \A i \in 0 .. f.unum - 1 : Right(f, H, i)

Fair(f) == Balanced(f, Held(f))
StaysFair(f, g) == Numbered(f) /\ Fair(f) => Fair(g)

SameAccounts(f, g) ==
  g.totbytes = f.totbytes /\ g.unum = f.unum /\ g.ustats = f.ustats

\* f and g differ in the account in slot i, H and K in what u has.
OthersSame(f, g, i) == \A j \in Slot : j # i => g.ustats[j] = f.ustats[j]
OthersHave(H, K, u) ==
  /\ \A e \in K : e \in H \/ e.user = u
  /\ \A v : v # u => Of(K, v) = Of(H, v)

LEMMA BalancedSame ==
  ASSUME NEW f, NEW g, SameAccounts(f, g), NEW H, Balanced(f, H)
  PROVE  Balanced(g, H)
  <1>1. g.totbytes = f.totbytes /\ g.unum = f.unum /\ g.ustats = f.ustats
    BY DEF SameAccounts
  <1>2. /\ Sized(H) /\ f.totbytes = Total(H)
        /\ \A e \in H : Known(f, e.user)
        /\ OnePerUser(f)
        /\ \A i \in 0 .. f.unum - 1 : Right(f, H, i)
    BY DEF Balanced
  <1>3. \A e \in H : Known(g, e.user)
    BY <1>1, <1>2 DEF Known
  <1>4. OnePerUser(g)
    BY <1>1, <1>2 DEF OnePerUser
  <1>5. \A i \in 0 .. g.unum - 1 : Right(g, H, i)
    BY <1>1, <1>2 DEF Right
  <1>6. QED
    BY <1>1, <1>2, <1>3, <1>4, <1>5 DEF Balanced

\* What a user has is a part of what is held.
LEMMA OfSized ==
  ASSUME NEW H, Sized(H), NEW u
  PROVE  /\ Sized(Of(H, u))
         /\ Total(Of(H, u)) \in Int /\ Cardinality(Of(H, u)) \in Nat
  <1>1. Of(H, u) \subseteq H
    BY DEF Of
  <1>2. Sized(Of(H, u)) /\ IsFiniteSet(Of(H, u))
    BY <1>1, FS_Subset DEF Sized
  <1>3. QED
    BY <1>2, TotalInt, FS_CardinalityType

\* fs_find_user finds the same slot when the users are the same.
LEMMA FindSame ==
  ASSUME NEW f \in Server, NEW g, SameUsers(f, g), NEW u
  PROVE  FindUser(g, u) = FindUser(f, u) /\ (Known(g, u) <=> Known(f, u))
  <1>1. g.unum = f.unum /\ \A i \in Slot : g.ustats[i].user = f.ustats[i].user
    BY DEF SameUsers
  <1>2. \A i \in 0 .. f.unum - 1 : i \in Slot
    BY ServerFields, NumbersAssumption DEF Slot
  <1>3. { i \in 0 .. g.unum - 1 : g.ustats[i].user = u }
          = { i \in 0 .. f.unum - 1 : f.ustats[i].user = u }
    BY <1>1, <1>2
  <1>4. Known(g, u) <=> Known(f, u)
    BY <1>1, <1>2 DEF Known
  <1>5. QED
    BY <1>3, <1>4 DEF FindUser

\* What Charged does to the accounts.
LEMMA ChargedIs ==
  ASSUME NEW f \in Server, NEW i \in Slot, NEW size \in Int, NEW files \in Int,
         NEW g, g = Charged(f, i, size, files)
  PROVE  /\ g.totbytes = f.totbytes + size /\ g.unum = f.unum
         /\ g.ustats[i].user = f.ustats[i].user
         /\ g.ustats[i].totbytes = f.ustats[i].totbytes + size
         /\ g.ustats[i].numfiles = f.ustats[i].numfiles + files
         /\ \A j \in Slot : j # i => g.ustats[j] = f.ustats[j]
  <1> DEFINE stats == Billed(f.ustats, i, size, files)
  <1>1. f.ustats \in [Slot -> Stat] /\ f.ustats[i] \in Stat /\ ~ (i < 0)
    <2>1. f.ustats \in [Slot -> Stat]
      BY ServerFields
    <2>2. ~ (i < 0)
      BY NumbersAssumption DEF Slot
    <2>3. QED
      BY <2>1, <2>2
  <1>2. /\ stats[i].user = f.ustats[i].user
        /\ stats[i].totbytes = f.ustats[i].totbytes + size
        /\ stats[i].numfiles = f.ustats[i].numfiles + files
        /\ \A j \in Slot : j # i => stats[j] = f.ustats[j]
    BY <1>1 DEF Billed, Stat
  <1> HIDE DEF stats
  <1>3. g = [f EXCEPT !.totbytes = @ + size, !.idirty = TRUE, !.udirty = TRUE,
                      !.ustats = stats]
    BY <1>1 DEF Charged, stats
  <1>4. g.totbytes = f.totbytes + size /\ g.unum = f.unum /\ g.ustats = stats
    BY <1>3 DEF Server
  <1>5. QED
    BY <1>2, <1>4

\* Whose slots the accounts are in does not change, and every account but u's
\* is as it was: it is enough to look at u's.
LEMMA BalancedBut ==
  ASSUME NEW f \in Server, NEW H, Balanced(f, H), NEW u, NEW i, i = FindUser(f, u),
         Known(f, u),
         NEW g, SameUsers(f, g), OthersSame(f, g, i),
         NEW K, Sized(K), g.totbytes = Total(K), OthersHave(H, K, u),
         g.ustats[i].totbytes = Total(Of(K, u)),
         g.ustats[i].numfiles = Cardinality(Of(K, u))
  PROVE  Balanced(g, K)
  <1>1. /\ Sized(H) /\ f.totbytes = Total(H)
        /\ \A e \in H : Known(f, e.user)
        /\ OnePerUser(f)
        /\ \A j \in 0 .. f.unum - 1 : Right(f, H, j)
    BY DEF Balanced
  <1>2. /\ g.unum = f.unum
        /\ \A j \in 0 .. f.unum - 1 : j \in Slot /\ g.ustats[j].user = f.ustats[j].user
    BY ServerFields, NumbersAssumption DEF Slot, SameUsers
  <1>3. i \in 0 .. f.unum - 1 /\ f.ustats[i].user = u
    BY FindUserIs
  <1>4. \A e \in K : Known(g, e.user)
    BY <1>1, FindSame DEF OthersHave
  <1>5. OnePerUser(g)
    BY <1>1, <1>2 DEF OnePerUser
  <1>6. ASSUME NEW j \in 0 .. g.unum - 1
        PROVE  Right(g, K, j)
    <2>1. CASE j = i
      BY <1>2, <1>3, <2>1 DEF Right
    <2>2. CASE j # i
      <3>1. f.ustats[j].user # u /\ g.ustats[j] = f.ustats[j]
        BY <1>1, <1>2, <1>3, <2>2 DEF OnePerUser, OthersSame
      <3>2. Of(K, f.ustats[j].user) = Of(H, f.ustats[j].user)
        BY <3>1 DEF OthersHave
      <3>3. QED
        BY <1>1, <1>2, <3>1, <3>2 DEF Right
    <2>3. QED
      BY <2>1, <2>2
  <1>7. QED
    BY <1>4, <1>5, <1>6 DEF Balanced

\* More is held, and charged to its user.
LEMMA ChargedMore ==
  ASSUME NEW f \in Server, NEW H, Balanced(f, H), NEW b, b \notin H, b.size \in Int,
         NEW u, u = b.user, Known(f, u),
         NEW g, g = Charged(f, FindUser(f, u), b.size, 1)
  PROVE  Balanced(g, H \cup {b})
  <1>1. PICK i, K : i = FindUser(f, u) /\ K = H \cup {b}
    OBVIOUS
  <1>2. i \in Slot /\ i \in 0 .. f.unum - 1 /\ f.ustats[i].user = u
    BY <1>1, FindUserIs
  <1>3. /\ Sized(H) /\ f.totbytes = Total(H)
        /\ f.ustats[i].totbytes = Total(Of(H, u))
        /\ f.ustats[i].numfiles = Cardinality(Of(H, u))
    BY <1>2 DEF Balanced, Right
  <1>4. SameUsers(f, g)
    BY <1>1, <1>2, ChargedKeeps
  <1>5. /\ g.totbytes = f.totbytes + b.size
        /\ g.ustats[i].totbytes = f.ustats[i].totbytes + b.size
        /\ g.ustats[i].numfiles = f.ustats[i].numfiles + 1
        /\ OthersSame(f, g, i)
    BY <1>1, <1>2, ChargedIs DEF OthersSame
  <1>6. Sized(K) /\ Total(K) = b.size + Total(H) /\ Total(H) \in Int
    BY <1>1, <1>3, TotalWith, TotalInt
  <1>7. Of(K, u) = Of(H, u) \cup {b} /\ b \notin Of(H, u)
    BY <1>1 DEF Of
  <1>8. /\ Sized(Of(H, u)) /\ IsFiniteSet(Of(H, u))
        /\ Total(Of(H, u)) \in Int /\ Cardinality(Of(H, u)) \in Nat
    BY <1>3, OfSized DEF Sized
  <1>9. Total(Of(K, u)) = b.size + Total(Of(H, u))
    BY <1>7, <1>8, TotalWith
  <1>10. Cardinality(Of(K, u)) = Cardinality(Of(H, u)) + 1
    BY <1>7, <1>8, FS_AddElement
  <1>11. OthersHave(H, K, u)
    BY <1>1 DEF Of, OthersHave
  <1>13. /\ g.totbytes = Total(K)
         /\ g.ustats[i].totbytes = Total(Of(K, u))
         /\ g.ustats[i].numfiles = Cardinality(Of(K, u))
    BY <1>3, <1>5, <1>6, <1>8, <1>9, <1>10
  <1>14. Balanced(g, K)
    BY <1>1, <1>4, <1>5, <1>6, <1>11, <1>13, BalancedBut
  <1>15. QED
    BY <1>1, <1>14

\* Less is held, and its user gets it back.
LEMMA ChargedLess ==
  ASSUME NEW f \in Server, NEW H, Balanced(f, H), NEW b \in H,
         NEW u, u = b.user,
         NEW g, g = Charged(f, FindUser(f, u), 0 - b.size, -1)
  PROVE  Balanced(g, H \ {b})
  <1>1. PICK i, K : i = FindUser(f, u) /\ K = H \ {b}
    OBVIOUS
  <1>2. i \in Slot /\ i \in 0 .. f.unum - 1 /\ f.ustats[i].user = u /\ Known(f, u)
    <2>1. Known(f, u)
      BY DEF Balanced
    <2>2. QED
      BY <1>1, <2>1, FindUserIs
  <1>3. /\ Sized(H) /\ f.totbytes = Total(H)
        /\ f.ustats[i].totbytes = Total(Of(H, u))
        /\ f.ustats[i].numfiles = Cardinality(Of(H, u))
    BY <1>2 DEF Balanced, Right
  <1>4. b.size \in Int /\ 0 - b.size \in Int /\ -1 \in Int
    BY <1>3 DEF Sized
  <1>5. SameUsers(f, g)
    BY <1>1, <1>2, <1>4, ChargedKeeps
  <1>6. /\ g.totbytes = f.totbytes + (0 - b.size)
        /\ g.ustats[i].totbytes = f.ustats[i].totbytes + (0 - b.size)
        /\ g.ustats[i].numfiles = f.ustats[i].numfiles + (-1)
        /\ OthersSame(f, g, i)
    BY <1>1, <1>2, <1>4, ChargedIs DEF OthersSame
  <1>7. Sized(K)
    BY <1>1, <1>3, FS_Subset DEF Sized
  <1>8. Total(H) = b.size + Total(K) /\ Total(K) \in Int
    BY <1>1, <1>3, <1>7, TotalWithout, TotalInt
  <1>9. Of(K, u) = Of(H, u) \ {b} /\ b \in Of(H, u)
    BY <1>1 DEF Of
  <1>10. /\ Sized(Of(H, u)) /\ IsFiniteSet(Of(H, u))
         /\ Total(Of(K, u)) \in Int /\ Cardinality(Of(H, u)) \in Nat
    BY <1>3, <1>7, OfSized DEF Sized
  <1>11. Total(Of(H, u)) = b.size + Total(Of(K, u))
    BY <1>9, <1>10, TotalWithout
  <1>12. Cardinality(Of(K, u)) = Cardinality(Of(H, u)) - 1
    BY <1>9, <1>10, FS_RemoveElement
  <1>13. OthersHave(H, K, u)
    BY <1>1 DEF Of, OthersHave
  <1>15. /\ g.totbytes = Total(K)
         /\ g.ustats[i].totbytes = Total(Of(K, u))
         /\ g.ustats[i].numfiles = Cardinality(Of(K, u))
    BY <1>3, <1>4, <1>6, <1>8, <1>10, <1>11, <1>12
  <1>16. Balanced(g, K)
    BY <1>1, <1>2, <1>5, <1>6, <1>7, <1>13, <1>15, BalancedBut
  <1>17. QED
    BY <1>1, <1>16

\* Two things with the same number, size and user; numbers held once.
Like(x, y) == y.filenum = x.filenum /\ y.size = x.size /\ y.user = x.user
Likewise(H, K) == \A x \in H : \E y \in K : Like(x, y)
OneEach(H) == \A e, d \in H : e.filenum = d.filenum => e = d

\* Nothing that is held has the number of something else that is.
LEMMA HeldOnce ==
  ASSUME NEW f \in Server, Numbered(f)
  PROVE  /\ OneEach(Held(f))
         /\ \A e \in Files(f) : e \notin BookSet(f)
         /\ \A e \in Held(f) : e.filenum \in Nat /\ e.filenum <= f.lastnum
  <1>1. Increasing(f) /\ Apart(f)
    BY DEF Numbered
  <1>2. \A e \in Files(f) : \E i \in 0 .. f.num - 1 : e = f.entries[i]
    BY DEF Files
  <1>3. \A b \in BookSet(f) : \E k \in DOMAIN f.books : b = f.books[k]
    BY DEF BookSet
  <1>4. \A e \in Files(f) : e.filenum \in Nat /\ e.filenum <= f.lastnum
    BY <1>1, <1>2, EntryFound DEF Increasing
  <1>5. \A b \in BookSet(f) : b.filenum \in Nat /\ b.filenum <= f.lastnum
    BY <1>1, <1>3, BookFound DEF Apart
  <1>6. ASSUME NEW e \in Files(f), NEW d \in Files(f), e.filenum = d.filenum
        PROVE  e = d
    <2>1. PICK i \in 0 .. f.num - 1 : e = f.entries[i]
      BY <1>2
    <2>2. PICK j \in 0 .. f.num - 1 : d = f.entries[j]
      BY <1>2
    <2>3. ~ (i < j) /\ ~ (j < i)
      BY <1>1, <1>4, <1>6, <2>1, <2>2 DEF Increasing
    <2>4. i \in Int /\ j \in Int
      OBVIOUS
    <2>5. QED
      BY <2>1, <2>2, <2>3, <2>4
  <1>7. ASSUME NEW e \in Files(f), NEW d \in BookSet(f)
        PROVE  e.filenum # d.filenum
    BY <1>1, <1>2, <1>3 DEF Apart
  <1>8. ASSUME NEW e \in BookSet(f), NEW d \in BookSet(f), e.filenum = d.filenum
        PROVE  e = d
    BY <1>1, <1>3, <1>8 DEF Apart
  <1>9. OneEach(Held(f))
    BY <1>6, <1>7, <1>8 DEF OneEach, Held
  <1>10. QED
    BY <1>4, <1>5, <1>7, <1>9 DEF Held

\* What has the same numbers, sizes and users comes to the same.
LEMMA LikeTotals ==
  ASSUME NEW H, NEW K, OneEach(H), OneEach(K), Likewise(H, K), Likewise(K, H), Sized(H)
  PROVE  Sized(K) /\ Total(K) = Total(H) /\ Cardinality(K) = Cardinality(H)
  <1> DEFINE h == [x \in H |-> CHOOSE y \in K : Like(x, y)]
  <1>1. \A x \in H : h[x] \in K /\ Like(x, h[x])
    BY DEF Likewise
  <1>2. h \in [H -> K]
    BY <1>1
  <1> HIDE DEF h
  <1>3. \A x, y \in H : h[x] = h[y] => x = y
    BY <1>1 DEF Like, OneEach
  <1>4. ASSUME NEW y \in K
        PROVE  \E x \in H : h[x] = y
    <2>1. PICK x \in H : Like(y, x)
      BY DEF Likewise
    <2>2. h[x] = y
      BY <1>1, <2>1 DEF Like, OneEach
    <2>3. QED
      BY <2>2
  <1>5. \A x \in H : h[x].size = x.size
    BY <1>1 DEF Like
  <1>6. Renames(h, H, K)
    BY <1>2, <1>3, <1>4, <1>5 DEF Renames
  <1>7. QED
    BY <1>6, TotalRenamed

\* So do the accounts.
LEMMA FairLike ==
  ASSUME NEW f \in Server, Numbered(f), Fair(f), NEW g \in Server, Numbered(g),
         SameAccounts(f, g),
         Likewise(Held(f), Held(g)), Likewise(Held(g), Held(f))
  PROVE  Fair(g)
  <1>1. PICK H, K : H = Held(f) /\ K = Held(g)
    OBVIOUS
  <1>2. /\ OneEach(H) /\ OneEach(K) /\ Likewise(H, K) /\ Likewise(K, H)
        /\ Balanced(f, H)
    BY <1>1, HeldOnce DEF Fair
  <1>3. Balanced(g, H)
    BY <1>2, BalancedSame
  <1>4. /\ Sized(H) /\ g.totbytes = Total(H)
        /\ \A e \in H : Known(g, e.user)
        /\ OnePerUser(g)
        /\ \A i \in 0 .. g.unum - 1 : Right(g, H, i)
    BY <1>3 DEF Balanced
  <1>5. Sized(K) /\ Total(K) = Total(H)
    BY <1>2, <1>4, LikeTotals
  <1>6. ASSUME NEW u
        PROVE  Total(Of(K, u)) = Total(Of(H, u)) /\ Cardinality(Of(K, u)) = Cardinality(Of(H, u))
    <2>1. PICK A, B : A = Of(H, u) /\ B = Of(K, u)
      OBVIOUS
    <2>2. OneEach(A) /\ OneEach(B)
      BY <1>2, <2>1 DEF OneEach, Of
    <2>3. Likewise(A, B) /\ Likewise(B, A)
      BY <1>2, <2>1 DEF Likewise, Like, Of
    <2>4. Sized(A)
      BY <1>4, <2>1, OfSized
    <2>5. QED
      BY <2>1, <2>2, <2>3, <2>4, LikeTotals
  <1>7. \A i \in 0 .. g.unum - 1 : Right(g, K, i)
    BY <1>4, <1>6 DEF Right
  <1>8. \A e \in K : Known(g, e.user)
    BY <1>2, <1>4 DEF Likewise, Like
  <1>9. Balanced(g, K)
    BY <1>4, <1>5, <1>7, <1>8 DEF Balanced
  <1>10. QED
    BY <1>1, <1>9 DEF Fair

\* Nothing is done to the accounts nor to what is held.
LEMMA FairSame ==
  ASSUME NEW f, NEW g, Fair(f), SameAccounts(f, g),
         SameIndex(f, g), BookSet(g) = BookSet(f)
  PROVE  Fair(g)
  <1>1. Held(g) = Held(f)
    BY DEF Held, Files, SameIndex
  <1>2. QED
    BY <1>1, BalancedSame DEF Fair

\* A user gets statistics who had none, and has nothing.
LEMMA FairWithUser ==
  ASSUME NEW f \in Server, Fair(f), NEW u, ~ Known(f, u),
         NEW g, SameIndex(f, g), g.books = f.books, g.totbytes = f.totbytes,
         g.unum = f.unum + 1,
         \A i \in 0 .. f.unum - 1 : g.ustats[i] = f.ustats[i],
         NEW s, s = [user |-> u, totbytes |-> 0, numfiles |-> 0],
         g.ustats[f.unum] = s
  PROVE  Fair(g)
  <1>1. PICK H : H = Held(f)
    OBVIOUS
  <1>2. /\ Sized(H) /\ f.totbytes = Total(H)
        /\ \A e \in H : Known(f, e.user)
        /\ OnePerUser(f)
        /\ \A i \in 0 .. f.unum - 1 : Right(f, H, i)
    BY <1>1 DEF Fair, Balanced
  <1>3. Held(g) = H
    BY <1>1 DEF Held, Files, BookSet, SameIndex
  <1>4. f.unum \in Nat
    BY ServerFields, NumbersAssumption
  <1>5. \A i \in 0 .. g.unum - 1 : i \in 0 .. f.unum - 1 \/ i = f.unum
    BY <1>4
  <1>6. \A i \in 0 .. f.unum - 1 : i \in 0 .. g.unum - 1
    BY <1>4
  <1>7. \A e \in H : Known(g, e.user)
    BY <1>2, <1>6 DEF Known
  <1>8. s.user = u /\ s.totbytes = 0 /\ s.numfiles = 0
    OBVIOUS
  <1>9. \A i \in 0 .. f.unum - 1 : f.ustats[i].user # u
    BY DEF Known
  <1>10. OnePerUser(g)
    BY <1>2, <1>5, <1>8, <1>9 DEF OnePerUser
  <1>11. Right(g, H, f.unum)
    <2>1. Of(H, u) = {}
      BY <1>2 DEF Of
    <2>2. Total(Of(H, u)) = 0 /\ Cardinality(Of(H, u)) = 0
      BY <2>1, TotalEmpty, FS_EmptySet
    <2>3. QED
      BY <1>8, <2>2 DEF Right
  <1>12. \A i \in 0 .. f.unum - 1 : Right(g, H, i)
    BY <1>2 DEF Right
  <1>13. \A i \in 0 .. g.unum - 1 : Right(g, H, i)
    BY <1>5, <1>11, <1>12
  <1>14. QED
    BY <1>2, <1>3, <1>7, <1>10, <1>13 DEF Fair, Balanced

-----------------------------------------------------------------------------
(***************************************************************************)
(* Bookings.                                                               *)
(***************************************************************************)

\* fs_delbook takes out the one booking it is given.
LEMMA DelbookIs ==
  ASSUME NEW f \in Server, NEW b \in BookSet(f),
         \A k, l \in DOMAIN f.books : k # l => f.books[k] # f.books[l],
         NEW g, g = Delbook(f, b)
  PROVE  /\ g = [f EXCEPT !.books = g.books]
         /\ g \in Server
         /\ BookSet(g) = BookSet(f) \ {b}
         /\ \E at \in [DOMAIN g.books -> DOMAIN f.books] :
              /\ \A j \in DOMAIN g.books : g.books[j] = f.books[at[j]]
              /\ \A j, l \in DOMAIN g.books : j # l => at[j] # at[l]
  <1> DEFINE k == CHOOSE k \in DOMAIN f.books : f.books[k] = b
             t == RemoveAt(f.books, k)
             at == [j \in DOMAIN t |-> IF j < k THEN j ELSE j + 1]
  <1>1. k \in DOMAIN f.books /\ f.books[k] = b
    BY DEF BookSet
  <1>2. f.books \in Seq(Booking) /\ DOMAIN f.books = 1 .. Len(f.books) /\ Len(f.books) \in Nat
    BY LenProperties DEF Server
  <1>3. g = [f EXCEPT !.books = t]
    BY DEF Delbook
  <1> HIDE DEF k
  <1>4. /\ t \in Seq(Booking)
        /\ DOMAIN t = 1 .. Len(f.books) - 1
        /\ \A j \in DOMAIN t : t[j] = IF j < k THEN f.books[j] ELSE f.books[j + 1]
    BY <1>1, <1>2, RemoveAtProps
  <1> HIDE DEF t
  <1>5. g.books = t /\ g = [f EXCEPT !.books = g.books] /\ g \in Server
    BY <1>3, <1>4 DEF Server
  <1>6. /\ at \in [DOMAIN t -> DOMAIN f.books]
        /\ \A j \in DOMAIN t : at[j] # k /\ t[j] = f.books[at[j]]
        /\ \A j, l \in DOMAIN t : j # l => at[j] # at[l]
    BY <1>1, <1>2, <1>4
  <1>7. ASSUME NEW l \in DOMAIN f.books, l # k
        PROVE  \E j \in DOMAIN t : t[j] = f.books[l]
    <2>1. CASE l < k
      <3>1. l \in DOMAIN t
        BY <1>1, <1>2, <1>4, <2>1
      <3>2. QED
        BY <1>4, <2>1, <3>1
    <2>2. CASE ~ (l < k)
      <3>1. l - 1 \in DOMAIN t /\ ~ (l - 1 < k) /\ (l - 1) + 1 = l
        BY <1>1, <1>2, <1>4, <1>7, <2>2
      <3>2. QED
        BY <1>4, <3>1
    <2>3. QED
      BY <2>1, <2>2
  <1> HIDE DEF at
  <1>8. BookSet(g) = BookSet(f) \ {b}
    <2>1. ASSUME NEW c \in BookSet(g)
          PROVE  c \in BookSet(f) \ {b}
      <3>1. PICK j \in DOMAIN t : c = t[j]
        BY <1>5, <2>1 DEF BookSet
      <3>2. c = f.books[at[j]] /\ at[j] \in DOMAIN f.books /\ at[j] # k
        BY <1>6, <3>1
      <3>3. QED
        BY <1>1, <3>2 DEF BookSet
    <2>2. ASSUME NEW c \in BookSet(f), c # b
          PROVE  c \in BookSet(g)
      <3>1. PICK l \in DOMAIN f.books : c = f.books[l]
        BY <2>2 DEF BookSet
      <3>2. l # k
        BY <1>1, <2>2, <3>1
      <3>3. QED
        BY <1>5, <1>7, <3>1, <3>2 DEF BookSet
    <2>3. QED
      BY <2>1, <2>2
  <1>9. QED
    BY <1>5, <1>6, <1>8

\* Bookings with numbers of their own are not the same.
LEMMA ApartDiffer ==
  ASSUME NEW f \in Server, Apart(f)
  PROVE  \A k, l \in DOMAIN f.books : k # l => f.books[k] # f.books[l]
  BY DEF Apart

\* fs_cancel_booking: the booking goes, its number only if it was the last.
LEMMA CancelIs ==
  ASSUME NEW f \in Server, Numbered(f), NEW b \in BookSet(f), NEW i \in Slot,
         NEW g, g = Cancel(f, b, i)
  PROVE  /\ g \in Server /\ Numbered(g)
         /\ SameFiles(f, g) /\ SameUsers(f, g)
         /\ BookSet(g) = BookSet(f) \ {b}
  <1> DEFINE c == Charged(f, i, 0 - b.size, -1)
             d == Delbook(c, b)
             n == IF d.lastnum = b.filenum THEN d.lastnum - 1 ELSE d.lastnum
  <1>1. b \in Booking
    BY ServerFields, LenProperties DEF BookSet
  <1>2. /\ c \in Server /\ SameFiles(f, c) /\ SameUsers(f, c) /\ Dirty(c)
        /\ c.books = f.books /\ c.lastnum = f.lastnum
    <2>1. 0 - b.size \in Int /\ -1 \in Int /\ i \in {-1} \cup Slot
      BY <1>1 DEF Booking
    <2>2. c = Charged(f, i, 0 - b.size, -1)
      OBVIOUS
    <2> HIDE DEF c
    <2>3. QED
      BY <2>1, <2>2, ChargedKeeps
  <1> HIDE DEF c
  <1>3. BookSet(c) = BookSet(f)
    BY <1>2 DEF BookSet
  <1>4. \A k, l \in DOMAIN c.books : k # l => c.books[k] # c.books[l]
    BY <1>2, ApartDiffer DEF Numbered
  <1>5. /\ d = [c EXCEPT !.books = d.books]
        /\ d \in Server
        /\ BookSet(d) = BookSet(f) \ {b}
        /\ \E at \in [DOMAIN d.books -> DOMAIN c.books] :
             /\ \A j \in DOMAIN d.books : d.books[j] = c.books[at[j]]
             /\ \A j, l \in DOMAIN d.books : j # l => at[j] # at[l]
    BY <1>2, <1>3, <1>4, DelbookIs
  <1> HIDE DEF d
  <1>6. PICK at \in [DOMAIN d.books -> DOMAIN f.books] :
             /\ \A j \in DOMAIN d.books : d.books[j] = f.books[at[j]]
             /\ \A j, l \in DOMAIN d.books : j # l => at[j] # at[l]
    BY <1>2, <1>5
  <1>7. /\ d.lastnum = f.lastnum /\ d.num = f.num /\ d.entries = f.entries
        /\ SameUsers(f, d) /\ Dirty(d)
    <2>1. c \in Server /\ d = [c EXCEPT !.books = d.books]
      BY <1>2, <1>5
    <2>2. d.lastnum = c.lastnum /\ d.num = c.num /\ d.entries = c.entries
          /\ d.unum = c.unum /\ d.ustats = c.ustats /\ d.idirty = c.idirty
      BY <2>1 DEF Server
    <2>3. QED
      BY <1>2, <2>2 DEF SameFiles, SameUsers, Dirty
  <1>8. g = [d EXCEPT !.lastnum = n]
    <2>1. ~ (i < 0)
      BY NumbersAssumption DEF Slot
    <2>2. d \in Server /\ g = [d EXCEPT !.lastnum = IF @ = b.filenum THEN @ - 1 ELSE @]
      BY <1>5, <2>1 DEF Cancel, c, d
    <2>3. QED
      BY <2>2
  <1>9. n \in Nat /\ n <= f.lastnum
    BY <1>1, <1>7, ServerFields DEF Booking
  <1> HIDE DEF n
  <1>10. /\ g \in Server /\ g.lastnum = n /\ g.num = f.num /\ g.entries = f.entries
         /\ g.books = d.books /\ g.unum = d.unum /\ g.ustats = d.ustats
         /\ g.idirty = d.idirty
    BY <1>5, <1>7, <1>8, <1>9 DEF Server
  <1>11. BookSet(g) = BookSet(f) \ {b}
    <2>1. g.books = d.books
      BY <1>10
    <2>2. BookSet(g) = BookSet(d)
      BY <2>1 DEF BookSet
    <2>3. QED
      BY <1>5, <2>2
  <1>12. PICK k \in DOMAIN f.books : b = f.books[k]
    BY DEF BookSet
  <1>13. Increasing(g)
    <2>1. ASSUME NEW e \in 0 .. f.num - 1
          PROVE  f.entries[e].filenum <= n
      <3>1. f.entries[e].filenum <= f.lastnum /\ f.entries[e].filenum # b.filenum
        BY <1>12 DEF Numbered, Increasing, Apart
      <3>2. f.entries[e].filenum \in Nat /\ f.lastnum \in Nat
        BY ServerFields, EntryFound
      <3>3. QED
        BY <1>1, <1>7, <3>1, <3>2 DEF n, Booking
    <2>2. QED
      BY <1>10, <2>1 DEF Numbered, Increasing
  <1>14. Apart(g)
    <2>1. SUFFICES ASSUME NEW j \in DOMAIN d.books
                   PROVE  /\ d.books[j].filenum <= n
                          /\ \A e \in 0 .. f.num - 1 : f.entries[e].filenum # d.books[j].filenum
                          /\ \A l \in DOMAIN d.books : l # j => d.books[l].filenum # d.books[j].filenum
      BY <1>10 DEF Apart
    <2>2. d.books[j] = f.books[at[j]] /\ at[j] \in DOMAIN f.books
      BY <1>6
    <2>3. at[j] # k
      <3>1. d.books[j] \in BookSet(d)
        BY DEF BookSet
      <3>2. QED
        BY <1>5, <1>12, <2>2, <3>1
    <2>4. d.books[j].filenum <= n
      <3>1. d.books[j].filenum <= f.lastnum /\ d.books[j].filenum # b.filenum
        BY <1>12, <2>2, <2>3 DEF Numbered, Apart
      <3>2. d.books[j].filenum \in Nat /\ f.lastnum \in Nat
        BY <2>2, ServerFields, BookFound
      <3>3. QED
        BY <1>1, <1>7, <3>1, <3>2 DEF n, Booking
    <2>5. \A e \in 0 .. f.num - 1 : f.entries[e].filenum # d.books[j].filenum
      BY <2>2 DEF Numbered, Apart
    <2>6. \A l \in DOMAIN d.books : l # j => d.books[l].filenum # d.books[j].filenum
      BY <1>6, <2>2 DEF Numbered, Apart
    <2>7. QED
      BY <2>4, <2>5, <2>6
  <1>15. QED
    BY <1>7, <1>10, <1>11, <1>13, <1>14 DEF Numbered, SameFiles, SameUsers, Dirty, StillDirty

\* A booking that is cancelled is given back to its user.
LEMMA CancelFair ==
  ASSUME NEW f \in Server, Numbered(f), Fair(f), NEW b \in BookSet(f),
         NEW i, i = FindUser(f, b.user),
         NEW g, g = Cancel(f, b, i)
  PROVE  Fair(g)
  <1>1. PICK H, c : H = Held(f) /\ c = Charged(f, i, 0 - b.size, -1)
    OBVIOUS
  <1>2. Balanced(f, H) /\ b \in H
    BY <1>1 DEF Fair, Held
  <1>3. Balanced(c, H \ {b})
    BY <1>1, <1>2, ChargedLess
  <1>4. i \in Slot
    <2>1. Known(f, b.user)
      BY <1>2 DEF Balanced
    <2>2. QED
      BY <2>1, FindUserIs
  <1>5. c \in Server
    <2>1. 0 - b.size \in Int /\ -1 \in Int
      BY <1>2 DEF Balanced, Sized
    <2>2. QED
      BY <1>1, <1>4, <2>1, ChargedKeeps
  <1>6. SameAccounts(c, g)
    <2>1. PICK x : x = RemoveAt(c.books, CHOOSE k \in DOMAIN c.books : c.books[k] = b)
      OBVIOUS
    <2>2. PICK d : d = [c EXCEPT !.books = x]
      OBVIOUS
    <2>3. ~ (i < 0)
      BY <1>4, NumbersAssumption DEF Slot
    <2>4. g = [d EXCEPT !.lastnum = IF @ = b.filenum THEN @ - 1 ELSE @]
      BY <1>1, <2>1, <2>2, <2>3 DEF Cancel, Delbook
    <2>5. PICK n : n = IF d.lastnum = b.filenum THEN d.lastnum - 1 ELSE d.lastnum
      OBVIOUS
    <2>6. g = [d EXCEPT !.lastnum = n]
      BY <2>4, <2>5
    <2>7. QED
      BY <1>5, <2>2, <2>6 DEF Server, SameAccounts
  <1>7. Held(g) = H \ {b}
    <2>1. SameFiles(f, g) /\ BookSet(g) = BookSet(f) \ {b}
      BY <1>4, CancelIs
    <2>2. Files(g) = Files(f)
      BY <2>1 DEF Files, SameFiles
    <2>3. b \notin Files(f)
      BY HeldOnce
    <2>4. QED
      BY <1>1, <2>1, <2>2, <2>3 DEF Held
  <1>8. QED
    BY <1>3, <1>6, <1>7, BalancedSame DEF Fair

\* The bookings of u among the first n of f.
Passed(f, u, n) == { f.books[j] : j \in { k \in 1 .. n : f.books[k].user = u } }

\* fs_cancel_all_bookings: the bookings of the user go, the others stay, and
\* what they take is given back.
LEMMA CancelAllIs ==
  ASSUME NEW f \in Server, Numbered(f), NEW u, NEW g, g = CancelAll(f, u)
  PROVE  /\ g \in Server /\ Numbered(g)
         /\ SameFiles(f, g) /\ SameUsers(f, g)
         /\ ~ Known(f, u) => g = f
         /\ Known(f, u) => BookSet(g) = { b \in BookSet(f) : b.user # u }
         /\ Fair(f) => Fair(g)
  <1> DEFINE i == FindUser(f, u)
             N == Len(f.books)
             step == [k \in 1 .. N |-> [h \in Server |-> CancelOf(h, f.books[k], u, i)]]
             T == [k \in 0 .. N |->
                     { h \in Server :
                         /\ Numbered(h) /\ SameFiles(f, h) /\ SameUsers(f, h)
                         /\ Fair(f) => Fair(h)
                         /\ i < 0 => h = f
                         /\ i >= 0 => BookSet(h) = BookSet(f) \ Passed(f, u, k) }]
  <1>1. N \in Nat /\ DOMAIN f.books = 1 .. N
    BY ServerFields, LenProperties
  <1>2. /\ Known(f, u) => i \in Slot /\ i >= 0 /\ ~ (i < 0)
        /\ ~ Known(f, u) => i = -1 /\ i < 0 /\ ~ (i >= 0)
    BY FindUserIs DEF Slot
  <1> HIDE DEF i
  <1>3. f \in T[0]
    <2>1. Passed(f, u, 0) = {}
      BY DEF Passed
    <2>2. SameFiles(f, f) /\ SameUsers(f, f)
      BY DEF SameFiles, SameUsers, StillDirty
    <2>3. BookSet(f) = BookSet(f) \ Passed(f, u, 0)
      BY <2>1
    <2>4. 0 \in 0 .. N
      BY <1>1
    <2>5. QED
      BY <2>2, <2>3, <2>4
  <1>4. ASSUME NEW k \in 1 .. N, NEW h \in T[k - 1]
        PROVE  step[k][h] \in T[k]
    <2>1. /\ k - 1 \in 0 .. N /\ h \in Server
          /\ Numbered(h) /\ SameFiles(f, h) /\ SameUsers(f, h)
          /\ Fair(f) => Fair(h)
          /\ i < 0 => h = f
          /\ i >= 0 => BookSet(h) = BookSet(f) \ Passed(f, u, k - 1)
      BY <1>1
    <2>2. step[k][h] = CancelOf(h, f.books[k], u, i)
      BY <2>1
    <2>3. CASE f.books[k].user # u
      <3>1. step[k][h] = h
        BY <2>2, <2>3 DEF CancelOf
      <3>2. Passed(f, u, k) = Passed(f, u, k - 1)
        BY <1>1, <2>3 DEF Passed
      <3>3. QED
        BY <2>1, <3>1, <3>2
    <2>4. CASE f.books[k].user = u /\ ~ Known(f, u)
      <3>1. step[k][h] = h
        BY <1>2, <2>2, <2>4 DEF CancelOf, Cancel
      <3>2. QED
        BY <1>2, <2>1, <2>4, <3>1
    <2>5. CASE f.books[k].user = u /\ Known(f, u)
      <3>1. f.books[k] \in BookSet(h)
        <4>1. f.books[k] \notin Passed(f, u, k - 1)
          BY <1>1 DEF Passed, Numbered, Apart
        <4>2. QED
          BY <1>1, <1>2, <2>1, <2>5, <4>1 DEF BookSet
      <3>2. step[k][h] = Cancel(h, f.books[k], i)
        BY <2>2, <2>5 DEF CancelOf
      <3> HIDE DEF step
      <3>3. /\ step[k][h] \in Server /\ Numbered(step[k][h])
            /\ SameFiles(h, step[k][h]) /\ SameUsers(h, step[k][h])
            /\ BookSet(step[k][h]) = BookSet(h) \ {f.books[k]}
        BY <1>2, <2>1, <2>5, <3>1, <3>2, CancelIs
      <3>4. Passed(f, u, k) = Passed(f, u, k - 1) \cup {f.books[k]}
        BY <1>1, <2>5 DEF Passed
      <3>5. SameFiles(f, step[k][h]) /\ SameUsers(f, step[k][h])
        BY <2>1, <3>3 DEF SameFiles, SameUsers, StillDirty
      <3>6. Fair(f) => Fair(step[k][h])
        <4>1. i = FindUser(h, f.books[k].user)
          BY <2>1, <2>5, FindSame DEF i
        <4>2. QED
          BY <2>1, <3>1, <3>2, <4>1, CancelFair
      <3>7. QED
        BY <1>2, <2>1, <2>5, <3>3, <3>4, <3>5, <3>6
    <2>6. QED
      BY <2>3, <2>4, <2>5
  <1>5. PICK d : Passes(d, f, step, N) /\ Within(d, T, N)
    <2> HIDE DEF step, T, N
    <2>1. N \in Nat
      BY <1>1
    <2>2. Leads(step, T, N)
      BY <1>4 DEF Leads
    <2>3. QED
      BY <1>3, <2>1, <2>2, LoopExists
  <1>6. ASSUME NEW k \in 0 .. N, k # 0
        PROVE  step[k][d[k - 1]] = CancelOf(d[k - 1], f.books[k], u, i)
    <2>1. k - 1 \in 0 .. N /\ k \in 1 .. N
      BY <1>1, <1>6
    <2>2. d[k - 1] \in Server
      BY <1>5, <2>1 DEF Within
    <2>3. QED
      BY <2>1, <2>2
  <1>7. d = [k \in 0 .. N |->
               IF k = 0 THEN f ELSE CancelOf(d[k - 1], f.books[k], u, i)]
    <2> HIDE DEF step, T, N
    <2>1. QED
      BY <1>5, <1>6 DEF Passes
  <1> DEFINE c == CHOOSE c : c = [k \in 0 .. N |->
               IF k = 0 THEN f ELSE CancelOf(c[k - 1], f.books[k], u, i)]
  <1>8. c = [k \in 0 .. N |->
               IF k = 0 THEN f ELSE CancelOf(c[k - 1], f.books[k], u, i)]
    BY <1>7
  <1>9. g = c[N]
    BY DEF CancelAll, i
  <1>10. \A k \in 0 .. N : c[k] \in T[k]
    <2> DEFINE P == { k \in 0 .. N : c[k] \in T[k] }
    <2> HIDE DEF c, T
    <2>1. 0 \in P
      BY <1>1, <1>3, <1>8
    <2>2. ASSUME NEW k \in 1 .. N, k - 1 \in P
          PROVE  k \in P
      <3>1. c[k] = CancelOf(c[k - 1], f.books[k], u, i)
        BY <1>1, <1>8
      <3>2. c[k - 1] \in T[k - 1]
        BY <2>2
      <3>3. c[k - 1] \in Server
        BY <1>1, <3>2 DEF T
      <3>4. step[k][c[k - 1]] = c[k]
        BY <3>1, <3>3
      <3> HIDE DEF step
      <3>5. c[k] \in T[k]
        BY <1>4, <3>2, <3>4
      <3>6. QED
        BY <1>1, <3>5
    <2> HIDE DEF P
    <2>3. \A k \in 0 .. N : k \in P
      BY <1>1, <2>1, <2>2, LoopInduction
    <2>4. QED
      BY <2>3 DEF P
  <1>11. g \in T[N]
    <2> HIDE DEF T, c, N
    <2>1. QED
      BY <1>1, <1>9, <1>10
  <1>12. Known(f, u) => Passed(f, u, N) = { b \in BookSet(f) : b.user = u }
    BY <1>1 DEF Passed, BookSet
  <1>13. /\ g \in Server /\ Numbered(g) /\ SameFiles(f, g) /\ SameUsers(f, g)
         /\ Fair(f) => Fair(g)
         /\ i < 0 => g = f
         /\ i >= 0 => BookSet(g) = BookSet(f) \ Passed(f, u, N)
    BY <1>1, <1>11
  <1>14. QED
    BY <1>2, <1>12, <1>13

-----------------------------------------------------------------------------
(***************************************************************************)
(* Files.                                                                  *)
(***************************************************************************)

\* fs_delfile moves nothing when it deletes the last file.
LEMMA DelfileIs ==
  ASSUME NEW f \in Server, NEW i \in 0 .. f.num - 1, i = f.num - 1,
         NEW g, g = Delfile(f, i)
  PROVE  /\ g \in Server /\ SameUsers(f, g)
         /\ g.books = f.books /\ g.lastnum = f.lastnum
         /\ g.entries = f.entries /\ g.num = f.num - 1 /\ Dirty(g)
  <1> DEFINE e == f.entries[i]
             j == FindUser(f, e.user)
             c == Charged(f, j, 0 - e.size, -1)
  <1>1. i \in Slot /\ e \in Entry /\ 0 - e.size \in Int /\ -1 \in Int
    BY EntryFound DEF Entry
  <1>2. j \in {-1} \cup Slot
    BY FindUserIs
  <1> HIDE DEF e, j
  <1>3. /\ c \in Server /\ SameFiles(f, c) /\ SameUsers(f, c)
        /\ c.books = f.books /\ c.lastnum = f.lastnum /\ Dirty(c)
    <2> HIDE DEF c
    <2>1. c = Charged(f, j, 0 - e.size, -1)
      BY DEF c
    <2>2. QED
      BY <1>1, <1>2, <2>1, ChargedKeeps
  <1>4. Moved(f.entries, i, i + 1, f.num - i - 1) = f.entries
    <2>1. f.num - i - 1 = 0 /\ i \in Nat /\ f.entries \in [Slot -> Entry]
      BY ServerFields
    <2>2. QED
      BY <2>1, MovedNothing
  <1>5. g = [c EXCEPT !.entries = f.entries, !.num = @ - 1]
    BY <1>4 DEF Delfile, c, j, e
  <1> HIDE DEF c
  <1>6. c.num = f.num /\ f.num - 1 \in 0 .. Allocated
    <2>1. f.num \in 0 .. Allocated /\ f.num \in 1 .. Allocated
      BY ServerFields, NumbersAssumption
    <2>2. QED
      BY <1>3, <2>1, NumbersAssumption DEF SameFiles
  <1>7. g = [lastnum |-> c.lastnum, totbytes |-> c.totbytes, num |-> f.num - 1,
             entries |-> f.entries, unum |-> c.unum, ustats |-> c.ustats,
             books |-> c.books, idirty |-> c.idirty, udirty |-> c.udirty]
    BY <1>3, <1>5, <1>6 DEF Server
  <1>8. QED
    BY <1>3, <1>6, <1>7, ServerFields DEF Server, SameUsers, Dirty

\* The last file is given back to its user.
LEMMA DelfileFair ==
  ASSUME NEW f \in Server, Numbered(f), Fair(f), NEW i \in 0 .. f.num - 1, i = f.num - 1,
         NEW g, g = Delfile(f, i)
  PROVE  Fair(g)
  <1>1. PICK H, e, j : H = Held(f) /\ e = f.entries[i] /\ j = FindUser(f, e.user)
    OBVIOUS
  <1>2. Balanced(f, H) /\ e \in H /\ e \in Files(f)
    BY <1>1 DEF Fair, Held, Files
  <1>3. PICK c : c = Charged(f, j, 0 - e.size, -1)
    OBVIOUS
  <1>4. Balanced(c, H \ {e})
    BY <1>1, <1>2, <1>3, ChargedLess
  <1>5. c \in Server
    <2>1. 0 - e.size \in Int /\ -1 \in Int
      BY <1>2 DEF Balanced, Sized
    <2>2. j \in {-1} \cup Slot
      BY <1>1, FindUserIs
    <2>3. QED
      BY <1>3, <2>1, <2>2, ChargedKeeps
  <1>6. SameAccounts(c, g)
    <2>1. PICK x : x = Moved(f.entries, i, i + 1, f.num - i - 1)
      OBVIOUS
    <2>2. g = [c EXCEPT !.entries = x, !.num = @ - 1]
      BY <1>1, <1>3, <2>1 DEF Delfile
    <2>3. QED
      BY <1>5, <2>2 DEF Server, SameAccounts
  <1>7. /\ g.books = f.books /\ g.entries = f.entries /\ g.num = f.num - 1
    BY DelfileIs
  <1>8. Files(g) = Files(f) \ {e}
    <2>1. f.num \in Nat
      BY ServerFields, NumbersAssumption
    <2>2. \A k \in 0 .. f.num - 1 : k \in 0 .. g.num - 1 \/ k = i
      BY <1>7, <2>1
    <2>3. \A k \in 0 .. g.num - 1 : k \in 0 .. f.num - 1 /\ k < i
      BY <1>7, <2>1
    <2>4. ASSUME NEW k \in 0 .. g.num - 1
          PROVE  f.entries[k] # e
      <3>1. f.entries[k].filenum < f.entries[i].filenum
        BY <2>3 DEF Numbered, Increasing
      <3>2. f.entries[i].filenum \in Nat
        BY EntryFound
      <3>3. QED
        BY <1>1, <3>1, <3>2
    <2>5. \A x \in Files(g) : x \in Files(f) \ {e}
      BY <1>7, <2>3, <2>4 DEF Files
    <2>6. \A x \in Files(f) \ {e} : x \in Files(g)
      BY <1>1, <1>7, <2>2 DEF Files
    <2>7. QED
      BY <2>5, <2>6
  <1>9. Held(g) = H \ {e}
    <2>1. e \notin BookSet(f) /\ BookSet(g) = BookSet(f)
      BY <1>2, <1>7, HeldOnce DEF BookSet
    <2>2. QED
      BY <1>1, <1>8, <2>1 DEF Held
  <1>10. QED
    BY <1>4, <1>6, <1>9, BalancedSame DEF Fair

\* To change the copies of a file changes no account.
Recounted(f, i, c) == [f EXCEPT !.entries[i].copies = c]

LEMMA RecountedIs ==
  ASSUME NEW f \in Server, NEW i \in 0 .. f.num - 1, NEW c \in Int,
         NEW g, g = Recounted(f, i, c)
  PROVE  /\ g \in Server
         /\ Numbered(f) => Numbered(g)
         /\ Numbered(f) /\ Fair(f) => Fair(g)
         /\ g.num = f.num /\ g.entries[i].copies = c
  <1> DEFINE es == [f.entries EXCEPT ![i].copies = c]
  <1>1. /\ f.entries \in [Slot -> Entry]
        /\ \A k \in 0 .. f.num - 1 : k \in Slot /\ f.entries[k] \in Entry
    BY ServerFields, EntryFound
  <1>2. es \in [Slot -> Entry] /\ es[i].copies = c
    BY <1>1 DEF Entry
  <1>3. \A k \in 0 .. f.num - 1 : Like(f.entries[k], es[k])
    BY <1>1 DEF Entry, Like
  <1>4. g = [f EXCEPT !.entries = es]
    BY <1>1 DEF Server, Recounted
  <1> HIDE DEF es
  <1>5. g = [lastnum |-> f.lastnum, totbytes |-> f.totbytes, num |-> f.num,
             entries |-> es, unum |-> f.unum, ustats |-> f.ustats,
             books |-> f.books, idirty |-> f.idirty, udirty |-> f.udirty]
    BY <1>4 DEF Server
  <1>6. /\ g \in Server /\ g.num = f.num /\ g.entries = es /\ g.books = f.books
        /\ g.lastnum = f.lastnum /\ SameAccounts(f, g)
    BY <1>2, <1>5, ServerFields DEF Server, SameAccounts
  <1>7. \A k \in 0 .. f.num - 1 : es[k].filenum = f.entries[k].filenum
    BY <1>3 DEF Like
  <1>8. Numbered(f) => Numbered(g)
    <2>1. Increasing(f) => Increasing(g)
      BY <1>6, <1>7 DEF Increasing
    <2>2. Apart(f) => Apart(g)
      BY <1>6, <1>7 DEF Apart
    <2>3. QED
      BY <2>1, <2>2 DEF Numbered
  <1>9. Likewise(Held(f), Held(g)) /\ Likewise(Held(g), Held(f))
    <2>1. BookSet(g) = BookSet(f)
      BY <1>6 DEF BookSet
    <2>2. Likewise(Files(f), Files(g)) /\ Likewise(Files(g), Files(f))
      <3>1. ASSUME NEW x \in Files(f)
            PROVE  \E y \in Files(g) : Like(x, y)
        <4>1. PICK k \in 0 .. f.num - 1 : x = f.entries[k]
          BY DEF Files
        <4>2. es[k] \in Files(g) /\ Like(x, es[k])
          BY <1>3, <1>6, <4>1 DEF Files
        <4>3. QED
          BY <4>2
      <3>2. ASSUME NEW x \in Files(g)
            PROVE  \E y \in Files(f) : Like(x, y)
        <4>1. PICK k \in 0 .. f.num - 1 : x = es[k]
          BY <1>6 DEF Files
        <4>2. f.entries[k] \in Files(f) /\ Like(x, f.entries[k])
          BY <1>3, <4>1 DEF Files, Like
        <4>3. QED
          BY <4>2
      <3>3. QED
        BY <3>1, <3>2 DEF Likewise
    <2>3. \A x : Like(x, x)
      BY DEF Like
    <2>4. QED
      BY <2>1, <2>2, <2>3 DEF Likewise, Held
  <1>10. Numbered(f) /\ Fair(f) => Fair(g)
    BY <1>6, <1>8, <1>9, FairLike
  <1>11. QED
    BY <1>2, <1>6, <1>8, <1>10

\* The last file is the only copy of post m: it is the one that goes with it.
Freed(f, m) ==
  f.num > 0 /\ f.entries[f.num - 1].msgnum = m /\ f.entries[f.num - 1].copies = 1

\* The files once the first n slots have been looked at.
CountedDown(f, m, n) ==
  [i \in Slot |-> IF i < n /\ i < f.num /\ f.entries[i].msgnum = m
                  THEN [f.entries[i] EXCEPT !.copies = @ - 1] ELSE f.entries[i]]

\* What fs_delete_file has done after n slots.
DownTo(f, m, n, g) ==
  /\ g \in Server /\ SameUsers(f, g)
  /\ g.books = f.books /\ g.lastnum = f.lastnum
  /\ g.entries = CountedDown(f, m, n)
  /\ g.num = IF Freed(f, m) /\ n >= f.num THEN f.num - 1 ELSE f.num
  /\ StillDirty(f, g)
  /\ Freed(f, m) /\ n >= f.num => Dirty(g)

\* What fs_delete_file does with one slot.
LEMMA DroppedIs ==
  ASSUME NEW f \in Server, NEW m, ~ MiddleGoes(f, m),
         NEW n \in 1 .. Allocated, NEW h, DownTo(f, m, n - 1, h),
         NEW g, g = Dropped(h, n - 1, m)
  PROVE  DownTo(f, m, n, g)
  <1> DEFINE i == n - 1
  <1>1. i \in Slot /\ i \in Int
    BY NumbersAssumption DEF Slot
  <1>2. /\ h \in Server /\ SameUsers(f, h)
        /\ h.books = f.books /\ h.lastnum = f.lastnum
        /\ h.entries = CountedDown(f, m, i)
        /\ h.num = IF Freed(f, m) /\ i >= f.num THEN f.num - 1 ELSE f.num
        /\ StillDirty(f, h)
        /\ Freed(f, m) /\ i >= f.num => Dirty(h)
    BY DEF DownTo
  <1>3. f.num \in 0 .. Allocated /\ f.entries \in [Slot -> Entry]
    BY ServerFields
  <1>4. h.entries[i] = f.entries[i] /\ f.entries[i] \in Entry
    BY <1>1, <1>2, <1>3 DEF CountedDown
  <1>5. i < f.num => h.num = f.num
    BY <1>1, <1>2, <1>3
  <1>6. h.num <= f.num
    BY <1>2, <1>3
  <1>7. CASE ~ (i < h.num /\ h.entries[i].msgnum = m)
    <2>1. g = h
      BY <1>7 DEF Dropped
    <2>2. ~ (i < f.num /\ f.entries[i].msgnum = m)
      BY <1>4, <1>5, <1>7
    <2>3. CountedDown(f, m, n) = CountedDown(f, m, i)
      <3>1. ASSUME NEW k \in Slot
            PROVE  (k < n /\ k < f.num /\ f.entries[k].msgnum = m)
                     <=> (k < i /\ k < f.num /\ f.entries[k].msgnum = m)
        <4>1. CASE k = i
          BY <2>2, <4>1
        <4>2. CASE k # i
          BY <4>2 DEF Slot
        <4>3. QED
          BY <4>1, <4>2
      <3>2. QED
        BY <3>1 DEF CountedDown
    <2>4. Freed(f, m) /\ n >= f.num <=> Freed(f, m) /\ i >= f.num
      BY <1>1, <1>3, <2>2 DEF Freed
    <2>5. QED
      BY <1>2, <2>1, <2>3, <2>4 DEF DownTo
  <1>8. CASE i < h.num /\ h.entries[i].msgnum = m
    <2> DEFINE d == [h EXCEPT !.entries[i].copies = @ - 1]
    <2>1. i < f.num /\ f.entries[i].msgnum = m /\ h.num = f.num
      <3>1. h.num \in 0 .. Allocated
        BY <1>2, ServerFields
      <3>2. i < f.num
        BY <1>1, <1>3, <1>6, <1>8, <3>1, NumbersAssumption
      <3>3. QED
        BY <1>4, <1>5, <1>8, <3>2
    <2>2. h.entries \in [Slot -> Entry]
      BY <1>2, ServerFields
    <2> DEFINE es == [h.entries EXCEPT ![i].copies = @ - 1]
    <2>3. es \in [Slot -> Entry] /\ es[i].copies = f.entries[i].copies - 1
      BY <1>1, <1>4, <2>2 DEF Entry
    <2>4. es = CountedDown(f, m, n)
      <3>1. ASSUME NEW k \in Slot
            PROVE  es[k] = CountedDown(f, m, n)[k]
        <4>1. CASE k = i
          BY <1>1, <1>4, <2>1, <2>2, <4>1 DEF CountedDown
        <4>2. CASE k # i
          <5>1. k < n <=> k < i
            BY <4>2 DEF Slot
          <5>2. QED
            BY <1>2, <2>2, <4>2, <5>1 DEF CountedDown
        <4>3. QED
          BY <4>1, <4>2
      <3>2. es = [k \in Slot |-> es[k]]
        BY <2>3
      <3> HIDE DEF es
      <3>3. QED
        BY <3>1, <3>2 DEF CountedDown
    <2>5. /\ d \in Server /\ d.entries = es /\ d.num = f.num /\ SameUsers(f, d)
          /\ d.books = f.books /\ d.lastnum = f.lastnum /\ StillDirty(f, d)
      <3>1. d = [h EXCEPT !.entries = es]
        BY <1>2, <2>2 DEF Server
      <3> HIDE DEF d, es
      <3>2. d = [lastnum |-> h.lastnum, totbytes |-> h.totbytes, num |-> h.num,
                 entries |-> es, unum |-> h.unum, ustats |-> h.ustats,
                 books |-> h.books, idirty |-> h.idirty, udirty |-> h.udirty]
        BY <1>2, <3>1 DEF Server
      <3>3. QED
        BY <1>2, <2>1, <2>3, <3>2, ServerFields DEF Server, SameUsers, StillDirty, Dirty
    <2>6. g = IF d.entries[i].copies = 0 THEN Delfile(d, i) ELSE d
      BY <1>8 DEF Dropped
    <2> HIDE DEF d, es
    <2>7. CASE f.entries[i].copies = 1
      <3>1. i = f.num - 1
        <4>1. ~ (i \in 0 .. f.num - 2)
          BY <2>1, <2>7 DEF MiddleGoes
        <4>2. QED
          BY <1>1, <1>3, <2>1, <4>1
      <3>2. Freed(f, m) /\ n >= f.num
        BY <1>3, <2>1, <2>7, <3>1 DEF Freed
      <3>3. g = Delfile(d, i)
        BY <2>3, <2>5, <2>6, <2>7
      <3>4. i \in 0 .. d.num - 1 /\ i = d.num - 1
        BY <1>1, <1>3, <2>5, <3>1
      <3>5. /\ g \in Server /\ SameUsers(d, g)
            /\ g.books = d.books /\ g.lastnum = d.lastnum
            /\ g.entries = d.entries /\ g.num = d.num - 1 /\ Dirty(g)
        BY <2>5, <3>3, <3>4, DelfileIs
      <3>6. QED
        BY <2>4, <2>5, <3>2, <3>5 DEF DownTo, SameUsers, StillDirty
    <2>8. CASE f.entries[i].copies # 1
      <3>1. g = d
        <4>1. es[i].copies # 0
          BY <1>4, <2>3, <2>8 DEF Entry
        <4>2. QED
          BY <2>5, <2>6, <4>1
      <3>2. ~ (Freed(f, m) /\ n >= f.num)
        BY <1>1, <1>3, <2>1, <2>8 DEF Freed
      <3>3. QED
        BY <2>4, <2>5, <3>1, <3>2 DEF DownTo
    <2>9. QED
      BY <2>7, <2>8
  <1>9. QED
    BY <1>7, <1>8

\* The numbers are as they were.
LEMMA DownNumbered ==
  ASSUME NEW f \in Server, Numbered(f), NEW m, NEW n, NEW g, DownTo(f, m, n, g)
  PROVE  Numbered(g)
  <1>1. /\ g.books = f.books /\ g.lastnum = f.lastnum
        /\ g.entries = CountedDown(f, m, n)
        /\ g.num = f.num \/ g.num = f.num - 1
    BY DEF DownTo
  <1>2. f.num \in Nat
    BY ServerFields, NumbersAssumption
  <1>3. \A i \in 0 .. g.num - 1 : i \in 0 .. f.num - 1
    BY <1>1, <1>2
  <1>4. ASSUME NEW i \in 0 .. f.num - 1
        PROVE  g.entries[i].filenum = f.entries[i].filenum
    <2>1. i \in Slot /\ f.entries[i] \in Entry
      BY EntryFound
    <2>2. [f.entries[i] EXCEPT !.copies = @ - 1].filenum = f.entries[i].filenum
      BY <2>1 DEF Entry
    <2>3. g.entries[i] = f.entries[i]
            \/ g.entries[i] = [f.entries[i] EXCEPT !.copies = @ - 1]
      BY <1>1, <2>1 DEF CountedDown
    <2>4. QED
      BY <2>2, <2>3
  <1>5. Increasing(g)
    BY <1>1, <1>3, <1>4 DEF Numbered, Increasing
  <1>6. Apart(g)
    <2>1. ASSUME NEW k \in DOMAIN f.books, NEW i \in 0 .. g.num - 1
          PROVE  g.entries[i].filenum # f.books[k].filenum
      BY <1>3, <1>4 DEF Numbered, Apart
    <2>2. QED
      BY <1>1, <2>1 DEF Numbered, Apart
  <1>7. QED
    BY <1>5, <1>6 DEF Numbered

\* The accounts are right after each slot.
LEMMA DroppedFair ==
  ASSUME NEW f \in Server, Numbered(f), NEW m, ~ MiddleGoes(f, m),
         NEW n \in 1 .. Allocated, NEW h, DownTo(f, m, n - 1, h), Fair(h),
         NEW g, g = Dropped(h, n - 1, m)
  PROVE  Fair(g)
  <1>1. PICK i : i = n - 1
    OBVIOUS
  <1>2. i \in Slot /\ i \in Int
    BY <1>1, NumbersAssumption DEF Slot
  <1>3. /\ h \in Server /\ h.entries = CountedDown(f, m, i)
        /\ h.num = f.num \/ h.num = f.num - 1
        /\ i < f.num => h.num = f.num
        /\ Numbered(h)
    <2>1. /\ h \in Server /\ h.entries = CountedDown(f, m, i)
          /\ h.num = IF Freed(f, m) /\ i >= f.num THEN f.num - 1 ELSE f.num
      BY <1>1 DEF DownTo
    <2>2. f.num \in 0 .. Allocated
      BY ServerFields
    <2>3. QED
      BY <1>2, <2>1, <2>2, DownNumbered
  <1>4. f.num \in 0 .. Allocated /\ f.num \in Nat /\ f.entries \in [Slot -> Entry]
    BY ServerFields, NumbersAssumption
  <1>5. h.entries[i] = f.entries[i] /\ f.entries[i].copies \in Int
    BY <1>2, <1>3, <1>4 DEF CountedDown, Entry
  <1>6. CASE ~ (i < h.num /\ h.entries[i].msgnum = m)
    BY <1>1, <1>6 DEF Dropped
  <1>7. CASE i < h.num /\ h.entries[i].msgnum = m
    <2>1. i < f.num /\ h.num = f.num /\ i \in 0 .. f.num - 1
      BY <1>2, <1>3, <1>4, <1>7 DEF Slot
    <2>2. PICK c, d : c = h.entries[i].copies - 1 /\ d = Recounted(h, i, c)
      OBVIOUS
    <2>3. /\ d \in Server /\ Numbered(d) /\ Fair(d)
          /\ d.num = f.num /\ d.entries[i].copies = c
      <3>1. c \in Int /\ i \in 0 .. h.num - 1
        BY <1>5, <2>1, <2>2
      <3>2. /\ d \in Server
            /\ Numbered(h) => Numbered(d)
            /\ Numbered(h) /\ Fair(h) => Fair(d)
            /\ d.num = h.num /\ d.entries[i].copies = c
        BY <1>3, <2>2, <3>1, RecountedIs
      <3>3. QED
        BY <1>3, <2>1, <3>2
    <2>4. g = IF d.entries[i].copies = 0 THEN Delfile(d, i) ELSE d
      BY <1>1, <1>7, <2>2 DEF Dropped, Recounted
    <2>5. CASE c = 0
      <3>1. i = f.num - 1
        <4>1. f.entries[i].msgnum = m /\ f.entries[i].copies = 1
          BY <1>5, <1>7, <2>2, <2>5
        <4>2. ~ (i \in 0 .. f.num - 2)
          BY <4>1 DEF MiddleGoes
        <4>3. QED
          BY <1>2, <1>4, <2>1, <4>2
      <3>2. QED
        BY <2>1, <2>3, <2>4, <2>5, <3>1, DelfileFair
    <2>6. QED
      BY <2>3, <2>4, <2>5
  <1>8. QED
    BY <1>6, <1>7

\* fs_delete_file, unless it would move elements in the middle.
LEMMA DeleteFileIs ==
  ASSUME NEW f \in Server, NEW m, ~ MiddleGoes(f, m), NEW g, g = DeleteFile(f, m)
  PROVE  DownTo(f, m, Allocated, g) /\ StaysFair(f, g)
  <1> DEFINE N == Allocated
             step == [k \in 1 .. N |-> [h \in Server |-> Dropped(h, k - 1, m)]]
             T == [k \in 0 .. N |->
                     { h \in Server : DownTo(f, m, k, h) /\ StaysFair(f, h) }]
  <1>1. N \in Nat /\ 0 \in 0 .. N /\ N \in 0 .. N
    BY NumbersAssumption
  <1>2. f \in T[0]
    <2>1. f.entries \in [Slot -> Entry] /\ f.num \in 0 .. Allocated
      BY ServerFields
    <2>2. f.entries = CountedDown(f, m, 0)
      <3>1. \A k \in Slot : ~ (k < 0)
        BY NumbersAssumption DEF Slot
      <3>2. QED
        BY <2>1, <3>1 DEF CountedDown
    <2>3. ~ (Freed(f, m) /\ 0 >= f.num)
      BY <2>1 DEF Freed
    <2>4. QED
      BY <1>1, <2>2, <2>3 DEF DownTo, SameUsers, StillDirty, StaysFair
  <1>3. ASSUME NEW k \in 1 .. N, NEW h \in T[k - 1]
        PROVE  step[k][h] \in T[k]
    <2>1. k - 1 \in 0 .. N /\ k \in 0 .. N
      BY <1>1
    <2>2. h \in Server /\ DownTo(f, m, k - 1, h) /\ StaysFair(f, h)
      BY <2>1
    <2>3. step[k][h] = Dropped(h, k - 1, m)
      BY <2>2
    <2> HIDE DEF step
    <2>4. DownTo(f, m, k, step[k][h])
      BY <2>2, <2>3, DroppedIs
    <2>5. step[k][h] \in Server
      BY <2>4 DEF DownTo
    <2>6. StaysFair(f, step[k][h])
      BY <2>2, <2>3, DroppedFair DEF StaysFair
    <2>7. QED
      BY <2>1, <2>4, <2>5, <2>6
  <1>4. PICK d : Passes(d, f, step, N) /\ Within(d, T, N)
    <2> HIDE DEF step, T, N
    <2>1. Leads(step, T, N)
      BY <1>3 DEF Leads
    <2>2. QED
      BY <1>1, <1>2, <2>1, LoopExists
  <1>5. ASSUME NEW k \in 0 .. N, k # 0
        PROVE  step[k][d[k - 1]] = Dropped(d[k - 1], k - 1, m)
    <2>1. k - 1 \in 0 .. N /\ k \in 1 .. N
      BY <1>1, <1>5
    <2>2. d[k - 1] \in Server
      BY <1>4, <2>1 DEF Within
    <2>3. QED
      BY <2>1, <2>2
  <1>6. d = [k \in 0 .. N |-> IF k = 0 THEN f ELSE Dropped(d[k - 1], k - 1, m)]
    <2> HIDE DEF step, T, N
    <2>1. QED
      BY <1>4, <1>5 DEF Passes
  <1> DEFINE c == CHOOSE c : c = [k \in 0 .. N |->
                                    IF k = 0 THEN f ELSE Dropped(c[k - 1], k - 1, m)]
  <1>7. c = [k \in 0 .. N |-> IF k = 0 THEN f ELSE Dropped(c[k - 1], k - 1, m)]
    BY <1>6
  <1>8. g = c[N]
    BY DEF DeleteFile
  <1>9. \A k \in 0 .. N : c[k] \in T[k]
    <2> DEFINE P == { k \in 0 .. N : c[k] \in T[k] }
    <2> HIDE DEF c, T
    <2>1. 0 \in P
      BY <1>1, <1>2, <1>7
    <2>2. ASSUME NEW k \in 1 .. N, k - 1 \in P
          PROVE  k \in P
      <3>1. c[k] = Dropped(c[k - 1], k - 1, m)
        BY <1>1, <1>7
      <3>2. c[k - 1] \in T[k - 1]
        BY <2>2
      <3>3. c[k - 1] \in Server
        BY <1>1, <3>2 DEF T
      <3>4. step[k][c[k - 1]] = c[k]
        BY <3>1, <3>3
      <3> HIDE DEF step
      <3>5. c[k] \in T[k]
        BY <1>3, <3>2, <3>4
      <3>6. QED
        BY <1>1, <3>5
    <2> HIDE DEF P
    <2>3. \A k \in 0 .. N : k \in P
      BY <1>1, <2>1, <2>2, LoopInduction
    <2>4. QED
      BY <2>3 DEF P
  <1>10. g \in T[N]
    <2> HIDE DEF T, c, N
    <2>1. QED
      BY <1>1, <1>8, <1>9
  <1>11. QED
    BY <1>1, <1>10

\* The same for the one who calls it: the counters of the files of the post go
\* down, and the last file goes if it is the post's and has no copy left.
LEMMA DeletedKeeps ==
  ASSUME NEW f \in Server, NEW m, ~ MiddleGoes(f, m), NEW g, g = DeleteFile(f, m)
  PROVE  /\ g \in Server /\ SameUsers(f, g)
         /\ g.books = f.books /\ g.lastnum = f.lastnum
         /\ g.num = IF Freed(f, m) THEN f.num - 1 ELSE f.num
         /\ StillDirty(f, g)
         /\ Freed(f, m) => Dirty(g)
         /\ \A i \in 0 .. f.num - 1 :
              g.entries[i] = IF f.entries[i].msgnum = m
                             THEN [f.entries[i] EXCEPT !.copies = @ - 1]
                             ELSE f.entries[i]
         /\ Numbered(f) => Numbered(g)
         /\ StaysFair(f, g)
  <1>1. DownTo(f, m, Allocated, g) /\ StaysFair(f, g)
    BY DeleteFileIs
  <1>2. /\ g \in Server /\ SameUsers(f, g)
        /\ g.books = f.books /\ g.lastnum = f.lastnum
        /\ g.entries = CountedDown(f, m, Allocated)
    BY <1>1 DEF DownTo
  <1>3. f.num \in 0 .. Allocated /\ f.entries \in [Slot -> Entry]
    BY ServerFields
  <1>4. /\ g.num = IF Freed(f, m) THEN f.num - 1 ELSE f.num
        /\ StillDirty(f, g)
        /\ Freed(f, m) => Dirty(g)
    BY <1>1, <1>3, NumbersAssumption DEF DownTo
  <1>5. ASSUME NEW i \in 0 .. f.num - 1
        PROVE  g.entries[i] = IF f.entries[i].msgnum = m
                              THEN [f.entries[i] EXCEPT !.copies = @ - 1]
                              ELSE f.entries[i]
    <2>1. i \in Slot /\ f.entries[i] \in Entry /\ i < Allocated /\ i < f.num
      BY <1>3, EntryFound, NumbersAssumption
    <2>2. QED
      BY <1>2, <2>1 DEF CountedDown
  <1>6. Numbered(f) => Numbered(g)
    BY <1>1, DownNumbered
  <1>7. QED
    BY <1>1, <1>2, <1>4, <1>5, <1>6

\* fs_adduser at the end: nobody loses a slot.
LEMMA WithUserIs ==
  ASSUME NEW f \in Server, NEW u \in Users,
         FindUser(f, u) < 0 => f.unum < Allocated /\ ~ (UserPlace(f, u) < f.unum),
         NEW g, g = WithUser(f, u)
  PROVE  /\ g \in Server /\ SameFiles(f, g)
         /\ g.books = f.books /\ g.lastnum = f.lastnum
         /\ Known(g, u)
         /\ \A v : Known(f, v) => Known(g, v)
         /\ StaysFair(f, g)
  <1>1. CASE Known(f, u)
    <2>1. ~ (FindUser(f, u) < 0)
      BY <1>1, FindUserIs DEF Slot
    <2>2. g = f
      BY <2>1 DEF WithUser
    <2>3. QED
      BY <1>1, <2>2 DEF SameFiles, StillDirty, StaysFair
  <1>2. CASE ~ Known(f, u)
    <2>1. FindUser(f, u) = -1
      BY <1>2, FindUserIs
    <2>2. f.unum < Allocated /\ ~ (UserPlace(f, u) < f.unum)
      BY <2>1
    <2>3. f.unum \in 0 .. Allocated /\ f.unum \in Slot /\ f.unum \in Nat
          /\ f.ustats \in [Slot -> Stat]
      BY <2>2, ServerFields, NumbersAssumption DEF Slot
    <2>4. UserPlace(f, u) = f.unum
      <3> DEFINE S == {f.unum} \cup { i \in 0 .. f.unum - 1 : f.ustats[i].user >= u }
      <3>1. S \in SUBSET (0 .. f.unum) /\ S \in SUBSET Nat /\ S # {}
        BY <2>3
      <3>2. UserPlace(f, u) = Min(S)
        BY DEF UserPlace
      <3> HIDE DEF S
      <3>3. Min(S) \in S
        BY <3>1, LeastOf
      <3>4. Min(S) \in 0 .. f.unum
        BY <3>1, <3>3
      <3>5. QED
        BY <2>2, <2>3, <3>2, <3>4
    <2> DEFINE s == [user |-> u, totbytes |-> 0, numfiles |-> 0]
               stats == [f.ustats EXCEPT ![f.unum] = s]
             p == UserPlace(f, u)
    <2>5. Moved(f.ustats, p + 1, p, f.unum - p) = f.ustats
      <3>1. f.unum - p = 0 /\ p + 1 \in Nat
        BY <2>3, <2>4
      <3>2. QED
        BY <2>3, <3>1, MovedNothing
    <2>6. g = [f EXCEPT !.ustats = stats, !.unum = @ + 1, !.udirty = TRUE]
      <3>1. g = Adduser(f, u)
        BY <2>1 DEF WithUser
      <3>2. g = [f EXCEPT !.ustats = [f.ustats EXCEPT ![p] = s],
                          !.unum = @ + 1, !.udirty = TRUE]
        <4> HIDE DEF s
        <4>1. g = [f EXCEPT !.ustats = [Moved(f.ustats, p + 1, p, f.unum - p) EXCEPT ![p] = s],
                            !.unum = @ + 1, !.udirty = TRUE]
          BY <3>1 DEF Adduser, s
        <4> HIDE DEF p
        <4>2. QED
          BY <2>5, <4>1
      <3>3. QED
        BY <2>4, <3>2
    <2>7. s \in Stat
      BY NumbersAssumption DEF Stat
    <2>8. stats \in [Slot -> Stat] /\ stats[f.unum].user = u /\ stats[f.unum] = s
          /\ \A i \in 0 .. f.unum - 1 : i \in Slot /\ stats[i] = f.ustats[i]
      <3>1. s.user = u
        OBVIOUS
      <3> HIDE DEF s
      <3>2. stats \in [Slot -> Stat] /\ stats[f.unum] = s
            /\ \A i \in Slot : i # f.unum => stats[i] = f.ustats[i]
        BY <2>3, <2>7
      <3>3. \A i \in 0 .. f.unum - 1 : i \in Slot /\ i # f.unum
        BY <2>3, NumbersAssumption DEF Slot
      <3> HIDE DEF stats
      <3>4. QED
        BY <3>1, <3>2, <3>3
    <2> HIDE DEF stats
    <2>9. g = [lastnum |-> f.lastnum, totbytes |-> f.totbytes, num |-> f.num,
               entries |-> f.entries, unum |-> f.unum + 1, ustats |-> stats,
               books |-> f.books, idirty |-> f.idirty, udirty |-> TRUE]
      BY <2>6 DEF Server
    <2>10. f.unum + 1 \in 0 .. Allocated
      BY <2>2, <2>3, NumbersAssumption
    <2>11. g \in Server /\ SameFiles(f, g) /\ g.books = f.books /\ g.lastnum = f.lastnum
           /\ g.unum = f.unum + 1 /\ g.ustats = stats /\ g.totbytes = f.totbytes
      BY <2>8, <2>9, <2>10, ServerFields DEF Server, SameFiles, Dirty, StillDirty
    <2>12. Known(g, u)
      <3>1. f.unum \in 0 .. g.unum - 1
        BY <2>3, <2>11
      <3>2. QED
        BY <2>8, <2>11, <3>1 DEF Known
    <2>13. ASSUME NEW v, Known(f, v)
           PROVE  Known(g, v)
      <3>1. PICK i \in 0 .. f.unum - 1 : f.ustats[i].user = v
        BY <2>13 DEF Known
      <3>2. i \in 0 .. g.unum - 1 /\ g.ustats[i].user = v
        BY <2>3, <2>8, <2>11, <3>1
      <3>3. QED
        BY <3>2 DEF Known
    <2>14. StaysFair(f, g)
      <3>1. SameIndex(f, g)
        BY <2>11 DEF SameFiles, SameIndex
      <3>2. g.ustats[f.unum] = s /\ \A i \in 0 .. f.unum - 1 : g.ustats[i] = f.ustats[i]
        BY <2>8, <2>11
      <3>3. Fair(f) => Fair(g)
        BY <1>2, <2>11, <3>1, <3>2, FairWithUser
      <3>4. QED
        BY <3>3 DEF StaysFair
    <2>15. QED
      BY <2>11, <2>12, <2>13, <2>14
  <1>3. QED
    BY <1>1, <1>2

\* A booking with the next number.
WithBooking(f, b) ==
  [f EXCEPT !.lastnum = b.filenum, !.books = Append(f.books, b)]
LEMMA BookedNext ==
  ASSUME NEW f \in Server, Numbered(f), NEW b \in Booking, b.filenum = f.lastnum + 1,
         NEW g, g = WithBooking(f, b)
  PROVE  /\ g \in Server /\ Numbered(g)
         /\ SameFiles(f, g) /\ SameUsers(f, g) /\ SameAccounts(f, g)
         /\ BookSet(g) = BookSet(f) \cup {b}
  <1> DEFINE s == Append(f.books, b)
             N == Len(f.books)
  <1>1. f.books \in Seq(Booking) /\ f.lastnum \in Nat /\ b.filenum \in Nat
    BY ServerFields DEF Booking
  <1>2. N \in Nat /\ DOMAIN f.books = 1 .. N
    BY <1>1, LenProperties
  <1>3. /\ s \in Seq(Booking) /\ DOMAIN s = 1 .. N + 1
        /\ s[N + 1] = b /\ \A k \in 1 .. N : s[k] = f.books[k]
    BY <1>1, <1>2, AppendProperties, LenProperties
  <1> HIDE DEF s
  <1>4. g = [f EXCEPT !.lastnum = b.filenum, !.books = s]
    BY DEF s, WithBooking
  <1>5. g = [lastnum |-> b.filenum, totbytes |-> f.totbytes, num |-> f.num,
             entries |-> f.entries, unum |-> f.unum, ustats |-> f.ustats,
             books |-> s, idirty |-> f.idirty, udirty |-> f.udirty]
    BY <1>4 DEF Server
  <1>6. /\ g \in Server /\ SameFiles(f, g) /\ SameUsers(f, g)
        /\ g.books = s /\ g.lastnum = f.lastnum + 1 /\ SameAccounts(f, g)
    BY <1>1, <1>3, <1>5, ServerFields
       DEF Server, SameFiles, SameUsers, Dirty, StillDirty, SameAccounts
  <1>7. BookSet(g) = BookSet(f) \cup {b}
    BY <1>2, <1>3, <1>6 DEF BookSet
  <1>8. \A i \in 0 .. f.num - 1 : /\ f.entries[i].filenum \in Nat
                                  /\ f.entries[i].filenum <= f.lastnum
    BY EntryFound DEF Numbered, Increasing
  <1>9. Increasing(g)
    BY <1>1, <1>6, <1>8 DEF Numbered, Increasing, SameFiles
  <1>10. \A k \in 1 .. N : /\ s[k].filenum \in Nat /\ s[k].filenum <= f.lastnum
                           /\ \A i \in 0 .. f.num - 1 : f.entries[i].filenum # s[k].filenum
                           /\ \A l \in 1 .. N : l # k => s[l].filenum # s[k].filenum
    BY <1>2, <1>3, BookFound DEF Numbered, Apart
  <1>11. ASSUME NEW k \in DOMAIN s
         PROVE  /\ s[k].filenum <= g.lastnum
                /\ \A i \in 0 .. f.num - 1 : f.entries[i].filenum # s[k].filenum
                /\ \A l \in DOMAIN s : l # k => s[l].filenum # s[k].filenum
    <2>1. CASE k = N + 1
      <3>1. \A l \in DOMAIN s : l # k => l \in 1 .. N
        BY <1>2, <1>3, <2>1
      <3>2. QED
        BY <1>1, <1>3, <1>6, <1>8, <1>10, <2>1, <3>1
    <2>2. CASE k # N + 1
      <3>1. k \in 1 .. N /\ \A l \in DOMAIN s : l \in 1 .. N \/ l = N + 1
        BY <1>2, <1>3, <2>2
      <3>2. g.lastnum = f.lastnum + 1
        BY <1>6
      <3>3. QED
        BY <1>1, <1>3, <1>10, <3>1, <3>2
    <2>3. QED
      BY <2>1, <2>2
  <1>12. Apart(g)
    BY <1>6, <1>11 DEF Apart, SameFiles
  <1>13. QED
    BY <1>6, <1>7, <1>9, <1>12 DEF Numbered

\* cmd_fupb when it does not refuse.
NewBooking(f, u, size) ==
  [user |-> u, filenum |-> f.lastnum + 1, size |-> size, purpose |-> NoPost]
Granted(f, u, size) ==
  [Charged(f, FindUser(f, u), size, 1)
     EXCEPT !.lastnum = f.lastnum + 1,
            !.books = Append(@, NewBooking(f, u, size))]
LEMMA FupbIs ==
  ASSUME NEW f \in Server, Numbered(f), NEW u \in Users, NEW size \in Sizes,
         Known(f, u),
         NEW g, g = Granted(f, u, size)
  PROVE  /\ g \in Server /\ Numbered(g)
         /\ SameFiles(f, g) /\ SameUsers(f, g)
         /\ BookSet(g) = BookSet(f) \cup {NewBooking(f, u, size)}
         /\ StaysFair(f, g)
  <1> DEFINE b == NewBooking(f, u, size)
             i == FindUser(f, u)
             c == Charged(f, i, size, 1)
  <1>1. size \in Int /\ 1 \in Int /\ i \in {-1} \cup Slot
    BY FindUserIs, NumbersAssumption
  <1> HIDE DEF i
  <1>2. /\ c \in Server /\ SameFiles(f, c) /\ SameUsers(f, c)
        /\ c.books = f.books /\ c.lastnum = f.lastnum
    <2>1. c = Charged(f, i, size, 1)
      OBVIOUS
    <2> HIDE DEF c
    <2>2. QED
      BY <1>1, <2>1, ChargedKeeps
  <1> HIDE DEF c
  <1>3. Numbered(c)
    BY <1>2 DEF Numbered, Increasing, Apart, SameFiles
  <1>4. b \in Booking /\ b.filenum = c.lastnum + 1
    BY <1>1, <1>2, ServerFields DEF Booking, NoPost, NewBooking
  <1>5. g = WithBooking(c, b)
    BY <1>2 DEF c, i, Server, WithBooking, Granted, NewBooking
  <1> HIDE DEF b
  <1>6. /\ g \in Server /\ Numbered(g)
        /\ SameFiles(c, g) /\ SameUsers(c, g) /\ SameAccounts(c, g)
        /\ BookSet(g) = BookSet(c) \cup {b}
    BY <1>2, <1>3, <1>4, <1>5, BookedNext
  <1>7. BookSet(c) = BookSet(f)
    BY <1>2 DEF BookSet
  <1>8. SameFiles(f, g) /\ SameUsers(f, g)
    BY <1>2, <1>6 DEF SameFiles, SameUsers, StillDirty
  <1>9. ASSUME Fair(f)
        PROVE  Fair(g)
    <2>1. PICK H : H = Held(f)
      OBVIOUS
    <2>2. Balanced(f, H)
      BY <1>9, <2>1 DEF Fair
    <2>3. b.user = u /\ b.size = size /\ b.filenum = f.lastnum + 1
      BY DEF b, NewBooking
    <2>4. b \notin H
      <3>1. ~ (f.lastnum + 1 <= f.lastnum)
        BY ServerFields
      <3>2. QED
        BY <2>1, <2>3, <3>1, HeldOnce
    <2>5. c = Charged(f, FindUser(f, u), b.size, 1)
      BY <2>3 DEF c, i
    <2>6. Balanced(c, H \cup {b})
      BY <1>1, <2>2, <2>3, <2>4, <2>5, ChargedMore
    <2>7. Held(g) = H \cup {b}
      <3>1. Files(g) = Files(f)
        BY <1>8 DEF SameFiles, Files
      <3>2. QED
        BY <1>6, <1>7, <2>1, <3>1 DEF Held
    <2>8. QED
      BY <1>6, <2>6, <2>7, BalancedSame DEF Fair
  <1>10. QED
    BY <1>6, <1>7, <1>8, <1>9 DEF b, StaysFair

\* cmd_fupl at the end: the file has the number that was booked, and the booking
\* is gone.
LEMMA FuplIs ==
  ASSUME NEW f \in Server, Numbered(f), NEW b \in BookSet(f), f.num < Allocated,
         ~ (FilePlace(f, b.filenum) < f.num),
         NEW e \in Entry, e.filenum = b.filenum,
         NEW g, g = Delbook(Addindex(f, e), b)
  PROVE  /\ g \in Server /\ Numbered(g) /\ SameUsers(f, g)
         /\ g.lastnum = f.lastnum /\ Dirty(g)
         /\ g.num = f.num + 1 /\ g.entries[f.num] = e
         /\ \A i \in 0 .. f.num - 1 : g.entries[i] = f.entries[i]
         /\ BookSet(g) = BookSet(f) \ {b}
         /\ e.size = b.size /\ e.user = b.user => StaysFair(f, g)
  <1> DEFINE n == b.filenum
             a == Addindex(f, e)
             es == [f.entries EXCEPT ![f.num] = e]
  <1>1. /\ f.num \in Nat /\ f.num \in Slot /\ f.entries \in [Slot -> Entry]
        /\ f.num + 1 \in 0 .. Allocated
        /\ \A i \in 0 .. f.num - 1 : i \in Slot /\ i # f.num
    <2>1. f.num \in 0 .. Allocated /\ f.entries \in [Slot -> Entry]
      BY ServerFields
    <2>2. QED
      BY <2>1, NumbersAssumption DEF Slot
  <1>2. PICK k \in DOMAIN f.books : b = f.books[k]
    BY DEF BookSet
  <1>3. n \in Nat /\ n <= f.lastnum
    BY <1>2, BookFound DEF Numbered, Apart
  <1>4. FilePlace(f, n) = f.num /\ \A i \in 0 .. f.num - 1 : f.entries[i].filenum < n
    <2> DEFINE S == {f.num} \cup { i \in 0 .. f.num - 1 : f.entries[i].filenum >= n }
    <2>1. S \in SUBSET (0 .. f.num) /\ S \in SUBSET Nat /\ S # {}
      BY <1>1
    <2>2. FilePlace(f, n) = Min(S)
      BY DEF FilePlace
    <2> HIDE DEF S
    <2>3. Min(S) \in S /\ \A i \in S : Min(S) <= i
      BY <2>1, LeastOf
    <2>4. Min(S) \in 0 .. f.num
      BY <2>1, <2>3
    <2>5. Min(S) = f.num
      BY <1>1, <2>2, <2>4
    <2>6. ASSUME NEW i \in 0 .. f.num - 1
          PROVE  f.entries[i].filenum < n
      <3>1. i \notin S
        BY <1>1, <2>3, <2>5
      <3>2. f.entries[i].filenum \in Nat
        BY EntryFound
      <3>3. QED
        BY <1>3, <3>1, <3>2 DEF S
    <2>7. QED
      BY <2>2, <2>5, <2>6
  <1>5. /\ es \in [Slot -> Entry] /\ es[f.num] = e
        /\ \A i \in 0 .. f.num - 1 : es[i] = f.entries[i]
    BY <1>1
  <1> DEFINE p == FilePlace(f, e.filenum)
  <1>6. Moved(f.entries, p + 1, p, f.num - p) = f.entries
    <2>1. f.num - p = 0 /\ p + 1 \in Nat
      BY <1>1, <1>4
    <2>2. QED
      BY <1>1, <2>1, MovedNothing
  <1>7. a = [f EXCEPT !.entries = es, !.num = @ + 1, !.idirty = TRUE, !.udirty = TRUE]
    <2>1. a = [f EXCEPT !.entries = [Moved(f.entries, p + 1, p, f.num - p) EXCEPT ![p] = e],
                        !.num = @ + 1, !.idirty = TRUE, !.udirty = TRUE]
      BY DEF Addindex
    <2> HIDE DEF a
    <2>2. p = f.num
      BY <1>4
    <2> HIDE DEF p
    <2>3. QED
      BY <1>6, <2>1, <2>2
  <1> HIDE DEF es, a, p
  <1>8. a = [lastnum |-> f.lastnum, totbytes |-> f.totbytes, num |-> f.num + 1,
             entries |-> es, unum |-> f.unum, ustats |-> f.ustats,
             books |-> f.books, idirty |-> TRUE, udirty |-> TRUE]
    BY <1>7 DEF Server
  <1>9. /\ a \in Server /\ SameUsers(f, a) /\ a.books = f.books
        /\ a.lastnum = f.lastnum /\ a.num = f.num + 1 /\ a.entries = es /\ Dirty(a)
        /\ SameAccounts(f, a)
    BY <1>1, <1>5, <1>8, ServerFields DEF Server, SameUsers, Dirty, SameAccounts
  <1>10. BookSet(a) = BookSet(f)
    BY <1>9 DEF BookSet
  <1>11. \A j, l \in DOMAIN a.books : j # l => a.books[j] # a.books[l]
    BY <1>9, ApartDiffer DEF Numbered
  <1>12. /\ g = [a EXCEPT !.books = g.books]
         /\ g \in Server
         /\ BookSet(g) = BookSet(f) \ {b}
         /\ \E at \in [DOMAIN g.books -> DOMAIN a.books] :
              /\ \A j \in DOMAIN g.books : g.books[j] = a.books[at[j]]
              /\ \A j, l \in DOMAIN g.books : j # l => at[j] # at[l]
    <2>1. g = Delbook(a, b)
      BY DEF a
    <2>2. QED
      BY <1>9, <1>10, <1>11, <2>1, DelbookIs
  <1>13. PICK at \in [DOMAIN g.books -> DOMAIN f.books] :
              /\ \A j \in DOMAIN g.books : g.books[j] = f.books[at[j]]
              /\ \A j, l \in DOMAIN g.books : j # l => at[j] # at[l]
    BY <1>9, <1>12
  <1>14. /\ g.lastnum = f.lastnum /\ g.num = f.num + 1 /\ g.entries = es
         /\ SameUsers(f, g) /\ Dirty(g) /\ SameAccounts(f, g)
    <2>1. a \in Server /\ g = [a EXCEPT !.books = g.books]
      BY <1>9, <1>12
    <2>2. /\ g.lastnum = a.lastnum /\ g.num = a.num /\ g.entries = a.entries
          /\ g.unum = a.unum /\ g.ustats = a.ustats /\ g.idirty = a.idirty
          /\ g.totbytes = a.totbytes
      BY <2>1 DEF Server
    <2>3. QED
      BY <1>9, <2>2 DEF SameUsers, Dirty, SameAccounts
  <1>15. \A i \in 0 .. g.num - 1 : i \in 0 .. f.num - 1 \/ i = f.num
    BY <1>1, <1>14
  <1>16. Increasing(g)
    <2>1. ASSUME NEW i \in 0 .. g.num - 1
          PROVE  es[i].filenum <= f.lastnum
      BY <1>3, <1>5, <1>15 DEF Numbered, Increasing
    <2>2. ASSUME NEW i \in 0 .. g.num - 1, NEW j \in 0 .. g.num - 1, i < j
          PROVE  es[i].filenum < es[j].filenum
      <3>1. i \in 0 .. f.num - 1
        BY <1>1, <1>15, <2>2
      <3>2. CASE j = f.num
        BY <1>4, <1>5, <3>1, <3>2
      <3>3. CASE j # f.num
        BY <1>5, <1>15, <2>2, <3>1, <3>3 DEF Numbered, Increasing
      <3>4. QED
        BY <3>2, <3>3
    <2>3. QED
      BY <1>14, <2>1, <2>2 DEF Increasing
  <1>17. Apart(g)
    <2>1. SUFFICES ASSUME NEW j \in DOMAIN g.books
                   PROVE  /\ g.books[j].filenum <= f.lastnum
                          /\ \A i \in 0 .. g.num - 1 : es[i].filenum # g.books[j].filenum
                          /\ \A l \in DOMAIN g.books : l # j => g.books[l].filenum # g.books[j].filenum
      BY <1>14 DEF Apart
    <2>2. g.books[j] = f.books[at[j]] /\ at[j] \in DOMAIN f.books
      BY <1>13
    <2>3. at[j] # k
      <3>1. g.books[j] \in BookSet(g)
        BY DEF BookSet
      <3>2. QED
        BY <1>2, <1>12, <2>2, <3>1
    <2>4. \A i \in 0 .. g.num - 1 : es[i].filenum # g.books[j].filenum
      BY <1>2, <1>5, <1>15, <2>2, <2>3 DEF Numbered, Apart
    <2>5. g.books[j].filenum <= f.lastnum
      BY <2>2 DEF Numbered, Apart
    <2>6. \A l \in DOMAIN g.books : l # j => g.books[l].filenum # g.books[j].filenum
      BY <1>13, <2>2 DEF Numbered, Apart
    <2>7. QED
      BY <2>4, <2>5, <2>6
  <1>18. ASSUME e.size = b.size, e.user = b.user, Fair(f)
         PROVE  Fair(g)
    <2>1. Like(b, e) /\ Like(e, b) /\ \A x : Like(x, x)
      BY <1>18 DEF Like
    <2>2. Files(g) = Files(f) \cup {e}
      <3>1. \A i \in 0 .. f.num - 1 : i \in 0 .. g.num - 1
        BY <1>1, <1>14
      <3>2. f.num \in 0 .. g.num - 1
        BY <1>1, <1>14
      <3>3. \A i \in 0 .. f.num - 1 : g.entries[i] = f.entries[i]
        BY <1>5, <1>14
      <3>4. g.entries[f.num] = e
        BY <1>5, <1>14
      <3>5. \A x \in Files(g) : x \in Files(f) \cup {e}
        BY <1>15, <3>3, <3>4 DEF Files
      <3>6. \A x \in Files(f) \cup {e} : x \in Files(g)
        BY <3>1, <3>2, <3>3, <3>4 DEF Files
      <3>7. QED
        BY <3>5, <3>6
    <2>3. Likewise(Held(f), Held(g)) /\ Likewise(Held(g), Held(f))
      BY <1>12, <2>1, <2>2 DEF Likewise, Held
    <2>4. QED
      BY <1>12, <1>14, <1>16, <1>17, <1>18, <2>3, FairLike DEF Numbered
  <1>19. e.size = b.size /\ e.user = b.user => StaysFair(f, g)
    BY <1>18 DEF StaysFair
  <1>20. QED
    BY <1>5, <1>12, <1>14, <1>16, <1>17, <1>19 DEF Numbered

\* What cmd_pste does with the bookings changes no number.
Posted(f, u, n) == [f EXCEPT !.books = Assigned(@, u, n)]
LEMMA AssignedIs ==
  ASSUME NEW f \in Server, NEW u \in Users, NEW n \in Int,
         NEW g, g = Posted(f, u, n)
  PROVE  /\ g \in Server /\ SameFiles(f, g) /\ SameUsers(f, g)
         /\ g.lastnum = f.lastnum
         /\ Numbered(f) => Numbered(g)
         /\ StaysFair(f, g)
         /\ DOMAIN g.books = DOMAIN f.books
         /\ \A k \in DOMAIN f.books :
              /\ g.books[k].user = f.books[k].user
              /\ g.books[k].purpose = IF f.books[k].user = u /\ f.books[k].purpose = NoPost
                                      THEN n ELSE f.books[k].purpose
  <1> DEFINE s == Assigned(f.books, u, n)
             N == Len(f.books)
  <1>1. N \in Nat /\ DOMAIN f.books = 1 .. N
    BY ServerFields, LenProperties
  <1>2. ASSUME NEW k \in DOMAIN f.books
        PROVE  /\ s[k] \in Booking
               /\ s[k].user = f.books[k].user /\ s[k].filenum = f.books[k].filenum
               /\ s[k].size = f.books[k].size
               /\ s[k].purpose = IF f.books[k].user = u /\ f.books[k].purpose = NoPost
                                 THEN n ELSE f.books[k].purpose
    <2>1. f.books[k] \in Booking
      BY BookFound
    <2>2. s[k] = IF f.books[k].user = u /\ f.books[k].purpose = NoPost
                 THEN [f.books[k] EXCEPT !.purpose = n] ELSE f.books[k]
      BY DEF Assigned
    <2>3. QED
      BY <2>1, <2>2 DEF Booking
  <1>3. s \in [1 .. N -> Booking]
    <2>1. \A k \in 1 .. N : s[k] \in Booking
      BY <1>1, <1>2
    <2>2. s = [k \in 1 .. N |-> s[k]]
      BY <1>1 DEF Assigned
    <2> HIDE DEF s
    <2>3. QED
      BY <2>1, <2>2
  <1>4. s \in Seq(Booking) /\ DOMAIN s = DOMAIN f.books
    BY <1>1, <1>3, SeqDef
  <1> HIDE DEF s
  <1>5. g = [f EXCEPT !.books = s]
    BY DEF s, Server, Posted
  <1>6. g = [lastnum |-> f.lastnum, totbytes |-> f.totbytes, num |-> f.num,
             entries |-> f.entries, unum |-> f.unum, ustats |-> f.ustats,
             books |-> s, idirty |-> f.idirty, udirty |-> f.udirty]
    BY <1>5 DEF Server
  <1>7. /\ g \in Server /\ SameFiles(f, g) /\ SameUsers(f, g)
        /\ g.books = s /\ g.lastnum = f.lastnum /\ SameAccounts(f, g)
    BY <1>4, <1>6, ServerFields
       DEF Server, SameFiles, SameUsers, Dirty, StillDirty, SameAccounts
  <1>8. Numbered(f) => Numbered(g)
    BY <1>2, <1>4, <1>7 DEF Numbered, Increasing, Apart, SameFiles
  <1>9. Likewise(Held(f), Held(g)) /\ Likewise(Held(g), Held(f))
    <2>1. Files(g) = Files(f)
      BY <1>7 DEF SameFiles, Files
    <2>2. \A k \in DOMAIN f.books : Like(f.books[k], s[k]) /\ Like(s[k], f.books[k])
      BY <1>2 DEF Like
    <2>3. Likewise(BookSet(f), BookSet(g)) /\ Likewise(BookSet(g), BookSet(f))
      BY <1>4, <1>7, <2>2 DEF Likewise, BookSet
    <2>4. \A x : Like(x, x)
      BY DEF Like
    <2>5. QED
      BY <2>1, <2>3, <2>4 DEF Likewise, Held
  <1>10. StaysFair(f, g)
    BY <1>7, <1>8, <1>9, FairLike DEF StaysFair
  <1>11. QED
    BY <1>2, <1>4, <1>7, <1>8, <1>10

\* fs_addcopy counts one copy more of one file of the post, if it has one.
CopySlot(f, m) == Found({ k \in 0 .. f.num - 1 : f.entries[k].msgnum = m })

LEMMA AddcopyIs ==
  ASSUME NEW f \in Server, NEW m, NEW g, g = Addcopy(f, m)
  PROVE  /\ g \in Server /\ SameUsers(f, g)
         /\ g.books = f.books /\ g.lastnum = f.lastnum /\ g.num = f.num
         /\ \A k \in 0 .. f.num - 1 :
              g.entries[k] = IF k = CopySlot(f, m)
                             THEN [f.entries[k] EXCEPT !.copies = @ + 1]
                             ELSE f.entries[k]
         /\ \/ CopySlot(f, m) = -1 /\ \A k \in 0 .. f.num - 1 : f.entries[k].msgnum # m
            \/ CopySlot(f, m) \in 0 .. f.num - 1 /\ f.entries[CopySlot(f, m)].msgnum = m
         /\ Numbered(f) => Numbered(g)
         /\ StaysFair(f, g)
  <1> DEFINE S == { k \in 0 .. f.num - 1 : f.entries[k].msgnum = m }
             i == CopySlot(f, m)
             es == [f.entries EXCEPT ![i].copies = @ + 1]
  <1>1. f.num \in 0 .. Allocated /\ f.entries \in [Slot -> Entry] /\ f.num \in Nat
    BY ServerFields, NumbersAssumption
  <1>2. /\ S = {} => i = -1
        /\ S # {} => i \in S
    <2>1. S \in SUBSET Nat
      BY <1>1
    <2>2. i = IF S = {} THEN -1 ELSE Min(S)
      BY DEF CopySlot, Found
    <2> HIDE DEF S, i
    <2>3. QED
      BY <2>1, <2>2, LeastOf
  <1>3. g = IF i < 0 THEN f ELSE [f EXCEPT !.entries[i].copies = @ + 1]
    BY DEF Addcopy, CopySlot
  <1>4. CASE S = {}
    <2>1. g = f /\ i = -1
      BY <1>2, <1>3, <1>4
    <2>2. QED
      BY <1>1, <1>4, <2>1 DEF SameUsers, StaysFair
  <1>5. CASE S # {}
    <2>1. i \in 0 .. f.num - 1 /\ f.entries[i].msgnum = m /\ ~ (i < 0)
      BY <1>1, <1>2, <1>5
    <2>2. i \in Slot /\ f.entries[i] \in Entry /\ \A k \in 0 .. f.num - 1 : k \in Slot
      BY <2>1, EntryFound
    <2> HIDE DEF i
    <2>3. g = [f EXCEPT !.entries = es]
      BY <1>1, <1>3, <2>1 DEF Server
    <2>4. /\ es \in [Slot -> Entry]
          /\ \A k \in 0 .. f.num - 1 :
               es[k] = IF k = i THEN [f.entries[k] EXCEPT !.copies = @ + 1]
                       ELSE f.entries[k]
      BY <1>1, <2>2 DEF Entry
    <2> HIDE DEF es
    <2>5. g = [lastnum |-> f.lastnum, totbytes |-> f.totbytes, num |-> f.num,
               entries |-> es, unum |-> f.unum, ustats |-> f.ustats,
               books |-> f.books, idirty |-> f.idirty, udirty |-> f.udirty]
      BY <2>3 DEF Server
    <2>6. /\ g \in Server /\ SameUsers(f, g)
          /\ g.books = f.books /\ g.lastnum = f.lastnum /\ g.num = f.num
          /\ g.entries = es
      BY <2>4, <2>5, ServerFields DEF Server, SameUsers
    <2>7. /\ Numbered(f) => Numbered(g)
          /\ Numbered(f) /\ Fair(f) => Fair(g)
      <3>1. PICK c : c = f.entries[i].copies + 1
        OBVIOUS
      <3>2. c \in Int /\ i \in 0 .. f.num - 1
        BY <2>1, <2>2, <3>1 DEF Entry
      <3>3. g = Recounted(f, i, c)
        BY <1>3, <2>1, <3>1 DEF Recounted
      <3>4. QED
        BY <3>2, <3>3, RecountedIs
    <2>8. QED
      BY <2>1, <2>4, <2>6, <2>7 DEF i, StaysFair
  <1>6. QED
    BY <1>4, <1>5

\* To cancel a booking of user u, whether or not u has statistics.
LEMMA CancelOneIs ==
  ASSUME NEW f \in Server, Numbered(f), NEW b \in BookSet(f), NEW u, b.user = u,
         NEW g, g = Cancel(f, b, FindUser(f, u))
  PROVE  /\ g \in Server /\ Numbered(g) /\ StaysFair(f, g)
         /\ SameFiles(f, g) /\ SameUsers(f, g)
         /\ BookSet(g) \subseteq BookSet(f)
  <1>1. CASE Known(f, u)
    <2>1. FindUser(f, u) \in Slot
      BY <1>1, FindUserIs
    <2>2. StaysFair(f, g)
      BY CancelFair DEF StaysFair
    <2>3. QED
      BY <2>1, <2>2, CancelIs
  <1>2. CASE ~ Known(f, u)
    <2>1. g = f
      BY <1>2, FindUserIs DEF Cancel
    <2>2. QED
      BY <2>1 DEF SameFiles, SameUsers, StillDirty, StaysFair
  <1>3. QED
    BY <1>1, <1>2

-----------------------------------------------------------------------------
(***************************************************************************)
(* Rooms.                                                                  *)
(***************************************************************************)
List  == [1 .. RoomLen -> Int]
Lists == [Rooms -> List]

\* There is a place for a post that is copied: before the first slot with a
\* later post, or at the end.
LEMMA PlaceIn ==
  ASSUME NEW s \in List, NEW n \in Int
  PROVE  Place(s, n) \in 2 .. RoomLen
  <1> DEFINE S == { k \in 2 .. RoomLen : k = RoomLen \/ s[k + 1] >= n }
             p == Min(S)
  <1>1. S \in SUBSET Nat /\ S # {}
    <2>1. RoomLen \in S
      BY NumbersAssumption
    <2>2. \A k \in 2 .. RoomLen : k \in Nat
      OBVIOUS
    <2>3. QED
      BY <2>1, <2>2
  <1>2. p \in S /\ \A k \in S : p <= k
    <2> HIDE DEF S
    <2>1. QED
      BY <1>1, LeastOf
  <1> HIDE DEF p
  <1>3. ASSUME NEW j \in 3 .. p
        PROVE  s[j] < n
    <2>1. j - 1 \in 2 .. RoomLen /\ ~ (p <= j - 1) /\ j - 1 # RoomLen
      BY <1>2, NumbersAssumption
    <2>2. j - 1 \notin S
      BY <1>2, <2>1
    <2>3. s[(j - 1) + 1] \in Int /\ (j - 1) + 1 = j
      BY <1>2, NumbersAssumption DEF List
    <2>4. QED
      BY <2>1, <2>2, <2>3
  <1>4. p \in 2 .. RoomLen /\ (p = RoomLen \/ s[p + 1] >= n)
    BY <1>2
  <1>5. QED
    BY <1>3, <1>4 DEF Place

\* The lists stay lists.
LEMMA ListsKept ==
  ASSUME NEW s \in List, NEW n \in Int
  PROVE  /\ Scrolled(s, n) \in List
         /\ \A k \in 1 .. RoomLen : Without(s, k) \in List
         /\ Inserted(s, n) \in List
  <1>1. RoomLen \in Nat
    BY NumbersAssumption
  <1>2. Scrolled(s, n) \in List
    BY <1>1 DEF Scrolled, List
  <1>3. ASSUME NEW k \in 1 .. RoomLen
        PROVE  Without(s, k) \in List
    BY <1>1 DEF Without, List, NoPost
  <1>4. Inserted(s, n) \in List
    <2>1. Place(s, n) \in 2 .. RoomLen
      BY PlaceIn
    <2>2. QED
      BY <1>1, <2>1 DEF Inserted, List
  <1>5. QED
    BY <1>2, <1>3, <1>4

-----------------------------------------------------------------------------
(***************************************************************************)
(* The inductive invariant: the arrays are in order, the numbers of files  *)
(* and bookings are apart, and what was saved is in order too.             *)
(***************************************************************************)
Sessions == [Users -> [stato : {"OFF", "COMANDI", "POST", "UPLOAD"}, last : Int]]

StateTypes ==
  /\ fs \in Server
  /\ disk \in [fs : Server, list : Lists, highest : Nat]
  /\ session \in Sessions
  /\ list \in Lists
  /\ highest \in Nat

NumInv == InOrder => StateTypes /\ Numbered(fs) /\ Increasing(disk.fs)

\* The fields of the other variables.
LEMMA TypeFields ==
  ASSUME StateTypes
  PROVE  /\ disk.fs \in Server /\ disk.list \in Lists /\ disk.highest \in Nat
         /\ \A u \in Users : /\ session[u] = [stato |-> session[u].stato,
                                              last |-> session[u].last]
                             /\ session[u].last \in Int
         /\ \A r \in Rooms : list[r] \in List
         /\ \A r \in Rooms, i \in 1 .. RoomLen : list[r][i] \in Int
         /\ "Files" \in Rooms /\ "Other" \in Rooms
         /\ 1 \in 1 .. RoomLen
  <1>1. disk.fs \in Server /\ disk.list \in Lists /\ disk.highest \in Nat
    BY DEF StateTypes
  <1>2. \A u \in Users : /\ session[u] = [stato |-> session[u].stato,
                                            last |-> session[u].last]
                          /\ session[u].last \in Int
    BY DEF StateTypes, Sessions
  <1>3. \A r \in Rooms : list[r] \in List
    BY DEF StateTypes, Lists
  <1>4. \A r \in Rooms, i \in 1 .. RoomLen : list[r][i] \in Int
    BY <1>3 DEF List
  <1>5. "Files" \in Rooms /\ "Other" \in Rooms /\ 1 \in 1 .. RoomLen
    BY NumbersAssumption DEF Rooms
  <1>6. QED
    BY <1>1, <1>2, <1>3, <1>4, <1>5

\* Nothing is moved in the middle.
LEMMA NotInMiddle ==
  ASSUME InOrder
  PROVE  ~ may("DEL_MIDDLE") /\ ~ may("ADD_MIDDLE") /\ ~ may("USER_MIDDLE")
  BY DEF InOrder, may

\* Commands that leave the server alone.
LEMMA QuietStep ==
  ASSUME StateTypes, NEW u \in Users,
         Login(u) \/ Pstb(u) \/ PostTimeout(u) \/ Fupe(u) \/ Cusr(u)
  PROVE  /\ UNCHANGED << commands, fs, list, highest, disk, uploads, saves, crashes >>
         /\ session' \in Sessions
         /\ \A v \in Users : v # u => session'[v] = session[v]
  <1>1. CASE Login(u)
    <2>1. session' = [session EXCEPT ![u] = [stato |-> "COMANDI", last |-> NoPost]]
          /\ UNCHANGED << commands, fs, list, highest, disk, uploads, saves, crashes >>
      BY <1>1 DEF Login, Bounds
    <2>2. QED
      BY <2>1 DEF StateTypes, Sessions, NoPost
  <1>2. ASSUME NEW stato \in {"OFF", "COMANDI", "POST", "UPLOAD"}, To(u, stato)
        PROVE  session' \in Sessions /\ \A v \in Users : v # u => session'[v] = session[v]
    BY <1>2 DEF To, StateTypes, Sessions
  <1>3. CASE Pstb(u)
    BY <1>2, <1>3 DEF Pstb, Bounds
  <1>4. CASE PostTimeout(u)
    BY <1>2, <1>4 DEF PostTimeout, Bounds
  <1>5. CASE Fupe(u)
    BY <1>2, <1>5 DEF Fupe, Bounds
  <1>6. CASE Cusr(u)
    BY <1>2, <1>6 DEF Cusr, Bounds
  <1>7. QED
    BY <1>1, <1>3, <1>4, <1>5, <1>6

\* cmd_fupb.
LEMMA FupbStep ==
  ASSUME StateTypes, InOrder, Numbered(fs), NEW u \in Users, NEW size \in Sizes,
         Fupb(u, size)
  PROVE  /\ UNCHANGED << commands, session, list, highest, disk, crashes >>
         /\ session[u].stato = "POST"
         /\ fs' \in Server /\ Numbered(fs') /\ SameFiles(fs, fs')
         /\ StaysFair(fs, fs')
         /\ \A v : Known(fs, v) => Known(fs', v)
         /\ \/ BookSet(fs') = BookSet(fs)
            \/ /\ Known(fs', u)
               /\ \E f : BookSet(fs') = BookSet(fs) \cup {NewBooking(f, u, size)}
  <1> DEFINE f == WithUser(fs, u)
             i == FindUser(f, u)
             refused == \/ f.ustats[i].totbytes + size > MaxUser
                        \/ f.ustats[i].numfiles = MaxNum
                        \/ f.totbytes + size > DirSize
             g == Granted(f, u, size)
  <1>1. /\ session[u].stato = "POST"
        /\ FindUser(fs, u) < 0 => fs.unum < Allocated /\ ~ (UserPlace(fs, u) < fs.unum)
        /\ fs' = IF refused THEN f ELSE g
        /\ UNCHANGED << commands, session, list, highest, disk, crashes >>
    BY NotInMiddle DEF Fupb, UserFits, Bounds, Granted, NewBooking
  <1>2. fs \in Server
    BY DEF StateTypes
  <1> HIDE DEF refused
  <1>3. /\ f \in Server /\ SameFiles(fs, f) /\ StaysFair(fs, f)
        /\ f.books = fs.books /\ f.lastnum = fs.lastnum
        /\ Known(f, u)
        /\ \A v : Known(fs, v) => Known(f, v)
    <2>1. f = WithUser(fs, u)
      OBVIOUS
    <2> HIDE DEF f
    <2>2. QED
      BY <1>1, <1>2, <2>1, WithUserIs
  <1> HIDE DEF f
  <1>4. Numbered(f)
    BY <1>3 DEF Numbered, Increasing, Apart, SameFiles
  <1>5. BookSet(f) = BookSet(fs)
    BY <1>3 DEF BookSet
  <1>6. /\ g \in Server /\ Numbered(g)
        /\ SameFiles(f, g) /\ SameUsers(f, g) /\ StaysFair(f, g)
        /\ BookSet(g) = BookSet(f) \cup {NewBooking(f, u, size)}
    <2>1. g = Granted(f, u, size)
      OBVIOUS
    <2> HIDE DEF g
    <2>2. QED
      BY <1>3, <1>4, <2>1, FupbIs
  <1> HIDE DEF g
  <1>7. SameFiles(fs, g) /\ \A v : Known(f, v) => Known(g, v)
    <2>1. \A j \in 0 .. f.unum - 1 : j \in Slot
      BY <1>3, ServerFields, NumbersAssumption DEF Slot
    <2>2. QED
      BY <1>3, <1>6, <2>1 DEF SameFiles, SameUsers, Known, StillDirty
  <1>8. StaysFair(fs, g)
    BY <1>3, <1>4, <1>6 DEF StaysFair
  <1>9. QED
    BY <1>1, <1>3, <1>4, <1>5, <1>6, <1>7, <1>8

\* cmd_pste.
LEMMA PsteStep ==
  ASSUME StateTypes, InOrder, Numbered(fs), NEW u \in Users, Pste(u),
         NEW m, m = list["Files"][1], NEW n, n = highest + 1,
         NEW d, d = DeleteFile(fs, m)
  PROVE  /\ UNCHANGED << commands, disk, crashes >>
         /\ session[u].stato = "POST"
         /\ highest' = n /\ n \in Nat
         /\ list' = [list EXCEPT !["Files"] = Scrolled(@, n)] /\ list' \in Lists
         /\ session' = [session EXCEPT ![u] = [stato |-> "COMANDI", last |-> n]]
         /\ session' \in Sessions
         /\ ~ MiddleGoes(fs, m)
         /\ fs' \in Server /\ Numbered(fs') /\ SameFiles(d, fs') /\ SameUsers(fs, fs')
         /\ StaysFair(fs, fs')
         /\ DOMAIN fs'.books = DOMAIN fs.books
         /\ \A k \in DOMAIN fs.books :
              /\ fs'.books[k].user = fs.books[k].user
              /\ fs'.books[k].purpose =
                   IF fs.books[k].user = u /\ fs.books[k].purpose = NoPost
                   THEN n ELSE fs.books[k].purpose
  <1>1. /\ UNCHANGED << commands, disk, crashes >>
        /\ session[u].stato = "POST"
        /\ highest' = n
        /\ list' = [list EXCEPT !["Files"] = Scrolled(@, n)]
        /\ session' = [session EXCEPT ![u] = [stato |-> "COMANDI", last |-> n]]
        /\ ~ MiddleGoes(fs, m)
        /\ fs' = [d EXCEPT !.books = Assigned(@, u, n)]
    BY NotInMiddle DEF Pste, Bounds
  <1>2. n \in Nat /\ n \in Int /\ fs \in Server
    BY DEF StateTypes
  <1>3. list' \in Lists
    <2>1. Scrolled(list["Files"], n) \in List
      BY <1>2, TypeFields, ListsKept
    <2>2. QED
      BY <1>1, <2>1, TypeFields DEF StateTypes, Lists
  <1>4. session' \in Sessions
    BY <1>1, <1>2 DEF StateTypes, Sessions
  <1>5. /\ d \in Server /\ SameUsers(fs, d) /\ d.books = fs.books
        /\ Numbered(d) /\ StaysFair(fs, d)
    BY <1>1, <1>2, DeletedKeeps
  <1>6. PICK g : g = Posted(d, u, n)
    OBVIOUS
  <1>7. /\ g \in Server /\ SameFiles(d, g) /\ SameUsers(d, g)
        /\ Numbered(g) /\ StaysFair(d, g)
        /\ DOMAIN g.books = DOMAIN d.books
        /\ \A k \in DOMAIN d.books :
             /\ g.books[k].user = d.books[k].user
             /\ g.books[k].purpose = IF d.books[k].user = u /\ d.books[k].purpose = NoPost
                                     THEN n ELSE d.books[k].purpose
    BY <1>2, <1>5, <1>6, AssignedIs
  <1>8. SameUsers(fs, g)
    BY <1>5, <1>7 DEF SameUsers
  <1>9. fs' = g
    BY <1>1, <1>6 DEF Posted
  <1>10. DOMAIN g.books = DOMAIN fs.books
         /\ \A k \in DOMAIN fs.books :
              /\ g.books[k].user = fs.books[k].user
              /\ g.books[k].purpose =
                   IF fs.books[k].user = u /\ fs.books[k].purpose = NoPost
                   THEN n ELSE fs.books[k].purpose
    BY <1>5, <1>7
  <1>11. /\ fs' \in Server /\ Numbered(fs') /\ SameFiles(d, fs') /\ SameUsers(fs, fs')
         /\ StaysFair(fs, fs')
    <2>1. StaysFair(fs, g)
      BY <1>5, <1>7 DEF StaysFair
    <2>2. QED
      BY <1>7, <1>8, <1>9, <2>1
  <1>12. DOMAIN fs'.books = DOMAIN fs.books
         /\ \A k \in DOMAIN fs.books :
              /\ fs'.books[k].user = fs.books[k].user
              /\ fs'.books[k].purpose =
                   IF fs.books[k].user = u /\ fs.books[k].purpose = NoPost
                   THEN n ELSE fs.books[k].purpose
    BY <1>9, <1>10
  <1>13. QED
    BY <1>1, <1>2, <1>3, <1>4, <1>11, <1>12, Zenon

\* The bookings of a user are given up.
LEMMA GivenUpStep ==
  ASSUME StateTypes, Numbered(fs), NEW u, fs' = GivenUp(u)
  PROVE  /\ fs' \in Server /\ Numbered(fs')
         /\ SameFiles(fs, fs') /\ SameUsers(fs, fs')
         /\ ~ Known(fs, u) => fs' = fs
         /\ Known(fs, u) => BookSet(fs') = { b \in BookSet(fs) : b.user # u }
         /\ StaysFair(fs, fs')
  <1>1. PICK g : g = CancelAll(fs, u)
    OBVIOUS
  <1>2. fs' = g /\ fs \in Server
    BY <1>1 DEF GivenUp, StateTypes
  <1>3. QED
    BY <1>1, <1>2, CancelAllIs DEF StaysFair

\* cmd_fupl of a file that was booked: e is the file.
Uploaded(u, k, e) ==
  /\ UNCHANGED << commands, list, highest, disk, crashes >>
  /\ session[u].stato = "COMANDI"
  /\ session' = [session EXCEPT ![u].stato = "UPLOAD"]
  /\ fs.books[k].user = u
  /\ e.msgnum = session[u].last /\ e.purpose = fs.books[k].purpose
  /\ e.copies = 1
  /\ ~ e.late => /\ session[u].last # NoPost
                 /\ Cardinality(SlotsWith(session[u].last)) = 1
  /\ fs' \in Server /\ Numbered(fs') /\ SameUsers(fs, fs') /\ Dirty(fs')
  /\ fs'.num = fs.num + 1 /\ fs'.entries[fs.num] = e
  /\ \A i \in 0 .. fs.num - 1 : fs'.entries[i] = fs.entries[i]
  /\ BookSet(fs') = BookSet(fs) \ {fs.books[k]}

LEMMA FuplStep ==
  ASSUME StateTypes, InOrder, Numbered(fs), NEW u \in Users,
         NEW k \in DOMAIN fs.books, Fupl(u, k, TRUE)
  PROVE  StaysFair(fs, fs') /\ \E e \in Entry : Uploaded(u, k, e)
  <1> DEFINE b == fs.books[k]
             late == session[u].last = NoPost \/ Cardinality(SlotsWith(session[u].last)) # 1
             e == [filenum |-> b.filenum, size |-> b.size, user |-> u,
                   msgnum |-> session[u].last, copies |-> 1,
                   purpose |-> b.purpose, late |-> late]
  <1>1. /\ UNCHANGED << commands, list, highest, disk, crashes >>
        /\ session[u].stato = "COMANDI"
        /\ session' = [session EXCEPT ![u].stato = "UPLOAD"]
        /\ b.user = u
        /\ fs.num < Allocated /\ ~ (FilePlace(fs, b.filenum) < fs.num)
        /\ fs' = Delbook(Addindex(fs, e), b)
    BY NotInMiddle DEF Fupl, Bounds, To
  <1>2. fs \in Server /\ b \in BookSet(fs)
    BY DEF StateTypes, BookSet
  <1>3. late \in BOOLEAN
    OBVIOUS
  <1> HIDE DEF late
  <1>4. e \in Entry
    <2>1. b.filenum \in Nat /\ b.size \in Int /\ b.purpose \in Int
      BY <1>2, BookFound
    <2>2. u \in Int /\ session[u].last \in Int
      <3>1. u \in 1 .. 255
        BY NumbersAssumption
      <3>2. session[u].last \in Int
        BY TypeFields
      <3>3. QED
        BY <3>1, <3>2
    <2> HIDE DEF b
    <2>3. QED
      BY <1>3, <2>1, <2>2 DEF Entry
  <1>5. /\ e.filenum = b.filenum /\ e.msgnum = session[u].last /\ e.copies = 1
        /\ e.purpose = b.purpose /\ e.late = late
        /\ e.size = b.size /\ e.user = u
    OBVIOUS
  <1> HIDE DEF e, b
  <1>6. PICK g : g = Delbook(Addindex(fs, e), b)
    OBVIOUS
  <1>7. fs' = g
    BY <1>1, <1>6
  <1>8. /\ g \in Server /\ Numbered(g) /\ SameUsers(fs, g) /\ Dirty(g)
        /\ g.num = fs.num + 1 /\ g.entries[fs.num] = e
        /\ \A i \in 0 .. fs.num - 1 : g.entries[i] = fs.entries[i]
        /\ BookSet(g) = BookSet(fs) \ {b}
        /\ StaysFair(fs, g)
    BY <1>1, <1>2, <1>4, <1>5, <1>6, FuplIs
  <1>9. QED
    BY <1>1, <1>4, <1>5, <1>7, <1>8 DEF b, late, Uploaded

\* A booking is cancelled, by cmd_fupl or by cmd_fbkd.
LEMMA CancelStep ==
  ASSUME StateTypes, Numbered(fs), NEW u \in Users, NEW k \in DOMAIN fs.books,
         Fbkd(u, k) \/ Fupl(u, k, FALSE)
  PROVE  /\ UNCHANGED << commands, session, list, highest, disk, crashes >>
         /\ fs' \in Server /\ Numbered(fs')
         /\ SameFiles(fs, fs') /\ SameUsers(fs, fs')
         /\ BookSet(fs') \subseteq BookSet(fs)
         /\ StaysFair(fs, fs')
  <1>1. /\ UNCHANGED << commands, session, list, highest, disk, crashes >>
        /\ fs.books[k].user = u
        /\ fs' = Cancel(fs, fs.books[k], FindUser(fs, u))
    BY DEF Fbkd, Fupl, Bounds
  <1>2. PICK g : g = Cancel(fs, fs.books[k], FindUser(fs, u))
    OBVIOUS
  <1>3. fs' = g /\ fs \in Server /\ fs.books[k] \in BookSet(fs)
    BY <1>1, <1>2 DEF StateTypes, BookSet
  <1>4. QED
    BY <1>1, <1>2, <1>3, CancelOneIs

\* cmd_fdnl.
LEMMA FdnlStep ==
  ASSUME StateTypes, InOrder, Numbered(fs), NEW u \in Users, Fdnl(u)
  PROVE  /\ UNCHANGED << commands, session, list, highest, disk, crashes >>
         /\ fs' \in Server /\ Numbered(fs') /\ SameFiles(fs, fs')
         /\ fs'.books = fs.books
         /\ \A v : Known(fs, v) => Known(fs', v)
         /\ StaysFair(fs, fs')
  <1>1. /\ FindUser(fs, u) < 0 => fs.unum < Allocated /\ ~ (UserPlace(fs, u) < fs.unum)
        /\ fs' = WithUser(fs, u)
        /\ UNCHANGED << commands, session, list, highest, disk, crashes >>
    BY NotInMiddle DEF Fdnl, UserFits, Bounds
  <1>2. PICK g : g = WithUser(fs, u)
    OBVIOUS
  <1>3. fs' = g /\ fs \in Server
    BY <1>1, <1>2 DEF StateTypes
  <1>4. /\ g \in Server /\ SameFiles(fs, g) /\ StaysFair(fs, g)
        /\ g.books = fs.books /\ g.lastnum = fs.lastnum
        /\ \A v : Known(fs, v) => Known(g, v)
    BY <1>1, <1>2, <1>3, WithUserIs
  <1>5. Numbered(g)
    BY <1>4 DEF Numbered, Increasing, Apart, SameFiles
  <1>6. QED
    BY <1>1, <1>3, <1>4, <1>5

\* cmd_mdel.
LEMMA MdelStep ==
  ASSUME StateTypes, InOrder, Numbered(fs), NEW r \in Rooms, NEW i \in 1 .. RoomLen,
         Mdel(r, i), NEW m, m = list[r][i], NEW d, d = DeleteFile(fs, m)
  PROVE  /\ UNCHANGED << commands, session, highest, disk, crashes >>
         /\ m # NoPost
         /\ list' = [list EXCEPT ![r] = Without(@, i)] /\ list' \in Lists
         /\ ~ MiddleGoes(fs, m)
         /\ fs' = d /\ d \in Server /\ Numbered(d)
         /\ SameUsers(fs, d) /\ d.books = fs.books /\ StaysFair(fs, d)
  <1>1. /\ UNCHANGED << commands, session, highest, disk, crashes >>
        /\ m # NoPost
        /\ list' = [list EXCEPT ![r] = Without(@, i)]
        /\ ~ MiddleGoes(fs, m)
        /\ fs' = d
    BY NotInMiddle DEF Mdel, Bounds
  <1>2. fs \in Server
    BY DEF StateTypes
  <1>3. /\ d \in Server /\ SameUsers(fs, d) /\ d.books = fs.books
        /\ Numbered(d) /\ StaysFair(fs, d)
    BY <1>1, <1>2, DeletedKeeps
  <1>4. list' \in Lists
    <2>1. Without(list[r], i) \in List
      <3>1. list[r] \in List /\ 0 \in Int
        BY TypeFields
      <3>2. QED
        BY <3>1, ListsKept
    <2>2. QED
      BY <1>1, <2>1 DEF StateTypes, Lists
  <1>5. QED
    BY <1>1, <1>3, <1>4

\* cmd_mcpy.
LEMMA McpyStep ==
  ASSUME StateTypes, Numbered(fs), NEW k \in 1 .. RoomLen, Mcpy(k),
         NEW n, n = list["Files"][k], NEW a, a = Addcopy(fs, n)
  PROVE  /\ UNCHANGED << commands, session, highest, disk, crashes >>
         /\ n # NoPost /\ n \in Int
         /\ list' = [list EXCEPT !["Other"] = Inserted(@, n)] /\ list' \in Lists
         /\ fs' = a /\ a \in Server /\ Numbered(a)
         /\ SameUsers(fs, a) /\ a.books = fs.books /\ StaysFair(fs, a)
  <1>1. /\ UNCHANGED << commands, session, highest, disk, crashes >>
        /\ n # NoPost
        /\ list' = [list EXCEPT !["Other"] = Inserted(@, n)]
        /\ fs' = a
    BY DEF Mcpy, Bounds
  <1>2. fs \in Server
    BY DEF StateTypes
  <1>3. n \in Int /\ list["Other"] \in List
    BY TypeFields
  <1>4. /\ a \in Server /\ Numbered(a) /\ SameUsers(fs, a) /\ a.books = fs.books
        /\ StaysFair(fs, a)
    BY <1>2, AddcopyIs
  <1>5. list' \in Lists
    <2>1. Inserted(list["Other"], n) \in List
      BY <1>3, ListsKept
    <2>2. QED
      BY <1>1, <2>1 DEF StateTypes, Lists
  <1>6. QED
    BY <1>1, <1>3, <1>4, <1>5

\* Saving: what is saved is what there is, or (when that is not dirty) what was
\* saved before.
LEMMA SaveStep ==
  ASSUME StateTypes, Save
  PROVE  /\ UNCHANGED << commands, session, list, highest, crashes >>
         /\ fs' \in Server /\ SameIndex(fs, fs') /\ SameUsers(fs, fs')
         /\ fs'.books = fs.books /\ fs'.lastnum = fs.lastnum
         /\ disk' \in [fs : Server, list : Lists, highest : Nat]
         /\ disk'.list = list /\ disk'.highest = highest /\ ~ Dirty(fs')
         /\ StaysFair(fs, fs')
         /\ \/ SameIndex(fs, disk'.fs) /\ disk'.fs.lastnum = fs.lastnum
            \/ /\ SameIndex(disk.fs, disk'.fs) /\ disk'.fs.lastnum = disk.fs.lastnum
               /\ ~ Dirty(fs)
  <1> DEFINE n == IF fs.idirty THEN fs.lastnum ELSE disk.fs.lastnum
             num == IF fs.idirty THEN fs.num ELSE disk.fs.num
             es == IF fs.idirty THEN fs.entries ELSE disk.fs.entries
             unum == IF fs.udirty THEN fs.unum ELSE disk.fs.unum
             us == IF fs.udirty THEN fs.ustats ELSE disk.fs.ustats
             g == [fs EXCEPT !.lastnum = n, !.num = num, !.entries = es,
                             !.unum = unum, !.ustats = us]
  <1>1. fs \in Server /\ disk.fs \in Server /\ list \in Lists /\ highest \in Nat
    BY TypeFields DEF StateTypes
  <1>2. /\ n \in Nat /\ num \in 0 .. Allocated /\ es \in [Slot -> Entry]
        /\ unum \in 0 .. Allocated /\ us \in [Slot -> Stat]
    BY <1>1, ServerFields
  <1>3. /\ UNCHANGED << commands, session, list, highest, crashes >>
        /\ fs' = [fs EXCEPT !.idirty = FALSE, !.udirty = FALSE]
        /\ disk' = [list |-> list, highest |-> highest, fs |-> g]
    BY <1>1 DEF Save, Server
  <1>4. \/ n = fs.lastnum /\ num = fs.num /\ es = fs.entries
        \/ n = disk.fs.lastnum /\ num = disk.fs.num /\ es = disk.fs.entries /\ ~ Dirty(fs)
    BY DEF Dirty
  <1> HIDE DEF n, num, es, unum, us
  <1>5. /\ g \in Server /\ g.lastnum = n /\ g.num = num /\ g.entries = es
    <2> DEFINE c == [fs EXCEPT !.lastnum = n, !.num = num, !.entries = es]
    <2>1. c \in Server /\ c.lastnum = n /\ c.num = num /\ c.entries = es
      BY <1>1, <1>2 DEF Server
    <2>2. g = [c EXCEPT !.unum = unum, !.ustats = us]
      OBVIOUS
    <2> HIDE DEF c, g
    <2>3. QED
      BY <1>2, <2>1, <2>2 DEF Server
  <1> HIDE DEF g
  <1>6. PICK h : h = [fs EXCEPT !.idirty = FALSE, !.udirty = FALSE]
    OBVIOUS
  <1>7. /\ h \in Server /\ SameIndex(fs, h) /\ SameUsers(fs, h)
        /\ h.books = fs.books /\ h.lastnum = fs.lastnum /\ ~ Dirty(h)
        /\ StaysFair(fs, h)
    <2>1. /\ h \in Server /\ SameIndex(fs, h) /\ SameUsers(fs, h)
          /\ h.books = fs.books /\ h.lastnum = fs.lastnum /\ ~ Dirty(h)
          /\ SameAccounts(fs, h)
      BY <1>1, <1>6 DEF Server, SameIndex, SameUsers, Dirty, SameAccounts
    <2>2. BookSet(h) = BookSet(fs)
      BY <2>1 DEF BookSet
    <2>3. QED
      BY <2>1, <2>2, FairSame DEF StaysFair
  <1>8. fs' = h
    BY <1>3, <1>6
  <1>9. /\ disk' \in [fs : Server, list : Lists, highest : Nat] /\ disk'.fs = g
        /\ disk'.list = list /\ disk'.highest = highest
    BY <1>1, <1>3, <1>5
  <1>10. QED
    BY <1>3, <1>4, <1>5, <1>7, <1>8, <1>9 DEF SameIndex

\* The server starts again with what was saved, and no bookings.
LEMMA CrashStep ==
  ASSUME StateTypes, CrashRestart
  PROVE  /\ UNCHANGED << commands, disk >>
         /\ crashes' = crashes + 1
         /\ fs' \in Server /\ SameIndex(disk.fs, fs')
         /\ fs'.books = << >> /\ fs'.lastnum = disk.fs.lastnum
         /\ list' \in Lists /\ list' = disk.list
         /\ highest' \in Nat /\ highest' = disk.highest
         /\ ~ Dirty(fs')
         /\ session' \in Sessions
         /\ \A u \in Users : session'[u].stato = "OFF" /\ session'[u].last = NoPost
  <1>1. disk.fs \in Server /\ disk.list \in Lists /\ disk.highest \in Nat
    BY TypeFields
  <1>2. /\ UNCHANGED << commands, disk >>
        /\ crashes' = crashes + 1
        /\ fs' = [disk.fs EXCEPT !.totbytes = 0, !.books = << >>,
                                  !.idirty = FALSE, !.udirty = FALSE]
        /\ list' = disk.list /\ highest' = disk.highest
        /\ session' = [u \in Users |-> [stato |-> "OFF", last |-> NoPost]]
    BY DEF CrashRestart
  <1>3. PICK h : h = [disk.fs EXCEPT !.totbytes = 0, !.books = << >>,
                                     !.idirty = FALSE, !.udirty = FALSE]
    OBVIOUS
  <1>4. << >> \in Seq(Booking)
    OBVIOUS
  <1>5. h = [lastnum |-> disk.fs.lastnum, totbytes |-> 0, num |-> disk.fs.num,
             entries |-> disk.fs.entries, unum |-> disk.fs.unum, ustats |-> disk.fs.ustats,
             books |-> << >>, idirty |-> FALSE, udirty |-> FALSE]
    BY <1>1, <1>3 DEF Server
  <1>6. /\ h \in Server /\ SameIndex(disk.fs, h) /\ ~ Dirty(h)
        /\ h.books = << >> /\ h.lastnum = disk.fs.lastnum
    BY <1>1, <1>4, <1>5, ServerFields DEF Server, SameIndex, Dirty
  <1>7. fs' = h
    BY <1>2, <1>3
  <1>8. /\ session' \in Sessions
        /\ \A u \in Users : session'[u].stato = "OFF" /\ session'[u].last = NoPost
    BY <1>2 DEF Sessions, NoPost
  <1>9. QED
    BY <1>1, <1>2, <1>6, <1>7, <1>8

\* The beginning.
LEMMA InitTypes ==
  ASSUME Init
  PROVE  /\ StateTypes
         /\ fs.num = 0 /\ fs.books = << >> /\ disk.fs = fs
         /\ \A u \in Users : session[u].stato = "OFF" /\ session[u].last = NoPost
         /\ highest = 0 /\ crashes = 0
  <1>1. /\ fs = [lastnum |-> 0, totbytes |-> 0,
                 num |-> 0, entries |-> [i \in 0 .. Allocated - 1 |-> NoEntry],
                 unum |-> 0, ustats |-> [i \in 0 .. Allocated - 1 |-> NoStats],
                 books |-> << >>, idirty |-> FALSE, udirty |-> FALSE]
        /\ session = [u \in Users |-> [stato |-> "OFF", last |-> NoPost]]
        /\ list = [r \in Rooms |-> [i \in 1 .. RoomLen |-> NoPost]]
        /\ highest = 0
        /\ disk = [fs |-> fs, list |-> list, highest |-> highest]
        /\ crashes = 0
    BY DEF Init
  <1>2. NoEntry \in Entry /\ NoStats \in Stat /\ << >> \in Seq(Booking)
    BY DEF NoEntry, NoStats, Entry, Stat
  <1>3. fs \in Server
    BY <1>1, <1>2, NumbersAssumption DEF Server, Slot
  <1>4. session \in Sessions
    BY <1>1 DEF Sessions, NoPost
  <1>5. list \in Lists
    BY <1>1 DEF Lists, List, NoPost
  <1>6. disk \in [fs : Server, list : Lists, highest : Nat]
    BY <1>1, <1>3, <1>5
  <1>7. QED
    BY <1>1, <1>3, <1>4, <1>5, <1>6 DEF StateTypes

\* The beginning has no files and no bookings.
LEMMA InitNum == Init => NumInv
  <1>1. SUFFICES ASSUME Init PROVE StateTypes /\ Numbered(fs) /\ Increasing(disk.fs)
    BY DEF NumInv
  <1>2. StateTypes /\ fs.num = 0 /\ fs.books = << >> /\ disk.fs = fs
    BY <1>1, InitTypes
  <1>3. Increasing(fs) /\ Apart(fs)
    BY <1>2 DEF Increasing, Apart
  <1>4. QED
    BY <1>2, <1>3 DEF Numbered

\* Every command, every save and every restart keeps the invariant.
LEMMA StepNum ==
  ASSUME StateTypes, InOrder, Numbered(fs), Increasing(disk.fs), [Next]_vars
  PROVE  /\ fs' \in Server
         /\ disk' \in [fs : Server, list : Lists, highest : Nat]
         /\ session' \in Sessions
         /\ list' \in Lists
         /\ highest' \in Nat
         /\ Numbered(fs')
         /\ Increasing(disk'.fs)
  <1>1. /\ fs \in Server /\ disk \in [fs : Server, list : Lists, highest : Nat]
        /\ session \in Sessions /\ list \in Lists /\ highest \in Nat
    BY DEF StateTypes
  <1>2. CASE UNCHANGED vars
    BY <1>1, <1>2 DEF vars
  <1>3. ASSUME NEW u \in Users,
               Login(u) \/ Pstb(u) \/ PostTimeout(u) \/ Fupe(u) \/ Cusr(u)
        PROVE  UNCHANGED << fs, list, highest, disk >> /\ session' \in Sessions
    BY <1>3, QuietStep
  <1>4. ASSUME NEW u \in Users, NEW size \in Sizes, Fupb(u, size)
        PROVE  UNCHANGED << session, list, highest, disk >> /\ fs' \in Server /\ Numbered(fs')
    BY <1>4, FupbStep
  <1>5. ASSUME NEW u \in Users, Pste(u)
        PROVE  /\ fs' \in Server /\ Numbered(fs') /\ disk' = disk
               /\ list' \in Lists /\ highest' \in Nat /\ session' \in Sessions
    <2>1. PICK m : m = list["Files"][1]
      OBVIOUS
    <2>2. PICK n : n = highest + 1
      OBVIOUS
    <2>3. PICK d : d = DeleteFile(fs, m)
      OBVIOUS
    <2>4. QED
      BY <1>5, <2>1, <2>2, <2>3, PsteStep
  <1>6. ASSUME NEW u \in Users, Atxt(u) \/ Drop(u)
        PROVE  /\ UNCHANGED << list, highest, disk >>
               /\ fs' \in Server /\ Numbered(fs') /\ session' \in Sessions
    <2>1. fs' = GivenUp(u) /\ UNCHANGED << list, highest, disk >>
      BY <1>6 DEF Atxt, Drop, Bounds
    <2>2. session' \in Sessions
      BY <1>1, <1>6 DEF Atxt, Drop, To, Sessions
    <2>3. QED
      BY <2>1, <2>2, GivenUpStep
  <1>7. ASSUME NEW u \in Users, NEW k \in DOMAIN fs.books, Fupl(u, k, TRUE)
        PROVE  /\ UNCHANGED << list, highest, disk >>
               /\ fs' \in Server /\ Numbered(fs') /\ session' \in Sessions
    <2>1. /\ UNCHANGED << list, highest, disk >>
          /\ fs' \in Server /\ Numbered(fs')
          /\ session' = [session EXCEPT ![u].stato = "UPLOAD"]
      BY <1>7, FuplStep DEF Uploaded
    <2>2. session' \in Sessions
      BY <1>1, <2>1 DEF Sessions
    <2>3. QED
      BY <2>1, <2>2
  <1>8. ASSUME NEW u \in Users, NEW k \in DOMAIN fs.books, Fbkd(u, k) \/ Fupl(u, k, FALSE)
        PROVE  UNCHANGED << session, list, highest, disk >> /\ fs' \in Server /\ Numbered(fs')
    BY <1>8, CancelStep
  <1>9. ASSUME NEW u \in Users, Fdnl(u)
        PROVE  UNCHANGED << session, list, highest, disk >> /\ fs' \in Server /\ Numbered(fs')
    BY <1>9, FdnlStep
  <1>10. ASSUME NEW r \in Rooms, NEW i \in 1 .. RoomLen, Mdel(r, i)
         PROVE  /\ UNCHANGED << session, highest, disk >>
                /\ fs' \in Server /\ Numbered(fs') /\ list' \in Lists
    <2>1. PICK m : m = list[r][i]
      OBVIOUS
    <2>2. PICK d : d = DeleteFile(fs, m)
      OBVIOUS
    <2>3. QED
      BY <1>10, <2>1, <2>2, MdelStep
  <1>11. ASSUME NEW k \in 1 .. RoomLen, Mcpy(k)
         PROVE  /\ UNCHANGED << session, highest, disk >>
                /\ fs' \in Server /\ Numbered(fs') /\ list' \in Lists
    <2>1. PICK n : n = list["Files"][k]
      OBVIOUS
    <2>2. PICK a : a = Addcopy(fs, n)
      OBVIOUS
    <2>3. QED
      BY <1>11, <2>1, <2>2, McpyStep
  <1>12. ASSUME Save
         PROVE  /\ UNCHANGED << session, list, highest >>
                /\ fs' \in Server /\ Numbered(fs')
                /\ disk' \in [fs : Server, list : Lists, highest : Nat]
                /\ Increasing(disk'.fs)
    <2>1. /\ UNCHANGED << session, list, highest >>
          /\ fs' \in Server /\ SameIndex(fs, fs')
          /\ fs'.books = fs.books /\ fs'.lastnum = fs.lastnum
          /\ disk' \in [fs : Server, list : Lists, highest : Nat]
          /\ \/ SameIndex(fs, disk'.fs) /\ disk'.fs.lastnum = fs.lastnum
             \/ SameIndex(disk.fs, disk'.fs) /\ disk'.fs.lastnum = disk.fs.lastnum
      BY <1>12, SaveStep
    <2>2. Numbered(fs')
      BY <2>1 DEF Numbered, Increasing, Apart, SameIndex
    <2>3. Increasing(disk'.fs)
      BY <2>1 DEF Numbered, Increasing, SameIndex
    <2>4. QED
      BY <2>1, <2>2, <2>3
  <1>13. ASSUME CrashRestart
         PROVE  /\ fs' \in Server /\ Numbered(fs') /\ disk' = disk
                /\ list' \in Lists /\ highest' \in Nat /\ session' \in Sessions
    <2>1. /\ fs' \in Server /\ SameIndex(disk.fs, fs') /\ disk' = disk
          /\ fs'.books = << >> /\ fs'.lastnum = disk.fs.lastnum
          /\ list' \in Lists /\ highest' \in Nat /\ session' \in Sessions
      BY <1>13, CrashStep
    <2>2. Increasing(fs')
      BY <2>1 DEF Increasing, SameIndex
    <2>3. Apart(fs')
      BY <2>1 DEF Apart
    <2>4. QED
      BY <2>1, <2>2, <2>3 DEF Numbered
  <1>14. ASSUME NEW u \in Users, NEW k \in DOMAIN fs.books, NEW matches \in BOOLEAN,
                Fupl(u, k, matches)
         PROVE  Fupl(u, k, TRUE) \/ Fupl(u, k, FALSE)
    <2>1. CASE matches = TRUE
      BY <1>14, <2>1
    <2>2. CASE matches = FALSE
      BY <1>14, <2>2
    <2>3. QED
      BY <2>1, <2>2
  <1>15. QED
    BY <1>1, <1>2, <1>3, <1>4, <1>5, <1>6, <1>7, <1>8, <1>9, <1>10, <1>11, <1>12,
       <1>13, <1>14 DEF Next

\* What may happen in a behaviour never changes.
LEMMA CommandsStay == [Next]_vars => commands' = commands
  <1>1. ASSUME NEW u \in Users,
               \/ Login(u) \/ Pstb(u) \/ Pste(u) \/ Atxt(u) \/ PostTimeout(u)
               \/ Fupe(u) \/ Fdnl(u) \/ Drop(u) \/ Cusr(u)
        PROVE  commands' = commands
    BY <1>1 DEF Login, Pstb, Pste, Atxt, PostTimeout, Fupe, Fdnl, Drop, Cusr, Bounds
  <1>2. ASSUME NEW u \in Users, NEW size \in Sizes, Fupb(u, size)
        PROVE  commands' = commands
    BY <1>2 DEF Fupb, Bounds
  <1>3. ASSUME NEW u \in Users, NEW k \in DOMAIN fs.books,
               Fbkd(u, k) \/ \E matches \in BOOLEAN : Fupl(u, k, matches)
        PROVE  commands' = commands
    BY <1>3 DEF Fbkd, Fupl, Bounds
  <1>4. ASSUME NEW r \in Rooms, NEW i \in 1 .. RoomLen, Mdel(r, i)
        PROVE  commands' = commands
    BY <1>4 DEF Mdel, Bounds
  <1>5. ASSUME NEW i \in 1 .. RoomLen, Mcpy(i)
        PROVE  commands' = commands
    BY <1>5 DEF Mcpy, Bounds
  <1>6. ASSUME Save \/ CrashRestart
        PROVE  commands' = commands
    BY <1>6 DEF Save, CrashRestart
  <1>7. ASSUME UNCHANGED vars
        PROVE  commands' = commands
    BY <1>7 DEF vars
  <1>8. QED
    BY <1>1, <1>2, <1>3, <1>4, <1>5, <1>6, <1>7 DEF Next

\* The invariant is inductive.
LEMMA NextNum == NumInv /\ [Next]_vars => NumInv'
  <1>1. SUFFICES ASSUME NumInv, [Next]_vars, InOrder'
                 PROVE  StateTypes' /\ Numbered(fs)' /\ Increasing(disk.fs)'
    BY DEF NumInv
  <1>2. commands' = commands
    BY <1>1, CommandsStay
  <1>3. InOrder
    BY <1>1, <1>2 DEF InOrder
  <1>4. StateTypes /\ Numbered(fs) /\ Increasing(disk.fs)
    BY <1>1, <1>3 DEF NumInv
  <1>5. /\ fs' \in Server
        /\ disk' \in [fs : Server, list : Lists, highest : Nat]
        /\ session' \in Sessions
        /\ list' \in Lists
        /\ highest' \in Nat
        /\ Numbered(fs')
        /\ Increasing(disk'.fs)
    BY <1>1, <1>3, <1>4, StepNum
  <1>6. StateTypes'
    BY <1>5 DEF StateTypes
  <1>7. Numbered(fs)' /\ Increasing(disk.fs)'
    BY <1>5 DEF Numbered, Increasing, Apart
  <1>8. QED
    BY <1>6, <1>7

\* The arrays stay in order, with numbers of their own.
THEOREM FilesNumbered == Spec => []NumInv
  <1>1. QED
    BY InitNum, NextNum, PTL DEF Spec

\* A number given back (fileserver.c:858) is never given out while a file or a
\* booking has it or one above it.
THEOREM NumbersAreOnes == Spec => []NumbersOnce
  <1>1. ASSUME NumInv
        PROVE  NumbersOnce
    <2>1. SUFFICES ASSUME InOrder
                   PROVE  /\ \A e \in Indexed \cup Booked : e.filenum <= fs.lastnum
                          /\ \A e, d \in Indexed \cup Booked : e.filenum = d.filenum => e = d
      BY DEF NumbersOnce
    <2>2. fs \in Server /\ Numbered(fs)
      BY <1>1, <2>1 DEF NumInv, StateTypes
    <2>3. Held(fs) = Indexed \cup Booked
      BY DEF Held, Files, BookSet, Indexed, Booked
    <2>4. QED
      BY <2>2, <2>3, HeldOnce DEF OneEach
  <1>2. QED
    BY <1>1, FilesNumbered, PTL

-----------------------------------------------------------------------------
(***************************************************************************)
(* The accounts are right until the server is started again: a restart     *)
(* keeps what the bookings cost and forgets the bookings.                  *)
(***************************************************************************)
UsageInv == InOrder => crashes \in Nat /\ (crashes = 0 => Fair(fs))

LEMMA InitUsage == Init => UsageInv
  <1>1. SUFFICES ASSUME Init PROVE crashes \in Nat /\ Fair(fs)
    BY DEF UsageInv
  <1>2. fs.num = 0 /\ fs.books = << >> /\ crashes = 0
    BY <1>1, InitTypes
  <1>3. fs.totbytes = 0 /\ fs.unum = 0
    BY <1>1 DEF Init
  <1>4. Held(fs) = {}
    BY <1>2 DEF Held, Files, BookSet
  <1>5. Sized({}) /\ Total({}) = 0
    BY TotalEmpty, FS_EmptySet DEF Sized
  <1>6. OnePerUser(fs) /\ \A i \in 0 .. fs.unum - 1 : Right(fs, {}, i)
    BY <1>3 DEF OnePerUser
  <1>7. QED
    BY <1>2, <1>3, <1>4, <1>5, <1>6 DEF Fair, Balanced

\* A step keeps the accounts right, or is a restart.
LEMMA StepUsage ==
  ASSUME StateTypes, InOrder, Numbered(fs), [Next]_vars
  PROVE  \/ crashes' = crashes /\ StaysFair(fs, fs')
         \/ crashes' = crashes + 1
  <1> DEFINE Goal == \/ crashes' = crashes /\ StaysFair(fs, fs')
                     \/ crashes' = crashes + 1
  <1>1. ASSUME fs' = fs, crashes' = crashes
        PROVE  Goal
    BY <1>1 DEF StaysFair
  <1>2. ASSUME UNCHANGED vars
        PROVE  Goal
    BY <1>1, <1>2 DEF vars
  <1>3. ASSUME NEW u \in Users,
               Login(u) \/ Pstb(u) \/ PostTimeout(u) \/ Fupe(u) \/ Cusr(u)
        PROVE  Goal
    <2>1. UNCHANGED << fs, crashes >>
      BY <1>3, QuietStep
    <2>2. QED
      BY <1>1, <2>1
  <1>4. ASSUME NEW u \in Users, NEW size \in Sizes, Fupb(u, size)
        PROVE  Goal
    BY <1>4, FupbStep
  <1>5. ASSUME NEW u \in Users, Pste(u)
        PROVE  Goal
    <2>1. PICK m : m = list["Files"][1]
      OBVIOUS
    <2>2. PICK n : n = highest + 1
      OBVIOUS
    <2>3. PICK d : d = DeleteFile(fs, m)
      OBVIOUS
    <2>4. QED
      BY <1>5, <2>1, <2>2, <2>3, PsteStep
  <1>6. ASSUME NEW u \in Users, Atxt(u) \/ Drop(u)
        PROVE  Goal
    <2>1. fs' = GivenUp(u) /\ crashes' = crashes
      BY <1>6 DEF Atxt, Drop, Bounds
    <2>2. QED
      BY <2>1, GivenUpStep
  <1>7. ASSUME NEW u \in Users, NEW k \in DOMAIN fs.books, Fupl(u, k, TRUE)
        PROVE  Goal
    BY <1>7, FuplStep DEF Uploaded
  <1>8. ASSUME NEW u \in Users, NEW k \in DOMAIN fs.books, Fbkd(u, k) \/ Fupl(u, k, FALSE)
        PROVE  Goal
    BY <1>8, CancelStep
  <1>9. ASSUME NEW u \in Users, Fdnl(u)
        PROVE  Goal
    BY <1>9, FdnlStep
  <1>10. ASSUME NEW r \in Rooms, NEW i \in 1 .. RoomLen, Mdel(r, i)
         PROVE  Goal
    <2>1. PICK m : m = list[r][i]
      OBVIOUS
    <2>2. PICK d : d = DeleteFile(fs, m)
      OBVIOUS
    <2>3. QED
      BY <1>10, <2>1, <2>2, MdelStep
  <1>11. ASSUME NEW k \in 1 .. RoomLen, Mcpy(k)
         PROVE  Goal
    <2>1. PICK n : n = list["Files"][k]
      OBVIOUS
    <2>2. PICK a : a = Addcopy(fs, n)
      OBVIOUS
    <2>3. QED
      BY <1>11, <2>1, <2>2, McpyStep
  <1>12. ASSUME Save
         PROVE  Goal
    BY <1>12, SaveStep
  <1>13. ASSUME CrashRestart
         PROVE  Goal
    BY <1>13 DEF CrashRestart
  <1>14. ASSUME NEW u \in Users, NEW k \in DOMAIN fs.books, NEW matches \in BOOLEAN,
                Fupl(u, k, matches)
         PROVE  Fupl(u, k, TRUE) \/ Fupl(u, k, FALSE)
    <2>1. CASE matches = TRUE
      BY <1>14, <2>1
    <2>2. CASE matches = FALSE
      BY <1>14, <2>2
    <2>3. QED
      BY <2>1, <2>2
  <1> HIDE DEF Goal
  <1>15. Goal
    BY <1>2, <1>3, <1>4, <1>5, <1>6, <1>7, <1>8, <1>9, <1>10, <1>11, <1>12, <1>13,
       <1>14 DEF Next
  <1>16. QED
    BY <1>15 DEF Goal

LEMMA NextUsage == NumInv /\ UsageInv /\ [Next]_vars => UsageInv'
  <1>1. SUFFICES ASSUME NumInv, UsageInv, [Next]_vars, InOrder'
                 PROVE  crashes' \in Nat /\ (crashes' = 0 => Fair(fs'))
    BY DEF UsageInv
  <1>2. commands' = commands
    BY <1>1, CommandsStay
  <1>3. InOrder
    BY <1>1, <1>2 DEF InOrder
  <1>4. StateTypes /\ Numbered(fs)
    BY <1>1, <1>3 DEF NumInv
  <1>5. crashes \in Nat /\ (crashes = 0 => Fair(fs))
    BY <1>1, <1>3 DEF UsageInv
  <1>6. CASE crashes' = crashes /\ StaysFair(fs, fs')
    BY <1>4, <1>5, <1>6 DEF StaysFair
  <1>7. CASE crashes' = crashes + 1
    BY <1>5, <1>7
  <1>8. QED
    BY <1>1, <1>3, <1>4, <1>6, <1>7, StepUsage

\* What is charged to a user, and to all of them, is what their bookings and
\* files take (fileserver.c:423, 787, 853), until the server is started again.
THEOREM UsageCounted == Spec => []UsageExact
  <1>1. ASSUME UsageInv
        PROVE  UsageExact
    <2>1. SUFFICES ASSUME InOrder, crashes = 0
                   PROVE  /\ \A i \in 0 .. fs.unum - 1 :
                               LET u    == fs.ustats[i].user
                                   mine == { e \in Indexed \cup Booked : e.user = u }
                               IN  /\ fs.ustats[i].totbytes = MapThenSumSet(SizeOf, mine)
                                   /\ fs.ustats[i].numfiles = Cardinality(mine)
                          /\ fs.totbytes = MapThenSumSet(SizeOf, Indexed \cup Booked)
      BY DEF UsageExact
    <2>2. Held(fs) = Indexed \cup Booked
      BY DEF Held, Files, BookSet, Indexed, Booked
    <2>3. Balanced(fs, Indexed \cup Booked)
      BY <1>1, <2>1, <2>2 DEF UsageInv, Fair
    <2>4. fs.totbytes = MapThenSumSet(SizeOf, Indexed \cup Booked)
      BY <2>3 DEF Balanced, Total
    <2>5. ASSUME NEW i \in 0 .. fs.unum - 1
          PROVE  /\ fs.ustats[i].totbytes
                      = MapThenSumSet(SizeOf, Of(Indexed \cup Booked, fs.ustats[i].user))
                 /\ fs.ustats[i].numfiles
                      = Cardinality(Of(Indexed \cup Booked, fs.ustats[i].user))
      BY <2>3 DEF Balanced, Right, Total
    <2>6. QED
      BY <2>4, <2>5 DEF Of
  <1>2. QED
    BY <1>1, FilesNumbered, InitUsage, NextUsage, PTL DEF Spec

-----------------------------------------------------------------------------
(***************************************************************************)
(* Whose post a file is attached to.  A booking is for the post its author *)
(* is writing, or for the last one: that is why it may neither outlive the *)
(* post that was not written nor the session.                              *)
(***************************************************************************)
Orderly == InOrder /\ {"TIMEOUT", "POST_AGAIN", "CUSR"} \cap commands = {}

ForTheLast(b) ==
  /\ Known(fs, b.user)
  /\ session[b.user].stato # "OFF"
  /\ b.purpose = IF session[b.user].stato = "POST" THEN NoPost
                 ELSE session[b.user].last

FilesAttached(f) == \A i \in 0 .. f.num - 1 : f.entries[i].msgnum = f.entries[i].purpose

AttachInv ==
  Orderly => /\ \A b \in BookSet(fs) : ForTheLast(b)
             /\ FilesAttached(fs)
             /\ FilesAttached(disk.fs)

\* Counters of copies are no matter.
LEMMA DeletedAttached ==
  ASSUME NEW f \in Server, NEW m, ~ MiddleGoes(f, m), NEW g, g = DeleteFile(f, m),
         FilesAttached(f)
  PROVE  FilesAttached(g)
  <1>1. /\ g.num = IF Freed(f, m) THEN f.num - 1 ELSE f.num
        /\ \A i \in 0 .. f.num - 1 :
             g.entries[i] = IF f.entries[i].msgnum = m
                            THEN [f.entries[i] EXCEPT !.copies = @ - 1]
                            ELSE f.entries[i]
    BY DeletedKeeps
  <1>2. f.num \in Nat
    BY ServerFields, NumbersAssumption
  <1>3. ASSUME NEW i \in 0 .. g.num - 1
        PROVE  g.entries[i].msgnum = g.entries[i].purpose
    <2>1. i \in 0 .. f.num - 1
      BY <1>1, <1>2
    <2>2. f.entries[i] \in Entry /\ f.entries[i].msgnum = f.entries[i].purpose
      BY <2>1, EntryFound DEF FilesAttached
    <2>3. /\ [f.entries[i] EXCEPT !.copies = @ - 1].msgnum = f.entries[i].msgnum
          /\ [f.entries[i] EXCEPT !.copies = @ - 1].purpose = f.entries[i].purpose
      BY <2>2 DEF Entry
    <2>4. QED
      BY <1>1, <2>1, <2>2, <2>3
  <1>4. QED
    BY <1>3 DEF FilesAttached

LEMMA CopiedAttached ==
  ASSUME NEW f \in Server, NEW m, NEW g, g = Addcopy(f, m), FilesAttached(f)
  PROVE  FilesAttached(g)
  <1>1. /\ g.num = f.num
        /\ \A k \in 0 .. f.num - 1 :
             g.entries[k] = IF k = CopySlot(f, m)
                            THEN [f.entries[k] EXCEPT !.copies = @ + 1]
                            ELSE f.entries[k]
    BY AddcopyIs
  <1>2. ASSUME NEW i \in 0 .. f.num - 1
        PROVE  g.entries[i].msgnum = g.entries[i].purpose
    <2>1. f.entries[i] \in Entry /\ f.entries[i].msgnum = f.entries[i].purpose
      BY EntryFound DEF FilesAttached
    <2>2. /\ [f.entries[i] EXCEPT !.copies = @ + 1].msgnum = f.entries[i].msgnum
          /\ [f.entries[i] EXCEPT !.copies = @ + 1].purpose = f.entries[i].purpose
      BY <2>1 DEF Entry
    <2>3. QED
      BY <1>1, <2>1, <2>2
  <1>3. QED
    BY <1>1, <1>2 DEF FilesAttached

LEMMA SameAttached ==
  ASSUME NEW f, NEW g, SameFiles(f, g), FilesAttached(f)
  PROVE  FilesAttached(g)
  BY DEF SameFiles, FilesAttached

\* A booking that stays for the last post of its user.
LEMMA StillForTheLast ==
  ASSUME NEW b, ForTheLast(b), Known(fs', b.user), session'[b.user] = session[b.user]
  PROVE  ForTheLast(b)'
  BY DEF ForTheLast, Known

\* Who has bookings is a user, and known.
LEMMA BookedUser ==
  ASSUME StateTypes, NEW b \in BookSet(fs)
  PROVE  b \in Booking /\ b.user \in Users
  <1>1. fs \in Server
    BY DEF StateTypes
  <1>2. QED
    BY <1>1, BookFound DEF BookSet

LEMMA KnownStays ==
  ASSUME StateTypes, SameUsers(fs, fs'), NEW v, Known(fs, v)
  PROVE  Known(fs', v)
  <1>1. PICK i \in 0 .. fs.unum - 1 : fs.ustats[i].user = v
    BY DEF Known
  <1>2. fs.unum \in 0 .. Allocated
    BY ServerFields DEF StateTypes
  <1>3. i \in Slot
    BY <1>2, NumbersAssumption DEF Slot
  <1>4. QED
    BY <1>1, <1>3 DEF Known, SameUsers

LEMMA InitAttach == Init => AttachInv
  <1>1. SUFFICES ASSUME Init
                 PROVE  /\ \A b \in BookSet(fs) : ForTheLast(b)
                        /\ FilesAttached(fs) /\ FilesAttached(disk.fs)
    BY DEF AttachInv
  <1>2. fs.num = 0 /\ fs.books = << >> /\ disk.fs = fs
    BY <1>1, InitTypes
  <1>3. QED
    BY <1>2 DEF BookSet, FilesAttached

\* Every step keeps it.
LEMMA NextAttach == NumInv /\ AttachInv /\ [Next]_vars => AttachInv'
  <1>1. SUFFICES ASSUME NumInv, AttachInv, [Next]_vars, Orderly'
                 PROVE  /\ \A b \in BookSet(fs') : ForTheLast(b)'
                        /\ FilesAttached(fs')
                        /\ FilesAttached(disk'.fs)
    BY DEF AttachInv, BookSet, FilesAttached
  <1>2. Orderly /\ InOrder
    BY <1>1, CommandsStay DEF Orderly, InOrder
  <1>3. /\ StateTypes /\ Numbered(fs) /\ fs \in Server
        /\ \A b \in BookSet(fs) : ForTheLast(b)
        /\ FilesAttached(fs) /\ FilesAttached(disk.fs)
    BY <1>1, <1>2 DEF NumInv, AttachInv, StateTypes
  <1>4. ~ may("TIMEOUT") /\ ~ may("POST_AGAIN") /\ ~ may("CUSR")
    BY <1>2 DEF Orderly, may
  <1>5. ASSUME UNCHANGED << fs, session, disk >>
        PROVE  /\ \A b \in BookSet(fs') : ForTheLast(b)'
               /\ FilesAttached(fs') /\ FilesAttached(disk'.fs)
    BY <1>3, <1>5 DEF ForTheLast, Known
  <1>6. ASSUME UNCHANGED << session, disk >>,
               \A v : Known(fs, v) => Known(fs', v),
               BookSet(fs') \subseteq BookSet(fs), FilesAttached(fs')
        PROVE  /\ \A b \in BookSet(fs') : ForTheLast(b)'
               /\ FilesAttached(fs') /\ FilesAttached(disk'.fs)
    <2>1. ASSUME NEW b \in BookSet(fs')
          PROVE  ForTheLast(b)'
      <3>1. b \in BookSet(fs) /\ ForTheLast(b)
        BY <1>3, <1>6, <2>1
      <3>2. Known(fs', b.user)
        BY <1>6, <3>1 DEF ForTheLast
      <3>3. QED
        BY <1>6, <3>1, <3>2, StillForTheLast
    <2>2. QED
      BY <1>3, <1>6, <2>1
  <1>7. ASSUME NEW u \in Users, session' \in Sessions, UNCHANGED << fs, disk >>,
               \A v \in Users : v # u => session'[v] = session[v],
               \A b \in BookSet(fs) : b.user # u
        PROVE  /\ \A b \in BookSet(fs') : ForTheLast(b)'
               /\ FilesAttached(fs') /\ FilesAttached(disk'.fs)
    <2>1. ASSUME NEW b \in BookSet(fs)
          PROVE  ForTheLast(b)'
      <3>1. ForTheLast(b) /\ b.user \in Users /\ b.user # u
        BY <1>3, <1>7, BookedUser
      <3>2. Known(fs', b.user)
        BY <1>7, <3>1 DEF ForTheLast
      <3>3. QED
        BY <1>7, <3>1, <3>2, StillForTheLast
    <2>2. QED
      BY <1>3, <1>7, <2>1
  <1> DEFINE Goal == /\ \A b \in BookSet(fs') : ForTheLast(b)'
                     /\ FilesAttached(fs') /\ FilesAttached(disk'.fs)
  <1> HIDE DEF Goal
  <1>8. ASSUME NEW u \in Users, Login(u) \/ Pstb(u)
        PROVE  Goal
    <2>1. \A b \in BookSet(fs) : b.user # u
      <3>1. CASE Login(u)
        BY <1>3, <3>1 DEF Login, ForTheLast
      <3>2. CASE Pstb(u)
        BY <1>4, <3>2 DEF Pstb, BookSet
      <3>3. QED
        BY <1>8, <3>1, <3>2
    <2>2. /\ UNCHANGED << fs, disk >> /\ session' \in Sessions
          /\ \A v \in Users : v # u => session'[v] = session[v]
      BY <1>3, <1>8, QuietStep
    <2>3. QED
      BY <1>7, <2>1, <2>2 DEF Goal
  <1>9. ASSUME NEW u \in Users, Fupe(u)
        PROVE  Goal
    <2>1. /\ session[u].stato = "UPLOAD"
          /\ session' = [session EXCEPT ![u].stato = "COMANDI"]
          /\ UNCHANGED << fs, disk >>
      BY <1>9 DEF Fupe, To, Bounds
    <2>2. ASSUME NEW v \in Users
          PROVE  /\ session'[v].last = session[v].last
                 /\ session'[v].stato = "POST" <=> session[v].stato = "POST"
                 /\ session'[v].stato = "OFF" <=> session[v].stato = "OFF"
      BY <1>3, <2>1 DEF StateTypes, Sessions
    <2>3. ASSUME NEW b \in BookSet(fs)
          PROVE  ForTheLast(b)'
      <3>1. ForTheLast(b) /\ b.user \in Users
        BY <1>3, BookedUser
      <3>2. QED
        BY <2>1, <2>2, <3>1 DEF ForTheLast, Known
    <2>4. QED
      BY <1>3, <2>1, <2>3 DEF Goal
  <1>10. ASSUME NEW u \in Users, NEW size \in Sizes, Fupb(u, size)
         PROVE  Goal
    <2>1. /\ UNCHANGED << session, disk >>
          /\ session[u].stato = "POST"
          /\ SameFiles(fs, fs')
          /\ \A v : Known(fs, v) => Known(fs', v)
          /\ \/ BookSet(fs') = BookSet(fs)
             \/ /\ Known(fs', u)
                /\ \E f : BookSet(fs') = BookSet(fs) \cup {NewBooking(f, u, size)}
      BY <1>2, <1>3, <1>10, FupbStep
    <2>2. FilesAttached(fs')
      BY <1>3, <2>1 DEF SameFiles, FilesAttached
    <2>3. CASE BookSet(fs') = BookSet(fs)
      BY <1>6, <2>1, <2>2, <2>3 DEF Goal
    <2>4. CASE Known(fs', u) /\ \E f : BookSet(fs') = BookSet(fs) \cup {NewBooking(f, u, size)}
      <3>1. PICK f : BookSet(fs') = BookSet(fs) \cup {NewBooking(f, u, size)}
        BY <2>4
      <3>2. ASSUME NEW b \in BookSet(fs)
            PROVE  ForTheLast(b)'
        <4>1. ForTheLast(b) /\ Known(fs', b.user)
          BY <1>3, <2>1 DEF ForTheLast
        <4>2. QED
          BY <2>1, <4>1, StillForTheLast
      <3>3. PICK b : b = NewBooking(f, u, size)
        OBVIOUS
      <3>4. b.user = u /\ b.purpose = NoPost
        BY <3>3 DEF NewBooking
      <3>5. ForTheLast(b)'
        BY <2>1, <2>4, <3>4 DEF ForTheLast, Known
      <3>6. QED
        BY <1>3, <2>1, <2>2, <3>1, <3>2, <3>3, <3>5 DEF Goal
    <2>5. QED
      BY <2>1, <2>3, <2>4
  <1>11. ASSUME NEW u \in Users, Pste(u)
         PROVE  Goal
    <2>1. PICK m : m = list["Files"][1]
      OBVIOUS
    <2>2. PICK n : n = highest + 1
      OBVIOUS
    <2>3. PICK d : d = DeleteFile(fs, m)
      OBVIOUS
    <2>4. /\ disk' = disk /\ session[u].stato = "POST"
          /\ session' = [session EXCEPT ![u] = [stato |-> "COMANDI", last |-> n]]
          /\ ~ MiddleGoes(fs, m)
          /\ SameFiles(d, fs') /\ SameUsers(fs, fs')
          /\ DOMAIN fs'.books = DOMAIN fs.books
          /\ \A k \in DOMAIN fs.books :
               /\ fs'.books[k].user = fs.books[k].user
               /\ fs'.books[k].purpose =
                    IF fs.books[k].user = u /\ fs.books[k].purpose = NoPost
                    THEN n ELSE fs.books[k].purpose
      BY <1>2, <1>3, <1>11, <2>1, <2>2, <2>3, PsteStep
    <2>5. FilesAttached(d)
      BY <1>3, <2>3, <2>4, DeletedAttached
    <2>6. FilesAttached(fs')
      BY <2>4, <2>5 DEF SameFiles, FilesAttached
    <2>7. ASSUME NEW b \in BookSet(fs')
          PROVE  ForTheLast(b)'
      <3>1. PICK k \in DOMAIN fs.books : b = fs'.books[k]
        BY <2>4 DEF BookSet
      <3>2. PICK c : c = fs.books[k]
        OBVIOUS
      <3>3. c \in BookSet(fs) /\ ForTheLast(c)
        BY <1>3, <3>2 DEF BookSet
      <3>4. c.user \in Users
        BY <1>3, <3>3, BookedUser
      <3>5. b.user = c.user /\ b.purpose = IF c.user = u /\ c.purpose = NoPost
                                           THEN n ELSE c.purpose
        BY <2>4, <3>1, <3>2
      <3>6. Known(fs', b.user)
        BY <1>3, <2>4, <3>3, <3>5, KnownStays DEF ForTheLast
      <3>7. CASE c.user = u
        <4>1. c.purpose = NoPost
          BY <2>4, <3>3, <3>7 DEF ForTheLast
        <4>2. session'[u].stato = "COMANDI" /\ session'[u].last = n
          BY <1>3, <2>4 DEF StateTypes, Sessions
        <4>3. QED
          BY <3>5, <3>6, <3>7, <4>1, <4>2 DEF ForTheLast, Known
      <3>8. CASE c.user # u
        <4>1. session'[c.user] = session[c.user]
          BY <1>3, <2>4, <3>4, <3>8 DEF StateTypes, Sessions
        <4>2. QED
          BY <3>3, <3>5, <3>6, <3>8, <4>1 DEF ForTheLast, Known
      <3>9. QED
        BY <3>7, <3>8
    <2>8. QED
      BY <1>3, <2>4, <2>6, <2>7 DEF Goal
  <1>12. ASSUME NEW u \in Users, Atxt(u) \/ Drop(u)
         PROVE  Goal
    <2>1. /\ fs' = GivenUp(u) /\ disk' = disk
          /\ \A v \in Users : v # u => session'[v] = session[v]
      BY <1>3, <1>12 DEF Atxt, Drop, Bounds, To, StateTypes, Sessions
    <2>2. /\ SameFiles(fs, fs') /\ SameUsers(fs, fs')
          /\ ~ Known(fs, u) => fs' = fs
          /\ Known(fs, u) => BookSet(fs') = { b \in BookSet(fs) : b.user # u }
      BY <1>3, <2>1, GivenUpStep
    <2>3. ASSUME NEW b \in BookSet(fs')
          PROVE  b \in BookSet(fs) /\ b.user # u
      BY <1>3, <2>2, <2>3 DEF ForTheLast
    <2>4. ASSUME NEW b \in BookSet(fs')
          PROVE  ForTheLast(b)'
      <3>1. b \in BookSet(fs) /\ ForTheLast(b) /\ b.user \in Users /\ b.user # u
        BY <1>3, <2>3, BookedUser
      <3>2. Known(fs', b.user)
        BY <1>3, <2>2, <3>1, KnownStays DEF ForTheLast
      <3>3. QED
        BY <2>1, <3>1, <3>2, StillForTheLast
    <2>5. FilesAttached(fs')
      BY <1>3, <2>2 DEF SameFiles, FilesAttached
    <2>6. QED
      BY <1>3, <2>1, <2>4, <2>5 DEF Goal
  <1>13. ASSUME NEW u \in Users, NEW k \in DOMAIN fs.books, Fupl(u, k, TRUE)
         PROVE  Goal
    <2>1. PICK e \in Entry : Uploaded(u, k, e)
      BY <1>2, <1>3, <1>13, FuplStep
    <2>2. PICK b : b = fs.books[k]
      OBVIOUS
    <2>3. b \in BookSet(fs) /\ ForTheLast(b) /\ b.user = u
      BY <1>3, <2>1, <2>2 DEF BookSet, Uploaded
    <2>4. e.msgnum = e.purpose
      BY <2>1, <2>2, <2>3 DEF ForTheLast, Uploaded
    <2>5. FilesAttached(fs')
      <3>1. fs.num \in Nat
        BY <1>3, ServerFields, NumbersAssumption
      <3>2. \A i \in 0 .. fs'.num - 1 : i \in 0 .. fs.num - 1 \/ i = fs.num
        BY <2>1, <3>1 DEF Uploaded
      <3>3. QED
        BY <1>3, <2>1, <2>4, <3>2 DEF FilesAttached, Uploaded
    <2>6. ASSUME NEW v \in Users
          PROVE  /\ session'[v].last = session[v].last
                 /\ session'[v].stato = "POST" <=> session[v].stato = "POST"
                 /\ session'[v].stato = "OFF" <=> session[v].stato = "OFF"
      BY <1>3, <2>1 DEF StateTypes, Sessions, Uploaded
    <2>7. ASSUME NEW c \in BookSet(fs')
          PROVE  ForTheLast(c)'
      <3>1. c \in BookSet(fs) /\ ForTheLast(c) /\ c.user \in Users
        BY <1>3, <2>1, <2>7, BookedUser DEF Uploaded
      <3>2. Known(fs', c.user)
        BY <1>3, <2>1, <3>1, KnownStays DEF ForTheLast, Uploaded
      <3>3. QED
        BY <2>6, <3>1, <3>2 DEF ForTheLast, Known
    <2>8. QED
      BY <1>3, <2>1, <2>5, <2>7 DEF Goal, Uploaded
  <1>14. ASSUME NEW u \in Users, NEW k \in DOMAIN fs.books, Fbkd(u, k) \/ Fupl(u, k, FALSE)
         PROVE  Goal
    <2>1. /\ UNCHANGED << session, disk >>
          /\ SameFiles(fs, fs') /\ SameUsers(fs, fs')
          /\ BookSet(fs') \subseteq BookSet(fs)
      BY <1>3, <1>14, CancelStep
    <2>2. FilesAttached(fs')
      BY <1>3, <2>1 DEF SameFiles, FilesAttached
    <2>3. \A v : Known(fs, v) => Known(fs', v)
      BY <1>3, <2>1, KnownStays
    <2>4. QED
      BY <1>6, <2>1, <2>2, <2>3 DEF Goal
  <1>15. ASSUME NEW u \in Users, Fdnl(u)
         PROVE  Goal
    <2>1. /\ UNCHANGED << session, disk >>
          /\ SameFiles(fs, fs') /\ fs'.books = fs.books
          /\ \A v : Known(fs, v) => Known(fs', v)
      BY <1>2, <1>3, <1>15, FdnlStep
    <2>2. FilesAttached(fs') /\ BookSet(fs') \subseteq BookSet(fs)
      BY <1>3, <2>1 DEF SameFiles, FilesAttached, BookSet
    <2>3. QED
      BY <1>6, <2>1, <2>2 DEF Goal
  <1>16. ASSUME UNCHANGED << session, disk >>, SameUsers(fs, fs'), fs'.books = fs.books,
                FilesAttached(fs')
         PROVE  Goal
    <2>1. BookSet(fs') \subseteq BookSet(fs)
      BY <1>16 DEF BookSet
    <2>2. \A v : Known(fs, v) => Known(fs', v)
      BY <1>3, <1>16, KnownStays
    <2>3. QED
      BY <1>6, <1>16, <2>1, <2>2 DEF Goal
  <1>17. ASSUME NEW r \in Rooms, NEW i \in 1 .. RoomLen, Mdel(r, i)
         PROVE  Goal
    <2>1. PICK m : m = list[r][i]
      OBVIOUS
    <2>2. PICK d : d = DeleteFile(fs, m)
      OBVIOUS
    <2>3. /\ UNCHANGED << session, disk >> /\ ~ MiddleGoes(fs, m)
          /\ fs' = d /\ SameUsers(fs, d) /\ d.books = fs.books
      BY <1>2, <1>3, <1>17, <2>1, <2>2, MdelStep
    <2>4. FilesAttached(d)
      BY <1>3, <2>2, <2>3, DeletedAttached
    <2>5. QED
      BY <1>16, <2>3, <2>4
  <1>18. ASSUME NEW k \in 1 .. RoomLen, Mcpy(k)
         PROVE  Goal
    <2>1. PICK n : n = list["Files"][k]
      OBVIOUS
    <2>2. PICK a : a = Addcopy(fs, n)
      OBVIOUS
    <2>3. /\ UNCHANGED << session, disk >>
          /\ fs' = a /\ SameUsers(fs, a) /\ a.books = fs.books
      BY <1>3, <1>18, <2>1, <2>2, McpyStep
    <2>4. FilesAttached(a)
      BY <1>3, <2>2, CopiedAttached
    <2>5. QED
      BY <1>16, <2>3, <2>4
  <1>19. ASSUME Save
         PROVE  Goal
    <2>1. /\ session' = session
          /\ SameIndex(fs, fs') /\ SameUsers(fs, fs')
          /\ fs'.books = fs.books
          /\ SameIndex(fs, disk'.fs) \/ SameIndex(disk.fs, disk'.fs)
      BY <1>3, <1>19, SaveStep
    <2>2. FilesAttached(fs') /\ FilesAttached(disk'.fs)
      BY <1>3, <2>1 DEF SameIndex, FilesAttached
    <2>3. ASSUME NEW b \in BookSet(fs')
          PROVE  ForTheLast(b)'
      <3>1. b \in BookSet(fs) /\ ForTheLast(b)
        BY <1>3, <2>1, <2>3 DEF BookSet
      <3>2. Known(fs', b.user)
        BY <1>3, <2>1, <3>1, KnownStays DEF ForTheLast
      <3>3. QED
        BY <2>1, <3>1, <3>2, StillForTheLast
    <2>4. QED
      BY <2>2, <2>3 DEF Goal
  <1>20. ASSUME CrashRestart
         PROVE  Goal
    <2>1. disk' = disk /\ SameIndex(disk.fs, fs') /\ fs'.books = << >>
      BY <1>3, <1>20, CrashStep
    <2>2. BookSet(fs') = {}
      BY <2>1 DEF BookSet
    <2>3. FilesAttached(fs')
      BY <1>3, <2>1 DEF SameIndex, FilesAttached
    <2>4. QED
      BY <1>3, <2>1, <2>2, <2>3 DEF Goal
  <1>21. ASSUME UNCHANGED vars
         PROVE  Goal
    <2>1. UNCHANGED << fs, session, disk >>
      BY <1>21 DEF vars
    <2>2. QED
      BY <1>5, <2>1 DEF Goal
  <1>22. ASSUME NEW u \in Users, PostTimeout(u) \/ Cusr(u)
         PROVE  FALSE
    BY <1>4, <1>22 DEF PostTimeout, Cusr
  <1>23. ASSUME NEW u \in Users, NEW k \in DOMAIN fs.books, NEW matches \in BOOLEAN,
                Fupl(u, k, matches)
         PROVE  Fupl(u, k, TRUE) \/ Fupl(u, k, FALSE)
    <2>1. CASE matches = TRUE
      BY <1>23, <2>1
    <2>2. CASE matches = FALSE
      BY <1>23, <2>2
    <2>3. QED
      BY <2>1, <2>2
  <1>24. Goal
    BY <1>1, <1>8, <1>9, <1>10, <1>11, <1>12, <1>13, <1>14, <1>15, <1>17, <1>18,
       <1>19, <1>20, <1>21, <1>22, <1>23 DEF Next
  <1>25. QED
    BY <1>24 DEF Goal

\* A file is attached to the post it was booked for, although cmd_fupl takes the
\* last one of the session (fileserver.c:489).
THEOREM FilesAttachedRight == Spec => []AttachedRight
  <1>1. ASSUME AttachInv
        PROVE  AttachedRight
    BY <1>1 DEF AttachInv, AttachedRight, Orderly, FilesAttached, Indexed
  <1>2. QED
    BY <1>1, FilesNumbered, InitAttach, NextAttach, PTL DEF Spec
-----------------------------------------------------------------------------
(***************************************************************************)
(* Copies.  A list of a room changes by giving up the post of one slot and *)
(* putting another in one: the posts between move by a slot.               *)
(***************************************************************************)
SlotsIn(l, m) == { s \in Rooms \X (1 .. RoomLen) : l[s[1]][s[2]] = m }
Count(l, m) == Cardinality(SlotsIn(l, m))
One(x, y) == IF x = y THEN 1 ELSE 0

LEMMA CountIs ==
  ASSUME NEW l, NEW m
  PROVE  /\ IsFiniteSet(SlotsIn(l, m)) /\ Count(l, m) \in Nat
         /\ SlotsWith(m) = SlotsIn(list, m)
  <1>1. IsFiniteSet(Rooms)
    <2>1. Rooms = {"Files"} \cup {"Other"}
      BY DEF Rooms
    <2>2. QED
      BY <2>1, FS_Singleton, FS_AddElement
  <1>2. IsFiniteSet(1 .. RoomLen)
    BY NumbersAssumption, FS_Interval
  <1>3. IsFiniteSet(Rooms \X (1 .. RoomLen))
    BY <1>1, <1>2, FS_Product
  <1>4. IsFiniteSet(SlotsIn(l, m))
    BY <1>3, FS_Subset DEF SlotsIn
  <1>5. QED
    BY <1>4, FS_CardinalityType DEF Count, SlotsWith, SlotsIn

\* Room r gives up slot a and gets something in slot b; p says where the others
\* go, q where they were.
Paired(p, q, a, b) ==
  /\ p \in [(1 .. RoomLen) \ {a} -> (1 .. RoomLen) \ {b}]
  /\ q \in [(1 .. RoomLen) \ {b} -> (1 .. RoomLen) \ {a}]
  /\ \A i \in (1 .. RoomLen) \ {a} : q[p[i]] = i
  /\ \A j \in (1 .. RoomLen) \ {b} : p[q[j]] = j
Carried(s, t, p, a) == \A i \in (1 .. RoomLen) \ {a} : t[p[i]] = s[i]

\* Of the lists l, that of room r becomes t.
Changed(l, k, r, t) == k[r] = t /\ \A x \in Rooms : x # r => k[x] = l[x]

LEMMA CountMoves ==
  ASSUME NEW l, NEW k, NEW r \in Rooms, NEW row, Changed(l, k, r, row),
         NEW a \in 1 .. RoomLen, NEW b \in 1 .. RoomLen,
         NEW p, NEW q, Paired(p, q, a, b), Carried(l[r], row, p, a),
         NEW m
  PROVE  Count(k, m) + One(l[r][a], m) = Count(l, m) + One(row[b], m)
  <1> DEFINE S == SlotsIn(l, m) \ {<< r, a >>}
             T == SlotsIn(k, m) \ {<< r, b >>}
             h == [s \in S |-> IF s[1] = r THEN << r, p[s[2]] >> ELSE s]
  <1> USE DEF Paired, Carried, Changed
  <1>1. ASSUME NEW s \in S
        PROVE  /\ h[s] \in T
               /\ s[1] = r => /\ h[s] = << r, p[s[2]] >> /\ s[2] \in (1 .. RoomLen) \ {a}
                              /\ s = << r, s[2] >>
               /\ s[1] # r => h[s] = s
    <2>1. s \in Rooms \X (1 .. RoomLen) /\ l[s[1]][s[2]] = m /\ s # << r, a >>
      BY DEF SlotsIn
    <2>2. s = << s[1], s[2] >> /\ s[1] \in Rooms /\ s[2] \in 1 .. RoomLen
      BY <2>1
    <2>3. CASE s[1] = r
      <3>1. s[2] \in (1 .. RoomLen) \ {a}
        BY <2>1, <2>2, <2>3
      <3>2. p[s[2]] \in 1 .. RoomLen /\ p[s[2]] # b /\ k[r][p[s[2]]] = m
        BY <2>1, <2>3, <3>1
      <3>3. << r, p[s[2]] >> \in T
        BY <3>2 DEF SlotsIn
      <3>4. QED
        BY <2>2, <2>3, <3>1, <3>3
    <2>4. CASE s[1] # r
      BY <2>1, <2>2, <2>4 DEF SlotsIn
    <2>5. QED
      BY <2>3, <2>4
  <1>2. h \in [S -> T]
    BY <1>1
  <1> HIDE DEF h
  <1>3. ASSUME NEW s \in S, NEW t \in S, h[s] = h[t]
        PROVE  s = t
    <2>1. CASE s[1] = r /\ t[1] = r
      <3>1. p[s[2]] = p[t[2]]
        BY <1>1, <1>3, <2>1
      <3>2. s[2] = t[2]
        BY <1>1, <2>1, <3>1
      <3>3. QED
        BY <1>1, <2>1, <3>2
    <2>2. CASE s[1] # r \/ t[1] # r
      BY <1>1, <1>3, <2>2
    <2>3. QED
      BY <2>1, <2>2
  <1>4. ASSUME NEW t \in T
        PROVE  \E s \in S : h[s] = t
    <2>1. t \in Rooms \X (1 .. RoomLen) /\ k[t[1]][t[2]] = m /\ t # << r, b >>
      BY DEF SlotsIn
    <2>2. t = << t[1], t[2] >> /\ t[1] \in Rooms /\ t[2] \in 1 .. RoomLen
      BY <2>1
    <2>3. CASE t[1] = r
      <3>1. t[2] \in (1 .. RoomLen) \ {b}
        BY <2>1, <2>2, <2>3
      <3>2. PICK i \in (1 .. RoomLen) \ {a} : i = q[t[2]] /\ p[i] = t[2]
        BY <3>1
      <3>3. l[r][i] = m
        BY <2>1, <2>3, <3>2
      <3>4. << r, i >> \in S
        BY <3>3 DEF SlotsIn
      <3>5. h[<< r, i >>] = << r, p[i] >>
        BY <1>1, <3>4
      <3>6. QED
        BY <2>2, <2>3, <3>2, <3>4, <3>5
    <2>4. CASE t[1] # r
      <3>1. t \in S
        BY <2>1, <2>2, <2>4 DEF SlotsIn
      <3>2. QED
        BY <1>1, <2>4, <3>1
    <2>5. QED
      BY <2>3, <2>4
  <1>5. /\ Count(l, m) = Cardinality(S) + One(l[r][a], m)
        /\ Count(k, m) = Cardinality(T) + One(row[b], m)
        /\ IsFiniteSet(S) /\ Cardinality(S) \in Nat
    <2>1. IsFiniteSet(SlotsIn(l, m)) /\ IsFiniteSet(SlotsIn(k, m))
          /\ Count(l, m) \in Nat /\ Count(k, m) \in Nat
      BY CountIs
    <2>2. /\ << r, a >> \in SlotsIn(l, m) <=> l[r][a] = m
          /\ << r, b >> \in SlotsIn(k, m) <=> k[r][b] = m
      BY DEF SlotsIn
    <2>3. Cardinality(S) = Count(l, m) - One(l[r][a], m) /\ IsFiniteSet(S)
      <3>1. PICK A, x : A = SlotsIn(l, m) /\ x = << r, a >>
        OBVIOUS
      <3>2. /\ IsFiniteSet(A \ {x})
            /\ Cardinality(A \ {x}) = IF x \in A THEN Cardinality(A) - 1 ELSE Cardinality(A)
        BY <2>1, <3>1, FS_RemoveElement
      <3>3. x \in A <=> l[r][a] = m
        BY <2>2, <3>1
      <3>4. S = A \ {x} /\ Count(l, m) = Cardinality(A) /\ Cardinality(A) \in Nat
        BY <2>1, <3>1 DEF Count
      <3> HIDE DEF S
      <3>5. QED
        BY <3>2, <3>3, <3>4 DEF One
    <2>4. Cardinality(T) = Count(k, m) - One(row[b], m)
      <3>1. PICK A, x : A = SlotsIn(k, m) /\ x = << r, b >>
        OBVIOUS
      <3>2. Cardinality(A \ {x}) = IF x \in A THEN Cardinality(A) - 1 ELSE Cardinality(A)
        BY <2>1, <3>1, FS_RemoveElement
      <3>3. x \in A <=> row[b] = m
        BY <2>2, <3>1
      <3>4. T = A \ {x} /\ Count(k, m) = Cardinality(A) /\ Cardinality(A) \in Nat
        BY <2>1, <3>1 DEF Count
      <3> HIDE DEF T
      <3>5. QED
        BY <3>2, <3>3, <3>4 DEF One
    <2>5. QED
      BY <2>1, <2>3, <2>4, FS_CardinalityType DEF One
  <1> HIDE DEF S, T
  <1>6. Cardinality(T) = Cardinality(S)
    BY <1>2, <1>3, <1>4, <1>5, SameNumber
  <1>7. QED
    BY <1>5, <1>6 DEF One

\* A post is written in room Files.
LEMMA CountScrolled ==
  ASSUME NEW l \in Lists, NEW n \in Int, NEW k, Changed(l, k, "Files", Scrolled(l["Files"], n)),
         NEW m
  PROVE  Count(k, m) + One(l["Files"][1], m) = Count(l, m) + One(n, m)
  <1> DEFINE p == [i \in (1 .. RoomLen) \ {1} |-> i - 1]
             q == [i \in (1 .. RoomLen) \ {RoomLen} |-> i + 1]
             s == l["Files"]
             t == Scrolled(s, n)
  <1>1. RoomLen \in Nat /\ RoomLen >= 2 /\ 1 \in 1 .. RoomLen /\ RoomLen \in 1 .. RoomLen
    BY NumbersAssumption
  <1>2. "Files" \in Rooms
    BY DEF Rooms
  <1>3. Changed(l, k, "Files", t)
    OBVIOUS
  <1>4. p \in [(1 .. RoomLen) \ {1} -> (1 .. RoomLen) \ {RoomLen}]
    BY <1>1
  <1>5. q \in [(1 .. RoomLen) \ {RoomLen} -> (1 .. RoomLen) \ {1}]
    BY <1>1
  <1>6. ASSUME NEW i \in (1 .. RoomLen) \ {1}
        PROVE  q[p[i]] = i /\ t[p[i]] = s[i]
    <2>1. p[i] = i - 1 /\ i - 1 \in (1 .. RoomLen) \ {RoomLen} /\ (i - 1) + 1 = i
          /\ i - 1 \in 1 .. RoomLen /\ i - 1 # RoomLen
      BY <1>1
    <2>2. t[i - 1] = s[(i - 1) + 1]
      BY <2>1 DEF Scrolled
    <2>3. QED
      BY <2>1, <2>2
  <1>7. \A j \in (1 .. RoomLen) \ {RoomLen} : p[q[j]] = j
    <2>1. ASSUME NEW j \in (1 .. RoomLen) \ {RoomLen}
          PROVE  p[q[j]] = j
      <3>1. q[j] = j + 1 /\ j + 1 \in (1 .. RoomLen) \ {1} /\ (j + 1) - 1 = j
        BY <1>1
      <3>2. QED
        BY <3>1
    <2>2. QED
      BY <2>1
  <1>8. t[RoomLen] = n
    BY <1>1 DEF Scrolled
  <1> HIDE DEF p, q, t
  <1>9. Paired(p, q, 1, RoomLen)
    BY <1>4, <1>5, <1>6, <1>7 DEF Paired
  <1>13. Carried(s, t, p, 1)
    BY <1>6 DEF Carried
  <1>10. Count(k, m) + One(l["Files"][1], m) = Count(l, m) + One(t[RoomLen], m)
    <2>1. PICK c, d : c = 1 /\ d = RoomLen
      OBVIOUS
    <2>2. /\ c \in 1 .. RoomLen /\ d \in 1 .. RoomLen
          /\ Paired(p, q, c, d) /\ Carried(s, t, p, c)
      BY <2>1, <1>1, <1>9, <1>13
    <2>3. Count(k, m) + One(s[c], m) = Count(l, m) + One(t[d], m)
      BY <1>2, <1>3, <2>2, CountMoves
    <2>4. QED
      BY <2>1, <2>3
  <1>11. QED
    BY <1>8, <1>10

\* A post is deleted in a room.
LEMMA CountWithout ==
  ASSUME NEW l \in Lists, NEW r \in Rooms, NEW a \in 1 .. RoomLen, NEW k,
         Changed(l, k, r, Without(l[r], a)), NEW m
  PROVE  Count(k, m) + One(l[r][a], m) = Count(l, m) + One(NoPost, m)
  <1> DEFINE p == [i \in (1 .. RoomLen) \ {a} |-> IF i < a THEN i + 1 ELSE i]
             q == [i \in (1 .. RoomLen) \ {1} |-> IF i <= a THEN i - 1 ELSE i]
             s == l[r]
             t == Without(s, a)
  <1>1. RoomLen \in Nat /\ RoomLen >= 2 /\ 1 \in 1 .. RoomLen
    BY NumbersAssumption
  <1>3. Changed(l, k, r, t)
    OBVIOUS
  <1>4. p \in [(1 .. RoomLen) \ {a} -> (1 .. RoomLen) \ {1}]
    BY <1>1
  <1>5. q \in [(1 .. RoomLen) \ {1} -> (1 .. RoomLen) \ {a}]
    BY <1>1
  <1>6. ASSUME NEW i \in (1 .. RoomLen) \ {a}
        PROVE  q[p[i]] = i /\ t[p[i]] = s[i]
    <2>1. CASE i < a
      <3>1. p[i] = i + 1 /\ i + 1 \in (1 .. RoomLen) \ {1} /\ i + 1 <= a /\ (i + 1) - 1 = i
            /\ i + 1 \in 1 .. RoomLen /\ i + 1 # 1
        BY <1>1, <2>1
      <3>2. t[i + 1] = s[(i + 1) - 1]
        BY <3>1 DEF Without
      <3>3. QED
        BY <3>1, <3>2
    <2>2. CASE ~ (i < a)
      <3>1. p[i] = i /\ i \in (1 .. RoomLen) \ {1} /\ ~ (i <= a) /\ i # 1
        BY <1>1, <2>2
      <3>2. t[i] = s[i]
        BY <3>1 DEF Without
      <3>3. QED
        BY <3>1, <3>2
    <2>3. QED
      BY <2>1, <2>2
  <1>7. \A j \in (1 .. RoomLen) \ {1} : p[q[j]] = j
    <2>1. ASSUME NEW j \in (1 .. RoomLen) \ {1}
          PROVE  p[q[j]] = j
      <3>1. CASE j <= a
        <4>1. q[j] = j - 1 /\ j - 1 \in (1 .. RoomLen) \ {a} /\ j - 1 < a /\ (j - 1) + 1 = j
          BY <1>1, <3>1
        <4>2. QED
          BY <4>1
      <3>2. CASE ~ (j <= a)
        <4>1. q[j] = j /\ j \in (1 .. RoomLen) \ {a} /\ ~ (j < a)
          BY <1>1, <3>2
        <4>2. QED
          BY <4>1
      <3>3. QED
        BY <3>1, <3>2
    <2>2. QED
      BY <2>1
  <1>8. t[1] = NoPost
    BY <1>1 DEF Without
  <1> HIDE DEF p, q, t
  <1>9. Paired(p, q, a, 1)
    BY <1>4, <1>5, <1>6, <1>7 DEF Paired
  <1>13. Carried(s, t, p, a)
    BY <1>6 DEF Carried
  <1>10. Count(k, m) + One(l[r][a], m) = Count(l, m) + One(t[1], m)
    <2>1. PICK c, d : c = a /\ d = 1
      OBVIOUS
    <2>2. /\ c \in 1 .. RoomLen /\ d \in 1 .. RoomLen
          /\ Paired(p, q, c, d) /\ Carried(s, t, p, c)
      BY <2>1, <1>1, <1>9, <1>13
    <2>3. Count(k, m) + One(s[c], m) = Count(l, m) + One(t[d], m)
      BY <1>3, <2>2, CountMoves
    <2>4. QED
      BY <2>1, <2>3
  <1>11. QED
    BY <1>8, <1>10

\* A post is copied to the other room.
LEMMA CountInserted ==
  ASSUME NEW l \in Lists, NEW n \in Int, NEW k,
         Changed(l, k, "Other", Inserted(l["Other"], n)), NEW m
  PROVE  Count(k, m) + One(l["Other"][1], m) = Count(l, m) + One(n, m)
  <1> DEFINE s == l["Other"]
             b == Place(s, n)
             p == [i \in (1 .. RoomLen) \ {1} |-> IF i <= b THEN i - 1 ELSE i]
             q == [i \in (1 .. RoomLen) \ {b} |-> IF i < b THEN i + 1 ELSE i]
             t == Inserted(s, n)
  <1>1. RoomLen \in Nat /\ RoomLen >= 2 /\ 1 \in 1 .. RoomLen
    BY NumbersAssumption
  <1>2. "Other" \in Rooms /\ s \in List
    BY DEF Rooms, Lists
  <1>3. Changed(l, k, "Other", t)
    OBVIOUS
  <1>0. b \in 2 .. RoomLen /\ b \in 1 .. RoomLen
    BY <1>1, <1>2, PlaceIn
  <1>12. t = [i \in 1 .. RoomLen |-> IF i < b THEN s[i + 1] ELSE IF i = b THEN n ELSE s[i]]
    BY DEF Inserted
  <1> HIDE DEF b, t
  <1>4. p \in [(1 .. RoomLen) \ {1} -> (1 .. RoomLen) \ {b}]
    BY <1>0, <1>1
  <1>5. q \in [(1 .. RoomLen) \ {b} -> (1 .. RoomLen) \ {1}]
    BY <1>0, <1>1
  <1>6. ASSUME NEW i \in (1 .. RoomLen) \ {1}
        PROVE  q[p[i]] = i /\ t[p[i]] = s[i]
    <2>1. CASE i <= b
      <3>1. p[i] = i - 1 /\ i - 1 \in (1 .. RoomLen) \ {b} /\ i - 1 < b /\ (i - 1) + 1 = i
            /\ i - 1 \in 1 .. RoomLen
        BY <1>0, <1>1, <2>1
      <3>2. t[i - 1] = s[(i - 1) + 1]
        BY <1>12, <3>1
      <3>3. QED
        BY <3>1, <3>2
    <2>2. CASE ~ (i <= b)
      <3>1. p[i] = i /\ i \in (1 .. RoomLen) \ {b} /\ ~ (i < b) /\ i # b
        BY <1>0, <1>1, <2>2
      <3>2. t[i] = s[i]
        BY <1>12, <3>1
      <3>3. QED
        BY <3>1, <3>2
    <2>3. QED
      BY <2>1, <2>2
  <1>7. \A j \in (1 .. RoomLen) \ {b} : p[q[j]] = j
    <2>1. ASSUME NEW j \in (1 .. RoomLen) \ {b}
          PROVE  p[q[j]] = j
      <3>1. CASE j < b
        <4>1. q[j] = j + 1 /\ j + 1 \in (1 .. RoomLen) \ {1} /\ j + 1 <= b /\ (j + 1) - 1 = j
          BY <1>0, <1>1, <3>1
        <4>2. QED
          BY <4>1
      <3>2. CASE ~ (j < b)
        <4>1. q[j] = j /\ j \in (1 .. RoomLen) \ {1} /\ ~ (j <= b)
          BY <1>0, <1>1, <3>2
        <4>2. QED
          BY <4>1
      <3>3. QED
        BY <3>1, <3>2
    <2>2. QED
      BY <2>1
  <1>8. t[b] = n
    BY <1>0, <1>12
  <1> HIDE DEF p, q
  <1>9. Paired(p, q, 1, b)
    BY <1>4, <1>5, <1>6, <1>7 DEF Paired
  <1>13. Carried(s, t, p, 1)
    BY <1>6 DEF Carried
  <1>10. Count(k, m) + One(l["Other"][1], m) = Count(l, m) + One(t[b], m)
    <2>1. PICK c, d : c = 1 /\ d = b
      OBVIOUS
    <2>2. /\ c \in 1 .. RoomLen /\ d \in 1 .. RoomLen
          /\ Paired(p, q, c, d) /\ Carried(s, t, p, c)
      BY <2>1, <1>0, <1>1, <1>9, <1>13
    <2>3. Count(k, m) + One(s[c], m) = Count(l, m) + One(t[d], m)
      BY <1>2, <1>3, <2>2, CountMoves
    <2>4. QED
      BY <2>1, <2>3
  <1>11. QED
    BY <1>8, <1>10
-----------------------------------------------------------------------------
(***************************************************************************)
(* What the steps do to the files and to the lists.                        *)
(***************************************************************************)
Exact == InOrder /\ "COPY_LOSES" \notin commands

\* The last post of a session is one that was written.
LastsPosted == \A u \in Users : session[u].last <= highest

Kept == SameFiles(fs, fs') /\ UNCHANGED << list, highest, disk, crashes >>

\* File e comes.
Sent(e) ==
  /\ UNCHANGED << list, highest, disk, crashes >>
  /\ e.copies = 1
  /\ ~ e.late => e.msgnum # NoPost /\ e.msgnum <= highest /\ Count(list, e.msgnum) = 1
  /\ fs'.num = fs.num + 1 /\ fs'.entries[fs.num] = e
  /\ \A i \in 0 .. fs.num - 1 : fs'.entries[i] = fs.entries[i]
  /\ Dirty(fs')

\* Post m goes from a room, and post n (or nothing) comes.
Thrown(m, n) ==
  /\ ~ MiddleGoes(fs, m)
  /\ fs'.num = IF Freed(fs, m) THEN fs.num - 1 ELSE fs.num
  /\ StillDirty(fs, fs')
  /\ Freed(fs, m) => Dirty(fs')
  /\ \A i \in 0 .. fs.num - 1 :
       fs'.entries[i] = IF fs.entries[i].msgnum = m
                        THEN [fs.entries[i] EXCEPT !.copies = @ - 1]
                        ELSE fs.entries[i]
  /\ \A x : Count(list', x) + One(m, x) = Count(list, x) + One(n, x)
  /\ \/ n = NoPost /\ highest' = highest
     \/ n = highest + 1 /\ highest' = n
  /\ UNCHANGED << disk, crashes >>

\* Post n, which has one file at most, is copied where there is a free slot.
CopiedTo(n) ==
  /\ may("MCPY")
  /\ fs'.num = fs.num
  /\ \A i \in 0 .. fs.num - 1 :
       fs'.entries[i] = IF fs.entries[i].msgnum = n
                        THEN [fs.entries[i] EXCEPT !.copies = @ + 1]
                        ELSE fs.entries[i]
  /\ \A x : Count(list', x) + One(NoPost, x) = Count(list, x) + One(n, x)
  /\ UNCHANGED << highest, disk, crashes >>

Saved ==
  /\ UNCHANGED << list, highest, crashes >>
  /\ SameIndex(fs, fs') /\ ~ Dirty(fs')
  /\ disk'.list = list /\ disk'.highest = highest
  /\ SameIndex(fs, disk'.fs) \/ (SameIndex(disk.fs, disk'.fs) /\ ~ Dirty(fs))

Restarted ==
  /\ crashes' = crashes + 1
  /\ disk' = disk
  /\ SameIndex(disk.fs, fs') /\ list' = disk.list /\ highest' = disk.highest

Effect ==
  \/ Kept
  \/ \E e \in Entry : Sent(e)
  \/ \E m, n \in Int : Thrown(m, n)
  \/ \E n \in Int : CopiedTo(n)
  \/ Saved
  \/ Restarted

\* A set of one element at most.
LEMMA OnlyOne ==
  ASSUME NEW S, IsFiniteSet(S), ~ (Cardinality(S) > 1), NEW x \in S, NEW y \in S
  PROVE  x = y
  <1>1. SUFFICES ASSUME x # y PROVE FALSE
    OBVIOUS
  <1>2. IsFiniteSet({x}) /\ Cardinality({x}) = 1
    BY FS_Singleton
  <1>3. Cardinality({x} \cup {y}) = 2
    <2>1. y \notin {x}
      BY <1>1
    <2>2. QED
      BY <1>2, <2>1, FS_AddElement
  <1>4. {x} \cup {y} \subseteq S
    OBVIOUS
  <1>5. Cardinality({x} \cup {y}) <= Cardinality(S) /\ Cardinality(S) \in Nat
    BY <1>4, FS_Subset, FS_CardinalityType
  <1>6. QED
    BY <1>3, <1>5

\* A post that is in a slot is counted.
LEMMA CountedSlot ==
  ASSUME NEW l, NEW r \in Rooms, NEW i \in 1 .. RoomLen
  PROVE  Count(l, l[r][i]) # 0
  <1>1. << r, i >> \in SlotsIn(l, l[r][i])
    BY DEF SlotsIn
  <1>2. QED
    BY <1>1, CountIs, FS_EmptySet DEF Count

\* What cmd_pste does.
LEMMA PsteEffect ==
  ASSUME StateTypes, InOrder, Numbered(fs), NEW u \in Users, Pste(u), LastsPosted
  PROVE  /\ \E m, n \in Int : Thrown(m, n)
         /\ LastsPosted'
  <1>1. PICK m : m = list["Files"][1]
    OBVIOUS
  <1>2. PICK n : n = highest + 1
    OBVIOUS
  <1>3. PICK d : d = DeleteFile(fs, m)
    OBVIOUS
  <1>4. /\ UNCHANGED << commands, disk, crashes >>
        /\ highest' = n /\ n \in Nat
        /\ list' = [list EXCEPT !["Files"] = Scrolled(@, n)] /\ list' \in Lists
        /\ session' = [session EXCEPT ![u] = [stato |-> "COMANDI", last |-> n]]
        /\ ~ MiddleGoes(fs, m)
        /\ SameFiles(d, fs')
    BY <1>1, <1>2, <1>3, PsteStep
  <1>5. fs \in Server /\ m \in Int /\ n \in Int /\ "Files" \in Rooms
    BY <1>1, <1>4, TypeFields DEF StateTypes
  <1>6. /\ d.num = IF Freed(fs, m) THEN fs.num - 1 ELSE fs.num
        /\ StillDirty(fs, d)
        /\ Freed(fs, m) => Dirty(d)
        /\ \A i \in 0 .. fs.num - 1 :
             d.entries[i] = IF fs.entries[i].msgnum = m
                            THEN [fs.entries[i] EXCEPT !.copies = @ - 1]
                            ELSE fs.entries[i]
    BY <1>3, <1>4, <1>5, DeletedKeeps
  <1>7. fs'.num = d.num /\ fs'.entries = d.entries /\ StillDirty(d, fs')
    BY <1>4 DEF SameFiles
  <1>8. ASSUME NEW x
        PROVE  Count(list', x) + One(m, x) = Count(list, x) + One(n, x)
    <2>1. PICK k : k = list'
      OBVIOUS
    <2>2. Changed(list, k, "Files", Scrolled(list["Files"], n)) /\ list \in Lists
      BY <1>4, <1>5, <2>1 DEF Changed, StateTypes, Lists
    <2>3. QED
      BY <1>1, <1>5, <2>1, <2>2, CountScrolled
  <1>9. StillDirty(fs, fs') /\ (Freed(fs, m) => Dirty(fs'))
    BY <1>6, <1>7 DEF StillDirty
  <1>10. \A i \in 0 .. fs.num - 1 :
           fs'.entries[i] = IF fs.entries[i].msgnum = m
                            THEN [fs.entries[i] EXCEPT !.copies = @ - 1]
                            ELSE fs.entries[i]
    BY <1>6, <1>7
  <1>11. fs'.num = IF Freed(fs, m) THEN fs.num - 1 ELSE fs.num
    BY <1>6, <1>7
  <1>12. Thrown(m, n)
    BY <1>2, <1>4, <1>8, <1>9, <1>10, <1>11 DEF Thrown
  <1>13. ASSUME NEW v \in Users
         PROVE  session'[v].last <= highest'
    <2>1. session'[v] = IF v = u THEN [stato |-> "COMANDI", last |-> n] ELSE session[v]
      BY <1>4 DEF StateTypes, Sessions
    <2>2. session[v].last \in Int /\ session[v].last <= highest /\ highest \in Nat
      BY TypeFields DEF LastsPosted, StateTypes
    <2>3. QED
      BY <1>2, <1>4, <2>1, <2>2
  <1>14. QED
    BY <1>5, <1>12, <1>13 DEF LastsPosted

\* What cmd_mdel does.
LEMMA MdelEffect ==
  ASSUME StateTypes, InOrder, Numbered(fs), NEW r \in Rooms, NEW i \in 1 .. RoomLen,
         Mdel(r, i)
  PROVE  \E m, n \in Int : Thrown(m, n)
  <1>1. PICK m : m = list[r][i]
    OBVIOUS
  <1>2. PICK d : d = DeleteFile(fs, m)
    OBVIOUS
  <1>3. /\ UNCHANGED << commands, session, highest, disk, crashes >>
        /\ list' = [list EXCEPT ![r] = Without(@, i)] /\ list' \in Lists
        /\ ~ MiddleGoes(fs, m)
        /\ fs' = d
    BY <1>1, <1>2, MdelStep
  <1>4. fs \in Server /\ m \in Int /\ NoPost \in Int
    BY <1>1, TypeFields DEF StateTypes, NoPost
  <1>5. /\ d.num = IF Freed(fs, m) THEN fs.num - 1 ELSE fs.num
        /\ StillDirty(fs, d)
        /\ Freed(fs, m) => Dirty(d)
        /\ \A j \in 0 .. fs.num - 1 :
             d.entries[j] = IF fs.entries[j].msgnum = m
                            THEN [fs.entries[j] EXCEPT !.copies = @ - 1]
                            ELSE fs.entries[j]
    BY <1>2, <1>3, <1>4, DeletedKeeps
  <1>6. ASSUME NEW x
        PROVE  Count(list', x) + One(m, x) = Count(list, x) + One(NoPost, x)
    <2>1. PICK k : k = list'
      OBVIOUS
    <2>2. Changed(list, k, r, Without(list[r], i)) /\ list \in Lists
      BY <1>3, <2>1 DEF Changed, StateTypes, Lists
    <2>3. QED
      BY <1>1, <2>1, <2>2, CountWithout
  <1>7. Thrown(m, NoPost)
    BY <1>3, <1>5, <1>6 DEF Thrown
  <1>8. QED
    BY <1>4, <1>7

\* What cmd_mcpy does.
LEMMA McpyEffect ==
  ASSUME StateTypes, Exact, Numbered(fs), NEW k \in 1 .. RoomLen, Mcpy(k)
  PROVE  \E n \in Int : CopiedTo(n)
  <1>1. PICK n : n = list["Files"][k]
    OBVIOUS
  <1>2. PICK a : a = Addcopy(fs, n)
    OBVIOUS
  <1>3. /\ UNCHANGED << commands, session, highest, disk, crashes >>
        /\ n \in Int
        /\ list' = [list EXCEPT !["Other"] = Inserted(@, n)]
        /\ fs' = a
    BY <1>1, <1>2, McpyStep
  <1> DEFINE files == { i \in 0 .. fs.num - 1 : fs.entries[i].msgnum = n }
  <1>4. may("MCPY") /\ list["Other"][1] = NoPost /\ ~ (Cardinality(files) > 1)
    BY <1>1 DEF Mcpy, Exact, may
  <1>5. fs \in Server /\ fs.num \in Nat /\ "Other" \in Rooms /\ list \in Lists
    BY ServerFields, TypeFields, NumbersAssumption DEF StateTypes
  <1>6. IsFiniteSet(files)
    <2>1. IsFiniteSet(0 .. fs.num - 1)
      <3>1. fs.num - 1 \in Int /\ 0 \in Int
        BY <1>5
      <3>2. QED
        BY <3>1, FS_Interval
    <2>2. QED
      BY <2>1, FS_Subset
  <1>7. /\ a.num = fs.num
        /\ \A i \in 0 .. fs.num - 1 :
             a.entries[i] = IF i = CopySlot(fs, n)
                            THEN [fs.entries[i] EXCEPT !.copies = @ + 1]
                            ELSE fs.entries[i]
        /\ \/ CopySlot(fs, n) = -1 /\ \A i \in 0 .. fs.num - 1 : fs.entries[i].msgnum # n
           \/ CopySlot(fs, n) \in 0 .. fs.num - 1 /\ fs.entries[CopySlot(fs, n)].msgnum = n
    BY <1>2, <1>5, AddcopyIs
  <1>8. ASSUME NEW i \in 0 .. fs.num - 1
        PROVE  i = CopySlot(fs, n) <=> fs.entries[i].msgnum = n
    <2>1. CASE i = CopySlot(fs, n)
      BY <1>5, <1>7, <2>1
    <2>2. CASE fs.entries[i].msgnum = n
      <3>1. PICK c : c = CopySlot(fs, n)
        OBVIOUS
      <3>2. c \in files /\ i \in files
        BY <1>7, <2>2, <3>1
      <3> HIDE DEF files
      <3>3. QED
        BY <1>4, <1>6, <2>2, <3>1, <3>2, OnlyOne
    <2>3. QED
      BY <2>1, <2>2
  <1>9. \A i \in 0 .. fs.num - 1 :
          fs'.entries[i] = IF fs.entries[i].msgnum = n
                           THEN [fs.entries[i] EXCEPT !.copies = @ + 1]
                           ELSE fs.entries[i]
    BY <1>3, <1>7, <1>8
  <1>10. ASSUME NEW x
         PROVE  Count(list', x) + One(NoPost, x) = Count(list, x) + One(n, x)
    <2>1. PICK l : l = list'
      OBVIOUS
    <2>2. Changed(list, l, "Other", Inserted(list["Other"], n))
      BY <1>3, <1>5, <2>1 DEF Changed, Lists
    <2>3. QED
      BY <1>3, <1>4, <1>5, <2>1, <2>2, CountInserted
  <1>11. CopiedTo(n)
    BY <1>3, <1>4, <1>7, <1>9, <1>10 DEF CopiedTo
  <1>12. QED
    BY <1>3, <1>11

\* What cmd_fupl does with a file that was booked.
LEMMA FuplEffect ==
  ASSUME StateTypes, InOrder, Numbered(fs), NEW u \in Users,
         NEW k \in DOMAIN fs.books, Fupl(u, k, TRUE), LastsPosted
  PROVE  /\ \E e \in Entry : Sent(e)
         /\ LastsPosted'
  <1>1. PICK e \in Entry : Uploaded(u, k, e)
    BY FuplStep
  <1>2. Cardinality(SlotsWith(session[u].last)) = Count(list, session[u].last)
    BY CountIs DEF Count
  <1>3. Sent(e)
    BY <1>1, <1>2 DEF Sent, LastsPosted, Uploaded
  <1>4. \A v \in Users : session'[v].last = session[v].last
    BY <1>1 DEF StateTypes, Sessions, Uploaded
  <1>5. LastsPosted'
    BY <1>1, <1>4 DEF LastsPosted, Uploaded
  <1>6. QED
    BY <1>3, <1>5

\* Every step has one of the effects.
LEMMA StepEffect ==
  ASSUME StateTypes, Exact, Numbered(fs), LastsPosted, [Next]_vars
  PROVE  Effect /\ LastsPosted'
  <1> DEFINE Goal == Effect /\ LastsPosted'
  <1>1. ASSUME SameFiles(fs, fs'), UNCHANGED << list, highest, disk, crashes >>,
               \A v \in Users : session'[v].last = session[v].last \/ session'[v].last = NoPost
        PROVE  Goal
    <2>1. Kept
      BY <1>1 DEF Kept
    <2>2. highest \in Nat /\ NoPost <= highest
      BY DEF StateTypes, NoPost
    <2>3. LastsPosted'
      BY <1>1, <2>2 DEF LastsPosted
    <2>4. QED
      BY <2>1, <2>3 DEF Effect
  <1>2. InOrder
    BY DEF Exact
  <1>3. ASSUME fs' = fs
        PROVE  SameFiles(fs, fs')
    BY <1>3 DEF SameFiles, StillDirty
  <1>4. ASSUME NEW u \in Users, NEW stato, To(u, stato)
        PROVE  \A v \in Users : session'[v].last = session[v].last
    BY <1>4 DEF To, StateTypes, Sessions
  <1> HIDE DEF Goal
  <1>5. ASSUME UNCHANGED vars
        PROVE  Goal
    BY <1>1, <1>3, <1>5 DEF vars
  <1>6. ASSUME NEW u \in Users,
               Login(u) \/ Pstb(u) \/ PostTimeout(u) \/ Fupe(u) \/ Cusr(u)
        PROVE  Goal
    <2>1. UNCHANGED << commands, fs, list, highest, disk, uploads, saves, crashes >>
      BY <1>6, QuietStep
    <2>2. \A v \in Users : session'[v].last = session[v].last \/ session'[v].last = NoPost
      <3>1. CASE Login(u)
        BY <3>1 DEF Login, StateTypes, Sessions
      <3>2. CASE Pstb(u) \/ PostTimeout(u) \/ Fupe(u) \/ Cusr(u)
        BY <1>4, <3>2 DEF Pstb, PostTimeout, Fupe, Cusr
      <3>3. QED
        BY <1>6, <3>1, <3>2
    <2>3. QED
      BY <1>1, <1>3, <2>1, <2>2
  <1>7. ASSUME NEW u \in Users, NEW size \in Sizes, Fupb(u, size)
        PROVE  Goal
    <2>1. SameFiles(fs, fs') /\ UNCHANGED << session, list, highest, disk, crashes >>
      BY <1>2, <1>7, FupbStep
    <2>2. QED
      BY <1>1, <2>1
  <1>8. ASSUME NEW u \in Users, Pste(u)
        PROVE  Goal
    BY <1>2, <1>8, PsteEffect DEF Goal, Effect
  <1>9. ASSUME NEW u \in Users, Atxt(u) \/ Drop(u)
        PROVE  Goal
    <2>1. fs' = GivenUp(u) /\ UNCHANGED << list, highest, disk, crashes >>
      BY <1>9 DEF Atxt, Drop, Bounds
    <2>2. \A v \in Users : session'[v].last = session[v].last
      BY <1>4, <1>9 DEF Atxt, Drop
    <2>3. SameFiles(fs, fs')
      BY <2>1, GivenUpStep
    <2>4. QED
      BY <1>1, <2>1, <2>2, <2>3
  <1>10. ASSUME NEW u \in Users, NEW k \in DOMAIN fs.books, Fupl(u, k, TRUE)
         PROVE  Goal
    BY <1>2, <1>10, FuplEffect DEF Goal, Effect
  <1>11. ASSUME NEW u \in Users, NEW k \in DOMAIN fs.books, Fbkd(u, k) \/ Fupl(u, k, FALSE)
         PROVE  Goal
    <2>1. SameFiles(fs, fs') /\ UNCHANGED << session, list, highest, disk, crashes >>
      BY <1>11, CancelStep
    <2>2. QED
      BY <1>1, <2>1
  <1>12. ASSUME NEW u \in Users, Fdnl(u)
         PROVE  Goal
    <2>1. SameFiles(fs, fs') /\ UNCHANGED << session, list, highest, disk, crashes >>
      BY <1>2, <1>12, FdnlStep
    <2>2. QED
      BY <1>1, <2>1
  <1>13. ASSUME NEW r \in Rooms, NEW i \in 1 .. RoomLen, Mdel(r, i)
         PROVE  Goal
    <2>1. \E m, n \in Int : Thrown(m, n)
      BY <1>2, <1>13, MdelEffect
    <2>2. UNCHANGED << session, highest >>
      BY <1>13 DEF Mdel, Bounds
    <2>3. QED
      BY <2>1, <2>2 DEF Goal, Effect, LastsPosted
  <1>14. ASSUME NEW k \in 1 .. RoomLen, Mcpy(k)
         PROVE  Goal
    <2>1. \E n \in Int : CopiedTo(n)
      BY <1>14, McpyEffect
    <2>2. UNCHANGED << session, highest >>
      BY <1>14 DEF Mcpy, Bounds
    <2>3. QED
      BY <2>1, <2>2 DEF Goal, Effect, LastsPosted
  <1>15. ASSUME Save
         PROVE  Goal
    <2>1. Saved /\ UNCHANGED << session, highest >>
      BY <1>15, SaveStep DEF Saved
    <2>2. QED
      BY <2>1 DEF Goal, Effect, LastsPosted
  <1>16. ASSUME CrashRestart
         PROVE  Goal
    <2>1. /\ Restarted /\ highest' \in Nat
          /\ \A u \in Users : session'[u].last = NoPost
      BY <1>16, CrashStep DEF Restarted
    <2>2. NoPost <= highest'
      BY <2>1 DEF NoPost
    <2>3. QED
      BY <2>1, <2>2 DEF Goal, Effect, LastsPosted
  <1>17. ASSUME NEW u \in Users, NEW k \in DOMAIN fs.books, NEW matches \in BOOLEAN,
                Fupl(u, k, matches)
         PROVE  Fupl(u, k, TRUE) \/ Fupl(u, k, FALSE)
    <2>1. CASE matches = TRUE
      BY <1>17, <2>1
    <2>2. CASE matches = FALSE
      BY <1>17, <2>2
    <2>3. QED
      BY <2>1, <2>2
  <1>18. Goal
    BY <1>5, <1>6, <1>7, <1>8, <1>9, <1>10, <1>11, <1>12, <1>13, <1>14, <1>15, <1>16,
       <1>17 DEF Next
  <1>19. QED
    BY <1>18 DEF Goal

-----------------------------------------------------------------------------
(***************************************************************************)
(* The copies counted are those there are.  Without a crash this holds of  *)
(* what is in memory; MCPY does not mark the index dirty (fileserver.c:319),*)
(* so only without it does what was saved count right as well: then a file *)
(* has one copy as long as it is there, and whatever goes is saved.        *)
(***************************************************************************)
Counted(f, l, h) ==
  \A i \in 0 .. f.num - 1 : ~ f.entries[i].late =>
    /\ f.entries[i].msgnum # NoPost /\ f.entries[i].msgnum <= h
    /\ f.entries[i].copies = Count(l, f.entries[i].msgnum)

Single(f) == \A i \in 0 .. f.num - 1 : f.entries[i].copies = 1

\* f and g have the same files.
Alike(f, g) == g.num = f.num /\ \A i \in 0 .. f.num - 1 : g.entries[i] = f.entries[i]

CopyInv ==
  Exact =>
    /\ LastsPosted /\ crashes \in Nat
    /\ crashes = 0 \/ ~ may("MCPY") => Counted(fs, list, highest)
    /\ ~ may("MCPY") => /\ Single(fs) /\ Single(disk.fs)
                        /\ Dirty(fs) \/ Alike(fs, disk.fs)
                        /\ Counted(disk.fs, disk.list, disk.highest)

LEMMA SameAlike ==
  ASSUME NEW f, NEW g, SameIndex(f, g)
  PROVE  Alike(f, g)
  BY DEF SameIndex, Alike

LEMMA AlikeCounted ==
  ASSUME NEW f, NEW g, Alike(f, g), NEW l, NEW h
  PROVE  /\ Counted(f, l, h) => Counted(g, l, h)
         /\ Single(f) => Single(g)
  BY DEF Alike, Counted, Single

\* What a counter of copies is changed to leaves the rest of the entry alone.
LEMMA CopiesOf ==
  ASSUME NEW e \in Entry, NEW n, NEW d, d = [e EXCEPT !.copies = n]
  PROVE  /\ d.copies = n /\ d.msgnum = e.msgnum /\ d.filenum = e.filenum
         /\ ~ d.late => ~ e.late
  BY DEF Entry

\* The file of a post that goes, by what is counted, is of no post in a room.
LEMMA ThrownCounted ==
  ASSUME StateTypes, NEW m \in Int, NEW n \in Int, Thrown(m, n),
         Counted(fs, list, highest)
  PROVE  /\ Counted(fs', list', highest')
         /\ \A i \in 0 .. fs.num - 1 :
              /\ ~ fs.entries[i].late
              /\ i \notin 0 .. fs'.num - 1
              => Count(list', fs.entries[i].msgnum) = 0
  <1>1. /\ fs'.num = IF Freed(fs, m) THEN fs.num - 1 ELSE fs.num
        /\ \A i \in 0 .. fs.num - 1 :
             fs'.entries[i] = IF fs.entries[i].msgnum = m
                              THEN [fs.entries[i] EXCEPT !.copies = @ - 1]
                              ELSE fs.entries[i]
        /\ \A x : Count(list', x) + One(m, x) = Count(list, x) + One(n, x)
        /\ \/ n = NoPost /\ highest' = highest
           \/ n = highest + 1 /\ highest' = n
    BY DEF Thrown
  <1>2. fs \in Server /\ fs.num \in Nat /\ highest \in Nat
    BY ServerFields, NumbersAssumption DEF StateTypes
  <1>3. ASSUME NEW i \in 0 .. fs.num - 1, ~ fs.entries[i].late
        PROVE  /\ fs.entries[i].msgnum # NoPost /\ fs.entries[i].msgnum <= highest'
               /\ fs.entries[i].copies = Count(list', fs.entries[i].msgnum)
                                          + One(m, fs.entries[i].msgnum)
    <2>1. PICK x : x = fs.entries[i].msgnum
      OBVIOUS
    <2>2. x \in Int /\ x # NoPost /\ x <= highest /\ fs.entries[i].copies = Count(list, x)
      BY <1>2, <1>3, <2>1, EntryFound DEF Counted
    <2>3. x # n /\ x <= highest'
      BY <1>1, <1>2, <2>2
    <2>4. One(n, x) = 0
      BY <2>3 DEF One
    <2>5. Count(list, x) \in Nat /\ Count(list', x) + One(m, x) = Count(list, x) + One(n, x)
      BY <1>1, CountIs
    <2>6. QED
      BY <2>1, <2>2, <2>3, <2>4, <2>5
  <1>4. ASSUME NEW i \in 0 .. fs'.num - 1, ~ fs'.entries[i].late
        PROVE  /\ fs'.entries[i].msgnum # NoPost /\ fs'.entries[i].msgnum <= highest'
               /\ fs'.entries[i].copies = Count(list', fs'.entries[i].msgnum)
    <2>1. i \in 0 .. fs.num - 1
      BY <1>1, <1>2
    <2>2. PICK e : e = fs.entries[i]
      OBVIOUS
    <2>3. e \in Entry /\ e.copies \in Int
      BY <1>2, <2>1, <2>2, EntryFound
    <2>4. Count(list', e.msgnum) \in Nat
      <3>1. PICK l : l = list'
        OBVIOUS
      <3>2. QED
        BY <3>1, CountIs
    <2>5. CASE e.msgnum = m
      <3>1. fs'.entries[i] = [e EXCEPT !.copies = e.copies - 1]
        BY <1>1, <2>1, <2>2, <2>5
      <3>2. PICK d : d = fs'.entries[i]
        OBVIOUS
      <3>3. d.copies = e.copies - 1 /\ d.msgnum = e.msgnum /\ (~ d.late => ~ e.late)
        BY <2>3, <3>1, <3>2, CopiesOf
      <3>4. /\ e.msgnum # NoPost /\ e.msgnum <= highest'
            /\ e.copies = Count(list', e.msgnum) + One(m, e.msgnum)
        BY <1>3, <1>4, <2>1, <2>2, <3>2, <3>3
      <3>5. One(m, e.msgnum) = 1
        BY <2>5 DEF One
      <3>6. QED
        BY <2>3, <2>4, <3>2, <3>3, <3>4, <3>5
    <2>6. CASE e.msgnum # m
      <3>1. fs'.entries[i] = e
        BY <1>1, <2>1, <2>2, <2>6
      <3>2. /\ e.msgnum # NoPost /\ e.msgnum <= highest'
            /\ e.copies = Count(list', e.msgnum) + One(m, e.msgnum)
        BY <1>3, <1>4, <2>1, <2>2, <3>1
      <3>3. One(m, e.msgnum) = 0
        BY <2>6 DEF One
      <3>4. QED
        BY <2>3, <2>4, <3>1, <3>2, <3>3
    <2>7. QED
      BY <2>5, <2>6
  <1>5. ASSUME NEW i \in 0 .. fs.num - 1, ~ fs.entries[i].late, i \notin 0 .. fs'.num - 1
        PROVE  Count(list', fs.entries[i].msgnum) = 0
    <2>1. Freed(fs, m) /\ i = fs.num - 1
      BY <1>1, <1>2, <1>5
    <2>2. fs.entries[i].msgnum = m /\ fs.entries[i].copies = 1
      BY <2>1 DEF Freed
    <2>3. 1 = Count(list', m) + One(m, m)
      BY <1>3, <1>5, <2>2
    <2>4. One(m, m) = 1
      BY DEF One
    <2>5. Count(list', m) \in Nat
      <3>1. PICK l : l = list'
        OBVIOUS
      <3>2. QED
        BY <3>1, CountIs
    <2>6. QED
      BY <2>2, <2>3, <2>4, <2>5
  <1>6. Counted(fs', list', highest')
    BY <1>4 DEF Counted
  <1>7. QED
    BY <1>5, <1>6

\* If all files have one copy, deleting a post takes a file away or changes
\* nothing.
LEMMA ThrownSingle ==
  ASSUME StateTypes, NEW m, NEW n, Thrown(m, n), Single(fs)
  PROVE  /\ Single(fs')
         /\ Dirty(fs') \/ (Alike(fs, fs') /\ StillDirty(fs, fs'))
  <1>1. /\ ~ MiddleGoes(fs, m)
        /\ fs'.num = IF Freed(fs, m) THEN fs.num - 1 ELSE fs.num
        /\ StillDirty(fs, fs')
        /\ Freed(fs, m) => Dirty(fs')
        /\ \A i \in 0 .. fs.num - 1 :
             fs'.entries[i] = IF fs.entries[i].msgnum = m
                              THEN [fs.entries[i] EXCEPT !.copies = @ - 1]
                              ELSE fs.entries[i]
    BY DEF Thrown
  <1>2. fs.num \in Nat
    BY ServerFields, NumbersAssumption DEF StateTypes
  <1>3. ASSUME NEW i \in 0 .. fs.num - 1, fs.entries[i].msgnum = m
        PROVE  i = fs.num - 1 /\ Freed(fs, m)
    <2>1. fs.entries[i].copies = 1
      BY DEF Single
    <2>2. i \notin 0 .. fs.num - 2
      BY <1>1, <1>3, <2>1 DEF MiddleGoes
    <2>3. i = fs.num - 1
      BY <1>2, <2>2
    <2>4. QED
      BY <1>2, <1>3, <2>1, <2>3 DEF Freed
  <1>4. ASSUME NEW i \in 0 .. fs'.num - 1
        PROVE  i \in 0 .. fs.num - 1 /\ fs'.entries[i] = fs.entries[i]
    <2>1. i \in 0 .. fs.num - 1
      BY <1>1, <1>2
    <2>2. ~ (i = fs.num - 1 /\ Freed(fs, m))
      BY <1>1, <1>2
    <2>3. fs.entries[i].msgnum # m
      BY <1>3, <2>1, <2>2
    <2>4. QED
      BY <1>1, <2>1, <2>3
  <1>5. Single(fs')
    BY <1>4 DEF Single
  <1>6. ~ Freed(fs, m) => Alike(fs, fs')
    BY <1>1, <1>4 DEF Alike
  <1>7. QED
    BY <1>1, <1>5, <1>6

\* Another copy, of the files too.
LEMMA CopiedCounted ==
  ASSUME StateTypes, NEW n \in Int, CopiedTo(n), Counted(fs, list, highest)
  PROVE  Counted(fs', list', highest')
  <1>1. /\ fs'.num = fs.num /\ highest' = highest
        /\ \A i \in 0 .. fs.num - 1 :
             fs'.entries[i] = IF fs.entries[i].msgnum = n
                              THEN [fs.entries[i] EXCEPT !.copies = @ + 1]
                              ELSE fs.entries[i]
        /\ \A x : Count(list', x) + One(NoPost, x) = Count(list, x) + One(n, x)
    BY DEF CopiedTo
  <1>2. fs \in Server
    BY DEF StateTypes
  <1>3. ASSUME NEW i \in 0 .. fs.num - 1, ~ fs'.entries[i].late
        PROVE  /\ fs'.entries[i].msgnum # NoPost /\ fs'.entries[i].msgnum <= highest
               /\ fs'.entries[i].copies = Count(list', fs'.entries[i].msgnum)
    <2>1. PICK e : e = fs.entries[i]
      OBVIOUS
    <2>2. e \in Entry /\ e.copies \in Int
      BY <1>2, <2>1, EntryFound
    <2>3. PICK c : c = Count(list', e.msgnum)
      OBVIOUS
    <2>4. PICK l : l = list'
      OBVIOUS
    <2>5. c \in Nat /\ Count(list, e.msgnum) \in Nat
      BY <2>3, <2>4, CountIs
    <2>6. c + One(NoPost, e.msgnum) = Count(list, e.msgnum) + One(n, e.msgnum)
      BY <1>1, <2>3
    <2>7. PICK d : d = fs'.entries[i]
      OBVIOUS
    <2>8. CASE e.msgnum = n
      <3>1. d = [e EXCEPT !.copies = e.copies + 1]
        BY <1>1, <2>1, <2>7, <2>8
      <3>2. d.copies = e.copies + 1 /\ d.msgnum = e.msgnum /\ (~ d.late => ~ e.late)
        BY <2>2, <3>1, CopiesOf
      <3>3. /\ e.msgnum # NoPost /\ e.msgnum <= highest
            /\ e.copies = Count(list, e.msgnum)
        BY <1>3, <2>1, <2>7, <3>2 DEF Counted
      <3>4. One(n, e.msgnum) = 1 /\ One(NoPost, e.msgnum) = 0
        BY <2>8, <3>3 DEF One
      <3>5. d.copies = c
        BY <2>2, <2>5, <2>6, <3>2, <3>3, <3>4
      <3>6. QED
        BY <2>3, <2>7, <3>2, <3>3, <3>5
    <2>9. CASE e.msgnum # n
      <3>1. d = e
        BY <1>1, <2>1, <2>7, <2>9
      <3>2. /\ e.msgnum # NoPost /\ e.msgnum <= highest
            /\ e.copies = Count(list, e.msgnum)
        BY <1>3, <2>1, <2>7, <3>1 DEF Counted
      <3>3. One(n, e.msgnum) = 0 /\ One(NoPost, e.msgnum) = 0
        BY <2>9, <3>2 DEF One
      <3>4. e.copies = c
        BY <2>2, <2>5, <2>6, <3>2, <3>3
      <3>5. QED
        BY <2>3, <2>7, <3>1, <3>2, <3>4
    <2>10. QED
      BY <2>8, <2>9
  <1>4. QED
    BY <1>1, <1>3 DEF Counted

\* A file that is sent.
LEMMA SentCounted ==
  ASSUME StateTypes, NEW e \in Entry, Sent(e)
  PROVE  /\ Counted(fs, list, highest) => Counted(fs', list', highest')
         /\ Single(fs) => Single(fs')
  <1>1. /\ UNCHANGED << list, highest >>
        /\ e.copies = 1
        /\ ~ e.late => e.msgnum # NoPost /\ e.msgnum <= highest /\ Count(list, e.msgnum) = 1
        /\ fs'.num = fs.num + 1 /\ fs'.entries[fs.num] = e
        /\ \A i \in 0 .. fs.num - 1 : fs'.entries[i] = fs.entries[i]
    BY DEF Sent
  <1>2. fs.num \in Nat
    BY ServerFields, NumbersAssumption DEF StateTypes
  <1>3. \A i \in 0 .. fs'.num - 1 : i \in 0 .. fs.num - 1 \/ i = fs.num
    BY <1>1, <1>2
  <1>4. Count(list', e.msgnum) = Count(list, e.msgnum)
    BY <1>1
  <1>5. ASSUME Counted(fs, list, highest)
        PROVE  Counted(fs', list, highest)
    <2>1. ASSUME NEW i \in 0 .. fs'.num - 1, ~ fs'.entries[i].late
          PROVE  /\ fs'.entries[i].msgnum # NoPost /\ fs'.entries[i].msgnum <= highest
                 /\ fs'.entries[i].copies = Count(list, fs'.entries[i].msgnum)
      <3>1. CASE i = fs.num
        BY <1>1, <2>1, <3>1
      <3>2. CASE i \in 0 .. fs.num - 1
        BY <1>1, <1>5, <2>1, <3>2 DEF Counted
      <3>3. QED
        BY <1>3, <3>1, <3>2
    <2>2. QED
      BY <2>1 DEF Counted
  <1>6. Single(fs) => Single(fs')
    BY <1>1, <1>3 DEF Single
  <1>7. QED
    BY <1>1, <1>5, <1>6

\* What saved files become.
LEMMA SavedAlike ==
  ASSUME Saved, Dirty(fs) \/ Alike(fs, disk.fs)
  PROVE  Alike(fs, fs') /\ Alike(fs, disk'.fs) /\ Alike(fs', disk'.fs)
  <1>1. SameIndex(fs, fs')
    BY DEF Saved
  <1>2. CASE SameIndex(fs, disk'.fs)
    BY <1>1, <1>2 DEF SameIndex, Alike
  <1>3. CASE SameIndex(disk.fs, disk'.fs) /\ Alike(fs, disk.fs)
    BY <1>1, <1>3 DEF SameIndex, Alike
  <1>4. QED
    BY <1>2, <1>3 DEF Saved

LEMMA InitCopy == Init => CopyInv
  <1>1. SUFFICES ASSUME Init
                 PROVE  /\ LastsPosted /\ crashes \in Nat
                        /\ Counted(fs, list, highest)
                        /\ Single(fs) /\ Single(disk.fs) /\ Alike(fs, disk.fs)
                        /\ Counted(disk.fs, disk.list, disk.highest)
    BY DEF CopyInv
  <1>2. /\ fs.num = 0 /\ disk.fs = fs /\ crashes = 0
        /\ highest = 0 /\ \A u \in Users : session[u].last = NoPost
    BY <1>1, InitTypes
  <1>3. LastsPosted
    BY <1>2 DEF LastsPosted, NoPost
  <1>4. QED
    BY <1>2, <1>3 DEF Counted, Single, Alike

\* Every step keeps it.
LEMMA NextCopy == NumInv /\ CopyInv /\ [Next]_vars => CopyInv'
  <1>1. SUFFICES ASSUME NumInv, CopyInv, [Next]_vars, Exact'
                 PROVE  CopyInv'
    BY DEF CopyInv
  <1>2. commands' = commands
    BY <1>1, CommandsStay
  <1>3. Exact /\ InOrder /\ (may("MCPY")' <=> may("MCPY"))
    BY <1>1, <1>2 DEF Exact, InOrder, may
  <1>4. StateTypes /\ Numbered(fs)
    BY <1>1, <1>3 DEF NumInv
  <1>5. /\ LastsPosted /\ crashes \in Nat
        /\ crashes = 0 \/ ~ may("MCPY") => Counted(fs, list, highest)
        /\ ~ may("MCPY") => /\ Single(fs) /\ Single(disk.fs)
                            /\ Dirty(fs) \/ Alike(fs, disk.fs)
                            /\ Counted(disk.fs, disk.list, disk.highest)
    BY <1>1, <1>3 DEF CopyInv
  <1>6. Effect /\ LastsPosted'
    BY <1>1, <1>3, <1>4, <1>5, StepEffect
  <1> DEFINE Goal == /\ crashes' \in Nat
                     /\ crashes' = 0 \/ ~ may("MCPY") => Counted(fs', list', highest')
                     /\ ~ may("MCPY") => /\ Single(fs') /\ Single(disk'.fs)
                                         /\ Dirty(fs') \/ Alike(fs', disk'.fs)
                                         /\ Counted(disk'.fs, disk'.list, disk'.highest)
  <1>7. ASSUME Kept
        PROVE  Goal
    <2>1. SameFiles(fs, fs') /\ UNCHANGED << list, highest, disk, crashes >>
      BY <1>7 DEF Kept
    <2>2. Alike(fs, fs') /\ StillDirty(fs, fs')
      BY <2>1 DEF SameFiles, Alike
    <2>3. Alike(fs, disk.fs) => Alike(fs', disk.fs)
      BY <2>2 DEF Alike
    <2>4. PICK g : g = fs'
      OBVIOUS
    <2>5. Alike(fs, g)
      BY <2>2, <2>4
    <2>6. /\ Counted(fs, list, highest) => Counted(g, list, highest)
          /\ Single(fs) => Single(g)
      BY <2>5, AlikeCounted
    <2>7. /\ Counted(fs, list, highest) => Counted(fs', list, highest)
          /\ Single(fs) => Single(fs')
      BY <2>4, <2>6
    <2>8. Dirty(fs) \/ Alike(fs, disk.fs) => Dirty(fs') \/ Alike(fs', disk.fs)
      BY <2>2, <2>3 DEF StillDirty
    <2>9. QED
      BY <1>5, <2>1, <2>7, <2>8
  <1>8. ASSUME NEW e \in Entry, Sent(e)
        PROVE  Goal
    <2>1. UNCHANGED << disk, crashes >> /\ Dirty(fs')
      BY <1>8 DEF Sent
    <2>2. /\ Counted(fs, list, highest) => Counted(fs', list', highest')
          /\ Single(fs) => Single(fs')
      BY <1>4, <1>8, SentCounted
    <2>3. QED
      BY <1>5, <2>1, <2>2
  <1>9. ASSUME NEW m \in Int, NEW n \in Int, Thrown(m, n)
        PROVE  Goal
    <2>1. UNCHANGED << disk, crashes >>
      BY <1>9 DEF Thrown
    <2>2. Counted(fs, list, highest) => Counted(fs', list', highest')
      BY <1>4, <1>9, ThrownCounted
    <2>3. Single(fs) => /\ Single(fs')
                        /\ Dirty(fs') \/ (Alike(fs, fs') /\ StillDirty(fs, fs'))
      BY <1>4, <1>9, ThrownSingle
    <2>4. Alike(fs, fs') /\ Alike(fs, disk.fs) => Alike(fs', disk.fs)
      BY DEF Alike
    <2>5. QED
      BY <1>5, <2>1, <2>2, <2>3, <2>4 DEF StillDirty
  <1>10. ASSUME NEW n \in Int, CopiedTo(n)
         PROVE  Goal
    <2>1. may("MCPY") /\ UNCHANGED << disk, crashes >>
      BY <1>10 DEF CopiedTo
    <2>2. Counted(fs, list, highest) => Counted(fs', list', highest')
      BY <1>4, <1>10, CopiedCounted
    <2>3. QED
      BY <1>5, <2>1, <2>2
  <1>11. ASSUME Saved
         PROVE  Goal
    <2>1. /\ UNCHANGED << list, highest, crashes >>
          /\ SameIndex(fs, fs')
          /\ disk'.list = list /\ disk'.highest = highest
      BY <1>11 DEF Saved
    <2>2. PICK g, h : g = fs' /\ h = disk'.fs
      OBVIOUS
    <2>3. Alike(fs, g)
      BY <2>1, <2>2 DEF SameIndex, Alike
    <2>4. ~ may("MCPY") => Alike(fs, h) /\ Alike(g, h)
      BY <1>5, <1>11, <2>2, SavedAlike
    <2>5. /\ Counted(fs, list, highest) => Counted(g, list, highest)
          /\ Single(fs) => Single(g)
      BY <2>3, AlikeCounted
    <2>6. Alike(fs, h) => /\ Counted(fs, list, highest) => Counted(h, list, highest)
                          /\ Single(fs) => Single(h)
      BY AlikeCounted
    <2>7. QED
      BY <1>5, <2>1, <2>2, <2>4, <2>5, <2>6
  <1>12. ASSUME Restarted
         PROVE  Goal
    <2>1. /\ crashes' = crashes + 1 /\ disk' = disk
          /\ SameIndex(disk.fs, fs') /\ list' = disk.list /\ highest' = disk.highest
      BY <1>12 DEF Restarted
    <2>2. PICK g : g = fs'
      OBVIOUS
    <2>3. Alike(disk.fs, g) /\ Alike(g, disk.fs)
      BY <2>1, <2>2 DEF SameIndex, Alike
    <2>4. /\ Counted(disk.fs, disk.list, disk.highest) => Counted(g, disk.list, disk.highest)
          /\ Single(disk.fs) => Single(g)
      BY <2>3, AlikeCounted
    <2>5. crashes' \in Nat /\ crashes' # 0
      BY <1>5, <2>1
    <2>6. QED
      BY <1>5, <2>1, <2>2, <2>3, <2>4, <2>5
  <1> HIDE DEF Goal
  <1>13. Goal
    BY <1>6, <1>7, <1>8, <1>9, <1>10, <1>11, <1>12 DEF Effect
  <1>14. QED
    BY <1>3, <1>6, <1>13 DEF Goal, CopyInv, Counted, Single, Dirty, Alike, Count, SlotsIn

\* The copies of a file are those of its post in the rooms.
THEOREM CopiesCounted == Spec => []CopiesExact
  <1>1. ASSUME CopyInv
        PROVE  CopiesExact
    <2>1. SUFFICES ASSUME Exact, "MCPY" \in commands => crashes = 0,
                          NEW e \in Indexed, ~ e.late
                   PROVE  e.copies = Cardinality(SlotsWith(e.msgnum))
      BY DEF CopiesExact, Exact
    <2>2. Counted(fs, list, highest)
      BY <1>1, <2>1 DEF CopyInv, may
    <2>3. PICK i \in 0 .. fs.num - 1 : e = fs.entries[i]
      BY DEF Indexed
    <2>4. e.copies = Count(list, e.msgnum)
      BY <2>1, <2>2, <2>3 DEF Counted
    <2>5. QED
      BY <2>4, CountIs DEF Count
  <1>2. QED
    BY <1>1, FilesNumbered, InitCopy, NextCopy, PTL DEF Spec

\* What the index counts is what there is.
THEOREM IndexIsExact == Spec => []IndexExact
  <1>1. UsageExact /\ CopiesExact => IndexExact
    BY DEF IndexExact
  <1>2. QED
    BY <1>1, UsageCounted, CopiesCounted, PTL

\* A file stays as long as its post is in a room (rooms.c:838, fileserver.c:313),
\* but for what FilesStay names.
THEOREM FilesAreKept == Spec => FilesStay
  <1>1. ASSUME NumInv, CopyInv, [Next]_vars, Exact, crashes' = 0
        PROVE  Stays
    <2>1. SUFFICES ASSUME NEW e \in Indexed, ~ e.late, e.msgnum \in Listed'
                   PROVE  \E d \in Indexed' : d.filenum = e.filenum
      BY DEF Stays
    <2>2. StateTypes /\ Numbered(fs) /\ InOrder
      BY <1>1 DEF NumInv, Exact
    <2>3. LastsPosted /\ crashes \in Nat
      BY <1>1 DEF CopyInv
    <2>4. Effect
      BY <1>1, <2>2, <2>3, StepEffect
    <2>5. PICK i \in 0 .. fs.num - 1 : e = fs.entries[i]
      BY DEF Indexed
    <2>6. fs \in Server /\ fs.num \in Nat
      BY <2>2, ServerFields, NumbersAssumption DEF StateTypes
    <2>7. e \in Entry /\ e.copies \in Int
      BY <2>5, <2>6, EntryFound
    <2>8. SUFFICES ASSUME TRUE
                   PROVE  i \in 0 .. fs'.num - 1 /\ fs'.entries[i].filenum = e.filenum
      BY DEF Indexed
    <2>9. CASE Kept
      BY <2>5, <2>9 DEF Kept, SameFiles
    <2>10. ASSUME NEW c \in Entry, Sent(c)
           PROVE  i \in 0 .. fs'.num - 1 /\ fs'.entries[i].filenum = e.filenum
      BY <2>5, <2>6, <2>10 DEF Sent
    <2>11. ASSUME NEW m \in Int, NEW n \in Int, Thrown(m, n)
           PROVE  i \in 0 .. fs'.num - 1 /\ fs'.entries[i].filenum = e.filenum
      <3>1. crashes = 0 /\ Counted(fs, list, highest)
        BY <1>1, <2>11 DEF Thrown, CopyInv
      <3>2. i \in 0 .. fs'.num - 1 \/ Count(list', e.msgnum) = 0
        BY <2>1, <2>2, <2>5, <2>11, <3>1, ThrownCounted
      <3>3. Count(list', e.msgnum) # 0
        <4>1. PICK r \in Rooms, j \in 1 .. RoomLen : e.msgnum = list'[r][j]
          BY <2>1 DEF Listed
        <4>2. PICK l : l = list'
          OBVIOUS
        <4>3. QED
          BY <4>1, <4>2, CountedSlot
      <3>4. fs'.entries[i].filenum = e.filenum
        <4>1. CASE e.msgnum = m
          <5>1. fs'.entries[i] = [e EXCEPT !.copies = e.copies - 1]
            BY <2>5, <2>11, <4>1 DEF Thrown
          <5>2. QED
            BY <2>7, <5>1, CopiesOf
        <4>2. CASE e.msgnum # m
          BY <2>5, <2>11, <4>2 DEF Thrown
        <4>3. QED
          BY <4>1, <4>2
      <3>5. QED
        BY <3>2, <3>3, <3>4
    <2>12. ASSUME NEW n \in Int, CopiedTo(n)
           PROVE  i \in 0 .. fs'.num - 1 /\ fs'.entries[i].filenum = e.filenum
      <3>1. CASE e.msgnum = n
        <4>1. fs'.num = fs.num /\ fs'.entries[i] = [e EXCEPT !.copies = e.copies + 1]
          BY <2>5, <2>12, <3>1 DEF CopiedTo
        <4>2. QED
          BY <2>7, <4>1, CopiesOf
      <3>2. CASE e.msgnum # n
        BY <2>5, <2>12, <3>2 DEF CopiedTo
      <3>3. QED
        BY <3>1, <3>2
    <2>13. CASE Saved
      BY <2>5, <2>13 DEF Saved, SameIndex
    <2>14. ASSUME Restarted
           PROVE  FALSE
      BY <1>1, <2>3, <2>14 DEF Restarted
    <2>15. QED
      BY <2>4, <2>9, <2>10, <2>11, <2>12, <2>13, <2>14 DEF Effect
  <1>2. NumInv /\ CopyInv /\ [Next]_vars
          => [InOrder /\ "COPY_LOSES" \notin commands /\ crashes' = 0 => Stays]_vars
    BY <1>1 DEF Exact
  <1>3. QED
    BY <1>2, FilesNumbered, InitCopy, NextCopy, PTL DEF Spec, FilesStay
=============================================================================
