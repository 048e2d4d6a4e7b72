-------------------------- MODULE Mailboxes_proofs --------------------------
(***************************************************************************)
(* Mail boxes and sessions: of each user only the last session stays, new  *)
(* mail is announced, and the boxes in memory and in the files are one     *)
(* mail box for each user, for any users, connections and length of boxes. *)
(***************************************************************************)
EXTENDS Mailboxes, SequenceTheorems, FiniteSetTheorems, WellFoundedInduction, TLAPS

-----------------------------------------------------------------------------
(***************************************************************************)
(* Loops.                                                                  *)
(***************************************************************************)
\* A set of natural numbers has a least one.
LEMMA LeastOf ==
  ASSUME NEW S \in SUBSET Nat, S # {}
  PROVE  Min(S) \in S /\ \A n \in S : Min(S) <= n
  <1>1. S \subseteq Nat
    OBVIOUS
  <1>2. PICK m \in S : \A n \in S : <<n, m>> \notin OpToRel(<, Nat)
    BY <1>1, NatLessThanWellFounded, WFMin, ZenonT(30)
  <1>3. \A n \in S : ~ (n < m)
    BY <1>2 DEF OpToRel
  <1>4. \A n \in S : m <= n
    BY <1>3
  <1>5. QED
    BY <1>4 DEF Min

\* What holds before a loop and is kept by each of its N steps holds after it.
LEMMA LoopInduction ==
  ASSUME NEW N \in Nat, NEW P, 0 \in P, \A i \in 1 .. N : i - 1 \in P => i \in P
  PROVE  \A i \in 0 .. N : i \in P
  <1> DEFINE S == { i \in 0 .. N : i \notin P }
  <1>1. SUFFICES ASSUME S # {} PROVE FALSE
    OBVIOUS
  <1>2. S \in SUBSET Nat
    OBVIOUS
  <1> HIDE DEF S
  <1>3. PICK m \in S : \A n \in S : m <= n
    BY <1>1, <1>2, LeastOf
  <1> USE DEF S
  <1>4. m \in 1 .. N /\ m - 1 \in 0 .. N /\ m - 1 \notin S
    BY <1>3
  <1>5. QED
    BY <1>4

-----------------------------------------------------------------------------
(***************************************************************************)
(* A pass over the list (AllClosed): one step for each session, from the   *)
(* newest.                                                                 *)
(***************************************************************************)
CloseStep(v, which, c) == IF c \in which THEN Closed(v, c) ELSE v

\* What FoldLeft gives for the subsets of the places 1 .. n of a list.
Folds(d, n, list, sv, which) ==
  d = [s \in SUBSET (1 .. n) |->
         IF s = {} THEN sv
         ELSE CloseStep(d[s \ {Max(s)}], which, list[Max(s)])]

\* The server after each step of a pass.
Steps(g, list, sv, which) ==
  /\ g[0] = sv
  /\ \A k \in 1 .. Len(list) : g[k] = CloseStep(g[k - 1], which, list[k])

LEMMA MaxOf ==
  ASSUME NEW n \in Nat, NEW s \in SUBSET (1 .. n), n \in s
  PROVE  Max(s) = n
  <1>1. \A x \in s : x \in Int /\ n >= x
    OBVIOUS
  <1>2. Max(s) \in s /\ \A y \in s : Max(s) >= y
    BY <1>1 DEF Max
  <1>3. Max(s) >= n /\ n >= Max(s) /\ Max(s) \in Int
    BY <1>1, <1>2
  <1>4. QED
    BY <1>3

LEMMA FoldsExist ==
  ASSUME NEW n \in Nat, NEW list, NEW sv, NEW which
  PROVE  \E d : Folds(d, n, list, sv, which)
  <1> DEFINE P == { k \in 0 .. n : \E d : Folds(d, k, list, sv, which) }
  <1>1. 0 \in P
    <2> DEFINE d == [s \in SUBSET (1 .. 0) |-> sv]
    <2>1. Folds(d, 0, list, sv, which)
      BY DEF Folds
    <2> HIDE DEF d
    <2>2. QED
      BY <2>1
  <1>2. ASSUME NEW k \in 1 .. n, k - 1 \in P
        PROVE  k \in P
    <2>1. PICK d : Folds(d, k - 1, list, sv, which)
      BY <1>2
    <2> DEFINE e == [s \in SUBSET (1 .. k) |->
                       IF k \in s THEN CloseStep(d[s \ {k}], which, list[k]) ELSE d[s]]
    <2>2. ASSUME NEW s \in SUBSET (1 .. k)
          PROVE  e[s] = IF s = {} THEN sv
                        ELSE CloseStep(e[s \ {Max(s)}], which, list[Max(s)])
      <3>1. CASE k \in s
        <4>1. Max(s) = k
          BY <3>1, MaxOf
        <4>2. s \ {k} \in SUBSET (1 .. k) /\ k \notin s \ {k}
          OBVIOUS
        <4>3. e[s \ {k}] = d[s \ {k}]
          BY <4>2
        <4>4. QED
          BY <3>1, <4>1, <4>3
      <3>2. CASE k \notin s
        <4>1. s \in SUBSET (1 .. (k - 1))
          BY <3>2
        <4>2. d[s] = IF s = {} THEN sv
                     ELSE CloseStep(d[s \ {Max(s)}], which, list[Max(s)])
          BY <2>1, <4>1 DEF Folds
        <4>3. s \ {Max(s)} \in SUBSET (1 .. k) /\ k \notin s \ {Max(s)}
          BY <3>2
        <4>4. e[s \ {Max(s)}] = d[s \ {Max(s)}]
          BY <4>3
        <4>5. QED
          BY <3>2, <4>2, <4>4
      <3>3. QED
        BY <3>1, <3>2
    <2> HIDE DEF e
    <2>3. Folds(e, k, list, sv, which)
      <3>1. e = [s \in SUBSET (1 .. k) |-> e[s]]
        BY DEF e
      <3>2. QED
        BY <2>2, <3>1 DEF Folds
    <2>4. QED
      BY <2>3
  <1> HIDE DEF P
  <1>3. \A k \in 0 .. n : k \in P
    BY <1>1, <1>2, LoopInduction
  <1>4. n \in P
    BY <1>3
  <1>5. QED
    BY <1>4 DEF P

LEMMA ClosedStepwise ==
  ASSUME NEW S, NEW sv, sv.list \in Seq(S), NEW which
  PROVE  \E g : Steps(g, sv.list, sv, which) /\ AllClosed(sv, which) = g[Len(sv.list)]
  <1> DEFINE list == sv.list
             n == Len(list)
             d == CHOOSE e : Folds(e, n, list, sv, which)
             g == [k \in 0 .. n |-> d[1 .. k]]
  <1>1. n \in Nat /\ DOMAIN list = 1 .. n
    OBVIOUS
  <1>2. Folds(d, n, list, sv, which)
    BY <1>1, FoldsExist
  <1>3. AllClosed(sv, which) = d[1 .. n]
    BY <1>1 DEF AllClosed, FoldLeft, MapThenFoldSet, Folds, CloseStep
  <1> HIDE DEF d
  <1>4. ASSUME NEW k \in 1 .. n
        PROVE  d[1 .. k] = CloseStep(d[1 .. (k - 1)], which, list[k])
    <2>1. 1 .. k \in SUBSET (1 .. n) /\ k \in 1 .. k /\ (1 .. k) \ {k} = 1 .. (k - 1)
      BY <1>1
    <2>2. Max(1 .. k) = k
      BY <2>1, MaxOf
    <2>3. QED
      BY <1>2, <2>1, <2>2 DEF Folds
  <1>5. d[1 .. 0] = sv
    BY <1>1, <1>2 DEF Folds
  <1>6. Steps(g, list, sv, which) /\ AllClosed(sv, which) = g[n]
    BY <1>1, <1>3, <1>4, <1>5 DEF Steps
  <1> HIDE DEF g
  <1>7. QED
    BY <1>6
-----------------------------------------------------------------------------
(***************************************************************************)
(* The list of sessions.                                                   *)
(***************************************************************************)
\* A connection that is on the list once is taken off it.
LEMMA RemovedOnce ==
  ASSUME NEW S, NEW s \in Seq(S), IsInjective(s), NEW c
  PROVE  /\ RemoveFirst(s, c) \in Seq(S)
         /\ IsInjective(RemoveFirst(s, c))
         /\ ToSet(RemoveFirst(s, c)) = ToSet(s) \ {c}
  <1>1. CASE ~ \E i \in 1 .. Len(s) : s[i] = c
    <2>1. RemoveFirst(s, c) = s
      BY <1>1 DEF RemoveFirst
    <2>2. c \notin ToSet(s)
      BY <1>1 DEF ToSet
    <2>3. QED
      BY <2>1, <2>2
  <1>2. CASE \E i \in 1 .. Len(s) : s[i] = c
    <2> DEFINE I == { i \in 1 .. Len(s) : s[i] = c }
               t == RemoveFirst(s, c)
    <2>1. PICK i : i = Min(I)
      OBVIOUS
    <2>2. i \in 1 .. Len(s) /\ s[i] = c /\ Len(s) \in Nat
      <3>1. I \in SUBSET Nat /\ I # {}
        BY <1>2
      <3> HIDE DEF I
      <3>2. i \in I
        BY <2>1, <3>1, LeastOf
      <3>3. QED
        BY <3>2 DEF I
    <2>3. t = SubSeq(s, 1, i - 1) \o SubSeq(s, i + 1, Len(s))
      BY <1>2, <2>1 DEF RemoveFirst, RemoveAt, SelectInSeq
    <2>4. PICK a, b : a = SubSeq(s, 1, i - 1) /\ b = SubSeq(s, i + 1, Len(s))
      OBVIOUS
    <2>5. /\ a \in Seq(S) /\ Len(a) = i - 1
          /\ \A j \in 1 .. (i - 1) : a[j] = s[j]
      <3>1. i - 1 \in 0 .. Len(s) /\ i - 1 \in Int /\ 1 \in Int
        BY <2>2
      <3>2. a \in Seq(S) /\ Len(a) = i - 1
        BY <2>2, <2>4, <3>1
      <3>3. \A j \in 1 .. (i - 1) : a[j] = s[j]
        BY <2>2, <2>4, <3>1
      <3>4. QED
        BY <3>2, <3>3
    <2>6. /\ b \in Seq(S) /\ Len(b) = Len(s) - i
          /\ \A j \in 1 .. (Len(s) - i) : b[j] = s[i + j]
      BY <2>2, <2>4
    <2>7. t = a \o b
      BY <2>3, <2>4
    <2> HIDE DEF t
    <2>8. /\ t \in Seq(S) /\ Len(t) = Len(s) - 1
          /\ \A j \in 1 .. (Len(s) - 1) : t[j] = IF j < i THEN s[j] ELSE s[j + 1]
      <3>1. t \in Seq(S) /\ Len(t) = Len(s) - 1
        BY <2>2, <2>5, <2>6, <2>7
      <3>2. ASSUME NEW j \in 1 .. (Len(s) - 1)
            PROVE  t[j] = IF j < i THEN s[j] ELSE s[j + 1]
        <4>1. CASE j < i
          BY <2>2, <2>5, <2>6, <2>7, <4>1
        <4>2. CASE ~ (j < i)
          <5>1. t[j] = b[j - (i - 1)]
            BY <2>2, <2>5, <2>6, <2>7, <4>2
          <5>2. j - (i - 1) \in 1 .. (Len(s) - i)
            BY <2>2, <4>2
          <5>3. b[j - (i - 1)] = s[i + (j - (i - 1))] /\ i + (j - (i - 1)) = j + 1
            BY <2>2, <2>6, <5>2
          <5>4. QED
            BY <4>2, <5>1, <5>3
        <4>3. QED
          BY <4>1, <4>2
      <3>3. QED
        BY <3>1, <3>2
    <2>9. \A j, k \in 1 .. Len(s) : s[j] = s[k] => j = k
      BY DEF IsInjective
    <2>10. IsInjective(t)
      <3>1. ASSUME NEW j \in 1 .. (Len(s) - 1), NEW k \in 1 .. (Len(s) - 1), t[j] = t[k]
            PROVE  j = k
        BY <2>2, <2>8, <2>9, <3>1
      <3>2. DOMAIN t = 1 .. (Len(s) - 1)
        BY <2>2, <2>8
      <3>3. QED
        BY <3>1, <3>2 DEF IsInjective
    <2>11. ToSet(t) = ToSet(s) \ {c}
      <3>1. DOMAIN t = 1 .. (Len(s) - 1) /\ DOMAIN s = 1 .. Len(s)
        BY <2>2, <2>8
      <3>2. ASSUME NEW j \in DOMAIN t
            PROVE  t[j] \in ToSet(s) \ {c}
        <4>1. PICK k \in 1 .. Len(s) : k # i /\ t[j] = s[k]
          BY <2>2, <2>8, <3>1
        <4>2. s[k] # s[i]
          BY <2>2, <2>9, <4>1
        <4>3. QED
          BY <2>2, <3>1, <4>1, <4>2 DEF ToSet
      <3>3. ASSUME NEW k \in DOMAIN s, s[k] # c
            PROVE  s[k] \in ToSet(t)
        <4>1. k # i
          BY <2>2, <3>3
        <4>2. PICK j \in 1 .. (Len(s) - 1) : t[j] = s[k]
          <5>1. CASE k < i
            <6>1. k \in 1 .. (Len(s) - 1) /\ t[k] = s[k]
              BY <2>2, <2>8, <3>1, <5>1
            <6>2. QED
              BY <6>1
          <5>2. CASE ~ (k < i)
            <6>1. k - 1 \in 1 .. (Len(s) - 1) /\ t[k - 1] = s[k]
              BY <2>2, <2>8, <3>1, <4>1, <5>2
            <6>2. QED
              BY <6>1
          <5>3. QED
            BY <5>1, <5>2
        <4>3. QED
          BY <3>1, <4>2 DEF ToSet
      <3>4. QED
        BY <3>2, <3>3 DEF ToSet
    <2>12. QED
      BY <2>8, <2>10, <2>11 DEF t
  <1>3. QED
    BY <1>1, <1>2

\* A connection that is not on the list is put in front of it.
LEMMA PutInFront ==
  ASSUME NEW S, NEW s \in Seq(S), IsInjective(s), NEW c \in S, c \notin ToSet(s)
  PROVE  /\ << c >> \o s \in Seq(S)
         /\ IsInjective(<< c >> \o s)
         /\ ToSet(<< c >> \o s) = ToSet(s) \cup {c}
  <1>1. PICK t : t = << c >> \o s
    OBVIOUS
  <1>2. Len(s) \in Nat /\ DOMAIN s = 1 .. Len(s)
    OBVIOUS
  <1>3. /\ t \in Seq(S) /\ DOMAIN t = 1 .. (Len(s) + 1) /\ t[1] = c
        /\ \A j \in 1 .. Len(s) : t[j + 1] = s[j]
    BY <1>1, <1>2
  <1>4. \A j \in 1 .. (Len(s) + 1) : j # 1 => j - 1 \in 1 .. Len(s) /\ t[j] = s[j - 1]
    <2>1. ASSUME NEW j \in 1 .. (Len(s) + 1), j # 1
          PROVE  j - 1 \in 1 .. Len(s) /\ t[j] = s[j - 1]
      <3>1. j - 1 \in 1 .. Len(s) /\ (j - 1) + 1 = j
        BY <1>2, <2>1
      <3>2. QED
        BY <1>3, <3>1
    <2>2. QED
      BY <2>1
  <1>5. IsInjective(t)
    <2>1. \A j, k \in 1 .. Len(s) : s[j] = s[k] => j = k
      BY DEF IsInjective
    <2>2. \A j \in 1 .. Len(s) : s[j] # c
      BY <1>2 DEF ToSet
    <2>3. ASSUME NEW j \in 1 .. (Len(s) + 1), NEW k \in 1 .. (Len(s) + 1), t[j] = t[k]
          PROVE  j = k
      BY <1>2, <1>3, <1>4, <2>1, <2>2, <2>3
    <2>4. QED
      BY <1>3, <2>3 DEF IsInjective
  <1>6. ToSet(t) = ToSet(s) \cup {c}
    <2>1. \A j \in DOMAIN t : t[j] \in ToSet(s) \cup {c}
      BY <1>2, <1>3, <1>4 DEF ToSet
    <2>2. \A j \in DOMAIN s : s[j] \in ToSet(t)
      <3>1. ASSUME NEW j \in DOMAIN s
            PROVE  s[j] \in ToSet(t)
        <4>1. j + 1 \in DOMAIN t /\ t[j + 1] = s[j]
          BY <1>2, <1>3
        <4>2. QED
          BY <4>1 DEF ToSet
      <3>2. QED
        BY <3>1
    <2>3. c \in ToSet(t)
      <3>1. 1 \in DOMAIN t /\ t[1] = c
        BY <1>2, <1>3
      <3>2. QED
        BY <3>1 DEF ToSet
    <2>4. QED
      BY <2>1, <2>2, <2>3 DEF ToSet
  <1>7. QED
    BY <1>1, <1>3, <1>5, <1>6

\* What is looked for in the list is found.
LEMMA NewestFound ==
  ASSUME NEW sv, sv.list \in Seq(Conns), NEW S \in SUBSET ToSet(sv.list)
  PROVE  /\ S = {} => Newest(sv, S) = NoConn
         /\ S # {} => Newest(sv, S) \in S
  <1> DEFINE I == { i \in 1 .. Len(sv.list) : sv.list[i] \in S }
  <1>1. DOMAIN sv.list = 1 .. Len(sv.list) /\ Len(sv.list) \in Nat
    OBVIOUS
  <1>2. Newest(sv, S) = LET k == IF I # {} THEN Min(I) ELSE 0
                        IN  IF k = 0 THEN NoConn ELSE sv.list[k]
    BY DEF Newest, SelectInSeq
  <1>3. CASE S = {}
    <2>1. I = {}
      BY <1>3
    <2>2. QED
      BY <1>2, <1>3, <2>1
  <1>4. CASE S # {}
    <2>1. I # {} /\ I \in SUBSET Nat
      BY <1>1, <1>4 DEF ToSet
    <2>2. Min(I) \in I
      <3> HIDE DEF I
      <3>1. QED
        BY <2>1, LeastOf
    <2>3. Min(I) # 0 /\ sv.list[Min(I)] \in S
      BY <1>1, <2>2
    <2>4. QED
      BY <1>2, <1>4, <2>1, <2>3
  <1>5. QED
    BY <1>3, <1>4

-----------------------------------------------------------------------------
(***************************************************************************)
(* What is always so, when m mails were written.                           *)
(***************************************************************************)
\* No mail in a box has a number above its highest.
BoxSet(m) ==
  { b \in [slots : [Slots -> {NoMail} \cup 1 .. m], highmsg : 0 .. m] :
      \A k \in Slots : b.slots[k] <= b.highmsg }

FileSet(m) == [box : BoxSet(m), fullroom : 0 .. m]

\* Who has not logged in is nobody and not thrown out; who may give commands
\* is somebody.
SessionSet(m) ==
  { s \in [user : Users \cup {NoUser}, guest : BOOLEAN,
           stato : {"LIC", "COMANDI", "CHIUSA"}, cancella : BOOLEAN,
           box : BoxSet(m), dirty : BOOLEAN, fullroom : 0 .. m,
           newmsg : 0 .. m, lastread : 0 .. m] :
      /\ s.stato = "COMANDI" => s.user \in Users
      /\ s.stato = "LIC" => s.user = NoUser /\ s.cancella = FALSE }

ServerOK(sv, m) ==
  /\ sv \in [list : Seq(Conns), sessions : [Conns -> SessionSet(m)],
             files : [Users -> FileSet(m)]]
  /\ IsInjective(sv.list)
  /\ \A c \in Conns \ ToSet(sv.list) : sv.sessions[c] = Fresh

\* Of the sessions of a user all but one are to be thrown out.
OneStays(sv) ==
  \A u \in Users : \A c, d \in SessionsNamed(sv, u) :
    sv.sessions[c].cancella = FALSE /\ sv.sessions[d].cancella = FALSE => c = d

NobodyOut(sv) == \A c \in Conns : sv.sessions[c].cancella = FALSE

IInv ==
  /\ commands \in CommandSets
  /\ lastmail \in 0 .. MaxMails
  /\ ServerOK(server, lastmail)
  /\ turn \in Seq(Conns) /\ phase \in {"POLL", "COMMANDS"}
  /\ "RACE" \notin commands => OneStays(server)
  /\ phase = "POLL" => NobodyOut(server)

-----------------------------------------------------------------------------
(***************************************************************************)
(* Boxes.                                                                  *)
(***************************************************************************)
LEMMA NoBoxOK ==
  ASSUME NEW m \in Nat
  PROVE  NoBox \in BoxSet(m) /\ Fresh \in SessionSet(m)
  <1>1. NoBox \in BoxSet(m)
    BY NumbersAssumption DEF NoBox, BoxSet, Slots, NoMail
  <1>2. Fresh \in SessionSet(m)
    BY <1>1 DEF Fresh, SessionSet
  <1>3. QED
    BY <1>1, <1>2

\* What was so with fewer mails still is.
LEMMA MoreMails ==
  ASSUME NEW m \in Nat, NEW n \in Nat, m <= n
  PROVE  /\ BoxSet(m) \subseteq BoxSet(n)
         /\ FileSet(m) \subseteq FileSet(n)
         /\ SessionSet(m) \subseteq SessionSet(n)
         /\ \A sv : ServerOK(sv, m) => ServerOK(sv, n)
  <1>1. 1 .. m \subseteq 1 .. n /\ 0 .. m \subseteq 0 .. n
    OBVIOUS
  <1>2. BoxSet(m) \subseteq BoxSet(n)
    BY <1>1 DEF BoxSet
  <1>3. FileSet(m) \subseteq FileSet(n)
    BY <1>1, <1>2 DEF FileSet
  <1>4. SessionSet(m) \subseteq SessionSet(n)
    BY <1>1, <1>2 DEF SessionSet
  <1>5. \A sv : ServerOK(sv, m) => ServerOK(sv, n)
    BY <1>3, <1>4 DEF ServerOK
  <1>6. QED
    BY <1>2, <1>3, <1>4, <1>5

\* A mail that comes in goes into the last slot, the others move.
LEMMA ScrolledIs ==
  ASSUME NEW V, NEW s \in [Slots -> V], NEW v \in V
  PROVE  /\ Scrolled(s, v) \in [Slots -> V]
         /\ \A k \in Slots : Scrolled(s, v)[k] = IF k = BoxLen THEN v ELSE s[k + 1]
  <1>1. BoxLen \in Nat /\ BoxLen # 0
    BY NumbersAssumption
  <1>2. s \in Seq(V) /\ Len(s) = BoxLen /\ s # << >>
    BY <1>1 DEF Slots
  <1>3. PICK t : t = Tail(s)
    OBVIOUS
  <1>4. t \in Seq(V) /\ Len(t) = BoxLen - 1 /\ \A k \in 1 .. (BoxLen - 1) : t[k] = s[k + 1]
    BY <1>1, <1>2, <1>3
  <1>5. PICK a : a = Append(t, v)
    OBVIOUS
  <1>6. /\ a \in Seq(V) /\ Len(a) = BoxLen
        /\ \A k \in Slots : a[k] = IF k = BoxLen THEN v ELSE s[k + 1]
    <2>1. a \in Seq(V) /\ Len(a) = BoxLen
      BY <1>1, <1>4, <1>5
    <2>2. a[BoxLen] = v
      BY <1>1, <1>4, <1>5
    <2>3. \A k \in 1 .. (BoxLen - 1) : a[k] = t[k]
      BY <1>1, <1>4, <1>5
    <2>4. QED
      BY <1>1, <1>4, <2>1, <2>2, <2>3 DEF Slots
  <1>7. a \in [Slots -> V]
    BY <1>1, <1>6 DEF Slots
  <1>8. QED
    BY <1>3, <1>5, <1>6, <1>7 DEF Scrolled

\* The slots of WithoutMail.
WithoutSlot(slots, k) ==
  << NoMail >> \o SubSeq(slots, 1, k - 1) \o SubSeq(slots, k + 1, BoxLen)

\* A mail that is deleted leaves an empty slot in front.
LEMMA WithoutIs ==
  ASSUME NEW V, NEW slots \in [Slots -> V], NoMail \in V, NEW k \in Slots
  PROVE  /\ WithoutSlot(slots, k) \in [Slots -> V]
         /\ \A i \in Slots : WithoutSlot(slots, k)[i] =
              IF i = 1 THEN NoMail ELSE IF i <= k THEN slots[i - 1] ELSE slots[i]
  <1>1. BoxLen \in Nat /\ BoxLen # 0 /\ Slots = 1 .. BoxLen /\ k \in 1 .. BoxLen
    BY NumbersAssumption DEF Slots
  <1>2. slots \in Seq(V) /\ Len(slots) = BoxLen
    BY <1>1
  <1>3. PICK a, b : a = SubSeq(slots, 1, k - 1) /\ b = SubSeq(slots, k + 1, BoxLen)
    OBVIOUS
  <1>4. a \in Seq(V) /\ Len(a) = k - 1 /\ \A i \in 1 .. (k - 1) : a[i] = slots[i]
    <2>1. k - 1 \in 0 .. BoxLen
      BY <1>1
    <2>2. a \in Seq(V) /\ Len(a) = k - 1
      BY <1>2, <1>3, <2>1
    <2>3. \A i \in 1 .. (k - 1) : a[i] = slots[i]
      BY <1>2, <1>3, <2>1
    <2>4. QED
      BY <2>2, <2>3
  <1>5. b \in Seq(V) /\ Len(b) = BoxLen - k /\ \A i \in 1 .. (BoxLen - k) : b[i] = slots[k + i]
    BY <1>1, <1>2, <1>3
  <1>6. PICK c : c = << NoMail >> \o a
    OBVIOUS
  <1>7. /\ c \in Seq(V) /\ Len(c) = k /\ c[1] = NoMail
        /\ \A i \in 2 .. k : c[i] = slots[i - 1]
    <2>1. c \in Seq(V) /\ Len(c) = k /\ c[1] = NoMail
      BY <1>1, <1>4, <1>6
    <2>2. ASSUME NEW i \in 2 .. k
          PROVE  c[i] = slots[i - 1]
      <3>1. i - 1 \in 1 .. (k - 1)
        BY <1>1
      <3>2. c[i] = a[i - 1]
        BY <1>1, <1>4, <1>6, <3>1
      <3>3. QED
        BY <1>4, <3>1, <3>2
    <2>3. QED
      BY <2>1, <2>2
  <1>8. PICK t : t = c \o b
    OBVIOUS
  <1>9. t \in Seq(V) /\ Len(t) = BoxLen
    BY <1>1, <1>5, <1>7, <1>8
  <1>10. ASSUME NEW i \in Slots
         PROVE  t[i] = IF i = 1 THEN NoMail ELSE IF i <= k THEN slots[i - 1] ELSE slots[i]
    <2>1. CASE i <= k
      <3>1. t[i] = c[i] /\ i \in 1 .. k
        BY <1>1, <1>5, <1>7, <1>8, <2>1
      <3>2. QED
        BY <1>1, <1>7, <2>1, <3>1
    <2>2. CASE ~ (i <= k)
      <3>1. i - k \in 1 .. (BoxLen - k) /\ k + (i - k) = i /\ i # 1
        BY <1>1, <2>2
      <3>2. t[i] = b[i - k]
        <4>1. i \in 1 .. (Len(c) + Len(b)) /\ i > Len(c) /\ Len(c) = k
          BY <1>1, <1>5, <1>7, <2>2
        <4>2. t[i] = b[i - Len(c)]
          BY <1>5, <1>7, <1>8, <4>1, ConcatProperties
        <4>3. QED
          BY <4>1, <4>2
      <3>3. b[i - k] = slots[k + (i - k)]
        BY <1>5, <3>1
      <3>4. QED
        BY <2>2, <3>1, <3>2, <3>3
    <2>3. QED
      BY <2>1, <2>2
  <1>11. t \in [Slots -> V]
    BY <1>1, <1>9
  <1>12. t = WithoutSlot(slots, k)
    BY <1>3, <1>6, <1>8, Zenon DEF WithoutSlot
  <1>13. QED
    BY <1>10, <1>11, <1>12

\* Mails come into boxes and go.
LEMMA BoxKept ==
  ASSUME NEW n \in Nat, n # 0, NEW b \in BoxSet(n)
  PROVE  /\ WithMail(b, n) \in BoxSet(n)
         /\ [b EXCEPT !.highmsg = n] \in BoxSet(n)
  <1>1. /\ b \in [slots : [Slots -> {NoMail} \cup 1 .. n], highmsg : 0 .. n]
        /\ \A k \in Slots : b.slots[k] <= b.highmsg
    BY DEF BoxSet
  <1>2. n \in {NoMail} \cup 1 .. n /\ n \in 0 .. n
    OBVIOUS
  <1>3. \A v \in {NoMail} \cup 1 .. n : v <= n
    BY DEF NoMail
  <1>4. WithMail(b, n) \in BoxSet(n)
    <2>1. PICK s : s = Scrolled(b.slots, n)
      OBVIOUS
    <2>2. s \in [Slots -> {NoMail} \cup 1 .. n]
      BY <1>1, <1>2, <2>1, ScrolledIs
    <2>3. \A k \in Slots : s[k] <= n
      BY <1>3, <2>2
    <2>4. QED
      BY <1>2, <2>1, <2>2, <2>3 DEF WithMail, BoxSet
  <1>5. [b EXCEPT !.highmsg = n] \in BoxSet(n)
    BY <1>1, <1>2, <1>3 DEF BoxSet
  <1>6. QED
    BY <1>4, <1>5

LEMMA BoxWithout ==
  ASSUME NEW n \in Nat, NEW b \in BoxSet(n), NEW k \in Slots
  PROVE  WithoutMail(b, k) \in BoxSet(n)
  <1> DEFINE V == { v \in {NoMail} \cup 1 .. n : v <= b.highmsg }
  <1>1. /\ b.slots \in [Slots -> {NoMail} \cup 1 .. n] /\ b.highmsg \in 0 .. n
        /\ \A i \in Slots : b.slots[i] <= b.highmsg
        /\ b = [slots |-> b.slots, highmsg |-> b.highmsg]
    BY DEF BoxSet
  <1>2. b.slots \in [Slots -> V] /\ NoMail \in V
    BY <1>1 DEF NoMail
  <1>3. PICK s : s = WithoutSlot(b.slots, k)
    OBVIOUS
  <1>4. s \in [Slots -> V]
    <2> HIDE DEF V
    <2>1. QED
      BY <1>2, <1>3, WithoutIs
  <1>5. WithoutMail(b, k) = [slots |-> s, highmsg |-> b.highmsg]
    <2>1. WithoutMail(b, k) = [b EXCEPT !.slots = s]
      BY <1>3, Zenon DEF WithoutMail, WithoutSlot
    <2>2. [b EXCEPT !.slots = s] = [slots |-> s, highmsg |-> b.highmsg]
      <3>1. b \in [slots : [Slots -> {NoMail} \cup 1 .. n], highmsg : 0 .. n]
        BY DEF BoxSet
      <3>2. QED
        BY <3>1
    <2>3. QED
      BY <2>1, <2>2
  <1>6. QED
    BY <1>1, <1>4, <1>5 DEF BoxSet

-----------------------------------------------------------------------------
(***************************************************************************)
(* Sessions that change.                                                   *)
(***************************************************************************)
WithSession(sv, c, s) ==
  [list |-> sv.list, sessions |-> [sv.sessions EXCEPT ![c] = s], files |-> sv.files]

WithFile(sv, u, f) ==
  [list |-> sv.list, sessions |-> sv.sessions, files |-> [sv.files EXCEPT ![u] = f]]

LEMMA ServerKept ==
  ASSUME NEW m \in Nat, NEW sv, ServerOK(sv, m)
  PROVE  /\ \A c \in ToSet(sv.list), s \in SessionSet(m) : ServerOK(WithSession(sv, c, s), m)
         /\ \A u \in Users, f \in FileSet(m) : ServerOK(WithFile(sv, u, f), m)
         /\ ToSet(sv.list) \subseteq Conns
  <1>1. /\ sv \in [list : Seq(Conns), sessions : [Conns -> SessionSet(m)],
                   files : [Users -> FileSet(m)]]
        /\ IsInjective(sv.list)
        /\ \A c \in Conns \ ToSet(sv.list) : sv.sessions[c] = Fresh
    BY DEF ServerOK
  <1>2. ToSet(sv.list) \subseteq Conns
    BY <1>1 DEF ToSet
  <1>3. ASSUME NEW c \in ToSet(sv.list), NEW s \in SessionSet(m)
        PROVE  ServerOK(WithSession(sv, c, s), m)
    BY <1>1, <1>2 DEF WithSession, ServerOK
  <1>4. ASSUME NEW u \in Users, NEW f \in FileSet(m)
        PROVE  ServerOK(WithFile(sv, u, f), m)
    BY <1>1 DEF WithFile, ServerOK
  <1>5. QED
    BY <1>2, <1>3, <1>4

\* Nobody has come in, and who was to be thrown out still is.
Fewer(sv, sw) ==
  \A u \in Users : \A c \in SessionsNamed(sw, u) :
    /\ c \in SessionsNamed(sv, u)
    /\ sv.sessions[c].cancella = TRUE => sw.sessions[c].cancella # FALSE

LEMMA OneStaysOfFewer ==
  ASSUME NEW sv, NEW sw, Fewer(sv, sw), OneStays(sv),
         \A c \in ToSet(sv.list) : sv.sessions[c].cancella \in BOOLEAN
  PROVE  OneStays(sw)
  <1>1. \A u \in Users : \A c \in SessionsNamed(sv, u) : sv.sessions[c].cancella \in BOOLEAN
    BY DEF SessionsNamed, SessionsOf
  <1>2. QED
    BY <1>1 DEF Fewer, OneStays

\* The mails of a session change, or whether it is to be closed.
LEMMA FewerKept ==
  ASSUME NEW m \in Nat, NEW sv, ServerOK(sv, m), NEW c \in ToSet(sv.list), NEW s,
         s.user = sv.sessions[c].user \/ s.user = NoUser,
         s.guest = sv.sessions[c].guest, s.cancella = sv.sessions[c].cancella
  PROVE  Fewer(sv, WithSession(sv, c, s))
  <1>1. c \in Conns /\ sv.sessions \in [Conns -> SessionSet(m)] /\ NoUser \notin Users
    BY ServerKept, NumbersAssumption DEF ServerOK, NoUser
  <1>2. PICK sw : sw = WithSession(sv, c, s)
    OBVIOUS
  <1>3. /\ sw.list = sv.list /\ sw.sessions[c] = s
        /\ \A d \in Conns : d # c => sw.sessions[d] = sv.sessions[d]
    BY <1>1, <1>2 DEF WithSession
  <1>4. ToSet(sv.list) \subseteq Conns
    BY ServerKept
  <1>5. \A d \in Conns : sv.sessions[d].cancella = TRUE => sv.sessions[d].cancella # FALSE
    OBVIOUS
  <1>6. QED
    BY <1>1, <1>2, <1>3, <1>4, <1>5 DEF Fewer, SessionsNamed, SessionsOf

-----------------------------------------------------------------------------
(***************************************************************************)
(* Sessions are closed.                                                    *)
(***************************************************************************)
\* r is sv without the sessions in C.
LeftOpen(r, sv, C) ==
  /\ ToSet(r.list) = ToSet(sv.list) \ C
  /\ \A d \in ToSet(r.list) : r.sessions[d] = sv.sessions[d]

LEMMA SavedKept ==
  ASSUME NEW m \in Nat, NEW file \in FileSet(m), NEW s \in SessionSet(m)
  PROVE  SavedIn(file, s) \in FileSet(m)
  <1>1. s.box \in BoxSet(m) /\ s.fullroom \in 0 .. m /\ file.box \in BoxSet(m)
    BY DEF SessionSet, FileSet
  <1>2. QED
    BY <1>1 DEF SavedIn, FileSet

LEMMA ClosedKept ==
  ASSUME NEW m \in Nat, NEW sv, ServerOK(sv, m), NEW c \in Conns
  PROVE  ServerOK(Closed(sv, c), m) /\ LeftOpen(Closed(sv, c), sv, {c})
  <1>1. /\ sv \in [list : Seq(Conns), sessions : [Conns -> SessionSet(m)],
                   files : [Users -> FileSet(m)]]
        /\ IsInjective(sv.list)
        /\ \A d \in Conns \ ToSet(sv.list) : sv.sessions[d] = Fresh
    BY DEF ServerOK
  <1>2. PICK list : list = RemoveFirst(sv.list, c)
    OBVIOUS
  <1>3. list \in Seq(Conns) /\ IsInjective(list) /\ ToSet(list) = ToSet(sv.list) \ {c}
    BY <1>1, <1>2, RemovedOnce
  <1>4. PICK s : s = sv.sessions[c]
    OBVIOUS
  <1>5. s \in SessionSet(m) /\ s.user \in Users \cup {NoUser}
    BY <1>1, <1>4 DEF SessionSet
  <1>6. PICK files : files = IF s.user = NoUser \/ s.guest THEN sv.files
                             ELSE [sv.files EXCEPT ![s.user] = SavedIn(@, s)]
    OBVIOUS
  <1>7. files \in [Users -> FileSet(m)]
    BY <1>1, <1>5, <1>6, SavedKept
  <1>8. PICK sessions : sessions = [sv.sessions EXCEPT ![c] = Fresh]
    OBVIOUS
  <1>9. /\ sessions \in [Conns -> SessionSet(m)] /\ sessions[c] = Fresh
        /\ \A d \in Conns : d # c => sessions[d] = sv.sessions[d]
    BY <1>1, <1>8, NoBoxOK
  <1>10. Closed(sv, c) = [list |-> list, sessions |-> sessions, files |-> files]
    BY <1>2, <1>4, <1>6, <1>8, Zenon DEF Closed
  <1>11. PICK r : r = Closed(sv, c)
    OBVIOUS
  <1>12. ServerOK(r, m)
    <2>1. \A d \in Conns \ ToSet(list) : sessions[d] = Fresh
      BY <1>1, <1>3, <1>9
    <2>2. QED
      BY <1>3, <1>7, <1>9, <1>10, <1>11, <2>1 DEF ServerOK
  <1>13. LeftOpen(r, sv, {c})
    <2>1. ToSet(list) \subseteq Conns
      BY <1>3 DEF ToSet
    <2>2. QED
      BY <1>3, <1>9, <1>10, <1>11, <2>1 DEF LeftOpen
  <1>14. QED
    BY <1>11, <1>12, <1>13

\* A pass closes the sessions it should, and no others.
LEMMA AllClosedKept ==
  ASSUME NEW m \in Nat, NEW sv, ServerOK(sv, m), NEW which
  PROVE  /\ ServerOK(AllClosed(sv, which), m)
         /\ LeftOpen(AllClosed(sv, which), sv, which)
  <1> DEFINE list == sv.list
             N == Len(list)
             Past(k) == { list[j] : j \in 1 .. k } \cap which
  <1>1. list \in Seq(Conns)
    BY DEF ServerOK
  <1>2. N \in Nat /\ DOMAIN list = 1 .. N /\ \A k \in 1 .. N : list[k] \in Conns
    BY <1>1
  <1>3. PICK g : Steps(g, list, sv, which) /\ AllClosed(sv, which) = g[N]
    BY <1>1, ClosedStepwise
  <1> DEFINE P == { k \in 0 .. N : ServerOK(g[k], m) /\ LeftOpen(g[k], sv, Past(k)) }
  <1>4. 0 \in P
    <2>1. Past(0) = {} /\ g[0] = sv
      BY <1>3 DEF Steps
    <2> HIDE DEF Past
    <2>2. LeftOpen(sv, sv, {})
      BY DEF LeftOpen
    <2>3. ServerOK(g[0], m) /\ LeftOpen(g[0], sv, Past(0))
      BY <2>1, <2>2, Zenon
    <2>4. QED
      BY <1>2, <2>3
  <1>5. ASSUME NEW k \in 1 .. N, k - 1 \in P
        PROVE  k \in P
    <2>1. ServerOK(g[k - 1], m) /\ LeftOpen(g[k - 1], sv, Past(k - 1))
      BY <1>5
    <2>2. PICK c : c = list[k]
      OBVIOUS
    <2>3. c \in Conns /\ g[k] = IF c \in which THEN Closed(g[k - 1], c) ELSE g[k - 1]
      BY <1>2, <1>3, <2>2 DEF Steps, CloseStep
    <2>4. Past(k) = IF c \in which THEN Past(k - 1) \cup {c} ELSE Past(k - 1)
      <3>1. 1 .. k = (1 .. (k - 1)) \cup {k}
        BY <1>2
      <3>2. { list[j] : j \in 1 .. k } = { list[j] : j \in 1 .. (k - 1) } \cup {c}
        BY <2>2, <3>1
      <3>3. QED
        BY <3>2
    <2> HIDE DEF Past
    <2>5. CASE c \in which
      <3>1. PICK v : v = Closed(g[k - 1], c)
        OBVIOUS
      <3>2. ServerOK(v, m) /\ LeftOpen(v, g[k - 1], {c})
        BY <2>1, <2>3, <3>1, ClosedKept
      <3>3. LeftOpen(v, sv, Past(k))
        BY <2>1, <2>4, <2>5, <3>2 DEF LeftOpen
      <3>4. QED
        BY <2>3, <2>5, <3>1, <3>2, <3>3
    <2>6. CASE c \notin which
      BY <2>1, <2>3, <2>4, <2>6
    <2>7. QED
      BY <2>5, <2>6
  <1> HIDE DEF P
  <1>6. \A k \in 0 .. N : k \in P
    BY <1>2, <1>4, <1>5, LoopInduction
  <1>7. N \in P
    BY <1>2, <1>6
  <1>8. ServerOK(g[N], m) /\ LeftOpen(g[N], sv, Past(N))
    BY <1>7 DEF P
  <1>9. ToSet(list) \cap which = Past(N)
    BY <1>2 DEF ToSet
  <1> HIDE DEF Past
  <1>10. LeftOpen(g[N], sv, which)
    BY <1>8, <1>9 DEF LeftOpen
  <1>11. QED
    BY <1>3, <1>8, <1>10

\* Closing leaves fewer.
LEMMA FewerOpen ==
  ASSUME NEW r, NEW sv, NEW C, LeftOpen(r, sv, C)
  PROVE  Fewer(sv, r)
  <1>1. \A d \in ToSet(r.list) : d \in ToSet(sv.list) /\ r.sessions[d] = sv.sessions[d]
    BY DEF LeftOpen
  <1>2. ASSUME NEW u \in Users, NEW c \in SessionsNamed(r, u)
        PROVE  /\ c \in SessionsNamed(sv, u)
               /\ sv.sessions[c].cancella = TRUE => r.sessions[c].cancella # FALSE
    <2>1. c \in ToSet(r.list) /\ r.sessions[c].user = u /\ ~ r.sessions[c].guest
      BY DEF SessionsNamed, SessionsOf
    <2>2. c \in SessionsNamed(sv, u)
      BY <1>1, <2>1 DEF SessionsNamed, SessionsOf
    <2>3. r.sessions[c] = sv.sessions[c]
      BY <1>1, <2>1
    <2>4. QED
      BY <2>2, <2>3
  <1>3. QED
    BY <1>2 DEF Fewer

-----------------------------------------------------------------------------
(***************************************************************************)
(* Mails are added.                                                        *)
(***************************************************************************)
\* Somebody's box changes, nothing else does.
SameWho(sv, sw) ==
  /\ sw.list = sv.list
  /\ \A c \in Conns : /\ sw.sessions[c].user = sv.sessions[c].user
                      /\ sw.sessions[c].guest = sv.sessions[c].guest
                      /\ sw.sessions[c].stato = sv.sessions[c].stato
                      /\ sw.sessions[c].cancella = sv.sessions[c].cancella

LEMMA FewerSame ==
  ASSUME NEW sv, NEW sw, SameWho(sv, sw), ToSet(sv.list) \subseteq Conns
  PROVE  Fewer(sv, sw)
  <1>1. ASSUME NEW u \in Users, NEW c \in SessionsNamed(sw, u)
        PROVE  /\ c \in SessionsNamed(sv, u)
               /\ sv.sessions[c].cancella = TRUE => sw.sessions[c].cancella # FALSE
    <2>1. c \in ToSet(sw.list) /\ sw.sessions[c].user = u /\ ~ sw.sessions[c].guest
      BY DEF SessionsNamed, SessionsOf
    <2>2. /\ c \in ToSet(sv.list) /\ c \in Conns
          /\ sw.sessions[c].user = sv.sessions[c].user
          /\ sw.sessions[c].guest = sv.sessions[c].guest
          /\ sw.sessions[c].cancella = sv.sessions[c].cancella
      BY <2>1 DEF SameWho
    <2>3. c \in SessionsNamed(sv, u)
      BY <2>1, <2>2 DEF SessionsNamed, SessionsOf
    <2>4. QED
      BY <2>2, <2>3
  <1>2. QED
    BY <1>1 DEF Fewer

\* A session with another box.
Boxed(s, b) == [s EXCEPT !.box = b, !.dirty = TRUE]

LEMMA BoxedKept ==
  ASSUME NEW m \in Nat, NEW s \in SessionSet(m), NEW b \in BoxSet(m)
  PROVE  /\ Boxed(s, b) \in SessionSet(m)
         /\ Boxed(s, b).user = s.user /\ Boxed(s, b).guest = s.guest
         /\ Boxed(s, b).stato = s.stato /\ Boxed(s, b).cancella = s.cancella
         /\ Boxed(s, b).box = b /\ Boxed(s, b).fullroom = s.fullroom
  BY DEF Boxed, SessionSet

LEMMA MailAdded ==
  ASSUME NEW n \in Nat, n # 0, NEW sv, ServerOK(sv, n), NEW u \in Users
  PROVE  ServerOK(MailAdd(sv, u, n), n) /\ SameWho(sv, MailAdd(sv, u, n))
  <1>1. /\ sv = [list |-> sv.list, sessions |-> sv.sessions, files |-> sv.files]
        /\ sv.list \in Seq(Conns) /\ sv.sessions \in [Conns -> SessionSet(n)]
        /\ sv.files \in [Users -> FileSet(n)]
    BY DEF ServerOK
  <1>2. PICK c : c = Newest(sv, SessionsOf(sv, u))
    OBVIOUS
  <1>3. CASE c = NoConn
    <2>1. PICK f : f = [sv.files[u] EXCEPT !.box = WithMail(@, n)]
      OBVIOUS
    <2>2. f \in FileSet(n)
      <3>1. PICK g : g = sv.files[u]
        OBVIOUS
      <3>2. g \in FileSet(n)
        BY <1>1, <3>1
      <3>3. PICK b : b = WithMail(g.box, n)
        OBVIOUS
      <3>4. b \in BoxSet(n)
        BY <3>2, <3>3, BoxKept DEF FileSet
      <3>5. f = [g EXCEPT !.box = b]
        BY <2>1, <3>1, <3>3
      <3>6. QED
        BY <3>2, <3>4, <3>5 DEF FileSet
    <2>3. MailAdd(sv, u, n) = WithFile(sv, u, f)
      <3>1. MailAdd(sv, u, n) = [sv EXCEPT !.files[u].box = WithMail(@, n)]
        BY <1>2, <1>3 DEF MailAdd
      <3>2. QED
        BY <1>1, <2>1, <3>1 DEF WithFile
    <2>4. ServerOK(WithFile(sv, u, f), n)
      BY <2>2, ServerKept
    <2>5. SameWho(sv, WithFile(sv, u, f))
      BY DEF SameWho, WithFile
    <2>6. QED
      BY <2>3, <2>4, <2>5
  <1>4. CASE c # NoConn
    <2>1. SessionsOf(sv, u) \in SUBSET ToSet(sv.list)
      BY DEF SessionsOf
    <2>2. c \in ToSet(sv.list)
      BY <1>1, <1>2, <1>4, <2>1, NewestFound
    <2>3. c \in Conns
      BY <2>2, ServerKept
    <2>4. PICK s : s = sv.sessions[c]
      OBVIOUS
    <2>5. s \in SessionSet(n) /\ s.box \in BoxSet(n)
      BY <1>1, <2>3, <2>4 DEF SessionSet
    <2>6. PICK b : b = WithMail(s.box, n)
      OBVIOUS
    <2>7. b \in BoxSet(n)
      BY <2>5, <2>6, BoxKept
    <2>8. MailAdd(sv, u, n) = WithSession(sv, c, Boxed(s, b))
      <3>1. MailAdd(sv, u, n) = [sv EXCEPT !.sessions[c] = Mailed(@, n)]
        BY <1>2, <1>4 DEF MailAdd
      <3>2. Mailed(sv.sessions[c], n) = Boxed(s, b)
        BY <2>4, <2>6 DEF Mailed, Boxed
      <3>3. MailAdd(sv, u, n) = [sv EXCEPT !.sessions = [sv.sessions EXCEPT ![c] = Boxed(s, b)]]
        BY <3>1, <3>2
      <3>4. QED
        BY <1>1, <3>3 DEF WithSession
    <2>9. ServerOK(WithSession(sv, c, Boxed(s, b)), n)
      BY <2>2, <2>5, <2>7, BoxedKept, ServerKept
    <2>10. SameWho(sv, WithSession(sv, c, Boxed(s, b)))
      <3>1. PICK t : t = Boxed(s, b)
        OBVIOUS
      <3>2. t.user = s.user /\ t.guest = s.guest /\ t.stato = s.stato /\ t.cancella = s.cancella
        BY <2>5, <2>7, <3>1, BoxedKept
      <3>3. SameWho(sv, WithSession(sv, c, t))
        BY <1>1, <2>3, <2>4, <3>2 DEF SameWho, WithSession
      <3>4. QED
        BY <3>1, <3>3
    <2>11. QED
      BY <2>8, <2>9, <2>10
  <1>5. QED
    BY <1>3, <1>4

-----------------------------------------------------------------------------
(***************************************************************************)
(* Each action keeps the invariant.                                        *)
(***************************************************************************)
LEMMA Basics ==
  ASSUME IInv
  PROVE  /\ lastmail \in Nat /\ MaxMails \in Nat /\ ServerOK(server, lastmail)
         /\ Connected \subseteq Conns /\ NoUser \notin Users /\ 0 \in Users
         /\ server = [list |-> server.list, sessions |-> server.sessions,
                      files |-> server.files]
         /\ server.list \in Seq(Conns)
         /\ server.sessions \in [Conns -> SessionSet(lastmail)]
         /\ server.files \in [Users -> FileSet(lastmail)]
         /\ \A c \in Conns : Session(c).cancella \in BOOLEAN
  <1>1. lastmail \in Nat /\ MaxMails \in Nat /\ ServerOK(server, lastmail)
    BY NumbersAssumption DEF IInv
  <1>2. Connected \subseteq Conns
    BY <1>1, ServerKept DEF Connected
  <1>3. NoUser \notin Users /\ 0 \in Users
    BY NumbersAssumption DEF NoUser
  <1>4. /\ server = [list |-> server.list, sessions |-> server.sessions,
                      files |-> server.files]
        /\ server.list \in Seq(Conns)
        /\ server.sessions \in [Conns -> SessionSet(lastmail)]
        /\ server.files \in [Users -> FileSet(lastmail)]
    BY <1>1 DEF ServerOK
  <1>5. \A c \in Conns : Session(c).cancella \in BOOLEAN
    BY <1>4 DEF Session, SessionSet
  <1>6. QED
    BY <1>1, <1>2, <1>3, <1>4, <1>5

\* A server with nobody new, while the commands are served.
LEMMA ServedKept ==
  ASSUME IInv, NEW c, NEW stato, Serving(c, stato), lastmail' \in 0 .. MaxMails,
         ServerOK(server', lastmail'),
         Fewer(server, server') \/ ("RACE" \notin commands => OneStays(server'))
  PROVE  IInv'
  <1>1. /\ commands' = commands /\ phase' = phase /\ phase = "COMMANDS"
        /\ turn # << >> /\ turn' = Tail(turn)
    BY DEF Serving
  <1>2. turn' \in Seq(Conns)
    <2>1. turn \in Seq(Conns)
      BY DEF IInv
    <2>2. QED
      BY <1>1, <2>1
  <1>3. "RACE" \notin commands => OneStays(server')
    <2>1. CASE Fewer(server, server')
      <3>1. \A d \in ToSet(server.list) : server.sessions[d].cancella \in BOOLEAN
        BY Basics DEF Session, Connected
      <3>2. "RACE" \notin commands => OneStays(server)
        BY DEF IInv
      <3>3. QED
        BY <2>1, <3>1, <3>2, OneStaysOfFewer
    <2>2. QED
      BY <2>1
  <1>4. QED
    BY <1>1, <1>2, <1>3 DEF IInv

\* One session changes, and stays with its user or loses it.
LEMMA SessionServed ==
  ASSUME IInv, NEW c \in Connected, NEW stato, Serving(c, stato),
         NEW s \in SessionSet(lastmail),
         s.user = Session(c).user \/ s.user = NoUser,
         s.guest = Session(c).guest, s.cancella = Session(c).cancella,
         server' = WithSession(server, c, s), lastmail' = lastmail
  PROVE  IInv'
  <1>1. ServerOK(WithSession(server, c, s), lastmail)
    BY Basics, ServerKept DEF Connected
  <1>2. Fewer(server, WithSession(server, c, s))
    BY Basics, FewerKept DEF Connected, Session
  <1>3. lastmail' \in 0 .. MaxMails
    BY DEF IInv
  <1>4. ServerOK(server', lastmail') /\ Fewer(server, server')
    BY <1>1, <1>2
  <1>5. QED
    BY <1>3, <1>4, ServedKept

LEMMA InitInv ==
  ASSUME Init
  PROVE  IInv
  <1>1. /\ commands \in CommandSets
        /\ server = [list |-> << >>, sessions |-> [c \in Conns |-> Fresh],
                     files |-> [u \in Users |-> [box |-> NoBox, fullroom |-> 0]]]
        /\ turn = << >> /\ phase = "POLL" /\ lastmail = 0
    BY DEF Init
  <1>2. NoBox \in BoxSet(0) /\ Fresh \in SessionSet(0)
    BY NoBoxOK
  <1>3. ToSet(<< >>) = {}
    BY DEF ToSet
  <1>4. ServerOK(server, lastmail)
    <2>1. [box |-> NoBox, fullroom |-> 0] \in FileSet(0)
      BY <1>2 DEF FileSet
    <2>2. << >> \in Seq(Conns) /\ IsInjective(<< >>)
      BY DEF IsInjective
    <2>3. server \in [list : Seq(Conns), sessions : [Conns -> SessionSet(0)],
                      files : [Users -> FileSet(0)]]
      BY <1>1, <1>2, <2>1, <2>2
    <2>4. \A c \in Conns : server.sessions[c] = Fresh
      BY <1>1
    <2>5. QED
      BY <1>1, <2>2, <2>3, <2>4 DEF ServerOK
  <1>5. OneStays(server)
    BY <1>1, <1>3 DEF OneStays, SessionsNamed, SessionsOf
  <1>6. NobodyOut(server)
    BY <1>1 DEF NobodyOut, Fresh
  <1>7. QED
    BY <1>1, <1>4, <1>5, <1>6, NumbersAssumption DEF IInv

LEMMA SilentInv ==
  ASSUME IInv, Silent
  PROVE  IInv'
  <1>1. turn' \in Seq(Conns)
    BY DEF IInv, Silent
  <1>2. /\ commands' = commands /\ server' = server /\ phase' = phase /\ phase = "COMMANDS"
        /\ lastmail' = lastmail
    BY DEF Silent
  <1>3. QED
    BY <1>1, <1>2 DEF IInv

LEMMA PollInv ==
  ASSUME IInv, NEW new \in (Conns \ Connected) \cup {NoConn}, NEW lost, Poll(new, lost)
  PROVE  IInv'
  <1>1. PICK sv : sv = AllClosed(server, lost)
    OBVIOUS
  <1>2. /\ server' = IF new = NoConn THEN sv ELSE [sv EXCEPT !.list = << new >> \o @]
        /\ turn' = server'.list /\ phase' = "COMMANDS"
        /\ commands' = commands /\ lastmail' = lastmail
    BY <1>1 DEF Poll
  <1>3. ServerOK(sv, lastmail) /\ LeftOpen(sv, server, lost)
    BY <1>1, Basics, AllClosedKept
  <1>4. Fewer(server, sv)
    BY <1>3, FewerOpen
  <1>5. /\ sv \in [list : Seq(Conns), sessions : [Conns -> SessionSet(lastmail)],
                   files : [Users -> FileSet(lastmail)]]
        /\ IsInjective(sv.list)
        /\ \A d \in Conns \ ToSet(sv.list) : sv.sessions[d] = Fresh
    BY <1>3 DEF ServerOK
  <1>6. ServerOK(server', lastmail) /\ Fewer(server, server') /\ server'.list \in Seq(Conns)
    <2>1. CASE new = NoConn
      BY <1>2, <1>3, <1>4, <1>5, <2>1
    <2>2. CASE new # NoConn
      <3>1. new \in Conns /\ new \notin ToSet(server.list)
        BY <2>2 DEF Connected
      <3>2. new \notin ToSet(sv.list)
        BY <1>3, <3>1 DEF LeftOpen
      <3>3. PICK list : list = << new >> \o sv.list
        OBVIOUS
      <3>4. /\ list \in Seq(Conns) /\ IsInjective(list)
            /\ ToSet(list) = ToSet(sv.list) \cup {new}
        BY <1>5, <3>1, <3>2, <3>3, PutInFront
      <3>5. PICK sw : sw = [list |-> list, sessions |-> sv.sessions, files |-> sv.files]
        OBVIOUS
      <3>6. server' = sw
        <4>1. server' = [sv EXCEPT !.list = list]
          BY <1>2, <2>2, <3>3
        <4>2. sv = [list |-> sv.list, sessions |-> sv.sessions, files |-> sv.files]
          BY <1>5
        <4>3. QED
          BY <3>5, <4>1, <4>2
      <3>7. ServerOK(sw, lastmail)
        BY <1>5, <3>4, <3>5 DEF ServerOK
      <3>8. Fewer(server, sw)
        <4>1. ASSUME NEW u \in Users
              PROVE  SessionsNamed(sw, u) = SessionsNamed(sv, u)
          <5>1. sv.sessions[new].user # u
            BY <1>5, <3>1, <3>2, Basics DEF Fresh
          <5>2. QED
            BY <3>4, <3>5, <5>1 DEF SessionsNamed, SessionsOf
        <4>2. sw.sessions = sv.sessions
          BY <3>5
        <4>3. QED
          BY <1>4, <4>1, <4>2 DEF Fewer
      <3>9. QED
        BY <3>4, <3>5, <3>6, <3>7, <3>8
    <2>3. QED
      BY <2>1, <2>2
  <1>7. "RACE" \notin commands => OneStays(server')
    <2>1. \A d \in ToSet(server.list) : server.sessions[d].cancella \in BOOLEAN
      BY Basics DEF Session, Connected
    <2>2. "RACE" \notin commands => OneStays(server)
      BY DEF IInv
    <2>3. QED
      BY <1>6, <2>1, <2>2, OneStaysOfFewer
  <1>8. QED
    BY <1>2, <1>6, <1>7 DEF IInv

LEMMA EndPassInv ==
  ASSUME IInv, NEW idle, EndPass(idle)
  PROVE  IInv'
  <1>1. PICK C : C = { c \in Conns : Session(c).cancella }
    OBVIOUS
  <1>2. PICK sv : sv = AllClosed(server, C)
    OBVIOUS
  <1>3. PICK D : D = { c \in Conns : c \in idle \/ Session(c).stato = "CHIUSA" }
    OBVIOUS
  <1>4. /\ server' = AllClosed(sv, D) /\ phase' = "POLL"
        /\ commands' = commands /\ turn' = turn /\ lastmail' = lastmail
    BY <1>1, <1>2, <1>3 DEF EndPass
  <1>5. ServerOK(sv, lastmail) /\ LeftOpen(sv, server, C)
    BY <1>2, Basics, AllClosedKept
  <1>6. ServerOK(server', lastmail) /\ LeftOpen(server', sv, D)
    BY <1>4, <1>5, Basics, AllClosedKept
  <1>7. LeftOpen(server', server, C \cup D)
    BY <1>5, <1>6 DEF LeftOpen
  <1>8. "RACE" \notin commands => OneStays(server')
    <2>1. \A d \in ToSet(server.list) : server.sessions[d].cancella \in BOOLEAN
      BY Basics DEF Session, Connected
    <2>2. "RACE" \notin commands => OneStays(server)
      BY DEF IInv
    <2>3. Fewer(server, server')
      BY <1>7, FewerOpen
    <2>4. QED
      BY <2>1, <2>2, <2>3, OneStaysOfFewer
  <1>9. NobodyOut(server')
    <2>1. ASSUME NEW c \in Conns
          PROVE  server'.sessions[c].cancella = FALSE
      <3>1. CASE c \in ToSet(server'.list)
        <4>1. server'.sessions[c] = server.sessions[c] /\ c \notin C
          BY <1>7, <3>1 DEF LeftOpen
        <4>2. QED
          BY <1>1, <4>1, Basics DEF Session
      <3>2. CASE c \notin ToSet(server'.list)
        <4>1. server'.sessions[c] = Fresh
          BY <1>6, <3>2 DEF ServerOK
        <4>2. QED
          BY <4>1 DEF Fresh
      <3>3. QED
        BY <3>1, <3>2
    <2>2. QED
      BY <2>1 DEF NobodyOut
  <1>10. QED
    BY <1>4, <1>6, <1>8, <1>9 DEF IInv

\* Who logs in has the box and the marks of the files.
Entered(s, u, f) ==
  [s EXCEPT !.user = u, !.stato = "COMANDI", !.box = f.box,
            !.fullroom = f.fullroom, !.newmsg = f.fullroom]

Out(s) == [s EXCEPT !.cancella = TRUE]

LEMMA UsrInv ==
  ASSUME IInv, NEW c \in Connected, NEW u \in Users, Usr1(c, u)
  PROVE  IInv'
  <1>1. PICK sv : sv = AlterEgoOut(server, u)
    OBVIOUS
  <1>2. PICK f : f = server.files[u]
    OBVIOUS
  <1>3. /\ Serving(c, "LIC") /\ lastmail' = lastmail /\ Session(c).stato = "LIC"
        /\ (\E d \in SessionsNamed(server, u) : Session(d).cancella) => "RACE" \in commands
        /\ server' = [sv EXCEPT !.sessions[c] =
                        [@ EXCEPT !.user = u, !.stato = "COMANDI", !.box = f.box,
                                  !.fullroom = f.fullroom, !.newmsg = f.fullroom]]
    BY <1>1, <1>2, Zenon DEF Usr1, Serving, may
  <1>4. c \in Conns /\ c \in ToSet(server.list)
    BY Basics DEF Connected
  <1>5. Session(c).user = NoUser /\ Session(c).cancella = FALSE
    BY <1>3, <1>4, Basics DEF Session, SessionSet
  <1>6. SessionsNamed(server, u) \in SUBSET ToSet(server.list)
    BY DEF SessionsNamed, SessionsOf
  <1>7. c \notin SessionsNamed(server, u)
    BY <1>5, Basics DEF SessionsNamed, SessionsOf, Session
  <1>8. PICK e : e = Newest(server, SessionsNamed(server, u))
    OBVIOUS
  <1>9. /\ ServerOK(sv, lastmail) /\ sv.list = server.list
        /\ \A d \in Conns : /\ sv.sessions[d].user = server.sessions[d].user
                            /\ sv.sessions[d].guest = server.sessions[d].guest
                            /\ d # e => sv.sessions[d] = server.sessions[d]
        /\ SessionsNamed(server, u) # {} =>
             e \in SessionsNamed(server, u) /\ sv.sessions[e].cancella = TRUE
        /\ c # e
    <2>1. CASE e = NoConn
      <3>1. sv = server
        BY <1>1, <1>8, <2>1 DEF AlterEgoOut
      <3>2. SessionsNamed(server, u) = {}
        <4>1. NoConn \notin ToSet(server.list)
          BY Basics, NumbersAssumption DEF Connected
        <4>2. QED
          BY <1>6, <1>8, <2>1, <4>1, Basics, NewestFound
      <3>3. c # e
        BY <1>4, <2>1, NumbersAssumption
      <3>4. QED
        BY <3>1, <3>2, <3>3, Basics
    <2>2. CASE e # NoConn
      <3>1. e \in SessionsNamed(server, u)
        BY <1>6, <1>8, <2>2, Basics, NewestFound
      <3>2. e \in ToSet(server.list) /\ e \in Conns /\ e # c
        BY <1>6, <1>7, <3>1, Basics DEF Connected
      <3>3. PICK s : s = server.sessions[e]
        OBVIOUS
      <3>4. s \in SessionSet(lastmail) /\ s.user = u
        BY <3>1, <3>2, <3>3, Basics DEF SessionsNamed, SessionsOf
      <3>5. /\ Out(s) \in SessionSet(lastmail)
            /\ Out(s).user = s.user /\ Out(s).guest = s.guest /\ Out(s).cancella = TRUE
        BY <3>4, Basics DEF Out, SessionSet
      <3>6. sv = WithSession(server, e, Out(s))
        <4>1. sv = [server EXCEPT !.sessions[e].cancella = TRUE]
          BY <1>1, <1>8, <2>2 DEF AlterEgoOut
        <4>2. QED
          BY <3>3, <4>1, Basics DEF WithSession, Out
      <3>7. ServerOK(WithSession(server, e, Out(s)), lastmail)
        BY <3>2, <3>5, Basics, ServerKept
      <3>8. PICK o : o = Out(s)
        OBVIOUS
      <3>9. /\ sv.list = server.list /\ sv.sessions[e] = o
            /\ \A d \in Conns : d # e => sv.sessions[d] = server.sessions[d]
        BY <3>2, <3>6, <3>8, Basics DEF WithSession
      <3>10. o.user = s.user /\ o.guest = s.guest /\ o.cancella = TRUE
        BY <3>5, <3>8
      <3>11. QED
        BY <3>1, <3>2, <3>3, <3>6, <3>7, <3>9, <3>10
    <2>3. QED
      BY <2>1, <2>2
  <1>10. PICK s : s = Entered(sv.sessions[c], u, f)
    OBVIOUS
  <1>11. sv.sessions[c] = Session(c) /\ Session(c) \in SessionSet(lastmail)
    BY <1>4, <1>9, Basics DEF Session
  <1>12. /\ s \in SessionSet(lastmail)
         /\ s.user = u /\ s.guest = Session(c).guest /\ s.cancella = FALSE
    <2>1. f.box \in BoxSet(lastmail) /\ f.fullroom \in 0 .. lastmail
      BY <1>2, Basics DEF FileSet
    <2>2. QED
      BY <1>5, <1>10, <1>11, <2>1 DEF Entered, SessionSet
  <1>13. server' = WithSession(sv, c, s)
    <2>1. sv = [list |-> sv.list, sessions |-> sv.sessions, files |-> sv.files]
      BY <1>9 DEF ServerOK
    <2>2. server' = [sv EXCEPT !.sessions[c] = Entered(@, u, f)]
      BY <1>3 DEF Entered
    <2>3. QED
      BY <1>10, <2>1, <2>2 DEF WithSession
  <1>14. ServerOK(server', lastmail')
    <2>1. c \in ToSet(sv.list) /\ lastmail \in Nat
      BY <1>4, <1>9, Basics
    <2>2. ServerOK(WithSession(sv, c, s), lastmail)
      BY <1>9, <1>12, <2>1, ServerKept
    <2>3. QED
      BY <1>3, <1>13, <2>2
  <1>15. /\ server'.list = server.list /\ server'.sessions[c] = s
         /\ \A d \in Conns : d # c => server'.sessions[d] = sv.sessions[d]
    <2>1. sv.sessions \in [Conns -> SessionSet(lastmail)]
      BY <1>9 DEF ServerOK
    <2>2. QED
      BY <1>4, <1>9, <1>13, <2>1 DEF WithSession
  <1>16. "RACE" \notin commands => OneStays(server')
    <2>1. SUFFICES ASSUME "RACE" \notin commands
                   PROVE  OneStays(server')
      OBVIOUS
    <2>2. OneStays(server)
      BY <2>1 DEF IInv
    <2>3. \A d \in SessionsNamed(server, u) : server.sessions[d].cancella = FALSE
      BY <1>3, <1>6, <2>1, Basics DEF Session, Connected
    <2>4. \A d \in SessionsNamed(server, u) : d = e
      <3>1. ASSUME NEW d \in SessionsNamed(server, u)
            PROVE  d = e
        <4>1. e \in SessionsNamed(server, u)
          BY <1>9
        <4>2. QED
          BY <2>2, <2>3, <4>1 DEF OneStays
      <3>2. QED
        BY <3>1
    <2>5. ASSUME NEW w \in Users, NEW d \in SessionsNamed(server', w), d # c
          PROVE  d \in SessionsNamed(server, w) /\ d \in Conns
      <3>1. d \in ToSet(server.list) /\ d \in Conns
        BY <1>15, Basics DEF SessionsNamed, SessionsOf, Connected
      <3>2. /\ server'.sessions[d].user = server.sessions[d].user
            /\ server'.sessions[d].guest = server.sessions[d].guest
        BY <1>9, <1>15, <2>5, <3>1
      <3>3. QED
        BY <3>1, <3>2 DEF SessionsNamed, SessionsOf
    <2>6. ASSUME NEW w \in Users,
                 NEW d \in SessionsNamed(server', w), NEW g \in SessionsNamed(server', w),
                 server'.sessions[d].cancella = FALSE, server'.sessions[g].cancella = FALSE
          PROVE  d = g
      <3>1. CASE w = u
        <4>1. ASSUME NEW h \in SessionsNamed(server', w), h # c
              PROVE  server'.sessions[h].cancella = TRUE
          <5>1. h \in SessionsNamed(server, u) /\ h \in Conns
            BY <2>5, <3>1, <4>1
          <5>2. h = e /\ sv.sessions[e].cancella = TRUE
            BY <1>9, <2>4, <5>1
          <5>3. QED
            BY <1>15, <4>1, <5>1, <5>2
        <4>2. d = c /\ g = c
          BY <2>6, <4>1
        <4>3. QED
          BY <4>2
      <3>2. CASE w # u
        <4>1. ASSUME NEW h \in SessionsNamed(server', w)
              PROVE  h # c
          <5>1. server'.sessions[h].user = w
            BY DEF SessionsNamed, SessionsOf
          <5>2. QED
            BY <1>12, <1>15, <3>2, <5>1
        <4>2. /\ d \in SessionsNamed(server, w) /\ d \in Conns /\ d # c
              /\ g \in SessionsNamed(server, w) /\ g \in Conns /\ g # c
          BY <2>5, <4>1
        <4>3. d # e /\ g # e
          <5>1. SessionsNamed(server, u) = {} => e \notin SessionsNamed(server, w)
            BY <1>6, <1>8, Basics, NewestFound, NumbersAssumption
               DEF Connected, SessionsNamed, SessionsOf
          <5>2. e \in SessionsNamed(server, u) => e \notin SessionsNamed(server, w)
            BY <3>2 DEF SessionsNamed, SessionsOf
          <5>3. QED
            BY <1>9, <4>2, <5>1, <5>2
        <4>4. /\ server.sessions[d].cancella = FALSE
              /\ server.sessions[g].cancella = FALSE
          BY <1>9, <1>15, <2>6, <4>2, <4>3
        <4>5. QED
          BY <2>2, <4>2, <4>4 DEF OneStays
      <3>3. QED
        BY <3>1, <3>2
    <2>7. QED
      BY <2>6 DEF OneStays
  <1>17. lastmail' \in 0 .. MaxMails
    BY <1>3 DEF IInv
  <1>18. QED
    BY <1>3, <1>14, <1>16, <1>17, ServedKept

GuestEntered(s) == [s EXCEPT !.user = 0, !.guest = TRUE, !.stato = "COMANDI"]

LEMMA UsrGuestInv ==
  ASSUME IInv, NEW c \in Connected, Usr1Guest(c)
  PROVE  IInv'
  <1>1. /\ Serving(c, "LIC") /\ lastmail' = lastmail /\ Session(c).stato = "LIC"
        /\ server' = [server EXCEPT !.sessions[c] = GuestEntered(@)]
    BY DEF Usr1Guest, Serving, GuestEntered
  <1>2. c \in Conns /\ c \in ToSet(server.list)
    BY Basics DEF Connected
  <1>3. PICK s : s = GuestEntered(Session(c))
    OBVIOUS
  <1>4. s \in SessionSet(lastmail) /\ s.guest = TRUE
    BY <1>1, <1>2, <1>3, Basics DEF GuestEntered, SessionSet, Session
  <1>5. server' = WithSession(server, c, s)
    BY <1>1, <1>2, <1>3, Basics DEF WithSession, Session
  <1>6. ServerOK(WithSession(server, c, s), lastmail)
    BY <1>2, <1>4, Basics, ServerKept
  <1>7. Fewer(server, WithSession(server, c, s))
    <2>1. PICK sw : sw = WithSession(server, c, s)
      OBVIOUS
    <2>2. /\ sw.list = server.list /\ sw.sessions[c] = s
          /\ \A d \in Conns : d # c => sw.sessions[d] = server.sessions[d]
      BY <1>2, <2>1, Basics DEF WithSession
    <2>3. ASSUME NEW u \in Users, NEW d \in SessionsNamed(sw, u)
          PROVE  d \in SessionsNamed(server, u) /\ sw.sessions[d] = server.sessions[d]
      <3>1. d \in ToSet(server.list) /\ d \in Conns /\ sw.sessions[d].user = u
            /\ ~ sw.sessions[d].guest
        BY <2>2, Basics DEF SessionsNamed, SessionsOf, Connected
      <3>2. d # c
        BY <1>4, <2>2, <3>1
      <3>3. QED
        BY <2>2, <3>1, <3>2 DEF SessionsNamed, SessionsOf
    <2>4. QED
      BY <2>1, <2>3 DEF Fewer
  <1>8. QED
    BY <1>1, <1>5, <1>6, <1>7, ServedKept DEF IInv

LEMMA MdelInv ==
  ASSUME IInv, NEW c \in Connected, NEW k \in Slots, Mdel(c, k)
  PROVE  IInv'
  <1>1. /\ Serving(c, "COMANDI") /\ lastmail' = lastmail
        /\ server' = [server EXCEPT !.sessions[c] = Unmailed(@, k)]
    BY DEF Mdel
  <1>2. c \in Conns
    BY Basics
  <1>3. PICK r : r = Session(c)
    OBVIOUS
  <1>4. r \in SessionSet(lastmail) /\ r.box \in BoxSet(lastmail)
    BY <1>2, <1>3, Basics DEF Session, SessionSet
  <1>5. PICK b : b = WithoutMail(r.box, k)
    OBVIOUS
  <1>6. b \in BoxSet(lastmail)
    BY <1>4, <1>5, Basics, BoxWithout
  <1>7. server' = WithSession(server, c, Boxed(r, b))
    <2>1. server.sessions[c] = r
      BY <1>3 DEF Session
    <2>2. Unmailed(r, k) = Boxed(r, b)
      BY <1>5 DEF Unmailed, Boxed
    <2>3. server' = [server EXCEPT !.sessions = [server.sessions EXCEPT ![c] = Boxed(r, b)]]
      BY <1>1, <2>1, <2>2
    <2>4. QED
      BY <2>3, Basics DEF WithSession
  <1>8. PICK s : s = Boxed(r, b)
    OBVIOUS
  <1>9. /\ s \in SessionSet(lastmail) /\ s.user = r.user
        /\ s.guest = r.guest /\ s.cancella = r.cancella
    BY <1>4, <1>6, <1>8, Basics, BoxedKept
  <1>10. QED
    BY <1>1, <1>3, <1>7, <1>8, <1>9, SessionServed

LEMMA ReadInv ==
  ASSUME IInv, NEW c \in Connected, NEW k \in Slots, NEW mark \in 0 .. MaxMails,
         Read(c, k, mark)
  PROVE  IInv'
  <1>1. PICK n : n = Session(c).box.slots[k]
    OBVIOUS
  <1>2. /\ Serving(c, "COMANDI") /\ lastmail' = lastmail
        /\ n # NoMail /\ mark \in {n, Session(c).fullroom}
        /\ server' = [server EXCEPT !.sessions[c] = Shown(@, n, mark)]
    BY <1>1 DEF Read
  <1>3. c \in Conns
    BY Basics
  <1>4. PICK r : r = Session(c)
    OBVIOUS
  <1>5. r \in SessionSet(lastmail) /\ r.box \in BoxSet(lastmail)
    BY <1>3, <1>4, Basics DEF Session, SessionSet
  <1>6. n \in 1 .. lastmail /\ mark \in 0 .. lastmail /\ lastmail \in Nat
    <2>1. n \in {NoMail} \cup 1 .. lastmail
      BY <1>1, <1>4, <1>5 DEF BoxSet
    <2>2. r.fullroom \in 0 .. lastmail
      BY <1>5 DEF SessionSet
    <2>3. QED
      BY <1>2, <1>4, <2>1, <2>2, Basics
  <1>7. PICK s : s = Shown(r, n, mark)
    OBVIOUS
  <1>8. /\ s \in SessionSet(lastmail) /\ s.user = r.user
        /\ s.guest = r.guest /\ s.cancella = r.cancella
    <2>1. n \in 0 .. lastmail
      BY <1>6
    <2>2. QED
      BY <1>5, <1>6, <1>7, <2>1 DEF Shown, SessionSet
  <1>9. server' = WithSession(server, c, s)
    BY <1>2, <1>4, <1>7, Basics DEF WithSession, Session
  <1>10. QED
    BY <1>2, <1>4, <1>8, <1>9, SessionServed

LEMMA GotoInv ==
  ASSUME IInv, NEW c \in Connected, NEW mark \in 0 .. MaxMails, Goto(c, mark)
  PROVE  IInv'
  <1>1. PICK r : r = Session(c)
    OBVIOUS
  <1>2. /\ Serving(c, "COMANDI") /\ lastmail' = lastmail
        /\ mark \in {r.box.highmsg, r.fullroom, r.newmsg, r.lastread}
        /\ server' = [server EXCEPT !.sessions[c] = BackIn(@, mark)]
    BY <1>1 DEF Goto
  <1>3. c \in Conns
    BY Basics
  <1>4. r \in SessionSet(lastmail) /\ r.box \in BoxSet(lastmail)
    BY <1>1, <1>3, Basics DEF Session, SessionSet
  <1>5. mark \in 0 .. lastmail
    BY <1>2, <1>4 DEF BoxSet, SessionSet
  <1>6. PICK s : s = BackIn(r, mark)
    OBVIOUS
  <1>7. /\ s \in SessionSet(lastmail) /\ s.user = r.user
        /\ s.guest = r.guest /\ s.cancella = r.cancella
    <2>1. 0 \in 0 .. lastmail
      BY Basics
    <2>2. QED
      BY <1>4, <1>5, <1>6, <2>1 DEF BackIn, SessionSet
  <1>8. server' = WithSession(server, c, s)
    BY <1>1, <1>2, <1>6, Basics DEF WithSession, Session
  <1>9. QED
    BY <1>1, <1>2, <1>7, <1>8, SessionServed

Left(s) == [s EXCEPT !.stato = "CHIUSA"]

LEMMA QuitInv ==
  ASSUME IInv, NEW c \in Connected, Quit(c)
  PROVE  IInv'
  <1>1. /\ Serving(c, "COMANDI") /\ lastmail' = lastmail
        /\ server' = [server EXCEPT !.sessions[c].stato = "CHIUSA"]
    BY DEF Quit
  <1>2. c \in Conns
    BY Basics
  <1>3. PICK r : r = Session(c)
    OBVIOUS
  <1>4. r \in SessionSet(lastmail)
    BY <1>2, <1>3, Basics DEF Session
  <1>5. PICK s : s = Left(r)
    OBVIOUS
  <1>6. /\ s \in SessionSet(lastmail) /\ s.user = r.user
        /\ s.guest = r.guest /\ s.cancella = r.cancella
    BY <1>4, <1>5 DEF Left, SessionSet
  <1>7. server' = WithSession(server, c, s)
    BY <1>1, <1>3, <1>5, Basics DEF Left, WithSession, Session
  <1>8. QED
    BY <1>1, <1>3, <1>6, <1>7, SessionServed

LEMMA CusrInv ==
  ASSUME IInv, NEW c \in Connected, NEW u \in Users, Cusr(c, u)
  PROVE  IInv'
  <1>1. PICK sessions : sessions = [d \in Conns |->
                          IF Session(d).user = u /\ ~ Session(d).guest
                          THEN ThrownOut(Session(d)) ELSE Session(d)]
    OBVIOUS
  <1>2. PICK sw : sw = [list |-> server.list, sessions |-> sessions, files |-> server.files]
    OBVIOUS
  <1>3. Serving(c, "COMANDI") /\ lastmail' = lastmail /\ server' = sw
    <2>1. /\ Serving(c, "COMANDI") /\ lastmail' = lastmail
          /\ server' = [server EXCEPT !.sessions =
                [d \in Conns |-> IF Session(d).user = u /\ ~ Session(d).guest
                                 THEN ThrownOut(Session(d)) ELSE Session(d)]]
      BY DEF Cusr, Session
    <2>2. server' = [server EXCEPT !.sessions = sessions]
      BY <1>1, <2>1
    <2>3. QED
      BY <1>2, <2>1, <2>2, Basics
  <1>4. \A s \in SessionSet(lastmail) :
          /\ ThrownOut(s) \in SessionSet(lastmail) /\ ThrownOut(s).user = NoUser
          /\ ThrownOut(s).cancella = s.cancella
    BY DEF ThrownOut, SessionSet
  <1>5. \A d \in Conns : Session(d) \in SessionSet(lastmail) /\ Session(d) = server.sessions[d]
    BY Basics DEF Session
  <1>6. ServerOK(sw, lastmail)
    <2>1. sessions \in [Conns -> SessionSet(lastmail)]
      BY <1>1, <1>4, <1>5
    <2>2. \A d \in Conns \ ToSet(server.list) : sessions[d] = Fresh
      <3>1. \A d \in Conns \ ToSet(server.list) : Session(d) = Fresh
        BY Basics DEF ServerOK, Session
      <3>2. Fresh.user # u
        BY Basics DEF Fresh
      <3>3. QED
        BY <1>1, <3>1, <3>2
    <2>3. QED
      BY <1>2, <2>1, <2>2, Basics DEF ServerOK
  <1>7. Fewer(server, sw)
    <2>1. ASSUME NEW w \in Users, NEW d \in SessionsNamed(sw, w)
          PROVE  d \in SessionsNamed(server, w) /\ sw.sessions[d] = server.sessions[d]
      <3>1. d \in ToSet(server.list) /\ d \in Conns /\ sessions[d].user = w /\ ~ sessions[d].guest
        BY <1>2, Basics DEF SessionsNamed, SessionsOf, Connected
      <3>2. sessions[d] = Session(d)
        BY <1>1, <1>4, <1>5, <3>1, Basics
      <3>3. QED
        BY <1>2, <3>1, <3>2 DEF SessionsNamed, SessionsOf, Session
    <2>2. QED
      BY <2>1 DEF Fewer
  <1>8. lastmail' \in 0 .. MaxMails
    BY <1>3 DEF IInv
  <1>9. QED
    BY <1>3, <1>6, <1>7, <1>8, ServedKept

Numbered(s, n) == [s EXCEPT !.box.highmsg = n]

LEMMA SendInv ==
  ASSUME IInv, NEW c \in Connected, NEW to \in Users, NEW cc \in BOOLEAN, Send(c, to, cc)
  PROVE  IInv'
  <1>1. PICK n : n = lastmail + 1
    OBVIOUS
  <1>2. PICK own : own = IF cc THEN MailAdd(server, Session(c).user, n) ELSE server
    OBVIOUS
  <1>3. PICK sent : sent = MailAdd(own, to, n)
    OBVIOUS
  <1>4. /\ Serving(c, "COMANDI") /\ Session(c).stato = "COMANDI" /\ n <= MaxMails
        /\ server' = [sent EXCEPT !.sessions[c].box.highmsg = n] /\ lastmail' = n
    BY <1>1, <1>2, <1>3 DEF Send, Serving
  <1>5. c \in Conns /\ c \in ToSet(server.list)
    BY Basics DEF Connected
  <1>6. n \in Nat /\ n # 0 /\ lastmail <= n /\ n \in 0 .. MaxMails
    BY <1>1, <1>4, Basics
  <1>7. Session(c).user \in Users
    BY <1>4, <1>5, Basics DEF Session, SessionSet
  <1>8. ServerOK(server, n) /\ SameWho(server, server)
    BY <1>6, Basics, MoreMails DEF SameWho
  <1>9. ServerOK(own, n) /\ SameWho(server, own)
    BY <1>2, <1>6, <1>7, <1>8, MailAdded
  <1>10. ServerOK(sent, n) /\ SameWho(own, sent)
    BY <1>3, <1>6, <1>9, MailAdded
  <1>11. SameWho(server, sent)
    BY <1>9, <1>10 DEF SameWho
  <1>12. /\ sent = [list |-> sent.list, sessions |-> sent.sessions, files |-> sent.files]
         /\ sent.sessions \in [Conns -> SessionSet(n)]
    BY <1>10 DEF ServerOK
  <1>13. PICK r : r = sent.sessions[c]
    OBVIOUS
  <1>14. r \in SessionSet(n) /\ r.box \in BoxSet(n)
    BY <1>5, <1>12, <1>13 DEF SessionSet
  <1>15. PICK b : b = [r.box EXCEPT !.highmsg = n]
    OBVIOUS
  <1>16. b \in BoxSet(n)
    BY <1>6, <1>14, <1>15, BoxKept
  <1>17. PICK s : s = [r EXCEPT !.box = b]
    OBVIOUS
  <1>18. /\ s \in SessionSet(n) /\ s.user = r.user /\ s.guest = r.guest
         /\ s.stato = r.stato /\ s.cancella = r.cancella
    BY <1>14, <1>16, <1>17 DEF SessionSet
  <1>19. server' = WithSession(sent, c, s)
    <2>1. server' = [sent EXCEPT !.sessions[c] = Numbered(@, n)]
      BY <1>4 DEF Numbered
    <2>2. Numbered(r, n) = s
      BY <1>15, <1>17 DEF Numbered
    <2>3. server' = [sent EXCEPT !.sessions = [sent.sessions EXCEPT ![c] = s]]
      BY <1>13, <2>1, <2>2
    <2>4. QED
      BY <1>12, <2>3 DEF WithSession
  <1>20. ServerOK(server', lastmail')
    <2>1. c \in ToSet(sent.list)
      BY <1>5, <1>11 DEF SameWho
    <2>2. ServerOK(WithSession(sent, c, s), n)
      BY <1>6, <1>10, <1>18, <2>1, ServerKept
    <2>3. QED
      BY <1>4, <1>19, <2>2
  <1>21. SameWho(server, server')
    <2>1. SameWho(sent, WithSession(sent, c, s))
      BY <1>5, <1>12, <1>13, <1>18 DEF SameWho, WithSession
    <2>2. QED
      BY <1>11, <1>19, <2>1 DEF SameWho
  <1>22. Fewer(server, server')
    BY <1>21, Basics, FewerSame DEF Connected
  <1>23. QED
    BY <1>4, <1>6, <1>20, <1>22, ServedKept

LEMMA XinmInv ==
  ASSUME IInv, NEW c \in Connected, NEW to \in Users, Xinm(c, to)
  PROVE  IInv'
  <1>1. PICK n : n = lastmail + 1
    OBVIOUS
  <1>2. PICK sent : sent = MailAdd(server, to, n)
    OBVIOUS
  <1>3. /\ Serving(c, "COMANDI") /\ Session(c).stato = "COMANDI" /\ n <= MaxMails
        /\ server' = MailAdd(sent, Session(c).user, n) /\ lastmail' = n
    BY <1>1, <1>2 DEF Xinm, Serving
  <1>4. n \in Nat /\ n # 0 /\ lastmail <= n /\ n \in 0 .. MaxMails
    BY <1>1, <1>3, Basics
  <1>5. Session(c).user \in Users
    BY <1>3, Basics DEF Session, SessionSet
  <1>6. ServerOK(server, n)
    BY <1>4, Basics, MoreMails
  <1>7. ServerOK(sent, n) /\ SameWho(server, sent)
    BY <1>2, <1>4, <1>6, MailAdded
  <1>8. ServerOK(server', n) /\ SameWho(sent, server')
    BY <1>3, <1>4, <1>5, <1>7, MailAdded
  <1>9. SameWho(server, server')
    BY <1>7, <1>8 DEF SameWho
  <1>10. Fewer(server, server')
    BY <1>9, Basics, FewerSame DEF Connected
  <1>11. QED
    BY <1>3, <1>4, <1>8, <1>10, ServedKept

LEMMA StepInv ==
  ASSUME IInv, [Next]_vars
  PROVE  IInv'
  <1>1. CASE \E new \in (Conns \ Connected) \cup {NoConn},
               lost \in Subsets(Connected, "LOST") : Poll(new, lost)
    BY <1>1, PollInv
  <1>2. CASE Silent
    BY <1>2, SilentInv
  <1>3. CASE \E c \in Connected : Usr1Guest(c) \/ Quit(c)
    BY <1>3, UsrGuestInv, QuitInv
  <1>4. CASE \E c \in Connected, u \in Users : Usr1(c, u) \/ Xinm(c, u) \/ Cusr(c, u)
    BY <1>4, UsrInv, XinmInv, CusrInv
  <1>5. CASE \E c \in Connected, u \in Users, cc \in BOOLEAN : Send(c, u, cc)
    BY <1>5, SendInv
  <1>6. CASE \E c \in Connected, k \in Slots :
               Mdel(c, k) \/ \E mark \in 0 .. MaxMails : Read(c, k, mark)
    BY <1>6, MdelInv, ReadInv
  <1>7. CASE \E c \in Connected, mark \in 0 .. MaxMails : Goto(c, mark)
    BY <1>7, GotoInv
  <1>8. CASE \E idle \in Subsets(Connected, "IDLE") : EndPass(idle)
    BY <1>8, EndPassInv
  <1>9. CASE UNCHANGED vars
    <2>1. /\ commands' = commands /\ server' = server /\ turn' = turn
          /\ phase' = phase /\ lastmail' = lastmail
      BY <1>9 DEF vars
    <2>2. QED
      BY <2>1 DEF IInv
  <1>10. QED
    BY <1>1, <1>2, <1>3, <1>4, <1>5, <1>6, <1>7, <1>8, <1>9 DEF Next

\* What the server holds is always as IInv says.
THEOREM Invariant == Spec => []IInv
  <1>1. Init => IInv
    BY InitInv
  <1>2. IInv /\ [Next]_vars => IInv'
    BY StepInv
  <1>3. QED
    BY <1>1, <1>2, PTL DEF Spec

-----------------------------------------------------------------------------
(***************************************************************************)
(* The properties.                                                         *)
(***************************************************************************)
LEMMA AtMostOne ==
  ASSUME NEW S, \A c, d \in S : c = d
  PROVE  Cardinality(S) <= 1
  <1>1. CASE S = {}
    BY <1>1, FS_EmptySet
  <1>2. CASE S # {}
    <2>1. PICK c : S = {c}
      BY <1>2
    <2>2. Cardinality({c}) = 1
      BY FS_Singleton
    <2>3. QED
      BY <2>1, <2>2
  <1>3. QED
    BY <1>1, <1>2

\* A user who logs in again, and again, while the earlier sessions still have
\* commands to give or mails to get, has one session at the end of the pass: the
\* alter ego is thrown out (cmd_usr1), for any number of users and connections.
THEOREM EachUserOnce == Spec => []OneSession
  <1>1. ASSUME IInv
        PROVE  OneSession
    <2>1. SUFFICES ASSUME "RACE" \notin commands, phase = "POLL", NEW u \in Users
                   PROVE  Cardinality(Named(u)) <= 1
      BY DEF OneSession
    <2>2. OneStays(server) /\ NobodyOut(server)
      BY <1>1, <2>1 DEF IInv
    <2>3. \A c \in SessionsNamed(server, u) : server.sessions[c].cancella = FALSE
      BY <1>1, <2>2, Basics DEF NobodyOut, SessionsNamed, SessionsOf, Connected
    <2>4. \A c, d \in SessionsNamed(server, u) : c = d
      BY <2>2, <2>3 DEF OneStays
    <2>5. QED
      BY <2>4, AtMostOne DEF Named
  <1>2. IInv => OneSession
    BY <1>1
  <1>3. QED
    BY <1>2, Invariant, PTL

\* Whatever the sessions of a user hold, whichever was saved last, and wherever
\* mails were put: no mail has a number above highmsg of its box, so comparing
\* highmsg with the marks (new_msg) misses none.
THEOREM NoMailUnseen == Spec => []NewMailAnnounced
  <1>1. ASSUME IInv
        PROVE  NewMailAnnounced
    <2>1. SUFFICES ASSUME NEW c \in Connected, NEW k \in Slots,
                          Session(c).box.slots[k] > Session(c).fullroom
                   PROVE  Session(c).box.highmsg > Session(c).fullroom
      BY DEF NewMailAnnounced
    <2>2. Session(c) \in SessionSet(lastmail)
      BY <1>1, Basics DEF Session
    <2>3. /\ Session(c).fullroom \in Int /\ Session(c).box.highmsg \in Int
          /\ Session(c).box.slots[k] \in Int
          /\ Session(c).box.slots[k] <= Session(c).box.highmsg
      BY <2>2 DEF SessionSet, BoxSet, NoMail
    <2>4. QED
      BY <2>1, <2>3
  <1>2. IInv => NewMailAnnounced
    BY <1>1
  <1>3. QED
    BY <1>2, Invariant, PTL

\* Boxes keep their length and sessions their kind of contents, in memory and in
\* the files, and a connection is on the list once.
THEOREM TypeCorrect == Spec => []TypeOK
  <1>1. ASSUME IInv
        PROVE  TypeOK
    <2>1. /\ lastmail \in 0 .. MaxMails /\ MaxMails \in Nat
          /\ commands \in CommandSets /\ turn \in Seq(Conns)
          /\ phase \in {"POLL", "COMMANDS"}
      BY <1>1, Basics DEF IInv
    <2>2. /\ ServerOK(server, lastmail) /\ Connected \subseteq Conns
          /\ ServerOK(server, MaxMails)
      BY <1>1, <2>1, Basics, MoreMails
    <2>3. IsInjective(server.list) /\ \A c \in Conns \ Connected : Session(c) = Fresh
      BY <2>2 DEF ServerOK, Connected, Session
    <2>4. BoxSet(MaxMails) \subseteq Boxes
      BY DEF BoxSet, Boxes
    <2>5. server.sessions \in
            [Conns -> [user : Users \cup {NoUser}, guest : BOOLEAN,
                       stato : {"LIC", "COMANDI", "CHIUSA"}, cancella : BOOLEAN,
                       box : Boxes, dirty : BOOLEAN, fullroom : 0 .. MaxMails,
                       newmsg : 0 .. MaxMails, lastread : 0 .. MaxMails]]
      <3>1. server.sessions \in [Conns -> SessionSet(MaxMails)]
        BY <2>2 DEF ServerOK
      <3>2. SessionSet(MaxMails) \subseteq
              [user : Users \cup {NoUser}, guest : BOOLEAN,
               stato : {"LIC", "COMANDI", "CHIUSA"}, cancella : BOOLEAN,
               box : Boxes, dirty : BOOLEAN, fullroom : 0 .. MaxMails,
               newmsg : 0 .. MaxMails, lastread : 0 .. MaxMails]
        BY <2>4 DEF SessionSet
      <3>3. QED
        BY <3>1, <3>2
    <2>6. server.files \in [Users -> [box : Boxes, fullroom : 0 .. MaxMails]]
      <3>1. server.files \in [Users -> FileSet(MaxMails)]
        BY <2>2 DEF ServerOK
      <3>2. FileSet(MaxMails) \subseteq [box : Boxes, fullroom : 0 .. MaxMails]
        BY <2>4 DEF FileSet
      <3>3. QED
        BY <3>1, <3>2
    <2>7. QED
      BY <2>1, <2>2, <2>3, <2>5, <2>6 DEF TypeOK
  <1>2. IInv => TypeOK
    BY <1>1
  <1>3. QED
    BY <1>2, Invariant, PTL
-----------------------------------------------------------------------------
(***************************************************************************)
(* One mail box for each user, wherever it is (ImplementsUserMailboxes).   *)
(***************************************************************************)
\* The empty slots come first, then the mails in the order they were written.
Ascending(slots) ==
  \A i, j \in Slots : i < j /\ slots[i] # NoMail => slots[i] < slots[j]

\* No guests, each user in one session at most, boxes in order; a box that was
\* not touched since it was read from the file is as in the file.
Orderly(sv) ==
  /\ \A c \in Conns : ~ sv.sessions[c].guest /\ Ascending(sv.sessions[c].box.slots)
  /\ \A u \in Users : Ascending(sv.files[u].box.slots)
  /\ \A c, d \in Conns :
       sv.sessions[c].user \in Users /\ sv.sessions[c].user = sv.sessions[d].user => c = d
  /\ \A c \in Conns : sv.sessions[c].user \in Users /\ ~ sv.sessions[c].dirty =>
       sv.sessions[c].box.slots = sv.files[sv.sessions[c].user].box.slots

\* The box of a user has these slots, and what was read of it is marked so: in
\* the session, or in the file if there is none.
Holds(sv, u, slots, mark) ==
  /\ \A c \in Conns : sv.sessions[c].user = u =>
       sv.sessions[c].box.slots = slots /\ sv.sessions[c].fullroom = mark
  /\ (\A c \in Conns : sv.sessions[c].user # u) =>
       sv.files[u].box.slots = slots /\ sv.files[u].fullroom = mark

\* Nothing happens to the boxes of the users.
Quiet(sv, sw) ==
  \A u \in Users : \A slots, mark : Holds(sv, u, slots, mark) => Holds(sw, u, slots, mark)

\* As Held, in any server.
HeldIn(sv, u) ==
  IF SessionsNamed(sv, u) = {} THEN sv.files[u]
  ELSE LET s == sv.sessions[CHOOSE c \in SessionsNamed(sv, u) : TRUE]
       IN  [box |-> s.box, fullroom |-> s.fullroom]

LEMMA NamedIs ==
  ASSUME NEW m, NEW sv, ServerOK(sv, m), Orderly(sv), NEW u \in Users
  PROVE  SessionsNamed(sv, u) = { c \in Conns : sv.sessions[c].user = u }
  <1>1. ToSet(sv.list) \subseteq Conns
    BY DEF ServerOK, ToSet
  <1>2. \A c \in Conns \ ToSet(sv.list) : sv.sessions[c].user # u
    BY NumbersAssumption DEF ServerOK, Fresh, NoUser
  <1>3. \A c \in Conns : ~ sv.sessions[c].guest
    BY DEF Orderly
  <1>4. QED
    BY <1>1, <1>2, <1>3 DEF SessionsNamed, SessionsOf

LEMMA HeldIs ==
  ASSUME NEW m, NEW sv, ServerOK(sv, m), Orderly(sv), NEW u \in Users,
         NEW slots, NEW mark, Holds(sv, u, slots, mark)
  PROVE  HeldIn(sv, u).box.slots = slots /\ HeldIn(sv, u).fullroom = mark
  <1>1. PICK S : S = SessionsNamed(sv, u)
    OBVIOUS
  <1>2. S = { c \in Conns : sv.sessions[c].user = u }
    BY <1>1, NamedIs
  <1>3. CASE S = {}
    <2>1. HeldIn(sv, u) = sv.files[u]
      BY <1>1, <1>3 DEF HeldIn
    <2>2. \A c \in Conns : sv.sessions[c].user # u
      BY <1>2, <1>3
    <2>3. QED
      BY <2>1, <2>2 DEF Holds
  <1>4. CASE S # {}
    <2>1. PICK c : c = CHOOSE d \in S : TRUE
      OBVIOUS
    <2>2. c \in S
      BY <1>4, <2>1
    <2>3. HeldIn(sv, u) = [box |-> sv.sessions[c].box, fullroom |-> sv.sessions[c].fullroom]
      BY <1>1, <1>4, <2>1 DEF HeldIn
    <2>4. c \in Conns /\ sv.sessions[c].user = u
      BY <1>2, <2>2
    <2>5. QED
      BY <2>3, <2>4 DEF Holds
  <1>5. QED
    BY <1>3, <1>4

LEMMA HeldHolds ==
  ASSUME NEW m, NEW sv, ServerOK(sv, m), Orderly(sv), NEW u \in Users
  PROVE  \E slots, mark : Holds(sv, u, slots, mark)
  <1>1. CASE \E c \in Conns : sv.sessions[c].user = u
    <2>1. PICK c \in Conns : sv.sessions[c].user = u
      BY <1>1
    <2>2. \A d \in Conns : sv.sessions[d].user = u => d = c
      BY <2>1 DEF Orderly
    <2>3. Holds(sv, u, sv.sessions[c].box.slots, sv.sessions[c].fullroom)
      BY <2>1, <2>2 DEF Holds
    <2>4. QED
      BY <2>3
  <1>2. CASE \A c \in Conns : sv.sessions[c].user # u
    <2>1. Holds(sv, u, sv.files[u].box.slots, sv.files[u].fullroom)
      BY <1>2 DEF Holds
    <2>2. QED
      BY <2>1
  <1>3. QED
    BY <1>1, <1>2

\* What the server holds is what the box of the user is.
LEMMA HoldsHeld ==
  ASSUME NEW m, NEW sv, ServerOK(sv, m), Orderly(sv), NEW u \in Users
  PROVE  Holds(sv, u, HeldIn(sv, u).box.slots, HeldIn(sv, u).fullroom)
  <1>1. PICK slots, mark : Holds(sv, u, slots, mark)
    BY HeldHolds
  <1>2. HeldIn(sv, u).box.slots = slots /\ HeldIn(sv, u).fullroom = mark
    BY <1>1, HeldIs
  <1>3. QED
    BY <1>1, <1>2

-----------------------------------------------------------------------------
(***************************************************************************)
(* One session changes.                                                    *)
(***************************************************************************)
LEMMA SessionPut ==
  ASSUME NEW m, NEW sv, ServerOK(sv, m), Orderly(sv), NEW c \in Conns, NEW s,
         s.user = sv.sessions[c].user, s.guest = sv.sessions[c].guest,
         Ascending(s.box.slots),
         \/ s.dirty = TRUE
         \/ s.dirty = sv.sessions[c].dirty /\ s.box.slots = sv.sessions[c].box.slots
  PROVE  /\ Orderly(WithSession(sv, c, s))
         /\ \A u \in Users : \A slots, mark : Holds(sv, u, slots, mark) =>
              IF s.user = u THEN Holds(WithSession(sv, c, s), u, s.box.slots, s.fullroom)
              ELSE Holds(WithSession(sv, c, s), u, slots, mark)
  <1>1. PICK sw : sw = WithSession(sv, c, s)
    OBVIOUS
  <1>2. /\ sw.files = sv.files /\ sw.sessions[c] = s
        /\ \A d \in Conns : d # c => sw.sessions[d] = sv.sessions[d]
    BY <1>1 DEF WithSession, ServerOK
  <1>3. \A d \in Conns : /\ sw.sessions[d].user = sv.sessions[d].user
                         /\ sw.sessions[d].guest = sv.sessions[d].guest
    BY <1>2
  <1>4. Orderly(sw)
    BY <1>2, <1>3 DEF Orderly
  <1>5. ASSUME NEW u \in Users, NEW slots, NEW mark, Holds(sv, u, slots, mark)
        PROVE  IF s.user = u THEN Holds(sw, u, s.box.slots, s.fullroom)
               ELSE Holds(sw, u, slots, mark)
    <2>1. CASE s.user = u
      <3>1. \A d \in Conns : sw.sessions[d].user = u => d = c
        BY <1>3, <2>1 DEF Orderly
      <3>2. QED
        BY <1>2, <2>1, <3>1 DEF Holds
    <2>2. CASE s.user # u
      <3>1. \A d \in Conns : sw.sessions[d].user = u => sw.sessions[d] = sv.sessions[d]
        BY <1>2, <2>2
      <3>2. QED
        BY <1>2, <1>3, <1>5, <2>2, <3>1 DEF Holds
    <2>3. QED
      BY <2>1, <2>2
  <1>6. QED
    BY <1>1, <1>4, <1>5

\* The box of a user who is not there changes.
LEMMA FilePut ==
  ASSUME NEW m, NEW sv, ServerOK(sv, m), Orderly(sv), NEW u \in Users, NEW f,
         \A c \in Conns : sv.sessions[c].user # u, Ascending(f.box.slots)
  PROVE  /\ Orderly(WithFile(sv, u, f))
         /\ \A w \in Users : \A slots, mark : Holds(sv, w, slots, mark) =>
              IF w = u THEN Holds(WithFile(sv, u, f), w, f.box.slots, f.fullroom)
              ELSE Holds(WithFile(sv, u, f), w, slots, mark)
  <1>1. PICK sw : sw = WithFile(sv, u, f)
    OBVIOUS
  <1>2. /\ sw.sessions = sv.sessions /\ sw.files[u] = f
        /\ \A w \in Users : w # u => sw.files[w] = sv.files[w]
    BY <1>1 DEF WithFile, ServerOK
  <1>3. Orderly(sw)
    BY <1>2 DEF Orderly
  <1>4. ASSUME NEW w \in Users, NEW slots, NEW mark, Holds(sv, w, slots, mark)
        PROVE  IF w = u THEN Holds(sw, w, f.box.slots, f.fullroom)
               ELSE Holds(sw, w, slots, mark)
    BY <1>2, <1>4 DEF Holds
  <1>5. QED
    BY <1>1, <1>3, <1>4

-----------------------------------------------------------------------------
(***************************************************************************)
(* Sessions come and go.                                                   *)
(***************************************************************************)
LEMMA FreshIs ==
  /\ Fresh.user \notin Users /\ Fresh.guest = FALSE
  /\ Ascending(Fresh.box.slots)
  <1>1. NoUser \notin Users
    BY NumbersAssumption DEF NoUser
  <1>2. \A k \in Slots : Fresh.box.slots[k] = NoMail
    BY DEF Fresh, NoBox
  <1>3. QED
    BY <1>1, <1>2 DEF Fresh, Ascending

\* Only sessions and files count, not the list.
LEMMA ListOnly ==
  ASSUME NEW sv, NEW sw, sw.sessions = sv.sessions, sw.files = sv.files, Orderly(sv)
  PROVE  Orderly(sw) /\ Quiet(sv, sw)
  <1>1. Orderly(sw)
    BY DEF Orderly
  <1>2. Quiet(sv, sw)
    BY DEF Quiet, Holds
  <1>3. QED
    BY <1>1, <1>2

\* The box of a session that is closed is in the file.
LEMMA ClosedQuiet ==
  ASSUME NEW m, NEW sv, ServerOK(sv, m), Orderly(sv), NEW c \in Conns
  PROVE  Orderly(Closed(sv, c)) /\ Quiet(sv, Closed(sv, c))
  <1>1. PICK s : s = sv.sessions[c]
    OBVIOUS
  <1>2. PICK sw : sw = Closed(sv, c)
    OBVIOUS
  <1>3. /\ sv.sessions \in [Conns -> SessionSet(m)] /\ sv.files \in [Users -> FileSet(m)]
    BY DEF ServerOK
  <1>4. s.user \in Users \cup {NoUser} /\ s.guest = FALSE /\ s.dirty \in BOOLEAN
    BY <1>1, <1>3 DEF SessionSet, Orderly
  <1>5. NoUser \notin Users
    BY NumbersAssumption DEF NoUser
  <1>6. /\ sw.sessions = [sv.sessions EXCEPT ![c] = Fresh]
        /\ sw.files = IF s.user = NoUser THEN sv.files
                      ELSE [sv.files EXCEPT ![s.user] = SavedIn(@, s)]
    BY <1>1, <1>2, <1>4 DEF Closed
  <1>7. /\ sw.sessions[c] = Fresh
        /\ \A d \in Conns : d # c => sw.sessions[d] = sv.sessions[d]
    BY <1>3, <1>6
  <1>8. \A u \in Users : u # s.user => sw.files[u] = sv.files[u]
    BY <1>3, <1>6
  <1>9. s.user \in Users =>
          /\ sw.files[s.user].box.slots = s.box.slots
          /\ sw.files[s.user].fullroom = s.fullroom
    <2>1. SUFFICES ASSUME s.user \in Users
                   PROVE  /\ sw.files[s.user].box.slots = s.box.slots
                          /\ sw.files[s.user].fullroom = s.fullroom
      OBVIOUS
    <2>2. PICK f : f = sv.files[s.user]
      OBVIOUS
    <2>3. sw.files[s.user] = SavedIn(f, s)
      BY <1>3, <1>5, <1>6, <2>1, <2>2
    <2>4. s.dirty = TRUE \/ f.box.slots = s.box.slots
      BY <1>1, <1>4, <2>1, <2>2 DEF Orderly
    <2>5. QED
      BY <2>3, <2>4 DEF SavedIn
  <1>10. \A d \in Conns : d # c /\ sv.sessions[d].user \in Users => sv.sessions[d].user # s.user
    BY <1>1 DEF Orderly
  <1>11. \A d \in Conns : sw.sessions[d].user \in Users => d # c
    BY <1>7, FreshIs
  <1>12. Ascending(s.box.slots)
    BY <1>1 DEF Orderly
  <1>13. Orderly(sw)
    <2>1. \A d \in Conns : ~ sw.sessions[d].guest /\ Ascending(sw.sessions[d].box.slots)
      BY <1>7, FreshIs DEF Orderly
    <2>2. \A u \in Users : Ascending(sw.files[u].box.slots)
      <3>1. ASSUME NEW u \in Users
            PROVE  Ascending(sw.files[u].box.slots)
        <4>1. CASE u = s.user
          BY <1>9, <1>12, <4>1
        <4>2. CASE u # s.user
          BY <1>8, <4>2 DEF Orderly
        <4>3. QED
          BY <4>1, <4>2
      <3>2. QED
        BY <3>1
    <2>3. \A d, e \in Conns :
            sw.sessions[d].user \in Users /\ sw.sessions[d].user = sw.sessions[e].user => d = e
      BY <1>7, <1>11 DEF Orderly
    <2>4. ASSUME NEW d \in Conns, sw.sessions[d].user \in Users, ~ sw.sessions[d].dirty
          PROVE  sw.sessions[d].box.slots = sw.files[sw.sessions[d].user].box.slots
      <3>1. d # c /\ sw.sessions[d] = sv.sessions[d]
        BY <1>7, <1>11, <2>4
      <3>2. PICK u : u = sv.sessions[d].user
        OBVIOUS
      <3>3. u \in Users /\ u # s.user
        BY <1>10, <2>4, <3>1, <3>2
      <3>4. sv.sessions[d].box.slots = sv.files[u].box.slots
        BY <2>4, <3>1, <3>2, <3>3 DEF Orderly
      <3>5. QED
        BY <1>8, <3>1, <3>2, <3>3, <3>4
    <2>5. QED
      BY <2>1, <2>2, <2>3, <2>4 DEF Orderly
  <1>14. ASSUME NEW u \in Users, NEW slots, NEW mark, Holds(sv, u, slots, mark)
         PROVE  Holds(sw, u, slots, mark)
    <2>1. ASSUME NEW d \in Conns, sw.sessions[d].user = u
          PROVE  sw.sessions[d].box.slots = slots /\ sw.sessions[d].fullroom = mark
      BY <1>7, <1>11, <1>14, <2>1 DEF Holds
    <2>2. ASSUME \A d \in Conns : sw.sessions[d].user # u
          PROVE  sw.files[u].box.slots = slots /\ sw.files[u].fullroom = mark
      <3>1. CASE u = s.user
        <4>1. s.box.slots = slots /\ s.fullroom = mark
          BY <1>1, <1>14, <3>1 DEF Holds
        <4>2. QED
          BY <1>9, <3>1, <4>1
      <3>2. CASE u # s.user
        <4>1. \A d \in Conns : sv.sessions[d].user # u
          BY <1>1, <1>7, <2>2, <3>2
        <4>2. QED
          BY <1>8, <1>14, <3>2, <4>1 DEF Holds
      <3>3. QED
        BY <3>1, <3>2
    <2>3. QED
      BY <2>1, <2>2 DEF Holds
  <1>15. QED
    BY <1>2, <1>13, <1>14 DEF Quiet

LEMMA AllClosedQuiet ==
  ASSUME NEW m \in Nat, NEW sv, ServerOK(sv, m), Orderly(sv), NEW which
  PROVE  Orderly(AllClosed(sv, which)) /\ Quiet(sv, AllClosed(sv, which))
  <1> DEFINE list == sv.list
             N == Len(list)
  <1>1. list \in Seq(Conns)
    BY DEF ServerOK
  <1>2. N \in Nat /\ DOMAIN list = 1 .. N /\ \A k \in 1 .. N : list[k] \in Conns
    BY <1>1
  <1>3. PICK g : Steps(g, list, sv, which) /\ AllClosed(sv, which) = g[N]
    BY <1>1, ClosedStepwise
  <1> DEFINE P == { k \in 0 .. N : ServerOK(g[k], m) /\ Orderly(g[k]) /\ Quiet(sv, g[k]) }
  <1>4. 0 \in P
    <2>1. g[0] = sv
      BY <1>3 DEF Steps
    <2>2. Quiet(sv, sv)
      BY DEF Quiet
    <2>3. ServerOK(g[0], m) /\ Orderly(g[0]) /\ Quiet(sv, g[0])
      BY <2>1, <2>2, Zenon
    <2>4. QED
      BY <1>2, <2>3
  <1>5. ASSUME NEW k \in 1 .. N, k - 1 \in P
        PROVE  k \in P
    <2>1. PICK v : v = g[k - 1]
      OBVIOUS
    <2>2. ServerOK(v, m) /\ Orderly(v) /\ Quiet(sv, v)
      BY <1>5, <2>1
    <2>3. PICK c : c = list[k]
      OBVIOUS
    <2>4. c \in Conns /\ g[k] = IF c \in which THEN Closed(v, c) ELSE v
      BY <1>2, <1>3, <2>1, <2>3 DEF Steps, CloseStep
    <2>5. PICK w : w = Closed(v, c)
      OBVIOUS
    <2>6. ServerOK(w, m)
      BY <2>2, <2>4, <2>5, ClosedKept
    <2>7. Orderly(w) /\ Quiet(v, w)
      BY <2>2, <2>4, <2>5, ClosedQuiet
    <2>8. Quiet(sv, w)
      BY <2>2, <2>7 DEF Quiet
    <2>9. ServerOK(g[k], m) /\ Orderly(g[k]) /\ Quiet(sv, g[k])
      BY <2>2, <2>4, <2>5, <2>6, <2>7, <2>8
    <2>10. QED
      BY <2>9
  <1> HIDE DEF P
  <1>6. \A k \in 0 .. N : k \in P
    BY <1>2, <1>4, <1>5, LoopInduction
  <1>7. N \in P
    BY <1>2, <1>6
  <1>8. Orderly(g[N]) /\ Quiet(sv, g[N])
    BY <1>7 DEF P
  <1>9. QED
    BY <1>3, <1>8

\* Who logs in, and is not there, finds what the files hold.
LEMMA EnteredQuiet ==
  ASSUME NEW m, NEW sv, ServerOK(sv, m), Orderly(sv), NEW c \in Conns, NEW u \in Users,
         \A d \in Conns : sv.sessions[d].user # u, sv.sessions[c].user = NoUser, NEW s,
         s.user = u, s.guest = sv.sessions[c].guest,
         s.box = sv.files[u].box, s.fullroom = sv.files[u].fullroom
  PROVE  Orderly(WithSession(sv, c, s)) /\ Quiet(sv, WithSession(sv, c, s))
  <1>1. PICK sw : sw = WithSession(sv, c, s)
    OBVIOUS
  <1>2. /\ sw.files = sv.files /\ sw.sessions[c] = s
        /\ \A d \in Conns : d # c => sw.sessions[d] = sv.sessions[d]
    BY <1>1 DEF WithSession, ServerOK
  <1>3. NoUser \notin Users
    BY NumbersAssumption DEF NoUser
  <1>4. Orderly(sw)
    BY <1>2 DEF Orderly
  <1>5. ASSUME NEW w \in Users, NEW slots, NEW mark, Holds(sv, w, slots, mark)
        PROVE  Holds(sw, w, slots, mark)
    <2>1. CASE w = u
      BY <1>2, <1>5, <2>1 DEF Holds
    <2>2. CASE w # u
      <3>1. \A d \in Conns : sw.sessions[d].user = w => sw.sessions[d] = sv.sessions[d]
        BY <1>2, <2>2
      <3>2. (\A d \in Conns : sw.sessions[d].user # w) => \A d \in Conns : sv.sessions[d].user # w
        BY <1>2, <1>3
      <3>3. QED
        BY <1>2, <1>5, <3>1, <3>2 DEF Holds
    <2>3. QED
      BY <2>1, <2>2
  <1>6. QED
    BY <1>1, <1>4, <1>5 DEF Quiet

-----------------------------------------------------------------------------
(***************************************************************************)
(* Mails in the slots.                                                     *)
(***************************************************************************)
MailsIn(slots) == ToSet(slots) \ {NoMail}

LEMMA MailsAre ==
  ASSUME NEW V, NEW slots \in [Slots -> V]
  PROVE  MailsIn(slots) = { slots[k] : k \in { i \in Slots : slots[i] # NoMail } }
  BY DEF MailsIn, ToSet

LEMMA ScrolledAscending ==
  ASSUME NEW m \in Nat, NEW slots \in [Slots -> {NoMail} \cup 1 .. m], Ascending(slots),
         NEW n \in 1 .. m, \A k \in Slots : slots[k] < n
  PROVE  Ascending(Scrolled(slots, n))
  <1>1. PICK t : t = Scrolled(slots, n)
    OBVIOUS
  <1>2. \A k \in Slots : t[k] = IF k = BoxLen THEN n ELSE slots[k + 1]
    <2>1. PICK V : V = {NoMail} \cup 1 .. m
      OBVIOUS
    <2>2. slots \in [Slots -> V] /\ n \in V
      BY <2>1
    <2>3. QED
      BY <1>1, <2>2, ScrolledIs
  <1>3. BoxLen \in Nat /\ Slots = 1 .. BoxLen
    BY NumbersAssumption DEF Slots
  <1>4. ASSUME NEW i \in Slots, NEW j \in Slots, i < j, t[i] # NoMail
        PROVE  t[i] < t[j]
    <2>1. i # BoxLen /\ i + 1 \in Slots /\ t[i] = slots[i + 1]
      BY <1>2, <1>3, <1>4
    <2>2. CASE j = BoxLen
      BY <1>2, <2>1, <2>2
    <2>3. CASE j # BoxLen
      <3>1. j + 1 \in Slots /\ t[j] = slots[j + 1] /\ i + 1 < j + 1
        BY <1>2, <1>3, <1>4, <2>3
      <3>2. QED
        BY <1>4, <2>1, <3>1 DEF Ascending
    <2>4. QED
      BY <2>2, <2>3
  <1>5. QED
    BY <1>1, <1>4 DEF Ascending

\* It is gone, the others are still there and in order.
LEMMA WithoutMails ==
  ASSUME NEW m \in Nat, NEW slots \in [Slots -> {NoMail} \cup 1 .. m], Ascending(slots),
         NEW k \in Slots, slots[k] # NoMail, NEW t, t = WithoutSlot(slots, k)
  PROVE  Ascending(t) /\ MailsIn(t) = MailsIn(slots) \ {slots[k]}
  <1>1. BoxLen \in Nat /\ BoxLen # 0 /\ Slots = 1 .. BoxLen /\ k \in 1 .. BoxLen
    BY NumbersAssumption DEF Slots
  <1>2. PICK V : V = {NoMail} \cup 1 .. m
    OBVIOUS
  <1>3. slots \in [Slots -> V] /\ NoMail \in V /\ \A v \in V : v \in Int
    BY <1>2 DEF NoMail
  <1>4. /\ t \in [Slots -> V]
        /\ \A i \in Slots : t[i] = IF i = 1 THEN NoMail
                                   ELSE IF i <= k THEN slots[i - 1] ELSE slots[i]
    <2>1. slots \in [Slots -> V] /\ NoMail \in V
      BY <1>3
    <2>2. QED
      BY <2>1, WithoutIs
  <1>5. \A i \in Slots : slots[i] \in Int
    BY <1>3
  <1>6. ASSUME NEW i \in Slots, NEW j \in Slots, i < j, t[i] # NoMail
        PROVE  t[i] < t[j]
    <2>1. i # 1 /\ j # 1
      BY <1>1, <1>4, <1>6
    <2>2. PICK p \in Slots : p = IF i <= k THEN i - 1 ELSE i
      BY <1>1, <2>1
    <2>3. PICK q \in Slots : q = IF j <= k THEN j - 1 ELSE j
      BY <1>1, <2>1
    <2>4. t[i] = slots[p] /\ t[j] = slots[q]
      BY <1>4, <2>1, <2>2, <2>3
    <2>5. p < q
      BY <1>1, <1>6, <2>2, <2>3
    <2>6. QED
      BY <1>6, <2>4, <2>5 DEF Ascending
  <1>7. Ascending(t)
    BY <1>6 DEF Ascending
  <1>8. MailsIn(t) = { t[i] : i \in { j \in Slots : t[j] # NoMail } }
    <2>1. t \in [Slots -> V]
      BY <1>4
    <2>2. QED
      BY <2>1, MailsAre
  <1>9. MailsIn(slots) = { slots[i] : i \in { j \in Slots : slots[j] # NoMail } }
    BY <1>3, MailsAre
  <1>10. \A i \in Slots : slots[i] = slots[k] => i = k
    <2>1. ASSUME NEW i \in Slots, slots[i] = slots[k], i # k
          PROVE  FALSE
      <3>1. i < k \/ k < i
        BY <1>1, <2>1
      <3>2. slots[i] < slots[k] \/ slots[k] < slots[i]
        BY <2>1, <3>1 DEF Ascending
      <3>3. QED
        BY <1>5, <2>1, <3>2
    <2>2. QED
      BY <2>1
  <1>11. ASSUME NEW i \in Slots, t[i] # NoMail
         PROVE  \E j \in Slots : j # k /\ slots[j] = t[i]
    <2>1. i # 1
      BY <1>4, <1>11
    <2>2. CASE i <= k
      <3>1. i - 1 \in Slots /\ i - 1 # k /\ slots[i - 1] = t[i]
        BY <1>1, <1>4, <2>1, <2>2
      <3>2. QED
        BY <3>1
    <2>3. CASE ~ (i <= k)
      <3>1. i # k /\ slots[i] = t[i]
        BY <1>1, <1>4, <2>1, <2>3
      <3>2. QED
        BY <3>1
    <2>4. QED
      BY <2>2, <2>3
  <1>12. ASSUME NEW j \in Slots, j # k
         PROVE  \E i \in Slots : t[i] = slots[j]
    <2>1. CASE j < k
      <3>1. j + 1 \in Slots /\ j + 1 # 1 /\ j + 1 <= k /\ (j + 1) - 1 = j
        BY <1>1, <2>1
      <3>2. t[j + 1] = slots[j]
        BY <1>4, <3>1
      <3>3. QED
        BY <3>1, <3>2
    <2>2. CASE ~ (j < k)
      <3>1. j # 1 /\ ~ (j <= k)
        BY <1>1, <1>12, <2>2
      <3>2. t[j] = slots[j]
        BY <1>4, <3>1
      <3>3. QED
        BY <3>2
    <2>3. QED
      BY <2>1, <2>2
  <1>13. MailsIn(t) \subseteq MailsIn(slots) \ {slots[k]}
    <2>1. ASSUME NEW i \in Slots, t[i] # NoMail
          PROVE  t[i] \in MailsIn(slots) \ {slots[k]}
      <3>1. PICK j \in Slots : j # k /\ slots[j] = t[i]
        BY <1>11, <2>1
      <3>2. QED
        BY <1>9, <1>10, <2>1, <3>1
    <2>2. QED
      BY <1>8, <2>1
  <1>14. MailsIn(slots) \ {slots[k]} \subseteq MailsIn(t)
    <2>1. ASSUME NEW j \in Slots, slots[j] # NoMail, slots[j] # slots[k]
          PROVE  slots[j] \in MailsIn(t)
      <3>1. PICK i \in Slots : t[i] = slots[j]
        BY <1>12, <2>1
      <3>2. QED
        BY <1>8, <2>1, <3>1
    <2>2. QED
      BY <1>9, <2>1
  <1>15. QED
    BY <1>7, <1>13, <1>14

LEMMA CardinalityIs ==
  ASSUME NEW S
  PROVE  Abstract!Cardinality(S) = Cardinality(S)
  BY Zenon DEF Abstract!Cardinality, Cardinality, Abstract!IsFiniteSet, IsFiniteSet

\* The mails that are in the slots after one came in are those that are kept.
LEMMA ScrolledKept ==
  ASSUME NEW m \in Nat, NEW slots \in [Slots -> {NoMail} \cup 1 .. m], Ascending(slots),
         NEW n \in 1 .. m, \A k \in Slots : slots[k] < n
  PROVE  MailsIn(Scrolled(slots, n)) = Abstract!Kept(MailsIn(slots) \cup {n})
  <1>1. PICK t : t = Scrolled(slots, n)
    OBVIOUS
  <1>2. PICK V : V = {NoMail} \cup 1 .. m
    OBVIOUS
  <1>3. slots \in [Slots -> V] /\ n \in V /\ n # NoMail /\ n \in Int /\ \A v \in V : v \in Int
    BY <1>2 DEF NoMail
  <1>4. BoxLen \in Nat /\ BoxLen # 0 /\ Slots = 1 .. BoxLen
    BY NumbersAssumption DEF Slots
  <1>5. t \in [Slots -> V]
    BY <1>1, <1>3, ScrolledIs
  <1>6. \A k \in Slots : t[k] = IF k = BoxLen THEN n ELSE slots[k + 1]
    <2>1. slots \in [Slots -> V] /\ n \in V
      BY <1>3
    <2>2. QED
      BY <1>1, <2>1, ScrolledIs
  <1>7. PICK M : M = MailsIn(slots)
    OBVIOUS
  <1>8. M = { slots[k] : k \in { i \in Slots : slots[i] # NoMail } }
    BY <1>3, <1>7, MailsAre
  <1>9. MailsIn(t) = { t[k] : k \in { i \in Slots : t[i] # NoMail } }
    BY <1>5, MailsAre
  <1>10. Abstract!Kept(M \cup {n}) =
           IF Cardinality(M \cup {n}) > BoxLen
           THEN { j \in M \cup {n} : \E k \in M \cup {n} : k < j } ELSE M \cup {n}
    BY CardinalityIs DEF Abstract!Kept, Abstract!Later
  <1>11. MailsIn(t) = (M \cup {n}) \ {slots[1]}
    <2>1. ASSUME NEW i \in Slots, t[i] # NoMail
          PROVE  t[i] \in (M \cup {n}) \ {slots[1]}
      <3>1. CASE i = BoxLen
        <4>1. t[i] = n /\ n # slots[1]
          BY <1>3, <1>4, <1>6, <3>1
        <4>2. QED
          BY <4>1
      <3>2. CASE i # BoxLen
        <4>1. i + 1 \in Slots /\ t[i] = slots[i + 1] /\ 1 < i + 1 /\ 1 \in Slots
          BY <1>4, <1>6, <3>2
        <4>2. slots[i + 1] \in Int /\ slots[1] \in Int
          BY <1>3, <4>1
        <4>3. slots[1] # slots[i + 1]
          BY <2>1, <4>1, <4>2 DEF Ascending
        <4>4. QED
          BY <1>8, <2>1, <4>1, <4>3
      <3>3. QED
        BY <3>1, <3>2
    <2>2. ASSUME NEW k \in Slots, slots[k] # NoMail, slots[k] # slots[1]
          PROVE  \E i \in Slots : t[i] = slots[k]
      <3>1. k - 1 \in Slots /\ k - 1 # BoxLen /\ (k - 1) + 1 = k
        BY <1>4, <2>2
      <3>2. t[k - 1] = slots[k]
        BY <1>6, <3>1
      <3>3. QED
        BY <3>1, <3>2
    <2>3. BoxLen \in Slots /\ t[BoxLen] = n
      BY <1>4, <1>6
    <2>4. MailsIn(t) \subseteq (M \cup {n}) \ {slots[1]}
      BY <1>9, <2>1
    <2>5. (M \cup {n}) \ {slots[1]} \subseteq MailsIn(t)
      <3>1. n \in MailsIn(t)
        BY <1>3, <1>9, <2>3
      <3>2. ASSUME NEW k \in Slots, slots[k] # NoMail, slots[k] # slots[1]
            PROVE  slots[k] \in MailsIn(t)
        <4>1. PICK i \in Slots : t[i] = slots[k]
          BY <2>2, <3>2
        <4>2. QED
          BY <1>9, <3>2, <4>1
      <3>3. QED
        BY <1>8, <3>1, <3>2
    <2>6. QED
      BY <2>4, <2>5
  <1>12. CASE slots[1] = NoMail
    <2>1. MailsIn(t) = M \cup {n}
      BY <1>3, <1>8, <1>11, <1>12
    <2>2. Cardinality(M \cup {n}) <= BoxLen
      <3>1. PICK f : f = [k \in 1 .. BoxLen |-> IF t[k] = NoMail THEN n ELSE t[k]]
        OBVIOUS
      <3>2. f \in [1 .. BoxLen -> MailsIn(t)]
        <4>1. n \in MailsIn(t)
          BY <2>1
        <4>2. QED
          BY <1>4, <1>9, <3>1, <4>1
      <3>3. \A v \in MailsIn(t) : \E k \in 1 .. BoxLen : f[k] = v
        BY <1>4, <1>9, <3>1
      <3>4. ExistsSurjection(1 .. BoxLen, MailsIn(t))
        BY <3>2, <3>3 DEF ExistsSurjection, Surjection
      <3>5. QED
        BY <1>4, <2>1, <3>4, FS_SurjCardinalityBound
    <2>3. Cardinality(M \cup {n}) \in Int => ~ (Cardinality(M \cup {n}) > BoxLen)
      BY <1>4, <2>2
    <2>4. Cardinality(M \cup {n}) \in Nat
      <3>1. IsFiniteSet(M \cup {n})
        <4>1. M \cup {n} \subseteq 1 .. m
          BY <1>2, <1>3, <1>8
        <4>2. IsFiniteSet(1 .. m)
          BY FS_Interval
        <4>3. QED
          BY <4>1, <4>2, FS_Subset
      <3>2. QED
        BY <3>1, FS_CardinalityType
    <2>5. QED
      BY <1>1, <1>7, <1>10, <2>1, <2>3, <2>4
  <1>13. CASE slots[1] # NoMail
    <2>1. \A j \in Slots : slots[j] # NoMail
      <3>1. \A j \in Slots : j # 1 => slots[1] < slots[j]
        BY <1>4, <1>13 DEF Ascending
      <3>2. slots[1] \in 1 .. m /\ \A j \in Slots : slots[j] \in Int
        BY <1>2, <1>3, <1>4, <1>13
      <3>3. QED
        BY <1>4, <1>13, <3>1, <3>2 DEF NoMail
    <2>2. \A i, j \in Slots : i < j => slots[i] < slots[j]
      BY <2>1 DEF Ascending
    <2>3. PICK f : f = [k \in 1 .. (BoxLen + 1) |-> IF k = BoxLen + 1 THEN n ELSE slots[k]]
      OBVIOUS
    <2>4. f \in [1 .. (BoxLen + 1) -> M \cup {n}]
      BY <1>4, <1>8, <2>1, <2>3
    <2>5. ASSUME NEW i \in 1 .. (BoxLen + 1), NEW j \in 1 .. (BoxLen + 1), i < j
          PROVE  f[i] < f[j]
      <3>1. i \in Slots /\ f[i] = slots[i]
        BY <1>4, <2>3, <2>5
      <3>2. CASE j = BoxLen + 1
        BY <2>3, <3>1, <3>2
      <3>3. CASE j # BoxLen + 1
        <4>1. j \in Slots /\ f[j] = slots[j]
          BY <1>4, <2>3, <3>3
        <4>2. QED
          BY <2>2, <2>5, <3>1, <4>1
      <3>4. QED
        BY <3>2, <3>3
    <2>6. \A v \in M \cup {n} : v \in Int
      BY <1>3, <1>8
    <2>7. \A i, j \in 1 .. (BoxLen + 1) : f[i] = f[j] => i = j
      <3>1. ASSUME NEW i \in 1 .. (BoxLen + 1), NEW j \in 1 .. (BoxLen + 1), f[i] = f[j], i # j
            PROVE  FALSE
        <4>1. f[i] \in Int /\ f[j] \in Int
          BY <2>4, <2>6
        <4>2. i < j \/ j < i
          BY <1>4, <3>1
        <4>3. f[i] < f[j] \/ f[j] < f[i]
          BY <2>5, <4>2
        <4>4. QED
          BY <3>1, <4>1, <4>3
      <3>2. QED
        BY <3>1
    <2>8. Cardinality(M \cup {n}) = BoxLen + 1
      <3>1. \A v \in M \cup {n} : \E k \in 1 .. (BoxLen + 1) : f[k] = v
        <4>1. ASSUME NEW k \in Slots
              PROVE  \E i \in 1 .. (BoxLen + 1) : f[i] = slots[k]
          <5>1. k \in 1 .. (BoxLen + 1) /\ f[k] = slots[k]
            BY <1>4, <2>3
          <5>2. QED
            BY <5>1
        <4>2. BoxLen + 1 \in 1 .. (BoxLen + 1) /\ f[BoxLen + 1] = n
          BY <1>4, <2>3
        <4>3. QED
          BY <1>8, <4>1, <4>2
      <3>2. f \in Bijection(1 .. (BoxLen + 1), M \cup {n})
        BY <2>4, <2>7, <3>1 DEF Bijection, Injection, Surjection, IsInjective
      <3>3. ExistsBijection(1 .. (BoxLen + 1), M \cup {n})
        BY <3>2 DEF ExistsBijection
      <3>4. IsFiniteSet(1 .. (BoxLen + 1)) /\ Cardinality(1 .. (BoxLen + 1)) = BoxLen + 1
        BY <1>4, FS_Interval
      <3>5. QED
        BY <3>3, <3>4, FS_Bijection
    <2>9. 1 \in Slots /\ slots[1] \in M /\ slots[1] \in Int
      BY <1>3, <1>4, <1>8, <1>13
    <2>10. \A v \in M \cup {n} : v # slots[1] => slots[1] < v
      <3>1. slots[1] < n
        BY <2>9
      <3>2. \A k \in Slots : slots[k] # slots[1] => slots[1] < slots[k]
        BY <1>4, <2>2
      <3>3. QED
        BY <1>8, <3>1, <3>2
    <2>11. { j \in M \cup {n} : \E k \in M \cup {n} : k < j } = (M \cup {n}) \ {slots[1]}
      BY <2>6, <2>9, <2>10
    <2>12. Cardinality(M \cup {n}) > BoxLen
      BY <1>4, <2>8
    <2>13. QED
      BY <1>1, <1>7, <1>10, <1>11, <2>11, <2>12
  <1>14. QED
    BY <1>12, <1>13

-----------------------------------------------------------------------------
(***************************************************************************)
(* Each action is one of UserMailboxes, or nothing.                        *)
(***************************************************************************)
LEMMA HoldsType ==
  ASSUME NEW m \in Nat, NEW sv, ServerOK(sv, m), NEW u \in Users,
         NEW slots, NEW mark, Holds(sv, u, slots, mark)
  PROVE  slots \in [Slots -> {NoMail} \cup 1 .. m] /\ mark \in 0 .. m
  <1>1. sv.sessions \in [Conns -> SessionSet(m)] /\ sv.files \in [Users -> FileSet(m)]
    BY DEF ServerOK
  <1>2. \A b \in BoxSet(m) : b.slots \in [Slots -> {NoMail} \cup 1 .. m]
    BY DEF BoxSet
  <1>3. CASE \E c \in Conns : sv.sessions[c].user = u
    <2>1. PICK c \in Conns : sv.sessions[c].user = u
      BY <1>3
    <2>2. PICK s : s = sv.sessions[c]
      OBVIOUS
    <2>3. s.box \in BoxSet(m) /\ s.fullroom \in 0 .. m
      BY <1>1, <2>2 DEF SessionSet
    <2>4. s.box.slots = slots /\ s.fullroom = mark
      BY <2>1, <2>2 DEF Holds
    <2>5. QED
      BY <1>2, <2>3, <2>4
  <1>4. CASE \A c \in Conns : sv.sessions[c].user # u
    <2>1. PICK f : f = sv.files[u]
      OBVIOUS
    <2>2. f.box \in BoxSet(m) /\ f.fullroom \in 0 .. m
      BY <1>1, <2>1 DEF FileSet
    <2>3. f.box.slots = slots /\ f.fullroom = mark
      BY <1>4, <2>1 DEF Holds
    <2>4. QED
      BY <1>2, <2>2, <2>3
  <1>5. QED
    BY <1>3, <1>4

\* sw is sv when the mail n has come into the box of u.
Delivered(sv, sw, u, n) ==
  \A w \in Users : \A slots, mark : Holds(sv, w, slots, mark) =>
    IF w = u THEN Holds(sw, w, Scrolled(slots, n), mark) ELSE Holds(sw, w, slots, mark)

\* mail_add puts a mail where the box is, in the session or in the file.
LEMMA MailAddDelivers ==
  ASSUME NEW n \in Nat, n # 0, NEW sv, ServerOK(sv, n), Orderly(sv), NEW u \in Users,
         \A slots, mark : Holds(sv, u, slots, mark) => \A k \in Slots : slots[k] < n
  PROVE  Orderly(MailAdd(sv, u, n)) /\ Delivered(sv, MailAdd(sv, u, n), u, n)
  <1>1. /\ sv = [list |-> sv.list, sessions |-> sv.sessions, files |-> sv.files]
        /\ sv.list \in Seq(Conns) /\ sv.sessions \in [Conns -> SessionSet(n)]
        /\ sv.files \in [Users -> FileSet(n)]
    BY DEF ServerOK
  <1>2. PICK c : c = Newest(sv, SessionsOf(sv, u))
    OBVIOUS
  <1>3. SessionsOf(sv, u) = { d \in Conns : sv.sessions[d].user = u }
    <2>1. ToSet(sv.list) \subseteq Conns
      BY ServerKept
    <2>2. \A d \in Conns \ ToSet(sv.list) : sv.sessions[d].user # u
      BY FreshIs DEF ServerOK
    <2>3. QED
      BY <2>1, <2>2 DEF SessionsOf
  <1>4. SessionsOf(sv, u) \in SUBSET ToSet(sv.list)
    BY DEF SessionsOf
  <1>5. PICK slots, mark : Holds(sv, u, slots, mark)
    BY HeldHolds
  <1>6. slots \in [Slots -> {NoMail} \cup 1 .. n] /\ n \in 1 .. n
    BY <1>5, HoldsType
  <1>7. Ascending(slots)
    <2>1. (\E d \in Conns : sv.sessions[d].box.slots = slots) \/ sv.files[u].box.slots = slots
      BY <1>5 DEF Holds
    <2>2. QED
      BY <2>1 DEF Orderly
  <1>8. Ascending(Scrolled(slots, n))
    BY <1>5, <1>6, <1>7, ScrolledAscending
  <1>9. CASE c = NoConn
    <2>1. \A d \in Conns : sv.sessions[d].user # u
      <3>1. SessionsOf(sv, u) = {}
        <4>1. NoConn \notin ToSet(sv.list)
          BY NumbersAssumption, ServerKept
        <4>2. QED
          BY <1>1, <1>2, <1>4, <1>9, <4>1, NewestFound
      <3>2. QED
        BY <1>3, <3>1
    <2>2. PICK g : g = sv.files[u]
      OBVIOUS
    <2>3. g \in FileSet(n) /\ g.box.slots = slots /\ g.fullroom = mark
      BY <1>1, <1>5, <2>1, <2>2 DEF Holds
    <2>4. PICK b : b = WithMail(g.box, n)
      OBVIOUS
    <2>5. b.slots = Scrolled(slots, n)
      BY <2>3, <2>4 DEF WithMail
    <2>6. PICK f : f = [g EXCEPT !.box = b]
      OBVIOUS
    <2>7. f.box.slots = Scrolled(slots, n) /\ f.fullroom = mark
      BY <2>3, <2>5, <2>6 DEF FileSet
    <2>8. MailAdd(sv, u, n) = WithFile(sv, u, f)
      <3>1. MailAdd(sv, u, n) = [sv EXCEPT !.files[u].box = WithMail(@, n)]
        BY <1>2, <1>9 DEF MailAdd
      <3>2. QED
        BY <1>1, <2>2, <2>4, <2>6, <3>1 DEF WithFile
    <2>9. PICK sw : sw = WithFile(sv, u, f)
      OBVIOUS
    <2>10. /\ Orderly(sw)
           /\ \A w \in Users : \A sl, mk : Holds(sv, w, sl, mk) =>
                IF w = u THEN Holds(sw, w, f.box.slots, f.fullroom) ELSE Holds(sw, w, sl, mk)
      BY <1>8, <2>1, <2>7, <2>9, FilePut
    <2>11. \A sl, mk : Holds(sv, u, sl, mk) => sl = slots /\ mk = mark
      BY <2>1, <2>2, <2>3 DEF Holds
    <2>12. Delivered(sv, sw, u, n)
      BY <2>7, <2>10, <2>11 DEF Delivered
    <2>13. QED
      BY <2>8, <2>9, <2>10, <2>12
  <1>10. CASE c # NoConn
    <2>1. c \in SessionsOf(sv, u)
      BY <1>1, <1>2, <1>4, <1>10, NewestFound
    <2>2. c \in Conns /\ sv.sessions[c].user = u
      BY <1>3, <2>1
    <2>3. PICK r : r = sv.sessions[c]
      OBVIOUS
    <2>4. r \in SessionSet(n) /\ r.user = u /\ r.box.slots = slots /\ r.fullroom = mark
      BY <1>1, <1>5, <2>2, <2>3 DEF Holds
    <2>5. PICK b : b = WithMail(r.box, n)
      OBVIOUS
    <2>6. b.slots = Scrolled(slots, n)
      BY <2>4, <2>5 DEF WithMail
    <2>7. PICK s : s = Boxed(r, b)
      OBVIOUS
    <2>8. /\ s.user = u /\ s.guest = r.guest /\ s.dirty = TRUE
          /\ s.box.slots = Scrolled(slots, n) /\ s.fullroom = mark
      BY <2>4, <2>6, <2>7 DEF Boxed, SessionSet
    <2>9. MailAdd(sv, u, n) = WithSession(sv, c, s)
      <3>1. MailAdd(sv, u, n) = [sv EXCEPT !.sessions[c] = Mailed(@, n)]
        BY <1>2, <1>10 DEF MailAdd
      <3>2. Mailed(sv.sessions[c], n) = s
        BY <2>3, <2>5, <2>7 DEF Mailed, Boxed
      <3>3. MailAdd(sv, u, n) = [sv EXCEPT !.sessions = [sv.sessions EXCEPT ![c] = s]]
        BY <3>1, <3>2
      <3>4. QED
        BY <1>1, <3>3 DEF WithSession
    <2>10. PICK sw : sw = WithSession(sv, c, s)
      OBVIOUS
    <2>11. /\ Orderly(sw)
           /\ \A w \in Users : \A sl, mk : Holds(sv, w, sl, mk) =>
                IF s.user = w THEN Holds(sw, w, s.box.slots, s.fullroom) ELSE Holds(sw, w, sl, mk)
      BY <1>8, <2>2, <2>3, <2>4, <2>8, <2>10, SessionPut
    <2>12. \A sl, mk : Holds(sv, u, sl, mk) => sl = slots /\ mk = mark
      BY <2>2, <2>3, <2>4 DEF Holds
    <2>13. Delivered(sv, sw, u, n)
      BY <2>8, <2>11, <2>12 DEF Delivered
    <2>14. QED
      BY <2>9, <2>10, <2>11, <2>13
  <1>11. QED
    BY <1>9, <1>10

LEMMA ViewNow ==
  ASSUME IInv, Orderly(server), NEW u \in Users, NEW slots, NEW mark,
         Holds(server, u, slots, mark)
  PROVE  MailsOf(u) = MailsIn(slots) /\ Held(u).fullroom = mark
  <1>1. HeldIn(server, u).box.slots = slots /\ HeldIn(server, u).fullroom = mark
    BY Basics, HeldIs
  <1>2. Held(u) = HeldIn(server, u)
    BY DEF Held, HeldIn, Named, Session
  <1>3. QED
    BY <1>1, <1>2 DEF MailsOf, MailsIn

LEMMA ViewNext ==
  ASSUME IInv', Orderly(server'), NEW u \in Users, NEW slots, NEW mark,
         Holds(server', u, slots, mark)
  PROVE  MailsOf(u)' = MailsIn(slots) /\ Held(u)'.fullroom = mark
  <1>1. ServerOK(server', lastmail')
    BY DEF IInv
  <1>2. PICK sw : sw = server'
    OBVIOUS
  <1>3. HeldIn(sw, u).box.slots = slots /\ HeldIn(sw, u).fullroom = mark
    BY <1>1, <1>2, HeldIs
  <1>4. Held(u)' = HeldIn(server', u)
    BY DEF Held, HeldIn, Named, Session
  <1>5. MailsOf(u)' = ToSet(Held(u)'.box.slots) \ {NoMail}
    BY DEF MailsOf
  <1>6. QED
    BY <1>2, <1>3, <1>4, <1>5 DEF MailsIn

\* What is in the slots of the users is the mails written so far.
LEMMA HeldNow ==
  ASSUME IInv, Orderly(server), NEW u \in Users
  PROVE  \E slots, mark :
           /\ Holds(server, u, slots, mark)
           /\ slots \in [Slots -> {NoMail} \cup 1 .. lastmail] /\ mark \in 0 .. lastmail
           /\ MailsOf(u) = MailsIn(slots) /\ Held(u).fullroom = mark
  <1>1. PICK slots, mark : Holds(server, u, slots, mark)
    BY Basics, HeldHolds
  <1>2. slots \in [Slots -> {NoMail} \cup 1 .. lastmail] /\ mark \in 0 .. lastmail
    BY <1>1, Basics, HoldsType
  <1>3. MailsOf(u) = MailsIn(slots) /\ Held(u).fullroom = mark
    BY <1>1, ViewNow
  <1>4. QED
    BY <1>1, <1>2, <1>3

LEMMA QuietIs ==
  ASSUME IInv, IInv', Orderly(server), Orderly(server'), Quiet(server, server')
  PROVE  UNCHANGED Abstract!vars
  <1>1. ASSUME NEW u \in Users
        PROVE  MailsOf(u)' = MailsOf(u) /\ Held(u)'.fullroom = Held(u).fullroom
    <2>1. PICK slots, mark : /\ Holds(server, u, slots, mark)
                             /\ MailsOf(u) = MailsIn(slots) /\ Held(u).fullroom = mark
      BY HeldNow
    <2>2. Holds(server', u, slots, mark)
      BY <2>1 DEF Quiet
    <2>3. QED
      BY <2>1, <2>2, ViewNext
  <1>2. [u \in Users |-> MailsOf(u)'] = [u \in Users |-> MailsOf(u)]
    BY <1>1
  <1>3. [u \in Users |-> { n \in MailsOf(u)' : n > Held(u)'.fullroom }] =
          [u \in Users |-> { n \in MailsOf(u) : n > Held(u).fullroom }]
    BY <1>1
  <1>4. QED
    BY <1>2, <1>3 DEF Abstract!vars

\* The mail n comes into the boxes of `to'.
LEMMA DeliveredIs ==
  ASSUME IInv, IInv', Orderly(server), Orderly(server'),
         NEW n \in 1 .. MaxMails, n = lastmail + 1, NEW to \in SUBSET Users,
         \A u \in Users : \A slots, mark : Holds(server, u, slots, mark) =>
           IF u \in to THEN Holds(server', u, Scrolled(slots, n), mark)
           ELSE Holds(server', u, slots, mark)
  PROVE  Abstract!Next
  <1>1. PICK B : B = [u \in Users |-> MailsOf(u)]
    OBVIOUS
  <1>2. PICK N : N = [u \in Users |-> { m \in MailsOf(u) : m > Held(u).fullroom }]
    OBVIOUS
  <1>3. PICK C : C = [u \in Users |-> MailsOf(u)']
    OBVIOUS
  <1>4. PICK O : O = [u \in Users |-> { m \in MailsOf(u)' : m > Held(u)'.fullroom }]
    OBVIOUS
  <1>5. lastmail \in Nat /\ MaxMails \in Nat
    BY Basics
  <1>6. ASSUME NEW u \in Users
        PROVE  /\ \A k \in B[u] : k < n
               /\ C[u] = IF u \in to THEN Abstract!Kept(B[u] \cup {n}) ELSE B[u]
               /\ O[u] = (N[u] \cup {n}) \cap C[u]
    <2>1. PICK slots, mark :
            /\ Holds(server, u, slots, mark)
            /\ slots \in [Slots -> {NoMail} \cup 1 .. lastmail] /\ mark \in 0 .. lastmail
            /\ MailsOf(u) = MailsIn(slots) /\ Held(u).fullroom = mark
      BY HeldNow
    <2>2. B[u] = MailsIn(slots) /\ N[u] = { m \in MailsIn(slots) : m > mark }
      BY <1>1, <1>2, <2>1
    <2>3. MailsIn(slots) \subseteq 1 .. lastmail
      <3>1. MailsIn(slots) = { slots[k] : k \in { i \in Slots : slots[i] # NoMail } }
        BY <2>1, MailsAre
      <3>2. QED
        BY <2>1, <3>1
    <2>4. \A k \in B[u] : k < n
      BY <1>5, <2>2, <2>3
    <2>5. CASE u \in to
      <3>1. PICK t : t = Scrolled(slots, n)
        OBVIOUS
      <3>2. Holds(server', u, t, mark)
        BY <2>1, <2>5, <3>1
      <3>3. MailsOf(u)' = MailsIn(t) /\ Held(u)'.fullroom = mark
        BY <3>2, ViewNext
      <3>4. C[u] = MailsIn(t) /\ O[u] = { m \in MailsIn(t) : m > mark }
        BY <1>3, <1>4, <3>3
      <3>5. MailsIn(t) = Abstract!Kept(MailsIn(slots) \cup {n})
        <4>1. n \in Nat /\ n \in 1 .. n
          BY <1>5
        <4>2. slots \in [Slots -> {NoMail} \cup 1 .. n] /\ \A k \in Slots : slots[k] < n
          BY <1>5, <2>1 DEF NoMail
        <4>3. Ascending(slots)
          <5>1. (\E d \in Conns : server.sessions[d].box.slots = slots)
                  \/ server.files[u].box.slots = slots
            BY <2>1 DEF Holds
          <5>2. QED
            BY <5>1 DEF Orderly
        <4>4. QED
          BY <3>1, <4>1, <4>2, <4>3, ScrolledKept
      <3>6. MailsIn(t) \subseteq MailsIn(slots) \cup {n}
        BY <3>5 DEF Abstract!Kept, Abstract!Later
      <3>7. n > mark /\ \A m \in MailsIn(slots) : m \in Int
        BY <1>5, <2>1, <2>3
      <3>8. O[u] = (N[u] \cup {n}) \cap C[u]
        BY <2>2, <3>4, <3>6, <3>7
      <3>9. QED
        BY <2>2, <2>4, <2>5, <3>4, <3>5, <3>8
    <2>6. CASE u \notin to
      <3>1. Holds(server', u, slots, mark)
        BY <2>1, <2>6
      <3>2. MailsOf(u)' = MailsIn(slots) /\ Held(u)'.fullroom = mark
        BY <3>1, ViewNext
      <3>3. C[u] = MailsIn(slots) /\ O[u] = { m \in MailsIn(slots) : m > mark }
        BY <1>3, <1>4, <3>2
      <3>4. n \notin MailsIn(slots)
        BY <1>5, <2>3
      <3>5. O[u] = (N[u] \cup {n}) \cap C[u]
        BY <2>2, <3>3, <3>4
      <3>6. QED
        BY <2>2, <2>4, <2>6, <3>3, <3>5
    <2>7. QED
      BY <2>5, <2>6
  <1>7. C = [u \in Users |-> IF u \in to THEN Abstract!Kept(B[u] \cup {n}) ELSE B[u]]
    BY <1>3, <1>6
  <1>8. O = [u \in Users |-> (N[u] \cup {n}) \cap C[u]]
    BY <1>4, <1>6
  <1>9. Abstract!Deliver(n, to)
    BY <1>1, <1>2, <1>3, <1>4, <1>6, <1>7, <1>8 DEF Abstract!Deliver
  <1>10. QED
    BY <1>9 DEF Abstract!Next

\* A session changes, but not its mails and marks.
LEMMA SessionQuiet ==
  ASSUME NEW m, NEW sv, ServerOK(sv, m), Orderly(sv), NEW c \in Conns, NEW s,
         s.user = sv.sessions[c].user, s.guest = sv.sessions[c].guest,
         s.dirty = sv.sessions[c].dirty, s.box.slots = sv.sessions[c].box.slots,
         s.fullroom = sv.sessions[c].fullroom
  PROVE  Orderly(WithSession(sv, c, s)) /\ Quiet(sv, WithSession(sv, c, s))
  <1>1. PICK sw : sw = WithSession(sv, c, s)
    OBVIOUS
  <1>2. Ascending(s.box.slots)
    BY DEF Orderly
  <1>3. /\ Orderly(sw)
        /\ \A u \in Users : \A slots, mark : Holds(sv, u, slots, mark) =>
             IF s.user = u THEN Holds(sw, u, s.box.slots, s.fullroom)
             ELSE Holds(sw, u, slots, mark)
    BY <1>1, <1>2, SessionPut
  <1>4. ASSUME NEW u \in Users, NEW slots, NEW mark, Holds(sv, u, slots, mark), s.user = u
        PROVE  s.box.slots = slots /\ s.fullroom = mark
    BY <1>4 DEF Holds
  <1>5. QED
    BY <1>1, <1>3, <1>4 DEF Quiet

\* Connections come and are lost.
LEMMA PollIs ==
  ASSUME IInv, Orderly(server), NEW new, NEW lost, Poll(new, lost)
  PROVE  Orderly(server') /\ Quiet(server, server')
  <1>1. PICK sv : sv = AllClosed(server, lost)
    OBVIOUS
  <1>2. server' = IF new = NoConn THEN sv ELSE [sv EXCEPT !.list = << new >> \o @]
    BY <1>1 DEF Poll
  <1>3. Orderly(sv) /\ Quiet(server, sv) /\ ServerOK(sv, lastmail)
    BY <1>1, Basics, AllClosedQuiet, AllClosedKept
  <1>4. PICK list : list = << new >> \o sv.list
    OBVIOUS
  <1>5. PICK sw : sw = IF new = NoConn THEN sv ELSE [sv EXCEPT !.list = list]
    OBVIOUS
  <1>6. sw.sessions = sv.sessions /\ sw.files = sv.files
    BY <1>3, <1>5 DEF ServerOK
  <1>7. Orderly(sw) /\ Quiet(sv, sw)
    BY <1>3, <1>6, ListOnly
  <1>8. server' = sw
    BY <1>2, <1>4, <1>5
  <1>9. Quiet(server, sw)
    BY <1>3, <1>7 DEF Quiet
  <1>10. QED
    BY <1>7, <1>8, <1>9

\* Sessions are closed.
LEMMA EndPassIs ==
  ASSUME IInv, Orderly(server), NEW idle, EndPass(idle)
  PROVE  Orderly(server') /\ Quiet(server, server')
  <1>1. PICK C, D : server' = AllClosed(AllClosed(server, C), D)
    BY DEF EndPass
  <1>2. PICK sv : sv = AllClosed(server, C)
    OBVIOUS
  <1>3. Orderly(sv) /\ Quiet(server, sv) /\ ServerOK(sv, lastmail)
    BY <1>2, Basics, AllClosedQuiet, AllClosedKept
  <1>4. PICK sw : sw = AllClosed(sv, D)
    OBVIOUS
  <1>5. Orderly(sw) /\ Quiet(sv, sw)
    BY <1>3, <1>4, Basics, AllClosedQuiet
  <1>6. Quiet(server, sw)
    BY <1>3, <1>5 DEF Quiet
  <1>7. QED
    BY <1>1, <1>2, <1>4, <1>5, <1>6

\* A user who logs in, with nobody to take over from.
LEMMA UsrIs ==
  ASSUME IInv, Orderly(server), Faithful, NEW c \in Connected, NEW u \in Users, Usr1(c, u)
  PROVE  Orderly(server') /\ Quiet(server, server')
  <1>1. PICK f : f = server.files[u]
    OBVIOUS
  <1>2. /\ Session(c).stato = "LIC"
        /\ SessionsNamed(server, u) # {} => "TAKEOVER" \in commands
        /\ server' = [AlterEgoOut(server, u) EXCEPT !.sessions[c] =
                        [@ EXCEPT !.user = u, !.stato = "COMANDI", !.box = f.box,
                                  !.fullroom = f.fullroom, !.newmsg = f.fullroom]]
    BY <1>1, Zenon DEF Usr1, Serving, may
  <1>3. SessionsNamed(server, u) = {}
    BY <1>2 DEF Faithful
  <1>4. AlterEgoOut(server, u) = server
    <2>1. Newest(server, SessionsNamed(server, u)) = NoConn
      BY <1>3, Basics, NewestFound
    <2>2. QED
      BY <2>1 DEF AlterEgoOut
  <1>5. c \in Conns
    BY Basics
  <1>6. PICK r : r = server.sessions[c]
    OBVIOUS
  <1>7. r \in SessionSet(lastmail) /\ r.user = NoUser
    BY <1>2, <1>5, <1>6, Basics DEF Session, SessionSet
  <1>8. PICK s : s = Entered(r, u, f)
    OBVIOUS
  <1>9. s.user = u /\ s.guest = r.guest /\ s.box = f.box /\ s.fullroom = f.fullroom
    BY <1>7, <1>8 DEF Entered, SessionSet
  <1>10. server' = WithSession(server, c, s)
    <2>1. server' = [server EXCEPT !.sessions[c] = Entered(@, u, f)]
      BY <1>2, <1>4 DEF Entered
    <2>2. QED
      BY <1>6, <1>8, <2>1, Basics DEF WithSession
  <1>11. \A d \in Conns : server.sessions[d].user # u
    BY <1>3, Basics, NamedIs
  <1>12. PICK sw : sw = WithSession(server, c, s)
    OBVIOUS
  <1>13. Orderly(sw) /\ Quiet(server, sw)
    BY <1>1, <1>5, <1>6, <1>7, <1>9, <1>11, <1>12, Basics, EnteredQuiet
  <1>14. QED
    BY <1>10, <1>12, <1>13

LEMMA QuitIs ==
  ASSUME IInv, Orderly(server), NEW c \in Connected, Quit(c)
  PROVE  Orderly(server') /\ Quiet(server, server')
  <1>1. server' = [server EXCEPT !.sessions[c].stato = "CHIUSA"]
    BY DEF Quit
  <1>2. c \in Conns
    BY Basics
  <1>3. PICK r : r = server.sessions[c]
    OBVIOUS
  <1>4. r \in SessionSet(lastmail)
    BY <1>2, <1>3, Basics
  <1>5. PICK s : s = Left(r)
    OBVIOUS
  <1>6. /\ s.user = r.user /\ s.guest = r.guest /\ s.dirty = r.dirty
        /\ s.box = r.box /\ s.fullroom = r.fullroom
    BY <1>4, <1>5 DEF Left, SessionSet
  <1>7. server' = WithSession(server, c, s)
    BY <1>1, <1>3, <1>5, Basics DEF Left, WithSession
  <1>8. PICK sw : sw = WithSession(server, c, s)
    OBVIOUS
  <1>9. Orderly(sw) /\ Quiet(server, sw)
    BY <1>2, <1>3, <1>6, <1>8, Basics, SessionQuiet
  <1>10. QED
    BY <1>7, <1>8, <1>9

\* The boxes of UserMailboxes.
AllMails == [u \in Users |-> MailsOf(u)]
AllUnread == [u \in Users |-> { n \in MailsOf(u) : n > Held(u).fullroom }]

\* The box of one user changes.
LEMMA OneBox ==
  ASSUME IInv, IInv', Orderly(server), Orderly(server'), NEW u \in Users,
         NEW slots, NEW mark, NEW t, NEW k,
         Holds(server, u, slots, mark), Holds(server', u, t, k),
         \A w \in Users \ {u} : \A sl, mk : Holds(server, w, sl, mk) => Holds(server', w, sl, mk)
  PROVE  /\ MailsOf(u) = MailsIn(slots) /\ Held(u).fullroom = mark
         /\ AllMails' = [AllMails EXCEPT ![u] = MailsIn(t)]
         /\ AllUnread' = [AllUnread EXCEPT ![u] = { n \in MailsIn(t) : n > k }]
  <1>1. MailsOf(u) = MailsIn(slots) /\ Held(u).fullroom = mark
    BY ViewNow
  <1>2. MailsOf(u)' = MailsIn(t) /\ Held(u)'.fullroom = k
    BY ViewNext
  <1>3. ASSUME NEW w \in Users, w # u
        PROVE  MailsOf(w)' = MailsOf(w) /\ Held(w)'.fullroom = Held(w).fullroom
    <2>1. PICK sl, mk : /\ Holds(server, w, sl, mk)
                        /\ MailsOf(w) = MailsIn(sl) /\ Held(w).fullroom = mk
      BY HeldNow
    <2>2. Holds(server', w, sl, mk)
      BY <1>3, <2>1
    <2>3. QED
      BY <2>1, <2>2, ViewNext
  <1>4. [w \in Users |-> MailsOf(w)'] =
          [[w \in Users |-> MailsOf(w)] EXCEPT ![u] = MailsIn(t)]
    BY <1>2, <1>3
  <1>5. [w \in Users |-> { n \in MailsOf(w)' : n > Held(w)'.fullroom }] =
          [[w \in Users |-> { n \in MailsOf(w) : n > Held(w).fullroom }]
             EXCEPT ![u] = { n \in MailsIn(t) : n > k }]
    BY <1>2, <1>3
  <1>6. QED
    BY <1>1, <1>4, <1>5 DEF AllMails, AllUnread

LEMMA MdelIs ==
  ASSUME IInv, IInv', Orderly(server), NEW c \in Connected, NEW k \in Slots, Mdel(c, k)
  PROVE  Orderly(server') /\ Abstract!Next
  <1>1. /\ Session(c).stato = "COMANDI" /\ Session(c).box.slots[k] # NoMail
        /\ server' = [server EXCEPT !.sessions[c] = Unmailed(@, k)]
    BY DEF Mdel, Serving
  <1>2. c \in Conns
    BY Basics
  <1>3. PICK r : r = server.sessions[c]
    OBVIOUS
  <1>4. r \in SessionSet(lastmail) /\ r.user \in Users /\ r.box \in BoxSet(lastmail)
    BY <1>1, <1>2, <1>3, Basics DEF Session, SessionSet
  <1>5. PICK slots : slots = r.box.slots
    OBVIOUS
  <1>6. slots \in [Slots -> {NoMail} \cup 1 .. lastmail] /\ Ascending(slots) /\ slots[k] # NoMail
    BY <1>1, <1>2, <1>3, <1>4, <1>5 DEF BoxSet, Orderly, Session
  <1>7. PICK t : t = WithoutSlot(slots, k)
    OBVIOUS
  <1>8. Ascending(t) /\ MailsIn(t) = MailsIn(slots) \ {slots[k]}
    BY <1>6, <1>7, Basics, WithoutMails
  <1>9. PICK b : b = WithoutMail(r.box, k)
    OBVIOUS
  <1>10. b.slots = t
    <2>1. b = [r.box EXCEPT !.slots = t]
      BY <1>5, <1>7, <1>9, Zenon DEF WithoutMail, WithoutSlot
    <2>2. QED
      BY <1>4, <2>1 DEF BoxSet
  <1>11. PICK s : s = Boxed(r, b)
    OBVIOUS
  <1>12. /\ s.user = r.user /\ s.guest = r.guest /\ s.dirty = TRUE
         /\ s.box.slots = t /\ s.fullroom = r.fullroom
    BY <1>4, <1>10, <1>11 DEF Boxed, SessionSet
  <1>13. server' = WithSession(server, c, s)
    <2>1. Unmailed(r, k) = s
      BY <1>9, <1>11 DEF Unmailed, Boxed
    <2>2. server' = [server EXCEPT !.sessions = [server.sessions EXCEPT ![c] = s]]
      BY <1>1, <1>3, <2>1
    <2>3. QED
      BY <2>2, Basics DEF WithSession
  <1>14. PICK sw : sw = WithSession(server, c, s)
    OBVIOUS
  <1>15. /\ Orderly(sw)
         /\ \A u \in Users : \A sl, mk : Holds(server, u, sl, mk) =>
              IF s.user = u THEN Holds(sw, u, s.box.slots, s.fullroom) ELSE Holds(sw, u, sl, mk)
    BY <1>2, <1>3, <1>8, <1>12, <1>14, Basics, SessionPut
  <1>16. PICK u \in Users : u = r.user
    BY <1>4
  <1>17. PICK mark : mark = r.fullroom
    OBVIOUS
  <1>18. Holds(server, u, slots, mark)
    <2>1. PICK sl, mk : Holds(server, u, sl, mk)
      BY HeldNow
    <2>2. sl = slots /\ mk = mark
      BY <1>2, <1>3, <1>5, <1>16, <1>17, <2>1 DEF Holds
    <2>3. QED
      BY <2>1, <2>2
  <1>19. Orderly(server') /\ Holds(server', u, t, mark)
    BY <1>12, <1>13, <1>14, <1>15, <1>16, <1>17, <1>18
  <1>20. \A w \in Users \ {u} : \A sl, mk : Holds(server, w, sl, mk) => Holds(server', w, sl, mk)
    BY <1>12, <1>13, <1>14, <1>15, <1>16
  <1>21. PICK n : n = slots[k]
    OBVIOUS
  <1>22. n \in 1 .. MaxMails
    BY <1>6, <1>21, Basics DEF IInv
  <1>23. /\ MailsOf(u) = MailsIn(slots) /\ Held(u).fullroom = mark
         /\ AllMails' = [AllMails EXCEPT ![u] = MailsIn(t)]
         /\ AllUnread' = [AllUnread EXCEPT ![u] = { m \in MailsIn(t) : m > mark }]
    BY <1>18, <1>19, <1>20, OneBox
  <1>24. Abstract!Delete(u, n)
    <2>1. /\ AllMails[u] = MailsIn(slots)
          /\ AllUnread[u] = { m \in MailsIn(slots) : m > mark }
      BY <1>23 DEF AllMails, AllUnread
    <2>2. /\ MailsIn(t) = AllMails[u] \ {n}
          /\ { m \in MailsIn(t) : m > mark } = AllUnread[u] \ {n}
      BY <1>8, <1>21, <2>1
    <2>3. /\ AllMails' = [AllMails EXCEPT ![u] = @ \ {n}]
          /\ AllUnread' = [AllUnread EXCEPT ![u] = @ \ {n}]
      BY <1>23, <2>2
    <2>4. QED
      BY <2>3 DEF Abstract!Delete, AllMails, AllUnread
  <1>25. QED
    BY <1>19, <1>22, <1>24 DEF Abstract!Next

\* The owner's mark goes somewhere, and the box stays as it is.
LEMMA MarkIs ==
  ASSUME IInv, IInv', Orderly(server), NEW c \in Conns, NEW mark \in 0 .. MaxMails, NEW s,
         server.sessions[c].user \in Users,
         s.user = server.sessions[c].user, s.guest = server.sessions[c].guest,
         s.dirty = server.sessions[c].dirty, s.box = server.sessions[c].box,
         s.fullroom = mark, server' = WithSession(server, c, s)
  PROVE  Orderly(server') /\ Abstract!Next
  <1>1. PICK r : r = server.sessions[c]
    OBVIOUS
  <1>2. r \in SessionSet(lastmail) /\ r.box \in BoxSet(lastmail)
    BY <1>1, Basics DEF SessionSet
  <1>3. PICK slots : slots = r.box.slots
    OBVIOUS
  <1>4. Ascending(slots)
    BY <1>1, <1>3 DEF Orderly
  <1>5. PICK sw : sw = WithSession(server, c, s)
    OBVIOUS
  <1>6. /\ Orderly(sw)
        /\ \A u \in Users : \A sl, mk : Holds(server, u, sl, mk) =>
             IF s.user = u THEN Holds(sw, u, s.box.slots, s.fullroom) ELSE Holds(sw, u, sl, mk)
    BY <1>1, <1>3, <1>4, <1>5, Basics, SessionPut
  <1>7. PICK u \in Users : u = r.user
    BY <1>1
  <1>8. PICK old : old = r.fullroom
    OBVIOUS
  <1>9. Holds(server, u, slots, old)
    <2>1. PICK sl, mk : Holds(server, u, sl, mk)
      BY HeldNow
    <2>2. sl = slots /\ mk = old
      BY <1>1, <1>3, <1>7, <1>8, <2>1 DEF Holds
    <2>3. QED
      BY <2>1, <2>2
  <1>10. Orderly(server') /\ Holds(server', u, slots, mark)
    BY <1>1, <1>3, <1>5, <1>6, <1>7, <1>9
  <1>11. \A w \in Users \ {u} : \A sl, mk : Holds(server, w, sl, mk) => Holds(server', w, sl, mk)
    BY <1>1, <1>5, <1>6, <1>7
  <1>12. /\ MailsOf(u) = MailsIn(slots)
         /\ AllMails' = [AllMails EXCEPT ![u] = MailsIn(slots)]
         /\ AllUnread' = [AllUnread EXCEPT ![u] = { m \in MailsIn(slots) : m > mark }]
    BY <1>9, <1>10, <1>11, OneBox
  <1>13. AllMails[u] = MailsIn(slots)
    BY <1>12 DEF AllMails
  <1>14. AllMails' = AllMails
    BY <1>12, <1>13 DEF AllMails
  <1>15. AllUnread' = [AllUnread EXCEPT ![u] = { m \in AllMails[u] : m > mark }]
    BY <1>12, <1>13
  <1>16. Abstract!Mark(u, mark)
    BY <1>14, <1>15 DEF Abstract!Mark, AllMails, AllUnread
  <1>17. mark \in (1 .. MaxMails) \cup {0}
    BY Basics
  <1>18. QED
    BY <1>10, <1>16, <1>17 DEF Abstract!Next

LEMMA ReadIs ==
  ASSUME IInv, IInv', Orderly(server), NEW c \in Connected, NEW k \in Slots,
         NEW mark \in 0 .. MaxMails, Read(c, k, mark)
  PROVE  Orderly(server') /\ Abstract!Next
  <1>1. PICK n : n = Session(c).box.slots[k]
    OBVIOUS
  <1>2. /\ Session(c).stato = "COMANDI"
        /\ server' = [server EXCEPT !.sessions[c] = Shown(@, n, mark)]
    BY <1>1 DEF Read, Serving
  <1>3. c \in Conns
    BY Basics
  <1>4. PICK r : r = server.sessions[c]
    OBVIOUS
  <1>5. r \in SessionSet(lastmail) /\ r.user \in Users
    BY <1>2, <1>3, <1>4, Basics DEF Session, SessionSet
  <1>6. PICK s : s = Shown(r, n, mark)
    OBVIOUS
  <1>7. /\ s.user = r.user /\ s.guest = r.guest /\ s.dirty = r.dirty
        /\ s.box = r.box /\ s.fullroom = mark
    BY <1>5, <1>6 DEF Shown, SessionSet
  <1>8. server' = WithSession(server, c, s)
    BY <1>2, <1>4, <1>6, Basics DEF WithSession
  <1>9. QED
    BY <1>3, <1>4, <1>5, <1>7, <1>8, MarkIs

LEMMA GotoIs ==
  ASSUME IInv, IInv', Orderly(server), NEW c \in Connected, NEW mark \in 0 .. MaxMails,
         Goto(c, mark)
  PROVE  Orderly(server') /\ Abstract!Next
  <1>1. /\ Session(c).stato = "COMANDI"
        /\ server' = [server EXCEPT !.sessions[c] = BackIn(@, mark)]
    BY DEF Goto, Serving
  <1>2. c \in Conns
    BY Basics
  <1>3. PICK r : r = server.sessions[c]
    OBVIOUS
  <1>4. r \in SessionSet(lastmail) /\ r.user \in Users
    BY <1>1, <1>2, <1>3, Basics DEF Session, SessionSet
  <1>5. PICK s : s = BackIn(r, mark)
    OBVIOUS
  <1>6. /\ s.user = r.user /\ s.guest = r.guest /\ s.dirty = r.dirty
        /\ s.box = r.box /\ s.fullroom = mark
    BY <1>4, <1>5 DEF BackIn, SessionSet
  <1>7. server' = WithSession(server, c, s)
    BY <1>1, <1>3, <1>5, Basics DEF WithSession
  <1>8. QED
    BY <1>2, <1>3, <1>4, <1>6, <1>7, MarkIs

\* sw is sv when the mail n has come into the boxes of `to'.
AllDelivered(sv, sw, to, n) ==
  \A u \in Users : \A slots, mark : Holds(sv, u, slots, mark) =>
    IF u \in to THEN Holds(sw, u, Scrolled(slots, n), mark) ELSE Holds(sw, u, slots, mark)

LEMMA OneMail ==
  ASSUME IInv, Orderly(server), NEW n, n = lastmail + 1, NEW a \in Users, NEW sw,
         sw = MailAdd(server, a, n)
  PROVE  ServerOK(sw, n) /\ Orderly(sw) /\ AllDelivered(server, sw, {a}, n)
  <1>1. n \in Nat /\ n # 0 /\ lastmail <= n /\ lastmail \in Nat
    BY Basics
  <1>2. ServerOK(server, n)
    BY <1>1, Basics, MoreMails
  <1>3. ServerOK(sw, n)
    BY <1>1, <1>2, MailAdded
  <1>4. ASSUME NEW slots, NEW mark, Holds(server, a, slots, mark), NEW k \in Slots
        PROVE  slots[k] < n
    <2>1. slots \in [Slots -> {NoMail} \cup 1 .. lastmail]
      BY <1>1, <1>4, Basics, HoldsType
    <2>2. QED
      BY <1>1, <2>1 DEF NoMail
  <1>5. Orderly(sw) /\ Delivered(server, sw, a, n)
    BY <1>1, <1>2, <1>4, MailAddDelivers
  <1>6. AllDelivered(server, sw, {a}, n)
    BY <1>5 DEF Delivered, AllDelivered
  <1>7. QED
    BY <1>3, <1>5, <1>6

LEMMA TwoMails ==
  ASSUME IInv, Orderly(server), NEW n, n = lastmail + 1, NEW a \in Users, NEW b \in Users,
         a # b, NEW sv, sv = MailAdd(server, a, n), NEW sw, sw = MailAdd(sv, b, n)
  PROVE  ServerOK(sw, n) /\ Orderly(sw) /\ AllDelivered(server, sw, {a, b}, n)
  <1>1. n \in Nat /\ n # 0 /\ lastmail \in Nat
    BY Basics
  <1>2. ServerOK(sv, n) /\ Orderly(sv) /\ AllDelivered(server, sv, {a}, n)
    BY OneMail
  <1>3. ServerOK(sw, n)
    BY <1>1, <1>2, MailAdded
  <1>4. ASSUME NEW slots, NEW mark, Holds(sv, b, slots, mark), NEW k \in Slots
        PROVE  slots[k] < n
    <2>1. PICK sl, mk : /\ Holds(server, b, sl, mk)
                        /\ sl \in [Slots -> {NoMail} \cup 1 .. lastmail]
      BY HeldNow
    <2>2. Holds(sv, b, sl, mk)
      BY <1>2, <2>1 DEF AllDelivered
    <2>3. sl = slots
      BY <1>4, <2>2 DEF Holds
    <2>4. QED
      BY <1>1, <2>1, <2>3 DEF NoMail
  <1>5. Orderly(sw) /\ Delivered(sv, sw, b, n)
    BY <1>1, <1>2, <1>4, MailAddDelivers
  <1>6. AllDelivered(server, sw, {a, b}, n)
    BY <1>2, <1>5 DEF Delivered, AllDelivered
  <1>7. QED
    BY <1>3, <1>5, <1>6

LEMMA XinmIs ==
  ASSUME IInv, IInv', Orderly(server), NEW c \in Connected, NEW to \in Users, Xinm(c, to)
  PROVE  Orderly(server') /\ Abstract!Next
  <1>1. PICK n : n = lastmail + 1
    OBVIOUS
  <1>2. PICK sent : sent = MailAdd(server, to, n)
    OBVIOUS
  <1>3. PICK me : me = Session(c).user
    OBVIOUS
  <1>4. /\ Session(c).stato = "COMANDI" /\ n <= MaxMails /\ to # me
        /\ server' = MailAdd(sent, me, n)
    BY <1>1, <1>2, <1>3 DEF Xinm, Serving
  <1>5. me \in Users
    BY <1>3, <1>4, Basics DEF Session, SessionSet
  <1>6. n \in 1 .. MaxMails
    BY <1>1, <1>4, Basics
  <1>7. PICK sw : sw = MailAdd(sent, me, n)
    OBVIOUS
  <1>8. Orderly(sw) /\ AllDelivered(server, sw, {to, me}, n)
    BY <1>1, <1>2, <1>4, <1>5, <1>7, TwoMails
  <1>9. Orderly(server') /\ AllDelivered(server, server', {to, me}, n)
    BY <1>4, <1>7, <1>8
  <1>10. {to, me} \in SUBSET Users
    BY <1>5
  <1>11. Abstract!Next
    BY <1>1, <1>6, <1>9, <1>10, DeliveredIs DEF AllDelivered
  <1>12. QED
    BY <1>9, <1>11

LEMMA SendIs ==
  ASSUME IInv, IInv', Orderly(server), NEW c \in Connected, NEW to \in Users,
         NEW cc \in BOOLEAN, Send(c, to, cc)
  PROVE  Orderly(server') /\ Abstract!Next
  <1>1. PICK n : n = lastmail + 1
    OBVIOUS
  <1>2. PICK me : me = Session(c).user
    OBVIOUS
  <1>3. PICK own : own = IF cc THEN MailAdd(server, me, n) ELSE server
    OBVIOUS
  <1>4. PICK sent : sent = MailAdd(own, to, n)
    OBVIOUS
  <1>5. /\ Session(c).stato = "COMANDI" /\ n <= MaxMails /\ to # me
        /\ server' = [sent EXCEPT !.sessions[c].box.highmsg = n]
    BY <1>1, <1>2, <1>3, <1>4 DEF Send, Serving
  <1>6. c \in Conns
    BY Basics
  <1>7. me \in Users
    BY <1>2, <1>5, <1>6, Basics DEF Session, SessionSet
  <1>8. n \in 1 .. MaxMails
    BY <1>1, <1>5, Basics
  <1>9. PICK all : all = IF cc THEN {me, to} ELSE {to}
    OBVIOUS
  <1>10. ServerOK(sent, n) /\ Orderly(sent) /\ AllDelivered(server, sent, all, n)
    <2>1. CASE cc
      <3>1. own = MailAdd(server, me, n) /\ all = {me, to}
        BY <1>3, <1>9, <2>1
      <3>2. QED
        BY <1>1, <1>4, <1>5, <1>7, <3>1, TwoMails
    <2>2. CASE ~ cc
      <3>1. own = server /\ all = {to}
        BY <1>3, <1>9, <2>2
      <3>2. QED
        BY <1>1, <1>4, <3>1, OneMail
    <2>3. QED
      BY <2>1, <2>2
  <1>11. /\ sent = [list |-> sent.list, sessions |-> sent.sessions, files |-> sent.files]
         /\ sent.sessions \in [Conns -> SessionSet(n)]
    BY <1>10 DEF ServerOK
  <1>12. PICK r : r = sent.sessions[c]
    OBVIOUS
  <1>13. r \in SessionSet(n) /\ r.box \in BoxSet(n)
    BY <1>6, <1>11, <1>12 DEF SessionSet
  <1>14. PICK b : b = [r.box EXCEPT !.highmsg = n]
    OBVIOUS
  <1>15. b.slots = r.box.slots
    BY <1>13, <1>14 DEF BoxSet
  <1>16. PICK s : s = [r EXCEPT !.box = b]
    OBVIOUS
  <1>17. /\ s.user = r.user /\ s.guest = r.guest /\ s.dirty = r.dirty
         /\ s.box.slots = r.box.slots /\ s.fullroom = r.fullroom
    BY <1>13, <1>15, <1>16 DEF SessionSet
  <1>18. server' = WithSession(sent, c, s)
    <2>1. server' = [sent EXCEPT !.sessions[c] = Numbered(@, n)]
      BY <1>5 DEF Numbered
    <2>2. Numbered(r, n) = s
      BY <1>14, <1>16 DEF Numbered
    <2>3. server' = [sent EXCEPT !.sessions = [sent.sessions EXCEPT ![c] = s]]
      BY <1>12, <2>1, <2>2
    <2>4. QED
      BY <1>11, <2>3 DEF WithSession
  <1>19. PICK sw : sw = WithSession(sent, c, s)
    OBVIOUS
  <1>20. Orderly(sw) /\ Quiet(sent, sw)
    BY <1>6, <1>10, <1>12, <1>17, <1>19, SessionQuiet
  <1>21. AllDelivered(server, sw, all, n)
    BY <1>10, <1>20 DEF AllDelivered, Quiet
  <1>22. Orderly(server') /\ AllDelivered(server, server', all, n)
    BY <1>18, <1>19, <1>20, <1>21
  <1>23. all \in SUBSET Users
    BY <1>7, <1>9
  <1>24. Abstract!Next
    BY <1>1, <1>8, <1>22, <1>23, DeliveredIs DEF AllDelivered
  <1>25. QED
    BY <1>22, <1>24

LEMMA AbstractInit ==
  ASSUME Init
  PROVE  Orderly(server) /\ Abstract!Init
  <1>1. /\ server.list = << >> /\ server.sessions = [c \in Conns |-> Fresh]
        /\ server.files = [u \in Users |-> [box |-> NoBox, fullroom |-> 0]]
    BY DEF Init
  <1>2. NoBox = Fresh.box
    BY DEF Fresh
  <1>3. Orderly(server)
    BY <1>1, <1>2, FreshIs DEF Orderly
  <1>4. ASSUME NEW u \in Users
        PROVE  MailsOf(u) = {}
    <2>1. Named(u) = {}
      BY <1>1 DEF Named, SessionsNamed, SessionsOf, ToSet
    <2>2. Held(u) = [box |-> NoBox, fullroom |-> 0]
      BY <1>1, <2>1 DEF Held
    <2>3. \A k \in DOMAIN Held(u).box.slots : Held(u).box.slots[k] = NoMail
      BY <2>2 DEF NoBox
    <2>4. QED
      BY <2>3 DEF MailsOf, ToSet
  <1>5. Abstract!Init
    BY <1>4 DEF Abstract!Init
  <1>6. QED
    BY <1>3, <1>5

LEMMA AbstractStep ==
  ASSUME IInv, IInv', Faithful, Orderly(server), [Next]_vars
  PROVE  Orderly(server') /\ (Abstract!Next \/ UNCHANGED Abstract!vars)
  <1>1. SUFFICES \/ Orderly(server') /\ Quiet(server, server')
                 \/ Orderly(server') /\ (Abstract!Next \/ UNCHANGED Abstract!vars)
    BY QuietIs
  <1>2. CASE \E new \in (Conns \ Connected) \cup {NoConn},
               lost \in Subsets(Connected, "LOST") : Poll(new, lost)
    BY <1>2, PollIs
  <1>3. CASE Silent \/ UNCHANGED vars
    <2>1. server' = server
      BY <1>3 DEF Silent, vars
    <2>2. Quiet(server, server)
      BY DEF Quiet
    <2>3. QED
      BY <2>1, <2>2
  <1>4. CASE \E c \in Connected : Usr1Guest(c) \/ Quit(c)
    <2>1. ASSUME NEW c \in Connected, Usr1Guest(c)
          PROVE  FALSE
      BY <2>1 DEF Usr1Guest, may, Faithful
    <2>2. QED
      BY <1>4, <2>1, QuitIs
  <1>5. CASE \E c \in Connected, u \in Users : Usr1(c, u) \/ Xinm(c, u) \/ Cusr(c, u)
    <2>1. ASSUME NEW c \in Connected, NEW u \in Users, Cusr(c, u)
          PROVE  FALSE
      BY <2>1 DEF Cusr, may, Faithful
    <2>2. QED
      BY <1>5, <2>1, UsrIs, XinmIs
  <1>6. CASE \E c \in Connected, u \in Users, cc \in BOOLEAN : Send(c, u, cc)
    BY <1>6, SendIs
  <1>7. CASE \E c \in Connected, k \in Slots :
               Mdel(c, k) \/ \E mark \in 0 .. MaxMails : Read(c, k, mark)
    BY <1>7, MdelIs, ReadIs
  <1>8. CASE \E c \in Connected, mark \in 0 .. MaxMails : Goto(c, mark)
    BY <1>8, GotoIs
  <1>9. CASE \E idle \in Subsets(Connected, "IDLE") : EndPass(idle)
    BY <1>9, EndPassIs
  <1>10. QED
    BY <1>2, <1>3, <1>4, <1>5, <1>6, <1>7, <1>8, <1>9 DEF Next

LEMMA CommandsStay ==
  ASSUME [Next]_vars
  PROVE  commands' = commands
  <1>1. ASSUME NEW new, NEW lost, Poll(new, lost) PROVE commands' = commands
    BY <1>1 DEF Poll
  <1>2. ASSUME NEW idle, EndPass(idle) PROVE commands' = commands
    BY <1>2 DEF EndPass
  <1>3. ASSUME NEW c, NEW stato, Serving(c, stato) PROVE commands' = commands
    BY <1>3 DEF Serving
  <1>4. ASSUME NEW c, Usr1Guest(c) \/ Quit(c) PROVE commands' = commands
    BY <1>3, <1>4 DEF Usr1Guest, Quit
  <1>5. ASSUME NEW c, NEW u, Usr1(c, u) \/ Xinm(c, u) \/ Cusr(c, u) PROVE commands' = commands
    BY <1>3, <1>5 DEF Usr1, Xinm, Cusr
  <1>6. ASSUME NEW c, NEW x, NEW y,
               Send(c, x, y) \/ Read(c, x, y) \/ Mdel(c, x) \/ Goto(c, x)
        PROVE  commands' = commands
    BY <1>3, <1>6 DEF Send, Read, Mdel, Goto
  <1>7. CASE Silent \/ UNCHANGED vars
    BY <1>7 DEF Silent, vars
  <1>8. QED
    BY <1>1, <1>2, <1>4, <1>5, <1>6, <1>7 DEF Next

\* As long as nobody takes over a session, is thrown out or comes as a guest: for
\* any users and length of boxes, the boxes in memory and in the files are one
\* mail box for each user, and each command and each pass does to it what
\* UserMailboxes says (mail_add, mail_save, mail_load), nothing else.
THEOREM OneMailbox == Spec => ImplementsUserMailboxes
  <1>1. Init => Abstract!Init /\ Orderly(server)
    BY AbstractInit
  <1>2. IInv /\ IInv' /\ (Faithful => Orderly(server)) /\ [Next]_vars
          => /\ (Faithful => Orderly(server))'
             /\ (Faithful => Abstract!Next) \/ UNCHANGED Abstract!vars
    <2>1. ASSUME IInv, IInv', Faithful => Orderly(server), [Next]_vars
          PROVE  /\ (Faithful => Orderly(server))'
                 /\ (Faithful => Abstract!Next) \/ UNCHANGED Abstract!vars
      <3>1. commands' = commands
        BY <2>1, CommandsStay
      <3>2. Faithful' = Faithful
        BY <3>1 DEF Faithful
      <3>3. CASE Faithful
        BY <2>1, <3>2, <3>3, AbstractStep
      <3>4. CASE ~ Faithful
        BY <3>2, <3>4
      <3>5. QED
        BY <3>3, <3>4
    <2>2. QED
      BY <2>1
  <1>3. Spec => []IInv
    BY Invariant
  <1>4. QED
    BY <1>1, <1>2, <1>3, PTL DEF Spec, ImplementsUserMailboxes
=============================================================================
