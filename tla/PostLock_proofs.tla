-------------------------- MODULE PostLock_proofs --------------------------
(***************************************************************************)
(* Proofs about the post lock, for any number of sessions and rooms and    *)
(* any timeout.                                                            *)
(***************************************************************************)
EXTENDS PostLock, FiniteSetTheorems, TLAPS

-----------------------------------------------------------------------------
(***************************************************************************)
(* Nobody is ever in a room that does not exist.                           *)
(***************************************************************************)

\* Every room but the Lobby has one before it.  The nearest is the one with
\* the fewest rooms in between; the strict inclusion of finite sets, being
\* well-founded, provides it.
LEMMA PrevExists ==
  ASSUME rooms \subseteq Rooms, Lobby \in rooms, NEW r \in rooms, r # Lobby
  PROVE  Prev(r) \in rooms /\ Prev(r) < r
  <1> DEFINE Between(q) == { x \in rooms : q < x /\ x < r }
             Below      == { q \in rooms : q < r }
             Gaps       == { Between(q) : q \in Below }
  <1>1. rooms \subseteq Int /\ Lobby \in Below
    BY RoomsAssumption DEF Rooms, Lobby
  <1>2. IsFiniteSet(rooms)
    <2>1. IsFiniteSet(Rooms)
      BY RoomsAssumption, FS_Interval DEF Rooms
    <2>2. QED
      BY <2>1, FS_Subset
  <1>3. Gaps # {} /\ Gaps \subseteq FiniteSubsetsOf(rooms)
    <2>1. ASSUME NEW q \in Below PROVE Between(q) \in FiniteSubsetsOf(rooms)
      <3>1. Between(q) \subseteq rooms
        OBVIOUS
      <3>2. IsFiniteSet(Between(q))
        BY <1>2, <3>1, FS_Subset
      <3>3. QED
        BY <3>1, <3>2 DEF FiniteSubsetsOf
    <2>2. QED
      BY <1>1, <2>1
  <1>4. PICK G \in Gaps : \A H \in Gaps : <<H, G>> \notin StrictSubsetOrdering(rooms)
    <2>1. IsWellFoundedOn(StrictSubsetOrdering(rooms), FiniteSubsetsOf(rooms))
      BY FS_StrictSubsetOrderingWellFounded
    <2>2. QED
      BY <1>3, <2>1, WFMin
  <1>5. PICK p \in Below : G = Between(p)
    BY <1>4
  <1>6. ASSUME NEW q \in rooms, q < r
        PROVE  q <= p
    <2>1. SUFFICES ASSUME p < q PROVE FALSE
      BY <1>1
    <2>2. Between(q) \in Gaps
      BY <1>6
    <2>3. Between(q) \subseteq Between(p) /\ q \in Between(p) /\ q \notin Between(q)
      <3>1. p \in Int /\ q \in Int /\ r \in Int
        BY <1>1, <1>5
      <3>2. \A x \in rooms : x \in Int
        BY <1>1
      <3>3. \A x \in rooms : q < x => p < x
        BY <2>1, <3>1, <3>2
      <3>4. Between(q) \subseteq Between(p)
        BY <3>3
      <3>5. q \in Between(p)
        BY <1>6, <2>1
      <3>6. ~(q < q)
        BY <3>1
      <3>7. QED
        BY <3>4, <3>5, <3>6
    <2>4. <<Between(q), Between(p)>> \in StrictSubsetOrdering(rooms)
      BY <2>3 DEF StrictSubsetOrdering
    <2>5. QED
      BY <1>4, <1>5, <2>2, <2>4
  <1>7. p \in rooms /\ p < r
    BY <1>5
  <1>8. QED
    BY <1>6, <1>7 DEF Prev

\* room_empty leaves nobody outside the rooms there are, and nobody but the
\* excepted in the room it empties.
LEMMA EmptiedType ==
  ASSUME TypeOK, NEW r \in rooms, NEW except \in SUBSET Sessions
  PROVE  /\ Emptied(r, except) \in [Sessions -> rooms]
         /\ r # Lobby => \A s \in Sessions \ except : Emptied(r, except)[s] # r
  <1>1. /\ rooms \subseteq Rooms /\ Lobby \in rooms
        /\ room \in [Sessions -> rooms]
    BY DEF TypeOK
  <1>2. r # Lobby => Prev(r) \in rooms /\ Prev(r) # r
    <2>1. SUFFICES ASSUME r # Lobby PROVE Prev(r) \in rooms /\ Prev(r) # r
      OBVIOUS
    <2>2. Prev(r) \in rooms /\ Prev(r) < r /\ rooms \subseteq Int
      BY <1>1, <2>1, PrevExists DEF Rooms
    <2>3. QED
      BY <2>2
  <1>3. ASSUME NEW s \in Sessions
        PROVE  /\ Emptied(r, except)[s] \in rooms
               /\ r # Lobby /\ s \notin except => Emptied(r, except)[s] # r
    BY <1>1, <1>2 DEF Emptied
  <1>4. DOMAIN Emptied(r, except) = Sessions
    BY DEF Emptied
  <1>5. QED
    BY <1>3, <1>4 DEF Emptied

\* Before the first login everything has its type.
LEMMA InitType == Init => TypeOK
  BY RoomsAssumption, TimeoutAssumption
     DEF Init, TypeOK, Rooms, Lobby, States

\* Every command and every pass of the loop keeps the types.
LEMMA NextType == TypeOK /\ [Next]_vars => TypeOK'
  <1> SUFFICES ASSUME TypeOK, [Next]_vars PROVE TypeOK'
    OBVIOUS
  <1> USE DEF TypeOK, States
  <1>1. ASSUME NEW s \in Sessions, Login(s) PROVE TypeOK'
    BY <1>1 DEF Login
  <1>2. ASSUME NEW s \in Sessions, Chiudi(s) PROVE TypeOK'
    <2>1. lock' \in [Rooms -> BOOLEAN]
      BY <1>2 DEF Chiudi, LockAfterClose
    <2>2. QED
      BY <1>2, <2>1, TimeoutAssumption DEF Chiudi
  <1>3. ASSUME NEW s \in Sessions, Quit(s) PROVE TypeOK'
    BY <1>3 DEF Quit
  <1>4. ASSUME NEW s \in Sessions, NEW t \in Sessions, Cusr(s, t) PROVE TypeOK'
    BY <1>4 DEF Cusr
  <1>5. ASSUME NEW s \in Sessions, Goto(s) PROVE TypeOK'
    BY <1>5 DEF Goto
  <1>6. ASSUME NEW s \in Sessions
        PROVE  TimerAtBegin(s) \in 0 .. Timeout
    BY TimeoutAssumption DEF TimerAtBegin
  <1>7. ASSUME NEW s \in Sessions, Pstb(s) PROVE TypeOK'
    <2>1. /\ lock' \in [Rooms -> BOOLEAN]
          /\ owns' \in [Sessions -> Rooms \cup {NoRoom}]
      BY <1>7 DEF Pstb
    <2>2. QED
      BY <1>6, <1>7, <2>1 DEF Pstb
  <1>8. ASSUME NEW s \in Sessions, PstbNoRecipient(s) PROVE TypeOK'
    BY <1>6, <1>8 DEF PstbNoRecipient
  <1>9. ASSUME NEW s \in Sessions, EndPost(s) PROVE TypeOK'
    <2>1. lock' \in [Rooms -> BOOLEAN]
      BY <1>9 DEF EndPost, Unlocked
    <2>2. QED
      BY <1>9, <2>1, TimeoutAssumption DEF EndPost
  <1>10. ASSUME NEW s \in Sessions, BeginText(s) PROVE TypeOK'
    BY <1>10 DEF BeginText
  <1>11. ASSUME NEW s \in Sessions, EndText(s) PROVE TypeOK'
    BY <1>11, TimeoutAssumption DEF EndText
  <1>12. ASSUME NEW s \in Sessions, Redt(s) PROVE TypeOK'
    <2>1. room' \in [Sessions -> rooms]
      BY <1>12, EmptiedType DEF Redt
    <2>2. flags' \in [Rooms -> SUBSET LockFlags]
      BY <1>12 DEF Redt
    <2>3. QED
      BY <1>12, <2>1, <2>2 DEF Redt
  <1>13. ASSUME NEW s \in Sessions, Rdel(s) PROVE TypeOK'
    <2> DEFINE r == room[s]
    <2>1. r \in rooms /\ r # Lobby
      BY <1>13 DEF Rdel
    <2>2. /\ Emptied(r, {}) \in [Sessions -> rooms]
          /\ \A t \in Sessions : Emptied(r, {})[t] # r
      BY <2>1, EmptiedType
    <2>3. room' \in [Sessions -> rooms']
      BY <1>13, <2>2 DEF Rdel
    <2>4. lock' \in [Rooms -> BOOLEAN] /\ rooms' \subseteq Rooms /\ Lobby \in rooms'
      BY <1>13, <2>1 DEF Rdel
    <2>5. QED
      BY <1>13, <2>3, <2>4 DEF Rdel
  <1>14. CASE Tick
    <2>1. timer' \in [Sessions -> 0 .. Timeout]
      BY <1>14, TimeoutAssumption DEF Tick, Ticking
    <2>2. QED
      BY <1>14, <2>1 DEF Tick
  <1>15. CASE UNCHANGED vars
    BY <1>15 DEF vars, sessionVars
  <1>16. QED
    BY <1>1, <1>2, <1>3, <1>4, <1>5, <1>7, <1>8, <1>9, <1>10, <1>11, <1>12,
       <1>13, <1>14, <1>15
       DEF Next, Command, Drop, Close

\* Every variable keeps its type; in particular nobody is left in a room that
\* was deleted, and a virtual room hangs on one that exists (rooms.c,
\* room_empty).
THEOREM TypeCorrect == Spec => []TypeOK
  BY InitType, NextType, PTL DEF Spec

-----------------------------------------------------------------------------
(***************************************************************************)
(* One at a time.                                                          *)
(***************************************************************************)

\* Whoever writes in a room with RF_POSTLOCK writes there alone and keeps it
\* locked.
Guarded(s) == Posting(s) /\ "POSTLOCK" \in flags[room[s]]

LockInv ==
  /\ TypeOK
  /\ rooms = Rooms
  /\ \A s \in Sessions : ~blog[s]
  /\ \A s \in Sessions : Guarded(s) => lock[room[s]]
  /\ \A s, t \in Sessions : Guarded(s) /\ Posting(t) /\ room[t] = room[s]
                               => s = t

\* Every command and every pass of the loop keeps the ownership of locks.
LEMMA NextLock ==
  ASSUME ~RoomEdits, ~Blogs
  PROVE  LockInv /\ [Next]_vars => LockInv'
  <1> SUFFICES ASSUME LockInv, [Next]_vars PROVE LockInv'
    OBVIOUS
  <1> USE DEF LockInv, Guarded, Posting
  <1>0. TypeOK'
    BY NextType
  <1> HIDE DEF LockInv
  <1>t. /\ rooms = Rooms
        /\ flags \in [Rooms -> SUBSET LockFlags]
        /\ lock \in [Rooms -> BOOLEAN]
        /\ stato \in [Sessions -> States]
        /\ room \in [Sessions -> Rooms]
        /\ blog \in [Sessions -> BOOLEAN]
        /\ \A s \in Sessions : ~blog[s]
        /\ \A s \in Sessions : Guarded(s) => lock[room[s]]
        /\ \A s, t \in Sessions : Guarded(s) /\ Posting(t) /\ room[t] = room[s]
                                     => s = t
    BY DEF LockInv, TypeOK
  \* A step that begins no post and frees no lock leaves every writer alone.
  <1>q. ASSUME UNCHANGED << rooms, flags, lock, blog >>,
               \A s \in Sessions : Posting(s)' => Posting(s) /\ room'[s] = room[s]
        PROVE  LockInv'
    BY <1>0, <1>t, <1>q DEF LockInv
  <1>1. ASSUME NEW s \in Sessions, Login(s) PROVE LockInv'
    BY <1>q, <1>t, <1>1 DEF Login
  <1>2. ASSUME NEW s \in Sessions, Chiudi(s) PROVE LockInv'
    <2>1. \A t \in Sessions : Posting(t)' => t # s /\ Posting(t) /\ room'[t] = room[t]
      BY <1>t, <1>2 DEF Chiudi
    <2>2. /\ rooms' = rooms /\ flags' = flags
          /\ \A t \in Sessions : ~blog'[t]
      BY <1>t, <1>2 DEF Chiudi
    <2>3. \A t \in Sessions : Guarded(t)' => lock'[room'[t]]
      <3>1. ASSUME NEW t \in Sessions, Guarded(t)'
            PROVE  lock'[room'[t]]
        <4>1. t # s /\ Guarded(t) /\ room'[t] = room[t] /\ lock[room[t]]
          BY <1>t, <2>1, <2>2, <3>1
        <4>2. Posting(s) => room[s] # room[t]
          BY <1>t, <4>1
        <4>3. QED
          BY <1>t, <1>2, <4>1, <4>2 DEF Chiudi, LockAfterClose
      <3>2. QED
        BY <3>1
    <2>4. QED
      BY <1>0, <1>t, <2>1, <2>2, <2>3 DEF LockInv
  <1>3. ASSUME NEW s \in Sessions, Quit(s) PROVE LockInv'
    BY <1>q, <1>t, <1>3 DEF Quit
  <1>4. ASSUME NEW s \in Sessions, NEW t \in Sessions, Cusr(s, t) PROVE LockInv'
    BY <1>q, <1>t, <1>4 DEF Cusr
  <1>5. ASSUME NEW s \in Sessions, Goto(s) PROVE LockInv'
    <2>1. \A t \in Sessions : Posting(t)' => t # s /\ Posting(t) /\ room'[t] = room[t]
      BY <1>t, <1>5 DEF Goto
    <2>2. /\ rooms' = rooms /\ flags' = flags /\ lock' = lock
          /\ \A t \in Sessions : ~blog'[t]
      BY <1>t, <1>5 DEF Goto
    <2>3. QED
      BY <1>0, <1>t, <2>1, <2>2 DEF LockInv
  <1>7. ASSUME NEW s \in Sessions, Pstb(s) PROVE LockInv'
    <2>1. /\ rooms' = rooms /\ flags' = flags /\ blog' = blog /\ room' = room
          /\ \A t \in Sessions : Posting(t)' <=> Posting(t) \/ t = s
          /\ ~Posting(s)
      BY <1>t, <1>7 DEF Pstb, MayBegin
    <2>2. CASE Locked(s)
      <3>1. lock' = [lock EXCEPT ![room[s]] = TRUE]
        BY <1>7, <2>2 DEF Pstb
      <3>2. ~lock[room[s]] /\ "POSTLOCK" \in flags[room[s]]
        BY <1>7, <2>2 DEF Pstb, MayBegin, Locked
      <3>3. \A t \in Sessions : Posting(t) => room[t] # room[s]
        BY <1>t, <3>2
      <3>4. QED
        BY <1>0, <1>t, <2>1, <3>1, <3>3 DEF LockInv
    <2>3. CASE ~Locked(s)
      <3>1. lock' = lock
        BY <1>7, <2>3 DEF Pstb
      <3>2. "POSTLOCK" \notin flags[room[s]]
        BY <1>t, <2>3 DEF Locked
      <3>3. QED
        BY <1>0, <1>t, <2>1, <3>1, <3>2 DEF LockInv
    <2>4. QED
      BY <2>2, <2>3
  <1>8. ASSUME NEW s \in Sessions, PstbNoRecipient(s) PROVE LockInv'
    BY <1>q, <1>t, <1>8 DEF PstbNoRecipient
  <1>9. ASSUME NEW s \in Sessions, EndPost(s) PROVE LockInv'
    <2>1. /\ rooms' = rooms /\ flags' = flags /\ blog' = blog /\ room' = room
          /\ lock' = [lock EXCEPT ![room[s]] = FALSE]
          /\ Posting(s)
          /\ \A t \in Sessions : Posting(t)' => t # s /\ Posting(t)
      BY <1>t, <1>9 DEF EndPost, Unlocked
    <2>2. \A t \in Sessions : Guarded(t)' => lock'[room'[t]]
      BY <1>t, <2>1
    <2>3. QED
      BY <1>0, <1>t, <2>1, <2>2 DEF LockInv
  <1>10. ASSUME NEW s \in Sessions, BeginText(s) PROVE LockInv'
    BY <1>q, <1>t, <1>10 DEF BeginText
  <1>11. ASSUME NEW s \in Sessions, EndText(s) PROVE LockInv'
    BY <1>q, <1>t, <1>11 DEF EndText
  <1>12. ASSUME NEW s \in Sessions, Redt(s) \/ Rdel(s) PROVE LockInv'
    BY <1>12 DEF Redt, Rdel
  <1>14. CASE Tick
    <2>1. /\ rooms' = rooms /\ flags' = flags /\ blog' = blog /\ room' = room
          /\ \A t \in Sessions : Posting(t)' => Posting(t) /\ t \notin Expiring
          /\ Expiring \subseteq { t \in Sessions : Posting(t) }
      BY <1>t, <1>14 DEF Tick, Expiring, Ticking
    <2>2. \A t \in Sessions : Guarded(t)' => lock'[room'[t]]
      <3>1. ASSUME NEW t \in Sessions, Guarded(t)'
            PROVE  lock'[room'[t]]
        <4>1. Guarded(t) /\ t \notin Expiring /\ lock[room[t]] /\ room[t] \in Rooms
          BY <1>t, <2>1, <3>1
        <4>2. \A u \in Expiring : room[u] # room[t]
          BY <1>t, <2>1, <4>1
        <4>3. lock'[room[t]] <=>
                 (lock[room[t]] /\ ~ \E u \in Expiring : room[u] = room[t] /\ ~blog[u])
          BY <1>14, <4>1 DEF Tick
        <4>4. QED
          BY <2>1, <4>1, <4>2, <4>3
      <3>2. QED
        BY <3>1
    <2>3. QED
      BY <1>0, <1>t, <2>1, <2>2 DEF LockInv
  <1>15. CASE UNCHANGED vars
    BY <1>q, <1>t, <1>15 DEF vars, sessionVars
  <1>16. QED
    BY <1>1, <1>2, <1>3, <1>4, <1>5, <1>7, <1>8, <1>9, <1>10, <1>11, <1>12,
       <1>14, <1>15
       DEF Next, Command, Drop, Close

\* As long as rooms are not edited and blogs not visited, at most one user at
\* a time writes in a room with RF_POSTLOCK, however posts are begun, ended,
\* timed out, given up or lost (post.c, cittaserver.c).
THEOREM OneWriter ==
  ASSUME ~RoomEdits, ~Blogs
  PROVE  Spec => []OneAtATime
  <1>1. Init => LockInv
    <2>1. Init => TypeOK
      BY InitType
    <2>2. QED
      BY <2>1 DEF Init, LockInv, Guarded, Posting
  <1>2. LockInv /\ [Next]_vars => LockInv'
    BY NextLock
  <1>3. LockInv => OneAtATime
    BY DEF LockInv, OneAtATime, Writers, Guarded, Posting
  <1>4. QED
    BY <1>1, <1>2, <1>3, PTL DEF Spec

-----------------------------------------------------------------------------
(***************************************************************************)
(* The mutex.                                                              *)
(***************************************************************************)

\* A room is locked exactly as long as the post that took its lock is being
\* written; whoever writes in a room with RF_POSTLOCK took its lock.
OwnInv ==
  /\ LockInv
  /\ \A r \in Rooms : lock[r] <=> \E s \in Sessions : owns[s] = r
  /\ \A s \in Sessions :
        /\ owns[s] # NoRoom => Guarded(s) /\ owns[s] = room[s]
        /\ Guarded(s) => owns[s] = room[s]
        /\ stato[s] # "NONE" => utente[s]
        /\ stato[s] # "CHIUSA"

\* What the invariant says, without its names.
LEMMA OwnFacts ==
  ASSUME OwnInv
  PROVE  /\ NoRoom \notin Rooms
         /\ flags \in [Rooms -> SUBSET LockFlags]
         /\ lock \in [Rooms -> BOOLEAN]
         /\ stato \in [Sessions -> States]
         /\ room \in [Sessions -> Rooms]
         /\ utente \in [Sessions -> BOOLEAN]
         /\ owns \in [Sessions -> Rooms \cup {NoRoom}]
         /\ \A s \in Sessions : ~blog[s]
         /\ \A r \in Rooms : lock[r] <=> \E s \in Sessions : owns[s] = r
         /\ \A s \in Sessions : owns[s] # NoRoom => Guarded(s) /\ owns[s] = room[s]
         /\ \A s \in Sessions : Guarded(s) => owns[s] = room[s]
         /\ \A s \in Sessions : stato[s] # "NONE" => utente[s]
         /\ \A s \in Sessions : stato[s] # "CHIUSA"
         /\ \A s, t \in Sessions : Guarded(s) /\ Posting(t) /\ room[t] = room[s] => s = t
         /\ \A s, t \in Sessions : owns[s] # NoRoom /\ owns[t] = owns[s] => s = t
  <1>1. /\ rooms = Rooms /\ TypeOK
        /\ \A s, t \in Sessions : Guarded(s) /\ Posting(t) /\ room[t] = room[s] => s = t
        /\ \A s \in Sessions : ~blog[s]
    BY DEF OwnInv, LockInv
  <1>2. \A s, t \in Sessions : owns[s] # NoRoom /\ owns[t] = owns[s] => s = t
    BY <1>1 DEF OwnInv, Guarded
  <1>3. QED
    BY <1>1, <1>2, RoomsAssumption DEF OwnInv, TypeOK

\* The posts of the sessions in S are over, and their locks free.
Released(S) ==
  /\ owns' = [s \in Sessions |-> IF s \in S THEN NoRoom ELSE owns[s]]
  /\ \A r \in Rooms : lock'[r] <=> (lock[r] /\ ~ \E s \in S : owns[s] = r)

\* Nobody keeps a lock whose post is over, and nobody else's is freed.
LEMMA ReleasedOwns ==
  ASSUME OwnInv, NEW S \in SUBSET Sessions, Released(S)
  PROVE  \A r \in Rooms : lock'[r] <=> \E s \in Sessions : owns'[s] = r
  <1> SUFFICES ASSUME NEW r \in Rooms
               PROVE  lock'[r] <=> \E s \in Sessions : owns'[s] = r
    OBVIOUS
  <1>1. r # NoRoom /\ (lock[r] <=> \E s \in Sessions : owns[s] = r)
    BY OwnFacts
  <1>2. \A s, t \in Sessions : owns[s] = r /\ owns[t] = r => s = t
    BY <1>1, OwnFacts
  <1>3. \A s \in Sessions : owns'[s] = IF s \in S THEN NoRoom ELSE owns[s]
    BY DEF Released
  <1>4. lock'[r] <=> (lock[r] /\ ~ \E s \in S : owns[s] = r)
    BY DEF Released
  <1>5. QED
    BY <1>1, <1>2, <1>3, <1>4

\* What a lost connection, the end of a post or the timer frees is the lock
\* that the post took, if it took any.
LEMMA FreedIsOwn ==
  ASSUME OwnInv, NEW s \in Sessions, Posting(s)
  PROVE  \A r \in Rooms :
            ((r = room[s]) /\ lock[r]) <=> (lock[r] /\ owns[s] = r)
  <1> SUFFICES ASSUME NEW r \in Rooms, lock[r]
               PROVE  r = room[s] <=> owns[s] = r
    OBVIOUS
  <1>1. owns[s] = r => r = room[s]
    BY OwnFacts
  <1>2. ASSUME r = room[s] PROVE owns[s] = r
    <2>1. PICK t \in Sessions : owns[t] = r
      BY OwnFacts
    <2>2. Guarded(t) /\ room[t] = r
      BY <2>1, OwnFacts
    <2>3. t = s
      BY <1>2, <2>2, OwnFacts
    <2>4. QED
      BY <2>1, <2>3
  <1>3. QED
    BY <1>1, <1>2

\* A session that is lost gives its lock back.
LEMMA ChiudiReleases ==
  ASSUME OwnInv, NEW s \in Sessions, Chiudi(s)
  PROVE  Released({s})
  <1>1. owns' = [t \in Sessions |-> IF t \in {s} THEN NoRoom ELSE owns[t]]
    BY OwnFacts DEF Chiudi
  <1>2. ASSUME NEW r \in Rooms
        PROVE  lock'[r] <=> (lock[r] /\ ~ \E t \in {s} : owns[t] = r)
    <2>1. lock' = IF utente[s] /\ lock[room[s]] /\ Posting(s)
                  THEN [lock EXCEPT ![room[s]] = FALSE] ELSE lock
      BY DEF Chiudi, LockAfterClose
    <2>2. CASE Posting(s)
      <3>1. utente[s]
        BY <2>2, OwnFacts DEF Posting
      <3>2. lock'[r] <=> (lock[r] /\ r # room[s])
        BY <2>1, <2>2, <3>1, OwnFacts
      <3>3. QED
        BY <2>2, <3>2, FreedIsOwn
    <2>3. CASE ~Posting(s)
      <3>1. owns[s] = NoRoom
        BY <2>3, OwnFacts DEF Guarded
      <3>2. QED
        BY <2>1, <2>3, <3>1, OwnFacts
    <2>4. QED
      BY <2>2, <2>3
  <1>3. QED
    BY <1>1, <1>2 DEF Released

\* So does one that ends its post.
LEMMA EndPostReleases ==
  ASSUME OwnInv, NEW s \in Sessions, EndPost(s)
  PROVE  Released({s})
  <1>1. owns' = [t \in Sessions |-> IF t \in {s} THEN NoRoom ELSE owns[t]]
    BY OwnFacts DEF EndPost
  <1>2. ASSUME NEW r \in Rooms
        PROVE  lock'[r] <=> (lock[r] /\ ~ \E t \in {s} : owns[t] = r)
    <2>1. Posting(s) /\ lock' = [lock EXCEPT ![room[s]] = FALSE]
      BY OwnFacts DEF EndPost, Unlocked
    <2>2. lock'[r] <=> (lock[r] /\ r # room[s])
      BY <2>1, OwnFacts
    <2>3. QED
      BY <2>1, <2>2, FreedIsOwn
  <1>3. QED
    BY <1>1, <1>2 DEF Released

\* And those whose time is over.
LEMMA TickReleases ==
  ASSUME OwnInv, Tick
  PROVE  Expiring \subseteq Sessions /\ Released(Expiring)
  <1>1. Expiring \subseteq Sessions /\ \A s \in Expiring : Posting(s)
    BY DEF Expiring, Ticking
  <1>2. owns' = [s \in Sessions |-> IF s \in Expiring THEN NoRoom ELSE owns[s]]
    BY DEF Tick
  <1>3. ASSUME NEW r \in Rooms
        PROVE  lock'[r] <=> (lock[r] /\ ~ \E s \in Expiring : owns[s] = r)
    <2>1. lock'[r] <=> (lock[r] /\ ~ \E s \in Expiring : room[s] = r /\ ~blog[s])
      BY DEF Tick
    <2>2. ASSUME lock[r], NEW s \in Expiring
          PROVE  (room[s] = r /\ ~blog[s]) <=> owns[s] = r
      BY <1>1, <2>2, FreedIsOwn, OwnFacts
    <2>3. QED
      BY <2>1, <2>2
  <1>4. QED
    BY <1>1, <1>2, <1>3 DEF Released

\* PSTB in a room with RF_POSTLOCK takes a lock that nobody has; every other
\* step takes none, and frees those of the posts it ends.
LEMMA OwnSteps ==
  ASSUME OwnInv, ~RoomEdits, ~Blogs, Leaving \subseteq {"DROP"}, Next
  PROVE  \/ \E s \in Sessions : /\ ~lock[room[s]] /\ Pstb(s) /\ Locked(s)
                                /\ owns' = [owns EXCEPT ![s] = room[s]]
                                /\ lock' = [lock EXCEPT ![room[s]] = TRUE]
         \/ \E S \in SUBSET Sessions :
               Released(S) /\ \A s \in S : ~Posting(s)'
  <1> DEFINE Takes == \E s \in Sessions : /\ ~lock[room[s]] /\ Pstb(s) /\ Locked(s)
                                          /\ owns' = [owns EXCEPT ![s] = room[s]]
                                          /\ lock' = [lock EXCEPT ![room[s]] = TRUE]
             Frees == \E S \in SUBSET Sessions :
                         Released(S) /\ \A s \in S : ~Posting(s)'
  <1>0. SUFFICES Takes \/ Frees
    OBVIOUS
  <1>1. ASSUME UNCHANGED << lock, owns >> PROVE Frees
    <2>1. Released({})
      BY <1>1, OwnFacts DEF Released
    <2>2. QED
      BY <2>1
  <1>2. ASSUME NEW s \in Sessions, Drop(s) PROVE Frees
    <2>1. Released({s})
      BY <1>2, ChiudiReleases DEF Drop
    <2>2. ~Posting(s)'
      BY <1>2, OwnFacts DEF Drop, Chiudi, Posting
    <2>3. QED
      BY <2>1, <2>2
  <1>3. ASSUME NEW s \in Sessions, EndPost(s) PROVE Frees
    <2>1. Released({s})
      BY <1>3, EndPostReleases
    <2>2. ~Posting(s)'
      BY <1>3, OwnFacts DEF EndPost, Posting
    <2>3. QED
      BY <2>1, <2>2
  <1>4. ASSUME Tick PROVE Frees
    <2>1. Expiring \subseteq Sessions /\ Released(Expiring)
      BY <1>4, TickReleases
    <2>2. \A s \in Expiring : ~Posting(s)'
      BY <1>4, <2>1 DEF Tick, Posting
    <2>3. QED
      BY <2>1, <2>2
  <1>5. ASSUME NEW s \in Sessions, Pstb(s) PROVE Takes \/ Frees
    <2>1. CASE Locked(s)
      BY <1>5, <2>1 DEF Pstb, MayBegin
    <2>2. CASE ~Locked(s)
      BY <1>1, <1>5, <2>2 DEF Pstb
    <2>3. QED
      BY <2>1, <2>2
  <1>6. ASSUME NEW s \in Sessions,
               \/ Login(s) \/ Quit(s) \/ Goto(s) \/ PstbNoRecipient(s)
               \/ BeginText(s) \/ EndText(s) \/ (\E t \in Sessions : Cusr(s, t))
        PROVE  Frees
    BY <1>1, <1>6 DEF Login, Quit, Goto, PstbNoRecipient, BeginText, EndText, Cusr
  <1>7. ASSUME NEW s \in Sessions, Redt(s) \/ Rdel(s) \/ Close(s) PROVE Frees
    BY <1>7, OwnFacts DEF Redt, Rdel, Close
  <1>8. QED
    BY <1>2, <1>3, <1>4, <1>5, <1>6, <1>7 DEF Next, Command

\* Nobody waits to be closed, and whoever is connected is logged in: while
\* connections only break.
LEMMA NextConnected ==
  ASSUME OwnInv, ~RoomEdits, ~Blogs, Leaving \subseteq {"DROP"}, Next
  PROVE  \A s \in Sessions : /\ stato'[s] # "NONE" => utente'[s]
                             /\ stato'[s] # "CHIUSA"
  <1> SUFFICES ASSUME NEW v \in Sessions
               PROVE  /\ stato'[v] # "NONE" => utente'[v]
                      /\ stato'[v] # "CHIUSA"
    OBVIOUS
  <1>0. /\ stato[v] # "NONE" => utente[v]
        /\ stato[v] # "CHIUSA"
        /\ stato \in [Sessions -> States] /\ utente \in [Sessions -> BOOLEAN]
    BY OwnFacts
  <1>1. CASE Tick
    BY <1>0, <1>1 DEF Tick, Expiring, Ticking, Posting
  <1>2. ASSUME NEW s \in Sessions, Login(s) \/ Drop(s)
        PROVE  (stato'[v] # "NONE" => utente'[v]) /\ stato'[v] # "CHIUSA"
    BY <1>0, <1>2 DEF Login, Drop, Chiudi
  <1>3. ASSUME NEW s \in Sessions, Quit(s) \/ Close(s) \/ \E t \in Sessions : Cusr(s, t)
        PROVE  FALSE
    BY <1>3, OwnFacts DEF Quit, Cusr, Close
  <1>4. ASSUME NEW s \in Sessions,
               \/ Goto(s) \/ Pstb(s) \/ EndPost(s) \/ PstbNoRecipient(s)
               \/ BeginText(s) \/ EndText(s) \/ Redt(s) \/ Rdel(s)
        PROVE  (stato'[v] # "NONE" => utente'[v]) /\ stato'[v] # "CHIUSA"
    <2>1. /\ utente' = utente
          /\ stato' = stato \/ \E x \in {"COMANDI", "POST", "TESTO"} :
                                  stato[s] # "NONE" /\ stato' = [stato EXCEPT ![s] = x]
      BY <1>4 DEF Goto, Pstb, MayBegin, EndPost, Posting, PstbNoRecipient, BeginText, EndText,
                  Redt, Rdel
    <2>2. QED
      BY <1>0, <2>1
  <1>5. QED
    BY <1>1, <1>2, <1>3, <1>4 DEF Next, Command

\* A step changes the flags of no room, moves no writer, and lets one session
\* at most begin a post.
LEMMA WritersStay ==
  ASSUME OwnInv, ~RoomEdits, ~Blogs, Next
  PROVE  /\ flags' = flags
         /\ \A s \in Sessions : Posting(s)' =>
               \/ Posting(s) /\ room'[s] = room[s]
               \/ Pstb(s)
  <1>1. flags' = flags
    <2>1. CASE Tick
      BY <2>1 DEF Tick
    <2>2. ASSUME NEW s \in Sessions, Command(s) \/ Close(s) PROVE flags' = flags
      BY <2>2 DEF Command, Close, Login, Drop, Chiudi, Quit, Goto, Pstb, EndPost,
                  PstbNoRecipient, BeginText, EndText, Redt, Rdel, Cusr
    <2>3. QED
      BY <2>1, <2>2 DEF Next
  <1>2. ASSUME NEW v \in Sessions, Posting(v)'
        PROVE  \/ Posting(v) /\ room'[v] = room[v]
               \/ Pstb(v)
    <2>1. stato \in [Sessions -> States] /\ room \in [Sessions -> Rooms]
      BY OwnFacts
    <2>2. CASE Tick
      BY <1>2, <2>1, <2>2 DEF Tick, Posting
    <2>3. ASSUME NEW s \in Sessions, Pstb(s)
          PROVE  (Posting(v) /\ room'[v] = room[v]) \/ Pstb(v)
      BY <1>2, <2>1, <2>3 DEF Pstb, Posting
    <2>4. ASSUME NEW s \in Sessions, Command(s) \/ Close(s), ~Pstb(s)
          PROVE  Posting(v) /\ room'[v] = room[v]
      <3>1. CASE Login(s) \/ Drop(s) \/ Close(s) \/ Quit(s) \/ Goto(s)
        BY <1>2, <2>1, <3>1 DEF Login, Drop, Close, Chiudi, Quit, Goto, Posting
      <3>2. CASE EndPost(s) \/ PstbNoRecipient(s) \/ BeginText(s) \/ EndText(s)
        BY <1>2, <2>1, <3>2 DEF EndPost, PstbNoRecipient, BeginText, EndText, Posting
      <3>3. CASE Redt(s) \/ Rdel(s) \/ \E t \in Sessions : Cusr(s, t)
        BY <1>2, <2>1, <3>3 DEF Redt, Rdel, Cusr, Posting
      <3>4. QED
        BY <2>4, <3>1, <3>2, <3>3 DEF Command
    <2>5. QED
      BY <2>2, <2>3, <2>4 DEF Next
  <1>3. QED
    BY <1>1, <1>2

\* A post whose lock is still its own after a step goes on in its room.
LEMMA OwnsKept ==
  ASSUME OwnInv, ~RoomEdits, ~Blogs, Leaving \subseteq {"DROP"}, Next,
         NEW v \in Sessions, owns[v] # NoRoom, owns'[v] = owns[v]
  PROVE  Posting(v)' /\ room'[v] = room[v]
  <1>0. /\ stato \in [Sessions -> States] /\ room \in [Sessions -> Rooms]
        /\ owns \in [Sessions -> Rooms \cup {NoRoom}] /\ stato[v] = "POST"
    BY OwnFacts DEF Guarded, Posting
  <1>1. CASE Tick
    BY <1>0, <1>1 DEF Tick, Posting
  <1>2. ASSUME NEW s \in Sessions, Chiudi(s) \/ EndPost(s)
        PROVE  Posting(v)' /\ room'[v] = room[v]
    <2>1. v # s
      BY <1>0, <1>2 DEF Chiudi, EndPost
    <2>2. QED
      BY <1>0, <1>2, <2>1 DEF Chiudi, EndPost, Posting
  <1>3. ASSUME NEW s \in Sessions, Redt(s) \/ Rdel(s) \/ Quit(s) \/ Close(s)
                                   \/ \E t \in Sessions : Cusr(s, t)
        PROVE  FALSE
    BY <1>3, OwnFacts DEF Redt, Rdel, Quit, Close, Cusr
  <1>4. ASSUME NEW s \in Sessions,
               \/ Login(s) \/ Goto(s) \/ Pstb(s) \/ PstbNoRecipient(s)
               \/ BeginText(s) \/ EndText(s)
        PROVE  Posting(v)' /\ room'[v] = room[v]
    BY <1>0, <1>4 DEF Login, Goto, Pstb, MayBegin, PstbNoRecipient, BeginText, EndText, Posting
  <1>5. QED
    BY <1>1, <1>2, <1>3, <1>4 DEF Next, Command, Drop

\* Every step keeps the locks with those who took them.
LEMMA NextOwn ==
  ASSUME ~RoomEdits, ~Blogs, Leaving \subseteq {"DROP"}
  PROVE  OwnInv /\ [Next]_vars => OwnInv'
  <1> SUFFICES ASSUME OwnInv, [Next]_vars PROVE OwnInv'
    OBVIOUS
  <1>1. LockInv'
    BY NextLock DEF OwnInv
  <1>2. CASE UNCHANGED vars
    BY <1>1, <1>2 DEF vars, sessionVars, OwnInv, Guarded, Posting
  <1>3. CASE Next
    <2>1. /\ flags' = flags
          /\ \A s \in Sessions : Posting(s)' => \/ Posting(s) /\ room'[s] = room[s]
                                                \/ Pstb(s)
      BY <1>3, WritersStay
    <2>2. \A s \in Sessions : /\ stato'[s] # "NONE" => utente'[s]
                              /\ stato'[s] # "CHIUSA"
      BY <1>3, NextConnected
    <2>3. CASE \E S \in SUBSET Sessions : Released(S) /\ \A s \in S : ~Posting(s)'
      <3>1. PICK S \in SUBSET Sessions : Released(S) /\ \A s \in S : ~Posting(s)'
        BY <2>3
      <3>2. \A r \in Rooms : lock'[r] <=> \E s \in Sessions : owns'[s] = r
        BY <3>1, ReleasedOwns
      <3>3. ASSUME NEW s \in Sessions
            PROVE  /\ owns'[s] # NoRoom => Guarded(s)' /\ owns'[s] = room'[s]
                   /\ Guarded(s)' => owns'[s] = room'[s]
        <4>1. owns'[s] = IF s \in S THEN NoRoom ELSE owns[s]
          BY <3>1 DEF Released
        <4>2. ASSUME owns'[s] # NoRoom
              PROVE  Guarded(s)' /\ owns'[s] = room'[s]
          <5>1. s \notin S /\ owns'[s] = owns[s] /\ Guarded(s) /\ owns[s] = room[s]
            BY <4>1, <4>2, OwnFacts
          <5>2. Posting(s)' /\ room'[s] = room[s]
            BY <1>3, <4>2, <5>1, OwnsKept
          <5>3. QED
            BY <2>1, <5>1, <5>2 DEF Guarded
        <4>3. ASSUME Guarded(s)'
              PROVE  owns'[s] = room'[s]
          <5>1. s \notin S /\ Posting(s)'
            BY <3>1, <4>3 DEF Guarded
          <5>2. owns'[s] = owns[s]
            BY <4>1, <5>1
          <5>3. CASE Posting(s) /\ room'[s] = room[s]
            <6>1. Guarded(s)
              BY <2>1, <4>3, <5>3 DEF Guarded
            <6>2. QED
              BY <5>2, <5>3, <6>1, OwnFacts
          <5>4. CASE Pstb(s)
            <6>1. room' = room /\ Locked(s)
              BY <2>1, <4>3, <5>4, OwnFacts DEF Pstb, Guarded, Locked
            <6>2. owns'[s] = room[s]
              BY <5>4, <6>1, OwnFacts DEF Pstb
            <6>3. QED
              BY <6>1, <6>2
          <5>5. QED
            BY <2>1, <5>1, <5>3, <5>4
        <4>4. QED
          BY <4>2, <4>3
      <3>4. QED
        BY <1>1, <2>2, <3>2, <3>3 DEF OwnInv
    <2>4. CASE \E s \in Sessions : /\ ~lock[room[s]] /\ Pstb(s) /\ Locked(s)
                                   /\ owns' = [owns EXCEPT ![s] = room[s]]
                                   /\ lock' = [lock EXCEPT ![room[s]] = TRUE]
      <3>1. PICK s \in Sessions : /\ ~lock[room[s]] /\ Pstb(s) /\ Locked(s)
                                  /\ owns' = [owns EXCEPT ![s] = room[s]]
                                  /\ lock' = [lock EXCEPT ![room[s]] = TRUE]
        BY <2>4
      <3>2. /\ room' = room /\ stato' = [stato EXCEPT ![s] = "POST"]
            /\ "POSTLOCK" \in flags[room[s]] /\ ~Posting(s) /\ room[s] \in Rooms
            /\ \A t \in Sessions : owns[t] # room[s]
        BY <3>1, OwnFacts DEF Pstb, MayBegin, Locked, Posting
      <3>3. owns[s] = NoRoom
        BY <3>2, OwnFacts DEF Guarded
      <3>4. \A t \in Sessions : Posting(t)' <=> (Posting(t) \/ t = s)
        BY <3>2, OwnFacts DEF Posting
      <3>5. \A r \in Rooms : lock'[r] <=> (lock[r] \/ r = room[s])
        BY <3>1, OwnFacts
      <3>6. \A t \in Sessions : owns'[t] = IF t = s THEN room[s] ELSE owns[t]
        BY <3>1, OwnFacts
      <3>7. \A r \in Rooms : lock'[r] <=> \E t \in Sessions : owns'[t] = r
        BY <3>2, <3>3, <3>5, <3>6, OwnFacts
      <3>8. \A t \in Sessions : /\ owns'[t] # NoRoom => Guarded(t)' /\ owns'[t] = room'[t]
                                /\ Guarded(t)' => owns'[t] = room'[t]
        BY <2>1, <3>2, <3>4, <3>6, OwnFacts DEF Guarded
      <3>9. QED
        BY <1>1, <2>2, <3>7, <3>8 DEF OwnInv
    <2>5. QED
      BY <1>3, <2>3, <2>4, OwnSteps
  <1>4. QED
    BY <1>2, <1>3

\* Nobody is listed as the owner of a room that is free, and of one that is not
\* only he who took its lock is.
LEMMA OwnerIs ==
  ASSUME OwnInv, NEW r \in Rooms
  PROVE  /\ ~lock[r] => Owner(r) = NoRoom
         /\ \A s \in Sessions : owns[s] = r => Owner(r) = s
  <1>1. \A s, t \in Sessions : owns[s] = r /\ owns[t] = r => s = t
    BY OwnFacts
  <1>2. lock[r] <=> \E s \in Sessions : owns[s] = r
    BY OwnFacts
  <1>3. QED
    BY <1>1, <1>2 DEF Owner

\* Posts that are over leave the mutex, ...
LEMMA ReleasedLeaves ==
  ASSUME OwnInv, OwnInv', NEW S \in SUBSET Sessions, Released(S)
  PROVE  \E P \in SUBSET Rooms : Mutex!Leave(P)
  <1> DEFINE P == { r \in Rooms : \E s \in S : owns[s] = r }
  <1>1. ASSUME NEW r \in Rooms
        PROVE  /\ lock'[r] = (r \notin P /\ lock[r])
               /\ Owner(r)' = IF r \in P THEN NoRoom ELSE Owner(r)
    <2>1. lock'[r] <=> (lock[r] /\ r \notin P)
      BY DEF Released
    <2>2. lock'[r] \in BOOLEAN /\ lock[r] \in BOOLEAN
      <3>1. lock' \in [Rooms -> BOOLEAN]
        BY OwnFacts DEF OwnInv, LockInv, TypeOK
      <3>2. QED
        BY <3>1, OwnFacts
    <2>3. ~lock'[r] => Owner(r)' = NoRoom
      BY DEF OwnInv, Owner
    <2>4. CASE r \in P
      BY <2>1, <2>2, <2>3, <2>4
    <2>5. CASE r \notin P
      <3>1. \A s \in Sessions : owns'[s] = r <=> owns[s] = r
        <4>1. r # NoRoom
          BY OwnFacts
        <4>2. QED
          BY <2>5, <4>1 DEF Released
      <3>2. Owner(r)' = Owner(r)
        BY <3>1 DEF Owner
      <3>3. QED
        BY <2>1, <2>2, <2>5, <3>2
    <2>6. QED
      BY <2>4, <2>5
  <1>2. lock' = [r \in Rooms |-> r \notin P /\ lock[r]]
    <2>1. lock' \in [Rooms -> BOOLEAN]
      BY DEF OwnInv, LockInv, TypeOK
    <2>2. QED
      BY <1>1, <2>1
  <1>3. [r \in Rooms |-> Owner(r)]'
          = [r \in Rooms |-> IF r \in P THEN NoRoom ELSE [q \in Rooms |-> Owner(q)][r]]
    BY <1>1
  <1> HIDE DEF P
  <1>4. Mutex!Leave(P)
    BY <1>2, <1>3 DEF Mutex!Leave
  <1>5. P \in SUBSET Rooms
    BY DEF P
  <1>6. QED
    BY <1>4, <1>5

\* ... and one that takes its lock enters it.
LEMMA PstbTakes ==
  ASSUME OwnInv, OwnInv', NEW s \in Sessions, NEW r \in Rooms, ~lock[r],
         owns' = [owns EXCEPT ![s] = r],
         lock' = [lock EXCEPT ![r] = TRUE],
         owns[s] = NoRoom
  PROVE  Mutex!Take(s, r)
  <1>1. r # NoRoom /\ Owner(r) = NoRoom
    BY OwnFacts, OwnerIs
  <1>2. \A x, y \in Sessions : owns'[x] # NoRoom /\ owns'[y] = owns'[x] => x = y
    <2>1. \A x, y \in Sessions : owns[x] # NoRoom /\ owns[y] = owns[x] => x = y
      BY OwnFacts
    <2>2. \A x \in Sessions : owns'[x] = IF x = s THEN r ELSE owns[x]
      BY OwnFacts
    <2>3. \A x \in Sessions : owns[x] # r
      BY <1>1, OwnFacts
    <2>4. QED
      BY <2>1, <2>2, <2>3
  <1>3. owns'[s] = r
    BY OwnFacts
  <1>4. Owner(r)' = s
    <2>1. \E x \in Sessions : owns'[x] = r
      BY <1>3
    <2>2. \A x \in Sessions : owns'[x] = r => x = s
      BY <1>1, <1>2, <1>3
    <2>3. (CHOOSE x \in Sessions : owns'[x] = r) = s
      BY <1>3, <2>2
    <2>4. QED
      BY <2>1, <2>3 DEF Owner
  <1>5. ASSUME NEW q \in Rooms, q # r PROVE Owner(q)' = Owner(q)
    <2>1. \A x \in Sessions : owns'[x] = q <=> owns[x] = q
      BY <1>5, OwnFacts
    <2>2. QED
      BY <2>1 DEF Owner
  <1>6. [q \in Rooms |-> Owner(q)]' = [[q \in Rooms |-> Owner(q)] EXCEPT ![r] = s]
    BY <1>4, <1>5
  <1>7. QED
    BY <1>1, <1>6 DEF Mutex!Take

\* The post lock of a room is a mutex between those who post there, for any
\* number of sessions and rooms: while rooms are not edited, blogs not visited,
\* and connections only break (with QUIT and CUSR a lock may be left behind).
THEOREM ImplementsRoomMutex ==
  ASSUME ~RoomEdits, ~Blogs, Leaving \subseteq {"DROP"}
  PROVE  Spec => ImplementsMutex
  <1>1. Init => OwnInv
    <2> SUFFICES ASSUME Init PROVE OwnInv
      OBVIOUS
    <2>1. TypeOK
      BY InitType
    <2>2. LockInv
      BY <2>1 DEF Init, LockInv, Guarded, Posting
    <2>3. QED
      BY <2>2, RoomsAssumption DEF Init, OwnInv, Guarded, Posting
  <1>2. OwnInv /\ [Next]_vars => OwnInv'
    BY NextOwn
  <1>3. Init => Mutex!MutexInit
    <2> SUFFICES ASSUME Init PROVE Mutex!MutexInit
      OBVIOUS
    <2>1. \A r \in Rooms : Owner(r) = NoRoom
      BY RoomsAssumption DEF Init, Owner
    <2>2. QED
      BY <2>1 DEF Init, Mutex!MutexInit
  <1>4. OwnInv /\ OwnInv' /\ [Next]_vars => [Mutex!MutexNext]_(Mutex!mutexVars)
    <2> SUFFICES ASSUME OwnInv, OwnInv', [Next]_vars
                   PROVE  [Mutex!MutexNext]_(Mutex!mutexVars)
      OBVIOUS
    <2>1. CASE UNCHANGED vars
      BY <2>1 DEF vars, sessionVars, Mutex!mutexVars, Owner
    <2>2. CASE \E S \in SUBSET Sessions : Released(S)
      BY <2>2, ReleasedLeaves DEF Mutex!MutexNext
    <2>3. CASE \E s \in Sessions : /\ ~lock[room[s]] /\ Pstb(s) /\ Locked(s)
                                   /\ owns' = [owns EXCEPT ![s] = room[s]]
                                   /\ lock' = [lock EXCEPT ![room[s]] = TRUE]
      <3>1. PICK s \in Sessions : /\ ~lock[room[s]] /\ Pstb(s)
                                  /\ owns' = [owns EXCEPT ![s] = room[s]]
                                  /\ lock' = [lock EXCEPT ![room[s]] = TRUE]
        BY <2>3
      <3>2. room[s] \in Rooms /\ owns[s] = NoRoom
        BY <3>1, OwnFacts DEF Pstb, MayBegin, Guarded, Posting
      <3>3. Mutex!Take(s, room[s])
        BY <3>1, <3>2, PstbTakes
      <3>4. QED
        BY <3>2, <3>3 DEF Mutex!MutexNext
    <2>4. CASE Next
      BY <2>2, <2>3, <2>4, OwnSteps
    <2>5. QED
      BY <2>1, <2>4
  <1>5. QED
    BY <1>1, <1>2, <1>3, <1>4, PTL DEF Spec, ImplementsMutex, Mutex!MutexSpec
=============================================================================
