--------------------------- MODULE Express_proofs ---------------------------
(***************************************************************************)
(* X messages, chat, notices and timeouts, for any users, connections,     *)
(* channels, messages and limits.                                          *)
(***************************************************************************)
EXTENDS Express, SequenceTheorems, FiniteSetTheorems, WellFoundedInduction, TLAPS

-----------------------------------------------------------------------------
(***************************************************************************)
(* The inductive invariants.                                               *)
(***************************************************************************)
Heard == {"HWHO", "CWHO"} \X Users

SessionSet ==
  [user : Users \cup {NoUser}, stato : Kinds, logged : BOOLEAN, cancella : BOOLEAN,
   rcpt : Seq(Users \cup {Gone}), text : Nat, canale : Channels \cup {0},
   chat : Nat, idle : Nat, warning : 0 .. 2, quiet : Nat, warned : 0 .. 2,
   present : SUBSET Users, inchat : SUBSET Users, leaving : SUBSET Heard]

\* What the state of a session says about the rest of it.
SessionOK(s) ==
  /\ s.warned = s.warning /\ s.quiet = s.idle
  /\ s.stato = "LIC" => s.user = NoUser /\ ~ s.logged /\ ~ s.cancella
  /\ s.user = NoUser => s.stato \in {"LIC", "CHIUSA"}
  /\ s.canale # 0 => s.logged
  /\ s.text # 0 => s.stato \in {"XMSG", "CHIUSA"}
  /\ s.stato = "XMSG" => s.text # 0
  /\ s.text = 0 => s.rcpt = << >>

Servers == [list : Seq(Conns), sessions : [Conns -> SessionSet]]

ServerOK(sv) ==
  /\ sv \in Servers /\ IsInjective(sv.list)
  /\ \A c \in Conns : SessionOK(sv.sessions[c])
  /\ \A c \in Conns \ ToSet(sv.list) : sv.sessions[c] = Fresh

\* Between two passes nobody is about to leave.
AllStay(sv) ==
  \A c \in Conns : ~ sv.sessions[c].cancella /\ sv.sessions[c].stato # "CHIUSA"

BaseInv ==
  /\ commands \in CommandSets
  /\ ServerOK(server)
  /\ turn \in Seq(Conns) /\ IsInjective(turn)
  /\ phase \in {"POLL", "COMMANDS"}
  /\ phase = "POLL" => AllStay(server)
  /\ "TAKEOVER" \notin commands => \A c \in Conns : ~ Session(c).cancella

-----------------------------------------------------------------------------
(***************************************************************************)
(* Messages.                                                               *)
(***************************************************************************)
Ends == {"OPEN", "SENT", "GIVEN UP"}

MessageSet == [named : SUBSET Users, reached : [Users -> Nat], end : Ends]

MessageOK(x) ==
  /\ IsFiniteSet(x.named)
  /\ \A u \in Users :
       /\ x.reached[u] <= (IF u \in x.named THEN 1 ELSE 0)
       /\ x.end = "SENT" /\ u \in x.named /\ Fits(x) => x.reached[u] = 1

\* The list rcpt, while x is written.
ListOK(rcpt, x) ==
  /\ x.end = "OPEN"
  /\ Len(rcpt) <= MaxRcpt /\ Len(rcpt) <= Cardinality(x.named)
  /\ \A i, j \in DOMAIN rcpt : rcpt[i] = rcpt[j] /\ rcpt[i] # Gone => i = j
  /\ \A u \in Users : u \in ToSet(rcpt) => u \in x.named /\ x.reached[u] = 0
  /\ Fits(x) => \A u \in x.named : x.reached[u] = 0 => u \in ToSet(rcpt)

WriterOK(s, msgs) ==
  s.text # 0 => s.text \in 1 .. Len(msgs) /\ ListOK(s.rcpt, msgs[s.text])

TextInv ==
  /\ messages \in Seq(MessageSet)
  /\ \A m \in 1 .. Len(messages) : MessageOK(messages[m])
  /\ \A c \in Conns : WriterOK(Session(c), messages)
  /\ \A c, d \in Conns : c # d /\ Session(c).text # 0 => Session(c).text # Session(d).text

-----------------------------------------------------------------------------
(***************************************************************************)
(* Who is there.                                                           *)
(***************************************************************************)
Same(s, t) == s.user = t.user /\ s.user # NoUser

\* In, or to be served in this pass.
MayBeIn(sv, t, c) == sv.sessions[c].logged \/ c \in ToSet(t)

\* Of two sessions of a user one is taken over, and the other has no more turn
\* in this pass: it cannot come in before the first is closed.
TwoInPass(sv, t) ==
  \A c, d \in ToSet(sv.list) : c # d /\ Same(sv.sessions[c], sv.sessions[d]) =>
     /\ sv.sessions[c].cancella \/ sv.sessions[d].cancella
     /\ ~ (MayBeIn(sv, t, c) /\ MayBeIn(sv, t, d))
     /\ ~ sv.sessions[c].cancella => ~ MayBeIn(sv, t, c)

\* A session which stays, of user u.
Stays(sv, u, d) ==
  /\ d \in ToSet(sv.list) /\ sv.sessions[d].user = u
  /\ ~ sv.sessions[d].cancella /\ sv.sessions[d].stato # "CHIUSA"

\* A user whose session is taken over has another one.
TakenOverBy(sv, but) ==
  \A c \in ToSet(sv.list) :
     sv.sessions[c].cancella /\ sv.sessions[c].user \notin {NoUser, but} =>
       \E d \in Conns : Stays(sv, sv.sessions[c].user, d)

\* Who is in was announced to c.
KnowsWhoIsIn(sv, but) ==
  \A c, d \in ToSet(sv.list) :
     LET s == sv.sessions[c]
         t == sv.sessions[d]
     IN  /\ c # d /\ s.logged /\ s.user # NoUser /\ t.logged /\ t.stato # "CHIUSA"
         /\ s.user # t.user /\ t.user # but
         => t.user \in s.present

\* Who was announced to c is in, if his leaving is announced too.
KnowsNobodyElse(sv) ==
  \A c \in ToSet(sv.list) : sv.sessions[c].user # NoUser =>
     \A u \in sv.sessions[c].present \ Unregistered : u # sv.sessions[c].user =>
       \E d \in Conns : Stays(sv, u, d)

\* Who has not logged in was told nothing.
NothingTold(sv) ==
  \A c \in ToSet(sv.list) : sv.sessions[c].stato = "LIC" => sv.sessions[c].present = {}

\* The same of the chat.
InSame(sv, c, d) ==
  /\ c # d /\ sv.sessions[c].canale # 0 /\ sv.sessions[c].canale = sv.sessions[d].canale
  /\ sv.sessions[c].user # NoUser /\ sv.sessions[d].user # NoUser
  /\ sv.sessions[d].stato # "CHIUSA"

KnowsChannel(sv, but) ==
  \A c, d \in ToSet(sv.list) : InSame(sv, c, d) /\ sv.sessions[d].user # but =>
     sv.sessions[d].user \in sv.sessions[c].inchat

KnowsOnlyChannel(sv) ==
  \A c \in ToSet(sv.list) : sv.sessions[c].user # NoUser /\ sv.sessions[c].canale # 0 =>
     \A u \in sv.sessions[c].inchat \ Unregistered :
       \E d \in ToSet(sv.list) : InSame(sv, c, d) /\ sv.sessions[d].user = u

\* All this, but for what others know of one user.
Social(sv, t, but) ==
  /\ TwoInPass(sv, t)
  /\ TakenOverBy(sv, but)
  /\ NothingTold(sv)
  /\ KnowsWhoIsIn(sv, but)
  /\ ~ may("WRITE_ERROR") => KnowsNobodyElse(sv)
  /\ KnowsChannel(sv, but)
  /\ {"WRITE_ERROR", "TAKEOVER"} \cap commands = {} => KnowsOnlyChannel(sv)

SocialInv == Social(server, turn, NoUser)

-----------------------------------------------------------------------------
(***************************************************************************)
(* Clocks.                                                                 *)
(***************************************************************************)
\* How long a session may have been idle at the end of a pass.
Limit == Max({IdleWarning, IdleLogout, MaxIdle})

\* With each warning that was given a minute more.
ClockInv ==
  /\ \A c \in Conns :
       LET s == Session(c)
       IN  s.stato \notin {"LOCK", "CHIUSA"} =>
             s.idle <= Limit + s.warning + (IF phase = "COMMANDS" THEN 1 ELSE 0)
  /\ ~ may("IDLE") => \A c \in Conns : Session(c).idle = 0

IInv == BaseInv /\ TextInv /\ SocialInv /\ ClockInv
-----------------------------------------------------------------------------
(***************************************************************************)
(* Loops.                                                                  *)
(***************************************************************************)
\* A set of natural numbers has a least one.
LEMMA LeastOf ==
  ASSUME NEW S \in SUBSET Nat, S # {}
  PROVE  Min(S) \in S /\ \A n \in S : Min(S) <= n
  <1>1. S \subseteq Nat
    OBVIOUS
  <1>2. PICK m \in S : \A n \in S : <<n, m>> \notin OpToRel(<, Nat)
    BY <1>1, NatLessThanWellFounded, WFMin, ZenonT(30)
  <1>3. \A n \in S : ~ (n < m)
    BY <1>2 DEF OpToRel
  <1>4. \A n \in S : m <= n
    BY <1>3
  <1>5. QED
    BY <1>4 DEF Min

\* What holds before a loop and is kept by each of its N steps holds after it.
LEMMA LoopInduction ==
  ASSUME NEW N \in Nat, NEW P, 0 \in P, \A i \in 1 .. N : i - 1 \in P => i \in P
  PROVE  \A i \in 0 .. N : i \in P
  <1> DEFINE S == { i \in 0 .. N : i \notin P }
  <1>1. SUFFICES ASSUME S # {} PROVE FALSE
    OBVIOUS
  <1>2. S \in SUBSET Nat
    OBVIOUS
  <1> HIDE DEF S
  <1>3. PICK m \in S : \A n \in S : m <= n
    BY <1>1, <1>2, LeastOf
  <1> USE DEF S
  <1>4. m \in 1 .. N /\ m - 1 \in 0 .. N /\ m - 1 \notin S
    BY <1>3
  <1>5. QED
    BY <1>4

-----------------------------------------------------------------------------
(***************************************************************************)
(* Passes over the list: one step for each session, from the newest.       *)
(***************************************************************************)
Step(kind, which, v, c) ==
  CASE kind = "CLOSE" -> IF c \in which THEN Closed(v, c) ELSE v
    [] kind = "DROP"  -> IF c \in which THEN Closed(ToldOfLogout(v, c), c) ELSE v
    [] kind = "CUSR"  -> IF v.sessions[c].user = which THEN ThrownOut(v, c) ELSE v
    [] kind = "IDLE"  -> Idled(v, c)
    [] kind = "CHAT"  -> ChatIdled(v, c)

\* What FoldLeft gives for the subsets of the places 1 .. n of a list.
Folds(d, n, list, sv, kind, which) ==
  d = [s \in SUBSET (1 .. n) |->
         IF s = {} THEN sv
         ELSE Step(kind, which, d[s \ {Max(s)}], list[Max(s)])]

\* The server after each step of a pass.
Steps(g, list, sv, kind, which) ==
  /\ g[0] = sv
  /\ \A k \in 1 .. Len(list) : g[k] = Step(kind, which, g[k - 1], list[k])

LEMMA MaxOf ==
  ASSUME NEW n \in Nat, NEW s \in SUBSET (1 .. n), n \in s
  PROVE  Max(s) = n
  <1>1. \A x \in s : x \in Int /\ n >= x
    OBVIOUS
  <1>2. Max(s) \in s /\ \A y \in s : Max(s) >= y
    BY <1>1 DEF Max
  <1>3. Max(s) >= n /\ n >= Max(s) /\ Max(s) \in Int
    BY <1>1, <1>2
  <1>4. QED
    BY <1>3

LEMMA FoldsExist ==
  ASSUME NEW n \in Nat, NEW list, NEW sv, NEW kind, NEW which
  PROVE  \E d : Folds(d, n, list, sv, kind, which)
  <1> DEFINE P == { k \in 0 .. n : \E d : Folds(d, k, list, sv, kind, which) }
  <1>1. 0 \in P
    <2> DEFINE d == [s \in SUBSET (1 .. 0) |-> sv]
    <2>1. Folds(d, 0, list, sv, kind, which)
      BY DEF Folds
    <2> HIDE DEF d
    <2>2. QED
      BY <2>1
  <1>2. ASSUME NEW k \in 1 .. n, k - 1 \in P
        PROVE  k \in P
    <2>1. PICK d : Folds(d, k - 1, list, sv, kind, which)
      BY <1>2
    <2> DEFINE e == [s \in SUBSET (1 .. k) |->
                       IF k \in s THEN Step(kind, which, d[s \ {k}], list[k]) ELSE d[s]]
    <2>2. ASSUME NEW s \in SUBSET (1 .. k)
          PROVE  e[s] = IF s = {} THEN sv
                        ELSE Step(kind, which, e[s \ {Max(s)}], list[Max(s)])
      <3>1. CASE k \in s
        <4>1. Max(s) = k
          BY <3>1, MaxOf
        <4>2. s \ {k} \in SUBSET (1 .. k) /\ k \notin s \ {k}
          OBVIOUS
        <4>3. e[s \ {k}] = d[s \ {k}]
          BY <4>2
        <4>4. QED
          BY <3>1, <4>1, <4>3
      <3>2. CASE k \notin s
        <4>1. s \in SUBSET (1 .. (k - 1))
          BY <3>2
        <4>2. d[s] = IF s = {} THEN sv
                     ELSE Step(kind, which, d[s \ {Max(s)}], list[Max(s)])
          BY <2>1, <4>1 DEF Folds
        <4>3. s \ {Max(s)} \in SUBSET (1 .. k) /\ k \notin s \ {Max(s)}
          BY <3>2
        <4>4. e[s \ {Max(s)}] = d[s \ {Max(s)}]
          BY <4>3
        <4>5. QED
          BY <3>2, <4>2, <4>4
      <3>3. QED
        BY <3>1, <3>2
    <2> HIDE DEF e
    <2>3. Folds(e, k, list, sv, kind, which)
      <3>1. e = [s \in SUBSET (1 .. k) |-> e[s]]
        BY DEF e
      <3>2. QED
        BY <2>2, <3>1 DEF Folds
    <2>4. QED
      BY <2>3
  <1> HIDE DEF P
  <1>3. \A k \in 0 .. n : k \in P
    BY <1>1, <1>2, LoopInduction
  <1>4. n \in P
    BY <1>3
  <1>5. QED
    BY <1>4 DEF P

LEMMA FoldSteps ==
  ASSUME NEW n \in Nat, NEW list, n = Len(list), NEW sv, NEW kind, NEW which,
         NEW d, Folds(d, n, list, sv, kind, which), NEW r, r = d[1 .. n]
  PROVE  \E g : Steps(g, list, sv, kind, which) /\ r = g[Len(list)]
  <1> DEFINE g == [k \in 0 .. n |-> d[1 .. k]]
  <1>1. ASSUME NEW k \in 1 .. n
        PROVE  d[1 .. k] = Step(kind, which, d[1 .. (k - 1)], list[k])
    <2>1. 1 .. k \in SUBSET (1 .. n) /\ k \in 1 .. k /\ (1 .. k) \ {k} = 1 .. (k - 1)
      OBVIOUS
    <2>2. Max(1 .. k) = k
      BY <2>1, MaxOf
    <2>3. QED
      BY <2>1, <2>2 DEF Folds
  <1>2. d[1 .. 0] = sv
    BY DEF Folds
  <1>3. Steps(g, list, sv, kind, which) /\ r = g[n]
    BY <1>1, <1>2 DEF Steps
  <1> HIDE DEF g
  <1>4. QED
    BY <1>3

\* A pass steps through the list.
LEMMA ClosedStepwise ==
  ASSUME NEW sv, sv.list \in Seq(Conns), NEW which
  PROVE  \E g : /\ Steps(g, sv.list, sv, "CLOSE", which)
                /\ AllClosed(sv, which) = g[Len(sv.list)]
  <1> DEFINE list == sv.list
             n == Len(list)
             d == CHOOSE e : Folds(e, n, list, sv, "CLOSE", which)
  <1>1. n \in Nat /\ DOMAIN list = 1 .. n
    OBVIOUS
  <1>2. Folds(d, n, list, sv, "CLOSE", which)
    BY <1>1, FoldsExist
  <1>3. AllClosed(sv, which) = d[1 .. n]
    BY <1>1 DEF AllClosed, FoldLeft, MapThenFoldSet, Folds, Step
  <1> HIDE DEF d
  <1>4. QED
    BY <1>1, <1>2, <1>3, FoldSteps

LEMMA DroppedStepwise ==
  ASSUME NEW sv, sv.list \in Seq(Conns), NEW which
  PROVE  \E g : /\ Steps(g, sv.list, sv, "DROP", which)
                /\ AllDropped(sv, which) = g[Len(sv.list)]
  <1> DEFINE list == sv.list
             n == Len(list)
             d == CHOOSE e : Folds(e, n, list, sv, "DROP", which)
  <1>1. n \in Nat /\ DOMAIN list = 1 .. n
    OBVIOUS
  <1>2. Folds(d, n, list, sv, "DROP", which)
    BY <1>1, FoldsExist
  <1>3. AllDropped(sv, which) = d[1 .. n]
    BY <1>1 DEF AllDropped, FoldLeft, MapThenFoldSet, Folds, Step
  <1> HIDE DEF d
  <1>4. QED
    BY <1>1, <1>2, <1>3, FoldSteps

LEMMA ThrownOutStepwise ==
  ASSUME NEW sv, sv.list \in Seq(Conns), NEW u
  PROVE  \E g : /\ Steps(g, sv.list, sv, "CUSR", u)
                /\ AllThrownOut(sv, u) = g[Len(sv.list)]
  <1> DEFINE list == sv.list
             n == Len(list)
             d == CHOOSE e : Folds(e, n, list, sv, "CUSR", u)
  <1>1. n \in Nat /\ DOMAIN list = 1 .. n
    OBVIOUS
  <1>2. Folds(d, n, list, sv, "CUSR", u)
    BY <1>1, FoldsExist
  <1>3. AllThrownOut(sv, u) = d[1 .. n]
    BY <1>1 DEF AllThrownOut, FoldLeft, MapThenFoldSet, Folds, Step
  <1> HIDE DEF d
  <1>4. QED
    BY <1>1, <1>2, <1>3, FoldSteps

LEMMA IdledStepwise ==
  ASSUME NEW sv, sv.list \in Seq(Conns)
  PROVE  \E g : /\ Steps(g, sv.list, sv, "IDLE", {})
                /\ FoldLeft(Idled, sv, sv.list) = g[Len(sv.list)]
  <1> DEFINE list == sv.list
             n == Len(list)
             d == CHOOSE e : Folds(e, n, list, sv, "IDLE", {})
  <1>1. n \in Nat /\ DOMAIN list = 1 .. n
    OBVIOUS
  <1>2. Folds(d, n, list, sv, "IDLE", {})
    BY <1>1, FoldsExist
  <1>3. FoldLeft(Idled, sv, list) = d[1 .. n]
    BY <1>1 DEF FoldLeft, MapThenFoldSet, Folds, Step
  <1> HIDE DEF d
  <1>4. QED
    BY <1>1, <1>2, <1>3, FoldSteps

LEMMA ChatIdledStepwise ==
  ASSUME NEW sv, sv.list \in Seq(Conns)
  PROVE  \E g : /\ Steps(g, sv.list, sv, "CHAT", {})
                /\ FoldLeft(ChatIdled, sv, sv.list) = g[Len(sv.list)]
  <1> DEFINE list == sv.list
             n == Len(list)
             d == CHOOSE e : Folds(e, n, list, sv, "CHAT", {})
  <1>1. n \in Nat /\ DOMAIN list = 1 .. n
    OBVIOUS
  <1>2. Folds(d, n, list, sv, "CHAT", {})
    BY <1>1, FoldsExist
  <1>3. FoldLeft(ChatIdled, sv, list) = d[1 .. n]
    BY <1>1 DEF FoldLeft, MapThenFoldSet, Folds, Step
  <1> HIDE DEF d
  <1>4. QED
    BY <1>1, <1>2, <1>3, FoldSteps

\* What holds before a pass and is kept by its steps holds after it.
LEMMA StepsKeep ==
  ASSUME NEW g, NEW list \in Seq(Conns), NEW sv, NEW kind, NEW which,
         Steps(g, list, sv, kind, which),
         NEW Good, sv \in Good,
         \A v \in Good : \A c \in ToSet(list) : Step(kind, which, v, c) \in Good
  PROVE  g[Len(list)] \in Good
  <1> DEFINE P == { k \in 0 .. Len(list) : g[k] \in Good }
  <1>1. Len(list) \in Nat /\ \A k \in 1 .. Len(list) : list[k] \in ToSet(list)
    BY DEF ToSet
  <1>2. 0 \in P
    BY <1>1 DEF Steps
  <1>3. ASSUME NEW k \in 1 .. Len(list), k - 1 \in P
        PROVE  k \in P
    BY <1>1, <1>3 DEF Steps
  <1> HIDE DEF P
  <1>4. \A k \in 0 .. Len(list) : k \in P
    BY <1>1, <1>2, <1>3, LoopInduction
  <1>5. Len(list) \in P
    BY <1>1, <1>4
  <1>6. QED
    BY <1>5 DEF P

-----------------------------------------------------------------------------
(***************************************************************************)
(* The list of sessions.                                                   *)
(***************************************************************************)
\* A connection that is on the list once is taken off it.
LEMMA RemovedOnce ==
  ASSUME NEW S, NEW s \in Seq(S), IsInjective(s), NEW c
  PROVE  /\ RemoveFirst(s, c) \in Seq(S)
         /\ IsInjective(RemoveFirst(s, c))
         /\ ToSet(RemoveFirst(s, c)) = ToSet(s) \ {c}
  <1>1. CASE ~ \E i \in 1 .. Len(s) : s[i] = c
    <2>1. RemoveFirst(s, c) = s
      BY <1>1 DEF RemoveFirst
    <2>2. c \notin ToSet(s)
      BY <1>1 DEF ToSet
    <2>3. QED
      BY <2>1, <2>2
  <1>2. CASE \E i \in 1 .. Len(s) : s[i] = c
    <2> DEFINE I == { i \in 1 .. Len(s) : s[i] = c }
               t == RemoveFirst(s, c)
    <2>1. PICK i : i = Min(I)
      OBVIOUS
    <2>2. i \in 1 .. Len(s) /\ s[i] = c /\ Len(s) \in Nat
      <3>1. I \in SUBSET Nat /\ I # {}
        BY <1>2
      <3> HIDE DEF I
      <3>2. i \in I
        BY <2>1, <3>1, LeastOf
      <3>3. QED
        BY <3>2 DEF I
    <2>3. t = SubSeq(s, 1, i - 1) \o SubSeq(s, i + 1, Len(s))
      BY <1>2, <2>1 DEF RemoveFirst, RemoveAt, SelectInSeq
    <2>4. PICK a, b : a = SubSeq(s, 1, i - 1) /\ b = SubSeq(s, i + 1, Len(s))
      OBVIOUS
    <2>5. /\ a \in Seq(S) /\ Len(a) = i - 1
          /\ \A j \in 1 .. (i - 1) : a[j] = s[j]
      <3>1. i - 1 \in 0 .. Len(s) /\ i - 1 \in Int /\ 1 \in Int
        BY <2>2
      <3>2. a \in Seq(S) /\ Len(a) = i - 1
        BY <2>2, <2>4, <3>1
      <3>3. \A j \in 1 .. (i - 1) : a[j] = s[j]
        BY <2>2, <2>4, <3>1
      <3>4. QED
        BY <3>2, <3>3
    <2>6. /\ b \in Seq(S) /\ Len(b) = Len(s) - i
          /\ \A j \in 1 .. (Len(s) - i) : b[j] = s[i + j]
      BY <2>2, <2>4
    <2>7. t = a \o b
      BY <2>3, <2>4
    <2> HIDE DEF t
    <2>8. /\ t \in Seq(S) /\ Len(t) = Len(s) - 1
          /\ \A j \in 1 .. (Len(s) - 1) : t[j] = IF j < i THEN s[j] ELSE s[j + 1]
      <3>1. t \in Seq(S) /\ Len(t) = Len(s) - 1
        BY <2>2, <2>5, <2>6, <2>7
      <3>2. ASSUME NEW j \in 1 .. (Len(s) - 1)
            PROVE  t[j] = IF j < i THEN s[j] ELSE s[j + 1]
        <4>1. CASE j < i
          BY <2>2, <2>5, <2>6, <2>7, <4>1
        <4>2. CASE ~ (j < i)
          <5>1. t[j] = b[j - (i - 1)]
            BY <2>2, <2>5, <2>6, <2>7, <4>2
          <5>2. j - (i - 1) \in 1 .. (Len(s) - i)
            BY <2>2, <4>2
          <5>3. b[j - (i - 1)] = s[i + (j - (i - 1))] /\ i + (j - (i - 1)) = j + 1
            BY <2>2, <2>6, <5>2
          <5>4. QED
            BY <4>2, <5>1, <5>3
        <4>3. QED
          BY <4>1, <4>2
      <3>3. QED
        BY <3>1, <3>2
    <2>9. \A j, k \in 1 .. Len(s) : s[j] = s[k] => j = k
      BY DEF IsInjective
    <2>10. IsInjective(t)
      <3>1. ASSUME NEW j \in 1 .. (Len(s) - 1), NEW k \in 1 .. (Len(s) - 1), t[j] = t[k]
            PROVE  j = k
        BY <2>2, <2>8, <2>9, <3>1
      <3>2. DOMAIN t = 1 .. (Len(s) - 1)
        BY <2>2, <2>8
      <3>3. QED
        BY <3>1, <3>2 DEF IsInjective
    <2>11. ToSet(t) = ToSet(s) \ {c}
      <3>1. DOMAIN t = 1 .. (Len(s) - 1) /\ DOMAIN s = 1 .. Len(s)
        BY <2>2, <2>8
      <3>2. ASSUME NEW j \in DOMAIN t
            PROVE  t[j] \in ToSet(s) \ {c}
        <4>1. PICK k \in 1 .. Len(s) : k # i /\ t[j] = s[k]
          BY <2>2, <2>8, <3>1
        <4>2. s[k] # s[i]
          BY <2>2, <2>9, <4>1
        <4>3. QED
          BY <2>2, <3>1, <4>1, <4>2 DEF ToSet
      <3>3. ASSUME NEW k \in DOMAIN s, s[k] # c
            PROVE  s[k] \in ToSet(t)
        <4>1. k # i
          BY <2>2, <3>3
        <4>2. PICK j \in 1 .. (Len(s) - 1) : t[j] = s[k]
          <5>1. CASE k < i
            <6>1. k \in 1 .. (Len(s) - 1) /\ t[k] = s[k]
              BY <2>2, <2>8, <3>1, <5>1
            <6>2. QED
              BY <6>1
          <5>2. CASE ~ (k < i)
            <6>1. k - 1 \in 1 .. (Len(s) - 1) /\ t[k - 1] = s[k]
              BY <2>2, <2>8, <3>1, <4>1, <5>2
            <6>2. QED
              BY <6>1
          <5>3. QED
            BY <5>1, <5>2
        <4>3. QED
          BY <3>1, <4>2 DEF ToSet
      <3>4. QED
        BY <3>2, <3>3 DEF ToSet
    <2>12. QED
      BY <2>8, <2>10, <2>11 DEF t
  <1>3. QED
    BY <1>1, <1>2

\* A connection that is not on the list is put in front of it.
LEMMA PutInFront ==
  ASSUME NEW S, NEW s \in Seq(S), IsInjective(s), NEW c \in S, c \notin ToSet(s)
  PROVE  /\ << c >> \o s \in Seq(S)
         /\ IsInjective(<< c >> \o s)
         /\ ToSet(<< c >> \o s) = ToSet(s) \cup {c}
  <1>1. PICK t : t = << c >> \o s
    OBVIOUS
  <1>2. Len(s) \in Nat /\ DOMAIN s = 1 .. Len(s)
    OBVIOUS
  <1>3. /\ t \in Seq(S) /\ DOMAIN t = 1 .. (Len(s) + 1) /\ t[1] = c
        /\ \A j \in 1 .. Len(s) : t[j + 1] = s[j]
    BY <1>1, <1>2
  <1>4. \A j \in 1 .. (Len(s) + 1) : j # 1 => j - 1 \in 1 .. Len(s) /\ t[j] = s[j - 1]
    <2>1. ASSUME NEW j \in 1 .. (Len(s) + 1), j # 1
          PROVE  j - 1 \in 1 .. Len(s) /\ t[j] = s[j - 1]
      <3>1. j - 1 \in 1 .. Len(s) /\ (j - 1) + 1 = j
        BY <1>2, <2>1
      <3>2. QED
        BY <1>3, <3>1
    <2>2. QED
      BY <2>1
  <1>5. IsInjective(t)
    <2>1. \A j, k \in 1 .. Len(s) : s[j] = s[k] => j = k
      BY DEF IsInjective
    <2>2. \A j \in 1 .. Len(s) : s[j] # c
      BY <1>2 DEF ToSet
    <2>3. ASSUME NEW j \in 1 .. (Len(s) + 1), NEW k \in 1 .. (Len(s) + 1), t[j] = t[k]
          PROVE  j = k
      BY <1>2, <1>3, <1>4, <2>1, <2>2, <2>3
    <2>4. QED
      BY <1>3, <2>3 DEF IsInjective
  <1>6. ToSet(t) = ToSet(s) \cup {c}
    <2>1. \A j \in DOMAIN t : t[j] \in ToSet(s) \cup {c}
      BY <1>2, <1>3, <1>4 DEF ToSet
    <2>2. \A j \in DOMAIN s : s[j] \in ToSet(t)
      <3>1. ASSUME NEW j \in DOMAIN s
            PROVE  s[j] \in ToSet(t)
        <4>1. j + 1 \in DOMAIN t /\ t[j + 1] = s[j]
          BY <1>2, <1>3
        <4>2. QED
          BY <4>1 DEF ToSet
      <3>2. QED
        BY <3>1
    <2>3. c \in ToSet(t)
      <3>1. 1 \in DOMAIN t /\ t[1] = c
        BY <1>2, <1>3
      <3>2. QED
        BY <3>1 DEF ToSet
    <2>4. QED
      BY <2>1, <2>2, <2>3 DEF ToSet
  <1>7. QED
    BY <1>1, <1>3, <1>5, <1>6

\* What is looked for in the list is found.
LEMMA NewestFound ==
  ASSUME NEW sv, sv.list \in Seq(Conns), NEW S \in SUBSET ToSet(sv.list)
  PROVE  /\ S = {} => Newest(sv, S) = NoConn
         /\ S # {} => Newest(sv, S) \in S
  <1> DEFINE I == { i \in 1 .. Len(sv.list) : sv.list[i] \in S }
  <1>1. DOMAIN sv.list = 1 .. Len(sv.list) /\ Len(sv.list) \in Nat
    OBVIOUS
  <1>2. Newest(sv, S) = LET k == IF I # {} THEN Min(I) ELSE 0
                        IN  IF k = 0 THEN NoConn ELSE sv.list[k]
    BY DEF Newest, SelectInSeq
  <1>3. CASE S = {}
    <2>1. I = {}
      BY <1>3
    <2>2. QED
      BY <1>2, <1>3, <2>1
  <1>4. CASE S # {}
    <2>1. I # {} /\ I \in SUBSET Nat
      BY <1>1, <1>4 DEF ToSet
    <2>2. Min(I) \in I
      <3> HIDE DEF I
      <3>1. QED
        BY <2>1, LeastOf
    <2>3. Min(I) # 0 /\ sv.list[Min(I)] \in S
      BY <1>1, <2>2
    <2>4. QED
      BY <1>2, <1>4, <2>1, <2>3
  <1>5. QED
    BY <1>3, <1>4

-----------------------------------------------------------------------------
(***************************************************************************)
(* Operations on the server.                                               *)
(***************************************************************************)
LEMMA FreshOK == Fresh \in SessionSet /\ SessionOK(Fresh)
  BY NumbersAssumption DEF Fresh, SessionSet, SessionOK, Kinds

\* Of whom clients hear that he leaves.
Announced(u) == {u} \ Unregistered

LEMMA Parts ==
  ASSUME NEW sv, ServerOK(sv)
  PROVE  /\ sv \in Servers
         /\ sv = [list |-> sv.list, sessions |-> sv.sessions]
         /\ sv.list \in Seq(Conns) /\ IsInjective(sv.list)
         /\ ToSet(sv.list) \subseteq Conns
         /\ sv.sessions \in [Conns -> SessionSet]
         /\ \A c \in Conns : sv.sessions[c] \in SessionSet /\ SessionOK(sv.sessions[c])
         /\ \A c \in Conns \ ToSet(sv.list) : sv.sessions[c] = Fresh
  <1>1. /\ sv = [list |-> sv.list, sessions |-> sv.sessions]
        /\ sv.list \in Seq(Conns) /\ sv.sessions \in [Conns -> SessionSet]
    BY DEF ServerOK, Servers
  <1>2. ToSet(sv.list) \subseteq Conns
    BY <1>1 DEF ToSet
  <1>3. QED
    BY <1>1, <1>2 DEF ServerOK

\* The fields other than what the client was told of others.
Alike(s, t) ==
  /\ s.user = t.user /\ s.stato = t.stato /\ s.logged = t.logged
  /\ s.cancella = t.cancella /\ s.rcpt = t.rcpt /\ s.text = t.text
  /\ s.canale = t.canale /\ s.chat = t.chat /\ s.idle = t.idle
  /\ s.warning = t.warning /\ s.quiet = t.quiet /\ s.warned = t.warned

LEMMA AnnouncedIs == \A u, w : w \in Announced(u) <=> w = u /\ u \notin Unregistered
  BY DEF Announced

LEMMA AlikeOK ==
  ASSUME NEW s, NEW t, SessionOK(t), Alike(s, t)
  PROVE  SessionOK(s)
  BY DEF SessionOK, Alike

\* What is taken out of `leaving' is of no more concern.
LEMMA LeavingIs ==
  ASSUME NEW s \in SessionSet, NEW u, NEW list
  PROVE  s.leaving \ {<< list, u >>} \in SUBSET Heard
  BY DEF SessionSet

LEMMA ToldInIs ==
  ASSUME NEW s \in SessionSet, NEW u \in Users
  PROVE  /\ ToldIn(s, u) \in SessionSet /\ Alike(ToldIn(s, u), s)
         /\ ToldIn(s, u).present = s.present \cup {u}
         /\ ToldIn(s, u).inchat = s.inchat
  <1>1. PICK p, l : p = s.present \cup {u} /\ l = s.leaving \ {<< "HWHO", u >>}
    OBVIOUS
  <1>2. ToldIn(s, u) = [s EXCEPT !.present = p, !.leaving = l]
    BY <1>1, Zenon DEF ToldIn
  <1>3. PICK t : t = [s EXCEPT !.present = p, !.leaving = l]
    OBVIOUS
  <1>4. p \in SUBSET Users /\ l \in SUBSET Heard
    BY <1>1, LeavingIs DEF SessionSet
  <1>5. t \in SessionSet /\ t.present = p /\ t.inchat = s.inchat
    BY <1>3, <1>4 DEF SessionSet
  <1>6. Alike(t, s)
    BY <1>3 DEF SessionSet, Alike
  <1>7. QED
    BY <1>1, <1>2, <1>3, <1>5, <1>6

LEMMA ToldGoneIs ==
  ASSUME NEW s \in SessionSet, NEW u
  PROVE  /\ ToldGone(s, u) \in SessionSet /\ Alike(ToldGone(s, u), s)
         /\ ToldGone(s, u).present = s.present \ {u}
         /\ ToldGone(s, u).inchat = s.inchat \ {u}
  <1>1. PICK p, i, l : /\ p = s.present \ {u} /\ i = s.inchat \ {u}
                       /\ l = s.leaving \ {<< "HWHO", u >>, << "CWHO", u >>}
    OBVIOUS
  <1>2. ToldGone(s, u) = [s EXCEPT !.present = p, !.inchat = i, !.leaving = l]
    BY <1>1, Zenon DEF ToldGone
  <1>3. PICK t : t = [s EXCEPT !.present = p, !.inchat = i, !.leaving = l]
    OBVIOUS
  <1>4. p \in SUBSET Users /\ i \in SUBSET Users /\ l \in SUBSET Heard
    BY <1>1 DEF SessionSet
  <1>5. t \in SessionSet /\ t.present = p /\ t.inchat = i
    BY <1>3, <1>4 DEF SessionSet
  <1>6. Alike(t, s)
    BY <1>3 DEF SessionSet, Alike
  <1>7. QED
    BY <1>1, <1>2, <1>3, <1>5, <1>6

LEMMA ToldEnterIs ==
  ASSUME NEW s \in SessionSet, NEW u \in Users
  PROVE  /\ ToldEnter(s, u) \in SessionSet /\ Alike(ToldEnter(s, u), s)
         /\ ToldEnter(s, u).present = s.present
         /\ ToldEnter(s, u).inchat = s.inchat \cup {u}
  <1>1. PICK i, l : i = s.inchat \cup {u} /\ l = s.leaving \ {<< "CWHO", u >>}
    OBVIOUS
  <1>2. ToldEnter(s, u) = [s EXCEPT !.inchat = i, !.leaving = l]
    BY <1>1, Zenon DEF ToldEnter
  <1>3. PICK t : t = [s EXCEPT !.inchat = i, !.leaving = l]
    OBVIOUS
  <1>4. i \in SUBSET Users /\ l \in SUBSET Heard
    BY <1>1, LeavingIs DEF SessionSet
  <1>5. t \in SessionSet /\ t.present = s.present /\ t.inchat = i
    BY <1>3, <1>4 DEF SessionSet
  <1>6. Alike(t, s)
    BY <1>3 DEF SessionSet, Alike
  <1>7. QED
    BY <1>1, <1>2, <1>3, <1>5, <1>6

LEMMA ToldExitIs ==
  ASSUME NEW s \in SessionSet, NEW u
  PROVE  /\ ToldExit(s, u) \in SessionSet /\ Alike(ToldExit(s, u), s)
         /\ ToldExit(s, u).present = s.present
         /\ ToldExit(s, u).inchat = s.inchat \ {u}
  <1>1. PICK i, l : i = s.inchat \ {u} /\ l = s.leaving \ {<< "CWHO", u >>}
    OBVIOUS
  <1>2. ToldExit(s, u) = [s EXCEPT !.inchat = i, !.leaving = l]
    BY <1>1, Zenon DEF ToldExit
  <1>3. PICK t : t = [s EXCEPT !.inchat = i, !.leaving = l]
    OBVIOUS
  <1>4. i \in SUBSET Users /\ l \in SUBSET Heard
    BY <1>1, LeavingIs DEF SessionSet
  <1>5. t \in SessionSet /\ t.present = s.present /\ t.inchat = i
    BY <1>3, <1>4 DEF SessionSet
  <1>6. Alike(t, s)
    BY <1>3 DEF SessionSet, Alike
  <1>7. QED
    BY <1>1, <1>2, <1>3, <1>5, <1>6

\* One session is changed.
LEMMA WithIs ==
  ASSUME NEW sv, ServerOK(sv), NEW c \in ToSet(sv.list), NEW s \in SessionSet, SessionOK(s)
  PROVE  /\ ServerOK(With(sv, c, s))
         /\ With(sv, c, s).list = sv.list
         /\ With(sv, c, s).sessions[c] = s
         /\ \A d \in Conns : d # c => With(sv, c, s).sessions[d] = sv.sessions[d]
  <1>1. PICK f : f = [sv.sessions EXCEPT ![c] = s]
    OBVIOUS
  <1>2. /\ f \in [Conns -> SessionSet] /\ f[c] = s
        /\ \A d \in Conns : d # c => f[d] = sv.sessions[d]
    BY <1>1, Parts
  <1>3. PICK r : r = [list |-> sv.list, sessions |-> f]
    OBVIOUS
  <1>4. With(sv, c, s) = r
    BY <1>1, <1>3, Parts DEF With
  <1>5. r \in Servers /\ r.list = sv.list /\ r.sessions = f
    BY <1>2, <1>3, Parts DEF Servers
  <1>6. \A d \in Conns : SessionOK(f[d])
    BY <1>2, Parts
  <1>7. \A d \in Conns \ ToSet(sv.list) : f[d] = Fresh
    BY <1>2, Parts
  <1>8. ServerOK(r)
    BY <1>5, <1>6, <1>7, Parts DEF ServerOK
  <1>9. QED
    BY <1>2, <1>4, <1>5, <1>8

\* What the clients were told is changed.
LEMMA ToldIs ==
  ASSUME NEW sv, ServerOK(sv), NEW f \in [Conns -> SessionSet],
         \A d \in Conns : /\ Alike(f[d], sv.sessions[d])
                          /\ d \notin ToSet(sv.list) => f[d] = sv.sessions[d],
         NEW r, r = [sv EXCEPT !.sessions = f]
  PROVE  /\ ServerOK(r) /\ r.list = sv.list /\ r.sessions = f
         /\ \A d \in Conns : Alike(r.sessions[d], sv.sessions[d])
  <1>1. r = [list |-> sv.list, sessions |-> f]
    BY Parts
  <1>3. r \in Servers
    BY <1>1, Parts DEF Servers
  <1>4. \A d \in Conns : SessionOK(f[d])
    BY Parts, AlikeOK
  <1>5. \A d \in Conns \ ToSet(sv.list) : f[d] = Fresh
    BY Parts
  <1>6. QED
    BY <1>1, <1>3, <1>4, <1>5, Parts DEF ServerOK

LEMMA ToldOfLoginIs ==
  ASSUME NEW sv, ServerOK(sv), NEW c \in Conns, sv.sessions[c].user \in Users,
         NEW r, r = ToldOfLogin(sv, c)
  PROVE  /\ ServerOK(r) /\ r.list = sv.list /\ r.sessions[c] = sv.sessions[c]
         /\ \A d \in Conns : Alike(r.sessions[d], sv.sessions[d])
         /\ \A d \in Conns : r.sessions[d].inchat = sv.sessions[d].inchat
         /\ \A d \in Conns : sv.sessions[d].user = NoUser => r.sessions[d] = sv.sessions[d]
         /\ \A d \in Conns : d # c /\ sv.sessions[d].user # NoUser =>
              r.sessions[d].present = sv.sessions[d].present \cup {sv.sessions[c].user}
  <1>1. PICK u : u = sv.sessions[c].user
    OBVIOUS
  <1>2. PICK old : old = sv.sessions
    OBVIOUS
  <1>3. PICK f : f = [d \in Conns |-> IF d # c /\ old[d].user # NoUser
                        THEN ToldIn(old[d], u) ELSE old[d]]
    OBVIOUS
  <1>5. \A d \in Conns :
          /\ f[d] \in SessionSet /\ Alike(f[d], old[d])
          /\ d \notin ToSet(sv.list) => f[d] = old[d]
          /\ d = c \/ old[d].user = NoUser => f[d] = old[d]
          /\ f[d].inchat = old[d].inchat
          /\ d # c /\ old[d].user # NoUser => f[d].present = old[d].present \cup {u}
    <2>1. ASSUME NEW d \in Conns
          PROVE  /\ f[d] \in SessionSet /\ Alike(f[d], old[d])
                 /\ d = c \/ old[d].user = NoUser => f[d] = old[d]
                 /\ f[d].inchat = old[d].inchat
                 /\ d # c /\ old[d].user # NoUser => f[d].present = old[d].present \cup {u}
      <3>1. old[d] \in SessionSet /\ u \in Users
        BY <1>1, <1>2, Parts
      <3>2. Alike(old[d], old[d])
        BY DEF Alike
      <3>3. QED
        BY <1>3, <3>1, <3>2, ToldInIs
    <2>2. ASSUME NEW d \in Conns, d \notin ToSet(sv.list)
          PROVE  f[d] = old[d]
      <3>1. old[d].user = NoUser
        BY <1>2, <2>2, Parts DEF Fresh
      <3>2. QED
        BY <1>3, <3>1
    <2>3. QED
      BY <2>1, <2>2
  <1>6. r = [sv EXCEPT !.sessions = f]
    BY <1>1, <1>2, <1>3 DEF ToldOfLogin
  <1>4. f \in [Conns -> SessionSet]
    <2>1. \A d \in Conns : f[d] \in SessionSet
      BY <1>5
    <2>2. QED
      BY <1>3, <2>1
  <1>7. \A d \in Conns : /\ Alike(f[d], sv.sessions[d])
                         /\ d \notin ToSet(sv.list) => f[d] = sv.sessions[d]
    BY <1>2, <1>5
  <1>8. ServerOK(r) /\ r.list = sv.list /\ r.sessions = f
    BY <1>4, <1>6, <1>7, ToldIs
  <1>9. QED
    BY <1>1, <1>2, <1>5, <1>8

LEMMA ToldOfLogoutIs ==
  ASSUME NEW sv, ServerOK(sv), NEW c \in Conns, NEW r, r = ToldOfLogout(sv, c)
  PROVE  /\ ServerOK(r) /\ r.list = sv.list /\ r.sessions[c] = sv.sessions[c]
         /\ \A d \in Conns : Alike(r.sessions[d], sv.sessions[d])
         /\ \A d \in Conns : sv.sessions[d].user = NoUser => r.sessions[d] = sv.sessions[d]
         /\ \A d \in Conns : d # c /\ sv.sessions[d].user # NoUser =>
              /\ r.sessions[d].present = sv.sessions[d].present \ Announced(sv.sessions[c].user)
              /\ r.sessions[d].inchat = sv.sessions[d].inchat \ Announced(sv.sessions[c].user)
  <1>1. PICK u : u = sv.sessions[c].user
    OBVIOUS
  <1>2. PICK old : old = sv.sessions
    OBVIOUS
  <1>3. PICK f : f = [d \in Conns |-> IF d # c /\ old[d].user # NoUser /\ u \notin Unregistered
                        THEN ToldGone(old[d], u) ELSE old[d]]
    OBVIOUS
  <1>5. \A d \in Conns :
          /\ f[d] \in SessionSet /\ Alike(f[d], old[d])
          /\ d \notin ToSet(sv.list) => f[d] = old[d]
          /\ d = c \/ old[d].user = NoUser => f[d] = old[d]
          /\ d # c /\ old[d].user # NoUser => /\ f[d].present = old[d].present \ Announced(u)
                                             /\ f[d].inchat = old[d].inchat \ Announced(u)
    <2>1. ASSUME NEW d \in Conns
          PROVE  /\ f[d] \in SessionSet /\ Alike(f[d], old[d])
                 /\ d = c \/ old[d].user = NoUser => f[d] = old[d]
                 /\ d # c /\ old[d].user # NoUser =>
                      /\ f[d].present = old[d].present \ Announced(u)
                      /\ f[d].inchat = old[d].inchat \ Announced(u)
      <3>1. old[d] \in SessionSet
        BY <1>2, Parts
      <3>2. Alike(old[d], old[d])
        BY DEF Alike
      <3>3. Announced(u) = IF u \in Unregistered THEN {} ELSE {u}
        BY DEF Announced
      <3>4. CASE d # c /\ old[d].user # NoUser /\ u \notin Unregistered
        BY <1>3, <3>1, <3>3, <3>4, ToldGoneIs
      <3>5. CASE ~ (d # c /\ old[d].user # NoUser /\ u \notin Unregistered)
        BY <1>3, <3>1, <3>2, <3>3, <3>5
      <3>6. QED
        BY <3>4, <3>5
    <2>2. ASSUME NEW d \in Conns, d \notin ToSet(sv.list)
          PROVE  f[d] = old[d]
      <3>1. old[d].user = NoUser
        BY <1>2, <2>2, Parts DEF Fresh
      <3>2. QED
        BY <1>3, <3>1
    <2>3. QED
      BY <2>1, <2>2
  <1>6. r = [sv EXCEPT !.sessions = f]
    BY <1>1, <1>2, <1>3 DEF ToldOfLogout
  <1>4. f \in [Conns -> SessionSet]
    <2>1. \A d \in Conns : f[d] \in SessionSet
      BY <1>5
    <2>2. QED
      BY <1>3, <2>1
  <1>7. \A d \in Conns : /\ Alike(f[d], sv.sessions[d])
                         /\ d \notin ToSet(sv.list) => f[d] = sv.sessions[d]
    BY <1>2, <1>5
  <1>8. ServerOK(r) /\ r.list = sv.list /\ r.sessions = f
    BY <1>4, <1>6, <1>7, ToldIs
  <1>9. QED
    BY <1>1, <1>2, <1>5, <1>8

LEMMA ToldOfEntryIs ==
  ASSUME NEW sv, ServerOK(sv), NEW c \in Conns, sv.sessions[c].user \in Users,
         NEW canale, NEW r, r = ToldOfEntry(sv, c, canale)
  PROVE  /\ ServerOK(r) /\ r.list = sv.list /\ r.sessions[c] = sv.sessions[c]
         /\ \A d \in Conns : Alike(r.sessions[d], sv.sessions[d])
         /\ \A d \in Conns : r.sessions[d].present = sv.sessions[d].present
         /\ \A d \in Conns \ InChannel(sv, canale, c) :
              r.sessions[d] = sv.sessions[d]
         /\ \A d \in InChannel(sv, canale, c) :
              r.sessions[d].inchat = sv.sessions[d].inchat \cup {sv.sessions[c].user}
  <1>1. PICK u : u = sv.sessions[c].user
    OBVIOUS
  <1>2. PICK old : old = sv.sessions
    OBVIOUS
  <1>3. PICK I : I = InChannel(sv, canale, c)
    OBVIOUS
  <1>4. PICK f : f = [d \in Conns |-> IF d \in I THEN ToldEnter(old[d], u) ELSE old[d]]
    OBVIOUS
  <1>5. I \subseteq ToSet(sv.list) /\ I \subseteq Conns /\ c \notin I
    BY <1>3, Parts DEF InChannel
  <1>6. \A d \in Conns :
          /\ f[d] \in SessionSet /\ Alike(f[d], old[d])
          /\ d \notin I => f[d] = old[d]
          /\ f[d].present = old[d].present
          /\ d \in I => f[d].inchat = old[d].inchat \cup {u}
    <2>1. ASSUME NEW d \in Conns
          PROVE  /\ f[d] \in SessionSet /\ Alike(f[d], old[d])
                 /\ d \notin I => f[d] = old[d]
                 /\ f[d].present = old[d].present
                 /\ d \in I => f[d].inchat = old[d].inchat \cup {u}
      <3>1. old[d] \in SessionSet /\ u \in Users
        BY <1>1, <1>2, Parts
      <3>2. Alike(old[d], old[d])
        BY DEF Alike
      <3>3. QED
        BY <1>4, <3>1, <3>2, ToldEnterIs
    <2>2. QED
      BY <2>1
  <1>7. r = [sv EXCEPT !.sessions = f]
    BY <1>1, <1>2, <1>3, <1>4 DEF ToldOfEntry
  <1>8. f \in [Conns -> SessionSet]
    <2>1. \A d \in Conns : f[d] \in SessionSet
      BY <1>6
    <2>2. QED
      BY <1>4, <2>1
  <1>9. \A d \in Conns : /\ Alike(f[d], sv.sessions[d])
                         /\ d \notin ToSet(sv.list) => f[d] = sv.sessions[d]
    BY <1>2, <1>5, <1>6
  <1>10. ServerOK(r) /\ r.list = sv.list /\ r.sessions = f
    BY <1>7, <1>8, <1>9, ToldIs
  <1>11. QED
    BY <1>1, <1>2, <1>3, <1>5, <1>6, <1>10

LEMMA ToldOfExitIs ==
  ASSUME NEW sv, ServerOK(sv), NEW c \in Conns, NEW r, r = ToldOfExit(sv, c)
  PROVE  /\ ServerOK(r) /\ r.list = sv.list /\ r.sessions[c] = sv.sessions[c]
         /\ \A d \in Conns : Alike(r.sessions[d], sv.sessions[d])
         /\ \A d \in Conns : r.sessions[d].present = sv.sessions[d].present
         /\ \A d \in Conns \ InChannel(sv, sv.sessions[c].canale, c) :
              r.sessions[d] = sv.sessions[d]
         /\ \A d \in InChannel(sv, sv.sessions[c].canale, c) :
              r.sessions[d].inchat = sv.sessions[d].inchat \ {sv.sessions[c].user}
  <1>1. PICK u : u = sv.sessions[c].user
    OBVIOUS
  <1>2. PICK old : old = sv.sessions
    OBVIOUS
  <1>3. PICK I : I = InChannel(sv, sv.sessions[c].canale, c)
    OBVIOUS
  <1>4. PICK f : f = [d \in Conns |-> IF d \in I THEN ToldExit(old[d], u) ELSE old[d]]
    OBVIOUS
  <1>5. I \subseteq ToSet(sv.list) /\ I \subseteq Conns /\ c \notin I
    BY <1>3, Parts DEF InChannel
  <1>6. \A d \in Conns :
          /\ f[d] \in SessionSet /\ Alike(f[d], old[d])
          /\ d \notin I => f[d] = old[d]
          /\ f[d].present = old[d].present
          /\ d \in I => f[d].inchat = old[d].inchat \ {u}
    <2>1. ASSUME NEW d \in Conns
          PROVE  /\ f[d] \in SessionSet /\ Alike(f[d], old[d])
                 /\ d \notin I => f[d] = old[d]
                 /\ f[d].present = old[d].present
                 /\ d \in I => f[d].inchat = old[d].inchat \ {u}
      <3>1. old[d] \in SessionSet
        BY <1>2, Parts
      <3>2. Alike(old[d], old[d])
        BY DEF Alike
      <3>3. QED
        BY <1>4, <3>1, <3>2, ToldExitIs
    <2>2. QED
      BY <2>1
  <1>7. r = [sv EXCEPT !.sessions = f]
    BY <1>1, <1>2, <1>3, <1>4 DEF ToldOfExit
  <1>8. f \in [Conns -> SessionSet]
    <2>1. \A d \in Conns : f[d] \in SessionSet
      BY <1>6
    <2>2. QED
      BY <1>4, <2>1
  <1>9. \A d \in Conns : /\ Alike(f[d], sv.sessions[d])
                         /\ d \notin ToSet(sv.list) => f[d] = sv.sessions[d]
    BY <1>2, <1>5, <1>6
  <1>10. ServerOK(r) /\ r.list = sv.list /\ r.sessions = f
    BY <1>7, <1>8, <1>9, ToldIs
  <1>11. QED
    BY <1>1, <1>2, <1>3, <1>5, <1>6, <1>10

LEMMA LeftIs ==
  ASSUME NEW sv, ServerOK(sv), NEW c \in ToSet(sv.list), NEW r, r = Left(sv, c)
  PROVE  /\ ServerOK(r) /\ r.list = sv.list
         /\ r.sessions[c] = [sv.sessions[c] EXCEPT !.stato = "CHIUSA"]
         /\ \A d \in Conns : d # c =>
              r.sessions[d] = ToldOfLogout(sv, c).sessions[d]
  <1>1. PICK told : told = ToldOfLogout(sv, c)
    OBVIOUS
  <1>2. c \in Conns
    BY Parts
  <1>3. ServerOK(told) /\ told.list = sv.list /\ told.sessions[c] = sv.sessions[c]
    BY <1>1, <1>2, ToldOfLogoutIs
  <1>4. PICK s : s = [sv.sessions[c] EXCEPT !.stato = "CHIUSA"]
    OBVIOUS
  <1>5. s \in SessionSet /\ SessionOK(s)
    <2>1. sv.sessions[c] \in SessionSet /\ SessionOK(sv.sessions[c])
      BY <1>2, Parts
    <2>2. QED
      BY <1>4, <2>1 DEF SessionSet, SessionOK, Kinds
  <1>6. r = With(told, c, s)
    BY <1>1, <1>3, <1>4 DEF Left
  <1>7. QED
    BY <1>1, <1>3, <1>4, <1>5, <1>6, WithIs

\* A session that cmd_cusr ends.
Nobody(s) == [s EXCEPT !.stato = "CHIUSA", !.user = NoUser]

LEMMA ThrownOutIs ==
  ASSUME NEW sv, ServerOK(sv), NEW c \in ToSet(sv.list), NEW r, r = ThrownOut(sv, c)
  PROVE  /\ ServerOK(r) /\ r.list = sv.list
         /\ r.sessions[c] = Nobody(sv.sessions[c])
         /\ \A d \in Conns : d # c =>
              r.sessions[d] = ToldOfLogout(sv, c).sessions[d]
  <1>1. PICK left : left = Left(sv, c)
    OBVIOUS
  <1>2. c \in Conns
    BY Parts
  <1>3. /\ ServerOK(left) /\ left.list = sv.list
        /\ left.sessions[c] = [sv.sessions[c] EXCEPT !.stato = "CHIUSA"]
        /\ \A d \in Conns : d # c => left.sessions[d] = ToldOfLogout(sv, c).sessions[d]
    BY <1>1, LeftIs
  <1>4. PICK s : s = [left.sessions[c] EXCEPT !.user = NoUser]
    OBVIOUS
  <1>5. s = Nobody(sv.sessions[c])
    BY <1>3, <1>4 DEF Nobody
  <1>6. s \in SessionSet /\ SessionOK(s)
    <2>1. sv.sessions[c] \in SessionSet /\ SessionOK(sv.sessions[c])
      BY <1>2, Parts
    <2>2. QED
      BY <1>5, <2>1 DEF SessionSet, SessionOK, Kinds, Nobody
  <1>7. r = With(left, c, s)
    BY <1>1, <1>4 DEF ThrownOut
  <1>8. QED
    BY <1>3, <1>5, <1>6, <1>7, WithIs

LEMMA ClosedIs ==
  ASSUME NEW sv, ServerOK(sv), NEW c \in Conns, NEW r, r = Closed(sv, c)
  PROVE  /\ ServerOK(r) /\ ToSet(r.list) = ToSet(sv.list) \ {c}
         /\ r.sessions[c] = Fresh
         /\ \A d \in Conns : d # c => r.sessions[d] = sv.sessions[d]
  <1>1. PICK list, f : list = RemoveFirst(sv.list, c) /\ f = [sv.sessions EXCEPT ![c] = Fresh]
    OBVIOUS
  <1>2. list \in Seq(Conns) /\ IsInjective(list) /\ ToSet(list) = ToSet(sv.list) \ {c}
    BY <1>1, Parts, RemovedOnce
  <1>3. /\ f \in [Conns -> SessionSet] /\ f[c] = Fresh
        /\ \A d \in Conns : d # c => f[d] = sv.sessions[d]
    BY <1>1, Parts, FreshOK
  <1>4. r = [list |-> list, sessions |-> f]
    BY <1>1 DEF Closed
  <1>5. r \in Servers /\ r.list = list /\ r.sessions = f
    BY <1>2, <1>3, <1>4 DEF Servers
  <1>6. \A d \in Conns : SessionOK(f[d])
    BY <1>3, Parts, FreshOK
  <1>7. \A d \in Conns \ ToSet(list) : f[d] = Fresh
    BY <1>2, <1>3, Parts
  <1>8. QED
    BY <1>2, <1>3, <1>5, <1>6, <1>7 DEF ServerOK

\* Whom HWHO and CWHO list and who stays.
LoggedIn(sv, but) == UsersOf(sv, Staying(sv, Hwho(sv, but)))
InTheChannel(sv, canale, c) == UsersOf(sv, Staying(sv, Cwho(sv, canale, c)))

\* Whom they name late.
LateIn(sv, but) == NamedLate(sv, Hwho(sv, but), "HWHO")
LateInTheChannel(sv, canale, c) == NamedLate(sv, Cwho(sv, canale, c), "CWHO")

LEMMA NamedLateIs ==
  ASSUME NEW sv, NEW S, \A d \in S : sv.sessions[d].user \in Users, NEW list \in {"HWHO", "CWHO"}
  PROVE  NamedLate(sv, S, list) \in SUBSET Heard
  <1>1. PICK W : W = UsersOf(sv, S) \ UsersOf(sv, Staying(sv, S))
    OBVIOUS
  <1>2. W \subseteq Users
    BY <1>1 DEF UsersOf
  <1>3. {list} \X W \subseteq {"HWHO", "CWHO"} \X Users
    BY <1>2
  <1>4. QED
    BY <1>1, <1>3 DEF NamedLate, Heard

\* A session that enters a channel.
Entered(s, canale, who, late) ==
  [s EXCEPT !.canale = canale, !.chat = 0, !.inchat = who,
            !.leaving = Forgotten(@) \cup late]

LEMMA OutsideIs ==
  ASSUME NEW s \in SessionSet, NEW t, t = Outside(s)
  PROVE  /\ t \in SessionSet /\ t.user = s.user /\ t.stato = s.stato
         /\ t.cancella = s.cancella /\ t.rcpt = s.rcpt /\ t.text = s.text
         /\ t.logged = s.logged /\ t.canale = 0 /\ t.idle = s.idle
         /\ t.warning = s.warning /\ t.present = s.present /\ t.inchat = {}
         /\ t.quiet = s.quiet /\ t.warned = s.warned /\ t.chat = s.chat
  <1>1. PICK l : l = Forgotten(s.leaving)
    OBVIOUS
  <1>2. l \in SUBSET Heard
    BY <1>1 DEF Forgotten, SessionSet
  <1>3. t = [s EXCEPT !.canale = 0, !.inchat = {}, !.leaving = l]
    BY <1>1, Zenon DEF Outside
  <1>4. /\ t = [user |-> s.user, stato |-> s.stato, logged |-> s.logged,
                cancella |-> s.cancella, rcpt |-> s.rcpt, text |-> s.text,
                canale |-> 0, chat |-> s.chat, idle |-> s.idle,
                warning |-> s.warning, quiet |-> s.quiet, warned |-> s.warned,
                present |-> s.present, inchat |-> {}, leaving |-> l]
    BY <1>3 DEF SessionSet
  <1>5. t \in SessionSet
    BY <1>2, <1>4 DEF SessionSet
  <1>6. QED
    BY <1>4, <1>5

LEMMA EnteredIs ==
  ASSUME NEW s \in SessionSet, NEW canale, NEW who, NEW late,
         NEW t, t = Entered(s, canale, who, late)
  PROVE  /\ t.user = s.user /\ t.stato = s.stato
         /\ t.cancella = s.cancella /\ t.rcpt = s.rcpt /\ t.text = s.text
         /\ t.logged = s.logged /\ t.canale = canale /\ t.idle = s.idle
         /\ t.warning = s.warning /\ t.present = s.present /\ t.inchat = who
         /\ t.quiet = s.quiet /\ t.warned = s.warned
         /\ /\ canale \in Channels /\ who \in SUBSET Users /\ late \in SUBSET Heard
            => t \in SessionSet
  <1>1. PICK l : l = Forgotten(s.leaving) \cup late
    OBVIOUS
  <1>2. late \in SUBSET Heard => l \in SUBSET Heard
    BY <1>1 DEF Forgotten, SessionSet
  <1>3. t = [s EXCEPT !.canale = canale, !.chat = 0, !.inchat = who, !.leaving = l]
    BY <1>1, Zenon DEF Entered
  <1>4. /\ t = [user |-> s.user, stato |-> s.stato, logged |-> s.logged,
                cancella |-> s.cancella, rcpt |-> s.rcpt, text |-> s.text,
                canale |-> canale, chat |-> 0, idle |-> s.idle,
                warning |-> s.warning, quiet |-> s.quiet, warned |-> s.warned,
                present |-> s.present, inchat |-> who, leaving |-> l]
    BY <1>3 DEF SessionSet
  <1>5. /\ canale \in Channels /\ who \in SUBSET Users /\ late \in SUBSET Heard
        => t \in SessionSet
    BY <1>2, <1>4 DEF SessionSet
  <1>6. QED
    BY <1>4, <1>5

LEMMA OutOfChatIs ==
  ASSUME NEW sv, ServerOK(sv), NEW c \in ToSet(sv.list), NEW r, r = OutOfChat(sv, c)
  PROVE  /\ ServerOK(r) /\ r.list = sv.list
         /\ r.sessions[c] = Outside(sv.sessions[c])
         /\ \A d \in Conns : d # c => r.sessions[d] = ToldOfExit(sv, c).sessions[d]
  <1>1. PICK told : told = ToldOfExit(sv, c)
    OBVIOUS
  <1>2. c \in Conns
    BY Parts
  <1>3. ServerOK(told) /\ told.list = sv.list /\ told.sessions[c] = sv.sessions[c]
    BY <1>1, <1>2, ToldOfExitIs
  <1>4. PICK s : s = Outside(sv.sessions[c])
    OBVIOUS
  <1>5. s \in SessionSet /\ SessionOK(s)
    <2>1. sv.sessions[c] \in SessionSet /\ SessionOK(sv.sessions[c])
      BY <1>2, Parts
    <2>2. QED
      BY <1>4, <2>1, OutsideIs DEF SessionOK
  <1>6. r = With(told, c, s)
    BY <1>1, <1>3, <1>4 DEF OutOfChat
  <1>7. QED
    BY <1>1, <1>3, <1>4, <1>5, <1>6, WithIs

LEMMA InIs ==
  ASSUME NEW sv, ServerOK(sv), NEW c \in ToSet(sv.list), NEW canale \in Channels,
         sv.sessions[c].user \in Users, sv.sessions[c].logged, NEW r, r = In(sv, c, canale)
  PROVE  /\ ServerOK(r) /\ r.list = sv.list
         /\ r.sessions[c] = Entered(sv.sessions[c], canale, InTheChannel(sv, canale, c),
                                    LateInTheChannel(sv, canale, c))
         /\ \A d \in Conns : d # c => r.sessions[d] = ToldOfEntry(sv, c, canale).sessions[d]
  <1>1. PICK told : told = ToldOfEntry(sv, c, canale)
    OBVIOUS
  <1>2. c \in Conns
    BY Parts
  <1>3. ServerOK(told) /\ told.list = sv.list
    BY <1>1, <1>2, ToldOfEntryIs
  <1>4. PICK who, late : /\ who = InTheChannel(sv, canale, c)
                         /\ late = LateInTheChannel(sv, canale, c)
    OBVIOUS
  <1>5. who \in SUBSET Users /\ late \in SUBSET Heard
    <2>1. ASSUME NEW d \in InChannel(sv, canale, c)
          PROVE  sv.sessions[d].user \in Users
      <3>1. d \in Conns /\ sv.sessions[d].user # NoUser
        BY <2>1, Parts DEF InChannel
      <3>2. sv.sessions[d] \in SessionSet
        BY <3>1, Parts
      <3>3. QED
        BY <3>1, <3>2 DEF SessionSet
    <2>2. who \in SUBSET Users
      BY <1>4, <2>1 DEF InTheChannel, UsersOf, Staying, Cwho
    <2>3. late \in SUBSET Heard
      BY <1>4, <2>1, NamedLateIs DEF LateInTheChannel, Cwho
    <2>4. QED
      BY <2>2, <2>3
  <1>6. PICK s : s = Entered(sv.sessions[c], canale, who, late)
    OBVIOUS
  <1>7. s \in SessionSet /\ SessionOK(s)
    <2>1. sv.sessions[c] \in SessionSet /\ SessionOK(sv.sessions[c])
      BY <1>2, Parts
    <2>2. QED
      BY <1>5, <1>6, <2>1, EnteredIs DEF SessionOK
  <1>8. r = With(told, c, s)
    BY <1>1, <1>4, <1>6, Zenon
       DEF In, Entered, InTheChannel, LateInTheChannel
  <1>9. QED
    BY <1>1, <1>3, <1>4, <1>6, <1>7, <1>8, WithIs

LEMMA IdleClearedIs ==
  ASSUME NEW s \in SessionSet, SessionOK(s), NEW t, t = IdleCleared(s)
  PROVE  /\ t \in SessionSet /\ SessionOK(t)
         /\ t.user = s.user /\ t.stato = s.stato /\ t.logged = s.logged
         /\ t.cancella = s.cancella /\ t.rcpt = s.rcpt /\ t.text = s.text
         /\ t.canale = s.canale /\ t.present = s.present /\ t.inchat = s.inchat
         /\ t.idle = 0 /\ t.warning = 0
  <1>1. t = [s EXCEPT !.idle = 0, !.warning = 0, !.quiet = 0, !.warned = 0]
    BY DEF IdleCleared
  <1>2. t \in SessionSet
    <2>1. t = [user |-> s.user, stato |-> s.stato, logged |-> s.logged,
               cancella |-> s.cancella, rcpt |-> s.rcpt, text |-> s.text,
               canale |-> s.canale, chat |-> s.chat, idle |-> 0, warning |-> 0,
               quiet |-> 0, warned |-> 0, present |-> s.present, inchat |-> s.inchat, leaving |-> s.leaving]
      BY <1>1 DEF SessionSet
    <2>2. QED
      BY <2>1 DEF SessionSet
  <1>3. /\ t.user = s.user /\ t.stato = s.stato /\ t.logged = s.logged
        /\ t.cancella = s.cancella /\ t.rcpt = s.rcpt /\ t.text = s.text
        /\ t.canale = s.canale /\ t.present = s.present /\ t.inchat = s.inchat
    BY <1>1 DEF SessionSet
  <1>4. t.idle = 0 /\ t.warning = 0 /\ t.quiet = 0 /\ t.warned = 0
    BY <1>1 DEF SessionSet
  <1>5. SessionOK(t)
    BY <1>3, <1>4 DEF SessionOK
  <1>6. QED
    BY <1>2, <1>3, <1>4, <1>5

\* A command ends with clear_idle.
Served(sv, c) == [sv EXCEPT !.sessions[c] = IdleCleared(@)]

LEMMA ServedIs ==
  ASSUME NEW sv, ServerOK(sv), NEW c \in ToSet(sv.list),
         NEW r, r = Served(sv, c)
  PROVE  /\ ServerOK(r) /\ r.list = sv.list
         /\ r.sessions[c] = IdleCleared(sv.sessions[c])
         /\ \A d \in Conns : d # c => r.sessions[d] = sv.sessions[d]
  <1>1. PICK s : s = IdleCleared(sv.sessions[c])
    OBVIOUS
  <1>2. c \in Conns
    BY Parts
  <1>3. s \in SessionSet /\ SessionOK(s)
    <2>1. sv.sessions[c] \in SessionSet /\ SessionOK(sv.sessions[c])
      BY <1>2, Parts
    <2>2. QED
      BY <1>1, <2>1, IdleClearedIs
  <1>4. r = With(sv, c, s)
    BY <1>1 DEF With, Served
  <1>5. /\ ServerOK(With(sv, c, s)) /\ With(sv, c, s).list = sv.list
        /\ With(sv, c, s).sessions[c] = s
        /\ \A d \in Conns : d # c => With(sv, c, s).sessions[d] = sv.sessions[d]
    BY <1>3, WithIs
  <1>6. QED
    BY <1>1, <1>4, <1>5, Zenon

-----------------------------------------------------------------------------
(***************************************************************************)
(* Passes.                                                                 *)
(***************************************************************************)
\* The connections met in the first k steps.
Past(list, k) == { list[j] : j \in 1 .. k }

LEMMA PastIs ==
  ASSUME NEW list \in Seq(Conns), IsInjective(list)
  PROVE  /\ Past(list, 0) = {} /\ Past(list, Len(list)) = ToSet(list)
         /\ \A k \in 1 .. Len(list) :
              /\ list[k] \in ToSet(list) /\ list[k] \in Conns
              /\ Past(list, k) = Past(list, k - 1) \cup {list[k]}
              /\ list[k] \notin Past(list, k - 1)
  <1>1. DOMAIN list = 1 .. Len(list) /\ Len(list) \in Nat
    OBVIOUS
  <1>2. Past(list, 0) = {} /\ Past(list, Len(list)) = ToSet(list)
    BY <1>1 DEF Past, ToSet
  <1>3. ASSUME NEW k \in 1 .. Len(list)
        PROVE  /\ list[k] \in ToSet(list) /\ list[k] \in Conns
               /\ Past(list, k) = Past(list, k - 1) \cup {list[k]}
               /\ list[k] \notin Past(list, k - 1)
    <2>1. 1 .. k = (1 .. (k - 1)) \cup {k}
      BY <1>1
    <2>2. Past(list, k) = Past(list, k - 1) \cup {list[k]}
      BY <2>1 DEF Past
    <2>3. \A j \in 1 .. (k - 1) : list[j] # list[k]
      BY <1>1 DEF IsInjective
    <2>4. QED
      BY <1>1, <2>2, <2>3 DEF Past, ToSet
  <1>4. QED
    BY <1>2, <1>3

\* sv without the sessions in C.
Without(r, sv, C) ==
  /\ ServerOK(r) /\ ToSet(r.list) = ToSet(sv.list) \ C
  /\ \A d \in Conns : r.sessions[d] = IF d \in C THEN Fresh ELSE sv.sessions[d]

LEMMA AllClosedIs ==
  ASSUME NEW sv, ServerOK(sv), NEW which
  PROVE  Without(AllClosed(sv, which), sv, which)
  <1> DEFINE list == sv.list
             N == Len(list)
  <1>1. list \in Seq(Conns) /\ IsInjective(list) /\ N \in Nat
    BY Parts
  <1>2. PICK g : Steps(g, list, sv, "CLOSE", which) /\ AllClosed(sv, which) = g[N]
    BY <1>1, ClosedStepwise
  <1> DEFINE P == { k \in 0 .. N : Without(g[k], sv, which \cap Past(list, k)) }
  <1>3. 0 \in P
    <2>1. g[0] = sv /\ Past(list, 0) = {}
      BY <1>1, <1>2, PastIs DEF Steps
    <2>2. Without(sv, sv, {})
      BY DEF Without
    <2>3. which \cap Past(list, 0) = {}
      BY <2>1
    <2>4. Without(g[0], sv, which \cap Past(list, 0))
      BY <2>1, <2>2, <2>3, Zenon
    <2>5. QED
      BY <1>1, <2>4
  <1>4. ASSUME NEW k \in 1 .. N, k - 1 \in P
        PROVE  k \in P
    <2>1. PICK v, c : v = g[k - 1] /\ c = list[k]
      OBVIOUS
    <2>2. Without(v, sv, which \cap Past(list, k - 1))
      BY <1>4, <2>1
    <2>3. c \in Conns /\ Past(list, k) = Past(list, k - 1) \cup {c}
      BY <1>1, <2>1, PastIs
    <2>4. g[k] = Step("CLOSE", which, v, c)
      BY <1>2, <2>1 DEF Steps
    <2>5. g[k] = IF c \in which THEN Closed(v, c) ELSE v
      BY <2>4 DEF Step
    <2>6. Without(g[k], sv, which \cap Past(list, k))
      <3>1. CASE c \in which
        <4>1. PICK r : r = Closed(v, c)
          OBVIOUS
        <4>2. /\ ServerOK(r) /\ ToSet(r.list) = ToSet(v.list) \ {c}
              /\ r.sessions[c] = Fresh
              /\ \A d \in Conns : d # c => r.sessions[d] = v.sessions[d]
          BY <2>2, <2>3, <4>1, ClosedIs DEF Without
        <4>3. which \cap Past(list, k) = (which \cap Past(list, k - 1)) \cup {c}
          BY <2>3, <3>1
        <4>4. Without(r, sv, which \cap Past(list, k))
          BY <2>2, <4>2, <4>3 DEF Without
        <4>5. QED
          BY <2>5, <3>1, <4>1, <4>4
      <3>2. CASE c \notin which
        <4>1. which \cap Past(list, k) = which \cap Past(list, k - 1)
          BY <2>3, <3>2
        <4>2. QED
          BY <2>2, <2>5, <3>2, <4>1
      <3>3. QED
        BY <3>1, <3>2
    <2>7. QED
      BY <2>6
  <1> HIDE DEF P
  <1>5. \A k \in 0 .. N : k \in P
    BY <1>1, <1>3, <1>4, LoopInduction
  <1>6. N \in P
    BY <1>1, <1>5
  <1>7. Without(g[N], sv, which \cap ToSet(list))
    BY <1>1, <1>6, PastIs DEF P
  <1>8. \A d \in Conns \ ToSet(list) : sv.sessions[d] = Fresh
    BY Parts
  <1> HIDE DEF list, N
  <1>9. Without(g[N], sv, which)
    BY <1>7, <1>8 DEF Without, list
  <1>10. QED
    BY <1>2, <1>9 DEF N, list

\* Sessions are as they were, but for what their clients were told, or over.
Carried(r, sv) ==
  /\ ServerOK(r) /\ ToSet(r.list) \subseteq ToSet(sv.list)
  /\ \A d \in Conns : r.sessions[d] = Fresh \/ Alike(r.sessions[d], sv.sessions[d])

\* A step of AllDropped.
Dropped(v, c) == Closed(ToldOfLogout(v, c), c)

LEMMA DroppedIs ==
  ASSUME NEW sv, ServerOK(sv), NEW c \in Conns, NEW r, r = Dropped(sv, c)
  PROVE  /\ ServerOK(r) /\ ToSet(r.list) = ToSet(sv.list) \ {c}
         /\ r.sessions[c] = Fresh
         /\ \A d \in Conns : d # c => r.sessions[d] = ToldOfLogout(sv, c).sessions[d]
  <1>1. PICK told : told = ToldOfLogout(sv, c)
    OBVIOUS
  <1>2. ServerOK(told) /\ told.list = sv.list
    BY <1>1, ToldOfLogoutIs
  <1>3. r = Closed(told, c)
    BY <1>1 DEF Dropped
  <1>4. /\ ServerOK(r) /\ r.sessions[c] = Fresh
        /\ \A d \in Conns : d # c => r.sessions[d] = told.sessions[d]
    BY <1>2, <1>3, ClosedIs
  <1>5. ToSet(r.list) = ToSet(told.list) \ {c}
    BY <1>2, <1>3, ClosedIs
  <1>6. QED
    BY <1>1, <1>2, <1>4, <1>5, Zenon

LEMMA AllDroppedIs ==
  ASSUME NEW sv, ServerOK(sv), NEW which
  PROVE  Carried(AllDropped(sv, which), sv)
  <1> DEFINE Good == { v \in Servers : Carried(v, sv) }
  <1>1. sv.list \in Seq(Conns)
    BY Parts
  <1>2. PICK g : /\ Steps(g, sv.list, sv, "DROP", which)
                 /\ AllDropped(sv, which) = g[Len(sv.list)]
    BY <1>1, DroppedStepwise
  <1>3. sv \in Good
    BY Parts DEF Carried, Alike
  <1>4. ASSUME NEW v \in Good, NEW c \in ToSet(sv.list)
        PROVE  Step("DROP", which, v, c) \in Good
    <2>1. Step("DROP", which, v, c) = IF c \in which THEN Dropped(v, c) ELSE v
      BY DEF Step, Dropped
    <2>2. PICK r : r = Dropped(v, c)
      OBVIOUS
    <2>3. c \in Conns /\ Carried(v, sv) /\ ServerOK(v)
      BY Parts DEF Carried
    <2>4. PICK told : told = ToldOfLogout(v, c)
      OBVIOUS
    <2>5. ToSet(r.list) = ToSet(v.list) \ {c}
      BY <2>2, <2>3, DroppedIs
    <2>6. /\ ServerOK(r) /\ r.sessions[c] = Fresh
          /\ \A d \in Conns : d # c => r.sessions[d] = told.sessions[d]
      BY <2>2, <2>3, <2>4, DroppedIs
    <2>7. \A d \in Conns : Alike(told.sessions[d], v.sessions[d])
      BY <2>3, <2>4, ToldOfLogoutIs
    <2>8. \A d \in Conns : v.sessions[d].user = NoUser => told.sessions[d] = v.sessions[d]
      BY <2>3, <2>4, ToldOfLogoutIs
    <2>9. ASSUME NEW d \in Conns
          PROVE  r.sessions[d] = Fresh \/ Alike(r.sessions[d], sv.sessions[d])
      <3>1. CASE d = c
        BY <2>6, <3>1
      <3>2. CASE d # c
        <4>1. Alike(r.sessions[d], v.sessions[d])
          BY <2>6, <2>7, <3>2
        <4>2. CASE v.sessions[d] = Fresh
          <5>1. v.sessions[d].user = NoUser
            BY <4>2 DEF Fresh
          <5>2. QED
            BY <2>6, <2>8, <3>2, <4>2, <5>1
        <4>3. CASE Alike(v.sessions[d], sv.sessions[d])
          BY <4>1, <4>3 DEF Alike
        <4>4. QED
          BY <2>3, <4>2, <4>3 DEF Carried
      <3>3. QED
        BY <3>1, <3>2
    <2>10. Carried(r, sv) /\ r \in Servers
      BY <2>3, <2>5, <2>6, <2>9, Parts DEF Carried
    <2>11. QED
      BY <2>1, <2>2, <2>10
  <1> HIDE DEF Good
  <1>5. g[Len(sv.list)] \in Good
    BY <1>1, <1>2, <1>3, <1>4, StepsKeep
  <1>6. QED
    BY <1>2, <1>5 DEF Good

-----------------------------------------------------------------------------
\* r is v, but for what clients were told and for session c, of which F was made.
OnlyThis(r, v, c, F) ==
  /\ ServerOK(r) /\ r.list = v.list
  /\ Alike(r.sessions[c], F[v.sessions[c]])
  /\ \A d \in Conns : d # c => Alike(r.sessions[d], v.sessions[d])

\* The same of several sessions.
OnlyThese(r, v, C, F) ==
  /\ ServerOK(r) /\ r.list = v.list
  /\ \A d \in C : Alike(r.sessions[d], F[v.sessions[d]])
  /\ \A d \in Conns \ C : Alike(r.sessions[d], v.sessions[d])

Respects(F) ==
  /\ F \in [SessionSet -> SessionSet]
  /\ \A s, t \in SessionSet : Alike(s, t) => Alike(F[s], F[t])

\* A pass whose steps make F of one session each makes F of all on the list.
LEMMA PassOver ==
  ASSUME NEW sv, ServerOK(sv), NEW kind, NEW which, NEW F, Respects(F),
         NEW g, Steps(g, sv.list, sv, kind, which),
         \A v \in Servers : \A c \in ToSet(sv.list) :
           ServerOK(v) /\ v.list = sv.list => OnlyThis(Step(kind, which, v, c), v, c, F)
  PROVE  OnlyThese(g[Len(sv.list)], sv, ToSet(sv.list), F)
  <1> DEFINE list == sv.list
             N == Len(list)
             P == { k \in 0 .. N : OnlyThese(g[k], sv, Past(list, k), F) }
  <1>1. list \in Seq(Conns) /\ IsInjective(list) /\ N \in Nat
    BY Parts
  <1>2. 0 \in P
    <2>1. g[0] = sv /\ Past(list, 0) = {}
      BY <1>1, PastIs DEF Steps
    <2>2. OnlyThese(sv, sv, {}, F)
      BY DEF OnlyThese, Alike
    <2>3. OnlyThese(g[0], sv, Past(list, 0), F)
      BY <2>1, <2>2, Zenon
    <2>4. QED
      BY <1>1, <2>3
  <1>3. ASSUME NEW k \in 1 .. N, k - 1 \in P
        PROVE  k \in P
    <2>1. PICK v, c, C : v = g[k - 1] /\ c = list[k] /\ C = Past(list, k - 1)
      OBVIOUS
    <2>2. OnlyThese(v, sv, C, F)
      BY <1>3, <2>1
    <2>3. c \in Conns /\ c \in ToSet(list) /\ Past(list, k) = C \cup {c} /\ c \notin C
      BY <1>1, <2>1, PastIs
    <2>4. PICK r : r = g[k]
      OBVIOUS
    <2>5. r = Step(kind, which, v, c)
      BY <2>1, <2>4 DEF Steps
    <2>6. ServerOK(v) /\ v.list = list /\ v \in Servers
      BY <2>2 DEF OnlyThese, ServerOK
    <2>7. OnlyThis(r, v, c, F)
      BY <2>3, <2>5, <2>6
    <2>8. Alike(r.sessions[c], F[sv.sessions[c]])
      <3>1. Alike(v.sessions[c], sv.sessions[c])
        BY <2>2, <2>3 DEF OnlyThese
      <3>2. v.sessions[c] \in SessionSet /\ sv.sessions[c] \in SessionSet
        BY <2>3, <2>6, Parts
      <3>3. Alike(F[v.sessions[c]], F[sv.sessions[c]])
        BY <3>1, <3>2 DEF Respects
      <3>4. Alike(r.sessions[c], F[v.sessions[c]])
        BY <2>7 DEF OnlyThis
      <3>5. QED
        BY <3>3, <3>4 DEF Alike
    <2>9. \A d \in C : Alike(r.sessions[d], F[sv.sessions[d]])
      <3>1. ASSUME NEW d \in C
            PROVE  Alike(r.sessions[d], F[sv.sessions[d]])
        <4>1. d # c /\ d \in Conns
          BY <1>1, <2>1, <2>3, PastIs, Parts DEF Past
        <4>2. Alike(r.sessions[d], v.sessions[d]) /\ Alike(v.sessions[d], F[sv.sessions[d]])
          BY <2>2, <2>7, <4>1 DEF OnlyThis, OnlyThese
        <4>3. QED
          BY <4>2 DEF Alike
      <3>2. QED
        BY <3>1
    <2>10. ASSUME NEW d \in Conns, d # c, d \notin C
           PROVE  Alike(r.sessions[d], sv.sessions[d])
      <3>1. Alike(r.sessions[d], v.sessions[d]) /\ Alike(v.sessions[d], sv.sessions[d])
        BY <2>2, <2>7, <2>10 DEF OnlyThis, OnlyThese
      <3>2. QED
        BY <3>1 DEF Alike
    <2>11. OnlyThese(r, sv, Past(list, k), F)
      BY <2>3, <2>6, <2>7, <2>8, <2>9, <2>10 DEF OnlyThese, OnlyThis
    <2>12. QED
      BY <2>4, <2>11
  <1> HIDE DEF P
  <1>4. \A k \in 0 .. N : k \in P
    BY <1>1, <1>2, <1>3, LoopInduction
  <1>5. N \in P
    BY <1>1, <1>4
  <1>6. QED
    BY <1>1, <1>5, PastIs DEF P

\* What cmd_cusr, the idle timeout and the chat timeout make of a session.
Expelled(u) ==
  [s \in SessionSet |-> IF s.user = u THEN Nobody(s) ELSE s]

Ended(s) == [s EXCEPT !.stato = "CHIUSA"]
WarnedAgain(s, n) == [s EXCEPT !.warning = n, !.warned = n]
Muted(s) == [s EXCEPT !.canale = 0]

IsWarned(s, n) ==
  /\ may("IDLE") /\ s.stato # "LOCK" /\ s.warning = n - 1
  /\ s.idle >= (IF n = 1 THEN IdleWarning ELSE IdleLogout)

Warned ==
  [s \in SessionSet |-> IF IdleOut(s) THEN Ended(s)
                        ELSE IF IsWarned(s, 2) THEN WarnedAgain(s, 2)
                        ELSE IF IsWarned(s, 1) THEN WarnedAgain(s, 1)
                        ELSE s]

Silenced ==
  [s \in SessionSet |->
     IF s.canale # 0 /\ s.chat > ChatTimeout THEN Muted(s) ELSE s]

LEMMA AllThrownOutIs ==
  ASSUME NEW sv, ServerOK(sv), NEW u \in Users
  PROVE  OnlyThese(AllThrownOut(sv, u), sv, ToSet(sv.list), Expelled(u))
  <1>1. sv.list \in Seq(Conns)
    BY Parts
  <1>2. PICK F : F = Expelled(u)
    OBVIOUS
  <1>3. ASSUME NEW s \in SessionSet
        PROVE  /\ s.user = u => F[s] = Nobody(s)
               /\ s.user # u => F[s] = s
               /\ F[s] \in SessionSet
    <2>1. F[s] = IF s.user = u THEN Nobody(s) ELSE s
      BY <1>2, Zenon DEF Expelled
    <2>2. PICK t : t = Nobody(s)
      OBVIOUS
    <2>3. t \in SessionSet
      BY <2>2 DEF SessionSet, Kinds, Nobody
    <2>4. QED
      BY <2>1, <2>2, <2>3, Zenon
  <1>4. Respects(F)
    <2>1. F \in [SessionSet -> SessionSet]
      <3>1. F = [s \in SessionSet |-> F[s]]
        BY <1>2, Zenon DEF Expelled
      <3>2. \A s \in SessionSet : F[s] \in SessionSet
        BY <1>3, Zenon
      <3>3. QED
        BY <3>1, <3>2, Zenon
    <2>2. ASSUME NEW s \in SessionSet, NEW t \in SessionSet, Alike(s, t)
          PROVE  Alike(F[s], F[t])
      <3>1. s.user = t.user
        BY <2>2 DEF Alike
      <3>2. CASE s.user = u
        <4>1. /\ F[s] = Nobody(s)
              /\ F[t] = Nobody(t)
          BY <1>3, <3>1, <3>2, Zenon
        <4>2. QED
          BY <2>2, <4>1 DEF Alike, SessionSet, Nobody
      <3>3. CASE s.user # u
        BY <1>3, <2>2, <3>1, <3>3, Zenon
      <3>4. QED
        BY <3>2, <3>3
    <2>3. QED
      BY <2>1, <2>2 DEF Respects
  <1>5. ASSUME NEW v \in Servers, NEW c \in ToSet(sv.list), ServerOK(v), v.list = sv.list
        PROVE  OnlyThis(Step("CUSR", u, v, c), v, c, F)
    <2>1. c \in Conns /\ v.sessions[c] \in SessionSet /\ c \in ToSet(v.list)
      BY <1>5, Parts
    <2>2. CASE v.sessions[c].user = u
      <3>1. PICK r, told : r = ThrownOut(v, c) /\ told = ToldOfLogout(v, c)
        OBVIOUS
      <3>2. Step("CUSR", u, v, c) = r
        BY <2>2, <3>1 DEF Step
      <3>3. /\ ServerOK(r) /\ r.list = v.list
            /\ r.sessions[c] = Nobody(v.sessions[c])
            /\ \A d \in Conns : d # c =>
                 r.sessions[d] = ToldOfLogout(v, c).sessions[d]
        <4>1. r = ThrownOut(v, c)
          BY <3>1
        <4>2. ServerOK(v) /\ c \in ToSet(v.list)
          BY <1>5, <2>1
        <4>3. QED
          BY <4>1, <4>2, ThrownOutIs
      <3>4. \A d \in Conns : Alike(told.sessions[d], v.sessions[d])
        BY <1>5, <2>1, <3>1, ToldOfLogoutIs
      <3>5. r.sessions[c] = F[v.sessions[c]]
        BY <1>3, <2>1, <2>2, <3>3, Zenon
      <3>6. Alike(r.sessions[c], F[v.sessions[c]])
        BY <3>5 DEF Alike
      <3>7. \A d \in Conns : d # c => Alike(r.sessions[d], v.sessions[d])
        BY <3>1, <3>3, <3>4, Zenon
      <3>8. QED
        BY <3>2, <3>3, <3>6, <3>7 DEF OnlyThis
    <2>3. CASE v.sessions[c].user # u
      <3>1. Step("CUSR", u, v, c) = v
        BY <2>3 DEF Step
      <3>2. F[v.sessions[c]] = v.sessions[c]
        BY <1>3, <2>1, <2>3, Zenon
      <3>3. \A d \in Conns : Alike(v.sessions[d], v.sessions[d])
        BY DEF Alike
      <3>4. QED
        BY <1>5, <2>1, <3>1, <3>2, <3>3 DEF OnlyThis
    <2>4. QED
      BY <2>2, <2>3
  <1>6. PICK g : /\ Steps(g, sv.list, sv, "CUSR", u)
                 /\ AllThrownOut(sv, u) = g[Len(sv.list)]
    BY <1>1, ThrownOutStepwise
  <1>7. OnlyThese(g[Len(sv.list)], sv, ToSet(sv.list), F)
    BY <1>4, <1>5, <1>6, PassOver
  <1>8. QED
    BY <1>2, <1>6, <1>7

LEMMA IdledStep ==
  ASSUME NEW v, ServerOK(v), NEW c \in ToSet(v.list), NEW s, s = v.sessions[c],
         NEW r, r = Step("IDLE", {}, v, c)
  PROVE  /\ IdleOut(s) => r = Left(v, c)
         /\ ~ IdleOut(s) => r = With(v, c, Warned[s])
  <1>1. c \in Conns /\ s \in SessionSet /\ SessionOK(s)
    BY Parts
  <1>2. s.warned = s.warning /\ s.warning \in 0 .. 2
    BY <1>1 DEF SessionOK, SessionSet
  <1>3. r = Idled(v, c)
    BY DEF Step
  <1>4. Warned[s] = IF IdleOut(s) THEN Ended(s)
                    ELSE IF IsWarned(s, 2) THEN WarnedAgain(s, 2)
                    ELSE IF IsWarned(s, 1) THEN WarnedAgain(s, 1)
                    ELSE s
    BY <1>1, Zenon DEF Warned
  <1>5. With(v, c, s) = v
    <2>1. v.sessions = [v.sessions EXCEPT ![c] = s]
      BY <1>1, Parts
    <2>2. v = [list |-> v.list, sessions |-> v.sessions]
      BY Parts
    <2>3. [v EXCEPT !.sessions[c] = s] = [v EXCEPT !.sessions = [v.sessions EXCEPT ![c] = s]]
      BY <2>2
    <2>4. [v EXCEPT !.sessions = v.sessions] = v
      BY <2>2
    <2>5. QED
      BY <2>1, <2>3, <2>4, Zenon DEF With
  <1>6. CASE ~ may("IDLE") \/ s.stato = "LOCK"
    <2>1. r = v
      BY <1>3, <1>6 DEF Idled
    <2>2. Warned[s] = s /\ ~ IdleOut(s)
      BY <1>4, <1>6 DEF IdleOut, IsWarned
    <2>3. QED
      BY <1>5, <2>1, <2>2, Zenon
  <1>7. CASE may("IDLE") /\ s.stato # "LOCK"
    <2>1. r = CASE IdleOut(s)                              -> Left(v, c)
                [] s.idle >= IdleLogout /\ s.warning = 1  ->
                     With(v, c, [s EXCEPT !.warning = 2, !.warned = @ + 1])
                [] s.idle >= IdleWarning /\ s.warning = 0 ->
                     With(v, c, [s EXCEPT !.warning = 1, !.warned = @ + 1])
                [] OTHER -> v
      BY <1>3, <1>7, Zenon DEF Idled
    <2>2. CASE IdleOut(s)
      <3>1. s.idle >= MaxIdle /\ s.warning = 2 /\ s.warning # 1 /\ s.warning # 0
        BY <2>2 DEF IdleOut
      <3>2. r = Left(v, c)
        BY <2>1, <2>2, <3>1, Zenon
      <3>3. QED
        BY <2>2, <3>2
    <2>3. CASE ~ IdleOut(s) /\ IsWarned(s, 2)
      <3>1. s.idle >= IdleLogout /\ s.warning = 1 /\ s.warning # 2 /\ s.warning # 0
        BY <2>3 DEF IsWarned
      <3>2. r = With(v, c, [s EXCEPT !.warning = 2, !.warned = @ + 1])
        BY <2>1, <2>3, <3>1, Zenon
      <3>3. [s EXCEPT !.warning = 2, !.warned = @ + 1] = WarnedAgain(s, 2)
        BY <1>1, <1>2, <3>1 DEF WarnedAgain
      <3>4. Warned[s] = WarnedAgain(s, 2)
        BY <1>4, <2>3, Zenon
      <3>5. QED
        BY <2>3, <3>2, <3>3, <3>4, Zenon
    <2>4. CASE ~ IdleOut(s) /\ ~ IsWarned(s, 2) /\ IsWarned(s, 1)
      <3>1. s.idle >= IdleWarning /\ s.warning = 0 /\ s.warning # 2 /\ s.warning # 1
        BY <2>4 DEF IsWarned
      <3>2. r = With(v, c, [s EXCEPT !.warning = 1, !.warned = @ + 1])
        BY <2>1, <2>4, <3>1, Zenon
      <3>3. [s EXCEPT !.warning = 1, !.warned = @ + 1] = WarnedAgain(s, 1)
        BY <1>1, <1>2, <3>1 DEF WarnedAgain
      <3>4. Warned[s] = WarnedAgain(s, 1)
        BY <1>4, <2>4, Zenon
      <3>5. QED
        BY <2>4, <3>2, <3>3, <3>4, Zenon
    <2>5. CASE ~ IdleOut(s) /\ ~ IsWarned(s, 2) /\ ~ IsWarned(s, 1)
      <3>1. /\ ~ (s.idle >= MaxIdle /\ s.warning = 2)
            /\ ~ (s.idle >= IdleLogout /\ s.warning = 1)
            /\ ~ (s.idle >= IdleWarning /\ s.warning = 0)
        BY <1>7, <2>5 DEF IdleOut, IsWarned
      <3>2. r = v
        BY <2>1, <2>5, <3>1, Zenon
      <3>3. Warned[s] = s
        BY <1>4, <2>5, Zenon
      <3>4. QED
        BY <1>5, <2>5, <3>2, <3>3, Zenon
    <2>6. QED
      BY <2>2, <2>3, <2>4, <2>5
  <1>8. QED
    BY <1>6, <1>7

LEMMA WarnedAgainIs ==
  ASSUME NEW s \in SessionSet, NEW n \in {1, 2}, NEW t, t = WarnedAgain(s, n)
  PROVE  /\ t \in SessionSet /\ t.warning = n /\ t.warned = n
         /\ t.user = s.user /\ t.stato = s.stato /\ t.logged = s.logged
         /\ t.cancella = s.cancella /\ t.rcpt = s.rcpt /\ t.text = s.text
         /\ t.canale = s.canale /\ t.chat = s.chat /\ t.idle = s.idle
         /\ t.quiet = s.quiet /\ t.present = s.present /\ t.inchat = s.inchat
  <1>1. t = [user |-> s.user, stato |-> s.stato, logged |-> s.logged,
             cancella |-> s.cancella, rcpt |-> s.rcpt, text |-> s.text,
             canale |-> s.canale, chat |-> s.chat, idle |-> s.idle, warning |-> n,
             quiet |-> s.quiet, warned |-> n, present |-> s.present,
             inchat |-> s.inchat, leaving |-> s.leaving]
    BY DEF SessionSet, WarnedAgain
  <1>2. t \in SessionSet
    BY <1>1 DEF SessionSet
  <1>3. QED
    BY <1>1, <1>2

\* What Warned and Silenced make of a session.
LEMMA WarnedIs ==
  ASSUME NEW s \in SessionSet
  PROVE  /\ Warned[s] \in SessionSet
         /\ SessionOK(s) => SessionOK(Warned[s])
         /\ Warned[s].user = s.user /\ Warned[s].logged = s.logged
         /\ Warned[s].cancella = s.cancella /\ Warned[s].rcpt = s.rcpt
         /\ Warned[s].text = s.text /\ Warned[s].canale = s.canale
         /\ Warned[s].chat = s.chat /\ Warned[s].idle = s.idle
         /\ Warned[s].quiet = s.quiet
         /\ Warned[s].stato = IF IdleOut(s) THEN "CHIUSA" ELSE s.stato
         /\ Warned[s].warning = IF IdleOut(s) THEN 2
                                ELSE IF IsWarned(s, 2) THEN 2
                                ELSE IF IsWarned(s, 1) THEN 1 ELSE s.warning
         /\ Warned[s].warned = IF IdleOut(s) THEN s.warned
                               ELSE IF IsWarned(s, 2) THEN 2
                               ELSE IF IsWarned(s, 1) THEN 1 ELSE s.warned
         /\ Warned[s].present = s.present /\ Warned[s].inchat = s.inchat
  <1>1. PICK t : t = Warned[s]
    OBVIOUS
  <1>2. t = IF IdleOut(s) THEN Ended(s)
            ELSE IF IsWarned(s, 2) THEN WarnedAgain(s, 2)
            ELSE IF IsWarned(s, 1) THEN WarnedAgain(s, 1)
            ELSE s
    BY <1>1, Zenon DEF Warned
  <1>3. CASE IdleOut(s)
    <2>1. t = Ended(s)
      BY <1>2, <1>3, Zenon
    <2>2. s.warning = 2
      BY <1>3 DEF IdleOut
    <2>3. QED
      BY <1>1, <1>3, <2>1, <2>2 DEF Ended, SessionSet, SessionOK, Kinds
  <1>4. CASE ~ IdleOut(s) /\ IsWarned(s, 2)
    <2>1. t = WarnedAgain(s, 2)
      BY <1>2, <1>4, Zenon
    <2>2. 2 \in {1, 2}
      OBVIOUS
    <2>3. /\ t \in SessionSet /\ t.warning = 2 /\ t.warned = 2
          /\ t.user = s.user /\ t.stato = s.stato /\ t.logged = s.logged
          /\ t.cancella = s.cancella /\ t.rcpt = s.rcpt /\ t.text = s.text
          /\ t.canale = s.canale /\ t.chat = s.chat /\ t.idle = s.idle
          /\ t.quiet = s.quiet /\ t.present = s.present /\ t.inchat = s.inchat
      BY <2>1, <2>2, WarnedAgainIs
    <2>4. SessionOK(s) => SessionOK(t)
      BY <2>3 DEF SessionOK
    <2>5. QED
      BY <1>1, <1>4, <2>3, <2>4
  <1>5. CASE ~ IdleOut(s) /\ ~ IsWarned(s, 2) /\ IsWarned(s, 1)
    <2>1. t = WarnedAgain(s, 1)
      BY <1>2, <1>5, Zenon
    <2>2. 1 \in {1, 2}
      OBVIOUS
    <2>3. /\ t \in SessionSet /\ t.warning = 1 /\ t.warned = 1
          /\ t.user = s.user /\ t.stato = s.stato /\ t.logged = s.logged
          /\ t.cancella = s.cancella /\ t.rcpt = s.rcpt /\ t.text = s.text
          /\ t.canale = s.canale /\ t.chat = s.chat /\ t.idle = s.idle
          /\ t.quiet = s.quiet /\ t.present = s.present /\ t.inchat = s.inchat
      BY <2>1, <2>2, WarnedAgainIs
    <2>4. SessionOK(s) => SessionOK(t)
      BY <2>3 DEF SessionOK
    <2>5. QED
      BY <1>1, <1>5, <2>3, <2>4
  <1>6. CASE ~ IdleOut(s) /\ ~ IsWarned(s, 2) /\ ~ IsWarned(s, 1)
    <2>1. t = s
      BY <1>2, <1>6, Zenon
    <2>2. QED
      BY <1>1, <1>6, <2>1, Zenon
  <1>7. QED
    BY <1>3, <1>4, <1>5, <1>6

LEMMA SilencedIs ==
  ASSUME NEW s \in SessionSet
  PROVE  /\ Silenced[s] \in SessionSet
         /\ Silenced[s].user = s.user /\ Silenced[s].logged = s.logged
         /\ Silenced[s].cancella = s.cancella /\ Silenced[s].rcpt = s.rcpt
         /\ Silenced[s].text = s.text /\ Silenced[s].stato = s.stato
         /\ Silenced[s].canale = IF s.canale # 0 /\ s.chat > ChatTimeout
                                 THEN 0 ELSE s.canale
         /\ Silenced[s].chat = s.chat /\ Silenced[s].idle = s.idle
         /\ Silenced[s].quiet = s.quiet /\ Silenced[s].warning = s.warning
         /\ Silenced[s].warned = s.warned
  <1>1. PICK t : t = Silenced[s]
    OBVIOUS
  <1>2. t = IF s.canale # 0 /\ s.chat > ChatTimeout THEN Muted(s) ELSE s
    BY <1>1, Zenon DEF Silenced
  <1>3. CASE s.canale # 0 /\ s.chat > ChatTimeout
    <2>1. t = Muted(s)
      BY <1>2, <1>3, Zenon
    <2>2. QED
      BY <1>1, <1>3, <2>1 DEF Muted, SessionSet
  <1>4. CASE ~ (s.canale # 0 /\ s.chat > ChatTimeout)
    <2>1. t = s
      BY <1>2, <1>4, Zenon
    <2>2. QED
      BY <1>1, <1>4, <2>1, Zenon
  <1>5. QED
    BY <1>3, <1>4

LEMMA WarnedRespects == Respects(Warned)
  <1>1. Warned \in [SessionSet -> SessionSet]
    <2>1. Warned = [s \in SessionSet |-> Warned[s]]
      BY Zenon DEF Warned
    <2>2. \A s \in SessionSet : Warned[s] \in SessionSet
      BY WarnedIs
    <2>3. QED
      BY <2>1, <2>2, Zenon
  <1>2. ASSUME NEW s \in SessionSet, NEW t \in SessionSet, Alike(s, t)
        PROVE  Alike(Warned[s], Warned[t])
    <2>1. /\ IdleOut(s) <=> IdleOut(t)
          /\ IsWarned(s, 1) <=> IsWarned(t, 1)
          /\ IsWarned(s, 2) <=> IsWarned(t, 2)
      BY <1>2 DEF Alike, IdleOut, IsWarned
    <2>2. /\ Warned[s].user = Warned[t].user /\ Warned[s].logged = Warned[t].logged
          /\ Warned[s].cancella = Warned[t].cancella /\ Warned[s].rcpt = Warned[t].rcpt
          /\ Warned[s].text = Warned[t].text /\ Warned[s].canale = Warned[t].canale
          /\ Warned[s].chat = Warned[t].chat /\ Warned[s].idle = Warned[t].idle
          /\ Warned[s].quiet = Warned[t].quiet
      BY <1>2, WarnedIs DEF Alike
    <2>3. Warned[s].stato = Warned[t].stato
      BY <1>2, <2>1, WarnedIs, Zenon DEF Alike
    <2>4. Warned[s].warning = Warned[t].warning
      BY <1>2, <2>1, WarnedIs, Zenon DEF Alike
    <2>5. Warned[s].warned = Warned[t].warned
      BY <1>2, <2>1, WarnedIs, Zenon DEF Alike
    <2>6. QED
      BY <2>2, <2>3, <2>4, <2>5 DEF Alike
  <1>3. QED
    BY <1>1, <1>2 DEF Respects

LEMMA SilencedRespects == Respects(Silenced)
  <1>1. Silenced \in [SessionSet -> SessionSet]
    <2>1. Silenced = [s \in SessionSet |-> Silenced[s]]
      BY Zenon DEF Silenced
    <2>2. \A s \in SessionSet : Silenced[s] \in SessionSet
      BY SilencedIs
    <2>3. QED
      BY <2>1, <2>2, Zenon
  <1>2. ASSUME NEW s \in SessionSet, NEW t \in SessionSet, Alike(s, t)
        PROVE  Alike(Silenced[s], Silenced[t])
    <2>1. Silenced[s].canale = Silenced[t].canale
      <3>1. s.canale = t.canale /\ s.chat = t.chat
        BY <1>2 DEF Alike
      <3>2. /\ Silenced[s].canale = IF s.canale # 0 /\ s.chat > ChatTimeout
                                     THEN 0 ELSE s.canale
            /\ Silenced[t].canale = IF t.canale # 0 /\ t.chat > ChatTimeout
                                     THEN 0 ELSE t.canale
        BY SilencedIs
      <3>3. QED
        BY <3>1, <3>2
    <2>2. QED
      BY <1>2, <2>1, SilencedIs DEF Alike
  <1>3. QED
    BY <1>1, <1>2 DEF Respects

LEMMA IdledOnlyThis ==
  ASSUME NEW v, ServerOK(v), NEW c \in ToSet(v.list)
  PROVE  OnlyThis(Step("IDLE", {}, v, c), v, c, Warned)
  <1>1. PICK r, s : r = Step("IDLE", {}, v, c) /\ s = v.sessions[c]
    OBVIOUS
  <1>2. c \in Conns /\ s \in SessionSet /\ SessionOK(s)
    BY <1>1, Parts
  <1>3. (IdleOut(s) => r = Left(v, c)) /\ (~ IdleOut(s) => r = With(v, c, Warned[s]))
    BY <1>1, IdledStep
  <1>4. CASE IdleOut(s)
    <2>1. PICK told : told = ToldOfLogout(v, c)
      OBVIOUS
    <2>2. r = Left(v, c)
      BY <1>3, <1>4
    <2>3. /\ ServerOK(r) /\ r.list = v.list
          /\ r.sessions[c] = [v.sessions[c] EXCEPT !.stato = "CHIUSA"]
          /\ \A d \in Conns : d # c => r.sessions[d] = ToldOfLogout(v, c).sessions[d]
      BY <2>2, LeftIs
    <2>4. \A d \in Conns : Alike(told.sessions[d], v.sessions[d])
      BY <1>2, <2>1, ToldOfLogoutIs
    <2>5. \A d \in Conns : d # c => Alike(r.sessions[d], v.sessions[d])
      BY <2>1, <2>3, <2>4, Zenon
    <2>6. Warned[s] = Ended(s)
      BY <1>2, <1>4, Zenon DEF Warned
    <2>7. r.sessions[c] = Warned[s]
      BY <1>1, <2>3, <2>6 DEF Ended
    <2>8. Alike(r.sessions[c], Warned[v.sessions[c]])
      BY <1>1, <2>7 DEF Alike
    <2>9. QED
      BY <1>1, <2>3, <2>5, <2>8 DEF OnlyThis
  <1>5. CASE ~ IdleOut(s)
    <2>1. PICK t : t = Warned[s]
      OBVIOUS
    <2>2. t \in SessionSet /\ SessionOK(t)
      BY <1>2, <2>1, WarnedIs
    <2>3. r = With(v, c, t)
      BY <1>3, <1>5, <2>1
    <2>4. /\ ServerOK(r) /\ r.list = v.list /\ r.sessions[c] = t
          /\ \A d \in Conns : d # c => r.sessions[d] = v.sessions[d]
      BY <2>2, <2>3, WithIs
    <2>5. QED
      BY <1>1, <2>1, <2>4 DEF OnlyThis, Alike
  <1>6. QED
    BY <1>4, <1>5

LEMMA ChatIdledOnlyThis ==
  ASSUME NEW v, ServerOK(v), NEW c \in ToSet(v.list)
  PROVE  OnlyThis(Step("CHAT", {}, v, c), v, c, Silenced)
  <1>1. PICK r, s : r = Step("CHAT", {}, v, c) /\ s = v.sessions[c]
    OBVIOUS
  <1>2. c \in Conns /\ s \in SessionSet
    BY <1>1, Parts
  <1>3. r = IF s.canale # 0 /\ s.chat > ChatTimeout THEN OutOfChat(v, c) ELSE v
    BY <1>1 DEF Step, ChatIdled
  <1>4. CASE s.canale # 0 /\ s.chat > ChatTimeout
    <2>1. PICK told : told = ToldOfExit(v, c)
      OBVIOUS
    <2>2. r = OutOfChat(v, c)
      BY <1>3, <1>4
    <2>3. /\ ServerOK(r) /\ r.list = v.list
          /\ r.sessions[c] = Outside(v.sessions[c])
          /\ \A d \in Conns : d # c => r.sessions[d] = ToldOfExit(v, c).sessions[d]
      BY <2>2, OutOfChatIs
    <2>4. \A d \in Conns : Alike(told.sessions[d], v.sessions[d])
      BY <1>2, <2>1, ToldOfExitIs
    <2>5. \A d \in Conns : d # c => Alike(r.sessions[d], v.sessions[d])
      BY <2>1, <2>3, <2>4, Zenon
    <2>6. Silenced[s] = Muted(s)
      BY <1>2, <1>4, Zenon DEF Silenced
    <2>7. Alike(r.sessions[c], Silenced[v.sessions[c]])
      <3>1. PICK t : t = r.sessions[c]
        OBVIOUS
      <3>2. t = Outside(s)
        BY <1>1, <2>3, <3>1, Zenon
      <3>3. Alike(t, Muted(s))
        BY <1>2, <3>2 DEF Alike, Muted, Outside, SessionSet
      <3>4. QED
        BY <1>1, <2>6, <3>1, <3>3, Zenon
    <2>8. QED
      BY <1>1, <2>3, <2>5, <2>7, Zenon DEF OnlyThis
  <1>5. CASE ~ (s.canale # 0 /\ s.chat > ChatTimeout)
    <2>1. r = v
      BY <1>3, <1>5
    <2>2. Silenced[s] = s
      BY <1>2, <1>5, Zenon DEF Silenced
    <2>3. QED
      BY <1>1, <2>1, <2>2 DEF OnlyThis, Alike
  <1>6. QED
    BY <1>4, <1>5

\* The two passes of the timeouts.
LEMMA AllIdledIs ==
  ASSUME NEW sv, ServerOK(sv)
  PROVE  OnlyThese(FoldLeft(Idled, sv, sv.list), sv, ToSet(sv.list), Warned)
  <1>1. sv.list \in Seq(Conns)
    BY Parts
  <1>2. PICK g : /\ Steps(g, sv.list, sv, "IDLE", {})
                 /\ FoldLeft(Idled, sv, sv.list) = g[Len(sv.list)]
    BY <1>1, IdledStepwise
  <1>3. ASSUME NEW v \in Servers, NEW c \in ToSet(sv.list), ServerOK(v), v.list = sv.list
        PROVE  OnlyThis(Step("IDLE", {}, v, c), v, c, Warned)
    BY <1>3, IdledOnlyThis
  <1>4. OnlyThese(g[Len(sv.list)], sv, ToSet(sv.list), Warned)
    BY <1>2, <1>3, PassOver, WarnedRespects
  <1>5. QED
    BY <1>2, <1>4, Zenon

LEMMA AllChatIdledIs ==
  ASSUME NEW sv, ServerOK(sv)
  PROVE  OnlyThese(FoldLeft(ChatIdled, sv, sv.list), sv, ToSet(sv.list), Silenced)
  <1>1. sv.list \in Seq(Conns)
    BY Parts
  <1>2. PICK g : /\ Steps(g, sv.list, sv, "CHAT", {})
                 /\ FoldLeft(ChatIdled, sv, sv.list) = g[Len(sv.list)]
    BY <1>1, ChatIdledStepwise
  <1>3. ASSUME NEW v \in Servers, NEW c \in ToSet(sv.list), ServerOK(v), v.list = sv.list
        PROVE  OnlyThis(Step("CHAT", {}, v, c), v, c, Silenced)
    BY <1>3, ChatIdledOnlyThis
  <1>4. OnlyThese(g[Len(sv.list)], sv, ToSet(sv.list), Silenced)
    BY <1>2, <1>3, PassOver, SilencedRespects
  <1>5. QED
    BY <1>2, <1>4, Zenon

-----------------------------------------------------------------------------
(***************************************************************************)
(* What a command does, and that the types are kept.                       *)
(***************************************************************************)
\* Session c is served, in a pass.
Turn(c) ==
  /\ phase = "COMMANDS" /\ turn # << >> /\ c = Head(turn)
  /\ turn' = Tail(turn)
  /\ UNCHANGED << commands, phase >>

LEMMA TurnIs ==
  ASSUME BaseInv, NEW c, Turn(c)
  PROVE  /\ turn' \in Seq(Conns) /\ IsInjective(turn')
         /\ c \in ToSet(turn) /\ c \notin ToSet(turn') /\ ToSet(turn') \subseteq ToSet(turn)
  <1>1. /\ turn \in Seq(Conns) /\ turn # << >> /\ c = Head(turn) /\ turn' = Tail(turn)
        /\ IsInjective(turn)
    BY DEF Turn, BaseInv
  <1>2. PICK s, t : s = turn /\ t = Tail(turn)
    OBVIOUS
  <1>3. /\ Len(s) \in Nat \ {0} /\ DOMAIN s = 1 .. Len(s) /\ c = s[1]
        /\ t \in Seq(Conns) /\ Len(t) = Len(s) - 1 /\ DOMAIN t = 1 .. (Len(s) - 1)
        /\ \A i \in 1 .. (Len(s) - 1) : t[i] = s[i + 1]
    BY <1>1, <1>2
  <1>4. \A i, j \in 1 .. Len(s) : s[i] = s[j] => i = j
    BY <1>1, <1>2, <1>3 DEF IsInjective
  <1>5. ASSUME NEW i \in 1 .. (Len(s) - 1)
        PROVE  i + 1 \in 1 .. Len(s) /\ i + 1 # 1 /\ t[i] = s[i + 1]
    BY <1>3
  <1>6. IsInjective(t)
    <2>1. ASSUME NEW i \in 1 .. (Len(s) - 1), NEW j \in 1 .. (Len(s) - 1), t[i] = t[j]
          PROVE  i = j
      <3>1. i + 1 = j + 1
        BY <1>4, <1>5, <2>1
      <3>2. QED
        BY <3>1
    <2>2. QED
      BY <1>3, <2>1 DEF IsInjective
  <1>7. c \in ToSet(s)
    <2>1. 1 \in DOMAIN s
      BY <1>3
    <2>2. QED
      BY <1>3, <2>1 DEF ToSet
  <1>8. c \notin ToSet(t)
    <2>1. 1 \in 1 .. Len(s)
      BY <1>3
    <2>2. \A i \in 1 .. (Len(s) - 1) : t[i] # c
      BY <1>3, <1>4, <1>5, <2>1
    <2>3. QED
      BY <1>3, <2>2 DEF ToSet
  <1>9. ToSet(t) \subseteq ToSet(s)
    BY <1>3, <1>5 DEF ToSet
  <1>10. QED
    BY <1>1, <1>2, <1>3, <1>6, <1>7, <1>8, <1>9

\* A command made sv of the server; the rest is clear_idle.
Effect(c, sv) ==
  /\ ServerOK(sv) /\ sv.list = server.list
  /\ \A d \in Conns : d # c =>
       LET s == Session(d)
           t == sv.sessions[d]
       IN  /\ t.idle = s.idle /\ t.warning = s.warning
           /\ t.text = s.text /\ t.rcpt = s.rcpt
           /\ t.stato = s.stato \/ t.stato = "CHIUSA"
  /\ "TAKEOVER" \notin commands => \A d \in Conns : ~ sv.sessions[d].cancella

\* What others see of a session.
SameSeen(s, t) ==
  /\ s.user = t.user /\ s.logged = t.logged /\ s.cancella = t.cancella
  /\ s.canale = t.canale /\ s.present = t.present /\ s.inchat = t.inchat
  /\ s.stato = "LIC" <=> t.stato = "LIC"
  /\ s.stato = "CHIUSA" <=> t.stato = "CHIUSA"

\* A command that concerns nobody else.
Plain(c, sv) ==
  /\ Effect(c, sv)
  /\ \A d \in Conns : SameSeen(sv.sessions[d], Session(d))

LEMMA NothingPlain ==
  ASSUME BaseInv, NEW c \in Connected
  PROVE  Plain(c, server)
  BY DEF BaseInv, Plain, Effect, Session, SameSeen

LEMMA PlainIs ==
  ASSUME BaseInv, NEW c \in Connected, NEW s \in SessionSet, SessionOK(s),
         SameSeen(s, Session(c)), NEW sv, sv = With(server, c, s)
  PROVE  Plain(c, sv) /\ sv.sessions[c] = s
  <1>1. ServerOK(server) /\ c \in ToSet(server.list)
    BY DEF BaseInv, Connected
  <1>2. /\ ServerOK(sv) /\ sv.list = server.list /\ sv.sessions[c] = s
        /\ \A d \in Conns : d # c => sv.sessions[d] = server.sessions[d]
    BY <1>1, WithIs
  <1>3. s.cancella = Session(c).cancella
    BY DEF SameSeen
  <1>4. Effect(c, sv)
    BY <1>2, <1>3 DEF Effect, Session, BaseInv
  <1>5. \A d \in Conns : SameSeen(sv.sessions[d], Session(d))
    BY <1>2 DEF SameSeen, Session
  <1>6. QED
    BY <1>2, <1>4, <1>5 DEF Plain

\* The server after a command.
LEMMA ServeIs ==
  ASSUME BaseInv, NEW c \in Connected, NEW sv, Effect(c, sv), Serve(c, sv)
  PROVE  /\ ServerOK(server') /\ server'.list = server.list
         /\ server'.sessions[c] = IdleCleared(sv.sessions[c])
         /\ \A d \in Conns : d # c => server'.sessions[d] = sv.sessions[d]
         /\ \A d \in Conns : SameSeen(server'.sessions[d], sv.sessions[d])
  <1>1. ServerOK(sv) /\ sv.list = server.list /\ c \in ToSet(sv.list)
    BY DEF Effect, Connected
  <1>2. PICK r : r = server'
    OBVIOUS
  <1>3. r = Served(sv, c)
    BY <1>2, Zenon DEF Serve, Served
  <1>4. /\ ServerOK(r) /\ r.list = sv.list
        /\ r.sessions[c] = IdleCleared(sv.sessions[c])
        /\ \A d \in Conns : d # c => r.sessions[d] = sv.sessions[d]
    BY <1>1, <1>3, ServedIs
  <1>5. c \in Conns /\ sv.sessions[c] \in SessionSet /\ SessionOK(sv.sessions[c])
    BY <1>1, Parts
  <1>6. SameSeen(r.sessions[c], sv.sessions[c])
    BY <1>4, <1>5, IdleClearedIs DEF SameSeen
  <1>7. \A d \in Conns : SameSeen(r.sessions[d], sv.sessions[d])
    BY <1>4, <1>6 DEF SameSeen
  <1>8. QED
    BY <1>1, <1>2, <1>4, <1>7

LEMMA BaseServed ==
  ASSUME BaseInv, NEW c \in Connected, Turn(c), NEW sv, Effect(c, sv), Serve(c, sv)
  PROVE  BaseInv'
  <1>1. ServerOK(server') /\ \A d \in Conns : SameSeen(server'.sessions[d], sv.sessions[d])
    BY ServeIs
  <1>2. turn' \in Seq(Conns) /\ IsInjective(turn')
    BY TurnIs
  <1>3. commands' = commands /\ phase' = "COMMANDS"
    BY DEF Turn
  <1>4. "TAKEOVER" \notin commands => \A d \in Conns : ~ Session(d)'.cancella
    BY <1>1 DEF Effect, SameSeen, Session
  <1>5. QED
    BY <1>1, <1>2, <1>3, <1>4 DEF BaseInv

-----------------------------------------------------------------------------
(***************************************************************************)
(* The commands, one by one.                                               *)
(***************************************************************************)
States == {"COMANDI", "XMSG", "CHAT", "BROAD", "LOCK"}

\* A session in another state, with another message.
Busy(s, stato, text, rcpt, chat) ==
  [user |-> s.user, stato |-> stato, logged |-> s.logged, cancella |-> s.cancella,
   rcpt |-> rcpt, text |-> text, canale |-> s.canale, chat |-> chat,
   idle |-> s.idle, warning |-> s.warning, quiet |-> s.quiet, warned |-> s.warned,
   present |-> s.present, inchat |-> s.inchat, leaving |-> s.leaving]

MayBeBusy(stato, text, rcpt, chat) ==
  /\ stato \in States /\ text \in Nat /\ rcpt \in Seq(Users \cup {Gone}) /\ chat \in Nat
  /\ text # 0 <=> stato = "XMSG"
  /\ text = 0 => rcpt = << >>

LEMMA BusyIs ==
  ASSUME NEW s \in SessionSet, SessionOK(s), s.stato \in States,
         NEW stato, NEW text, NEW rcpt, NEW chat, MayBeBusy(stato, text, rcpt, chat)
  PROVE  /\ Busy(s, stato, text, rcpt, chat) \in SessionSet
         /\ SessionOK(Busy(s, stato, text, rcpt, chat))
         /\ SameSeen(Busy(s, stato, text, rcpt, chat), s)
         /\ Busy(s, stato, text, rcpt, chat).text = text
         /\ Busy(s, stato, text, rcpt, chat).rcpt = rcpt
  <1>0. PICK t : t = Busy(s, stato, text, rcpt, chat)
    OBVIOUS
  <1>1. /\ t.user = s.user /\ t.stato = stato /\ t.logged = s.logged
        /\ t.cancella = s.cancella /\ t.rcpt = rcpt /\ t.text = text
        /\ t.canale = s.canale /\ t.idle = s.idle /\ t.warning = s.warning
        /\ t.quiet = s.quiet /\ t.warned = s.warned /\ t.present = s.present
        /\ t.inchat = s.inchat
    BY <1>0 DEF Busy
  <1>2. t \in SessionSet
    <2>1. /\ s.user \in Users \cup {NoUser} /\ stato \in Kinds /\ s.logged \in BOOLEAN
          /\ s.cancella \in BOOLEAN /\ s.canale \in Channels \cup {0}
          /\ s.idle \in Nat /\ s.warning \in 0 .. 2 /\ s.quiet \in Nat
          /\ s.warned \in 0 .. 2 /\ s.present \in SUBSET Users
          /\ s.inchat \in SUBSET Users
      BY DEF SessionSet, Kinds, States, MayBeBusy
    <2>2. QED
      BY <1>0, <2>1 DEF Busy, SessionSet, MayBeBusy
  <1>3. SessionOK(t)
    BY <1>1 DEF SessionOK, States, MayBeBusy
  <1>4. SameSeen(t, s)
    BY <1>1 DEF SameSeen, States, MayBeBusy
  <1>5. QED
    BY <1>0, <1>1, <1>2, <1>3, <1>4

LEMMA ServingIs ==
  ASSUME BaseInv, NEW c, NEW states, Serving(c, states), c \in Connected
  PROVE  /\ Turn(c) /\ Session(c).stato \in states
         /\ ServerOK(server) /\ c \in ToSet(server.list) /\ c \in Conns
         /\ Session(c) \in SessionSet /\ SessionOK(Session(c))
  <1>1. ServerOK(server) /\ c \in ToSet(server.list)
    BY DEF BaseInv, Connected
  <1>2. c \in Conns /\ Session(c) \in SessionSet /\ SessionOK(Session(c))
    BY <1>1, Parts DEF Session
  <1>3. QED
    BY <1>1, <1>2 DEF Serving, Turn

\* A plain command that sets the state of the session.
LEMMA BusyPlain ==
  ASSUME BaseInv, NEW c \in Connected, NEW s, s = Session(c), s.stato \in States,
         NEW stato, NEW text, NEW rcpt, NEW chat, MayBeBusy(stato, text, rcpt, chat),
         NEW t, t = Busy(s, stato, text, rcpt, chat), NEW sv, sv = With(server, c, t)
  PROVE  /\ Plain(c, sv) /\ sv.sessions[c].text = text /\ sv.sessions[c].rcpt = rcpt
         /\ sv.sessions[c] = t
  <1>1. ServerOK(server) /\ c \in ToSet(server.list)
    BY DEF BaseInv, Connected
  <1>2. s \in SessionSet /\ SessionOK(s)
    BY <1>1, Parts DEF Session
  <1>3. /\ t \in SessionSet /\ SessionOK(t) /\ SameSeen(t, s)
        /\ t.text = text /\ t.rcpt = rcpt
    <2>1. LET u == Busy(s, stato, text, rcpt, chat)
          IN  /\ u \in SessionSet /\ SessionOK(u) /\ SameSeen(u, s)
              /\ u.text = text /\ u.rcpt = rcpt
      BY <1>2, BusyIs
    <2>2. QED
      BY <2>1
  <1>4. QED
    BY <1>3, PlainIs

LEMMA BusyForms ==
  ASSUME NEW s \in SessionSet, s.text = 0, s.rcpt = << >>, NEW stato, NEW t
  PROVE  /\ t = [s EXCEPT !.stato = stato] => t = Busy(s, stato, 0, << >>, s.chat)
         /\ t = [s EXCEPT !.stato = stato, !.chat = 0] => t = Busy(s, stato, 0, << >>, 0)
         /\ t = TextReset(s) => t = Busy(s, "COMANDI", 0, << >>, s.chat)
         /\ t = [TextReset(s) EXCEPT !.chat = 0] => t = Busy(s, "COMANDI", 0, << >>, 0)
  <1>1. ASSUME t = [s EXCEPT !.stato = stato]
        PROVE  t = Busy(s, stato, 0, << >>, s.chat)
    BY <1>1 DEF SessionSet, Busy
  <1>2. ASSUME t = [s EXCEPT !.stato = stato, !.chat = 0]
        PROVE  t = Busy(s, stato, 0, << >>, 0)
    BY <1>2 DEF SessionSet, Busy
  <1>3. ASSUME NEW u, u = TextReset(s)
        PROVE  u = Busy(s, "COMANDI", 0, << >>, s.chat)
    BY <1>3 DEF SessionSet, Busy, TextReset
  <1>4. ASSUME t = [TextReset(s) EXCEPT !.chat = 0]
        PROVE  t = Busy(s, "COMANDI", 0, << >>, 0)
    <2>1. PICK u : u = TextReset(s)
      OBVIOUS
    <2>2. u = Busy(s, "COMANDI", 0, << >>, s.chat) /\ t = [u EXCEPT !.chat = 0]
      BY <1>3, <1>4, <2>1
    <2>3. QED
      BY <2>2 DEF Busy
  <1>5. QED
    BY <1>1, <1>2, <1>3, <1>4, Zenon

\* A plain command after which the session writes that message, to those.
Writes(c, text, rcpt) ==
  /\ Turn(c)
  /\ \E sv : /\ Plain(c, sv) /\ Serve(c, sv)
             /\ sv.sessions[c].text = text /\ sv.sessions[c].rcpt = rcpt

\* One that leaves the message alone.
Quietly(c) ==
  /\ messages' = messages
  /\ Writes(c, Session(c).text, Session(c).rcpt)

LEMMA QuietCommands ==
  ASSUME BaseInv, NEW c \in Connected,
         Usr1Wrong(c) \/ Ltrm(c) \/ Cmsg(c) \/ Cend(c) \/ Brdc(c) \/ Bend(c)
  PROVE  Quietly(c)
  <1> DEFINE s == Session(c)
  <1>1. CASE Usr1Wrong(c)
    <2>1. Turn(c) /\ messages' = messages /\ Serve(c, server)
      BY <1>1, ServingIs DEF Usr1Wrong
    <2>2. Plain(c, server)
      BY NothingPlain
    <2>3. QED
      BY <2>1, <2>2 DEF Quietly, Writes, Session
  <1>2. ASSUME NEW states, Serving(c, states), states \subseteq States \ {"XMSG"},
               NEW stato \in States \ {"XMSG"}, NEW chat \in Nat,
               NEW t, t = Busy(s, stato, 0, << >>, chat),
               Serve(c, With(server, c, t)), messages' = messages
        PROVE  Quietly(c)
    <2>1. /\ Turn(c) /\ s.stato \in states /\ s \in SessionSet /\ SessionOK(s)
      BY <1>2, ServingIs
    <2>2. s.stato \in States /\ s.text = 0 /\ s.rcpt = << >>
      BY <1>2, <2>1 DEF SessionOK, States, SessionSet
    <2>3. << >> \in Seq(Users \cup {Gone})
      OBVIOUS
    <2> HIDE DEF s
    <2>4. PICK sv : sv = With(server, c, t)
      OBVIOUS
    <2>5. Plain(c, sv) /\ sv.sessions[c].text = 0 /\ sv.sessions[c].rcpt = << >>
      <3>1. MayBeBusy(stato, 0, << >>, chat) /\ s = Session(c)
        BY <1>2, <2>3 DEF s, MayBeBusy
      <3>2. QED
        BY <1>2, <2>2, <2>3, <2>4, <3>1, BusyPlain
    <2>6. QED
      BY <1>2, <2>1, <2>2, <2>4, <2>5 DEF Quietly, Writes, s
  <1>3. ASSUME NEW states, Serving(c, states), states \subseteq States \ {"XMSG"}
        PROVE  /\ s \in SessionSet /\ s.rcpt = << >> /\ s.text = 0 /\ s.chat \in Nat
    <2>1. s.stato \in states /\ s \in SessionSet /\ SessionOK(s)
      BY <1>3, ServingIs
    <2>2. QED
      BY <1>3, <2>1 DEF SessionOK, States, SessionSet
  <1>4. CASE Ltrm(c)
    <2>1. PICK stato \in {"LOCK", "COMANDI"} : Serve(c, With(server, c, [s EXCEPT !.stato = stato]))
      BY <1>4 DEF Ltrm
    <2>2. Serving(c, {"COMANDI", "LOCK"}) /\ messages' = messages
      BY <1>4 DEF Ltrm
    <2>3. {"COMANDI", "LOCK"} \subseteq States \ {"XMSG"} /\ stato \in States \ {"XMSG"}
      BY DEF States
    <2>4. s \in SessionSet /\ s.rcpt = << >> /\ s.text = 0 /\ s.chat \in Nat
      BY <1>3, <2>2, <2>3
    <2>5. [s EXCEPT !.stato = stato] = Busy(s, stato, 0, << >>, s.chat)
      <3>1. PICK t : t = [s EXCEPT !.stato = stato]
        OBVIOUS
      <3>2. t = Busy(s, stato, 0, << >>, s.chat)
        BY <2>4, <3>1 DEF SessionSet, Busy
      <3>3. QED
        BY <3>1, <3>2, Zenon
    <2> HIDE DEF s
    <2>6. QED
      BY <1>2, <2>1, <2>2, <2>3, <2>4, <2>5
  <1>5. CASE Cmsg(c)
    <2>1. /\ Serving(c, {"COMANDI"}) /\ messages' = messages
          /\ Serve(c, With(server, c, [s EXCEPT !.stato = "CHAT", !.chat = 0]))
      BY <1>5 DEF Cmsg
    <2>2. {"COMANDI"} \subseteq States \ {"XMSG"} /\ "CHAT" \in States \ {"XMSG"}
      BY DEF States
    <2>3. s \in SessionSet /\ s.rcpt = << >> /\ s.text = 0 /\ s.chat \in Nat
      BY <1>3, <2>1, <2>2
    <2>4. [s EXCEPT !.stato = "CHAT", !.chat = 0] = Busy(s, "CHAT", 0, << >>, 0)
      BY <2>3, BusyForms, Zenon
    <2> HIDE DEF s
    <2>5. 0 \in Nat
      OBVIOUS
    <2>6. QED
      BY <1>2, <2>1, <2>2, <2>4, <2>5
  <1>6. CASE Cend(c)
    <2>1. /\ Serving(c, {"CHAT"}) /\ messages' = messages
          /\ Serve(c, With(server, c, [TextReset(s) EXCEPT !.chat = 0]))
      BY <1>6 DEF Cend
    <2>2. {"CHAT"} \subseteq States \ {"XMSG"} /\ "COMANDI" \in States \ {"XMSG"}
      BY DEF States
    <2>3. s \in SessionSet /\ s.rcpt = << >> /\ s.text = 0 /\ s.chat \in Nat
      BY <1>3, <2>1, <2>2
    <2>4. [TextReset(s) EXCEPT !.chat = 0] = Busy(s, "COMANDI", 0, << >>, 0)
      BY <2>3, BusyForms, Zenon
    <2> HIDE DEF s
    <2>5. 0 \in Nat
      OBVIOUS
    <2>6. QED
      BY <1>2, <2>1, <2>2, <2>4, <2>5
  <1>7. CASE Brdc(c)
    <2>1. /\ Serving(c, {"COMANDI"}) /\ messages' = messages
          /\ Serve(c, With(server, c, [s EXCEPT !.stato = "BROAD"]))
      BY <1>7 DEF Brdc
    <2>2. {"COMANDI"} \subseteq States \ {"XMSG"} /\ "BROAD" \in States \ {"XMSG"}
      BY DEF States
    <2>3. s \in SessionSet /\ s.rcpt = << >> /\ s.text = 0 /\ s.chat \in Nat
      BY <1>3, <2>1, <2>2
    <2>4. [s EXCEPT !.stato = "BROAD"] = Busy(s, "BROAD", 0, << >>, s.chat)
      BY <2>3, BusyForms, Zenon
    <2> HIDE DEF s
    <2>5. QED
      BY <1>2, <2>1, <2>2, <2>3, <2>4
  <1>8. CASE Bend(c)
    <2>1. /\ Serving(c, {"BROAD"}) /\ messages' = messages
          /\ Serve(c, With(server, c, TextReset(s)))
      BY <1>8 DEF Bend
    <2>2. {"BROAD"} \subseteq States \ {"XMSG"} /\ "COMANDI" \in States \ {"XMSG"}
      BY DEF States
    <2>3. s \in SessionSet /\ s.rcpt = << >> /\ s.text = 0 /\ s.chat \in Nat
      BY <1>3, <2>1, <2>2
    <2>4. TextReset(s) = Busy(s, "COMANDI", 0, << >>, s.chat)
      BY <2>3, BusyForms, Zenon
    <2> HIDE DEF s
    <2>5. QED
      BY <1>2, <2>1, <2>2, <2>3, <2>4
  <1>9. QED
    BY <1>1, <1>4, <1>5, <1>6, <1>7, <1>8

-----------------------------------------------------------------------------
(***************************************************************************)
(* Messages: every recipient gets one once.                                *)
(***************************************************************************)
\* What is written after a plain command.
LEMMA WritesIs ==
  ASSUME BaseInv, NEW c \in Connected, NEW text, NEW rcpt, Writes(c, text, rcpt)
  PROVE  /\ Session(c)'.text = text /\ Session(c)'.rcpt = rcpt
         /\ \A d \in Conns : d # c => /\ Session(d)'.text = Session(d).text
                                      /\ Session(d)'.rcpt = Session(d).rcpt
  <1>1. PICK sv : /\ Plain(c, sv) /\ Serve(c, sv)
                  /\ sv.sessions[c].text = text /\ sv.sessions[c].rcpt = rcpt
    BY DEF Writes
  <1>2. Effect(c, sv)
    BY <1>1 DEF Plain
  <1>3. /\ server'.sessions[c] = IdleCleared(sv.sessions[c])
        /\ \A d \in Conns : d # c => server'.sessions[d] = sv.sessions[d]
    BY <1>1, <1>2, ServeIs
  <1>4. c \in Conns /\ sv.sessions[c] \in SessionSet /\ SessionOK(sv.sessions[c])
    <2>1. ServerOK(sv) /\ c \in ToSet(sv.list)
      BY <1>2 DEF Effect, Connected
    <2>2. QED
      BY <2>1, Parts
  <1>5. Session(c)'.text = text /\ Session(c)'.rcpt = rcpt
    BY <1>1, <1>3, <1>4, IdleClearedIs DEF Session
  <1>6. \A d \in Conns : d # c => /\ Session(d)'.text = Session(d).text
                                  /\ Session(d)'.rcpt = Session(d).rcpt
    BY <1>2, <1>3 DEF Effect, Session
  <1>7. QED
    BY <1>5, <1>6

\* Sessions go on with their messages, or end.
LEMMA TextKept ==
  ASSUME TextInv, messages' = messages,
         \A c \in Conns : \/ Session(c)' = Fresh
                          \/ /\ Session(c)'.text = Session(c).text
                             /\ Session(c)'.rcpt = Session(c).rcpt
  PROVE  TextInv'
  <1>1. Fresh.text = 0
    BY DEF Fresh
  <1>2. \A c \in Conns : WriterOK(Session(c)', messages)
    BY <1>1 DEF TextInv, WriterOK
  <1>3. \A c, d \in Conns : c # d /\ Session(c)'.text # 0 => Session(c)'.text # Session(d)'.text
    BY <1>1 DEF TextInv
  <1>4. QED
    BY <1>2, <1>3 DEF TextInv

\* The writer of message m changes it.
LEMMA TextStep ==
  ASSUME TextInv, NEW c \in Conns, NEW m \in 1 .. Len(messages), Session(c).text = m,
         NEW x \in MessageSet, MessageOK(x), messages' = [messages EXCEPT ![m] = x],
         \A d \in Conns : d # c => /\ Session(d)'.text = Session(d).text
                                   /\ Session(d)'.rcpt = Session(d).rcpt,
         Session(c)'.text \in {0, m},
         Session(c)'.text = m => ListOK(Session(c)'.rcpt, x)
  PROVE  TextInv'
  <1>1. PICK msgs, next : msgs = messages /\ next = messages'
    OBVIOUS
  <1>2. /\ msgs \in Seq(MessageSet) /\ Len(msgs) \in Nat /\ m \in 1 .. Len(msgs)
        /\ next = [msgs EXCEPT ![m] = x]
    BY <1>1 DEF TextInv
  <1>3. /\ next \in Seq(MessageSet) /\ Len(next) = Len(msgs) /\ next[m] = x
        /\ \A k \in 1 .. Len(msgs) : k # m => next[k] = msgs[k]
    BY <1>2
  <1>4. \A k \in 1 .. Len(next) : MessageOK(next[k])
    BY <1>1, <1>3 DEF TextInv
  <1>5. WriterOK(Session(c)', next)
    BY <1>2, <1>3 DEF WriterOK
  <1>6. \A d \in Conns : d # c => WriterOK(Session(d)', next)
    BY <1>1, <1>2, <1>3 DEF TextInv, WriterOK
  <1>7. \A d, e \in Conns : d # e /\ Session(d)'.text # 0 => Session(d)'.text # Session(e)'.text
    BY <1>2 DEF TextInv
  <1>8. QED
    BY <1>1, <1>3, <1>4, <1>5, <1>6, <1>7 DEF TextInv

\* The parts of a message, and what a writer knows of it.
LEMMA WriterIs ==
  ASSUME BaseInv, TextInv, NEW c \in Conns, NEW m, m = Session(c).text, m # 0
  PROVE  /\ m \in 1 .. Len(messages) /\ messages[m] \in MessageSet
         /\ MessageOK(messages[m]) /\ ListOK(Session(c).rcpt, messages[m])
         /\ Session(c).rcpt \in Seq(Users \cup {Gone})
  <1>1. m \in 1 .. Len(messages) /\ ListOK(Session(c).rcpt, messages[m])
    BY DEF TextInv, WriterOK
  <1>2. messages \in Seq(MessageSet)
    BY DEF TextInv
  <1>3. Session(c) \in SessionSet
    BY Parts DEF BaseInv, Session
  <1>4. QED
    BY <1>1, <1>2, <1>3 DEF TextInv, SessionSet

LEMMA NewMessageOK ==
  /\ NewMessage \in MessageSet /\ MessageOK(NewMessage) /\ ListOK(<< >>, NewMessage)
  <1>1. NewMessage \in MessageSet
    BY DEF NewMessage, MessageSet, Ends
  <1>2. IsFiniteSet({}) /\ Cardinality({}) = 0
    BY FS_EmptySet
  <1>3. MessageOK(NewMessage)
    BY <1>2 DEF NewMessage, MessageOK
  <1>4. ListOK(<< >>, NewMessage)
    <2>1. ToSet(<< >>) = {} /\ Len(<< >>) = 0 /\ DOMAIN << >> = {}
      BY DEF ToSet
    <2>2. MaxRcpt \in Nat
      BY NumbersAssumption
    <2>3. NewMessage.end = "OPEN" /\ NewMessage.named = {}
      BY DEF NewMessage
    <2>4. QED
      BY <1>2, <2>1, <2>2, <2>3 DEF ListOK
  <1>5. QED
    BY <1>1, <1>3, <1>4

\* A name that is on the list is on it once.
LEMMA TimesIs ==
  ASSUME NEW rcpt \in Seq(Users \cup {Gone}), NEW u \in Users,
         \A i, j \in DOMAIN rcpt : rcpt[i] = rcpt[j] /\ rcpt[i] # Gone => i = j
  PROVE  Times(rcpt, u) = IF u \in ToSet(rcpt) THEN 1 ELSE 0
  <1> DEFINE I == { i \in DOMAIN rcpt : rcpt[i] = u }
  <1>1. CASE u \in ToSet(rcpt)
    <2>1. PICK i \in DOMAIN rcpt : rcpt[i] = u
      BY <1>1 DEF ToSet
    <2>2. u # Gone
      BY NamesAssumption
    <2>3. I = {i}
      BY <2>1, <2>2
    <2>4. Cardinality({i}) = 1
      BY FS_Singleton
    <2>5. QED
      BY <1>1, <2>3, <2>4 DEF Times
  <1>2. CASE u \notin ToSet(rcpt)
    <2>1. I = {}
      BY <1>2 DEF ToSet
    <2>2. Cardinality({}) = 0
      BY FS_EmptySet
    <2>3. QED
      BY <1>2, <2>1, <2>2 DEF Times
  <1>3. QED
    BY <1>1, <1>2

\* The message x, which went to those of rcpt that are in S too.
Reaching(x, rcpt, S) ==
  [x EXCEPT !.reached = [u \in Users |-> @[u] + IF u \in S THEN Times(rcpt, u) ELSE 0]]

\* A message that ends.
Ending(x, how) == [x EXCEPT !.end = how]

LEMMA EndingIs ==
  ASSUME NEW x \in MessageSet, NEW how \in Ends, NEW y, y = Ending(x, how)
  PROVE  /\ y \in MessageSet /\ y.named = x.named /\ y.reached = x.reached /\ y.end = how
  BY DEF Ending, MessageSet

LEMMA ReachingIs ==
  ASSUME NEW x \in MessageSet, MessageOK(x), NEW rcpt \in Seq(Users \cup {Gone}),
         ListOK(rcpt, x), NEW S, NEW y, y = Reaching(x, rcpt, S)
  PROVE  /\ y \in MessageSet /\ y.named = x.named /\ y.end = x.end
         /\ MessageOK(y)
         /\ \A u \in Users : u \in ToSet(rcpt) /\ u \in S => y.reached[u] = 1
         /\ \A u \in Users : ~ (u \in ToSet(rcpt) /\ u \in S) => y.reached[u] = x.reached[u]
  <1>1. PICK f : f = [u \in Users |-> x.reached[u] + IF u \in S THEN Times(rcpt, u) ELSE 0]
    OBVIOUS
  <1>2. x.reached \in [Users -> Nat]
    BY DEF MessageSet
  <1>3. ASSUME NEW u \in Users
        PROVE  /\ u \in ToSet(rcpt) /\ u \in S => f[u] = 1
               /\ ~ (u \in ToSet(rcpt) /\ u \in S) => f[u] = x.reached[u]
    <2>1. Times(rcpt, u) = IF u \in ToSet(rcpt) THEN 1 ELSE 0
      BY TimesIs DEF ListOK
    <2>2. x.reached[u] \in Nat /\ (u \in ToSet(rcpt) => x.reached[u] = 0)
      BY <1>2 DEF ListOK
    <2>3. f[u] = x.reached[u] + IF u \in S THEN Times(rcpt, u) ELSE 0
      BY <1>1
    <2>4. QED
      BY <2>1, <2>2, <2>3
  <1>4. f \in [Users -> Nat]
    <2>1. \A u \in Users : f[u] \in Nat
      BY <1>2, <1>3
    <2>2. QED
      BY <1>1, <2>1
  <1>5. y = [x EXCEPT !.reached = f]
    BY <1>1 DEF Reaching
  <1>6. y \in MessageSet /\ y.named = x.named /\ y.end = x.end /\ y.reached = f
    BY <1>4, <1>5 DEF MessageSet
  <1>7. MessageOK(y)
    <2>1. x.end = "OPEN"
      BY DEF ListOK
    <2>2. ASSUME NEW u \in Users
          PROVE  y.reached[u] <= (IF u \in y.named THEN 1 ELSE 0)
      <3>1. u \in ToSet(rcpt) => u \in x.named
        BY DEF ListOK
      <3>2. x.reached[u] <= (IF u \in x.named THEN 1 ELSE 0)
        BY DEF MessageOK
      <3>3. QED
        BY <1>3, <1>6, <3>1, <3>2
    <2>3. IsFiniteSet(y.named)
      BY <1>6 DEF MessageOK
    <2>4. QED
      BY <1>6, <2>1, <2>2, <2>3 DEF MessageOK
  <1>8. QED
    BY <1>3, <1>6, <1>7

\* A message that is given up, or went to all that are left.
LEMMA GivenUpOK ==
  ASSUME NEW x \in MessageSet, MessageOK(x), NEW y, y = Ending(x, "GIVEN UP")
  PROVE  y \in MessageSet /\ MessageOK(y)
  <1>1. PICK how : how = "GIVEN UP"
    BY Zenon
  <1>2. how \in Ends /\ how # "SENT" /\ y = Ending(x, how)
    BY <1>1, Zenon DEF Ends
  <1>3. /\ y \in MessageSet /\ y.named = x.named /\ y.reached = x.reached
        /\ y.end = how
    BY <1>2, EndingIs, Zenon
  <1>4. y.end # "SENT"
    BY <1>2, <1>3, Zenon
  <1>5. MessageOK(y)
    <2>1. y.named = x.named /\ y.reached = x.reached
      BY <1>3, Zenon
    <2>2. /\ IsFiniteSet(x.named)
          /\ \A u \in Users : x.reached[u] <= (IF u \in x.named THEN 1 ELSE 0)
      BY Zenon DEF MessageOK
    <2>3. QED
      BY <1>4, <2>1, <2>2, Zenon DEF MessageOK
  <1>6. QED
    BY <1>3, <1>5, Zenon

LEMMA SentOK ==
  ASSUME NEW x \in MessageSet, MessageOK(x), NEW rcpt \in Seq(Users \cup {Gone}),
         ListOK(rcpt, x), NEW S, ToSet(rcpt) \cap Users \subseteq S,
         NEW y, y = Ending(Reaching(x, rcpt, S), "SENT")
  PROVE  y \in MessageSet /\ MessageOK(y)
  <1>1. PICK z : z = Reaching(x, rcpt, S)
    OBVIOUS
  <1>2. /\ z \in MessageSet /\ z.named = x.named /\ z.end = x.end /\ MessageOK(z)
        /\ \A u \in Users : u \in ToSet(rcpt) /\ u \in S => z.reached[u] = 1
        /\ \A u \in Users : ~ (u \in ToSet(rcpt) /\ u \in S) => z.reached[u] = x.reached[u]
    BY <1>1, ReachingIs
  <1>3. y = Ending(z, "SENT") /\ "SENT" \in Ends
    BY <1>1 DEF Ends
  <1>4. y \in MessageSet /\ y.named = z.named /\ y.reached = z.reached /\ y.end = "SENT"
    BY <1>2, <1>3, EndingIs
  <1>5. ASSUME NEW u \in Users, u \in y.named, Fits(y)
        PROVE  y.reached[u] = 1
    <2>1. Fits(x) /\ u \in x.named
      BY <1>2, <1>4, <1>5 DEF Fits
    <2>2. CASE u \in ToSet(rcpt)
      BY <1>2, <1>4, <2>2
    <2>3. CASE u \notin ToSet(rcpt)
      <3>1. x.reached[u] # 0
        BY <2>1, <2>3 DEF ListOK
      <3>2. x.reached[u] <= 1 /\ x.reached[u] \in Nat
        BY <2>1 DEF MessageOK, MessageSet
      <3>3. QED
        BY <1>2, <1>4, <2>3, <3>1, <3>2
    <2>4. QED
      BY <2>2, <2>3
  <1>6. MessageOK(y)
    <2>1. /\ IsFiniteSet(y.named)
          /\ \A u \in Users : y.reached[u] <= (IF u \in y.named THEN 1 ELSE 0)
      BY <1>2, <1>4 DEF MessageOK
    <2>2. QED
      BY <1>5, <2>1 DEF MessageOK
  <1>7. QED
    BY <1>4, <1>6

\* Who has got the message is off the list.
LEMMA LeftOK ==
  ASSUME NEW x \in MessageSet, MessageOK(x), NEW rcpt \in Seq(Users \cup {Gone}),
         ListOK(rcpt, x), NEW S, S \subseteq ToSet(rcpt), Gone \notin ToSet(rcpt),
         NEW y, y = Reaching(x, rcpt, S), NEW left, left = RcptLeft(rcpt, S)
  PROVE  left \in Seq(Users \cup {Gone}) /\ ListOK(left, y)
  <1>1. /\ y \in MessageSet /\ y.named = x.named /\ y.end = x.end
        /\ \A u \in Users : ~ (u \in ToSet(rcpt) /\ u \in S) => y.reached[u] = x.reached[u]
        /\ \A u \in Users : u \in ToSet(rcpt) /\ u \in S => y.reached[u] = 1
    BY ReachingIs
  <1>2. /\ left \in Seq(Users \cup {Gone}) /\ Len(left) = Len(rcpt)
        /\ DOMAIN left = DOMAIN rcpt
        /\ \A i \in DOMAIN rcpt : left[i] = IF rcpt[i] \in S THEN Gone ELSE rcpt[i]
    BY DEF RcptLeft
  <1>3. Len(left) <= MaxRcpt /\ Len(left) <= Cardinality(y.named) /\ y.end = "OPEN"
    BY <1>1, <1>2 DEF ListOK
  <1>4. \A i, j \in DOMAIN left : left[i] = left[j] /\ left[i] # Gone => i = j
    BY <1>2 DEF ListOK
  <1>5. ASSUME NEW u \in Users, u \in ToSet(left)
        PROVE  u \in y.named /\ y.reached[u] = 0
    <2>1. PICK i \in DOMAIN left : left[i] = u
      BY <1>5 DEF ToSet
    <2>2. u # Gone
      BY NamesAssumption
    <2>3. rcpt[i] = u /\ u \notin S /\ i \in DOMAIN rcpt
      BY <1>2, <2>1, <2>2
    <2>4. u \in ToSet(rcpt)
      BY <2>3 DEF ToSet
    <2>5. u \in x.named /\ x.reached[u] = 0
      BY <2>4 DEF ListOK
    <2>6. QED
      BY <1>1, <2>3, <2>5
  <1>6. ASSUME Fits(y), NEW u \in y.named, y.reached[u] = 0
        PROVE  u \in ToSet(left)
    <2>1. u \in Users
      BY <1>1 DEF MessageSet
    <2>2. ~ (u \in ToSet(rcpt) /\ u \in S)
      BY <1>1, <1>6, <2>1
    <2>3. x.reached[u] = 0 /\ u \in x.named /\ Fits(x)
      BY <1>1, <1>6, <2>1, <2>2 DEF Fits
    <2>4. u \in ToSet(rcpt)
      BY <2>3 DEF ListOK
    <2>5. PICK i \in DOMAIN rcpt : rcpt[i] = u
      BY <2>4 DEF ToSet
    <2>6. left[i] = u /\ i \in DOMAIN left
      BY <1>2, <2>2, <2>4, <2>5
    <2>7. QED
      BY <2>6 DEF ToSet
  <1>7. QED
    BY <1>2, <1>3, <1>4, <1>5, <1>6 DEF ListOK

\* A session that writes a message.
LEMMA WriterServed ==
  ASSUME BaseInv, TextInv, NEW c \in Connected, Serving(c, {"XMSG"}),
         NEW s, s = Session(c), NEW m, m = s.text, NEW x, x = messages[m]
  PROVE  /\ Turn(c) /\ c \in Conns /\ s \in SessionSet /\ s.stato \in States
         /\ m # 0 /\ m \in 1 .. Len(messages) /\ messages \in Seq(MessageSet)
         /\ x \in MessageSet /\ MessageOK(x) /\ ListOK(s.rcpt, x)
         /\ s.rcpt \in Seq(Users \cup {Gone}) /\ s.chat \in Nat
  <1>1. /\ Turn(c) /\ c \in Conns /\ s \in SessionSet /\ s.stato = "XMSG" /\ SessionOK(s)
    BY ServingIs
  <1>2. m # 0 /\ s.stato \in States
    BY <1>1 DEF SessionOK, States
  <1>3. /\ m \in 1 .. Len(messages) /\ x \in MessageSet
        /\ MessageOK(x) /\ ListOK(s.rcpt, x) /\ s.rcpt \in Seq(Users \cup {Gone})
    BY <1>1, <1>2, WriterIs
  <1>4. QED
    BY <1>1, <1>2, <1>3 DEF TextInv, SessionSet

\* The writer sets its state, text and list, and the message.
Changed(seq, m, z) == [seq EXCEPT ![m] = z]

\* The session drops the message or goes on with it.
MayKeep(text, rcpt, m, y) == text \in {0, m} /\ (text = m => ListOK(rcpt, y))

LEMMA WriterStep ==
  ASSUME BaseInv, TextInv, NEW c \in Connected, Serving(c, {"XMSG"}),
         NEW stato, NEW text, NEW rcpt,
         MayBeBusy(stato, text, rcpt, Session(c).chat),
         Serve(c, With(server, c, Busy(Session(c), stato, text, rcpt, Session(c).chat))),
         NEW y \in MessageSet, MessageOK(y),
         messages' = Changed(messages, Session(c).text, y),
         MayKeep(text, rcpt, Session(c).text, y)
  PROVE  Writes(c, text, rcpt) /\ TextInv'
  <1>a. PICK s, m : s = Session(c) /\ m = s.text
    BY Zenon
  <1>b. PICK t : t = Busy(s, stato, text, rcpt, s.chat)
    BY Zenon
  <1>c. /\ MayBeBusy(stato, text, rcpt, s.chat) /\ Serve(c, With(server, c, t))
        /\ s = Session(c) /\ m = s.text /\ t = Busy(s, stato, text, rcpt, s.chat)
    BY <1>a, <1>b, Zenon
  <1>d. messages' = [messages EXCEPT ![m] = y]
    BY <1>a, Zenon DEF Changed
  <1>0. text \in {0, m} /\ (text = m => ListOK(rcpt, y))
    BY <1>a, Zenon DEF MayKeep
  <1>1. /\ Turn(c) /\ c \in Conns /\ s.stato \in States /\ m \in 1 .. Len(messages)
    BY <1>c, WriterServed
  <1>2. PICK sv : sv = With(server, c, t)
    OBVIOUS
  <1>3. Plain(c, sv) /\ sv.sessions[c].text = text /\ sv.sessions[c].rcpt = rcpt
    BY <1>c, <1>1, <1>2, BusyPlain
  <1>4. Writes(c, text, rcpt)
    BY <1>c, <1>1, <1>2, <1>3 DEF Writes
  <1>5. /\ Session(c)'.text = text /\ Session(c)'.rcpt = rcpt
        /\ \A d \in Conns : d # c => /\ Session(d)'.text = Session(d).text
                                     /\ Session(d)'.rcpt = Session(d).rcpt
    BY <1>4, WritesIs
  <1>6. TextInv'
    BY <1>0, <1>1, <1>5, <1>c, <1>d, TextStep
  <1>7. QED
    BY <1>4, <1>6

LEMMA MessageLeftIs ==
  ASSUME NEW s \in SessionSet, NEW t, t = MessageLeft(s)
  PROVE  /\ t = Busy(s, "COMANDI", 0, << >>, s.chat)
         /\ MayBeBusy("COMANDI", 0, << >>, s.chat)
  <1>1. PICK q : q = [s EXCEPT !.rcpt = << >>]
    OBVIOUS
  <1>2. t = TextReset(q)
    BY <1>1 DEF MessageLeft
  <1>3. t = [q EXCEPT !.stato = "COMANDI", !.text = 0]
    BY <1>2 DEF TextReset
  <1>4. q = Busy(s, s.stato, s.text, << >>, s.chat)
    BY <1>1 DEF SessionSet, Busy
  <1>5. t = Busy(s, "COMANDI", 0, << >>, s.chat)
    BY <1>3, <1>4 DEF Busy
  <1>6. s.chat \in Nat
    BY DEF SessionSet
  <1>7. MayBeBusy("COMANDI", 0, << >>, s.chat)
    BY <1>6 DEF MayBeBusy, States
  <1>8. QED
    BY <1>5, <1>7

\* The message of a session is over: SENT or GIVEN UP.
LEMMA MessageOver ==
  ASSUME BaseInv, TextInv, NEW c \in Connected, Serving(c, {"XMSG"}),
         NEW s, s = Session(c), Serve(c, With(server, c, MessageLeft(s))),
         NEW y \in MessageSet, MessageOK(y), messages' = [messages EXCEPT ![s.text] = y]
  PROVE  Writes(c, 0, << >>) /\ TextInv'
  <1>1. PICK m : m = s.text
    OBVIOUS
  <1>2. s \in SessionSet /\ m # 0
    BY <1>1, WriterServed
  <1>3. PICK t : t = MessageLeft(s)
    OBVIOUS
  <1>4. /\ t = Busy(s, "COMANDI", 0, << >>, s.chat)
        /\ MayBeBusy("COMANDI", 0, << >>, s.chat)
    BY <1>2, <1>3, MessageLeftIs
  <1>5. Serve(c, With(server, c, t))
    BY <1>3
  <1>6. messages' = Changed(messages, Session(c).text, y)
    BY Zenon DEF Changed
  <1>7. PICK text, rcpt : text = 0 /\ rcpt = << >>
    OBVIOUS
  <1>8. /\ text # m /\ text \in {0, m} /\ MayBeBusy("COMANDI", text, rcpt, s.chat)
        /\ t = Busy(s, "COMANDI", text, rcpt, s.chat)
    BY <1>2, <1>4, <1>7
  <1>9. MayKeep(text, rcpt, Session(c).text, y)
    BY <1>1, <1>8 DEF MayKeep
  <1>10. Writes(c, text, rcpt) /\ TextInv'
    BY <1>5, <1>6, <1>8, <1>9, WriterStep
  <1>11. QED
    BY <1>7, <1>10

LEMMA GivenUp ==
  ASSUME BaseInv, TextInv, NEW c \in Connected, Serving(c, {"XMSG"}),
         NEW s, s = Session(c), Serve(c, With(server, c, MessageLeft(s))),
         EndMessage(s.text, "GIVEN UP")
  PROVE  Writes(c, 0, << >>) /\ TextInv'
  <1>0. PICK m, x : m = s.text /\ x = messages[m]
    BY Zenon
  <1>1. PICK y : y = Ending(x, "GIVEN UP")
    BY Zenon
  <1>2. m \in 1 .. Len(messages) /\ messages \in Seq(MessageSet) /\ x \in MessageSet /\ MessageOK(x)
    BY <1>0, WriterServed, Zenon
  <1>3. y \in MessageSet /\ MessageOK(y)
    BY <1>1, <1>2, GivenUpOK, Zenon
  <1>5. messages' = [messages EXCEPT ![s.text] = y]
    BY <1>0, <1>1, Zenon DEF EndMessage, Ending
  <1>6. QED
    BY <1>3, <1>5, MessageOver, Zenon

LEMMA DeliveredIs ==
  ASSUME NEW m, NEW rcpt, NEW S
  PROVE  Delivered(m, rcpt, S) = [messages EXCEPT ![m] = Reaching(messages[m], rcpt, S)]
  BY Zenon DEF Reaching, Delivered

LEMMA TwiceChanged ==
  ASSUME NEW D, NEW seq \in Seq(D), NEW m \in 1 .. Len(seq), NEW z \in D, NEW y \in D
  PROVE  /\ Changed(seq, m, z)[m] = z
         /\ Changed(Changed(seq, m, z), m, y) = Changed(seq, m, y)
  <1>1. PICK sent : sent = [seq EXCEPT ![m] = z]
    OBVIOUS
  <1>2. /\ sent \in Seq(D) /\ Len(sent) = Len(seq) /\ sent[m] = z
        /\ DOMAIN sent = DOMAIN seq /\ m \in DOMAIN seq
        /\ \A k \in DOMAIN seq : k # m => sent[k] = seq[k]
    BY <1>1
  <1>3. /\ [sent EXCEPT ![m] = y] = [k \in DOMAIN sent |-> IF k = m THEN y ELSE sent[k]]
        /\ [seq EXCEPT ![m] = y] = [k \in DOMAIN seq |-> IF k = m THEN y ELSE seq[k]]
    BY <1>2
  <1>4. [k \in DOMAIN sent |-> IF k = m THEN y ELSE sent[k]] =
        [k \in DOMAIN seq |-> IF k = m THEN y ELSE seq[k]]
    BY <1>2
  <1>5. [sent EXCEPT ![m] = y] = [seq EXCEPT ![m] = y]
    BY <1>3, <1>4, Zenon
  <1>6. QED
    BY <1>1, <1>2, <1>5, Zenon DEF Changed

\* A message that went to all who are left on the list.
LEMMA SentToAll ==
  ASSUME BaseInv, TextInv, NEW c \in Connected, Serving(c, {"XMSG"}),
         NEW s, s = Session(c), Serve(c, With(server, c, MessageLeft(s))),
         NEW S, ToSet(s.rcpt) \cap Users \subseteq S,
         messages' = [Delivered(s.text, s.rcpt, S) EXCEPT ![s.text].end = "SENT"]
  PROVE  Writes(c, 0, << >>) /\ TextInv'
  <1>1. PICK m, x : m = s.text /\ x = messages[m]
    OBVIOUS
  <1>2. /\ m \in 1 .. Len(messages) /\ messages \in Seq(MessageSet) /\ x \in MessageSet
        /\ MessageOK(x) /\ s.rcpt \in Seq(Users \cup {Gone}) /\ ListOK(s.rcpt, x)
    BY <1>1, WriterServed, Zenon
  <1>3. PICK z : z = Reaching(x, s.rcpt, S)
    OBVIOUS
  <1>4. z \in MessageSet
    BY <1>2, <1>3, ReachingIs, Zenon
  <1>5. PICK y : y = Ending(z, "SENT")
    OBVIOUS
  <1>6. y \in MessageSet /\ MessageOK(y)
    BY <1>2, <1>3, <1>5, SentOK, Zenon
  <1>7. PICK sent : sent = Delivered(m, s.rcpt, S)
    OBVIOUS
  <1>8. [sent EXCEPT ![m].end = "SENT"] = [messages EXCEPT ![m] = y]
    <2>1. sent = Changed(messages, m, z)
      BY <1>1, <1>3, <1>7, DeliveredIs, Zenon DEF Changed
    <2>2. /\ Changed(messages, m, z)[m] = z
          /\ Changed(Changed(messages, m, z), m, y) = Changed(messages, m, y)
      BY <1>2, <1>4, <1>6, TwiceChanged
    <2>3. [sent EXCEPT ![m].end = "SENT"] = Changed(sent, m, Ending(sent[m], "SENT"))
      BY Zenon DEF Ending, Changed
    <2>4. Ending(sent[m], "SENT") = y
      BY <1>5, <2>1, <2>2, Zenon
    <2>5. QED
      BY <2>1, <2>2, <2>3, <2>4, Zenon DEF Changed
  <1>9. messages' = [messages EXCEPT ![s.text] = y]
    BY <1>1, <1>7, <1>8, Zenon
  <1>10. QED
    BY <1>6, <1>9, MessageOver, Zenon

LEMMA XendText ==
  ASSUME BaseInv, TextInv, NEW c \in Connected, NEW empty, Xend(c, empty)
  PROVE  TextInv' /\ \E text, rcpt : Writes(c, text, rcpt)
  <1>1. PICK s, S :
          /\ s = Session(c)
          /\ S = { u \in ToSet(s.rcpt) : SessionsOf(server, u) # {} }
    OBVIOUS
  <1>2. /\ Serving(c, {"XMSG"}) /\ Gone \notin ToSet(s.rcpt)
        /\ \/ /\ Serve(c, With(server, c, MessageLeft(s)))
              /\ EndMessage(s.text, "GIVEN UP")
           \/ /\ ToSet(s.rcpt) \subseteq S
              /\ Serve(c, With(server, c, MessageLeft(s)))
              /\ messages' = [Delivered(s.text, s.rcpt, S) EXCEPT ![s.text].end = "SENT"]
           \/ /\ Serve(c, With(server, c, [s EXCEPT !.rcpt = RcptLeft(@, S)]))
              /\ messages' = Delivered(s.text, s.rcpt, S)
    BY <1>1, Zenon DEF Xend
  <1>3. Serving(c, {"XMSG"}) /\ Gone \notin ToSet(s.rcpt) /\ s = Session(c)
    BY <1>1, <1>2, Zenon
  <1>4. CASE /\ Serve(c, With(server, c, MessageLeft(s)))
             /\ EndMessage(s.text, "GIVEN UP")
    <2>1. Writes(c, 0, << >>) /\ TextInv'
      BY <1>3, <1>4, GivenUp, Zenon
    <2>2. QED
      BY <2>1, Zenon
  <1>5. CASE /\ ToSet(s.rcpt) \subseteq S
             /\ Serve(c, With(server, c, MessageLeft(s)))
             /\ messages' = [Delivered(s.text, s.rcpt, S) EXCEPT ![s.text].end = "SENT"]
    <2>1. ToSet(s.rcpt) \cap Users \subseteq S
      BY <1>5
    <2>2. Writes(c, 0, << >>) /\ TextInv'
      BY <1>3, <1>5, <2>1, SentToAll, Zenon
    <2>3. QED
      BY <2>2, Zenon
  <1>6. CASE /\ Serve(c, With(server, c, [s EXCEPT !.rcpt = RcptLeft(@, S)]))
             /\ messages' = Delivered(s.text, s.rcpt, S)
    <2>1. PICK m, x, left, z : /\ m = s.text /\ x = messages[m]
                               /\ left = RcptLeft(s.rcpt, S) /\ z = Reaching(x, s.rcpt, S)
      OBVIOUS
    <2>2. /\ m \in 1 .. Len(messages) /\ messages \in Seq(MessageSet) /\ x \in MessageSet
          /\ MessageOK(x) /\ s.rcpt \in Seq(Users \cup {Gone}) /\ ListOK(s.rcpt, x)
          /\ s \in SessionSet /\ m # 0 /\ s.chat \in Nat
      BY <1>3, <2>1, WriterServed
    <2>3. z \in MessageSet /\ MessageOK(z)
      BY <2>1, <2>2, ReachingIs
    <2>4. S \subseteq ToSet(s.rcpt)
      BY <1>1
    <2>5. left \in Seq(Users \cup {Gone}) /\ ListOK(left, z)
      BY <1>3, <2>1, <2>2, <2>4, LeftOK
    <2>6. PICK t : t = [s EXCEPT !.rcpt = left]
      OBVIOUS
    <2>7. s.stato = "XMSG"
      BY <1>3, ServingIs
    <2>8. PICK text, stato : text = m /\ stato = "XMSG"
      OBVIOUS
    <2>9. t = Busy(s, stato, text, left, s.chat)
      BY <2>1, <2>2, <2>6, <2>7, <2>8 DEF SessionSet, Busy
    <2>10. Serve(c, With(server, c, t))
      BY <1>6, <2>1, <2>6, Zenon
    <2>11. MayBeBusy(stato, text, left, s.chat)
      BY <2>2, <2>5, <2>8 DEF MayBeBusy, States
    <2>12. messages' = Changed(messages, Session(c).text, z)
      BY <1>3, <1>6, <2>1, DeliveredIs, Zenon DEF Changed
    <2>13. MayKeep(text, left, Session(c).text, z)
      BY <1>3, <2>1, <2>5, <2>8 DEF MayKeep
    <2>15. Writes(c, text, left) /\ TextInv'
      BY <1>3, <2>3, <2>9, <2>10, <2>11, <2>12, <2>13, WriterStep
    <2>16. QED
      BY <2>15, Zenon
  <1>7. QED
    BY <1>2, <1>4, <1>5, <1>6, Zenon

LEMMA XinmText ==
  ASSUME BaseInv, TextInv, NEW c \in Connected, NEW mail, Xinm(c, mail)
  PROVE  TextInv' /\ \E text, rcpt : Writes(c, text, rcpt)
  <1>1. PICK s : s = Session(c)
    OBVIOUS
  <1>2. /\ Serving(c, {"XMSG"}) /\ Serve(c, With(server, c, MessageLeft(s)))
        /\ \/ messages' = [Delivered(s.text, s.rcpt, Users) EXCEPT ![s.text].end = "SENT"]
           \/ EndMessage(s.text, "GIVEN UP")
    BY <1>1, Zenon DEF Xinm, EndMessage
  <1>3. CASE EndMessage(s.text, "GIVEN UP")
    <2>1. Writes(c, 0, << >>) /\ TextInv'
      BY <1>1, <1>2, <1>3, GivenUp, Zenon
    <2>2. QED
      BY <2>1, Zenon
  <1>4. CASE messages' = [Delivered(s.text, s.rcpt, Users) EXCEPT ![s.text].end = "SENT"]
    <2>1. ToSet(s.rcpt) \cap Users \subseteq Users
      OBVIOUS
    <2>2. Writes(c, 0, << >>) /\ TextInv'
      BY <1>1, <1>2, <1>4, <2>1, SentToAll, Zenon
    <2>3. QED
      BY <2>2, Zenon
  <1>5. QED
    BY <1>2, <1>3, <1>4, Zenon

\* The message x, when the sender was told that u is among its recipients.
Naming(x, u) == [x EXCEPT !.named = @ \cup {u}]

Listed(rcpt, u) == IF Len(rcpt) < MaxRcpt THEN Append(rcpt, u) ELSE rcpt

LEMMA NamingOK ==
  ASSUME NEW x \in MessageSet, MessageOK(x), NEW rcpt \in Seq(Users \cup {Gone}),
         ListOK(rcpt, x), NEW u \in Users, u \notin x.named, NEW y, y = Naming(x, u),
         NEW list, list = Listed(rcpt, u)
  PROVE  /\ y \in MessageSet /\ MessageOK(y)
         /\ list \in Seq(Users \cup {Gone}) /\ ListOK(list, y)
  <1>1. /\ y \in MessageSet /\ y.named = x.named \cup {u} /\ y.reached = x.reached
        /\ y.end = x.end
    BY DEF Naming, MessageSet
  <1>2. x.end = "OPEN" /\ "OPEN" # "SENT"
    BY DEF ListOK
  <1>3. PICK named : named = x.named
    OBVIOUS
  <1>4. /\ IsFiniteSet(named \cup {u}) /\ Cardinality(named \cup {u}) = Cardinality(named) + 1
        /\ Cardinality(named) \in Nat
    <2>1. IsFiniteSet(named) /\ u \notin named
      BY <1>3 DEF MessageOK
    <2>2. QED
      BY <2>1, FS_AddElement, FS_CardinalityType
  <1>5. IsFiniteSet(y.named) /\ Cardinality(y.named) = Cardinality(x.named) + 1
        /\ Cardinality(x.named) \in Nat
    BY <1>1, <1>3, <1>4
  <1>6. \A v \in Users : x.reached[v] \in Nat /\ (v \notin x.named => x.reached[v] = 0)
    <2>1. x.reached \in [Users -> Nat]
      BY DEF MessageSet
    <2>2. QED
      BY <2>1 DEF MessageOK
  <1>7. MessageOK(y)
    BY <1>1, <1>2, <1>5, <1>6 DEF MessageOK
  <1>8. MaxRcpt \in Nat
    BY NumbersAssumption
  <1>9. CASE Len(rcpt) < MaxRcpt
    <2>1. list = Append(rcpt, u)
      BY <1>9 DEF Listed
    <2>2. /\ list \in Seq(Users \cup {Gone}) /\ Len(list) = Len(rcpt) + 1
          /\ DOMAIN list = 1 .. Len(rcpt) + 1 /\ DOMAIN rcpt = 1 .. Len(rcpt)
          /\ list[Len(rcpt) + 1] = u /\ Len(rcpt) \in Nat
          /\ \A i \in 1 .. Len(rcpt) : list[i] = rcpt[i]
      BY <2>1
    <2>3. ToSet(list) = ToSet(rcpt) \cup {u}
      <3>1. ASSUME NEW v \in ToSet(list)
            PROVE  v \in ToSet(rcpt) \cup {u}
        <4>1. PICK i \in 1 .. Len(rcpt) + 1 : list[i] = v
          BY <2>2, <3>1 DEF ToSet
        <4>2. i = Len(rcpt) + 1 \/ i \in 1 .. Len(rcpt)
          BY <2>2
        <4>3. QED
          BY <2>2, <4>1, <4>2 DEF ToSet
      <3>2. ASSUME NEW v \in ToSet(rcpt)
            PROVE  v \in ToSet(list)
        <4>1. PICK i \in 1 .. Len(rcpt) : rcpt[i] = v
          BY <2>2, <3>2 DEF ToSet
        <4>2. i \in 1 .. Len(rcpt) + 1 /\ list[i] = v
          BY <2>2, <4>1
        <4>3. QED
          BY <2>2, <4>2 DEF ToSet
      <3>3. u \in ToSet(list)
        <4>1. Len(rcpt) + 1 \in 1 .. Len(rcpt) + 1
          BY <2>2
        <4>2. QED
          BY <2>2, <4>1 DEF ToSet
      <3>4. QED
        BY <3>1, <3>2, <3>3
    <2>4. u \notin ToSet(rcpt)
      BY DEF ListOK
    <2>5. \A i \in 1 .. Len(rcpt) : rcpt[i] # u
      BY <2>2, <2>4 DEF ToSet
    <2>6. \A i, j \in DOMAIN list : list[i] = list[j] /\ list[i] # Gone => i = j
      <3>1. ASSUME NEW i \in 1 .. Len(rcpt) + 1, NEW j \in 1 .. Len(rcpt) + 1,
                   list[i] = list[j], list[i] # Gone
            PROVE  i = j
        <4>1. /\ i = Len(rcpt) + 1 \/ i \in 1 .. Len(rcpt)
              /\ j = Len(rcpt) + 1 \/ j \in 1 .. Len(rcpt)
          BY <2>2
        <4>2. CASE i \in 1 .. Len(rcpt) /\ j \in 1 .. Len(rcpt)
          <5>1. rcpt[i] = rcpt[j] /\ rcpt[i] # Gone
            BY <2>2, <3>1, <4>2
          <5>2. QED
            BY <2>2, <4>2, <5>1 DEF ListOK
        <4>3. CASE ~ (i \in 1 .. Len(rcpt) /\ j \in 1 .. Len(rcpt))
          BY <2>2, <2>5, <3>1, <4>1, <4>3
        <4>4. QED
          BY <4>2, <4>3
      <3>2. QED
        BY <2>2, <3>1
    <2>7. Len(list) <= MaxRcpt /\ Len(list) <= Cardinality(y.named)
      BY <1>5, <1>8, <1>9, <2>2 DEF ListOK
    <2>8. \A v \in Users : v \in ToSet(list) => v \in y.named /\ y.reached[v] = 0
      BY <1>1, <1>6, <2>3 DEF ListOK
    <2>9. ASSUME Fits(y), NEW v \in y.named, y.reached[v] = 0
          PROVE  v \in ToSet(list)
      <3>1. Fits(x)
        BY <1>5, <1>8, <2>9 DEF Fits
      <3>2. v \in x.named => v \in ToSet(rcpt)
        BY <1>1, <2>9, <3>1 DEF ListOK
      <3>3. QED
        BY <1>1, <2>3, <3>2
    <2>10. ListOK(list, y)
      BY <1>1, <1>2, <2>6, <2>7, <2>8, <2>9 DEF ListOK
    <2>11. QED
      BY <1>1, <1>7, <2>2, <2>10
  <1>10. CASE ~ (Len(rcpt) < MaxRcpt)
    <2>1. list = rcpt
      BY <1>10 DEF Listed
    <2>2. Len(rcpt) \in Nat /\ Len(rcpt) <= Cardinality(x.named) /\ Len(rcpt) <= MaxRcpt
      BY DEF ListOK
    <2>3. Cardinality(y.named) > MaxRcpt /\ Len(rcpt) <= Cardinality(y.named)
      BY <1>5, <1>8, <1>10, <2>2
    <2>4. ~ Fits(y)
      BY <1>5, <1>8, <2>3 DEF Fits
    <2>5. \A v \in Users : v \in ToSet(rcpt) => v \in y.named /\ y.reached[v] = 0
      BY <1>1 DEF ListOK
    <2>6. ListOK(rcpt, y)
      BY <1>1, <1>2, <2>2, <2>3, <2>4, <2>5 DEF ListOK
    <2>7. QED
      BY <1>1, <1>7, <2>1, <2>6
  <1>11. QED
    BY <1>9, <1>10

LEMMA DestText ==
  ASSUME BaseInv, TextInv, NEW c \in Connected, NEW u \in Users, Dest(c, u)
  PROVE  TextInv' /\ \E text, rcpt : Writes(c, text, rcpt)
  <1>1. PICK s, m, x, y, list :
          /\ s = Session(c) /\ m = s.text /\ x = messages[m] /\ y = Naming(x, u)
          /\ list = Listed(s.rcpt, u)
    BY Zenon
  <1>2. /\ Serving(c, {"XMSG"}) /\ u \notin x.named
        /\ Serve(c, IF Len(s.rcpt) < MaxRcpt
                    THEN With(server, c, [s EXCEPT !.rcpt = Append(@, u)])
                    ELSE server)
        /\ messages' = [messages EXCEPT ![m].named = @ \cup {u}]
    BY <1>1, Zenon DEF Dest
  <1>3. /\ m \in 1 .. Len(messages) /\ messages \in Seq(MessageSet) /\ x \in MessageSet
        /\ MessageOK(x) /\ s.rcpt \in Seq(Users \cup {Gone}) /\ ListOK(s.rcpt, x)
        /\ s \in SessionSet /\ m # 0 /\ s.chat \in Nat /\ Turn(c) /\ c \in Conns
        /\ s.stato \in States
    BY <1>1, <1>2, WriterServed
  <1>4. /\ y \in MessageSet /\ MessageOK(y)
        /\ list \in Seq(Users \cup {Gone}) /\ ListOK(list, y)
    BY <1>1, <1>2, <1>3, NamingOK
  <1>5. messages' = Changed(messages, m, y)
    BY <1>1, <1>2, Zenon DEF Naming, Changed
  <1>6. CASE Len(s.rcpt) < MaxRcpt
    <2>1. PICK t : t = [s EXCEPT !.rcpt = list]
      OBVIOUS
    <2>2. Serve(c, With(server, c, t))
      BY <1>1, <1>2, <1>6, <2>1 DEF Listed
    <2>3. s.stato = "XMSG"
      BY <1>1, <1>2, ServingIs
    <2>4. PICK text, stato : text = m /\ stato = "XMSG"
      OBVIOUS
    <2>5. t = Busy(s, stato, text, list, s.chat)
      BY <1>1, <1>3, <2>1, <2>3, <2>4 DEF SessionSet, Busy
    <2>6. MayBeBusy(stato, text, list, s.chat)
      BY <1>3, <1>4, <2>4 DEF MayBeBusy, States
    <2>7. MayKeep(text, list, m, y)
      BY <1>4, <2>4 DEF MayKeep
    <2>8. Writes(c, text, list) /\ TextInv'
      BY <1>1, <1>2, <1>4, <1>5, <2>2, <2>5, <2>6, <2>7, WriterStep
    <2>9. QED
      BY <2>8, Zenon
  <1>7. CASE ~ (Len(s.rcpt) < MaxRcpt)
    <2>1. Serve(c, server) /\ list = s.rcpt
      BY <1>1, <1>2, <1>7 DEF Listed
    <2>2. Plain(c, server)
      BY NothingPlain
    <2>3. PICK text : text = m
      OBVIOUS
    <2>4. Writes(c, text, list)
      BY <1>1, <1>3, <2>1, <2>2, <2>3 DEF Writes, Session
    <2>5. /\ Session(c)'.text = m /\ Session(c)'.rcpt = list
          /\ \A d \in Conns : d # c => /\ Session(d)'.text = Session(d).text
                                       /\ Session(d)'.rcpt = Session(d).rcpt
      BY <2>3, <2>4, WritesIs
    <2>6. messages' = [messages EXCEPT ![m] = y] /\ Session(c).text = m
      BY <1>1, <1>5, Zenon DEF Changed
    <2>7. TextInv'
      BY <1>3, <1>4, <2>5, <2>6, TextStep
    <2>8. QED
      BY <2>4, <2>7, Zenon
  <1>8. QED
    BY <1>6, <1>7

LEMMA AtxtText ==
  ASSUME BaseInv, TextInv, NEW c \in Connected, Atxt(c)
  PROVE  TextInv' /\ \E text, rcpt : Writes(c, text, rcpt)
  <1>1. PICK s : s = Session(c)
    OBVIOUS
  <1>2. /\ Serving(c, {"XMSG", "CHAT", "BROAD"})
        /\ Serve(c, With(server, c, MessageLeft(s)))
        /\ s.text = 0 => messages' = messages
    BY <1>1, Zenon DEF Atxt
  <1>0. s.text # 0 => EndMessage(s.text, "GIVEN UP")
    BY <1>1, Zenon DEF Atxt
  <1>3. /\ Turn(c) /\ s.stato \in {"XMSG", "CHAT", "BROAD"} /\ c \in Conns
        /\ s \in SessionSet /\ SessionOK(s)
    BY <1>1, <1>2, ServingIs
  <1>4. CASE s.text # 0
    <2>1. s.stato = "XMSG"
      BY <1>3, <1>4 DEF SessionOK
    <2>2. Serving(c, {"XMSG"})
      BY <1>1, <1>2, <2>1 DEF Serving
    <2>3. Writes(c, 0, << >>) /\ TextInv'
      BY <1>0, <1>1, <1>2, <1>4, <2>2, GivenUp, Zenon
    <2>4. QED
      BY <2>3, Zenon
  <1>5. CASE s.text = 0
    <2>1. messages' = messages /\ s.rcpt = << >>
      BY <1>2, <1>3, <1>5 DEF SessionOK
    <2>2. PICK text, rcpt, stato : text = 0 /\ rcpt = << >> /\ stato = "COMANDI"
      OBVIOUS
    <2>3. PICK t : t = MessageLeft(s)
      OBVIOUS
    <2>4. MayBeBusy(stato, text, rcpt, s.chat) /\ t = Busy(s, stato, text, rcpt, s.chat)
      BY <1>3, <2>2, <2>3, MessageLeftIs
    <2>5. s.stato \in States
      BY <1>3 DEF States
    <2>6. PICK sv : sv = With(server, c, t)
      OBVIOUS
    <2>7. Plain(c, sv) /\ sv.sessions[c].text = text /\ sv.sessions[c].rcpt = rcpt
      BY <1>1, <2>4, <2>5, <2>6, BusyPlain
    <2>8. Serve(c, sv)
      BY <1>2, <2>3, <2>6
    <2>9. Writes(c, text, rcpt)
      BY <1>3, <2>7, <2>8 DEF Writes
    <2>10. /\ Session(c)'.text = text /\ Session(c)'.rcpt = rcpt
           /\ \A d \in Conns : d # c => /\ Session(d)'.text = Session(d).text
                                        /\ Session(d)'.rcpt = Session(d).rcpt
      BY <2>9, WritesIs
    <2>11. \A d \in Conns : /\ Session(d)'.text = Session(d).text
                            /\ Session(d)'.rcpt = Session(d).rcpt
      BY <1>1, <1>5, <2>1, <2>2, <2>10
    <2>12. TextInv'
      BY <2>1, <2>11, TextKept
    <2>13. QED
      BY <2>9, <2>12, Zenon
  <1>6. QED
    BY <1>4, <1>5

LEMMA XmsgText ==
  ASSUME BaseInv, TextInv, NEW c \in Connected, Xmsg(c)
  PROVE  TextInv' /\ \E text, rcpt : Writes(c, text, rcpt)
  <1>1. PICK s, m, msgs, next :
          s = Session(c) /\ m = Len(messages) + 1 /\ msgs = messages /\ next = messages'
    OBVIOUS
  <1>2. /\ Serving(c, {"COMANDI"})
        /\ Serve(c, With(server, c, [s EXCEPT !.stato = "XMSG", !.text = m]))
        /\ next = Append(msgs, NewMessage)
    BY <1>1, Zenon DEF Xmsg
  <1>3. /\ Turn(c) /\ s.stato = "COMANDI" /\ c \in Conns
        /\ s \in SessionSet /\ SessionOK(s)
    BY <1>1, <1>2, ServingIs
  <1>4. s.text = 0 /\ s.rcpt = << >> /\ s.chat \in Nat /\ s.stato \in States
    BY <1>3 DEF SessionOK, SessionSet, States
  <1>5. /\ msgs \in Seq(MessageSet) /\ Len(msgs) \in Nat /\ m = Len(msgs) + 1
        /\ NewMessage \in MessageSet
    BY <1>1, NewMessageOK DEF TextInv
  <1>6. /\ next \in Seq(MessageSet) /\ Len(next) = m /\ next[m] = NewMessage
        /\ \A k \in 1 .. Len(msgs) : next[k] = msgs[k]
    BY <1>2, <1>5
  <1>7. PICK text, rcpt, stato : text = m /\ rcpt = << >> /\ stato = "XMSG"
    OBVIOUS
  <1>8. PICK t : t = [s EXCEPT !.stato = "XMSG", !.text = m]
    OBVIOUS
  <1>9. t = Busy(s, stato, text, rcpt, s.chat)
    BY <1>3, <1>4, <1>7, <1>8 DEF SessionSet, Busy
  <1>10. MayBeBusy(stato, text, rcpt, s.chat)
    <2>1. text \in Nat /\ text # 0 /\ rcpt \in Seq(Users \cup {Gone})
      BY <1>5, <1>7
    <2>2. QED
      BY <1>4, <1>7, <2>1 DEF MayBeBusy, States
  <1>11. PICK sv : sv = With(server, c, t)
    OBVIOUS
  <1>12. Plain(c, sv) /\ sv.sessions[c].text = text /\ sv.sessions[c].rcpt = rcpt
    BY <1>1, <1>4, <1>9, <1>10, <1>11, BusyPlain
  <1>13. Serve(c, sv)
    BY <1>2, <1>8, <1>11
  <1>14. Writes(c, text, rcpt)
    BY <1>3, <1>12, <1>13 DEF Writes
  <1>15. /\ Session(c)'.text = text /\ Session(c)'.rcpt = rcpt
         /\ \A d \in Conns : d # c => /\ Session(d)'.text = Session(d).text
                                      /\ Session(d)'.rcpt = Session(d).rcpt
    BY <1>14, WritesIs
  <1>16. \A k \in 1 .. Len(next) : MessageOK(next[k])
    <2>1. \A k \in 1 .. Len(msgs) : MessageOK(msgs[k])
      BY <1>1 DEF TextInv
    <2>2. ASSUME NEW k \in 1 .. Len(next) PROVE MessageOK(next[k])
      <3>1. k = m \/ k \in 1 .. Len(msgs)
        BY <1>5, <1>6
      <3>2. QED
        BY <1>6, <2>1, <3>1, NewMessageOK
    <2>3. QED
      BY <2>2
  <1>17. \A d \in Conns : WriterOK(Session(d), msgs)
    BY <1>1 DEF TextInv
  <1>18. WriterOK(Session(c)', next)
    BY <1>5, <1>6, <1>7, <1>15, NewMessageOK DEF WriterOK
  <1>19. ASSUME NEW d \in Conns, d # c
         PROVE  WriterOK(Session(d)', next)
    BY <1>5, <1>6, <1>15, <1>17, <1>19 DEF WriterOK
  <1>20. \A d \in Conns : Session(d).text # 0 => Session(d).text # m
    BY <1>5, <1>17 DEF WriterOK
  <1>21. \A d, e \in Conns : d # e /\ Session(d)'.text # 0 => Session(d)'.text # Session(e)'.text
    <2>1. m # 0 /\ \A d, e \in Conns : d # e /\ Session(d).text # 0 => Session(d).text # Session(e).text
      BY <1>5 DEF TextInv
    <2>2. QED
      BY <1>7, <1>15, <1>20, <2>1
  <1>22. TextInv'
    BY <1>1, <1>6, <1>16, <1>18, <1>19, <1>21 DEF TextInv
  <1>23. QED
    BY <1>14, <1>22, Zenon

-----------------------------------------------------------------------------
(***************************************************************************)
(* The commands that others hear of.                                       *)
(***************************************************************************)
\* Session c is served, which makes sv of the server and changes no message.
Makes(c, sv) ==
  /\ Turn(c) /\ messages' = messages /\ Effect(c, sv) /\ Serve(c, sv)
  /\ sv.sessions[c].text = Session(c).text /\ sv.sessions[c].rcpt = Session(c).rcpt

\* A session after cmd_usr1, and the one that it takes over.
Named(s, u) == [s EXCEPT !.user = u, !.stato = "COMANDI"]
TakenOver(s) == [s EXCEPT !.cancella = TRUE]
CheckedIn(s, who, late) ==
  [s EXCEPT !.logged = TRUE, !.present = who, !.leaving = late]

LEMMA NamedIs ==
  ASSUME NEW s \in SessionSet, SessionOK(s), s.stato = "LIC", NEW u \in Users,
         NEW t, t = Named(s, u)
  PROVE  /\ t \in SessionSet /\ SessionOK(t) /\ t.user = u /\ t.stato = "COMANDI"
         /\ ~ t.logged /\ ~ t.cancella /\ t.canale = 0 /\ t.text = s.text /\ t.rcpt = s.rcpt
         /\ t.present = s.present /\ t.inchat = s.inchat
  <1>1. u # NoUser
    BY NamesAssumption
  <1>2. /\ t = [user |-> u, stato |-> "COMANDI", logged |-> s.logged,
                cancella |-> s.cancella, rcpt |-> s.rcpt, text |-> s.text,
                canale |-> s.canale, chat |-> s.chat, idle |-> s.idle,
                warning |-> s.warning, quiet |-> s.quiet, warned |-> s.warned,
                present |-> s.present, inchat |-> s.inchat, leaving |-> s.leaving]
    BY DEF Named, SessionSet
  <1>3. ~ s.logged /\ ~ s.cancella /\ s.canale = 0
    BY DEF SessionOK
  <1>4. t \in SessionSet
    BY <1>2 DEF SessionSet, Kinds
  <1>5. SessionOK(t)
    BY <1>1, <1>2, <1>3 DEF SessionOK
  <1>6. QED
    BY <1>2, <1>3, <1>4, <1>5

LEMMA TakenOverIs ==
  ASSUME NEW s \in SessionSet, SessionOK(s), s.user # NoUser, NEW t, t = TakenOver(s)
  PROVE  /\ t \in SessionSet /\ SessionOK(t) /\ t.user = s.user /\ t.stato = s.stato
         /\ t.logged = s.logged /\ t.cancella /\ t.canale = s.canale /\ t.text = s.text
         /\ t.rcpt = s.rcpt /\ t.idle = s.idle /\ t.warning = s.warning
         /\ t.present = s.present /\ t.inchat = s.inchat
  <1>1. /\ t = [user |-> s.user, stato |-> s.stato, logged |-> s.logged,
                cancella |-> TRUE, rcpt |-> s.rcpt, text |-> s.text,
                canale |-> s.canale, chat |-> s.chat, idle |-> s.idle,
                warning |-> s.warning, quiet |-> s.quiet, warned |-> s.warned,
                present |-> s.present, inchat |-> s.inchat, leaving |-> s.leaving]
    BY DEF TakenOver, SessionSet
  <1>2. t \in SessionSet
    BY <1>1 DEF SessionSet, Kinds
  <1>3. SessionOK(t)
    BY <1>1 DEF SessionOK
  <1>4. QED
    BY <1>1, <1>2, <1>3

LEMMA CheckedInIs ==
  ASSUME NEW s \in SessionSet, SessionOK(s), s.stato = "COMANDI", NEW who \in SUBSET Users,
         NEW late \in SUBSET Heard, NEW t, t = CheckedIn(s, who, late)
  PROVE  /\ t \in SessionSet /\ SessionOK(t) /\ t.user = s.user /\ t.stato = s.stato
         /\ t.logged /\ t.cancella = s.cancella /\ t.canale = s.canale /\ t.text = s.text
         /\ t.rcpt = s.rcpt /\ t.present = who /\ t.inchat = s.inchat
  <1>1. /\ t = [user |-> s.user, stato |-> s.stato, logged |-> TRUE,
                cancella |-> s.cancella, rcpt |-> s.rcpt, text |-> s.text,
                canale |-> s.canale, chat |-> s.chat, idle |-> s.idle,
                warning |-> s.warning, quiet |-> s.quiet, warned |-> s.warned,
                present |-> who, inchat |-> s.inchat, leaving |-> late]
    BY DEF CheckedIn, SessionSet
  <1>2. t \in SessionSet
    BY <1>1 DEF SessionSet, Kinds
  <1>3. SessionOK(t)
    BY <1>1 DEF SessionOK
  <1>4. QED
    BY <1>1, <1>2, <1>3

\* Fields that other sessions keep, whatever their clients are told.
LEMMA ToldEffect ==
  ASSUME BaseInv, NEW c \in Connected, NEW sv, ServerOK(sv), sv.list = server.list,
         \A d \in Conns : d # c => Alike(sv.sessions[d], Session(d)),
         sv.sessions[c].cancella = Session(c).cancella
  PROVE  Effect(c, sv)
  <1>1. "TAKEOVER" \notin commands => \A d \in Conns : ~ sv.sessions[d].cancella
    BY DEF BaseInv, Alike
  <1>2. QED
    BY <1>1 DEF Effect, Alike

LEMMA Usr1Makes ==
  ASSUME BaseInv, NEW c \in Connected, NEW u \in Users, Usr1(c, u),
         NEW earlier, earlier = Newest(server, SessionsOf(server, u))
  PROVE  \E sv : /\ Makes(c, sv)
                 /\ sv.sessions[c] = Named(Session(c), u) /\ Session(c).stato = "LIC"
                 /\ SessionsOf(server, u) = {} => earlier = NoConn
                 /\ SessionsOf(server, u) # {} =>
                      /\ earlier \in SessionsOf(server, u) /\ earlier # c
                      /\ ~ Session(earlier).cancella
                      /\ sv.sessions[earlier] = TakenOver(Session(earlier))
                 /\ \A d \in Conns \ {c, earlier} : sv.sessions[d] = Session(d)
  <1>1. PICK s, S : s = Session(c) /\ S = SessionsOf(server, u)
    OBVIOUS
  <1>2. PICK sv1, sv : /\ sv1 = IF earlier = NoConn THEN server
                                ELSE With(server, earlier, TakenOver(Session(earlier)))
                       /\ sv = With(sv1, c, Named(s, u))
    OBVIOUS
  <1>3. /\ Serving(c, {"LIC"}) /\ messages' = messages
        /\ earlier # NoConn => may("TAKEOVER") /\ ~ Session(earlier).cancella
        /\ Serve(c, sv)
    BY <1>1, <1>2, Zenon DEF Usr1, Named, TakenOver
  <1>4. /\ Turn(c) /\ s.stato = "LIC" /\ ServerOK(server) /\ c \in ToSet(server.list)
        /\ c \in Conns /\ s \in SessionSet /\ SessionOK(s)
    BY <1>1, <1>3, ServingIs
  <1>5. PICK t : t = Named(s, u)
    OBVIOUS
  <1>6. /\ t \in SessionSet /\ SessionOK(t) /\ ~ t.cancella
        /\ t.text = s.text /\ t.rcpt = s.rcpt
    BY <1>4, <1>5, NamedIs
  <1>7. S \in SUBSET ToSet(server.list) /\ \A d \in S : Session(d).user = u
    BY <1>1 DEF SessionsOf, Session
  <1>8. /\ S = {} => earlier = NoConn
        /\ S # {} => earlier \in S
    BY <1>1, <1>4, <1>7, NewestFound, Parts
  <1>9. u # NoUser /\ s.user = NoUser
    BY <1>4, NamesAssumption DEF SessionOK
  <1>10. c \notin S
    BY <1>1, <1>7, <1>9
  <1>11. \A d \in ToSet(server.list) : d \in Conns
    BY <1>4, Parts
  <1>12. CASE S = {}
    <2>1. earlier = NoConn /\ sv1 = server
      BY <1>2, <1>8, <1>12
    <2>2. /\ ServerOK(sv) /\ sv.list = server.list /\ sv.sessions[c] = t
          /\ \A d \in Conns : d # c => sv.sessions[d] = server.sessions[d]
      BY <1>2, <1>4, <1>5, <1>6, <2>1, WithIs
    <2>3. "TAKEOVER" \notin commands => \A d \in Conns : ~ sv.sessions[d].cancella
      BY <1>6, <2>2 DEF BaseInv, Session
    <2>4. Effect(c, sv)
      BY <2>2, <2>3 DEF Effect, Session
    <2>5. Makes(c, sv)
      BY <1>1, <1>3, <1>4, <1>6, <2>2, <2>4 DEF Makes
    <2>6. QED
      BY <1>1, <1>4, <1>5, <1>12, <2>1, <2>2, <2>5 DEF Session
  <1>13. CASE S # {}
    <2>1. earlier \in S /\ earlier # c /\ earlier \in Conns /\ earlier \in ToSet(server.list)
      BY <1>7, <1>8, <1>10, <1>11, <1>13
    <2>2. earlier # NoConn
      BY <2>1, NamesAssumption
    <2>3. PICK e, f : e = Session(earlier) /\ f = TakenOver(e)
      OBVIOUS
    <2>4. may("TAKEOVER") /\ ~ e.cancella /\ sv1 = With(server, earlier, f)
      BY <1>2, <1>3, <2>2, <2>3
    <2>5. e \in SessionSet /\ SessionOK(e) /\ e.user = u
      BY <1>4, <1>7, <2>1, <2>3, Parts DEF Session
    <2>6. /\ f \in SessionSet /\ SessionOK(f) /\ f.stato = e.stato /\ f.text = e.text
          /\ f.rcpt = e.rcpt /\ f.idle = e.idle /\ f.warning = e.warning
      BY <1>9, <2>3, <2>5, TakenOverIs
    <2>7. /\ ServerOK(sv1) /\ sv1.list = server.list /\ sv1.sessions[earlier] = f
          /\ \A d \in Conns : d # earlier => sv1.sessions[d] = server.sessions[d]
      BY <1>4, <2>1, <2>4, <2>6, WithIs
    <2>8. /\ ServerOK(sv) /\ sv.list = server.list /\ sv.sessions[c] = t
          /\ \A d \in Conns : d # c => sv.sessions[d] = sv1.sessions[d]
      BY <1>2, <1>4, <1>5, <1>6, <2>7, WithIs
    <2>9. sv.sessions[earlier] = f /\ \A d \in Conns \ {c, earlier} : sv.sessions[d] = Session(d)
      BY <2>1, <2>7, <2>8 DEF Session
    <2>10. "TAKEOVER" \in commands
      BY <2>4 DEF may
    <2>11. ASSUME NEW d \in Conns, d # c
           PROVE  LET q == Session(d)
                      r == sv.sessions[d]
                  IN  /\ r.idle = q.idle /\ r.warning = q.warning
                      /\ r.text = q.text /\ r.rcpt = q.rcpt
                      /\ r.stato = q.stato
      <3>1. CASE d = earlier
        BY <2>3, <2>6, <2>9, <3>1
      <3>2. CASE d # earlier
        BY <2>9, <2>11, <3>2
      <3>3. QED
        BY <3>1, <3>2
    <2>12. Effect(c, sv)
      BY <2>8, <2>10, <2>11 DEF Effect
    <2>13. Makes(c, sv)
      BY <1>1, <1>3, <1>4, <1>6, <2>8, <2>12 DEF Makes
    <2>14. QED
      BY <1>1, <1>4, <1>5, <1>13, <2>1, <2>3, <2>4, <2>8, <2>9, <2>13
  <1>14. QED
    BY <1>12, <1>13

LEMMA ChekMakes ==
  ASSUME BaseInv, NEW c \in Connected, Chek(c)
  PROVE  \E sv : /\ Makes(c, sv) /\ Session(c).user \in Users /\ ~ Session(c).logged
                 /\ Session(c).stato = "COMANDI"
                 /\ sv.sessions[c] = CheckedIn(Session(c), LoggedIn(server, c), LateIn(server, c))
                 /\ LoggedIn(server, c) \subseteq Users
                 /\ LateIn(server, c) \in SUBSET Heard
                 /\ \A d \in Conns : d # c =>
                      sv.sessions[d] = ToldOfLogin(server, c).sessions[d]
  <1>1. PICK s, told, who, late : /\ s = Session(c) /\ told = ToldOfLogin(server, c)
                                  /\ who = LoggedIn(server, c) /\ late = LateIn(server, c)
    OBVIOUS
  <1>2. PICK t, sv : t = CheckedIn(s, who, late) /\ sv = With(told, c, t)
    OBVIOUS
  <1>3. /\ Serving(c, {"COMANDI"}) /\ ~ s.logged /\ messages' = messages /\ Serve(c, sv)
    BY <1>1, <1>2, Zenon DEF Chek, CheckedIn, LoggedIn, LateIn
  <1>4. /\ Turn(c) /\ s.stato = "COMANDI" /\ ServerOK(server) /\ c \in ToSet(server.list)
        /\ c \in Conns /\ s \in SessionSet /\ SessionOK(s)
    BY <1>1, <1>3, ServingIs
  <1>5. s.user \in Users
    BY <1>4 DEF SessionOK, SessionSet
  <1>6. who \subseteq Users /\ late \in SUBSET Heard
    <2>1. ASSUME NEW d \in ToSet(server.list), server.sessions[d].user # NoUser
          PROVE  server.sessions[d].user \in Users
      <3>1. server.sessions[d] \in SessionSet
        BY <1>4, Parts
      <3>2. QED
        BY <2>1, <3>1 DEF SessionSet
    <2>2. who \subseteq Users
      BY <1>1, <2>1 DEF LoggedIn, UsersOf, Staying, Hwho
    <2>3. late \in SUBSET Heard
      BY <1>1, <2>1, NamedLateIs DEF LateIn, Hwho
    <2>4. QED
      BY <2>2, <2>3
  <1>7. /\ t \in SessionSet /\ SessionOK(t) /\ t.cancella = s.cancella
        /\ t.text = s.text /\ t.rcpt = s.rcpt
    BY <1>2, <1>4, <1>6, CheckedInIs
  <1>8. /\ ServerOK(told) /\ told.list = server.list
        /\ \A d \in Conns : Alike(told.sessions[d], server.sessions[d])
    BY <1>1, <1>4, <1>5, ToldOfLoginIs DEF Session
  <1>9. /\ ServerOK(sv) /\ sv.list = server.list /\ sv.sessions[c] = t
        /\ \A d \in Conns : d # c => sv.sessions[d] = told.sessions[d]
    BY <1>2, <1>4, <1>7, <1>8, WithIs
  <1>10. Effect(c, sv)
    BY <1>1, <1>7, <1>8, <1>9, ToldEffect DEF Session
  <1>11. Makes(c, sv)
    BY <1>1, <1>3, <1>4, <1>7, <1>9, <1>10 DEF Makes
  <1>12. QED
    BY <1>1, <1>2, <1>3, <1>4, <1>5, <1>6, <1>9, <1>11

LEMMA QuitMakes ==
  ASSUME BaseInv, NEW c \in Connected, Quit(c)
  PROVE  Makes(c, Left(server, c)) /\ Session(c).stato \in States
  <1>1. PICK s, sv : s = Session(c) /\ sv = Left(server, c)
    OBVIOUS
  <1>2. Serving(c, States) /\ messages' = messages /\ Serve(c, sv)
    BY <1>1, Zenon DEF Quit, States
  <1>3. /\ Turn(c) /\ s.stato \in States /\ ServerOK(server) /\ c \in ToSet(server.list)
        /\ c \in Conns /\ s \in SessionSet /\ SessionOK(s)
    BY <1>1, <1>2, ServingIs
  <1>4. /\ ServerOK(sv) /\ sv.list = server.list
        /\ sv.sessions[c] = [s EXCEPT !.stato = "CHIUSA"]
        /\ \A d \in Conns : d # c => sv.sessions[d] = ToldOfLogout(server, c).sessions[d]
    BY <1>1, <1>3, LeftIs DEF Session
  <1>5. \A d \in Conns : d # c => Alike(sv.sessions[d], Session(d))
    BY <1>3, <1>4, ToldOfLogoutIs DEF Session
  <1>6. PICK t : t = [s EXCEPT !.stato = "CHIUSA"]
    OBVIOUS
  <1>7. t.cancella = s.cancella /\ t.text = s.text /\ t.rcpt = s.rcpt
    BY <1>3, <1>6 DEF SessionSet
  <1>8. Effect(c, sv)
    BY <1>1, <1>4, <1>5, <1>6, <1>7, ToldEffect
  <1>9. QED
    BY <1>1, <1>2, <1>3, <1>4, <1>6, <1>7, <1>8 DEF Makes

LEMMA NobodyIs ==
  ASSUME NEW s \in SessionSet, NEW t, t = Nobody(s)
  PROVE  /\ t.user = NoUser /\ t.stato = "CHIUSA" /\ t.cancella = s.cancella
         /\ t.rcpt = s.rcpt /\ t.text = s.text /\ t.logged = s.logged
         /\ t.canale = s.canale /\ t.idle = s.idle /\ t.warning = s.warning
         /\ t.present = s.present /\ t.inchat = s.inchat
  BY DEF Nobody, SessionSet

LEMMA CusrMakes ==
  ASSUME BaseInv, NEW c \in Connected, NEW u \in Users, Cusr(c, u)
  PROVE  Makes(c, AllThrownOut(server, u)) /\ Session(c).stato = "COMANDI"
  <1>1. PICK s, sv : s = Session(c) /\ sv = AllThrownOut(server, u)
    OBVIOUS
  <1>2. Serving(c, {"COMANDI"}) /\ messages' = messages /\ Serve(c, sv) /\ s.user # u
    BY <1>1, Zenon DEF Cusr
  <1>3. /\ Turn(c) /\ s.stato = "COMANDI" /\ ServerOK(server) /\ c \in ToSet(server.list)
        /\ c \in Conns /\ s \in SessionSet /\ SessionOK(s)
    BY <1>1, <1>2, ServingIs
  <1>4. OnlyThese(sv, server, ToSet(server.list), Expelled(u))
    BY <1>1, <1>3, AllThrownOutIs
  <1>5. ServerOK(sv) /\ sv.list = server.list
    BY <1>4 DEF OnlyThese
  <1>6. ASSUME NEW d \in Conns
        PROVE  LET q == Session(d)
                   r == sv.sessions[d]
               IN  /\ r.idle = q.idle /\ r.warning = q.warning
                   /\ r.text = q.text /\ r.rcpt = q.rcpt /\ r.cancella = q.cancella
                   /\ r.stato = q.stato \/ r.stato = "CHIUSA"
    <2>1. PICK q, r : q = Session(d) /\ r = sv.sessions[d]
      OBVIOUS
    <2>2. Alike(r, Expelled(u)[q]) \/ Alike(r, q)
      BY <1>4, <2>1 DEF OnlyThese, Session
    <2>3. q \in SessionSet
      BY <1>3, <2>1, Parts DEF Session
    <2>4. Expelled(u)[q] = Nobody(q) \/ Expelled(u)[q] = q
      BY <2>3 DEF Expelled
    <2>5. Alike(r, Nobody(q)) \/ Alike(r, q)
      BY <2>2, <2>4
    <2>6. PICK n : n = Nobody(q)
      OBVIOUS
    <2>7. QED
      BY <2>1, <2>3, <2>5, <2>6, NobodyIs DEF Alike
  <1>7. Effect(c, sv)
    BY <1>5, <1>6 DEF Effect, BaseInv
  <1>8. QED
    BY <1>1, <1>2, <1>3, <1>6, <1>7 DEF Makes

\* The server in which the client comes into the channel, out of another or none.
LEMMA CascMakes ==
  ASSUME BaseInv, NEW c \in Connected, NEW canale \in Channels, Casc(c, canale)
  PROVE  /\ Session(c).logged /\ Session(c).user \in Users /\ Session(c).stato = "COMANDI"
         /\ \/ Quietly(c)
            \/ \E out, sv :
                 /\ out = IF Session(c).canale = 0 THEN server ELSE ToldOfExit(server, c)
                 /\ sv = In(out, c, canale) /\ Makes(c, sv)
                 /\ Session(c).canale # canale
  <1>1. PICK s, out, sv : /\ s = Session(c)
                          /\ out = IF s.canale = 0 THEN server ELSE ToldOfExit(server, c)
                          /\ sv = In(out, c, canale)
    OBVIOUS
  <1>2. Joined(server, c, canale) = sv
    BY <1>1 DEF Joined, Session
  <1>3. /\ Serving(c, {"COMANDI"}) /\ messages' = messages /\ s.logged
        /\ Serve(c, IF s.canale = canale THEN server ELSE sv)
    BY <1>1, <1>2, Zenon DEF Casc
  <1>4. /\ Turn(c) /\ s.stato = "COMANDI" /\ ServerOK(server) /\ c \in ToSet(server.list)
        /\ c \in Conns /\ s \in SessionSet /\ SessionOK(s)
    BY <1>1, <1>3, ServingIs
  <1>5. s.user \in Users
    BY <1>4 DEF SessionOK, SessionSet
  <1>6. CASE s.canale = canale
    <2>1. Plain(c, server) /\ Serve(c, server)
      BY <1>3, <1>6, NothingPlain
    <2>2. Quietly(c)
      BY <1>3, <1>4, <2>1 DEF Quietly, Writes, Session
    <2>3. QED
      BY <1>1, <1>3, <1>4, <1>5, <2>2
  <1>7. CASE s.canale # canale
    <2>1. /\ ServerOK(out) /\ out.list = server.list /\ out.sessions[c] = s
          /\ \A d \in Conns : Alike(out.sessions[d], server.sessions[d])
      <3>1. CASE s.canale = 0
        BY <1>1, <1>4, <3>1 DEF Alike, Session
      <3>2. CASE s.canale # 0
        BY <1>1, <1>4, <3>2, ToldOfExitIs DEF Session
      <3>3. QED
        BY <3>1, <3>2
    <2>2. PICK who, late : /\ who = InTheChannel(out, canale, c)
                           /\ late = LateInTheChannel(out, canale, c)
      OBVIOUS
    <2>3. PICK t : t = Entered(s, canale, who, late)
      OBVIOUS
    <2>4. /\ ServerOK(sv) /\ sv.list = server.list /\ sv.sessions[c] = t
          /\ \A d \in Conns : d # c =>
               sv.sessions[d] = ToldOfEntry(out, c, canale).sessions[d]
      BY <1>1, <1>3, <1>4, <1>5, <2>1, <2>2, <2>3, InIs
    <2>5. \A d \in Conns : Alike(ToldOfEntry(out, c, canale).sessions[d], out.sessions[d])
      BY <1>4, <1>5, <2>1, ToldOfEntryIs
    <2>6. \A d \in Conns : d # c => Alike(sv.sessions[d], Session(d))
      BY <2>1, <2>4, <2>5 DEF Alike, Session
    <2>7. t.cancella = s.cancella /\ t.text = s.text /\ t.rcpt = s.rcpt
      BY <1>4, <2>3, EnteredIs
    <2>8. Effect(c, sv)
      BY <1>1, <2>4, <2>6, <2>7, ToldEffect
    <2>9. Makes(c, sv)
      BY <1>1, <1>3, <1>4, <1>7, <2>4, <2>7, <2>8 DEF Makes
    <2>10. QED
      BY <1>1, <1>3, <1>4, <1>5, <1>7, <2>9
  <1>8. QED
    BY <1>6, <1>7

LEMMA ClasMakes ==
  ASSUME BaseInv, NEW c \in Connected, Clas(c)
  PROVE  /\ Makes(c, OutOfChat(server, c))
         /\ Session(c).canale # 0 /\ Session(c).stato = "COMANDI"
  <1>1. PICK s, sv : s = Session(c) /\ sv = OutOfChat(server, c)
    OBVIOUS
  <1>2. Serving(c, {"COMANDI"}) /\ messages' = messages /\ Serve(c, sv) /\ s.canale # 0
    BY <1>1, Zenon DEF Clas
  <1>3. /\ Turn(c) /\ s.stato = "COMANDI" /\ ServerOK(server) /\ c \in ToSet(server.list)
        /\ c \in Conns /\ s \in SessionSet /\ SessionOK(s)
    BY <1>1, <1>2, ServingIs
  <1>4. PICK t : t = Outside(s)
    OBVIOUS
  <1>5. /\ ServerOK(sv) /\ sv.list = server.list /\ sv.sessions[c] = t
        /\ \A d \in Conns : d # c => sv.sessions[d] = ToldOfExit(server, c).sessions[d]
    BY <1>1, <1>3, <1>4, OutOfChatIs DEF Session
  <1>6. \A d \in Conns : d # c => Alike(sv.sessions[d], Session(d))
    BY <1>3, <1>5, ToldOfExitIs DEF Session
  <1>7. t.cancella = s.cancella /\ t.text = s.text /\ t.rcpt = s.rcpt
    BY <1>3, <1>4, OutsideIs
  <1>8. Effect(c, sv)
    BY <1>1, <1>5, <1>6, <1>7, ToldEffect
  <1>9. QED
    BY <1>1, <1>2, <1>3, <1>5, <1>7, <1>8 DEF Makes

-----------------------------------------------------------------------------
(***************************************************************************)
(* A pass begins and ends.                                                 *)
(***************************************************************************)
\* The largest of the limits.
LEMMA MaxOfThree ==
  ASSUME NEW a \in Nat, NEW b \in Nat, NEW c \in Nat, NEW m, m = Max({a, b, c})
  PROVE  m \in {a, b, c} /\ a <= m /\ b <= m /\ c <= m
  <1>1. PICK x \in {a, b, c} : \A y \in {a, b, c} : x >= y
    <2>1. (a >= b /\ a >= c) \/ (b >= a /\ b >= c) \/ (c >= a /\ c >= b)
      OBVIOUS
    <2>2. QED
      BY <2>1
  <1>2. m \in {a, b, c} /\ \A y \in {a, b, c} : m >= y
    BY <1>1 DEF Max
  <1>3. QED
    BY <1>2

\* A session after a minute.
LEMMA TickedIs ==
  ASSUME NEW s \in SessionSet, NEW t, t = Ticked(s)
  PROVE  /\ t \in SessionSet /\ t.user = s.user /\ t.stato = s.stato
         /\ t.logged = s.logged /\ t.cancella = s.cancella /\ t.rcpt = s.rcpt
         /\ t.text = s.text /\ t.canale = s.canale /\ t.warning = s.warning
         /\ t.warned = s.warned /\ t.present = s.present /\ t.inchat = s.inchat
         /\ t.idle = IF may("IDLE") THEN AtMost(s.idle + 1, IdleCap) ELSE s.idle
         /\ t.quiet = IF may("IDLE") THEN AtMost(s.quiet + 1, IdleCap) ELSE s.quiet
  <1>1. IdleCap \in Nat /\ ChatCap \in Nat
    <2>1. /\ IdleWarning \in Nat /\ IdleLogout \in Nat /\ MaxIdle \in Nat
          /\ LoginTimeout \in Nat /\ ChatTimeout \in Nat
      BY NumbersAssumption
    <2>2. PICK m : m = Max({IdleWarning, IdleLogout, MaxIdle})
      OBVIOUS
    <2>3. m \in Nat
      BY <2>1, <2>2, MaxOfThree
    <2>4. QED
      BY <2>1, <2>2, <2>3 DEF IdleCap, ChatCap
  <1>2. PICK idle, quiet, chat :
          /\ idle = IF may("IDLE") THEN AtMost(s.idle + 1, IdleCap) ELSE s.idle
          /\ quiet = IF may("IDLE") THEN AtMost(s.quiet + 1, IdleCap) ELSE s.quiet
          /\ chat = IF may("CHAT_IDLE") /\ s.canale # 0
                    THEN AtMost(s.chat + 1, ChatCap) ELSE s.chat
    OBVIOUS
  <1>3. idle \in Nat /\ quiet \in Nat /\ chat \in Nat
    BY <1>1, <1>2 DEF SessionSet, AtMost
  <1>4. t = [s EXCEPT !.idle = idle, !.quiet = quiet, !.chat = chat]
    BY <1>2, Zenon DEF Ticked
  <1>5. /\ t = [user |-> s.user, stato |-> s.stato, logged |-> s.logged,
                cancella |-> s.cancella, rcpt |-> s.rcpt, text |-> s.text,
                canale |-> s.canale, chat |-> chat, idle |-> idle,
                warning |-> s.warning, quiet |-> quiet, warned |-> s.warned,
                present |-> s.present, inchat |-> s.inchat, leaving |-> s.leaving]
    BY <1>4 DEF SessionSet
  <1>6. t \in SessionSet
    BY <1>3, <1>5 DEF SessionSet
  <1>7. QED
    BY <1>2, <1>5, <1>6

LEMMA TickedOK ==
  ASSUME NEW s \in SessionSet, SessionOK(s)
  PROVE  Ticked(s) \in SessionSet /\ SessionOK(Ticked(s))
  <1>1. PICK t : t = Ticked(s)
    OBVIOUS
  <1>2. /\ t \in SessionSet /\ t.user = s.user /\ t.stato = s.stato
        /\ t.logged = s.logged /\ t.cancella = s.cancella /\ t.rcpt = s.rcpt
        /\ t.text = s.text /\ t.canale = s.canale /\ t.warning = s.warning
        /\ t.warned = s.warned
        /\ t.idle = IF may("IDLE") THEN AtMost(s.idle + 1, IdleCap) ELSE s.idle
        /\ t.quiet = IF may("IDLE") THEN AtMost(s.quiet + 1, IdleCap) ELSE s.quiet
    BY <1>1, TickedIs
  <1>3. SessionOK(t)
    BY <1>2 DEF SessionOK
  <1>4. QED
    BY <1>1, <1>2, <1>3

\* The server when a pass begins: with the new connection, a minute later.
Opened(sv, new) ==
  IF new = NoConn THEN sv ELSE [sv EXCEPT !.list = << new >> \o @]

OpenedAt(ticked, new) ==
  /\ ServerOK(ticked)
  /\ ToSet(ticked.list) = Connected \cup ({new} \ {NoConn})
  /\ \A d \in ToSet(ticked.list) : ticked.sessions[d] = Ticked(Session(d))
  /\ \A d \in Conns \ ToSet(ticked.list) : ticked.sessions[d] = Session(d)

LEMMA OpenedIs ==
  ASSUME BaseInv, NEW new \in (Conns \ Connected) \cup {NoConn},
         NEW sv, sv = Opened(server, new)
  PROVE  /\ sv.list \in Seq(Conns) /\ IsInjective(sv.list) /\ sv.sessions = server.sessions
         /\ ToSet(sv.list) = Connected \cup ({new} \ {NoConn})
         /\ sv = [list |-> sv.list, sessions |-> sv.sessions]
  <1>1. ServerOK(server)
    BY DEF BaseInv
  <1>2. /\ server.list \in Seq(Conns) /\ IsInjective(server.list)
        /\ Connected = ToSet(server.list)
        /\ server = [list |-> server.list, sessions |-> server.sessions]
    BY <1>1, Parts DEF Connected
  <1>3. CASE new = NoConn
    <2>1. sv = server
      BY <1>3 DEF Opened
    <2>2. QED
      BY <1>2, <1>3, <2>1
  <1>4. CASE new # NoConn
    <2>1. new \in Conns /\ new \notin ToSet(server.list) /\ {new} \ {NoConn} = {new}
      BY <1>2, <1>4
    <2>2. PICK list : list = << new >> \o server.list
      OBVIOUS
    <2>3. list \in Seq(Conns) /\ IsInjective(list) /\ ToSet(list) = Connected \cup {new}
      BY <1>2, <2>1, <2>2, PutInFront
    <2>4. sv = [server EXCEPT !.list = << new >> \o @]
      BY <1>4, Zenon DEF Opened
    <2>5. sv = [server EXCEPT !.list = list]
      BY <2>2, <2>4, Zenon
    <2>6. sv = [list |-> list, sessions |-> server.sessions]
      BY <1>2, <2>5
    <2>7. QED
      BY <2>1, <2>3, <2>6
  <1>5. QED
    BY <1>3, <1>4

LEMMA PollIs ==
  ASSUME BaseInv, NEW new \in (Conns \ Connected) \cup {NoConn}, NEW lost, Poll(new, lost)
  PROVE  /\ phase = "POLL" /\ phase' = "COMMANDS" /\ turn' = server'.list
         /\ messages' = messages /\ commands' = commands
         /\ \E ticked : OpenedAt(ticked, new) /\ server' = AllDropped(ticked, lost)
  <1>1. PICK sv : sv = Opened(server, new)
    OBVIOUS
  <1>2. PICK ticked : ticked = [sv EXCEPT !.sessions =
                        [c \in Conns |-> IF c \in ToSet(sv.list) THEN Ticked(@[c]) ELSE @[c]]]
    OBVIOUS
  <1>3. /\ phase = "POLL" /\ phase' = "COMMANDS" /\ turn' = server'.list
        /\ messages' = messages /\ commands' = commands /\ server' = AllDropped(ticked, lost)
    BY <1>1, <1>2, Zenon DEF Poll, Opened
  <1>4. /\ sv.list \in Seq(Conns) /\ IsInjective(sv.list) /\ sv.sessions = server.sessions
        /\ ToSet(sv.list) = Connected \cup ({new} \ {NoConn})
        /\ sv = [list |-> sv.list, sessions |-> sv.sessions]
    BY <1>1, OpenedIs
  <1>5. PICK list, f : /\ list = sv.list
                       /\ f = [c \in Conns |-> IF c \in ToSet(list) THEN Ticked(Session(c))
                                                ELSE Session(c)]
    OBVIOUS
  <1>6. ticked = [list |-> list, sessions |-> f]
    <2>1. ticked = [sv EXCEPT !.sessions =
                      [c \in Conns |-> IF c \in ToSet(list) THEN Ticked(server.sessions[c])
                                       ELSE server.sessions[c]]]
      BY <1>2, <1>4, <1>5, Zenon
    <2>2. ticked = [sv EXCEPT !.sessions = f]
      BY <1>5, <2>1, Zenon DEF Session
    <2>3. QED
      BY <1>4, <1>5, <2>2
  <1>7. ServerOK(server)
    BY DEF BaseInv
  <1>8. \A c \in Conns : Session(c) \in SessionSet /\ SessionOK(Session(c))
    BY <1>7, Parts DEF Session
  <1>9. \A c \in Conns : f[c] \in SessionSet /\ SessionOK(f[c])
    BY <1>5, <1>8, TickedOK
  <1>10. f \in [Conns -> SessionSet]
    BY <1>5, <1>9
  <1>11. \A c \in Conns \ ToSet(list) : f[c] = Fresh
    <2>1. ASSUME NEW c \in Conns, c \notin ToSet(list) PROVE f[c] = Fresh
      <3>1. c \notin ToSet(server.list) /\ f[c] = Session(c)
        BY <1>4, <1>5, <2>1 DEF Connected
      <3>2. QED
        BY <1>7, <3>1, Parts DEF Session
    <2>2. QED
      BY <2>1
  <1>12. ServerOK(ticked)
    <2>1. ticked \in Servers
      BY <1>4, <1>5, <1>6, <1>10 DEF Servers
    <2>2. ticked.list = list /\ ticked.sessions = f
      BY <1>6
    <2>3. QED
      BY <1>4, <1>5, <1>9, <1>11, <2>1, <2>2 DEF ServerOK
  <1>13. ToSet(sv.list) \subseteq Conns
    BY <1>4 DEF ToSet
  <1>14. OpenedAt(ticked, new)
    <2>1. ticked.list = list /\ ticked.sessions = f
      BY <1>6
    <2>2. QED
      BY <1>4, <1>5, <1>12, <1>13, <2>1 DEF OpenedAt
  <1>15. QED
    BY <1>3, <1>14

\* What the end of a pass does, stage by stage.
Stages(taken, written, idled, chatted, broken) ==
  /\ Without(taken, server, { c \in Conns : Session(c).cancella })
  /\ Without(written, taken, broken)
  /\ \A c \in broken : IdleOut(taken.sessions[c])
  /\ idled = FoldLeft(Idled, written, written.list)
  /\ OnlyThese(idled, written, ToSet(written.list), Warned)
  /\ chatted = FoldLeft(ChatIdled, idled, idled.list)
  /\ OnlyThese(chatted, idled, ToSet(idled.list), Silenced)
  /\ Without(server', chatted, { c \in Conns : Over(chatted.sessions[c]) })

LEMMA EndPassIs ==
  ASSUME BaseInv, NEW broken, EndPass(broken)
  PROVE  /\ phase = "COMMANDS" /\ turn = << >> /\ phase' = "POLL"
         /\ commands' = commands /\ turn' = turn /\ messages' = messages
         /\ \E taken, written, idled, chatted :
              Stages(taken, written, idled, chatted, broken)
  <1>1. PICK taken, written :
          /\ taken = AllClosed(server, { c \in Conns : Session(c).cancella })
          /\ written = AllClosed(taken, broken)
    OBVIOUS
  <1>2. PICK idled, chatted : /\ idled = FoldLeft(Idled, written, written.list)
                              /\ chatted = FoldLeft(ChatIdled, idled, idled.list)
    OBVIOUS
  <1>3. /\ phase = "COMMANDS" /\ turn = << >> /\ phase' = "POLL"
        /\ commands' = commands /\ turn' = turn /\ messages' = messages
        /\ server' = AllClosed(chatted, { c \in Conns : Over(chatted.sessions[c]) })
        /\ \A c \in broken : IdleOut(taken.sessions[c])
    BY <1>1, <1>2, Zenon DEF EndPass
  <1>4. ServerOK(server)
    BY DEF BaseInv
  <1>5. Without(taken, server, { c \in Conns : Session(c).cancella })
    BY <1>1, <1>4, AllClosedIs, Zenon
  <1>6. ServerOK(taken)
    BY <1>5 DEF Without
  <1>7. Without(written, taken, broken)
    BY <1>1, <1>6, AllClosedIs, Zenon
  <1>8. ServerOK(written)
    BY <1>7 DEF Without
  <1>9. OnlyThese(idled, written, ToSet(written.list), Warned)
    BY <1>2, <1>8, AllIdledIs, Zenon
  <1>10. ServerOK(idled)
    BY <1>9 DEF OnlyThese
  <1>11. OnlyThese(chatted, idled, ToSet(idled.list), Silenced)
    BY <1>2, <1>10, AllChatIdledIs, Zenon
  <1>12. ServerOK(chatted)
    BY <1>11 DEF OnlyThese
  <1>13. Without(server', chatted, { c \in Conns : Over(chatted.sessions[c]) })
    BY <1>3, <1>12, AllClosedIs, Zenon
  <1>14. Stages(taken, written, idled, chatted, broken)
    BY <1>2, <1>3, <1>5, <1>7, <1>9, <1>11, <1>13, Zenon DEF Stages
  <1>15. QED
    BY <1>3, <1>14, Zenon

\* What the end of a pass makes of a session that stays.
Timed(s) == Silenced[Warned[s]]

LEMMA StagesAre ==
  ASSUME BaseInv, NEW broken, NEW taken, NEW written, NEW idled, NEW chatted,
         Stages(taken, written, idled, chatted, broken), NEW c \in Conns
  PROVE  \/ Session(c)' = Fresh /\ c \notin ToSet(server'.list)
         \/ /\ Session(c) \in SessionSet /\ SessionOK(Session(c)) /\ c \in Connected
            /\ ~ Session(c).cancella /\ c \notin broken
            /\ Alike(Session(c)', Timed(Session(c))) /\ ~ Over(Session(c)')
            /\ Session(c)' \in SessionSet
  <1>1. PICK s, t : s = Session(c) /\ t = Session(c)'
    OBVIOUS
  <1>2. PICK gone, over : /\ gone = { d \in Conns : Session(d).cancella }
                          /\ over = { d \in Conns : Over(chatted.sessions[d]) }
    OBVIOUS
  <1>3. /\ ServerOK(taken) /\ taken.sessions[c] = IF c \in gone THEN Fresh ELSE s
        /\ ServerOK(written)
        /\ written.sessions[c] = IF c \in broken THEN Fresh ELSE taken.sessions[c]
        /\ ServerOK(server') /\ t = IF c \in over THEN Fresh ELSE chatted.sessions[c]
    BY <1>1, <1>2 DEF Stages, Without, Session
  <1>4. /\ ServerOK(idled) /\ idled.list = written.list
        /\ ServerOK(chatted) /\ chatted.list = idled.list
        /\ c \in ToSet(written.list) => /\ Alike(idled.sessions[c], Warned[written.sessions[c]])
                                        /\ Alike(chatted.sessions[c], Silenced[idled.sessions[c]])
    BY DEF Stages, OnlyThese
  <1>5. SUFFICES ASSUME t # Fresh \/ c \in ToSet(server'.list)
        PROVE  /\ s \in SessionSet /\ SessionOK(s) /\ c \in Connected
               /\ ~ s.cancella /\ c \notin broken
               /\ Alike(t, Timed(s)) /\ ~ Over(t) /\ t \in SessionSet
    BY <1>1
  <1>6. t = chatted.sessions[c] /\ ~ Over(t)
    <2>1. c \in ToSet(server'.list) => c \notin over
      BY <1>2 DEF Stages, Without
    <2>2. QED
      BY <1>2, <1>3, <1>5, <2>1
  <1>7. c \in ToSet(written.list)
    <2>1. c \in ToSet(server'.list) => c \in ToSet(chatted.list)
      BY DEF Stages, Without
    <2>2. QED
      BY <1>4, <1>5, <1>6, <2>1, Parts
  <1>8. written.sessions[c] = s /\ c \notin gone /\ c \notin broken /\ c \in Connected
    <2>1. c \in ToSet(taken.list) /\ c \notin broken
      BY <1>7 DEF Stages, Without
    <2>2. c \in ToSet(server.list) /\ c \notin gone
      BY <1>2, <2>1 DEF Stages, Without
    <2>3. QED
      BY <1>3, <2>1, <2>2 DEF Connected
  <1>9. s \in SessionSet /\ SessionOK(s)
    BY <1>3, <1>8, Parts
  <1>10. idled.sessions[c] \in SessionSet /\ t \in SessionSet
    BY <1>4, <1>6, Parts
  <1>11. Warned[s] \in SessionSet
    BY <1>9, WarnedIs
  <1>12. Alike(Silenced[idled.sessions[c]], Silenced[Warned[s]])
    BY <1>4, <1>7, <1>8, <1>10, <1>11, SilencedRespects DEF Respects
  <1>13. Alike(t, Timed(s))
    BY <1>4, <1>6, <1>7, <1>12 DEF Alike, Timed
  <1>14. QED
    BY <1>2, <1>1, <1>6, <1>8, <1>9, <1>10, <1>13

LEMMA TimedIs ==
  ASSUME NEW s \in SessionSet
  PROVE  /\ Timed(s).user = s.user /\ Timed(s).logged = s.logged
         /\ Timed(s).cancella = s.cancella /\ Timed(s).rcpt = s.rcpt
         /\ Timed(s).text = s.text /\ Timed(s).idle = s.idle /\ Timed(s).quiet = s.quiet
         /\ Timed(s).stato = (IF IdleOut(s) THEN "CHIUSA" ELSE s.stato)
         /\ Timed(s).warning = IF IdleOut(s) THEN 2
                               ELSE IF IsWarned(s, 2) THEN 2
                               ELSE IF IsWarned(s, 1) THEN 1 ELSE s.warning
         /\ Timed(s).warned = IF IdleOut(s) THEN s.warned
                              ELSE IF IsWarned(s, 2) THEN 2
                              ELSE IF IsWarned(s, 1) THEN 1 ELSE s.warned
  <1>1. PICK w, t : w = Warned[s] /\ t = Silenced[w]
    OBVIOUS
  <1>2. w \in SessionSet
    BY <1>1, WarnedIs
  <1>3. /\ t.user = w.user /\ t.logged = w.logged /\ t.cancella = w.cancella
        /\ t.rcpt = w.rcpt /\ t.text = w.text /\ t.idle = w.idle /\ t.quiet = w.quiet
        /\ t.stato = w.stato /\ t.warning = w.warning /\ t.warned = w.warned
    BY <1>1, <1>2, SilencedIs
  <1>4. QED
    BY <1>1, <1>3, WarnedIs DEF Timed

-----------------------------------------------------------------------------
(***************************************************************************)
(* The types, and that every recipient gets a message once.                *)
(***************************************************************************)
Makings(c) ==
  \/ Chek(c) \/ Quit(c) \/ Clas(c)
  \/ \E u \in Users : Usr1(c, u) \/ Cusr(c, u)
  \/ \E canale \in Channels : Casc(c, canale)

Textings(c) ==
  \/ Xmsg(c) \/ Atxt(c)
  \/ \E u \in Users : Dest(c, u)
  \/ \E empty \in BOOLEAN : Xend(c, empty)
  \/ \E mail \in BOOLEAN : Xinm(c, mail)

Quiets(c) == Usr1Wrong(c) \/ Ltrm(c) \/ Cmsg(c) \/ Cend(c) \/ Brdc(c) \/ Bend(c)

LEMMA NextIs ==
  ASSUME Next
  PROVE  \/ \E new \in (Conns \ Connected) \cup {NoConn},
               lost \in Subsets(Connected, "LOST") : Poll(new, lost)
         \/ Silent
         \/ \E c \in Connected : Makings(c) \/ Textings(c) \/ Quiets(c)
         \/ \E broken \in Subsets(Connected, "WRITE_ERROR") : EndPass(broken)
  BY Zenon DEF Next, Makings, Textings, Quiets

LEMMA MakingsMake ==
  ASSUME BaseInv, NEW c \in Connected, Makings(c)
  PROVE  Quietly(c) \/ \E sv : Makes(c, sv)
  <1>1. CASE Chek(c)
    BY <1>1, ChekMakes
  <1>2. CASE Quit(c)
    BY <1>2, QuitMakes
  <1>3. CASE Clas(c)
    BY <1>3, ClasMakes
  <1>4. ASSUME NEW u \in Users, Usr1(c, u) PROVE \E sv : Makes(c, sv)
    BY <1>4, Usr1Makes
  <1>5. ASSUME NEW u \in Users, Cusr(c, u) PROVE \E sv : Makes(c, sv)
    BY <1>5, CusrMakes
  <1>6. ASSUME NEW canale \in Channels, Casc(c, canale)
        PROVE  Quietly(c) \/ \E sv : Makes(c, sv)
    BY <1>6, CascMakes
  <1>7. QED
    BY <1>1, <1>2, <1>3, <1>4, <1>5, <1>6 DEF Makings

LEMMA TextingsText ==
  ASSUME BaseInv, TextInv, NEW c \in Connected, Textings(c)
  PROVE  TextInv' /\ \E text, rcpt : Writes(c, text, rcpt)
  <1>1. CASE Xmsg(c)
    BY <1>1, XmsgText
  <1>2. CASE Atxt(c)
    BY <1>2, AtxtText
  <1>3. CASE \E u \in Users : Dest(c, u)
    BY <1>3, DestText, Zenon
  <1>4. CASE \E empty \in BOOLEAN : Xend(c, empty)
    BY <1>4, XendText, Zenon
  <1>5. CASE \E mail \in BOOLEAN : Xinm(c, mail)
    BY <1>5, XinmText, Zenon
  <1>6. QED
    BY <1>1, <1>2, <1>3, <1>4, <1>5, Zenon DEF Textings

LEMMA WritesBase ==
  ASSUME BaseInv, NEW c \in Connected, NEW text, NEW rcpt, Writes(c, text, rcpt)
  PROVE  BaseInv'
  <1>1. Turn(c)
    BY DEF Writes
  <1>2. PICK sv : Plain(c, sv) /\ Serve(c, sv)
    BY DEF Writes
  <1>3. QED
    BY <1>1, <1>2, BaseServed DEF Plain

LEMMA MakesText ==
  ASSUME BaseInv, TextInv, NEW c \in Connected, NEW sv, Makes(c, sv)
  PROVE  BaseInv' /\ TextInv'
  <1>1. /\ Turn(c) /\ messages' = messages /\ Effect(c, sv) /\ Serve(c, sv)
        /\ sv.sessions[c].text = Session(c).text /\ sv.sessions[c].rcpt = Session(c).rcpt
    BY DEF Makes
  <1>2. BaseInv'
    BY <1>1, BaseServed
  <1>3. /\ server'.sessions[c] = IdleCleared(sv.sessions[c])
        /\ \A d \in Conns : d # c => server'.sessions[d] = sv.sessions[d]
    BY <1>1, ServeIs
  <1>4. ServerOK(sv) /\ c \in ToSet(sv.list)
    BY <1>1 DEF Effect, Connected
  <1>5. c \in Conns /\ sv.sessions[c] \in SessionSet /\ SessionOK(sv.sessions[c])
    BY <1>4, Parts
  <1>6. /\ server'.sessions[c].text = sv.sessions[c].text
        /\ server'.sessions[c].rcpt = sv.sessions[c].rcpt
    BY <1>3, <1>5, IdleClearedIs
  <1>7. \A d \in Conns : /\ Session(d)'.text = Session(d).text
                         /\ Session(d)'.rcpt = Session(d).rcpt
    BY <1>1, <1>3, <1>6 DEF Effect, Session
  <1>8. TextInv'
    BY <1>1, <1>7, TextKept
  <1>9. QED
    BY <1>2, <1>8

LEMMA QuietKept ==
  ASSUME BaseInv, TextInv, NEW c \in Connected, Quietly(c)
  PROVE  BaseInv' /\ TextInv'
  <1>1. messages' = messages /\ Writes(c, Session(c).text, Session(c).rcpt)
    BY DEF Quietly
  <1>2. BaseInv'
    BY <1>1, WritesBase
  <1>3. \A d \in Conns : /\ Session(d)'.text = Session(d).text
                         /\ Session(d)'.rcpt = Session(d).rcpt
    BY <1>1, WritesIs
  <1>4. TextInv'
    BY <1>1, <1>3, TextKept
  <1>5. QED
    BY <1>2, <1>4

LEMMA SilentKeeps ==
  ASSUME BaseInv, Silent
  PROVE  BaseInv' /\ UNCHANGED << commands, server, phase, messages >>
  <1>1. turn \in Seq(Conns) /\ turn # << >> /\ turn' = Tail(turn) /\ phase = "COMMANDS"
    BY DEF Silent, BaseInv
  <1>2. UNCHANGED << commands, server, phase, messages >>
    BY DEF Silent
  <1>3. PICK c : c = Head(turn)
    OBVIOUS
  <1>4. Turn(c)
    BY <1>1, <1>2, <1>3 DEF Turn
  <1>5. turn' \in Seq(Conns) /\ IsInjective(turn')
    BY <1>4, TurnIs
  <1>6. \A d \in Conns : Session(d)' = Session(d)
    BY <1>2 DEF Session
  <1>7. QED
    BY <1>2, <1>5, <1>6 DEF BaseInv

LEMMA PollBase ==
  ASSUME BaseInv, TextInv, NEW new \in (Conns \ Connected) \cup {NoConn}, NEW lost,
         Poll(new, lost)
  PROVE  BaseInv' /\ TextInv'
  <1>1. /\ phase = "POLL" /\ phase' = "COMMANDS" /\ turn' = server'.list
        /\ messages' = messages /\ commands' = commands
    BY PollIs
  <1>2. PICK ticked : OpenedAt(ticked, new) /\ server' = AllDropped(ticked, lost)
    BY PollIs
  <1>3. ServerOK(ticked) /\ Carried(server', ticked)
    BY <1>2, AllDroppedIs DEF OpenedAt
  <1>4. ServerOK(server')
    BY <1>3 DEF Carried
  <1>5. turn' \in Seq(Conns) /\ IsInjective(turn')
    BY <1>1, <1>4, Parts
  <1>6. ASSUME NEW d \in Conns
        PROVE  \/ Session(d)' = Fresh
               \/ /\ Session(d)'.text = Session(d).text /\ Session(d)'.rcpt = Session(d).rcpt
                  /\ Session(d)'.cancella = Session(d).cancella
    <2>1. PICK s, t, r : s = Session(d) /\ t = ticked.sessions[d] /\ r = Session(d)'
      OBVIOUS
    <2>2. s \in SessionSet
      BY <2>1, Parts DEF BaseInv, Session
    <2>3. t = s \/ t = Ticked(s)
      BY <1>2, <2>1 DEF OpenedAt
    <2>4. t.text = s.text /\ t.rcpt = s.rcpt /\ t.cancella = s.cancella
      BY <2>2, <2>3, TickedIs
    <2>5. r = Fresh \/ Alike(r, t)
      BY <1>3, <2>1 DEF Carried, Session
    <2>6. QED
      BY <2>1, <2>4, <2>5 DEF Alike
  <1>7. ~ Fresh.cancella
    BY DEF Fresh
  <1>8. "TAKEOVER" \notin commands => \A d \in Conns : ~ Session(d)'.cancella
    BY <1>6, <1>7 DEF BaseInv
  <1>9. BaseInv'
    BY <1>1, <1>4, <1>5, <1>8 DEF BaseInv
  <1>10. TextInv'
    BY <1>1, <1>6, TextKept
  <1>11. QED
    BY <1>9, <1>10

LEMMA EndPassBase ==
  ASSUME BaseInv, TextInv, NEW broken, EndPass(broken)
  PROVE  BaseInv' /\ TextInv'
  <1>1. /\ phase = "COMMANDS" /\ turn = << >> /\ phase' = "POLL"
        /\ commands' = commands /\ turn' = turn /\ messages' = messages
    BY EndPassIs
  <1>2. PICK taken, written, idled, chatted :
          Stages(taken, written, idled, chatted, broken)
    BY EndPassIs
  <1>3. ServerOK(server')
    BY <1>2 DEF Stages, Without
  <1>4. ASSUME NEW d \in Conns
        PROVE  /\ ~ Session(d)'.cancella /\ Session(d)'.stato # "CHIUSA"
               /\ \/ Session(d)' = Fresh
                  \/ /\ Session(d)'.text = Session(d).text
                     /\ Session(d)'.rcpt = Session(d).rcpt
    <2>1. PICK s, t : s = Session(d) /\ t = Session(d)'
      OBVIOUS
    <2>2. \/ t = Fresh
          \/ s \in SessionSet /\ ~ s.cancella /\ Alike(t, Timed(s)) /\ ~ Over(t)
      BY <1>2, <2>1, StagesAre
    <2>3. CASE t = Fresh
      BY <2>1, <2>3 DEF Fresh
    <2>4. CASE s \in SessionSet /\ ~ s.cancella /\ Alike(t, Timed(s)) /\ ~ Over(t)
      BY <2>1, <2>4, TimedIs DEF Alike, Over
    <2>5. QED
      BY <2>2, <2>3, <2>4
  <1>5. AllStay(server')
    BY <1>4 DEF AllStay, Session
  <1>6. BaseInv'
    BY <1>1, <1>3, <1>4, <1>5 DEF BaseInv
  <1>7. TextInv'
    BY <1>1, <1>4, TextKept
  <1>8. QED
    BY <1>6, <1>7

LEMMA BaseInitially == Init => BaseInv /\ TextInv
  <1>1. SUFFICES ASSUME Init PROVE BaseInv /\ TextInv
    OBVIOUS
  <1>2. /\ commands \in CommandSets /\ turn = << >> /\ phase = "POLL" /\ messages = << >>
        /\ server = [list |-> << >>, sessions |-> [c \in Conns |-> Fresh]]
    BY <1>1 DEF Init
  <1>3. server.list = << >> /\ \A c \in Conns : Session(c) = Fresh
    BY <1>2 DEF Session
  <1>4. Fresh \in SessionSet /\ SessionOK(Fresh)
    BY FreshOK
  <1>5. IsInjective(<< >>) /\ ToSet(<< >>) = {}
    BY DEF IsInjective, ToSet
  <1>6. [c \in Conns |-> Fresh] \in [Conns -> SessionSet]
    BY <1>4
  <1>7. server \in Servers
    BY <1>2, <1>6 DEF Servers
  <1>8. ServerOK(server)
    BY <1>3, <1>4, <1>5, <1>7 DEF ServerOK, Session
  <1>9. ~ Fresh.cancella /\ Fresh.stato # "CHIUSA" /\ Fresh.text = 0
    BY DEF Fresh
  <1>10. BaseInv
    BY <1>2, <1>3, <1>5, <1>8, <1>9 DEF BaseInv, AllStay, Session
  <1>11. TextInv
    BY <1>2, <1>3, <1>9 DEF TextInv, WriterOK
  <1>12. QED
    BY <1>10, <1>11

LEMMA BaseStep == BaseInv /\ TextInv /\ [Next]_vars => BaseInv' /\ TextInv'
  <1>1. SUFFICES ASSUME BaseInv, TextInv, [Next]_vars PROVE BaseInv' /\ TextInv'
    OBVIOUS
  <1>2. CASE UNCHANGED vars
    <2>1. UNCHANGED << commands, server, turn, phase, messages >>
      BY <1>2 DEF vars
    <2>2. BaseInv'
      BY <1>1, <2>1 DEF BaseInv, Session
    <2>3. TextInv'
      BY <1>1, <2>1 DEF TextInv, Session
    <2>4. QED
      BY <2>2, <2>3
  <1>3. ASSUME NEW new \in (Conns \ Connected) \cup {NoConn}, NEW lost, Poll(new, lost)
        PROVE  BaseInv' /\ TextInv'
    BY <1>1, <1>3, PollBase
  <1>4. CASE Silent
    <2>1. BaseInv' /\ UNCHANGED << commands, server, phase, messages >>
      BY <1>1, <1>4, SilentKeeps
    <2>2. TextInv'
      BY <1>1, <2>1, TextKept DEF Session
    <2>3. QED
      BY <2>1, <2>2
  <1>5. ASSUME NEW c \in Connected, Makings(c) PROVE BaseInv' /\ TextInv'
    <2>1. CASE Quietly(c)
      BY <1>1, <2>1, QuietKept
    <2>2. ASSUME NEW sv, Makes(c, sv) PROVE BaseInv' /\ TextInv'
      BY <1>1, <2>2, MakesText
    <2>3. QED
      BY <1>1, <1>5, <2>1, <2>2, MakingsMake
  <1>6. ASSUME NEW c \in Connected, Textings(c) PROVE BaseInv' /\ TextInv'
    BY <1>1, <1>6, TextingsText, WritesBase
  <1>7. ASSUME NEW c \in Connected, Quiets(c) PROVE BaseInv' /\ TextInv'
    <2>1. Quietly(c)
      BY <1>1, <1>7, QuietCommands DEF Quiets
    <2>2. QED
      BY <1>1, <2>1, QuietKept
  <1>8. ASSUME NEW broken, EndPass(broken) PROVE BaseInv' /\ TextInv'
    BY <1>1, <1>8, EndPassBase
  <1>9. CASE Next
    BY <1>9, NextIs, <1>3, <1>4, <1>5, <1>6, <1>7, <1>8, Zenon
  <1>10. QED
    BY <1>1, <1>2, <1>9

LEMMA BaseTypes == BaseInv /\ TextInv => TypeOK
  <1>1. SUFFICES ASSUME BaseInv, TextInv PROVE TypeOK
    OBVIOUS
  <1>2. ServerOK(server)
    BY <1>1 DEF BaseInv
  <1>3. /\ IsInjective(server.list) /\ Connected \subseteq Conns
        /\ \A c \in Conns \ Connected : Session(c) = Fresh
    BY <1>2, Parts DEF Connected, Session
  <1>4. ASSUME NEW c \in Connected
        PROVE  /\ Session(c).user \in Users \cup {NoUser} /\ Session(c).stato \in Kinds
               /\ Session(c).rcpt \in Seq(Users \cup {Gone}) /\ Len(Session(c).rcpt) <= MaxRcpt
               /\ Session(c).text \in 0 .. Len(messages)
               /\ Session(c).canale \in Channels \cup {0}
    <2>1. c \in Conns /\ Session(c) \in SessionSet /\ SessionOK(Session(c))
      BY <1>2, <1>3, Parts DEF Session
    <2>2. WriterOK(Session(c), messages) /\ messages \in Seq(MessageSet)
      BY <1>1, <2>1 DEF TextInv
    <2>3. PICK s : s = Session(c)
      OBVIOUS
    <2>4. /\ s.user \in Users \cup {NoUser} /\ s.stato \in Kinds
          /\ s.rcpt \in Seq(Users \cup {Gone}) /\ s.text \in Nat
          /\ s.canale \in Channels \cup {0}
          /\ s.text = 0 => s.rcpt = << >>
      BY <2>1, <2>3 DEF SessionSet, SessionOK
    <2>5. Len(s.rcpt) <= MaxRcpt /\ s.text \in 0 .. Len(messages)
      <3>1. CASE s.text = 0
        <4>1. Len(s.rcpt) = 0 /\ MaxRcpt \in Nat
          BY <2>4, <3>1, NumbersAssumption
        <4>2. Len(messages) \in Nat
          BY <2>2
        <4>3. QED
          BY <3>1, <4>1, <4>2
      <3>2. CASE s.text # 0
        BY <2>2, <2>3, <2>4, <3>2 DEF WriterOK, ListOK
      <3>3. QED
        BY <3>1, <3>2
    <2>6. QED
      BY <2>3, <2>4, <2>5
  <1>5. commands \in CommandSets /\ turn \in Seq(Conns) /\ phase \in {"POLL", "COMMANDS"}
    BY <1>1 DEF BaseInv
  <1>6. QED
    BY <1>3, <1>4, <1>5 DEF TypeOK

LEMMA ReachedOnce == BaseInv /\ TextInv => EachReachedOnce
  <1>1. SUFFICES ASSUME BaseInv, TextInv PROVE EachReachedOnce
    OBVIOUS
  <1>2. \A m \in 1 .. Len(messages) : MessageOK(messages[m])
    BY <1>1 DEF TextInv
  <1>3. DOMAIN messages = 1 .. Len(messages)
    BY <1>1 DEF TextInv
  <1>4. \A m \in DOMAIN messages, u \in Users :
          LET x == messages[m]
          IN  /\ x.reached[u] <= (IF u \in x.named THEN 1 ELSE 0)
              /\ x.end = "SENT" /\ u \in x.named /\ Fits(x) => x.reached[u] = 1
    BY <1>2, <1>3 DEF MessageOK
  <1>5. ASSUME NEW c \in Connected, Session(c).text # 0
        PROVE  LET s    == Session(c)
                   x    == messages[s.text]
                   left == { u \in x.named : x.reached[u] = 0 }
               IN  /\ ToSet(s.rcpt) \cap Users \subseteq left
                   /\ Fits(x) => left \subseteq ToSet(s.rcpt)
    <2>1. c \in Conns
      BY <1>1, Parts DEF BaseInv, Connected
    <2>2. PICK rcpt, x : rcpt = Session(c).rcpt /\ x = messages[Session(c).text]
      OBVIOUS
    <2>3. ListOK(rcpt, x)
      BY <1>1, <1>5, <2>1, <2>2, WriterIs
    <2>4. /\ \A u \in Users : u \in ToSet(rcpt) => u \in x.named /\ x.reached[u] = 0
          /\ Fits(x) => \A u \in x.named : x.reached[u] = 0 => u \in ToSet(rcpt)
      BY <2>3 DEF ListOK
    <2>5. QED
      BY <2>2, <2>4
  <1>6. QED
    BY <1>4, <1>5, Zenon DEF EachReachedOnce

\* The types: the lists hold each connection once, and a session that is not on
\* the list holds nothing (utente.c, cittaserver.c).
THEOREM TypeCorrect == Spec => []TypeOK
  <1>1. Init => BaseInv /\ TextInv
    BY BaseInitially
  <1>2. BaseInv /\ TextInv /\ [Next]_vars => BaseInv' /\ TextInv'
    BY BaseStep
  <1>3. BaseInv /\ TextInv => TypeOK
    BY BaseTypes
  <1>4. QED
    BY <1>1, <1>2, <1>3, PTL DEF Spec

\* Every recipient the sender was promised gets a message once, at the terminal
\* or by mail, and nobody else does (express.c:256).
THEOREM EachOnce == Spec => []EachReachedOnce
  <1>1. Init => BaseInv /\ TextInv
    BY BaseInitially
  <1>2. BaseInv /\ TextInv /\ [Next]_vars => BaseInv' /\ TextInv'
    BY BaseStep
  <1>3. BaseInv /\ TextInv => EachReachedOnce
    BY ReachedOnce
  <1>4. QED
    BY <1>1, <1>2, <1>3, PTL DEF Spec

-----------------------------------------------------------------------------
(***************************************************************************)
(* The timeouts.                                                           *)
(***************************************************************************)
\* Session c is served, which makes sv of the server.
Acts(c, sv) == Turn(c) /\ Effect(c, sv) /\ Serve(c, sv)

LEMMA CommandsAct ==
  ASSUME BaseInv, TextInv, NEW c \in Connected, Makings(c) \/ Textings(c) \/ Quiets(c)
  PROVE  \E sv : Acts(c, sv)
  <1>1. ASSUME NEW text, NEW rcpt, Writes(c, text, rcpt) PROVE \E sv : Acts(c, sv)
    BY <1>1 DEF Writes, Plain, Acts
  <1>2. ASSUME NEW sv, Makes(c, sv) PROVE Acts(c, sv)
    BY <1>2 DEF Makes, Acts
  <1>3. ASSUME Quietly(c) PROVE \E sv : Acts(c, sv)
    BY <1>1, <1>3 DEF Quietly
  <1>4. CASE Makings(c)
    BY <1>2, <1>3, <1>4, MakingsMake
  <1>5. CASE Textings(c)
    BY <1>1, <1>5, TextingsText
  <1>6. CASE Quiets(c)
    BY <1>3, <1>6, QuietCommands DEF Quiets
  <1>7. QED
    BY <1>4, <1>5, <1>6

LEMMA LimitIs ==
  /\ Limit \in Nat /\ IdleWarning <= Limit /\ IdleLogout <= Limit /\ MaxIdle <= Limit
  /\ IdleWarning \in Nat /\ IdleLogout \in Nat /\ MaxIdle \in Nat
  /\ LoginTimeout \in Nat /\ IdleCap = Limit + LoginTimeout + 3
  <1>1. /\ IdleWarning \in Nat /\ IdleLogout \in Nat /\ MaxIdle \in Nat
        /\ LoginTimeout \in Nat
    BY NumbersAssumption
  <1>2. PICK m : m = Max({IdleWarning, IdleLogout, MaxIdle})
    OBVIOUS
  <1>3. /\ m \in {IdleWarning, IdleLogout, MaxIdle}
        /\ IdleWarning <= m /\ IdleLogout <= m /\ MaxIdle <= m
    BY <1>1, <1>2, MaxOfThree
  <1>4. Limit = m /\ IdleCap = m + LoginTimeout + 3
    BY <1>2 DEF Limit, IdleCap
  <1>5. QED
    BY <1>1, <1>3, <1>4

\* How long a session may have been idle.
ClockOK(s, more) ==
  /\ s.stato \notin {"LOCK", "CHIUSA"} => s.idle <= Limit + s.warning + more
  /\ ~ may("IDLE") => s.idle = 0

LEMMA ClockInvIs ==
  /\ ClockInv <=> \A c \in Conns : ClockOK(Session(c), IF phase = "COMMANDS" THEN 1 ELSE 0)
  /\ phase = "POLL" /\ ClockInv => \A c \in Conns : ClockOK(Session(c), 0)
  /\ phase = "COMMANDS" /\ ClockInv => \A c \in Conns : ClockOK(Session(c), 1)
  BY DEF ClockInv, ClockOK

LEMMA FreshOnTime == ASSUME NEW more \in {0, 1} PROVE ClockOK(Fresh, more)
  BY LimitIs DEF Fresh, ClockOK

LEMMA TimedOnTime ==
  ASSUME NEW s \in SessionSet, ClockOK(s, 1), NEW t \in SessionSet, Alike(t, Timed(s)),
         ~ Over(t)
  PROVE  ClockOK(t, 0) /\ s.stato = t.stato
  <1>1. /\ t.idle = s.idle /\ t.stato = (IF IdleOut(s) THEN "CHIUSA" ELSE s.stato)
        /\ t.warning = IF IdleOut(s) THEN 2
                       ELSE IF IsWarned(s, 2) THEN 2
                       ELSE IF IsWarned(s, 1) THEN 1 ELSE s.warning
    BY TimedIs DEF Alike
  <1>2. ~ IdleOut(s) /\ t.stato = s.stato
    BY <1>1 DEF Over
  <1>3. s.idle \in Nat /\ s.warning \in 0 .. 2
    BY DEF SessionSet
  <1>4. ~ may("IDLE") => t.idle = 0
    BY <1>1 DEF ClockOK
  <1>5. ASSUME s.stato \notin {"LOCK", "CHIUSA"}
        PROVE  s.idle <= Limit + t.warning
    <2>1. CASE ~ may("IDLE")
      <3>1. s.idle = 0 /\ t.warning \in Nat
        BY <1>1, <1>4, <2>1 DEF SessionSet
      <3>2. QED
        BY <3>1, LimitIs
    <2>2. CASE may("IDLE") /\ s.warning = 2
      <3>1. s.idle < MaxIdle
        BY <1>2, <1>3, <1>5, <2>2, LimitIs DEF IdleOut
      <3>2. t.warning = 2
        BY <1>1, <1>2, <2>2 DEF IsWarned
      <3>3. QED
        BY <1>3, <3>1, <3>2, LimitIs
    <2>3. CASE may("IDLE") /\ s.warning = 1
      <3>1. CASE s.idle >= IdleLogout
        <4>1. t.warning = 2
          BY <1>1, <1>2, <1>5, <2>3, <3>1 DEF IsWarned
        <4>2. s.idle <= Limit + 1 + 1
          BY <1>5, <2>3 DEF ClockOK
        <4>3. QED
          BY <1>3, <4>1, <4>2, LimitIs
      <3>2. CASE ~ (s.idle >= IdleLogout)
        <4>1. t.warning \in Nat
          BY DEF SessionSet
        <4>2. QED
          BY <1>3, <3>2, <4>1, LimitIs
      <3>3. QED
        BY <3>1, <3>2
    <2>4. CASE may("IDLE") /\ s.warning = 0
      <3>1. CASE s.idle >= IdleWarning
        <4>1. t.warning = 1
          BY <1>1, <1>2, <1>5, <2>4, <3>1 DEF IsWarned
        <4>2. s.idle <= Limit + 0 + 1
          BY <1>5, <2>4 DEF ClockOK
        <4>3. QED
          BY <1>3, <4>1, <4>2, LimitIs
      <3>2. CASE ~ (s.idle >= IdleWarning)
        <4>1. t.warning \in Nat
          BY DEF SessionSet
        <4>2. QED
          BY <1>3, <3>2, <4>1, LimitIs
      <3>3. QED
        BY <3>1, <3>2
    <2>5. QED
      BY <1>3, <2>1, <2>2, <2>3, <2>4
  <1>6. Limit + t.warning + 0 = Limit + t.warning
    BY LimitIs DEF SessionSet
  <1>7. QED
    BY <1>1, <1>2, <1>4, <1>5, <1>6 DEF ClockOK

LEMMA ActsOnTime ==
  ASSUME BaseInv, ClockInv, NEW c \in Connected, NEW sv, Acts(c, sv)
  PROVE  ClockInv'
  <1>1. Turn(c) /\ Effect(c, sv) /\ Serve(c, sv)
    BY DEF Acts
  <1>2. phase = "COMMANDS" /\ phase' = "COMMANDS" /\ commands' = commands
    BY <1>1 DEF Turn
  <1>3. \A d \in Conns : ClockOK(Session(d), 1)
    BY <1>2, ClockInvIs
  <1>4. /\ server'.sessions[c] = IdleCleared(sv.sessions[c])
        /\ \A d \in Conns : d # c => server'.sessions[d] = sv.sessions[d]
    BY <1>1, ServeIs
  <1>5. ServerOK(sv) /\ c \in ToSet(sv.list)
    BY <1>1 DEF Effect, Connected
  <1>6. c \in Conns /\ sv.sessions[c] \in SessionSet /\ SessionOK(sv.sessions[c])
    BY <1>5, Parts
  <1>7. Session(c)'.idle = 0 /\ Session(c)'.warning = 0
    BY <1>4, <1>6, IdleClearedIs DEF Session
  <1>8. ClockOK(Session(c)', 1)
    BY <1>7, LimitIs DEF ClockOK
  <1>9. ASSUME NEW d \in Conns, d # c PROVE ClockOK(Session(d)', 1)
    <2>1. /\ Session(d)'.idle = Session(d).idle /\ Session(d)'.warning = Session(d).warning
          /\ Session(d)'.stato = Session(d).stato \/ Session(d)'.stato = "CHIUSA"
      BY <1>1, <1>4, <1>9 DEF Effect, Session
    <2>2. QED
      BY <1>3, <2>1 DEF ClockOK
  <1>10. \A d \in Conns : ClockOK(Session(d)', 1)
    BY <1>8, <1>9
  <1>11. QED
    BY <1>2, <1>10 DEF ClockInv, ClockOK, may

LEMMA PollOnTime ==
  ASSUME BaseInv, ClockInv, NEW new \in (Conns \ Connected) \cup {NoConn}, NEW lost,
         Poll(new, lost)
  PROVE  ClockInv'
  <1>1. phase = "POLL" /\ phase' = "COMMANDS" /\ commands' = commands
    BY PollIs
  <1>2. PICK ticked : OpenedAt(ticked, new) /\ server' = AllDropped(ticked, lost)
    BY PollIs
  <1>3. ServerOK(ticked) /\ Carried(server', ticked)
    BY <1>2, AllDroppedIs DEF OpenedAt
  <1>4. ASSUME NEW d \in Conns PROVE ClockOK(Session(d)', 1)
    <2>1. PICK s, t, r : s = Session(d) /\ t = ticked.sessions[d] /\ r = Session(d)'
      OBVIOUS
    <2>2. s \in SessionSet
      BY <2>1, Parts DEF BaseInv, Session
    <2>3. ClockOK(s, 0) /\ s.idle \in Nat /\ s.warning \in Nat
      BY <1>1, <2>1, <2>2, ClockInvIs DEF SessionSet
    <2>4. t = s \/ t = Ticked(s)
      BY <1>2, <2>1 DEF OpenedAt
    <2>5. /\ \/ t.idle = s.idle
             \/ may("IDLE") /\ t.idle = AtMost(s.idle + 1, IdleCap)
          /\ t.stato = s.stato /\ t.warning = s.warning
      BY <2>2, <2>4, TickedIs
    <2>6. /\ t.idle = s.idle \/ (may("IDLE") /\ t.idle <= s.idle + 1)
          /\ t.idle \in Nat
      BY <2>3, <2>5, LimitIs DEF AtMost
    <2>7. ClockOK(t, 1)
      <3>1. ~ may("IDLE") => t.idle = 0
        BY <2>3, <2>6 DEF ClockOK
      <3>2. ASSUME t.stato \notin {"LOCK", "CHIUSA"} PROVE t.idle <= Limit + t.warning + 1
        <4>1. s.idle <= Limit + s.warning + 0
          BY <2>3, <2>5, <3>2 DEF ClockOK
        <4>2. QED
          BY <2>3, <2>5, <2>6, <4>1, LimitIs
      <3>3. QED
        BY <3>1, <3>2 DEF ClockOK
    <2>8. r = Fresh \/ Alike(r, t)
      BY <1>3, <2>1 DEF Carried, Session
    <2>9. QED
      BY <2>1, <2>7, <2>8, FreshOnTime DEF Alike, ClockOK
  <1>5. QED
    BY <1>1, <1>4 DEF ClockInv, ClockOK, may

LEMMA EndPassOnTime ==
  ASSUME BaseInv, ClockInv, NEW broken, EndPass(broken)
  PROVE  ClockInv'
  <1>1. phase = "COMMANDS" /\ phase' = "POLL" /\ commands' = commands
    BY EndPassIs
  <1>2. PICK taken, written, idled, chatted :
          Stages(taken, written, idled, chatted, broken)
    BY EndPassIs
  <1>3. ASSUME NEW d \in Conns PROVE ClockOK(Session(d)', 0)
    <2>1. PICK s, t : s = Session(d) /\ t = Session(d)'
      OBVIOUS
    <2>2. \/ t = Fresh
          \/ s \in SessionSet /\ t \in SessionSet /\ Alike(t, Timed(s)) /\ ~ Over(t)
      BY <1>2, <2>1, StagesAre
    <2>3. ClockOK(s, 1)
      BY <1>1, <2>1, ClockInvIs
    <2>4. QED
      BY <2>1, <2>2, <2>3, FreshOnTime, TimedOnTime
  <1>4. QED
    BY <1>1, <1>3 DEF ClockInv, ClockOK, may

LEMMA ClockInitially == Init => ClockInv
  <1>1. SUFFICES ASSUME Init PROVE ClockInv
    OBVIOUS
  <1>2. phase = "POLL" /\ \A c \in Conns : Session(c) = Fresh
    BY <1>1 DEF Init, Session
  <1>3. \A c \in Conns : ClockOK(Session(c), 0)
    BY <1>2, FreshOnTime
  <1>4. QED
    BY <1>2, <1>3, ClockInvIs

LEMMA ClockStep == BaseInv /\ TextInv /\ ClockInv /\ [Next]_vars => ClockInv'
  <1>1. SUFFICES ASSUME BaseInv, TextInv, ClockInv, [Next]_vars PROVE ClockInv'
    OBVIOUS
  <1>2. ASSUME UNCHANGED << commands, server, phase, messages >> PROVE ClockInv'
    BY <1>1, <1>2 DEF ClockInv, Session, may
  <1>3. CASE UNCHANGED vars
    BY <1>2, <1>3 DEF vars
  <1>4. ASSUME NEW new \in (Conns \ Connected) \cup {NoConn}, NEW lost, Poll(new, lost)
        PROVE  ClockInv'
    BY <1>1, <1>4, PollOnTime
  <1>5. CASE Silent
    BY <1>1, <1>2, <1>5, SilentKeeps
  <1>6. ASSUME NEW c \in Connected, Makings(c) \/ Textings(c) \/ Quiets(c)
        PROVE  ClockInv'
    BY <1>1, <1>6, CommandsAct, ActsOnTime
  <1>7. ASSUME NEW broken, EndPass(broken) PROVE ClockInv'
    BY <1>1, <1>7, EndPassOnTime
  <1>8. CASE Next
    BY <1>8, NextIs, <1>4, <1>5, <1>6, <1>7, Zenon
  <1>9. QED
    BY <1>1, <1>3, <1>8

\* The property, of one step.
OutAfterWarnings ==
  phase = "COMMANDS" /\ phase' = "POLL" =>
       \A c \in Connected :
         LET s    == Session(c)
             over == \/ s.warned = 2 /\ s.quiet >= MaxIdle
                     \/ s.stato = "LIC" /\ s.quiet >= LoginTimeout
         IN  IF c \in ToSet(server'.list)
             THEN s.stato = "LOCK" \/ s.quiet < IdleCap
             ELSE \/ over /\ s.stato # "LOCK"
                  \/ s.cancella \/ s.stato = "CHIUSA"

LEMMA EndPassOut ==
  ASSUME BaseInv, ClockInv, NEW broken \in Subsets(Connected, "WRITE_ERROR"),
         EndPass(broken)
  PROVE  OutAfterWarnings
  <1>1. phase = "COMMANDS" /\ phase' = "POLL" /\ commands' = commands
    BY EndPassIs
  <1>2. PICK taken, written, idled, chatted :
          Stages(taken, written, idled, chatted, broken)
    BY EndPassIs
  <1>3. ClockInv'
    BY EndPassOnTime
  <1>4. ASSUME NEW c \in Connected, NEW s, s = Session(c), c \in ToSet(server'.list)
        PROVE  s.stato = "LOCK" \/ s.quiet < IdleCap
    <2>1. PICK t : t = Session(c)'
      OBVIOUS
    <2>2. c \in Conns
      BY Parts DEF BaseInv, Connected
    <2>3. /\ s \in SessionSet /\ SessionOK(s) /\ Alike(t, Timed(s)) /\ ~ Over(t)
          /\ t \in SessionSet
      BY <1>2, <1>4, <2>1, <2>2, StagesAre
    <2>4. ClockOK(s, 1)
      BY <1>1, <1>4, <2>2, ClockInvIs
    <2>5. ClockOK(t, 0) /\ s.stato = t.stato
      BY <2>3, <2>4, TimedOnTime
    <2>6. t.stato # "CHIUSA" /\ t.idle = s.idle /\ s.quiet = s.idle
      BY <2>3, TimedIs DEF Over, SessionOK, Alike
    <2>7. t.warning \in 0 .. 2 /\ s.idle \in Nat
      BY <2>3 DEF SessionSet
    <2>8. CASE s.stato # "LOCK"
      <3>1. s.idle <= Limit + t.warning + 0
        BY <2>5, <2>6, <2>8 DEF ClockOK
      <3>2. QED
        BY <2>6, <2>7, <3>1, LimitIs
    <2>9. QED
      BY <2>8
  <1>5. ASSUME NEW c \in Connected, NEW s, s = Session(c), c \notin ToSet(server'.list)
        PROVE  \/ /\ \/ s.warned = 2 /\ s.quiet >= MaxIdle
                     \/ s.stato = "LIC" /\ s.quiet >= LoginTimeout
                  /\ s.stato # "LOCK"
               \/ s.cancella \/ s.stato = "CHIUSA"
    <2>1. SUFFICES ASSUME ~ s.cancella, s.stato # "CHIUSA"
                   PROVE  /\ \/ s.warned = 2 /\ s.quiet >= MaxIdle
                             \/ s.stato = "LIC" /\ s.quiet >= LoginTimeout
                          /\ s.stato # "LOCK"
      OBVIOUS
    <2>2. ServerOK(server) /\ c \in ToSet(server.list)
      BY DEF BaseInv, Connected
    <2>3. c \in Conns /\ s \in SessionSet /\ SessionOK(s)
      BY <1>5, <2>2, Parts DEF Session
    <2>4. PICK gone, over : /\ gone = { d \in Conns : Session(d).cancella }
                            /\ over = { d \in Conns : Over(chatted.sessions[d]) }
      OBVIOUS
    <2>5. /\ ToSet(taken.list) = ToSet(server.list) \ gone
          /\ taken.sessions[c] = IF c \in gone THEN Fresh ELSE s
      BY <1>2, <1>5, <2>3, <2>4 DEF Stages, Without, Session
    <2>6. c \notin gone /\ c \in ToSet(taken.list) /\ taken.sessions[c] = s
      BY <1>5, <2>1, <2>2, <2>4, <2>5
    <2>7. /\ ToSet(written.list) = ToSet(taken.list) \ broken
          /\ written.sessions[c] = IF c \in broken THEN Fresh ELSE taken.sessions[c]
      BY <1>2, <2>3 DEF Stages, Without
    <2>8. s.warned = s.warning /\ s.quiet = s.idle
      BY <2>3 DEF SessionOK
    <2>9. CASE c \in broken
      <3>1. IdleOut(s)
        BY <1>2, <2>9, <2>6 DEF Stages
      <3>2. QED
        BY <2>8, <3>1 DEF IdleOut
    <2>10. CASE c \notin broken
      <3>1. c \in ToSet(written.list) /\ written.sessions[c] = s
        BY <2>6, <2>7, <2>10
      <3>2. /\ ServerOK(idled) /\ idled.list = written.list
             /\ ServerOK(chatted) /\ chatted.list = idled.list
             /\ Alike(idled.sessions[c], Warned[s])
             /\ Alike(chatted.sessions[c], Silenced[idled.sessions[c]])
        BY <1>2, <3>1 DEF Stages, OnlyThese
      <3>3. ToSet(server'.list) = ToSet(chatted.list) \ over
        BY <1>2, <2>4 DEF Stages, Without
      <3>4. Over(chatted.sessions[c])
        BY <1>5, <2>3, <2>4, <3>1, <3>2, <3>3
      <3>5. PICK w, t : w = idled.sessions[c] /\ t = chatted.sessions[c]
        OBVIOUS
      <3>6. w \in SessionSet
        BY <2>3, <3>2, <3>5, Parts
      <3>7. t.stato = w.stato /\ t.idle = w.idle
        BY <3>2, <3>5, <3>6, SilencedIs DEF Alike
      <3>8. w.stato = (IF IdleOut(s) THEN "CHIUSA" ELSE s.stato) /\ w.idle = s.idle
        BY <2>3, <3>2, <3>5, WarnedIs DEF Alike
      <3>9. QED
        BY <2>1, <3>4, <3>5, <3>7, <3>8, <2>8 DEF Over, IdleOut
    <2>11. QED
      BY <2>9, <2>10
  <1>6. QED
    BY <1>4, <1>5 DEF OutAfterWarnings

LEMMA OutStep == BaseInv /\ TextInv /\ ClockInv /\ [Next]_vars => OutAfterWarnings
  <1>1. SUFFICES ASSUME BaseInv, TextInv, ClockInv, [Next]_vars PROVE OutAfterWarnings
    OBVIOUS
  <1>2. ASSUME phase' = phase \/ phase' = "COMMANDS" PROVE OutAfterWarnings
    BY <1>2 DEF OutAfterWarnings
  <1>3. CASE UNCHANGED vars
    BY <1>2, <1>3 DEF vars
  <1>4. ASSUME NEW new \in (Conns \ Connected) \cup {NoConn}, NEW lost, Poll(new, lost)
        PROVE  OutAfterWarnings
    BY <1>1, <1>2, <1>4, PollIs
  <1>5. CASE Silent
    BY <1>1, <1>2, <1>5, SilentKeeps
  <1>6. ASSUME NEW c \in Connected, Makings(c) \/ Textings(c) \/ Quiets(c)
        PROVE  OutAfterWarnings
    <2>1. PICK sv : Acts(c, sv)
      BY <1>1, <1>6, CommandsAct
    <2>2. phase' = phase
      BY <2>1 DEF Acts, Turn
    <2>3. QED
      BY <1>2, <2>2
  <1>7. ASSUME NEW broken \in Subsets(Connected, "WRITE_ERROR"), EndPass(broken)
        PROVE  OutAfterWarnings
    BY <1>1, <1>7, EndPassOut
  <1>8. CASE Next
    BY <1>8, NextIs, <1>4, <1>5, <1>6, <1>7, Zenon
  <1>9. QED
    BY <1>1, <1>3, <1>8

\* A session is thrown out only after two warnings and MaxIdle minutes without a
\* command, or from the login, never while its terminal is locked; and one that
\* is not locked does not stay on after all limits (cittaserver.c).
THEOREM OutAfterTwoWarnings == Spec => IdleOutAfterWarnings
  <1>1. Init => BaseInv /\ TextInv /\ ClockInv
    BY BaseInitially, ClockInitially
  <1>2. BaseInv /\ TextInv /\ ClockInv /\ [Next]_vars => BaseInv' /\ TextInv' /\ ClockInv'
    BY BaseStep, ClockStep
  <1>3. BaseInv /\ TextInv /\ ClockInv /\ [Next]_vars => [OutAfterWarnings]_vars
    BY OutStep
  <1>4. QED
    BY <1>1, <1>2, <1>3, PTL DEF Spec, IdleOutAfterWarnings, OutAfterWarnings

-----------------------------------------------------------------------------
(***************************************************************************)
(* Who is told what: changes that others hear of.                          *)
(***************************************************************************)
LEMMA CommandsSame ==
  ASSUME commands' = commands, Social(server', turn', NoUser)
  PROVE  SocialInv'
  BY Zenon DEF SocialInv, Social, may, KnowsNobodyElse, KnowsOnlyChannel, KnowsChannel,
     KnowsWhoIsIn, NothingTold, TakenOverBy, TwoInPass, InSame, Stays, MayBeIn, Same

\* Nothing that others see of a session has changed.
LEMMA SocialSeen ==
  ASSUME NEW v, NEW r, NEW t, NEW next, NEW but, Social(v, t, but),
         ToSet(v.list) \subseteq Conns, ToSet(r.list) = ToSet(v.list),
         ToSet(next) \subseteq ToSet(t),
         \A d \in Conns : SameSeen(r.sessions[d], v.sessions[d])
  PROVE  Social(r, next, but)
  <1>1. PICK L : L = ToSet(v.list)
    OBVIOUS
  <1>2. /\ L \subseteq Conns /\ ToSet(r.list) = L /\ ToSet(v.list) = L
        /\ \A d \in Conns :
             /\ r.sessions[d].user = v.sessions[d].user
             /\ r.sessions[d].logged = v.sessions[d].logged
             /\ r.sessions[d].cancella = v.sessions[d].cancella
             /\ r.sessions[d].canale = v.sessions[d].canale
             /\ r.sessions[d].present = v.sessions[d].present
             /\ r.sessions[d].inchat = v.sessions[d].inchat
             /\ r.sessions[d].stato = "LIC" <=> v.sessions[d].stato = "LIC"
             /\ r.sessions[d].stato = "CHIUSA" <=> v.sessions[d].stato = "CHIUSA"
    BY <1>1 DEF SameSeen
  <1>3. TwoInPass(r, next)
    <2>1. TwoInPass(v, t)
      BY DEF Social
    <2>2. QED
      BY <1>2, <2>1 DEF TwoInPass, Same, MayBeIn
  <1>4. \A u, d : Stays(v, u, d) => Stays(r, u, d)
    BY <1>2 DEF Stays
  <1>5. TakenOverBy(r, but)
    <2>1. TakenOverBy(v, but)
      BY DEF Social
    <2>2. QED
      BY <1>2, <1>4, <2>1 DEF TakenOverBy
  <1>6. NothingTold(r)
    <2>1. NothingTold(v)
      BY DEF Social
    <2>2. QED
      BY <1>2, <2>1 DEF NothingTold
  <1>7. KnowsWhoIsIn(r, but)
    <2>1. KnowsWhoIsIn(v, but)
      BY DEF Social
    <2>2. QED
      BY <1>2, <2>1 DEF KnowsWhoIsIn
  <1>8. ASSUME KnowsNobodyElse(v) PROVE KnowsNobodyElse(r)
    BY <1>2, <1>4, <1>8 DEF KnowsNobodyElse
  <1>9. \A x, y \in L : InSame(r, x, y) <=> InSame(v, x, y)
    BY <1>2 DEF InSame
  <1>10. KnowsChannel(r, but)
    <2>1. KnowsChannel(v, but)
      BY DEF Social
    <2>2. QED
      BY <1>2, <1>9, <2>1 DEF KnowsChannel
  <1>11. ASSUME KnowsOnlyChannel(v) PROVE KnowsOnlyChannel(r)
    BY <1>2, <1>9, <1>11 DEF KnowsOnlyChannel
  <1>12. QED
    BY <1>3, <1>5, <1>6, <1>7, <1>8, <1>10, <1>11, Zenon DEF Social

\* Who is in has a user.
LEMMA HasUser ==
  ASSUME NEW v, ServerOK(v), NEW c \in ToSet(v.list)
  PROVE  /\ v.sessions[c].logged /\ v.sessions[c].stato # "CHIUSA" => v.sessions[c].user \in Users
         /\ v.sessions[c].canale # 0 => v.sessions[c].logged
         /\ v.sessions[c].user \in Users \cup {NoUser}
         /\ v.sessions[c].stato = "LIC" => /\ v.sessions[c].user = NoUser
                                           /\ ~ v.sessions[c].logged /\ ~ v.sessions[c].cancella
         /\ v.sessions[c].present \subseteq Users
  <1>1. v.sessions[c] \in SessionSet /\ SessionOK(v.sessions[c])
    BY Parts
  <1>2. QED
    BY <1>1 DEF SessionSet, SessionOK

LEMMA UserIsNamed == \A u \in Users : u # NoUser
  BY NamesAssumption

\* What is known of all is known of all but one, and back when he has no session.
LEMMA SocialBut ==
  ASSUME NEW v, ServerOK(v), NEW t, NEW u \in Users
  PROVE  /\ Social(v, t, NoUser) => Social(v, t, u)
         /\ (\A d \in ToSet(v.list) : v.sessions[d].user # u) /\ Social(v, t, u)
              => Social(v, t, NoUser)
  <1>1. PICK L : L = ToSet(v.list)
    OBVIOUS
  <1>2. /\ u # NoUser /\ ToSet(v.list) = L
        /\ \A d \in L : /\ v.sessions[d].logged /\ v.sessions[d].stato # "CHIUSA"
                           => v.sessions[d].user # NoUser
    BY <1>1, HasUser, UserIsNamed
  <1>3. TakenOverBy(v, NoUser) => TakenOverBy(v, u)
    BY <1>2 DEF TakenOverBy
  <1>4. KnowsWhoIsIn(v, NoUser) => KnowsWhoIsIn(v, u)
    BY <1>2 DEF KnowsWhoIsIn
  <1>5. KnowsChannel(v, NoUser) => KnowsChannel(v, u)
    BY <1>2 DEF KnowsChannel, InSame
  <1>6. ASSUME \A d \in L : v.sessions[d].user # u
        PROVE  /\ TakenOverBy(v, u) => TakenOverBy(v, NoUser)
               /\ KnowsWhoIsIn(v, u) => KnowsWhoIsIn(v, NoUser)
               /\ KnowsChannel(v, u) => KnowsChannel(v, NoUser)
    <2>1. TakenOverBy(v, u) => TakenOverBy(v, NoUser)
      BY <1>2, <1>6 DEF TakenOverBy
    <2>2. KnowsWhoIsIn(v, u) => KnowsWhoIsIn(v, NoUser)
      BY <1>2, <1>6 DEF KnowsWhoIsIn
    <2>3. KnowsChannel(v, u) => KnowsChannel(v, NoUser)
      BY <1>2, <1>6 DEF KnowsChannel
    <2>4. QED
      BY <2>1, <2>2, <2>3
  <1>7. QED
    BY <1>2, <1>3, <1>4, <1>5, <1>6, Zenon DEF Social

\* Sessions are closed: nobody hears of it.
LEMMA SocialClosed ==
  ASSUME NEW v, ServerOK(v), NEW t, Social(v, t, NoUser), NEW C, NEW r, Without(r, v, C),
         \A d \in ToSet(r.list) : ~ v.sessions[d].cancella,
         ~ may("WRITE_ERROR") => \A d \in ToSet(v.list) : d \in C =>
            \/ v.sessions[d].cancella \/ v.sessions[d].stato = "CHIUSA"
            \/ v.sessions[d].user = NoUser,
         {"WRITE_ERROR", "TAKEOVER"} \cap commands = {} =>
            \A d \in ToSet(v.list) : d \in C =>
               v.sessions[d].stato = "CHIUSA" \/ v.sessions[d].user = NoUser
  PROVE  Social(r, t, NoUser) /\ \A d \in ToSet(r.list) : ~ r.sessions[d].cancella
  <1>1. PICK L, M : L = ToSet(v.list) /\ M = ToSet(r.list)
    OBVIOUS
  <1>2. /\ ToSet(v.list) = L /\ ToSet(r.list) = M /\ M = L \ C /\ L \subseteq Conns
        /\ \A d \in M : r.sessions[d] = v.sessions[d]
        /\ \A d \in Conns \ C : r.sessions[d] = v.sessions[d]
    BY <1>1, Parts DEF Without
  <1>3. TwoInPass(r, t)
    <2>1. TwoInPass(v, t)
      BY DEF Social
    <2>2. QED
      BY <1>2, <2>1 DEF TwoInPass, MayBeIn
  <1>4. \A d \in M : ~ r.sessions[d].cancella
    BY <1>2
  <1>5. TakenOverBy(r, NoUser)
    BY <1>2, <1>4 DEF TakenOverBy
  <1>6. NothingTold(r)
    <2>1. NothingTold(v)
      BY DEF Social
    <2>2. QED
      BY <1>2, <2>1 DEF NothingTold
  <1>7. KnowsWhoIsIn(r, NoUser)
    <2>1. KnowsWhoIsIn(v, NoUser)
      BY DEF Social
    <2>2. QED
      BY <1>2, <2>1 DEF KnowsWhoIsIn
  <1>8. ASSUME ~ may("WRITE_ERROR") PROVE KnowsNobodyElse(r)
    <2>1. KnowsNobodyElse(v)
      BY <1>8 DEF Social
    <2>2. ASSUME NEW u \in Users, NEW d, Stays(v, u, d) PROVE Stays(r, u, d)
      <3>1. d \in L /\ u # NoUser
        BY <1>2, <2>2, UserIsNamed DEF Stays
      <3>2. d \notin C
        BY <1>2, <1>8, <2>2, <3>1 DEF Stays
      <3>3. QED
        BY <1>2, <2>2, <3>1, <3>2 DEF Stays
    <2>3. \A d \in L : v.sessions[d].present \subseteq Users
      BY <1>2, HasUser
    <2>4. QED
      BY <1>2, <2>1, <2>2, <2>3 DEF KnowsNobodyElse
  <1>9. \A x, y \in M : InSame(r, x, y) <=> InSame(v, x, y)
    BY <1>2 DEF InSame
  <1>10. KnowsChannel(r, NoUser)
    <2>1. KnowsChannel(v, NoUser)
      BY DEF Social
    <2>2. QED
      BY <1>2, <1>9, <2>1 DEF KnowsChannel
  <1>11. ASSUME {"WRITE_ERROR", "TAKEOVER"} \cap commands = {} PROVE KnowsOnlyChannel(r)
    <2>1. KnowsOnlyChannel(v)
      BY <1>11 DEF Social
    <2>2. ASSUME NEW x \in M, NEW d \in L, InSame(v, x, d) PROVE d \in M
      BY <1>2, <1>11, <2>2 DEF InSame
    <2>3. QED
      BY <1>2, <1>9, <2>1, <2>2 DEF KnowsOnlyChannel
  <1>12. QED
    BY <1>2, <1>3, <1>4, <1>5, <1>6, <1>7, <1>8, <1>10, <1>11, Zenon DEF Social

\* Session c is gone, or about to be closed, and the others are told of it.
GoneBy(r, v, c) ==
  /\ ServerOK(r) /\ ToSet(v.list) \ {c} \subseteq ToSet(r.list)
  /\ ToSet(r.list) \subseteq ToSet(v.list)
  /\ \A d \in Conns : d # c => r.sessions[d] = ToldOfLogout(v, c).sessions[d]
  /\ c \in ToSet(r.list) =>
       /\ r.sessions[c].stato = "CHIUSA" /\ r.sessions[c].user \in {v.sessions[c].user, NoUser}
       /\ r.sessions[c].logged = v.sessions[c].logged
       /\ r.sessions[c].cancella = v.sessions[c].cancella
       /\ r.sessions[c].canale = v.sessions[c].canale
       /\ r.sessions[c].present = v.sessions[c].present
       /\ r.sessions[c].inchat = v.sessions[c].inchat

\* The user of c is in with no other session, unless he is `but'.
NoRival(v, c, but) ==
  \/ v.sessions[c].user = but
  \/ \A b \in ToSet(v.list) \ {c} :
       Same(v.sessions[b], v.sessions[c]) => ~ v.sessions[b].logged /\ v.sessions[c].cancella

LEMMA SocialGone ==
  ASSUME NEW v, ServerOK(v), NEW t, NEW but, Social(v, t, but), NEW c \in ToSet(v.list),
         NEW r, GoneBy(r, v, c), NoRival(v, c, but)
  PROVE  Social(r, t, but)
  <1>1. PICK L, M, u : L = ToSet(v.list) /\ M = ToSet(r.list) /\ u = v.sessions[c].user
    OBVIOUS
  <1>2. /\ ToSet(v.list) = L /\ ToSet(r.list) = M /\ M \subseteq L /\ L \ {c} \subseteq M
        /\ L \subseteq Conns /\ c \in L /\ v.sessions[c].user = u
    BY <1>1, Parts DEF GoneBy
  <1>3. ASSUME NEW d \in Conns, d # c
        PROVE  /\ Alike(r.sessions[d], v.sessions[d])
               /\ v.sessions[d].user = NoUser => r.sessions[d] = v.sessions[d]
               /\ v.sessions[d].user # NoUser =>
                    /\ r.sessions[d].present = v.sessions[d].present \ Announced(u)
                    /\ r.sessions[d].inchat = v.sessions[d].inchat \ Announced(u)
    <2>1. PICK q : q = ToldOfLogout(v, c)
      OBVIOUS
    <2>2. /\ \A e \in Conns : Alike(q.sessions[e], v.sessions[e])
          /\ \A e \in Conns : v.sessions[e].user = NoUser => q.sessions[e] = v.sessions[e]
          /\ \A e \in Conns : e # c /\ v.sessions[e].user # NoUser =>
               /\ q.sessions[e].present = v.sessions[e].present \ Announced(v.sessions[c].user)
               /\ q.sessions[e].inchat = v.sessions[e].inchat \ Announced(v.sessions[c].user)
      BY <1>2, <2>1, ToldOfLogoutIs
    <2>3. r.sessions[d] = q.sessions[d]
      BY <1>3, <2>1 DEF GoneBy
    <2>4. QED
      BY <1>2, <1>3, <2>2, <2>3
  <1>4. ASSUME NEW d \in Conns, d # c
        PROVE  /\ r.sessions[d].user = v.sessions[d].user
               /\ r.sessions[d].stato = v.sessions[d].stato
               /\ r.sessions[d].logged = v.sessions[d].logged
               /\ r.sessions[d].cancella = v.sessions[d].cancella
               /\ r.sessions[d].canale = v.sessions[d].canale
    BY <1>3, <1>4 DEF Alike
  <1>5. c \in M =>
          /\ r.sessions[c].stato = "CHIUSA" /\ r.sessions[c].user \in {u, NoUser}
          /\ r.sessions[c].logged = v.sessions[c].logged
          /\ r.sessions[c].cancella = v.sessions[c].cancella
          /\ r.sessions[c].canale = v.sessions[c].canale
          /\ r.sessions[c].present = v.sessions[c].present
          /\ r.sessions[c].inchat = v.sessions[c].inchat
    BY <1>2 DEF GoneBy
  <1>6. \A d \in M : /\ r.sessions[d].user \in {v.sessions[d].user, NoUser}
                     /\ d # c => r.sessions[d].user = v.sessions[d].user
                     /\ r.sessions[d].logged = v.sessions[d].logged
                     /\ r.sessions[d].cancella = v.sessions[d].cancella
                     /\ r.sessions[d].canale = v.sessions[d].canale
                     /\ r.sessions[d].stato \in {v.sessions[d].stato, "CHIUSA"}
                     /\ d = c => r.sessions[d].stato = "CHIUSA"
    BY <1>2, <1>4, <1>5
  <1>7. \A d \in L : /\ v.sessions[d].logged /\ v.sessions[d].stato # "CHIUSA"
                        => v.sessions[d].user # NoUser
                     /\ v.sessions[d].canale # 0 => v.sessions[d].logged
                     /\ v.sessions[d].present \subseteq Users
    BY <1>2, HasUser, UserIsNamed
  <1>8. \A b \in L : /\ b # c /\ v.sessions[b].user = u /\ u # NoUser /\ u # but
                     => ~ v.sessions[b].logged /\ v.sessions[c].cancella
    BY <1>2 DEF NoRival, Same
  <1>9. TwoInPass(r, t)
    <2>1. TwoInPass(v, t)
      BY DEF Social
    <2>2. \A x, y \in M : Same(r.sessions[x], r.sessions[y]) => Same(v.sessions[x], v.sessions[y])
      BY <1>6 DEF Same
    <2>3. \A x \in M : MayBeIn(r, t, x) <=> MayBeIn(v, t, x)
      BY <1>6 DEF MayBeIn
    <2>4. QED
      BY <1>2, <1>6, <2>1, <2>2, <2>3 DEF TwoInPass
  <1>10. \A w, d : d # c /\ Stays(v, w, d) => Stays(r, w, d)
    BY <1>2, <1>4 DEF Stays
  <1>11. TakenOverBy(r, but)
    <2>1. TakenOverBy(v, but)
      BY DEF Social
    <2>2. ASSUME NEW x \in M, r.sessions[x].cancella, r.sessions[x].user \notin {NoUser, but}
          PROVE  \E d \in Conns : Stays(r, r.sessions[x].user, d)
      <3>1. v.sessions[x].cancella /\ v.sessions[x].user = r.sessions[x].user /\ x \in L
        BY <1>2, <1>6, <2>2
      <3>2. PICK d \in Conns : Stays(v, v.sessions[x].user, d)
        BY <1>2, <2>1, <2>2, <3>1 DEF TakenOverBy
      <3>3. d # c
        BY <1>2, <1>8, <2>2, <3>1, <3>2 DEF Stays
      <3>4. QED
        BY <1>10, <3>1, <3>2, <3>3
    <2>3. QED
      BY <1>2, <2>2 DEF TakenOverBy
  <1>12. NothingTold(r)
    <2>1. NothingTold(v)
      BY DEF Social
    <2>2. ASSUME NEW x \in M, r.sessions[x].stato = "LIC" PROVE r.sessions[x].present = {}
      <3>1. x # c /\ v.sessions[x].stato = "LIC" /\ x \in L /\ x \in Conns
        BY <1>2, <1>6, <2>2
      <3>2. v.sessions[x].present = {}
        BY <1>2, <2>1, <3>1 DEF NothingTold
      <3>3. QED
        BY <1>3, <3>1, <3>2
    <2>3. QED
      BY <1>2, <2>2 DEF NothingTold
  <1>13. KnowsWhoIsIn(r, but)
    <2>1. KnowsWhoIsIn(v, but)
      BY DEF Social
    <2>2. ASSUME NEW x \in M, NEW y \in M, x # y, r.sessions[x].logged,
                 r.sessions[x].user # NoUser, r.sessions[y].logged,
                 r.sessions[y].stato # "CHIUSA",
                 r.sessions[x].user # r.sessions[y].user, r.sessions[y].user # but
          PROVE  r.sessions[y].user \in r.sessions[x].present
      <3>1. /\ y # c /\ x \in L /\ y \in L /\ y \in Conns /\ x \in Conns
            /\ v.sessions[x].user = r.sessions[x].user
            /\ v.sessions[y].user = r.sessions[y].user
            /\ v.sessions[x].logged /\ v.sessions[y].logged
            /\ v.sessions[y].stato # "CHIUSA"
        BY <1>2, <1>4, <1>6, <2>2
      <3>2. v.sessions[y].user \in v.sessions[x].present
        BY <1>2, <2>1, <2>2, <3>1 DEF KnowsWhoIsIn
      <3>3. v.sessions[y].user # u
        BY <1>7, <1>8, <2>2, <3>1
      <3>4. CASE x = c
        BY <1>5, <3>1, <3>2, <3>4
      <3>5. CASE x # c
        BY <1>3, <2>2, <3>1, <3>2, <3>3, <3>5, AnnouncedIs
      <3>6. QED
        BY <3>4, <3>5
    <2>3. QED
      BY <1>2, <2>2, Zenon DEF KnowsWhoIsIn
  <1>14. ASSUME KnowsNobodyElse(v) PROVE KnowsNobodyElse(r)
    <2>1. ASSUME NEW x \in M, r.sessions[x].user # NoUser, NEW w \in r.sessions[x].present \ Unregistered,
                 w # r.sessions[x].user
          PROVE  \E d \in Conns : Stays(r, w, d)
      <3>1. x \in L /\ x \in Conns /\ v.sessions[x].user = r.sessions[x].user
        BY <1>2, <1>6, <2>1
      <3>2. w \in v.sessions[x].present \ Unregistered /\ w # u
        BY <1>2, <1>3, <1>5, <2>1, <3>1, AnnouncedIs
      <3>3. PICK d \in Conns : Stays(v, w, d)
        BY <1>2, <1>14, <2>1, <3>1, <3>2 DEF KnowsNobodyElse
      <3>4. d # c
        BY <1>2, <3>2, <3>3 DEF Stays
      <3>5. QED
        BY <1>10, <3>3, <3>4
    <2>2. QED
      BY <1>2, <2>1 DEF KnowsNobodyElse
  <1>15. \A x, y \in M : InSame(r, x, y) => InSame(v, x, y) /\ y # c
    BY <1>6 DEF InSame
  <1>16. \A x \in M, y \in L \ {c} :
           InSame(v, x, y) /\ r.sessions[x].user # NoUser => InSame(r, x, y)
    BY <1>2, <1>4, <1>6 DEF InSame
  <1>17. KnowsChannel(r, but)
    <2>1. KnowsChannel(v, but)
      BY DEF Social
    <2>2. ASSUME NEW x \in M, NEW y \in M, InSame(r, x, y), r.sessions[y].user # but
          PROVE  r.sessions[y].user \in r.sessions[x].inchat
      <3>1. /\ InSame(v, x, y) /\ y # c /\ x \in L /\ y \in L /\ x \in Conns /\ y \in Conns
            /\ v.sessions[y].user = r.sessions[y].user
            /\ v.sessions[y].user # NoUser /\ v.sessions[x].user # NoUser
        BY <1>2, <1>6, <1>15, <2>2 DEF InSame
      <3>2. v.sessions[y].user \in v.sessions[x].inchat
        BY <1>2, <2>1, <2>2, <3>1 DEF KnowsChannel
      <3>3. v.sessions[y].logged
        BY <1>7, <3>1 DEF InSame
      <3>4. v.sessions[y].user # u
        BY <1>8, <2>2, <3>1, <3>3
      <3>5. CASE x = c
        BY <1>5, <3>1, <3>2, <3>5
      <3>6. CASE x # c
        BY <1>3, <3>1, <3>2, <3>4, <3>6, AnnouncedIs
      <3>7. QED
        BY <3>5, <3>6
    <2>3. QED
      BY <1>2, <2>2 DEF KnowsChannel
  <1>18. ASSUME KnowsOnlyChannel(v) PROVE KnowsOnlyChannel(r)
    <2>1. ASSUME NEW x \in M, r.sessions[x].user # NoUser, r.sessions[x].canale # 0,
                 NEW w \in r.sessions[x].inchat \ Unregistered
          PROVE  \E d \in M : InSame(r, x, d) /\ r.sessions[d].user = w
      <3>1. /\ x \in L /\ x \in Conns /\ v.sessions[x].user = r.sessions[x].user
            /\ v.sessions[x].canale # 0
        BY <1>2, <1>6, <2>1
      <3>2. w \in v.sessions[x].inchat \ Unregistered /\ (x # c => w # u)
        BY <1>2, <1>3, <1>5, <2>1, <3>1, AnnouncedIs
      <3>3. PICK d \in L : InSame(v, x, d) /\ v.sessions[d].user = w
        BY <1>2, <1>18, <2>1, <3>1, <3>2 DEF KnowsOnlyChannel
      <3>4. d # c
        BY <1>2, <3>2, <3>3 DEF InSame
      <3>5. QED
        BY <1>2, <1>4, <1>16, <2>1, <3>3, <3>4
    <2>2. QED
      BY <1>2, <2>1 DEF KnowsOnlyChannel
  <1>19. QED
    BY <1>9, <1>11, <1>12, <1>13, <1>14, <1>17, <1>18, Zenon DEF Social

\* Changes that leave alone who is in, and who was told so: only the chat is left.
SameButChat(r, v) ==
  /\ ToSet(r.list) = ToSet(v.list)
  /\ \A d \in Conns :
       /\ r.sessions[d].user = v.sessions[d].user
       /\ r.sessions[d].stato = v.sessions[d].stato
       /\ r.sessions[d].logged = v.sessions[d].logged
       /\ r.sessions[d].cancella = v.sessions[d].cancella
       /\ r.sessions[d].present = v.sessions[d].present

LEMMA SocialChat ==
  ASSUME NEW v, NEW r, NEW t, NEW next, NEW but, Social(v, t, but),
         ToSet(v.list) \subseteq Conns, ToSet(next) \subseteq ToSet(t), SameButChat(r, v),
         KnowsChannel(r, but), KnowsOnlyChannel(v) => KnowsOnlyChannel(r)
  PROVE  Social(r, next, but)
  <1>1. PICK L : L = ToSet(v.list)
    OBVIOUS
  <1>2. /\ L \subseteq Conns /\ ToSet(r.list) = L /\ ToSet(v.list) = L
        /\ \A d \in Conns :
             /\ r.sessions[d].user = v.sessions[d].user
             /\ r.sessions[d].stato = v.sessions[d].stato
             /\ r.sessions[d].logged = v.sessions[d].logged
             /\ r.sessions[d].cancella = v.sessions[d].cancella
             /\ r.sessions[d].present = v.sessions[d].present
    BY <1>1 DEF SameButChat
  <1>3. TwoInPass(r, next)
    <2>1. TwoInPass(v, t)
      BY DEF Social
    <2>2. QED
      BY <1>2, <2>1 DEF TwoInPass, Same, MayBeIn
  <1>4. \A u, d : Stays(v, u, d) => Stays(r, u, d)
    BY <1>2 DEF Stays
  <1>5. TakenOverBy(r, but)
    <2>1. TakenOverBy(v, but)
      BY DEF Social
    <2>2. QED
      BY <1>2, <1>4, <2>1 DEF TakenOverBy
  <1>6. NothingTold(r)
    <2>1. NothingTold(v)
      BY DEF Social
    <2>2. QED
      BY <1>2, <2>1 DEF NothingTold
  <1>7. KnowsWhoIsIn(r, but)
    <2>1. KnowsWhoIsIn(v, but)
      BY DEF Social
    <2>2. QED
      BY <1>2, <2>1 DEF KnowsWhoIsIn
  <1>8. ASSUME KnowsNobodyElse(v) PROVE KnowsNobodyElse(r)
    BY <1>2, <1>4, <1>8 DEF KnowsNobodyElse
  <1>9. QED
    BY <1>3, <1>5, <1>6, <1>7, <1>8, Zenon DEF Social

\* No other session of the user of c is in.
Alone(v, c) ==
  \A b \in ToSet(v.list) \ {c} : Same(v.sessions[b], v.sessions[c]) => ~ v.sessions[b].logged

LEMMA SocialExit ==
  ASSUME NEW v, ServerOK(v), NEW t, NEW next, NEW but, Social(v, t, but),
         ToSet(next) \subseteq ToSet(t),
         NEW c \in ToSet(v.list), Alone(v, c), NEW r, r = OutOfChat(v, c)
  PROVE  Social(r, next, but) /\ SameButChat(r, v)
  <1>1. PICK L, u, k : L = ToSet(v.list) /\ u = v.sessions[c].user /\ k = v.sessions[c].canale
    OBVIOUS
  <1>2. /\ ToSet(v.list) = L /\ L \subseteq Conns /\ c \in L /\ v.sessions[c].user = u
        /\ v.sessions[c].canale = k
    BY <1>1, Parts
  <1>3. PICK s, e : s = v.sessions[c] /\ e = Outside(s)
    OBVIOUS
  <1>4. /\ ServerOK(r) /\ r.list = v.list /\ r.sessions[c] = e
        /\ \A d \in Conns : d # c => r.sessions[d] = ToldOfExit(v, c).sessions[d]
    BY <1>3, OutOfChatIs
  <1>5. PICK q : q = ToldOfExit(v, c)
    OBVIOUS
  <1>6. PICK I : I = InChannel(v, k, c)
    OBVIOUS
  <1>7. /\ \A d \in Conns : Alike(q.sessions[d], v.sessions[d])
        /\ \A d \in Conns : q.sessions[d].present = v.sessions[d].present
        /\ \A d \in Conns \ I : q.sessions[d] = v.sessions[d]
        /\ \A d \in I : q.sessions[d].inchat = v.sessions[d].inchat \ {u}
    BY <1>1, <1>2, <1>5, <1>6, ToldOfExitIs
  <1>8. s \in SessionSet
    BY <1>2, <1>3, Parts
  <1>9. /\ e.user = s.user /\ e.stato = s.stato /\ e.cancella = s.cancella
        /\ e.logged = s.logged /\ e.canale = 0 /\ e.present = s.present
    BY <1>3, <1>8, OutsideIs
  <1>10. ASSUME NEW d \in Conns
         PROVE  /\ r.sessions[d].user = v.sessions[d].user
                /\ r.sessions[d].stato = v.sessions[d].stato
                /\ r.sessions[d].logged = v.sessions[d].logged
                /\ r.sessions[d].cancella = v.sessions[d].cancella
                /\ r.sessions[d].present = v.sessions[d].present
                /\ r.sessions[d].canale = IF d = c THEN 0 ELSE v.sessions[d].canale
    <2>1. CASE d = c
      BY <1>3, <1>4, <1>9, <2>1
    <2>2. CASE d # c
      <3>1. Alike(r.sessions[d], v.sessions[d]) /\ r.sessions[d].present = v.sessions[d].present
        BY <1>4, <1>5, <1>7, <2>2
      <3>2. QED
        BY <2>2, <3>1 DEF Alike
    <2>3. QED
      BY <2>1, <2>2
  <1>11. SameButChat(r, v)
    BY <1>4, <1>10 DEF SameButChat
  <1>12. ASSUME NEW d \in L, d # c
         PROVE  /\ d \in I <=> v.sessions[d].canale = k /\ v.sessions[d].user # NoUser
                /\ d \notin I => r.sessions[d].inchat = v.sessions[d].inchat
                /\ d \in I => r.sessions[d].inchat = v.sessions[d].inchat \ {u}
    <2>1. d \in I <=> v.sessions[d].canale = k /\ v.sessions[d].user # NoUser
      BY <1>2, <1>6, <1>12 DEF InChannel
    <2>2. d \in Conns /\ r.sessions[d] = q.sessions[d]
      BY <1>2, <1>4, <1>5, <1>12
    <2>3. QED
      BY <1>7, <2>1, <2>2
  <1>13. \A x, y \in L : InSame(r, x, y) <=> InSame(v, x, y) /\ x # c /\ y # c
    BY <1>2, <1>10 DEF InSame
  <1>14. \A b \in L : v.sessions[b].canale # 0 => v.sessions[b].logged
    BY <1>2, HasUser
  <1>15. KnowsChannel(r, but)
    <2>1. KnowsChannel(v, but)
      BY DEF Social
    <2>2. ASSUME NEW x \in L, NEW y \in L, InSame(r, x, y), r.sessions[y].user # but
          PROVE  r.sessions[y].user \in r.sessions[x].inchat
      <3>1. /\ InSame(v, x, y) /\ x # c /\ y # c /\ y \in Conns
            /\ r.sessions[y].user = v.sessions[y].user
        BY <1>2, <1>10, <1>13, <2>2
      <3>2. v.sessions[y].user \in v.sessions[x].inchat
        BY <1>2, <2>1, <2>2, <3>1 DEF KnowsChannel
      <3>3. v.sessions[y].user # u
        BY <1>2, <1>14, <3>1 DEF Alone, Same, InSame
      <3>4. QED
        BY <1>12, <3>1, <3>2, <3>3
    <2>3. QED
      BY <1>2, <1>4, <2>2 DEF KnowsChannel
  <1>16. ASSUME KnowsOnlyChannel(v) PROVE KnowsOnlyChannel(r)
    <2>1. ASSUME NEW x \in L, r.sessions[x].user # NoUser, r.sessions[x].canale # 0,
                 NEW w \in r.sessions[x].inchat \ Unregistered
          PROVE  \E d \in L : InSame(r, x, d) /\ r.sessions[d].user = w
      <3>1. /\ x # c /\ x \in Conns /\ v.sessions[x].user # NoUser
            /\ v.sessions[x].canale # 0
        BY <1>2, <1>10, <2>1
      <3>2. w \in v.sessions[x].inchat /\ (x \in I => w # u)
        BY <1>12, <2>1, <3>1
      <3>3. PICK d \in L : InSame(v, x, d) /\ v.sessions[d].user = w
        BY <1>2, <1>16, <3>1, <3>2 DEF KnowsOnlyChannel
      <3>4. d # c
        BY <1>2, <1>12, <3>1, <3>2, <3>3 DEF InSame
      <3>5. QED
        BY <1>2, <1>10, <1>13, <3>1, <3>3, <3>4
    <2>2. QED
      BY <1>2, <1>4, <2>1 DEF KnowsOnlyChannel
  <1>17. QED
    BY <1>2, <1>11, <1>15, <1>16, SocialChat

\* Session c, which is in no channel, enters one.
Enters(r, v, c, canale) ==
  /\ SameButChat(r, v) /\ ServerOK(r)
  /\ r.sessions[c].canale = canale /\ r.sessions[c].inchat = InTheChannel(v, canale, c)
  /\ \A d \in Conns \ {c} :
       /\ r.sessions[d].canale = v.sessions[d].canale
       /\ d \in InChannel(v, canale, c) =>
            r.sessions[d].inchat = v.sessions[d].inchat \cup {v.sessions[c].user}
       /\ d \notin InChannel(v, canale, c) => r.sessions[d].inchat = v.sessions[d].inchat

LEMMA SocialEnter ==
  ASSUME NEW v, ServerOK(v), NEW t, NEW but, Social(v, t, but),
         NEW c \in ToSet(v.list), v.sessions[c].canale = 0, v.sessions[c].user \in Users,
         v.sessions[c].stato # "CHIUSA",
         NEW canale \in Channels, NEW r, Enters(r, v, c, canale)
  PROVE  Social(r, t, but)
  <1>1. PICK L, u, I : L = ToSet(v.list) /\ u = v.sessions[c].user /\ I = InChannel(v, canale, c)
    OBVIOUS
  <1>2. /\ ToSet(v.list) = L /\ L \subseteq Conns /\ c \in L /\ v.sessions[c].user = u
        /\ ToSet(r.list) = L /\ u # NoUser /\ canale # 0
    <2>1. canale # 0
      BY NumbersAssumption
    <2>2. QED
      BY <1>1, <2>1, Parts, UserIsNamed DEF Enters, SameButChat
  <1>3. /\ \A d \in Conns : /\ r.sessions[d].user = v.sessions[d].user
                            /\ r.sessions[d].stato = v.sessions[d].stato
                            /\ r.sessions[d].logged = v.sessions[d].logged
        /\ r.sessions[c].canale = canale /\ r.sessions[c].inchat = InTheChannel(v, canale, c)
        /\ \A d \in Conns \ {c} :
             /\ r.sessions[d].canale = v.sessions[d].canale
             /\ d \in I => r.sessions[d].inchat = v.sessions[d].inchat \cup {u}
             /\ d \notin I => r.sessions[d].inchat = v.sessions[d].inchat
    BY <1>1 DEF Enters, SameButChat
  <1>4. \A d \in L \ {c} : d \in I <=> v.sessions[d].canale = canale /\ v.sessions[d].user # NoUser
    BY <1>1 DEF InChannel
  <1>5. I \subseteq L \ {c}
    BY <1>1 DEF InChannel
  <1>6. \A w : w \in InTheChannel(v, canale, c) <=>
          \E d \in I : v.sessions[d].logged /\ v.sessions[d].stato # "CHIUSA"
                       /\ v.sessions[d].user = w
    BY <1>1 DEF InTheChannel, UsersOf, Staying, Cwho
  <1>7. \A d \in L : v.sessions[d].canale # 0 => v.sessions[d].logged
    BY <1>2, HasUser
  <1>8. \A x, y \in L : x # c /\ y # c => (InSame(r, x, y) <=> InSame(v, x, y))
    BY <1>2, <1>3 DEF InSame
  <1>9. KnowsChannel(r, but)
    <2>1. KnowsChannel(v, but)
      BY DEF Social
    <2>2. ASSUME NEW x \in L, NEW y \in L, InSame(r, x, y), r.sessions[y].user # but
          PROVE  r.sessions[y].user \in r.sessions[x].inchat
      <3>1. CASE x = c
        <4>1. y \in I /\ v.sessions[y].logged /\ v.sessions[y].stato # "CHIUSA"
          BY <1>2, <1>3, <1>4, <1>7, <2>2, <3>1 DEF InSame
        <4>2. r.sessions[y].user = v.sessions[y].user
          BY <1>2, <1>3
        <4>3. QED
          BY <1>3, <1>6, <3>1, <4>1, <4>2
      <3>2. CASE y = c
        <4>1. x \in I /\ x \in Conns \ {c}
          BY <1>2, <1>3, <1>4, <2>2, <3>2 DEF InSame
        <4>2. QED
          BY <1>2, <1>3, <3>2, <4>1
      <3>3. CASE x # c /\ y # c
        <4>1. InSame(v, x, y) /\ r.sessions[y].user = v.sessions[y].user
          BY <1>2, <1>3, <1>8, <2>2, <3>3
        <4>2. v.sessions[y].user \in v.sessions[x].inchat
          BY <1>2, <2>1, <2>2, <4>1 DEF KnowsChannel
        <4>3. x \in Conns \ {c}
          BY <1>2, <3>3
        <4>4. QED
          BY <1>3, <4>1, <4>2, <4>3
      <3>4. QED
        BY <3>1, <3>2, <3>3
    <2>3. QED
      BY <1>2, <2>2 DEF KnowsChannel
  <1>10. ASSUME KnowsOnlyChannel(v) PROVE KnowsOnlyChannel(r)
    <2>1. ASSUME NEW x \in L, r.sessions[x].user # NoUser, r.sessions[x].canale # 0,
                 NEW w \in r.sessions[x].inchat \ Unregistered
          PROVE  \E d \in L : InSame(r, x, d) /\ r.sessions[d].user = w
      <3>1. CASE x = c
        <4>1. PICK d \in I : v.sessions[d].logged /\ v.sessions[d].stato # "CHIUSA"
                             /\ v.sessions[d].user = w
          BY <1>3, <1>6, <2>1, <3>1
        <4>2. /\ d \in L \ {c} /\ d \in Conns \ {c} /\ v.sessions[d].canale = canale
              /\ v.sessions[d].user # NoUser
          BY <1>2, <1>4, <1>5, <4>1
        <4>3. InSame(r, x, d) /\ r.sessions[d].user = w
          BY <1>2, <1>3, <3>1, <4>1, <4>2 DEF InSame
        <4>4. QED
          BY <4>2, <4>3
      <3>2. CASE x # c /\ w \in v.sessions[x].inchat
        <4>1. x \in Conns \ {c} /\ v.sessions[x].user # NoUser /\ v.sessions[x].canale # 0
          BY <1>2, <1>3, <2>1, <3>2
        <4>2. PICK d \in L : InSame(v, x, d) /\ v.sessions[d].user = w
          BY <1>2, <1>10, <3>2, <4>1 DEF KnowsOnlyChannel
        <4>3. d # c
          BY <4>1, <4>2 DEF InSame
        <4>4. QED
          BY <1>2, <1>3, <1>8, <3>2, <4>2, <4>3
      <3>3. CASE x # c /\ w \notin v.sessions[x].inchat
        <4>1. x \in I /\ w = u /\ x \in Conns \ {c}
          BY <1>2, <1>3, <2>1, <3>3
        <4>2. InSame(r, x, c) /\ r.sessions[c].user = w
          BY <1>2, <1>3, <1>4, <2>1, <4>1 DEF InSame
        <4>3. QED
          BY <1>2, <4>2
      <3>4. QED
        BY <3>1, <3>2, <3>3
    <2>2. QED
      BY <1>2, <2>1 DEF KnowsOnlyChannel
  <1>11. SameButChat(r, v)
    BY DEF Enters
  <1>12. QED
    BY <1>2, <1>9, <1>10, <1>11, SocialChat

\* Session c has given the name u: the other sessions of u are taken over.
NamedAt(r, v, c, u) ==
  /\ ToSet(r.list) = ToSet(v.list)
  /\ v.sessions[c].stato = "LIC" /\ r.sessions[c].user = u /\ r.sessions[c].stato = "COMANDI"
  /\ ~ r.sessions[c].logged /\ ~ r.sessions[c].cancella /\ r.sessions[c].canale = 0
  /\ r.sessions[c].present = v.sessions[c].present
  /\ \A d \in Conns \ {c} :
       /\ r.sessions[d].user = v.sessions[d].user
       /\ r.sessions[d].stato = v.sessions[d].stato
       /\ r.sessions[d].logged = v.sessions[d].logged
       /\ r.sessions[d].canale = v.sessions[d].canale
       /\ r.sessions[d].present = v.sessions[d].present
       /\ r.sessions[d].inchat = v.sessions[d].inchat
       /\ v.sessions[d].cancella => r.sessions[d].cancella
       /\ r.sessions[d].cancella /\ ~ v.sessions[d].cancella => v.sessions[d].user = u
  /\ \A d \in ToSet(v.list) \ {c} : v.sessions[d].user = u => r.sessions[d].cancella

LEMMA SocialNamed ==
  ASSUME NEW v, ServerOK(v), NEW t, NEW next, Social(v, t, NoUser),
         NEW c \in ToSet(v.list), c \notin ToSet(next), ToSet(next) \subseteq ToSet(t),
         NEW u \in Users, NEW r, NamedAt(r, v, c, u)
  PROVE  Social(r, next, NoUser)
  <1>1. PICK L : L = ToSet(v.list)
    OBVIOUS
  <1>2. /\ ToSet(v.list) = L /\ L \subseteq Conns /\ c \in L /\ ToSet(r.list) = L
        /\ u # NoUser
    BY <1>1, Parts, UserIsNamed DEF NamedAt
  <1>3. /\ r.sessions[c].user = u /\ r.sessions[c].stato = "COMANDI"
        /\ ~ r.sessions[c].logged /\ ~ r.sessions[c].cancella /\ r.sessions[c].canale = 0
        /\ r.sessions[c].present = v.sessions[c].present
        /\ v.sessions[c].stato = "LIC"
    BY DEF NamedAt
  <1>4. \A d \in Conns \ {c} :
          /\ r.sessions[d].user = v.sessions[d].user
          /\ r.sessions[d].stato = v.sessions[d].stato
          /\ r.sessions[d].logged = v.sessions[d].logged
          /\ r.sessions[d].canale = v.sessions[d].canale
          /\ r.sessions[d].present = v.sessions[d].present
          /\ r.sessions[d].inchat = v.sessions[d].inchat
          /\ v.sessions[d].cancella => r.sessions[d].cancella
          /\ r.sessions[d].cancella /\ ~ v.sessions[d].cancella => v.sessions[d].user = u
    BY DEF NamedAt
  <1>5. \A d \in L \ {c} : v.sessions[d].user = u => r.sessions[d].cancella
    BY <1>2 DEF NamedAt
  <1>6. v.sessions[c].user = NoUser /\ ~ v.sessions[c].logged /\ ~ v.sessions[c].cancella
    BY <1>2, <1>3, HasUser
  <1>7. TwoInPass(r, next)
    <2>1. TwoInPass(v, t)
      BY DEF Social
    <2>2. ~ MayBeIn(r, next, c)
      BY <1>3 DEF MayBeIn
    <2>3. \A d \in L \ {c} : MayBeIn(r, next, d) => MayBeIn(v, t, d)
      BY <1>2, <1>4 DEF MayBeIn
    <2>4. ASSUME NEW x \in L, NEW y \in L, x # y, Same(r.sessions[x], r.sessions[y])
          PROVE  /\ r.sessions[x].cancella \/ r.sessions[y].cancella
                 /\ ~ (MayBeIn(r, next, x) /\ MayBeIn(r, next, y))
                 /\ ~ r.sessions[x].cancella => ~ MayBeIn(r, next, x)
      <3>1. CASE x = c
        BY <1>2, <1>3, <1>4, <1>5, <2>2, <2>4, <3>1 DEF Same
      <3>2. CASE y = c
        BY <1>2, <1>3, <1>4, <1>5, <2>2, <2>4, <3>2 DEF Same
      <3>3. CASE x # c /\ y # c
        <4>1. Same(v.sessions[x], v.sessions[y])
          BY <1>2, <1>4, <2>4, <3>3 DEF Same
        <4>2. /\ v.sessions[x].cancella \/ v.sessions[y].cancella
              /\ ~ (MayBeIn(v, t, x) /\ MayBeIn(v, t, y))
              /\ ~ v.sessions[x].cancella => ~ MayBeIn(v, t, x)
          BY <1>2, <2>1, <2>4, <4>1 DEF TwoInPass
        <4>3. QED
          BY <1>2, <1>4, <2>3, <3>3, <4>2
      <3>4. QED
        BY <3>1, <3>2, <3>3
    <2>5. QED
      BY <1>2, <2>4 DEF TwoInPass
  <1>8. Stays(r, u, c)
    BY <1>2, <1>3 DEF Stays
  <1>9. ASSUME NEW w \in Users, NEW d \in Conns, Stays(v, w, d)
        PROVE  \E e \in Conns : Stays(r, w, e)
    <2>1. CASE w = u
      BY <1>2, <1>8, <2>1
    <2>2. CASE w # u
      <3>1. d # c /\ v.sessions[d].user # u /\ d \in Conns \ {c}
        BY <1>6, <1>9, <2>2, UserIsNamed DEF Stays
      <3>2. Stays(r, w, d)
        BY <1>2, <1>4, <1>9, <3>1 DEF Stays
      <3>3. QED
        BY <3>2
    <2>3. QED
      BY <2>1, <2>2
  <1>10. TakenOverBy(r, NoUser)
    <2>1. TakenOverBy(v, NoUser)
      BY DEF Social
    <2>2. ASSUME NEW x \in L, r.sessions[x].cancella, r.sessions[x].user # NoUser
          PROVE  \E d \in Conns : Stays(r, r.sessions[x].user, d)
      <3>1. x # c /\ x \in Conns \ {c} /\ r.sessions[x].user = v.sessions[x].user
        BY <1>2, <1>3, <1>4, <2>2
      <3>2. CASE v.sessions[x].user = u
        BY <1>2, <1>8, <3>1, <3>2
      <3>3. CASE v.sessions[x].user # u
        <4>1. v.sessions[x].cancella
          BY <1>4, <2>2, <3>1, <3>3
        <4>2. PICK d \in Conns : Stays(v, v.sessions[x].user, d)
          BY <1>2, <2>1, <2>2, <3>1, <4>1 DEF TakenOverBy
        <4>3. v.sessions[x].user \in Users
          BY <1>2, <2>2, <3>1, HasUser
        <4>4. QED
          BY <1>9, <3>1, <4>2, <4>3
      <3>4. QED
        BY <3>2, <3>3
    <2>3. QED
      BY <1>2, <2>2 DEF TakenOverBy
  <1>11. NothingTold(r)
    <2>1. NothingTold(v)
      BY DEF Social
    <2>2. QED
      BY <1>2, <1>3, <1>4, <2>1 DEF NothingTold
  <1>12. KnowsWhoIsIn(r, NoUser)
    <2>1. KnowsWhoIsIn(v, NoUser)
      BY DEF Social
    <2>2. QED
      BY <1>2, <1>3, <1>4, <2>1 DEF KnowsWhoIsIn
  <1>13. ASSUME KnowsNobodyElse(v) PROVE KnowsNobodyElse(r)
    <2>1. ASSUME NEW x \in L, r.sessions[x].user # NoUser, NEW w \in r.sessions[x].present \ Unregistered,
                 w # r.sessions[x].user
          PROVE  \E d \in Conns : Stays(r, w, d)
      <3>1. x # c
        <4>1. NothingTold(v)
          BY DEF Social
        <4>2. v.sessions[c].present = {}
          BY <1>2, <1>3, <4>1 DEF NothingTold
        <4>3. QED
          BY <1>3, <2>1, <4>2
      <3>2. /\ v.sessions[x].user # NoUser /\ w \in v.sessions[x].present
            /\ w # v.sessions[x].user
        BY <1>2, <1>4, <2>1, <3>1
      <3>3. PICK d \in Conns : Stays(v, w, d)
        BY <1>2, <1>13, <3>2 DEF KnowsNobodyElse
      <3>4. w \in Users
        BY <1>2, <3>2, HasUser
      <3>5. QED
        BY <1>9, <3>3, <3>4
    <2>2. QED
      BY <1>2, <2>1 DEF KnowsNobodyElse
  <1>14. ASSUME NEW x \in L, NEW y \in L
         PROVE  /\ InSame(r, x, y) => x # c /\ y # c /\ InSame(v, x, y)
                /\ x # c /\ y # c /\ InSame(v, x, y) => InSame(r, x, y)
    <2>1. \A d \in L \ {c} : d \in Conns \ {c}
      BY <1>2
    <2>2. QED
      BY <1>3, <1>4, <2>1 DEF InSame
  <1>15. KnowsChannel(r, NoUser)
    <2>1. KnowsChannel(v, NoUser)
      BY DEF Social
    <2>2. ASSUME NEW x \in L, NEW y \in L, InSame(r, x, y), r.sessions[y].user # NoUser
          PROVE  r.sessions[y].user \in r.sessions[x].inchat
      <3>1. /\ x \in Conns \ {c} /\ y \in Conns \ {c} /\ InSame(v, x, y)
        BY <1>2, <1>14, <2>2
      <3>2. QED
        BY <1>2, <1>4, <2>1, <2>2, <3>1 DEF KnowsChannel
    <2>3. QED
      BY <1>2, <2>2 DEF KnowsChannel
  <1>16. ASSUME KnowsOnlyChannel(v) PROVE KnowsOnlyChannel(r)
    <2>1. ASSUME NEW x \in L, r.sessions[x].user # NoUser, r.sessions[x].canale # 0,
                 NEW w \in r.sessions[x].inchat \ Unregistered
          PROVE  \E d \in L : InSame(r, x, d) /\ r.sessions[d].user = w
      <3>1. /\ x # c /\ x \in Conns \ {c} /\ v.sessions[x].user # NoUser
            /\ v.sessions[x].canale # 0 /\ w \in v.sessions[x].inchat
        BY <1>2, <1>3, <1>4, <2>1
      <3>2. PICK d \in L : InSame(v, x, d) /\ v.sessions[d].user = w
        BY <1>2, <1>16, <3>1 DEF KnowsOnlyChannel
      <3>3. d # c /\ d \in Conns \ {c}
        BY <1>2, <1>6, <3>2 DEF InSame
      <3>4. QED
        BY <1>4, <1>14, <3>1, <3>2, <3>3
    <2>2. QED
      BY <1>2, <2>1 DEF KnowsOnlyChannel
  <1>17. QED
    BY <1>7, <1>10, <1>11, <1>12, <1>13, <1>15, <1>16, Zenon DEF Social

\* Session c has come in, asked who is, and the others were told.
ChecksIn(r, v, c) ==
  /\ ToSet(r.list) = ToSet(v.list)
  /\ v.sessions[c].stato = "COMANDI" /\ v.sessions[c].user \in Users
  /\ r.sessions[c].logged /\ r.sessions[c].present = LoggedIn(v, c)
  /\ \A d \in Conns :
       /\ r.sessions[d].user = v.sessions[d].user
       /\ r.sessions[d].stato = v.sessions[d].stato
       /\ r.sessions[d].cancella = v.sessions[d].cancella
       /\ r.sessions[d].canale = v.sessions[d].canale
       /\ r.sessions[d].inchat = v.sessions[d].inchat
  /\ \A d \in Conns \ {c} :
       /\ r.sessions[d].logged = v.sessions[d].logged
       /\ v.sessions[d].user = NoUser => r.sessions[d].present = v.sessions[d].present
       /\ v.sessions[d].user # NoUser =>
            r.sessions[d].present = v.sessions[d].present \cup {v.sessions[c].user}

LEMMA SocialChecked ==
  ASSUME NEW v, ServerOK(v), NEW t, NEW next, Social(v, t, NoUser),
         NEW c \in ToSet(v.list), c \in ToSet(t), ToSet(next) \subseteq ToSet(t),
         NEW r, ChecksIn(r, v, c)
  PROVE  Social(r, next, NoUser)
  <1>1. PICK L, u : L = ToSet(v.list) /\ u = v.sessions[c].user
    OBVIOUS
  <1>2. /\ ToSet(v.list) = L /\ L \subseteq Conns /\ c \in L /\ ToSet(r.list) = L
        /\ u # NoUser /\ u \in Users /\ v.sessions[c].user = u
        /\ v.sessions[c].stato = "COMANDI"
    BY <1>1, Parts, UserIsNamed DEF ChecksIn
  <1>3. r.sessions[c].logged /\ r.sessions[c].present = LoggedIn(v, c)
    BY DEF ChecksIn
  <1>4. \A d \in Conns :
          /\ r.sessions[d].user = v.sessions[d].user
          /\ r.sessions[d].stato = v.sessions[d].stato
          /\ r.sessions[d].cancella = v.sessions[d].cancella
          /\ r.sessions[d].canale = v.sessions[d].canale
          /\ r.sessions[d].inchat = v.sessions[d].inchat
    BY DEF ChecksIn
  <1>5. \A d \in Conns \ {c} :
          /\ r.sessions[d].logged = v.sessions[d].logged
          /\ v.sessions[d].user = NoUser => r.sessions[d].present = v.sessions[d].present
          /\ v.sessions[d].user # NoUser =>
               r.sessions[d].present = v.sessions[d].present \cup {u}
    BY <1>1 DEF ChecksIn
  <1>6. \A w : w \in LoggedIn(v, c) <=>
          \E d \in L \ {c} : v.sessions[d].logged /\ v.sessions[d].stato # "CHIUSA"
                             /\ v.sessions[d].user = w
    <2>1. \A d \in L : v.sessions[d].logged /\ v.sessions[d].stato # "CHIUSA"
                       => v.sessions[d].user # NoUser
      BY <1>1, HasUser, UserIsNamed
    <2>2. QED
      BY <1>1, <2>1 DEF LoggedIn, UsersOf, Staying, Hwho
  <1>7. TwoInPass(r, next)
    <2>1. TwoInPass(v, t)
      BY DEF Social
    <2>2. \A x \in L : MayBeIn(r, next, x) => MayBeIn(v, t, x)
      BY <1>2, <1>5 DEF MayBeIn
    <2>3. \A x, y \in L : Same(r.sessions[x], r.sessions[y]) => Same(v.sessions[x], v.sessions[y])
      BY <1>2, <1>4 DEF Same
    <2>4. QED
      BY <1>2, <1>4, <2>1, <2>2, <2>3 DEF TwoInPass
  <1>8. \A w, d : Stays(v, w, d) => Stays(r, w, d)
    BY <1>2, <1>4 DEF Stays
  <1>9. TakenOverBy(v, NoUser)
    BY DEF Social
  <1>10. TakenOverBy(r, NoUser)
    BY <1>2, <1>4, <1>8, <1>9 DEF TakenOverBy
  <1>11. ASSUME NEW e \in L, v.sessions[e].user \in Users, v.sessions[e].stato # "CHIUSA"
         PROVE  \E d \in Conns : Stays(v, v.sessions[e].user, d)
    <2>1. CASE v.sessions[e].cancella
      BY <1>2, <1>9, <1>11, <2>1, UserIsNamed DEF TakenOverBy
    <2>2. CASE ~ v.sessions[e].cancella
      BY <1>2, <1>11, <2>2 DEF Stays
    <2>3. QED
      BY <2>1, <2>2
  <1>12. NothingTold(r)
    <2>1. NothingTold(v)
      BY DEF Social
    <2>2. ASSUME NEW x \in L, r.sessions[x].stato = "LIC" PROVE r.sessions[x].present = {}
      <3>1. v.sessions[x].stato = "LIC" /\ x # c /\ x \in Conns \ {c}
        BY <1>2, <1>4, <2>2
      <3>2. v.sessions[x].user = NoUser /\ v.sessions[x].present = {}
        BY <1>2, <2>1, <3>1, HasUser DEF NothingTold
      <3>3. QED
        BY <1>5, <3>1, <3>2
    <2>3. QED
      BY <1>2, <2>2 DEF NothingTold
  <1>13. KnowsWhoIsIn(r, NoUser)
    <2>1. KnowsWhoIsIn(v, NoUser)
      BY DEF Social
    <2>2. ASSUME NEW x \in L, NEW y \in L, x # y, r.sessions[x].logged,
                 r.sessions[x].user # NoUser, r.sessions[y].logged,
                 r.sessions[y].stato # "CHIUSA",
                 r.sessions[x].user # r.sessions[y].user, r.sessions[y].user # NoUser
          PROVE  r.sessions[y].user \in r.sessions[x].present
      <3>1. CASE x = c
        <4>1. /\ y \in L \ {c} /\ v.sessions[y].logged /\ v.sessions[y].stato # "CHIUSA"
              /\ r.sessions[y].user = v.sessions[y].user
          BY <1>2, <1>4, <1>5, <2>2, <3>1
        <4>2. QED
          BY <1>3, <1>6, <3>1, <4>1
      <3>2. CASE y = c
        BY <1>2, <1>4, <1>5, <2>2, <3>2
      <3>3. CASE x # c /\ y # c
        <4>1. /\ v.sessions[x].logged /\ v.sessions[x].user # NoUser /\ v.sessions[y].logged
              /\ v.sessions[y].stato # "CHIUSA" /\ v.sessions[x].user # v.sessions[y].user
              /\ v.sessions[y].user # NoUser /\ r.sessions[y].user = v.sessions[y].user
          BY <1>2, <1>4, <1>5, <2>2, <3>3
        <4>2. v.sessions[y].user \in v.sessions[x].present
          BY <1>2, <2>1, <2>2, <4>1 DEF KnowsWhoIsIn
        <4>3. QED
          BY <1>2, <1>5, <3>3, <4>1, <4>2
      <3>4. QED
        BY <3>1, <3>2, <3>3
    <2>3. QED
      BY <1>2, <2>2, Zenon DEF KnowsWhoIsIn
  <1>14. ASSUME KnowsNobodyElse(v) PROVE KnowsNobodyElse(r)
    <2>1. ASSUME NEW x \in L, r.sessions[x].user # NoUser, NEW w \in r.sessions[x].present \ Unregistered,
                 w # r.sessions[x].user
          PROVE  \E d \in Conns : Stays(r, w, d)
      <3>1. CASE x = c
        <4>1. PICK d \in L : v.sessions[d].logged /\ v.sessions[d].stato # "CHIUSA"
                             /\ v.sessions[d].user = w
          BY <1>3, <1>6, <2>1, <3>1
        <4>2. w \in Users
          BY <1>2, <4>1, HasUser
        <4>3. QED
          BY <1>8, <1>11, <4>1, <4>2
      <3>2. CASE x # c /\ w \in v.sessions[x].present
        <4>1. v.sessions[x].user # NoUser /\ w # v.sessions[x].user
          BY <1>2, <1>4, <2>1
        <4>2. PICK d \in Conns : Stays(v, w, d)
          BY <1>2, <1>14, <3>2, <4>1 DEF KnowsNobodyElse
        <4>3. QED
          BY <1>8, <4>2
      <3>3. CASE x # c /\ w \notin v.sessions[x].present
        <4>1. w = u
          BY <1>2, <1>5, <2>1, <3>3
        <4>2. QED
          BY <1>2, <1>8, <1>11, <4>1
      <3>4. QED
        BY <3>1, <3>2, <3>3
    <2>2. QED
      BY <1>2, <2>1 DEF KnowsNobodyElse
  <1>15. \A x, y \in L : InSame(r, x, y) <=> InSame(v, x, y)
    BY <1>2, <1>4 DEF InSame
  <1>16. KnowsChannel(r, NoUser)
    <2>1. KnowsChannel(v, NoUser)
      BY DEF Social
    <2>2. QED
      BY <1>2, <1>4, <1>15, <2>1 DEF KnowsChannel
  <1>17. ASSUME KnowsOnlyChannel(v) PROVE KnowsOnlyChannel(r)
    BY <1>2, <1>4, <1>15, <1>17 DEF KnowsOnlyChannel
  <1>18. QED
    BY <1>7, <1>10, <1>12, <1>13, <1>14, <1>16, <1>17, Zenon DEF Social

\* The server that a command makes is right when the one before clear_idle is.
LEMMA SocialServed ==
  ASSUME BaseInv, NEW c \in Connected, Turn(c), NEW sv, Effect(c, sv), Serve(c, sv),
         Social(sv, turn', NoUser)
  PROVE  SocialInv'
<1>1. /\ server'.list = server.list
      /\ \A d \in Conns : SameSeen(server'.sessions[d], sv.sessions[d])
  BY ServeIs
<1>2. ServerOK(sv) /\ sv.list = server.list /\ ToSet(sv.list) \subseteq Conns
  BY Parts, Zenon DEF Effect
<1>3. PICK r, next : r = server' /\ next = turn'
  OBVIOUS
<1>4. Social(r, next, NoUser)
  <2>1. ToSet(r.list) = ToSet(sv.list) /\ Social(sv, next, NoUser)
    BY <1>1, <1>2, <1>3
  <2>2. \A d \in Conns : SameSeen(r.sessions[d], sv.sessions[d])
    BY <1>1, <1>3
  <2> QED
    BY <1>2, <2>1, <2>2, SocialSeen
<1>5. commands' = commands
  BY Zenon DEF Turn
<1> QED
  BY <1>3, <1>4, <1>5, CommandsSame

\* Commands of which others notice nothing.
LEMMA SocialWritten ==
  ASSUME BaseInv, SocialInv, NEW c \in Connected, NEW text, NEW rcpt, Writes(c, text, rcpt)
  PROVE  SocialInv'
<1>1. Turn(c)
  BY Zenon DEF Writes
<1>2. PICK sv : Plain(c, sv) /\ Serve(c, sv)
  BY Zenon DEF Writes
<1>3. Effect(c, sv) /\ \A d \in Conns : SameSeen(sv.sessions[d], Session(d))
  BY <1>2, Zenon DEF Plain
<1>4. PICK next : next = turn'
  OBVIOUS
<1>5. Social(sv, next, NoUser)
  <2>1. ServerOK(sv) /\ sv.list = server.list /\ ToSet(server.list) \subseteq Conns
    BY <1>3, Parts, Zenon DEF Effect, BaseInv
  <2>2. ToSet(next) \subseteq ToSet(turn)
    BY <1>1, <1>4, TurnIs
  <2>3. \A d \in Conns : SameSeen(sv.sessions[d], server.sessions[d])
    BY <1>3, Zenon DEF Session
  <2>4. Social(server, turn, NoUser)
    BY Zenon DEF SocialInv
  <2> QED
    BY <2>1, <2>2, <2>3, <2>4, SocialSeen
<1> QED
  BY <1>1, <1>2, <1>3, <1>4, <1>5, SocialServed

LEMMA SocialSilent ==
  ASSUME BaseInv, SocialInv, Silent
  PROVE  SocialInv'
<1>1. /\ server' = server /\ commands' = commands
      /\ ToSet(server.list) \subseteq Conns
  BY SilentKeeps, Parts, Zenon DEF BaseInv
<1>2. PICK next : next = turn'
  OBVIOUS
<1>3. ToSet(next) \subseteq ToSet(turn)
  <2>1. turn \in Seq(Conns) /\ turn # << >> /\ next = Tail(turn)
    BY <1>2 DEF Silent, BaseInv
  <2>2. DOMAIN next = 1 .. Len(turn) - 1 /\ \A i \in 1 .. Len(turn) - 1 : next[i] = turn[i + 1]
    BY <2>1
  <2> QED
    BY <2>1, <2>2 DEF ToSet
<1>4. \A d \in Conns : SameSeen(server.sessions[d], server.sessions[d])
  BY Zenon DEF SameSeen
<1>5. Social(server, next, NoUser)
  <2>1. Social(server, turn, NoUser)
    BY Zenon DEF SocialInv
  <2> QED
    BY <1>1, <1>3, <1>4, <2>1, SocialSeen
<1> QED
  BY <1>1, <1>2, <1>5, CommandsSame

\* While a session is served, or logged in, no other session of the user is.
LEMMA NobodyElseIn ==
  ASSUME NEW v, NEW t, TwoInPass(v, t), NEW c \in ToSet(v.list), MayBeIn(v, t, c), NEW but
  PROVE  Alone(v, c) /\ NoRival(v, c, but)
<1>1. ASSUME NEW b \in ToSet(v.list) \ {c}, Same(v.sessions[b], v.sessions[c])
      PROVE  ~ v.sessions[b].logged /\ v.sessions[c].cancella
  <2>1. Same(v.sessions[c], v.sessions[b]) /\ c # b
    BY <1>1, Zenon DEF Same
  <2>2. ~ MayBeIn(v, t, b) /\ (~ v.sessions[c].cancella => ~ MayBeIn(v, t, c))
    BY <1>1, <2>1, Zenon DEF TwoInPass
  <2> QED
    BY <2>2, Zenon DEF MayBeIn
<1> QED
  BY <1>1, Zenon DEF Alone, NoRival

\* What holds of the session that is served.
LEMMA ServedInTurn ==
  ASSUME BaseInv, SocialInv, NEW c \in Connected, Turn(c), NEW but
  PROVE  /\ ServerOK(server) /\ c \in ToSet(server.list) /\ c \in Conns
         /\ Social(server, turn, NoUser) /\ c \in ToSet(turn)
         /\ c \notin ToSet(turn') /\ ToSet(turn') \subseteq ToSet(turn)
         /\ Alone(server, c) /\ NoRival(server, c, but)
         /\ ToSet(server.list) \subseteq Conns
<1>1. ServerOK(server) /\ c \in ToSet(server.list) /\ ToSet(server.list) \subseteq Conns
  BY Parts, Zenon DEF BaseInv, Connected
<1>2. Social(server, turn, NoUser)
  BY Zenon DEF SocialInv
<1>3. c \in ToSet(turn) /\ c \notin ToSet(turn') /\ ToSet(turn') \subseteq ToSet(turn)
  BY TurnIs
<1>4. MayBeIn(server, turn, c) /\ TwoInPass(server, turn)
  BY <1>2, <1>3, Zenon DEF MayBeIn, Social
<1> QED
  BY <1>1, <1>2, <1>3, <1>4, NobodyElseIn

LEMMA SocialSmaller ==
  ASSUME NEW v, ServerOK(v), NEW t, NEW next, NEW but, Social(v, t, but),
         ToSet(next) \subseteq ToSet(t)
  PROVE  Social(v, next, but)
<1>1. ToSet(v.list) \subseteq Conns
  BY Parts
<1>2. \A d \in Conns : SameSeen(v.sessions[d], v.sessions[d])
  BY Zenon DEF SameSeen
<1> QED
  BY <1>1, <1>2, SocialSeen

\* Who leaves is gone; the session may have lost its user.
LEMMA LeftGone ==
  ASSUME NEW v, ServerOK(v), NEW c \in ToSet(v.list)
  PROVE  GoneBy(Left(v, c), v, c)
<1>1. PICK r : r = Left(v, c)
  OBVIOUS
<1>2. /\ ServerOK(r) /\ r.list = v.list
      /\ r.sessions[c] = Ended(v.sessions[c])
      /\ \A d \in Conns : d # c => r.sessions[d] = ToldOfLogout(v, c).sessions[d]
  BY <1>1, LeftIs DEF Ended
<1>3. v.sessions[c] \in SessionSet
  BY Parts
<1>4. LET s == v.sessions[c]
          t == r.sessions[c]
      IN  /\ t.stato = "CHIUSA" /\ t.user = s.user /\ t.logged = s.logged
          /\ t.cancella = s.cancella /\ t.canale = s.canale
          /\ t.present = s.present /\ t.inchat = s.inchat
  BY <1>2, <1>3 DEF Ended, SessionSet
<1> QED
  BY <1>1, <1>2, <1>4, Zenon DEF GoneBy

LEMMA ThrownOutGone ==
  ASSUME NEW v, ServerOK(v), NEW c \in ToSet(v.list)
  PROVE  GoneBy(ThrownOut(v, c), v, c)
<1>1. PICK r : r = ThrownOut(v, c)
  OBVIOUS
<1>2. /\ ServerOK(r) /\ r.list = v.list
      /\ r.sessions[c] = Nobody(v.sessions[c])
      /\ \A d \in Conns : d # c => r.sessions[d] = ToldOfLogout(v, c).sessions[d]
  BY <1>1, ThrownOutIs
<1>3. v.sessions[c] \in SessionSet
  BY Parts
<1>4. PICK t : t = r.sessions[c]
  OBVIOUS
<1>5. LET s == v.sessions[c]
      IN  /\ t.stato = "CHIUSA" /\ t.user = NoUser /\ t.logged = s.logged
          /\ t.cancella = s.cancella /\ t.canale = s.canale
          /\ t.present = s.present /\ t.inchat = s.inchat
  BY <1>2, <1>3, <1>4, NobodyIs
<1> QED
  BY <1>1, <1>2, <1>4, <1>5, Zenon DEF GoneBy

LEMMA DroppedGone ==
  ASSUME NEW v, ServerOK(v), NEW c \in ToSet(v.list)
  PROVE  GoneBy(Dropped(v, c), v, c)
<1>1. PICK r : r = Dropped(v, c)
  OBVIOUS
<1>2. c \in Conns
  BY Parts
<1>3. /\ ServerOK(r) /\ ToSet(r.list) = ToSet(v.list) \ {c}
      /\ \A d \in Conns : d # c => r.sessions[d] = ToldOfLogout(v, c).sessions[d]
  BY <1>1, <1>2, DroppedIs
<1> QED
  BY <1>1, <1>3, Zenon DEF GoneBy

LEMMA SocialQuit ==
  ASSUME BaseInv, SocialInv, NEW c \in Connected, Quit(c)
  PROVE  SocialInv'
<1>1. PICK sv : sv = Left(server, c)
  OBVIOUS
<1>2. Makes(c, sv)
  BY <1>1, QuitMakes
<1>3. Turn(c) /\ Effect(c, sv) /\ Serve(c, sv)
  BY <1>2, Zenon DEF Makes
<1>4. PICK next : next = turn'
  OBVIOUS
<1>5. /\ ServerOK(server) /\ c \in ToSet(server.list) /\ Social(server, turn, NoUser)
      /\ NoRival(server, c, NoUser) /\ ToSet(next) \subseteq ToSet(turn)
  BY <1>3, <1>4, ServedInTurn
<1>6. GoneBy(sv, server, c)
  BY <1>1, <1>5, LeftGone
<1>7. Social(server, next, NoUser)
  BY <1>5, SocialSmaller
<1>8. Social(sv, next, NoUser)
  BY <1>5, <1>6, <1>7, SocialGone
<1> QED
  BY <1>3, <1>4, <1>8, SocialServed

LEMMA SocialClas ==
  ASSUME BaseInv, SocialInv, NEW c \in Connected, Clas(c)
  PROVE  SocialInv'
<1>1. PICK sv : sv = OutOfChat(server, c)
  OBVIOUS
<1>2. Makes(c, sv)
  BY <1>1, ClasMakes
<1>3. Turn(c) /\ Effect(c, sv) /\ Serve(c, sv)
  BY <1>2, Zenon DEF Makes
<1>4. PICK next : next = turn'
  OBVIOUS
<1>5. /\ ServerOK(server) /\ c \in ToSet(server.list) /\ Social(server, turn, NoUser)
      /\ Alone(server, c) /\ ToSet(next) \subseteq ToSet(turn)
  BY <1>3, <1>4, ServedInTurn
<1>6. Social(sv, next, NoUser)
  BY <1>1, <1>5, SocialExit
<1> QED
  BY <1>3, <1>4, <1>6, SocialServed

LEMMA SocialChek ==
  ASSUME BaseInv, SocialInv, NEW c \in Connected, Chek(c)
  PROVE  SocialInv'
<1>1. PICK sv : /\ Makes(c, sv) /\ Session(c).user \in Users /\ ~ Session(c).logged
                /\ Session(c).stato = "COMANDI"
                /\ sv.sessions[c] = CheckedIn(Session(c), LoggedIn(server, c), LateIn(server, c))
                /\ LoggedIn(server, c) \subseteq Users
                /\ LateIn(server, c) \in SUBSET Heard
                /\ \A d \in Conns : d # c =>
                     sv.sessions[d] = ToldOfLogin(server, c).sessions[d]
  BY ChekMakes
<1>2. Turn(c) /\ Effect(c, sv) /\ Serve(c, sv)
  BY <1>1, Zenon DEF Makes
<1>3. PICK next : next = turn'
  OBVIOUS
<1>4. /\ ServerOK(server) /\ c \in ToSet(server.list) /\ Social(server, turn, NoUser)
      /\ c \in ToSet(turn) /\ ToSet(next) \subseteq ToSet(turn) /\ c \in Conns
  BY <1>2, <1>3, ServedInTurn
<1>5. sv.list = server.list
  BY <1>2, Zenon DEF Effect
<1>6. PICK s, who, late : /\ s = Session(c) /\ who = LoggedIn(server, c)
                          /\ late = LateIn(server, c)
  OBVIOUS
<1>7. /\ s \in SessionSet /\ SessionOK(s) /\ s = server.sessions[c]
      /\ who \in SUBSET Users /\ late \in SUBSET Heard
  BY <1>1, <1>4, <1>6, Parts DEF Session
<1>8. PICK t : t = sv.sessions[c]
  OBVIOUS
<1>9. /\ t.user = s.user /\ t.stato = s.stato
      /\ t.logged /\ t.cancella = s.cancella /\ t.canale = s.canale
      /\ t.present = who /\ t.inchat = s.inchat
  <2>1. t = CheckedIn(s, who, late) /\ s.stato = "COMANDI"
    BY <1>1, <1>6, <1>8, Zenon
  <2> QED
    BY <1>7, <2>1, CheckedInIs
<1>10. PICK q : q = ToldOfLogin(server, c)
  OBVIOUS
<1>11. /\ \A d \in Conns : Alike(q.sessions[d], server.sessions[d])
       /\ \A d \in Conns : q.sessions[d].inchat = server.sessions[d].inchat
       /\ \A d \in Conns : server.sessions[d].user = NoUser => q.sessions[d] = server.sessions[d]
       /\ \A d \in Conns : d # c /\ server.sessions[d].user # NoUser =>
            q.sessions[d].present = server.sessions[d].present \cup {server.sessions[c].user}
  BY <1>1, <1>4, <1>10, ToldOfLoginIs DEF Session
<1>12. \A d \in Conns : d # c => sv.sessions[d] = q.sessions[d]
  BY <1>1, <1>10
<1>13. \A d \in Conns :
        /\ sv.sessions[d].user = server.sessions[d].user
        /\ sv.sessions[d].stato = server.sessions[d].stato
        /\ sv.sessions[d].cancella = server.sessions[d].cancella
        /\ sv.sessions[d].canale = server.sessions[d].canale
        /\ sv.sessions[d].inchat = server.sessions[d].inchat
  <2> TAKE d \in Conns
  <2>1. CASE d = c
    BY <2>1, <1>7, <1>8, <1>9
  <2>2. CASE d # c
    BY <2>2, <1>11, <1>12 DEF Alike
  <2> QED
    BY <2>1, <2>2
<1>14. \A d \in Conns \ {c} :
        /\ sv.sessions[d].logged = server.sessions[d].logged
        /\ server.sessions[d].user = NoUser =>
             sv.sessions[d].present = server.sessions[d].present
        /\ server.sessions[d].user # NoUser =>
             sv.sessions[d].present = server.sessions[d].present \cup {server.sessions[c].user}
  BY <1>11, <1>12 DEF Alike
<1>15. ChecksIn(sv, server, c)
  <2>1. /\ server.sessions[c].stato = "COMANDI" /\ server.sessions[c].user \in Users
        /\ sv.sessions[c].logged /\ sv.sessions[c].present = LoggedIn(server, c)
    BY <1>1, <1>6, <1>7, <1>8, <1>9
  <2>2. ToSet(sv.list) = ToSet(server.list)
    BY <1>5
  <2> QED
    BY <1>13, <1>14, <2>1, <2>2, Zenon DEF ChecksIn
<1>16. Social(sv, next, NoUser)
  BY <1>4, <1>15, SocialChecked
<1> QED
  BY <1>2, <1>3, <1>16, SocialServed

LEMMA SocialUsr1 ==
  ASSUME BaseInv, SocialInv, NEW c \in Connected, NEW u \in Users, Usr1(c, u)
  PROVE  SocialInv'
<1>1. PICK earlier : earlier = Newest(server, SessionsOf(server, u))
  OBVIOUS
<1>2. PICK sv : /\ Makes(c, sv)
                /\ sv.sessions[c] = Named(Session(c), u) /\ Session(c).stato = "LIC"
                /\ SessionsOf(server, u) = {} => earlier = NoConn
                /\ SessionsOf(server, u) # {} =>
                     /\ earlier \in SessionsOf(server, u) /\ earlier # c
                     /\ ~ Session(earlier).cancella
                     /\ sv.sessions[earlier] = TakenOver(Session(earlier))
                /\ \A d \in Conns \ {c, earlier} : sv.sessions[d] = Session(d)
  BY <1>1, Usr1Makes
<1>3. Turn(c) /\ Effect(c, sv) /\ Serve(c, sv)
  BY <1>2, Zenon DEF Makes
<1>4. PICK next : next = turn'
  OBVIOUS
<1>5. /\ ServerOK(server) /\ c \in ToSet(server.list) /\ Social(server, turn, NoUser)
      /\ c \notin ToSet(next) /\ ToSet(next) \subseteq ToSet(turn) /\ c \in Conns
      /\ ToSet(server.list) \subseteq Conns
  BY <1>3, <1>4, ServedInTurn
<1>6. sv.list = server.list
  BY <1>3, Zenon DEF Effect
<1>7. PICK s, t : s = server.sessions[c] /\ t = sv.sessions[c]
  OBVIOUS
<1>8. /\ t.user = u /\ t.stato = "COMANDI" /\ s.stato = "LIC"
      /\ ~ t.logged /\ ~ t.cancella /\ t.canale = 0 /\ t.present = s.present
  <2>1. s \in SessionSet /\ SessionOK(s) /\ s.stato = "LIC" /\ t = Named(s, u)
    BY <1>2, <1>5, <1>7, Parts DEF Session
  <2> QED
    BY <2>1, NamedIs
<1> DEFINE Kept(d) == /\ sv.sessions[d].user = server.sessions[d].user
                      /\ sv.sessions[d].stato = server.sessions[d].stato
                      /\ sv.sessions[d].logged = server.sessions[d].logged
                      /\ sv.sessions[d].canale = server.sessions[d].canale
                      /\ sv.sessions[d].present = server.sessions[d].present
                      /\ sv.sessions[d].inchat = server.sessions[d].inchat
                      /\ server.sessions[d].cancella => sv.sessions[d].cancella
                      /\ sv.sessions[d].cancella /\ ~ server.sessions[d].cancella =>
                           server.sessions[d].user = u
<1>9. \A d \in Conns \ {c, earlier} : sv.sessions[d] = server.sessions[d]
  BY <1>2, Zenon DEF Session
<1>10. ASSUME SessionsOf(server, u) # {}
       PROVE  /\ earlier \in ToSet(server.list) /\ server.sessions[earlier].user = u
              /\ ~ server.sessions[earlier].cancella /\ sv.sessions[earlier].cancella
              /\ Kept(earlier)
  <2>1. /\ earlier \in ToSet(server.list) /\ server.sessions[earlier].user = u
        /\ ~ server.sessions[earlier].cancella
        /\ sv.sessions[earlier] = TakenOver(server.sessions[earlier])
    BY <1>2, <1>10, Zenon DEF SessionsOf, Session
  <2>2. PICK x, y : x = server.sessions[earlier] /\ y = sv.sessions[earlier]
    OBVIOUS
  <2>3. x \in SessionSet /\ SessionOK(x) /\ x.user # NoUser /\ y = TakenOver(x)
    BY <1>5, <2>1, <2>2, Parts, UserIsNamed
  <2>4. /\ y.user = x.user /\ y.stato = x.stato
        /\ y.logged = x.logged /\ y.cancella /\ y.canale = x.canale
        /\ y.present = x.present /\ y.inchat = x.inchat
    BY <2>3, TakenOverIs
  <2> QED
    BY <2>1, <2>2, <2>4
<1>11. \A d \in Conns \ {c} : Kept(d)
  <2> SUFFICES ASSUME NEW d \in Conns, d # c PROVE Kept(d)
    OBVIOUS
  <2>1. CASE d # earlier
    BY <1>9, <2>1
  <2>2. CASE d = earlier /\ SessionsOf(server, u) # {}
    <3> HIDE DEF Kept
    <3> QED
      BY <1>10, <2>2
  <2>3. CASE d = earlier /\ SessionsOf(server, u) = {}
    BY <1>2, <2>3, NamesAssumption
  <2> QED
    BY <2>1, <2>2, <2>3
<1>12. \A d \in ToSet(server.list) \ {c} : server.sessions[d].user = u => sv.sessions[d].cancella
  <2> SUFFICES ASSUME NEW d \in ToSet(server.list), d # c, server.sessions[d].user = u
               PROVE  sv.sessions[d].cancella
    OBVIOUS
  <2>1. SessionsOf(server, u) # {}
    BY Zenon DEF SessionsOf
  <2>2. CASE d = earlier
    BY <1>10, <2>1, <2>2
  <2>3. CASE d # earlier
    <3>1. Same(server.sessions[d], server.sessions[earlier])
      BY <1>10, <2>1, UserIsNamed DEF Same
    <3>2. TwoInPass(server, turn)
      BY <1>5, Zenon DEF Social
    <3>3. server.sessions[d].cancella \/ server.sessions[earlier].cancella
      BY <1>10, <2>1, <2>3, <3>1, <3>2, Zenon DEF TwoInPass
    <3> QED
      BY <1>5, <1>9, <1>10, <2>1, <2>3, <3>3
  <2> QED
    BY <2>2, <2>3
<1>13. NamedAt(sv, server, c, u)
  <2>1. ToSet(sv.list) = ToSet(server.list)
    BY <1>6
  <2> QED
    BY <1>7, <1>8, <1>11, <1>12, <2>1, Zenon DEF NamedAt
<1>14. Social(sv, next, NoUser)
  <2> HIDE DEF Kept
  <2> QED
    BY <1>5, <1>13, SocialNamed
<1> QED
  BY <1>3, <1>4, <1>14, SocialServed

\* All sessions of a user are thrown out, one after the other.
LEMMA SocialExpelled ==
  ASSUME NEW v, ServerOK(v), NEW t, Social(v, t, NoUser), NEW u \in Users,
         NEW r, r = AllThrownOut(v, u)
  PROVE  Social(r, t, NoUser)
<1>1. PICK g : Steps(g, v.list, v, "CUSR", u) /\ r = g[Len(v.list)]
  <2>1. v.list \in Seq(Conns)
    BY Parts
  <2> QED
    BY <2>1, ThrownOutStepwise
<1> DEFINE Good == { w \in Servers : ServerOK(w) /\ w.list = v.list /\ Social(w, t, u) }
<1>2. v \in Good
  <2>1. Social(v, t, u) /\ v \in Servers
    BY SocialBut, Parts
  <2> QED
    BY <2>1
<1>3. \A w \in Good : \A c \in ToSet(v.list) : Step("CUSR", u, w, c) \in Good
  <2> SUFFICES ASSUME NEW w \in Good, NEW c \in ToSet(v.list)
               PROVE  Step("CUSR", u, w, c) \in Good
    OBVIOUS
  <2>1. ServerOK(w) /\ w.list = v.list /\ Social(w, t, u)
    OBVIOUS
  <2> HIDE DEF Good
  <2>2. CASE w.sessions[c].user = u
    <3>1. PICK q : q = ThrownOut(w, c)
      OBVIOUS
    <3>2. GoneBy(q, w, c) /\ ServerOK(q) /\ q.list = w.list
      BY <2>1, <3>1, ThrownOutGone, ThrownOutIs
    <3>3. NoRival(w, c, u)
      BY <2>2, Zenon DEF NoRival
    <3>4. Social(q, t, u)
      BY <2>1, <3>2, <3>3, SocialGone
    <3>5. q \in Good
      BY <2>1, <3>2, <3>4, Parts DEF Good
    <3> QED
      BY <2>2, <3>1, <3>5 DEF Step
  <2>3. CASE w.sessions[c].user # u
    BY <2>3 DEF Step
  <2> QED
    BY <2>2, <2>3
<1>4. r \in Good
  <2>1. v.list \in Seq(Conns)
    BY Parts
  <2> HIDE DEF Good
  <2> QED
    BY <1>1, <1>2, <1>3, <2>1, StepsKeep
<1>5. ServerOK(r) /\ r.list = v.list /\ Social(r, t, u)
  BY <1>4
<1>6. \A d \in ToSet(r.list) : r.sessions[d].user # u
  <2> SUFFICES ASSUME NEW d \in ToSet(r.list) PROVE r.sessions[d].user # u
    OBVIOUS
  <2>1. d \in ToSet(v.list) /\ v.sessions[d] \in SessionSet
    BY <1>5, Parts
  <2>2. Alike(r.sessions[d], Expelled(u)[v.sessions[d]])
    BY <2>1, AllThrownOutIs, Zenon DEF OnlyThese
  <2>3. Expelled(u)[v.sessions[d]].user # u
    <3>1. CASE v.sessions[d].user = u
      <4>1. Expelled(u)[v.sessions[d]] = Nobody(v.sessions[d])
        BY <2>1, <3>1 DEF Expelled
      <4> QED
        BY <2>1, <4>1, NobodyIs, UserIsNamed
    <3>2. CASE v.sessions[d].user # u
      BY <2>1, <3>2 DEF Expelled
    <3> QED
      BY <3>1, <3>2
  <2> QED
    BY <2>2, <2>3, Zenon DEF Alike
<1> HIDE DEF Good
<1> QED
  BY <1>5, <1>6, SocialBut

LEMMA SocialCusr ==
  ASSUME BaseInv, SocialInv, NEW c \in Connected, NEW u \in Users, Cusr(c, u)
  PROVE  SocialInv'
<1>1. PICK sv : sv = AllThrownOut(server, u)
  OBVIOUS
<1>2. Makes(c, sv)
  BY <1>1, CusrMakes
<1>3. Turn(c) /\ Effect(c, sv) /\ Serve(c, sv)
  BY <1>2, Zenon DEF Makes
<1>4. PICK next : next = turn'
  OBVIOUS
<1>5. /\ ServerOK(server) /\ Social(server, turn, NoUser) /\ ToSet(next) \subseteq ToSet(turn)
  BY <1>3, <1>4, ServedInTurn
<1>6. Social(server, next, NoUser)
  BY <1>5, SocialSmaller
<1>7. Social(sv, next, NoUser)
  BY <1>1, <1>5, <1>6, SocialExpelled
<1> QED
  BY <1>3, <1>4, <1>7, SocialServed

LEMMA OthersInChannel ==
  ASSUME NEW v, NEW w, NEW c, NEW canale, v.list = w.list, ToSet(w.list) \subseteq Conns,
         \A d \in Conns : d # c => v.sessions[d] = w.sessions[d]
  PROVE  /\ InChannel(v, canale, c) = InChannel(w, canale, c)
         /\ InTheChannel(v, canale, c) = InTheChannel(w, canale, c)
<1>1. \A d \in ToSet(w.list) \ {c} : v.sessions[d] = w.sessions[d]
  OBVIOUS
<1>2. InChannel(v, canale, c) = InChannel(w, canale, c)
  BY <1>1 DEF InChannel
<1>3. \A d \in InChannel(w, canale, c) : v.sessions[d] = w.sessions[d]
  BY <1>1 DEF InChannel
<1> QED
  BY <1>2, <1>3 DEF InTheChannel, UsersOf, Staying, Cwho

\* Who changes channels goes out of the one before, and then into the other.
LEMMA CascForms ==
  ASSUME NEW v, ServerOK(v), NEW c \in ToSet(v.list), NEW out,
         out = IF v.sessions[c].canale = 0 THEN v ELSE ToldOfExit(v, c)
  PROVE  \E w : /\ \/ v.sessions[c].canale = 0 /\ w = v
                   \/ w = OutOfChat(v, c)
                /\ ServerOK(w) /\ w.list = v.list /\ ServerOK(out) /\ out.list = v.list
                /\ \A d \in Conns : d # c => out.sessions[d] = w.sessions[d]
                /\ out.sessions[c] = v.sessions[c] /\ w.sessions[c].canale = 0
                /\ w.sessions[c].user = v.sessions[c].user
                /\ w.sessions[c].stato = v.sessions[c].stato
                /\ w.sessions[c].logged = v.sessions[c].logged
                /\ w.sessions[c].cancella = v.sessions[c].cancella
                /\ w.sessions[c].present = v.sessions[c].present
<1>1. CASE v.sessions[c].canale = 0
  BY <1>1
<1>2. CASE v.sessions[c].canale # 0
  <2>1. PICK w : w = OutOfChat(v, c)
    OBVIOUS
  <2>2. c \in Conns /\ v.sessions[c] \in SessionSet
    BY Parts
  <2>3. out = ToldOfExit(v, c)
    BY <1>2
  <2>4. ServerOK(out) /\ out.list = v.list /\ out.sessions[c] = v.sessions[c]
    BY <2>2, <2>3, ToldOfExitIs
  <2>5. /\ ServerOK(w) /\ w.list = v.list
        /\ w.sessions[c] = Outside(v.sessions[c])
        /\ \A d \in Conns : d # c => w.sessions[d] = out.sessions[d]
    BY <2>1, <2>3, OutOfChatIs
  <2>6. PICK s, t : s = v.sessions[c] /\ t = w.sessions[c]
    OBVIOUS
  <2>7. /\ t.user = s.user /\ t.stato = s.stato /\ t.cancella = s.cancella
        /\ t.logged = s.logged /\ t.canale = 0 /\ t.present = s.present
    BY <2>2, <2>5, <2>6, OutsideIs
  <2> QED
    BY <2>1, <2>4, <2>5, <2>6, <2>7, Zenon
<1> QED
  BY <1>1, <1>2

LEMMA EntersChannel ==
  ASSUME NEW w, ServerOK(w), NEW out, ServerOK(out), out.list = w.list,
         NEW c \in ToSet(w.list), \A d \in Conns : d # c => out.sessions[d] = w.sessions[d],
         w.sessions[c].user = out.sessions[c].user,
         w.sessions[c].stato = out.sessions[c].stato,
         w.sessions[c].logged = out.sessions[c].logged,
         w.sessions[c].cancella = out.sessions[c].cancella,
         w.sessions[c].present = out.sessions[c].present,
         out.sessions[c].user \in Users, out.sessions[c].logged,
         NEW canale \in Channels, NEW sv, sv = In(out, c, canale)
  PROVE  Enters(sv, w, c, canale)
<1>1. c \in Conns /\ ToSet(w.list) \subseteq Conns /\ out.sessions[c] \in SessionSet
  BY Parts
<1>2. /\ ServerOK(sv) /\ sv.list = out.list
      /\ sv.sessions[c] = Entered(out.sessions[c], canale, InTheChannel(out, canale, c),
                                 LateInTheChannel(out, canale, c))
      /\ \A d \in Conns : d # c => sv.sessions[d] = ToldOfEntry(out, c, canale).sessions[d]
  BY InIs
<1>3. /\ InChannel(out, canale, c) = InChannel(w, canale, c)
      /\ InTheChannel(out, canale, c) = InTheChannel(w, canale, c)
  BY <1>1, OthersInChannel
<1>4. PICK q : q = ToldOfEntry(out, c, canale)
  OBVIOUS
<1>5. /\ \A d \in Conns : Alike(q.sessions[d], out.sessions[d])
      /\ \A d \in Conns : q.sessions[d].present = out.sessions[d].present
      /\ \A d \in Conns \ InChannel(out, canale, c) : q.sessions[d] = out.sessions[d]
      /\ \A d \in InChannel(out, canale, c) :
           q.sessions[d].inchat = out.sessions[d].inchat \cup {out.sessions[c].user}
  BY <1>1, <1>4, ToldOfEntryIs
<1>6. PICK s, t : s = out.sessions[c] /\ t = sv.sessions[c]
  OBVIOUS
<1>7. /\ t.user = s.user /\ t.stato = s.stato /\ t.cancella = s.cancella
      /\ t.logged = s.logged /\ t.canale = canale /\ t.present = s.present
      /\ t.inchat = InTheChannel(out, canale, c)
  BY <1>1, <1>2, <1>6, EnteredIs
<1>8. \A d \in Conns : d # c => /\ sv.sessions[d] = q.sessions[d]
                                /\ out.sessions[d] = w.sessions[d]
  BY <1>2, <1>4
<1>9. SameButChat(sv, w)
  <2>1. ASSUME NEW d \in Conns
        PROVE  /\ sv.sessions[d].user = w.sessions[d].user
               /\ sv.sessions[d].stato = w.sessions[d].stato
               /\ sv.sessions[d].logged = w.sessions[d].logged
               /\ sv.sessions[d].cancella = w.sessions[d].cancella
               /\ sv.sessions[d].present = w.sessions[d].present
    <3>1. CASE d = c
      BY <3>1, <1>6, <1>7
    <3>2. CASE d # c
      BY <3>2, <1>5, <1>8 DEF Alike
    <3> QED
      BY <3>1, <3>2
  <2>2. ToSet(sv.list) = ToSet(w.list)
    BY <1>2
  <2> QED
    BY <2>1, <2>2, Zenon DEF SameButChat
<1>10. sv.sessions[c].canale = canale /\ sv.sessions[c].inchat = InTheChannel(w, canale, c)
  BY <1>3, <1>6, <1>7
<1>11. ASSUME NEW d \in Conns \ {c}
       PROVE  /\ sv.sessions[d].canale = w.sessions[d].canale
              /\ d \in InChannel(w, canale, c) =>
                   sv.sessions[d].inchat = w.sessions[d].inchat \cup {w.sessions[c].user}
              /\ d \notin InChannel(w, canale, c) =>
                   sv.sessions[d].inchat = w.sessions[d].inchat
  BY <1>3, <1>5, <1>8, <1>11 DEF Alike
<1> QED
  BY <1>2, <1>9, <1>10, <1>11, Zenon DEF Enters

LEMMA SocialCasc ==
  ASSUME BaseInv, SocialInv, NEW c \in Connected, NEW canale \in Channels, Casc(c, canale)
  PROVE  SocialInv'
<1>1. Session(c).logged /\ Session(c).user \in Users /\ Session(c).stato = "COMANDI"
  BY CascMakes
<1>2. CASE Quietly(c)
  <2>1. Writes(c, Session(c).text, Session(c).rcpt)
    BY <1>2, Zenon DEF Quietly
  <2> QED
    BY <2>1, SocialWritten
<1>3. ASSUME NEW out, NEW sv,
             out = IF Session(c).canale = 0 THEN server ELSE ToldOfExit(server, c),
             sv = In(out, c, canale), Makes(c, sv)
      PROVE  SocialInv'
  <2>1. Turn(c) /\ Effect(c, sv) /\ Serve(c, sv)
    BY <1>3, Zenon DEF Makes
  <2>2. PICK next : next = turn'
    OBVIOUS
  <2>3. /\ ServerOK(server) /\ c \in ToSet(server.list) /\ Social(server, turn, NoUser)
        /\ Alone(server, c) /\ ToSet(next) \subseteq ToSet(turn)
    BY <2>1, <2>2, ServedInTurn
  <2>4. out = IF server.sessions[c].canale = 0 THEN server ELSE ToldOfExit(server, c)
    BY <1>3 DEF Session
  <2>5. PICK w : /\ \/ server.sessions[c].canale = 0 /\ w = server
                    \/ w = OutOfChat(server, c)
                 /\ ServerOK(w) /\ w.list = server.list
                 /\ ServerOK(out) /\ out.list = server.list
                 /\ \A d \in Conns : d # c => out.sessions[d] = w.sessions[d]
                 /\ out.sessions[c] = server.sessions[c] /\ w.sessions[c].canale = 0
                 /\ w.sessions[c].user = server.sessions[c].user
                 /\ w.sessions[c].stato = server.sessions[c].stato
                 /\ w.sessions[c].logged = server.sessions[c].logged
                 /\ w.sessions[c].cancella = server.sessions[c].cancella
                 /\ w.sessions[c].present = server.sessions[c].present
    BY <2>3, <2>4, CascForms
  <2>6. Social(w, next, NoUser)
    BY <2>3, <2>5, SocialExit, SocialSmaller
  <2>7. /\ server.sessions[c].user \in Users /\ server.sessions[c].logged
        /\ server.sessions[c].stato = "COMANDI"
    BY <1>1 DEF Session
  <2>8. Enters(sv, w, c, canale)
    BY <1>3, <2>3, <2>5, <2>7, EntersChannel
  <2>9. Social(sv, next, NoUser)
    BY <2>3, <2>5, <2>6, <2>7, <2>8, SocialEnter
  <2> QED
    BY <2>1, <2>2, <2>9, SocialServed
<1> QED
  BY <1>2, <1>3, CascMakes

\* A command keeps what users know of each other.
LEMMA SocialCommand ==
  ASSUME BaseInv, TextInv, SocialInv, NEW c \in Connected,
         Makings(c) \/ Textings(c) \/ Quiets(c)
  PROVE  SocialInv'
<1>1. CASE Makings(c)
  BY <1>1, SocialChek, SocialQuit, SocialClas, SocialUsr1, SocialCusr, SocialCasc, Zenon
     DEF Makings
<1>2. CASE Textings(c)
  <2>1. PICK text, rcpt : Writes(c, text, rcpt)
    BY <1>2, TextingsText
  <2> QED
    BY <2>1, SocialWritten
<1>3. CASE Quiets(c)
  <2>1. Quietly(c)
    BY <1>3, QuietCommands, Zenon DEF Quiets
  <2>2. Writes(c, Session(c).text, Session(c).rcpt)
    BY <2>1, Zenon DEF Quietly
  <2> QED
    BY <2>2, SocialWritten
<1> QED
  BY <1>1, <1>2, <1>3

\* No session has been taken over, and then nobody has two.
OneEach(v) ==
  /\ \A c \in Conns : ~ v.sessions[c].cancella
  /\ \A c, d \in ToSet(v.list) : c # d => ~ Same(v.sessions[c], v.sessions[d])

LEMMA OneEachIs ==
  ASSUME NEW v, NEW t, TwoInPass(v, t), \A c \in Conns : ~ v.sessions[c].cancella,
         ToSet(v.list) \subseteq Conns
  PROVE  OneEach(v)
BY Zenon DEF OneEach, TwoInPass

\* Connections are accepted.
LEMMA SocialOpened ==
  ASSUME NEW v, ServerOK(v), NEW t, Social(v, t, NoUser), \A c \in Conns : ~ v.sessions[c].cancella,
         NEW r, ToSet(v.list) \subseteq ToSet(r.list), ToSet(r.list) \subseteq Conns,
         \A d \in Conns : SameSeen(r.sessions[d], v.sessions[d]), NEW next
  PROVE  Social(r, next, NoUser) /\ OneEach(r)
<1>1. /\ ToSet(v.list) \subseteq Conns
      /\ \A d \in Conns \ ToSet(v.list) : v.sessions[d] = Fresh
  BY Parts
<1>2. OneEach(v)
  BY <1>1, OneEachIs, Zenon DEF Social
<1>3. \A d \in Conns : LET s == r.sessions[d]
                          z == v.sessions[d]
                      IN /\ s.user = z.user /\ s.logged = z.logged /\ s.cancella = z.cancella
                         /\ s.canale = z.canale /\ s.present = z.present
                         /\ s.inchat = z.inchat
                         /\ s.stato = "LIC" <=> z.stato = "LIC"
                         /\ s.stato = "CHIUSA" <=> z.stato = "CHIUSA"
  BY DEF SameSeen
<1>4. \A d \in Conns \ ToSet(v.list) :
        /\ v.sessions[d].user = NoUser /\ ~ v.sessions[d].logged /\ v.sessions[d].canale = 0
        /\ v.sessions[d].present = {}
  BY <1>1 DEF Fresh
<1>5. \A d \in ToSet(r.list) :
        /\ d \in Conns /\ (r.sessions[d].user # NoUser => d \in ToSet(v.list))
        /\ r.sessions[d].logged => d \in ToSet(v.list)
        /\ r.sessions[d].canale # 0 => d \in ToSet(v.list)
  BY <1>3, <1>4
<1>6. OneEach(r)
  <2>1. \A c, d \in ToSet(r.list) : c # d => ~ Same(r.sessions[c], r.sessions[d])
    BY <1>2, <1>3, <1>5 DEF OneEach, Same
  <2>2. \A c \in Conns : ~ r.sessions[c].cancella
    BY <1>3
  <2> QED
    BY <2>1, <2>2, Zenon DEF OneEach
<1>7. TwoInPass(r, next)
  BY <1>6, Zenon DEF OneEach, TwoInPass
<1>8. TakenOverBy(r, NoUser)
  BY <1>5, <1>6, Zenon DEF OneEach, TakenOverBy
<1>9. NothingTold(r)
  <2>1. NothingTold(v)
    BY Zenon DEF Social
  <2> QED
    BY <1>3, <1>4, <1>5, <2>1 DEF NothingTold
<1>10. KnowsWhoIsIn(r, NoUser)
  <2>1. KnowsWhoIsIn(v, NoUser)
    BY Zenon DEF Social
  <2> QED
    BY <1>3, <1>5, <2>1 DEF KnowsWhoIsIn
<1>11. \A u, d : Stays(v, u, d) => Stays(r, u, d)
  BY <1>1, <1>3 DEF Stays
<1>12. KnowsNobodyElse(v) => KnowsNobodyElse(r)
  <2> SUFFICES ASSUME KnowsNobodyElse(v), NEW c \in ToSet(r.list), r.sessions[c].user # NoUser,
                      NEW u \in r.sessions[c].present \ Unregistered, u # r.sessions[c].user
               PROVE  \E d \in Conns : Stays(r, u, d)
    BY Zenon DEF KnowsNobodyElse
  <2>1. /\ c \in ToSet(v.list) /\ v.sessions[c].user # NoUser
        /\ u \in v.sessions[c].present /\ u # v.sessions[c].user
    BY <1>3, <1>5
  <2> QED
    BY <1>11, <2>1, Zenon DEF KnowsNobodyElse
<1>13. \A c, d \in Conns : InSame(r, c, d) <=> InSame(v, c, d)
  BY <1>3 DEF InSame
<1>14. KnowsChannel(r, NoUser)
  <2>1. KnowsChannel(v, NoUser)
    BY Zenon DEF Social
  <2> SUFFICES ASSUME NEW c \in ToSet(r.list), NEW d \in ToSet(r.list), InSame(r, c, d)
               PROVE  r.sessions[d].user \in r.sessions[c].inchat
    BY Zenon DEF KnowsChannel
  <2>2. /\ c \in ToSet(v.list) /\ d \in ToSet(v.list) /\ InSame(v, c, d)
        /\ v.sessions[d].user # NoUser
    BY <1>3, <1>5, <1>13 DEF InSame
  <2>3. v.sessions[d].user \in v.sessions[c].inchat
    BY <2>1, <2>2, Zenon DEF KnowsChannel
  <2> QED
    BY <1>1, <1>3, <2>2, <2>3
<1>15. KnowsOnlyChannel(v) => KnowsOnlyChannel(r)
  <2> SUFFICES ASSUME KnowsOnlyChannel(v), NEW c \in ToSet(r.list),
                      r.sessions[c].user # NoUser, r.sessions[c].canale # 0,
                      NEW u \in r.sessions[c].inchat \ Unregistered
               PROVE  \E d \in ToSet(r.list) : InSame(r, c, d) /\ r.sessions[d].user = u
    BY Zenon DEF KnowsOnlyChannel
  <2>1. /\ c \in ToSet(v.list) /\ v.sessions[c].user # NoUser /\ v.sessions[c].canale # 0
        /\ u \in v.sessions[c].inchat
    BY <1>3, <1>5
  <2>2. PICK d \in ToSet(v.list) : InSame(v, c, d) /\ v.sessions[d].user = u
    BY <2>1, Zenon DEF KnowsOnlyChannel
  <2>3. d \in ToSet(r.list) /\ InSame(r, c, d) /\ r.sessions[d].user = u
    BY <1>1, <1>3, <1>13, <2>1, <2>2
  <2> QED
    BY <2>3
<1> QED
  BY <1>6, <1>7, <1>8, <1>9, <1>10, <1>12, <1>14, <1>15, Zenon DEF Social

\* A connection is lost, or was already.
LEMMA SocialDropped ==
  ASSUME NEW v, ServerOK(v), NEW t, Social(v, t, NoUser), OneEach(v),
         NEW c \in Conns, NEW r, r = Dropped(v, c)
  PROVE  ServerOK(r) /\ Social(r, t, NoUser) /\ OneEach(r)
<1>1. /\ ServerOK(r) /\ ToSet(r.list) = ToSet(v.list) \ {c}
      /\ r.sessions[c] = Fresh
      /\ \A d \in Conns : d # c => r.sessions[d] = ToldOfLogout(v, c).sessions[d]
  BY DroppedIs
<1>2. PICK q : q = ToldOfLogout(v, c)
  OBVIOUS
<1>3. /\ \A d \in Conns : Alike(q.sessions[d], v.sessions[d])
      /\ \A d \in Conns : v.sessions[d].user = NoUser => q.sessions[d] = v.sessions[d]
      /\ \A d \in Conns : d # c /\ v.sessions[d].user # NoUser =>
           /\ q.sessions[d].present = v.sessions[d].present \ Announced(v.sessions[c].user)
           /\ q.sessions[d].inchat = v.sessions[d].inchat \ Announced(v.sessions[c].user)
  BY <1>2, ToldOfLogoutIs
<1>4. \A d \in Conns : d # c => r.sessions[d] = q.sessions[d]
  BY <1>1, <1>2
<1>5. /\ ToSet(v.list) \subseteq Conns
      /\ \A d \in Conns : v.sessions[d] \in SessionSet
      /\ \A d \in Conns \ ToSet(v.list) : v.sessions[d] = Fresh
  BY Parts
<1>6. OneEach(r)
  <2>1. \A d \in Conns : ~ r.sessions[d].cancella
    BY <1>1, <1>3, <1>4 DEF OneEach, Alike, Fresh
  <2>2. \A d \in ToSet(r.list) : d \in ToSet(v.list) /\ r.sessions[d].user = v.sessions[d].user
    BY <1>1, <1>3, <1>4, <1>5 DEF Alike
  <2>3. \A d, e \in ToSet(r.list) : d # e => ~ Same(r.sessions[d], r.sessions[e])
    BY <2>2 DEF OneEach, Same
  <2> QED
    BY <2>1, <2>3, Zenon DEF OneEach
<1>7. CASE c \in ToSet(v.list)
  <2>1. NoRival(v, c, NoUser)
    <3>1. \A b \in ToSet(v.list) \ {c} : ~ Same(v.sessions[b], v.sessions[c])
      BY <1>7, Zenon DEF OneEach
    <3> QED
      BY <3>1, Zenon DEF NoRival
  <2> QED
    BY <1>1, <1>6, <1>7, <2>1, DroppedGone, SocialGone
<1>8. CASE c \notin ToSet(v.list)
  <2>1. v.sessions[c] = Fresh
    BY <1>5, <1>8
  <2>2. \A d \in Conns : SameSeen(r.sessions[d], v.sessions[d])
    <3> SUFFICES ASSUME NEW d \in Conns PROVE SameSeen(r.sessions[d], v.sessions[d])
      OBVIOUS
    <3>1. CASE d = c
      BY <1>1, <2>1, <3>1 DEF SameSeen
    <3>2. CASE d # c /\ v.sessions[d].user = NoUser
      BY <1>3, <1>4, <3>2 DEF SameSeen
    <3>3. CASE d # c /\ v.sessions[d].user # NoUser
      <4>1. NoUser \notin v.sessions[d].present /\ NoUser \notin v.sessions[d].inchat
        BY <1>5, NamesAssumption DEF SessionSet
      <4>2. /\ r.sessions[d].present = v.sessions[d].present \ Announced(NoUser)
            /\ r.sessions[d].inchat = v.sessions[d].inchat \ Announced(NoUser)
        BY <1>3, <1>4, <2>1, <3>3 DEF Fresh
      <4>3. Alike(r.sessions[d], v.sessions[d])
        BY <1>3, <1>4, <3>3
      <4> QED
        BY <4>1, <4>2, <4>3, AnnouncedIs DEF SameSeen, Alike
    <3> QED
      BY <3>1, <3>2, <3>3
  <2>3. ToSet(r.list) = ToSet(v.list)
    BY <1>1, <1>8
  <2>4. Social(r, t, NoUser)
    BY <1>5, <2>2, <2>3, SocialSeen
  <2> QED
    BY <1>1, <1>6, <2>4
<1> QED
  BY <1>7, <1>8

LEMMA SocialAllDropped ==
  ASSUME NEW v, ServerOK(v), NEW t, Social(v, t, NoUser), OneEach(v),
         NEW lost, NEW r, r = AllDropped(v, lost)
  PROVE  Social(r, t, NoUser)
<1>1. v.list \in Seq(Conns) /\ ToSet(v.list) \subseteq Conns /\ v \in Servers
  BY Parts
<1>2. PICK g : Steps(g, v.list, v, "DROP", lost) /\ r = g[Len(v.list)]
  BY <1>1, DroppedStepwise
<1> DEFINE Good == { w \in Servers : ServerOK(w) /\ OneEach(w) /\ Social(w, t, NoUser) }
<1>3. v \in Good
  BY <1>1
<1>4. \A w \in Good : \A c \in ToSet(v.list) : Step("DROP", lost, w, c) \in Good
  <2> SUFFICES ASSUME NEW w \in Good, NEW c \in ToSet(v.list)
               PROVE  Step("DROP", lost, w, c) \in Good
    OBVIOUS
  <2>1. ServerOK(w) /\ OneEach(w) /\ Social(w, t, NoUser) /\ c \in Conns
    BY <1>1
  <2> HIDE DEF Good
  <2>2. CASE c \in lost
    <3>1. PICK q : q = Dropped(w, c)
      OBVIOUS
    <3>2. ServerOK(q) /\ Social(q, t, NoUser) /\ OneEach(q)
      BY <2>1, <3>1, SocialDropped
    <3>3. q \in Good
      BY <3>2, Parts DEF Good
    <3> QED
      BY <2>2, <3>1, <3>3 DEF Step, Dropped
  <2>3. CASE c \notin lost
    BY <2>3 DEF Step
  <2> QED
    BY <2>2, <2>3
<1>5. r \in Good
  <2> HIDE DEF Good
  <2> QED
    BY <1>1, <1>2, <1>3, <1>4, StepsKeep
<1> QED
  BY <1>5

LEMMA SocialPoll ==
  ASSUME BaseInv, SocialInv, NEW new \in (Conns \ Connected) \cup {NoConn}, NEW lost,
         Poll(new, lost)
  PROVE  SocialInv'
<1>1. /\ phase = "POLL" /\ turn' = server'.list /\ commands' = commands
      /\ \E ticked : OpenedAt(ticked, new) /\ server' = AllDropped(ticked, lost)
  BY PollIs
<1>2. PICK ticked : OpenedAt(ticked, new) /\ server' = AllDropped(ticked, lost)
  BY <1>1
<1>3. PICK r, next : r = server' /\ next = turn'
  OBVIOUS
<1>4. /\ ServerOK(ticked) /\ Connected \subseteq ToSet(ticked.list)
      /\ \A d \in ToSet(ticked.list) : ticked.sessions[d] = Ticked(Session(d))
      /\ \A d \in Conns \ ToSet(ticked.list) : ticked.sessions[d] = Session(d)
  BY <1>2 DEF OpenedAt
<1>5. ServerOK(server) /\ Social(server, turn, NoUser) /\ AllStay(server)
  BY <1>1, Zenon DEF BaseInv, SocialInv
<1>6. \A d \in Conns : SameSeen(ticked.sessions[d], server.sessions[d])
  <2> SUFFICES ASSUME NEW d \in Conns PROVE SameSeen(ticked.sessions[d], server.sessions[d])
    OBVIOUS
  <2>1. PICK s, z : s = server.sessions[d] /\ z = ticked.sessions[d]
    OBVIOUS
  <2>2. s \in SessionSet
    BY <1>5, <2>1, Parts
  <2>3. z = s \/ z = Ticked(s)
    BY <1>4, <2>1 DEF Session
  <2>4. CASE z = Ticked(s)
    <3>1. /\ z.user = s.user /\ z.stato = s.stato /\ z.logged = s.logged
          /\ z.cancella = s.cancella /\ z.canale = s.canale /\ z.present = s.present
          /\ z.inchat = s.inchat
      BY <2>2, <2>4, TickedIs
    <3> QED
      BY <2>1, <3>1 DEF SameSeen
  <2>5. CASE z = s
    BY <2>1, <2>5 DEF SameSeen
  <2> QED
    BY <2>3, <2>4, <2>5
<1>7. Social(ticked, next, NoUser) /\ OneEach(ticked)
  <2>1. /\ ToSet(server.list) \subseteq ToSet(ticked.list)
        /\ ToSet(ticked.list) \subseteq Conns
        /\ \A c \in Conns : ~ server.sessions[c].cancella
    BY <1>4, <1>5, Parts DEF Connected, AllStay
  <2> QED
    BY <1>5, <1>6, <2>1, SocialOpened
<1>8. Social(r, next, NoUser)
  BY <1>2, <1>3, <1>4, <1>7, SocialAllDropped
<1> QED
  BY <1>1, <1>3, <1>8, CommandsSame

LEMMA OneEachStill ==
  ASSUME NEW v, OneEach(v), ToSet(v.list) \subseteq Conns, NEW r, r.list = v.list,
         \A d \in Conns : /\ r.sessions[d].user = v.sessions[d].user
                          /\ r.sessions[d].cancella = v.sessions[d].cancella
  PROVE  OneEach(r)
<1>1. \A d \in ToSet(r.list) : d \in ToSet(v.list) /\ d \in Conns
  OBVIOUS
<1>2. \A c, d \in ToSet(r.list) : c # d => ~ Same(r.sessions[c], r.sessions[d])
  BY <1>1 DEF OneEach, Same
<1>3. \A c \in Conns : ~ r.sessions[c].cancella
  BY DEF OneEach
<1> QED
  BY <1>2, <1>3, Zenon DEF OneEach

\* The session of c meets the timeouts, in one loop and in the other.
LEMMA SocialIdled ==
  ASSUME NEW v, ServerOK(v), NEW t, Social(v, t, NoUser), OneEach(v),
         NEW c \in ToSet(v.list), NEW r, r = Step("IDLE", {}, v, c)
  PROVE  ServerOK(r) /\ r.list = v.list /\ Social(r, t, NoUser) /\ OneEach(r)
<1>1. PICK s : s = v.sessions[c]
  OBVIOUS
<1>2. c \in Conns /\ s \in SessionSet /\ SessionOK(s) /\ ToSet(v.list) \subseteq Conns
  BY <1>1, Parts
<1>3. (IdleOut(s) => r = Left(v, c)) /\ (~ IdleOut(s) => r = With(v, c, Warned[s]))
  BY <1>1, IdledStep
<1>4. CASE IdleOut(s)
  <2>1. r = Left(v, c)
    BY <1>3, <1>4
  <2>2. /\ ServerOK(r) /\ r.list = v.list
        /\ r.sessions[c] = [v.sessions[c] EXCEPT !.stato = "CHIUSA"]
        /\ \A d \in Conns : d # c => r.sessions[d] = ToldOfLogout(v, c).sessions[d]
    BY <2>1, LeftIs
  <2>3. PICK told : told = ToldOfLogout(v, c)
    OBVIOUS
  <2>4. \A d \in Conns : Alike(told.sessions[d], v.sessions[d])
    BY <1>2, <2>3, ToldOfLogoutIs
  <2>5. \A d \in Conns : /\ r.sessions[d].user = v.sessions[d].user
                         /\ r.sessions[d].cancella = v.sessions[d].cancella
    <3> TAKE d \in Conns
    <3>1. CASE d = c
      BY <1>1, <1>2, <2>2, <3>1 DEF SessionSet
    <3>2. CASE d # c
      BY <2>2, <2>3, <2>4, <3>2 DEF Alike
    <3> QED
      BY <3>1, <3>2
  <2>6. OneEach(r)
    BY <1>2, <2>2, <2>5, OneEachStill
  <2>7. NoRival(v, c, NoUser)
    <3>1. \A b \in ToSet(v.list) \ {c} : ~ Same(v.sessions[b], v.sessions[c])
      BY Zenon DEF OneEach
    <3> QED
      BY <3>1, Zenon DEF NoRival
  <2>8. Social(r, t, NoUser)
    BY <2>1, <2>7, LeftGone, SocialGone
  <2> QED
    BY <2>2, <2>6, <2>8
<1>5. CASE ~ IdleOut(s)
  <2>1. PICK z : z = Warned[s]
    OBVIOUS
  <2>2. z \in SessionSet /\ SessionOK(z) /\ r = With(v, c, z)
    BY <1>2, <1>3, <1>5, <2>1, WarnedIs
  <2>3. /\ ServerOK(r) /\ r.list = v.list /\ r.sessions[c] = z
        /\ \A d \in Conns : d # c => r.sessions[d] = v.sessions[d]
    BY <2>2, WithIs
  <2>4. SameSeen(z, s)
    <3>1. z \in {WarnedAgain(s, 2), WarnedAgain(s, 1), s}
      BY <1>2, <1>5, <2>1 DEF Warned
    <3>2. CASE z = WarnedAgain(s, 2)
      BY <1>2, <3>2, WarnedAgainIs DEF SameSeen
    <3>3. CASE z = WarnedAgain(s, 1)
      BY <1>2, <3>3, WarnedAgainIs DEF SameSeen
    <3>4. CASE z = s
      BY <3>4 DEF SameSeen
    <3> QED
      BY <3>1, <3>2, <3>3, <3>4
  <2>5. \A d \in Conns : SameSeen(r.sessions[d], v.sessions[d])
    <3>1. \A d \in Conns : SameSeen(v.sessions[d], v.sessions[d])
      BY Zenon DEF SameSeen
    <3> QED
      BY <1>1, <2>3, <2>4, <3>1
  <2>6. Social(r, t, NoUser)
    BY <1>2, <2>3, <2>5, SocialSeen
  <2>7. OneEach(r)
    BY <1>2, <2>3, <2>5, OneEachStill DEF SameSeen
  <2> QED
    BY <2>3, <2>6, <2>7
<1> QED
  BY <1>4, <1>5

LEMMA SocialChatIdled ==
  ASSUME NEW v, ServerOK(v), NEW t, Social(v, t, NoUser), OneEach(v),
         NEW c \in ToSet(v.list), NEW r, r = Step("CHAT", {}, v, c)
  PROVE  ServerOK(r) /\ r.list = v.list /\ Social(r, t, NoUser) /\ OneEach(r)
<1>1. r = OutOfChat(v, c) \/ r = v
  BY DEF Step, ChatIdled
<1>2. CASE r = OutOfChat(v, c)
  <2>1. ServerOK(r) /\ r.list = v.list /\ ToSet(v.list) \subseteq Conns
    BY <1>2, OutOfChatIs, Parts
  <2>2. Alone(v, c)
    <3>1. \A b \in ToSet(v.list) \ {c} : ~ Same(v.sessions[b], v.sessions[c])
      BY Zenon DEF OneEach
    <3> QED
      BY <3>1, Zenon DEF Alone
  <2>3. Social(r, t, NoUser) /\ SameButChat(r, v)
    BY <1>2, <2>2, SocialExit
  <2>4. OneEach(r)
    BY <2>1, <2>3, OneEachStill DEF SameButChat
  <2> QED
    BY <2>1, <2>3, <2>4
<1>3. CASE r = v
  BY <1>3
<1> QED
  BY <1>1, <1>2, <1>3

LEMMA SocialTimed ==
  ASSUME NEW v, ServerOK(v), NEW t, Social(v, t, NoUser), OneEach(v),
         NEW kind \in {"IDLE", "CHAT"}, NEW g, Steps(g, v.list, v, kind, {}),
         NEW r, r = g[Len(v.list)]
  PROVE  ServerOK(r) /\ r.list = v.list /\ Social(r, t, NoUser) /\ OneEach(r)
<1>1. v.list \in Seq(Conns) /\ v \in Servers
  BY Parts
<1> DEFINE Good == { w \in Servers : /\ ServerOK(w) /\ w.list = v.list
                                     /\ OneEach(w) /\ Social(w, t, NoUser) }
<1>2. v \in Good
  BY <1>1
<1>3. \A w \in Good : \A c \in ToSet(v.list) : Step(kind, {}, w, c) \in Good
  <2> SUFFICES ASSUME NEW w \in Good, NEW c \in ToSet(v.list)
               PROVE  Step(kind, {}, w, c) \in Good
    OBVIOUS
  <2>1. ServerOK(w) /\ w.list = v.list /\ OneEach(w) /\ Social(w, t, NoUser)
    OBVIOUS
  <2> HIDE DEF Good
  <2>2. PICK q : q = Step(kind, {}, w, c)
    OBVIOUS
  <2>3. ServerOK(q) /\ q.list = w.list /\ Social(q, t, NoUser) /\ OneEach(q)
    <3>1. CASE kind = "IDLE"
      BY <2>1, <2>2, <3>1, SocialIdled
    <3>2. CASE kind = "CHAT"
      BY <2>1, <2>2, <3>2, SocialChatIdled
    <3> QED
      BY <3>1, <3>2
  <2> QED
    BY <2>1, <2>2, <2>3, Parts DEF Good
<1>4. r \in Good
  <2> HIDE DEF Good
  <2> QED
    BY <1>1, <1>2, <1>3, StepsKeep
<1> QED
  BY <1>4

LEMMA SocialEndPass ==
  ASSUME BaseInv, SocialInv, NEW broken \in Subsets(Connected, "WRITE_ERROR"), EndPass(broken)
  PROVE  SocialInv'
<1>1. commands' = commands /\ turn' = turn
  BY EndPassIs
<1>2. PICK taken, written, idled, chatted : Stages(taken, written, idled, chatted, broken)
  BY EndPassIs
<1>3. PICK r, next : r = server' /\ next = turn
  OBVIOUS
<1>4. /\ Without(taken, server, { c \in Conns : Session(c).cancella })
      /\ Without(written, taken, broken)
      /\ idled = FoldLeft(Idled, written, written.list)
      /\ chatted = FoldLeft(ChatIdled, idled, idled.list)
      /\ Without(r, chatted, { c \in Conns : Over(chatted.sessions[c]) })
  BY <1>2, <1>3, Zenon DEF Stages
<1>5. ServerOK(server) /\ Social(server, next, NoUser)
  BY <1>3, Zenon DEF BaseInv, SocialInv
<1>6. ToSet(server.list) \subseteq Conns
  BY <1>5, Parts
<1>7. /\ ServerOK(taken) /\ Social(taken, next, NoUser)
      /\ \A d \in ToSet(taken.list) : ~ taken.sessions[d].cancella
  <2>1. PICK C : C = { c \in Conns : Session(c).cancella }
    OBVIOUS
  <2>2. Without(taken, server, C)
    BY <1>4, <2>1
  <2>3. ServerOK(taken) /\ ToSet(taken.list) = ToSet(server.list) \ C
    BY <2>2, Zenon DEF Without
  <2>4. \A d \in ToSet(taken.list) : ~ server.sessions[d].cancella
    BY <1>6, <2>1, <2>3 DEF Session
  <2>5. \A d \in C : server.sessions[d].cancella
    BY <2>1 DEF Session
  <2>6. {"WRITE_ERROR", "TAKEOVER"} \cap commands = {} => C = {}
    <3>1. "TAKEOVER" \notin commands => \A c \in Conns : ~ Session(c).cancella
      BY Zenon DEF BaseInv
    <3> QED
      BY <2>1, <3>1
  <2>7. Social(taken, next, NoUser) /\ \A d \in ToSet(taken.list) : ~ taken.sessions[d].cancella
    BY <1>5, <2>2, <2>4, <2>5, <2>6, SocialClosed
  <2> QED
    BY <2>3, <2>7
<1>8. /\ ServerOK(written) /\ Social(written, next, NoUser)
      /\ \A d \in ToSet(written.list) : ~ written.sessions[d].cancella
  <2>1. ServerOK(written) /\ ToSet(written.list) = ToSet(taken.list) \ broken
    BY <1>4, Zenon DEF Without
  <2>2. ~ may("WRITE_ERROR") => broken = {}
    BY DEF Subsets
  <2>3. {"WRITE_ERROR", "TAKEOVER"} \cap commands = {} => broken = {}
    BY <2>2 DEF may
  <2>4. \A d \in ToSet(written.list) : ~ taken.sessions[d].cancella
    BY <1>7, <2>1
  <2>5. /\ Social(written, next, NoUser)
        /\ \A d \in ToSet(written.list) : ~ written.sessions[d].cancella
    BY <1>4, <1>7, <2>2, <2>3, <2>4, SocialClosed
  <2> QED
    BY <2>1, <2>5
<1>9. OneEach(written)
  <2>1. /\ ToSet(written.list) \subseteq Conns
        /\ \A d \in Conns \ ToSet(written.list) : written.sessions[d] = Fresh
    BY <1>8, Parts
  <2>2. \A d \in Conns : ~ written.sessions[d].cancella
    BY <1>8, <2>1 DEF Fresh
  <2>3. TwoInPass(written, next)
    BY <1>8, Zenon DEF Social
  <2> QED
    BY <2>1, <2>2, <2>3, OneEachIs
<1>10. ServerOK(idled) /\ Social(idled, next, NoUser) /\ OneEach(idled)
  <2>1. written.list \in Seq(Conns)
    BY <1>8, Parts
  <2>2. PICK g : Steps(g, written.list, written, "IDLE", {}) /\ idled = g[Len(written.list)]
    BY <1>4, <2>1, IdledStepwise
  <2> QED
    BY <1>8, <1>9, <2>2, SocialTimed
<1>11. ServerOK(chatted) /\ Social(chatted, next, NoUser) /\ OneEach(chatted)
  <2>1. idled.list \in Seq(Conns)
    BY <1>10, Parts
  <2>2. PICK g : Steps(g, idled.list, idled, "CHAT", {}) /\ chatted = g[Len(idled.list)]
    BY <1>4, <2>1, ChatIdledStepwise
  <2> QED
    BY <1>10, <2>2, SocialTimed
<1>12. Social(r, next, NoUser)
  <2>1. PICK C : C = { c \in Conns : Over(chatted.sessions[c]) }
    OBVIOUS
  <2>2. ServerOK(r) /\ ToSet(r.list) \subseteq ToSet(chatted.list)
    BY <1>4, Zenon DEF Without
  <2>3. ToSet(chatted.list) \subseteq Conns /\ \A c \in Conns : SessionOK(chatted.sessions[c])
    BY <1>11, Parts
  <2>4. \A d \in ToSet(r.list) : ~ chatted.sessions[d].cancella
    BY <1>11, <2>2, <2>3 DEF OneEach
  <2>5. \A d \in ToSet(chatted.list) : d \in C =>
          chatted.sessions[d].stato = "CHIUSA" \/ chatted.sessions[d].user = NoUser
    BY <2>1, <2>3 DEF Over, SessionOK
  <2>6. Without(r, chatted, C)
    BY <1>4, <2>1
  <2> QED
    BY <1>11, <2>4, <2>5, <2>6, SocialClosed
<1> QED
  BY <1>1, <1>3, <1>12, CommandsSame

LEMMA SocialInitially == Init => SocialInv
<1>1. SUFFICES ASSUME Init PROVE Social(server, turn, NoUser)
  BY Zenon DEF SocialInv
<1>2. ToSet(server.list) = {}
  BY <1>1 DEF Init, ToSet
<1>3. /\ TwoInPass(server, turn) /\ TakenOverBy(server, NoUser) /\ NothingTold(server)
      /\ KnowsWhoIsIn(server, NoUser) /\ KnowsNobodyElse(server)
      /\ KnowsChannel(server, NoUser) /\ KnowsOnlyChannel(server)
  BY <1>2, Zenon DEF TwoInPass, TakenOverBy, NothingTold, KnowsWhoIsIn, KnowsNobodyElse,
                     KnowsChannel, KnowsOnlyChannel
<1> QED
  BY <1>3, Zenon DEF Social

LEMMA SocialStep == BaseInv /\ TextInv /\ SocialInv /\ [Next]_vars => SocialInv'
<1>1. SUFFICES ASSUME BaseInv, TextInv, SocialInv, [Next]_vars PROVE SocialInv'
  OBVIOUS
<1>2. CASE UNCHANGED vars
  <2>1. commands' = commands /\ Social(server', turn', NoUser)
    BY <1>1, <1>2, Zenon DEF vars, SocialInv
  <2> QED
    BY <2>1, CommandsSame
<1>3. ASSUME NEW new \in (Conns \ Connected) \cup {NoConn}, NEW lost, Poll(new, lost)
      PROVE  SocialInv'
  BY <1>1, <1>3, SocialPoll
<1>4. CASE Silent
  BY <1>1, <1>4, SocialSilent
<1>5. ASSUME NEW c \in Connected, Makings(c) \/ Textings(c) \/ Quiets(c)
      PROVE  SocialInv'
  BY <1>1, <1>5, SocialCommand
<1>6. ASSUME NEW broken \in Subsets(Connected, "WRITE_ERROR"), EndPass(broken)
      PROVE  SocialInv'
  BY <1>1, <1>6, SocialEndPass
<1>7. CASE Next
  BY <1>7, NextIs, <1>3, <1>4, <1>5, <1>6, Zenon
<1> QED
  BY <1>1, <1>2, <1>7

LEMMA WhoIsInKnown == BaseInv /\ SocialInv => PresenceKnown
<1> SUFFICES ASSUME BaseInv, SocialInv, phase = "POLL", NEW c \in Connected, Session(c).logged
             PROVE  LET s      == Session(c)
                        others == Users \ {s.user}
                        in     == { Session(d).user : d \in Connected }
                        late   == Late(s, "HWHO")
                    IN  /\ UsersOf(server, Hwho(server, c)) \cap others \subseteq s.present
                        /\ ~ may("WRITE_ERROR") =>
                             (s.present \cup late) \cap others
                               \subseteq in \cup late \cup Unregistered
  BY Zenon DEF PresenceKnown
<1>1. /\ ServerOK(server) /\ AllStay(server) /\ Social(server, turn, NoUser)
      /\ c \in ToSet(server.list) /\ ToSet(server.list) \subseteq Conns
  BY Parts, Zenon DEF BaseInv, SocialInv, Connected
<1>2. Session(c).user \in Users
  BY <1>1, HasUser DEF AllStay, Session
<1>3. ASSUME NEW u \in UsersOf(server, Hwho(server, c)), u # Session(c).user
      PROVE  u \in Session(c).present
  <2>1. PICK d \in ToSet(server.list) \ {c} :
          server.sessions[d].logged /\ server.sessions[d].user = u /\ u # NoUser
    BY <1>3 DEF UsersOf, Hwho
  <2>2. server.sessions[d].stato # "CHIUSA"
    BY <1>1, <2>1 DEF AllStay
  <2>3. KnowsWhoIsIn(server, NoUser)
    BY <1>1, Zenon DEF Social
  <2> QED
    BY <1>1, <1>2, <1>3, <2>1, <2>2, <2>3, UserIsNamed DEF KnowsWhoIsIn, Session
<1>4. ASSUME ~ may("WRITE_ERROR"), NEW u \in Session(c).present \ Unregistered,
             u # Session(c).user
      PROVE  \E d \in Connected : Session(d).user = u
  <2>1. KnowsNobodyElse(server)
    BY <1>1, <1>4, Zenon DEF Social
  <2>2. \E d \in Conns : Stays(server, u, d)
    BY <1>1, <1>2, <1>4, <2>1, UserIsNamed DEF KnowsNobodyElse, Session
  <2> QED
    BY <2>2, Zenon DEF Stays, Session, Connected
<1> QED
  BY <1>3, <1>4

LEMMA ChannelKnown == BaseInv /\ SocialInv => ChatKnown
<1> SUFFICES ASSUME BaseInv, SocialInv, phase = "POLL", NEW c \in Connected,
                    Session(c).canale # 0
             PROVE  LET s      == Session(c)
                        others == { Session(d).user : d \in InChannel(server, s.canale, c) }
                        late   == Late(s, "CWHO")
                    IN  /\ others \subseteq s.inchat
                        /\ {"WRITE_ERROR", "TAKEOVER"} \cap commands = {} =>
                             s.inchat \cup late \subseteq others \cup late \cup Unregistered
  BY Zenon DEF ChatKnown
<1>1. /\ ServerOK(server) /\ AllStay(server) /\ Social(server, turn, NoUser)
      /\ c \in ToSet(server.list) /\ ToSet(server.list) \subseteq Conns
  BY Parts, Zenon DEF BaseInv, SocialInv, Connected
<1>2. server.sessions[c].canale # 0 /\ server.sessions[c].user \in Users
  BY <1>1, HasUser DEF AllStay, Session
<1>3. ASSUME NEW d \in InChannel(server, Session(c).canale, c)
      PROVE  Session(d).user \in Session(c).inchat
  <2>1. /\ d \in ToSet(server.list) /\ d # c /\ server.sessions[d].user # NoUser
        /\ server.sessions[d].canale = server.sessions[c].canale
    BY <1>3 DEF InChannel, Session
  <2>2. InSame(server, c, d)
    BY <1>1, <1>2, <2>1, UserIsNamed DEF InSame, AllStay
  <2>3. KnowsChannel(server, NoUser)
    BY <1>1, Zenon DEF Social
  <2> QED
    BY <1>1, <2>1, <2>2, <2>3, Zenon DEF KnowsChannel, Session
<1>4. ASSUME {"WRITE_ERROR", "TAKEOVER"} \cap commands = {},
             NEW u \in Session(c).inchat \ Unregistered
      PROVE  \E d \in InChannel(server, Session(c).canale, c) : Session(d).user = u
  <2>1. KnowsOnlyChannel(server)
    BY <1>1, <1>4, Zenon DEF Social
  <2>2. PICK d \in ToSet(server.list) : InSame(server, c, d) /\ server.sessions[d].user = u
    BY <1>1, <1>2, <1>4, <2>1, UserIsNamed DEF KnowsOnlyChannel, Session
  <2>3. d \in InChannel(server, Session(c).canale, c)
    BY <2>2 DEF InSame, InChannel, Session
  <2> QED
    BY <2>2, <2>3 DEF Session
<1> QED
  BY <1>3, <1>4

\* Between two passes everybody who has logged in knows who else is in, and,
\* but for who has not registered, who was named as he left, and an ITOU that
\* cannot be written, nobody else, however sessions begin, end and are taken over
\* (utente_cmd.c, generic.c:71, cittaserver.c:862).
THEOREM PresenceIsKnown == Spec => []PresenceKnown
<1>1. Init => BaseInv /\ TextInv /\ SocialInv
  BY BaseInitially, SocialInitially
<1>2. BaseInv /\ TextInv /\ SocialInv /\ [Next]_vars => BaseInv' /\ TextInv' /\ SocialInv'
  BY BaseStep, SocialStep
<1>3. BaseInv /\ SocialInv => PresenceKnown
  BY WhoIsInKnown
<1> QED
  BY <1>1, <1>2, <1>3, PTL DEF Spec

\* Between two passes everybody in the chat knows everybody in the channel, and,
\* where no session is taken over and no ITOU fails, nobody else but who has not
\* registered or was named as he left (express.c, cmd_casc, cmd_clas, cmd_cwho).
THEOREM ChatIsKnown == Spec => []ChatKnown
<1>1. Init => BaseInv /\ TextInv /\ SocialInv
  BY BaseInitially, SocialInitially
<1>2. BaseInv /\ TextInv /\ SocialInv /\ [Next]_vars => BaseInv' /\ TextInv' /\ SocialInv'
  BY BaseStep, SocialStep
<1>3. BaseInv /\ SocialInv => ChatKnown
  BY ChannelKnown
<1> QED
  BY <1>1, <1>2, <1>3, PTL DEF Spec

=============================================================================
