------------------------------ MODULE Express -------------------------------
(***************************************************************************)
(* What users tell each other and are told of each other: X messages,      *)
(* broadcasts and the chat (server/src/express.c), notices of who comes    *)
(* and goes (utente_cmd.c), and the main loop (cittaserver.c), which       *)
(* throws out who is idle, sleeps at the login, or says nothing in the     *)
(* chat.                                                                   *)
(*                                                                         *)
(* The server serves the sessions one after the other, newest first, one   *)
(* command each, and a pass ends with the timeouts.  Left out: the texts,  *)
(* the rest of what a user may do, guests and the mail boxes (Mailboxes),  *)
(* users who do not want X messages or notices, who register meanwhile     *)
(* (RGST), who are deleted.                                                *)
(* Clients are as client/src is: CHEK follows USR1, an XEND that found     *)
(* somebody gone is followed by XINM or ATXT, channels are not left by     *)
(* CASC 0, nobody is named twice for a message.                            *)
(***************************************************************************)
EXTENDS Integers, SequencesExt

CONSTANTS
  Conns,        \* connections there may be at a time
  NoConn,       \* none of them
  Users,        \* the users (their numbers, matricole)
  Unregistered, \* those who have not registered: nobody is told when they leave
  Gone,         \* -1, in the place of the number of a user
  NoUser,       \* NULL, a session of nobody
  MaxRcpt,      \* MAX_RCPT
  Channels,     \* of the chat; 0 is none
  IdleWarning, IdleLogout, MaxIdle, \* min_idle_warning, min_idle_logout, max_min_idle
  LoginTimeout, \* login_timeout_min
  ChatTimeout,  \* CHAT_TIMEOUT
  CommandSets,  \* what may happen, in one behaviour or another
  MaxMessages   \* bound of the model, of each behaviour: X messages that are begun

AllCommands == {"XMSG", "CHAT", "BROAD", "QUIT", "CUSR", "TAKEOVER", "LOST",
                "IDLE", "CHAT_IDLE", "WRITE_ERROR"}

ASSUME NamesAssumption ==
  NoConn \notin Conns /\ {Gone, NoUser} \cap Users = {} /\ Unregistered \subseteq Users
ASSUME NumbersAssumption ==
  /\ MaxRcpt \in Nat \ {0} /\ MaxMessages \in [CommandSets -> Nat] /\ Channels \subseteq Nat \ {0}
  /\ {IdleWarning, IdleLogout, MaxIdle, LoginTimeout, ChatTimeout} \subseteq Nat
ASSUME CommandsAssumption == CommandSets \subseteq SUBSET AllCommands

VARIABLES
  commands, \* what happens in this behaviour; it never changes
  server,   \* lista_sessioni (newest first) and the sessions
  turn,     \* in a pass: the sessions still to be served
  phase,    \* where the pass is
  messages  \* the X messages that were begun, with what became of them

vars == << commands, server, turn, phase, messages >>

\* A session.  The last five fields are there for the properties: passes since
\* the last command, warnings since then, the users it was told are in, those it
\* was told are in its channel, and those whom HWHO or CWHO named when they had
\* left already, of whom it has heard nothing since.
Fresh == [user |-> NoUser, stato |-> "LIC", logged |-> FALSE, cancella |-> FALSE,
          rcpt |-> << >>, text |-> 0, canale |-> 0, chat |-> 0, idle |-> 0,
          warning |-> 0, quiet |-> 0, warned |-> 0, present |-> {}, inchat |-> {},
          leaving |-> {}]

Session(c) == server.sessions[c]
Connected == ToSet(server.list)
may(c) == c \in commands

\* Operators introduced as a `slip' are no part of the program: each is a
\* plausible mistake in the definition after it that a property must notice.

-----------------------------------------------------------------------------
(***************************************************************************)
(* Sessions and notices.                                                   *)
(***************************************************************************)
SessionsOf(sv, u) == { c \in ToSet(sv.list) : sv.sessions[c].user = u }

\* collegato and collegato_n: the newest of these sessions, if any.
Newest(sv, S) ==
  LET i == SelectInSeq(sv.list, LAMBDA c : c \in S)
  IN  IF i = 0 THEN NoConn ELSE sv.list[i]

\* The server with s in the place of session c.
With(sv, c, s) == [sv EXCEPT !.sessions[c] = s]

\* The sessions which HWHO lists, also those that leave in this pass.  (After CUSR
\* it reads the name of a user there is no more, generic.c:110: left out.)
Hwho(sv, but) ==
  { d \in ToSet(sv.list) \ {but} : sv.sessions[d].logged /\ sv.sessions[d].user # NoUser }

UsersOf(sv, S) == { sv.sessions[d].user : d \in S }

\* Those of the sessions S that do not leave.
Staying(sv, S) == { d \in S : sv.sessions[d].stato # "CHIUSA" }

\* Whom a list of the sessions S names only because he has not left yet.
NamedLate(sv, S, list) == {list} \X (UsersOf(sv, S) \ UsersOf(sv, Staying(sv, S)))

\* Whom the list named to s as he left.
Late(s, list) == { u \in Users : << list, u >> \in s.leaving }

InChannel(sv, canale, but) ==
  { d \in ToSet(sv.list) \ {but} :
      sv.sessions[d].canale = canale /\ sv.sessions[d].user # NoUser }

\* What a client is told: that a user is in, is gone, came into its channel,
\* went out of it.
ToldIn(s, u)    == [s EXCEPT !.present = @ \cup {u}, !.leaving = @ \ {<< "HWHO", u >>}]
ToldGone(s, u)  == [s EXCEPT !.present = @ \ {u}, !.inchat = @ \ {u},
                             !.leaving = @ \ {<< "HWHO", u >>, << "CWHO", u >>}]
ToldEnter(s, u) == [s EXCEPT !.inchat = @ \cup {u}, !.leaving = @ \ {<< "CWHO", u >>}]
ToldExit(s, u)  == [s EXCEPT !.inchat = @ \ {u}, !.leaving = @ \ {<< "CWHO", u >>}]

\* Slip: who is busy is not told.
ToldOfLoginIfFree(sv, c) ==
  [sv EXCEPT !.sessions = [d \in Conns |->
     IF d # c /\ @[d].stato = "COMANDI"
     THEN ToldIn(@[d], sv.sessions[c].user) ELSE @[d]]]

\* cmd_chek: LGIN to everybody else who has a user.
ToldOfLogin(sv, c) ==
  [sv EXCEPT !.sessions = [d \in Conns |->
     IF d # c /\ @[d].user # NoUser
     THEN ToldIn(@[d], sv.sessions[c].user) ELSE @[d]]]

\* notify_logout: LGOT, DROP or LOID, of registered users only.  Who is told takes
\* the user out of the chat too.
ToldOfLogout(sv, c) ==
  [sv EXCEPT !.sessions = [d \in Conns |->
     IF d # c /\ @[d].user # NoUser /\ sv.sessions[c].user \notin Unregistered
     THEN ToldGone(@[d], sv.sessions[c].user) ELSE @[d]]]

\* cmd_quit.
Left(sv, c) ==
  LET told == ToldOfLogout(sv, c)
  IN  With(told, c, [told.sessions[c] EXCEPT !.stato = "CHIUSA"])

\* One of the sessions of a user who is thrown out (cmd_cusr).
ThrownOut(sv, c) ==
  LET left == Left(sv, c)
  IN  With(left, c, [left.sessions[c] EXCEPT !.user = NoUser])

\* send_chat of LGIC, and of LGOC or LOIC.
ToldOfEntry(sv, c, canale) ==
  [sv EXCEPT !.sessions = [d \in Conns |->
     IF d \in InChannel(sv, canale, c)
     THEN ToldEnter(@[d], sv.sessions[c].user) ELSE @[d]]]

ToldOfExit(sv, c) ==
  [sv EXCEPT !.sessions = [d \in Conns |->
     IF d \in InChannel(sv, sv.sessions[c].canale, c)
     THEN ToldExit(@[d], sv.sessions[c].user) ELSE @[d]]]

\* chiudi_sessione.
Closed(sv, c) ==
  [list     |-> RemoveFirst(sv.list, c),
   sessions |-> [sv.sessions EXCEPT ![c] = Fresh]]

\* One pass over the list.
AllClosed(sv, which) ==
  FoldLeft(LAMBDA v, c : IF c \in which THEN Closed(v, c) ELSE v, sv, sv.list)

AllDropped(sv, which) ==
  FoldLeft(LAMBDA v, c : IF c \in which THEN Closed(ToldOfLogout(v, c), c) ELSE v,
           sv, sv.list)

-----------------------------------------------------------------------------
(***************************************************************************)
(* A pass begins: connections, lost and new, and the clocks.               *)
(***************************************************************************)
AtMost(n, bound) == IF n < bound THEN n ELSE bound

\* Bounds of the model: the clocks stop when nothing more depends on them.
IdleCap == Max({IdleWarning, IdleLogout, MaxIdle}) + LoginTimeout + 3
ChatCap == ChatTimeout + 1

\* The clocks of a session, in minutes: a pass of the model is a minute.
Ticked(s) ==
  [s EXCEPT !.idle  = IF may("IDLE") THEN AtMost(@ + 1, IdleCap) ELSE @,
            !.quiet = IF may("IDLE") THEN AtMost(@ + 1, IdleCap) ELSE @,
            !.chat  = IF may("CHAT_IDLE") /\ s.canale # 0
                      THEN AtMost(@ + 1, ChatCap) ELSE @]

Poll(new, lost) ==
  LET opened == IF new = NoConn THEN server
                ELSE [server EXCEPT !.list = << new >> \o @]
      ticked == [opened EXCEPT !.sessions =
                   [c \in Conns |-> IF c \in ToSet(opened.list)
                                    THEN Ticked(@[c]) ELSE @[c]]]
  IN  /\ phase = "POLL"
      /\ server' = AllDropped(ticked, lost)
      /\ turn' = server'.list
      /\ phase' = "COMMANDS"
      /\ UNCHANGED << commands, messages >>

-----------------------------------------------------------------------------
(***************************************************************************)
(* Commands.                                                               *)
(***************************************************************************)
\* interprete_comandi for the session whose turn it is, in the right state.
Serving(c, states) ==
  /\ phase = "COMMANDS" /\ turn # << >> /\ c = Head(turn)
  /\ Session(c).stato \in states
  /\ turn' = Tail(turn)
  /\ UNCHANGED << commands, phase >>

\* Slip: the warnings given are not forgotten.
IdleClearedHalf(s) == [s EXCEPT !.idle = 0, !.quiet = 0, !.warned = 0]

\* clear_idle, after every command but NOOP.
IdleCleared(s) == [s EXCEPT !.idle = 0, !.warning = 0, !.quiet = 0, !.warned = 0]

Serve(c, sv) == server' = [sv EXCEPT !.sessions[c] = IdleCleared(@)]

\* prendi_da_coda finds no line, or NOOP.
Silent ==
  /\ phase = "COMMANDS" /\ turn # << >>
  /\ turn' = Tail(turn)
  /\ UNCHANGED << commands, server, phase, messages >>

\* cmd_usr1 with the right password; the earlier session is marked.
Usr1(c, u) ==
  LET earlier == Newest(server, SessionsOf(server, u))
      sv == IF earlier = NoConn THEN server
            ELSE With(server, earlier, [Session(earlier) EXCEPT !.cancella = TRUE])
  IN  /\ Serving(c, {"LIC"})
      /\ earlier # NoConn => may("TAKEOVER") /\ ~ Session(earlier).cancella
      /\ Serve(c, With(sv, c, [Session(c) EXCEPT !.user = u, !.stato = "COMANDI"]))
      /\ UNCHANGED messages

\* cmd_usr1 with a wrong one: the clock of the login starts again.
Usr1Wrong(c) ==
  /\ Serving(c, {"LIC"}) /\ may("IDLE")
  /\ Serve(c, server)
  /\ UNCHANGED messages

\* cmd_chek.  The client asks who is in (HWHO).
Chek(c) ==
  /\ Serving(c, {"COMANDI"}) /\ ~ Session(c).logged
  /\ LET listed == Hwho(server, c)
     IN  Serve(c, With(ToldOfLogin(server, c), c,
                       [Session(c) EXCEPT !.logged = TRUE,
                                          !.present = UsersOf(server, Staying(server, listed)),
                                          !.leaving = NamedLate(server, listed, "HWHO")]))
  /\ UNCHANGED messages

\* cmd_quit, in any state.
Quit(c) ==
  /\ Serving(c, {"COMANDI", "XMSG", "CHAT", "BROAD", "LOCK"}) /\ may("QUIT")
  /\ Serve(c, Left(server, c))
  /\ UNCHANGED messages

\* cmd_cusr: cmd_quit on every session of the name, which loses its user.
AllThrownOut(sv, u) ==
  FoldLeft(LAMBDA v, c : IF v.sessions[c].user = u THEN ThrownOut(v, c) ELSE v,
           sv, sv.list)

Cusr(c, u) ==
  /\ Serving(c, {"COMANDI"}) /\ may("CUSR") /\ Session(c).logged
  /\ Session(c).user # u
  /\ Serve(c, AllThrownOut(server, u))
  /\ UNCHANGED messages

\* cmd_ltrm: the terminal is locked, and unlocked with the password.
Ltrm(c) ==
  /\ Serving(c, {"COMANDI", "LOCK"}) /\ may("IDLE") /\ Session(c).logged
  /\ \E stato \in {"LOCK", "COMANDI"} :
       /\ stato = "COMANDI" => Session(c).stato = "LOCK"
       /\ Serve(c, With(server, c, [Session(c) EXCEPT !.stato = stato]))
  /\ UNCHANGED messages

-----------------------------------------------------------------------------
(***************************************************************************)
(* X messages.                                                             *)
(***************************************************************************)
\* What is known of a message: whom the sender was told is among its
\* recipients, how often it went to each, and how it ended.
NewMessage == [named |-> {}, reached |-> [u \in Users |-> 0], end |-> "OPEN"]

\* reset_text.
TextReset(s) == [s EXCEPT !.stato = "COMANDI", !.text = 0]

MessageLeft(s) == TextReset([s EXCEPT !.rcpt = << >>])

EndMessage(m, how) == messages' = [messages EXCEPT ![m].end = how]

Xmsg(c) ==
  /\ Serving(c, {"COMANDI"}) /\ may("XMSG") /\ Session(c).logged
  /\ Len(messages) < MaxMessages[commands]
  /\ Serve(c, With(server, c, [Session(c) EXCEPT !.stato = "XMSG",
                                                 !.text = Len(messages) + 1]))
  /\ messages' = Append(messages, NewMessage)

\* check_dest for a user who is connected and accepts it: OK, and on the list
\* if there is room.
Dest(c, u) ==
  /\ Serving(c, {"XMSG"})
  /\ Newest(server, SessionsOf(server, u)) \notin {NoConn, c}
  /\ u \notin messages[Session(c).text].named
  /\ Serve(c, IF Len(Session(c).rcpt) < MaxRcpt
              THEN With(server, c, [Session(c) EXCEPT !.rcpt = Append(@, u)])
              ELSE server)
  /\ messages' = [messages EXCEPT ![Session(c).text].named = @ \cup {u}]

\* Slip: who has got the message stays on the list.
RcptKept(rcpt, there) == rcpt

\* send_multix: who has got the message is taken off the list.
RcptLeft(rcpt, there) ==
  [i \in DOMAIN rcpt |-> IF rcpt[i] \in there THEN Gone ELSE rcpt[i]]

Times(seq, u) == Cardinality({ i \in DOMAIN seq : seq[i] = u })

\* The messages when m went to those of its recipients who are there.
Delivered(m, rcpt, there) ==
  [messages EXCEPT ![m].reached =
     [u \in Users |-> @[u] + IF u \in there THEN Times(rcpt, u) ELSE 0]]

\* cmd_xend and send_multix: to the newest session of each recipient, also one
\* that leaves in this pass.  If somebody has gone the message is kept.
Xend(c, empty) ==
  LET s     == Session(c)
      there == { u \in ToSet(s.rcpt) : SessionsOf(server, u) # {} }
      sent  == Delivered(s.text, s.rcpt, there)
  IN  /\ Serving(c, {"XMSG"})
      /\ Gone \notin ToSet(s.rcpt)
      /\ \/ /\ empty \/ s.rcpt = << >>
            /\ Serve(c, With(server, c, MessageLeft(s)))
            /\ EndMessage(s.text, "GIVEN UP")
         \/ /\ ~ empty /\ s.rcpt # << >> /\ ToSet(s.rcpt) \subseteq there
            /\ Serve(c, With(server, c, MessageLeft(s)))
            /\ messages' = [sent EXCEPT ![s.text].end = "SENT"]
         \/ /\ ~ empty /\ ~ (ToSet(s.rcpt) \subseteq there)
            /\ Serve(c, With(server, c, [s EXCEPT !.rcpt = RcptLeft(@, there)]))
            /\ messages' = sent

\* cmd_xinm: the message goes as a mail to those still on the list, or the
\* sender lets it be.
Xinm(c, mail) ==
  LET s == Session(c)
  IN  /\ Serving(c, {"XMSG"})
      /\ Serve(c, With(server, c, MessageLeft(s)))
      /\ messages' =
           IF mail /\ ToSet(s.rcpt) \cap Users # {}
           THEN [Delivered(s.text, s.rcpt, Users) EXCEPT ![s.text].end = "SENT"]
           ELSE [messages EXCEPT ![s.text].end = "GIVEN UP"]

-----------------------------------------------------------------------------
(***************************************************************************)
(* Chat and broadcasts.                                                    *)
(***************************************************************************)
\* The sessions which CWHO lists in a channel, also those that leave in this pass.
Cwho(sv, canale, c) ==
  { d \in InChannel(sv, canale, c) : sv.sessions[d].logged }

\* What is left of what CWHO said when the session goes out of its channel.
Forgotten(leaving) == { x \in leaving : x[1] # "CWHO" }

In(sv, c, canale) ==
  LET listed == Cwho(sv, canale, c)
  IN  With(ToldOfEntry(sv, c, canale), c,
           [sv.sessions[c] EXCEPT
              !.canale = canale, !.chat = 0,
              !.inchat = UsersOf(sv, Staying(sv, listed)),
              !.leaving = Forgotten(@) \cup NamedLate(sv, listed, "CWHO")])

\* cmd_casc.  The client asks who is in the channel.
Joined(sv, c, canale) ==
  In(IF sv.sessions[c].canale # 0 THEN ToldOfExit(sv, c) ELSE sv, c, canale)

Casc(c, canale) ==
  /\ Serving(c, {"COMANDI"}) /\ may("CHAT") /\ Session(c).logged
  /\ Serve(c, IF Session(c).canale = canale THEN server ELSE Joined(server, c, canale))
  /\ UNCHANGED messages

\* A session that is in no channel.
Outside(s) == [s EXCEPT !.canale = 0, !.inchat = {}, !.leaving = Forgotten(@)]

\* Slip: nobody is told.
OutOfChatQuietly(sv, c) == With(sv, c, Outside(sv.sessions[c]))

\* cmd_clas, chat_timeout.
OutOfChat(sv, c) == With(ToldOfExit(sv, c), c, Outside(sv.sessions[c]))

Clas(c) ==
  /\ Serving(c, {"COMANDI"}) /\ Session(c).canale # 0
  /\ Serve(c, OutOfChat(server, c))
  /\ UNCHANGED messages

Cmsg(c) ==
  /\ Serving(c, {"COMANDI"}) /\ Session(c).canale # 0
  /\ Serve(c, With(server, c, [Session(c) EXCEPT !.stato = "CHAT", !.chat = 0]))
  /\ UNCHANGED messages

\* cmd_cend: to the channel, unless the writer was put out of it meanwhile.
Cend(c) ==
  /\ Serving(c, {"CHAT"})
  /\ Serve(c, With(server, c, [TextReset(Session(c)) EXCEPT !.chat = 0]))
  /\ UNCHANGED messages

Brdc(c) ==
  /\ Serving(c, {"COMANDI"}) /\ may("BROAD") /\ Session(c).logged
  /\ Serve(c, With(server, c, [Session(c) EXCEPT !.stato = "BROAD"]))
  /\ UNCHANGED messages

Bend(c) ==
  /\ Serving(c, {"BROAD"})
  /\ Serve(c, With(server, c, TextReset(Session(c))))
  /\ UNCHANGED messages

\* cmd_atxt.
Atxt(c) ==
  /\ Serving(c, {"XMSG", "CHAT", "BROAD"})
  /\ Serve(c, With(server, c, MessageLeft(Session(c))))
  /\ IF Session(c).text = 0 THEN UNCHANGED messages
     ELSE EndMessage(Session(c).text, "GIVEN UP")

-----------------------------------------------------------------------------
(***************************************************************************)
(* The timeouts at the end of a pass.                                      *)
(***************************************************************************)
IdleOut(s) ==
  may("IDLE") /\ s.stato # "LOCK" /\ s.idle >= MaxIdle /\ s.warning = 2

\* A session that is idle is warned twice and then thrown out, unless the
\* terminal is locked.
Idled(v, c) ==
  LET s == v.sessions[c]
  IN  IF ~ may("IDLE") \/ s.stato = "LOCK" THEN v
      ELSE CASE IdleOut(s)                              -> Left(v, c)
             [] s.idle >= IdleLogout /\ s.warning = 1  ->
                  With(v, c, [s EXCEPT !.warning = 2, !.warned = @ + 1])
             [] s.idle >= IdleWarning /\ s.warning = 0 ->
                  With(v, c, [s EXCEPT !.warning = 1, !.warned = @ + 1])
             [] OTHER -> v

\* Chat timeouts.  CUSR and CHAT_IDLE do not go together: the code would read the
\* name of a user whom CUSR took away (express.c:508).
ChatIdled(v, c) ==
  IF v.sessions[c].canale # 0 /\ v.sessions[c].chat > ChatTimeout
  THEN OutOfChat(v, c) ELSE v

\* Who sleeps at the login, and who has left or was thrown out.
Over(s) ==
  \/ s.stato = "CHIUSA"
  \/ may("IDLE") /\ s.stato = "LIC" /\ s.idle >= LoginTimeout

\* After the commands: sessions taken over, timeouts.  An idle session to which
\* ITOU cannot be written is closed at once and read again for the notice
\* (cittaserver.c:862): others are told, as if it had been written, or they are
\* not, as those in `broken'.
EndPass(broken) ==
  LET taken   == AllClosed(server, { c \in Conns : Session(c).cancella })
      written == AllClosed(taken, broken)
      idled   == FoldLeft(Idled, written, written.list)
      chatted == FoldLeft(ChatIdled, idled, idled.list)
  IN  /\ phase = "COMMANDS" /\ turn = << >>
      /\ \A c \in broken : IdleOut(taken.sessions[c])
      /\ server' = AllClosed(chatted, { c \in Conns : Over(chatted.sessions[c]) })
      /\ phase' = "POLL"
      /\ UNCHANGED << commands, turn, messages >>

-----------------------------------------------------------------------------
Init ==
  /\ commands \in CommandSets
  /\ server = [list |-> << >>, sessions |-> [c \in Conns |-> Fresh]]
  /\ turn = << >>
  /\ phase = "POLL"
  /\ messages = << >>

Subsets(S, command) == IF may(command) THEN SUBSET S ELSE {{}}

Next ==
  \/ \E new \in (Conns \ Connected) \cup {NoConn},
        lost \in Subsets(Connected, "LOST") : Poll(new, lost)
  \/ Silent
  \/ \E c \in Connected :
       \/ Usr1Wrong(c) \/ Chek(c) \/ Quit(c) \/ Ltrm(c)
       \/ \E u \in Users : Usr1(c, u) \/ Cusr(c, u) \/ Dest(c, u)
       \/ Xmsg(c) \/ Atxt(c)
       \/ \E empty \in BOOLEAN : Xend(c, empty)
       \/ \E mail \in BOOLEAN : Xinm(c, mail)
       \/ \E canale \in Channels : Casc(c, canale)
       \/ Clas(c) \/ Cmsg(c) \/ Cend(c) \/ Brdc(c) \/ Bend(c)
  \/ \E broken \in Subsets(Connected, "WRITE_ERROR") : EndPass(broken)

Spec == Init /\ [][Next]_vars

-----------------------------------------------------------------------------
(***************************************************************************)
(* Properties.                                                             *)
(***************************************************************************)
Kinds == {"LIC", "COMANDI", "XMSG", "CHAT", "BROAD", "LOCK", "CHIUSA"}

\* The types; a session that is not on the list holds nothing.
TypeOK ==
  /\ commands \in CommandSets
  /\ IsInjective(server.list) /\ Connected \subseteq Conns
  /\ \A c \in Conns \ Connected : Session(c) = Fresh
  /\ \A c \in Connected :
       /\ Session(c).user \in Users \cup {NoUser} /\ Session(c).stato \in Kinds
       /\ Session(c).rcpt \in Seq(Users \cup {Gone}) /\ Len(Session(c).rcpt) <= MaxRcpt
       /\ Session(c).text \in 0 .. Len(messages)
       /\ Session(c).canale \in Channels \cup {0}
  /\ turn \in Seq(Conns) /\ phase \in {"POLL", "COMMANDS"}

\* No more are named than the list has room for: DEST says OK to the others too
\* (express.c:217).
Fits(x) == Cardinality(x.named) <= MaxRcpt

\* Every recipient the sender was promised, of MAX_RCPT at most, gets a message
\* once, at the terminal or by mail, and nobody else does, though recipients
\* come, go and are taken over between DEST, XEND and XINM (express.c:256); until
\* then the list of the session holds just those who have not got it.
EachReachedOnce ==
  /\ \A m \in DOMAIN messages, u \in Users :
       LET x == messages[m]
       IN  /\ x.reached[u] <= (IF u \in x.named THEN 1 ELSE 0)
           /\ x.end = "SENT" /\ u \in x.named /\ Fits(x) => x.reached[u] = 1
  /\ \A c \in Connected :
       LET s    == Session(c)
           x    == messages[s.text]
           left == { u \in x.named : x.reached[u] = 0 }
       IN  s.text # 0 => /\ ToSet(s.rcpt) \cap Users \subseteq left
                         /\ Fits(x) => left \subseteq ToSet(s.rcpt)

\* Between two passes everybody who has logged in knows from HWHO and the
\* notices who else is in: who has logged in was announced, and whom a client
\* takes to be in has a session still, however sessions end and are taken over.
\* The second is not so of who has not registered; of who was listed as he left,
\* after the notice; and once ITOU cannot be written.
PresenceKnown ==
  phase = "POLL" =>
    \A c \in Connected : Session(c).logged =>
      LET s      == Session(c)
          others == Users \ {s.user}
          in     == { Session(d).user : d \in Connected }
          late   == Late(s, "HWHO")
      IN  /\ UsersOf(server, Hwho(server, c)) \cap others \subseteq s.present
          /\ ~ may("WRITE_ERROR") =>
               (s.present \cup late) \cap others \subseteq in \cup late \cup Unregistered

\* Between two passes everybody in the chat knows everybody in the channel, and
\* nobody else, through entering and changing channels, leaving, timeouts and the
\* ends of sessions.  But others are not told of a session that is taken over or
\* of who has not registered, and may be given the name of who is leaving.
ChatKnown ==
  phase = "POLL" =>
    \A c \in Connected : Session(c).canale # 0 =>
      LET s      == Session(c)
          others == { Session(d).user : d \in InChannel(server, s.canale, c) }
          late   == Late(s, "CWHO")
      IN  /\ others \subseteq s.inchat
          /\ {"WRITE_ERROR", "TAKEOVER"} \cap commands = {} =>
               s.inchat \cup late \subseteq others \cup late \cup Unregistered

\* What the timeouts do to sessions that do not leave by themselves: one is
\* thrown out only after two warnings and MaxIdle minutes without a command, or
\* from the login, and never while its terminal is locked; and one that is not
\* locked does not stay for more than three passes after all limits.
IdleOutAfterWarnings ==
  [][phase = "COMMANDS" /\ phase' = "POLL" =>
       \A c \in Connected :
         LET s    == Session(c)
             over == \/ s.warned = 2 /\ s.quiet >= MaxIdle
                     \/ s.stato = "LIC" /\ s.quiet >= LoginTimeout
         IN  IF c \in ToSet(server'.list)
             THEN s.stato = "LOCK" \/ s.quiet < IdleCap
             ELSE \/ over /\ s.stato # "LOCK"
                  \/ s.cancella \/ s.stato = "CHIUSA"]_vars
=============================================================================
