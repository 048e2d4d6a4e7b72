------------------------------ MODULE Mailboxes ------------------------------
(***************************************************************************)
(* Mail boxes and the sessions that hold them (server/src/mail.c with      *)
(* utente_cmd.c, messaggi.c, express.c, march.c and the main loop in       *)
(* cittaserver.c).  The box and the marks of a user are in the memory of   *)
(* the session from USR1 until it is closed, and in files otherwise.       *)
(*                                                                         *)
(* The server serves the sessions one after the other, one command each,   *)
(* and closes them at fixed points of the pass.  Left out: the text of the *)
(* mails (MessageFile), users who are not validated (they have no box),    *)
(* CHEK, PSTB, XMSG and XEND, which touch no box, and QUIT by a guest,     *)
(* after which the session reads memory that was freed (utente_cmd.c:340). *)
(***************************************************************************)
EXTENDS Integers, SequencesExt

CONSTANTS
  Conns,      \* connections there may be at a time
  NoConn,     \* none of them
  Users,      \* numbers (matricole) of the users; the first is 0
  BoxLen,     \* mail_nslot
  MaxMails,   \* bound of the model: mails that are written
  CommandSets \* what may happen, in one behaviour or another

AllCommands == {"SEND", "CC", "XINM", "READ", "MDEL", "GOTO", "QUIT", "CUSR",
                "TAKEOVER", "RACE", "GUEST", "LOST", "IDLE"}

ASSUME NumbersAssumption ==
  /\ NoConn \notin Conns
  /\ Users \subseteq Nat /\ 0 \in Users /\ BoxLen \in Nat \ {0} /\ MaxMails \in Nat
ASSUME CommandsAssumption == CommandSets \subseteq SUBSET AllCommands

NoMail == -1
NoUser == -1

VARIABLES
  commands, \* what happens in this behaviour; it never changes
  server,   \* lista_sessioni (newest first), the sessions, the files
  turn,     \* in a pass: the sessions still to be served
  phase,    \* where the pass is
  lastmail  \* number of the last mail

vars == << commands, server, turn, phase, lastmail >>

Slots == 1 .. BoxLen
NoBox == [slots |-> [k \in Slots |-> NoMail], highmsg |-> 0]
Fresh == [user |-> NoUser, guest |-> FALSE, stato |-> "LIC", cancella |-> FALSE,
          box |-> NoBox, dirty |-> FALSE, fullroom |-> 0,
          newmsg |-> 0,   \* fullroom as it was when the mail room was entered
          lastread |-> 0] \* the mail shown last

Session(c) == server.sessions[c]
may(c) == c \in commands

\* Operators introduced as a `slip' are no part of the program: each is a
\* plausible mistake in the definition after it that a property must notice.

-----------------------------------------------------------------------------
(***************************************************************************)
(* Boxes.                                                                  *)
(***************************************************************************)
\* Slip: the box grows.
ScrolledLong(slots, n) == Append(slots, n)

\* msg_scroll and the new mail in the last slot.
Scrolled(slots, n) == Append(Tail(slots), n)

\* Slip: the highest number stays.
WithMailQuiet(box, n) == [box EXCEPT !.slots = Scrolled(@, n)]

WithMail(box, n) == [slots |-> Scrolled(box.slots, n), highmsg |-> n]

\* msg_del.
WithoutMail(box, k) ==
  [box EXCEPT !.slots = << NoMail >> \o SubSeq(@, 1, k - 1)
                                     \o SubSeq(@, k + 1, BoxLen)]

\* The sessions with a number, and those with the name too.
SessionsOf(sv, u)    == { c \in ToSet(sv.list) : sv.sessions[c].user = u }
SessionsNamed(sv, u) == { c \in SessionsOf(sv, u) : ~ sv.sessions[c].guest }

\* collegato, collegato_n: the newest of them, NoConn if there is none.
Newest(sv, S) ==
  LET k == SelectInSeq(sv.list, LAMBDA c : c \in S)
  IN  IF k = 0 THEN NoConn ELSE sv.list[k]

\* A mail comes into the box of a session, or is deleted.
Mailed(s, n)   == [s EXCEPT !.box = WithMail(@, n), !.dirty = TRUE]
Unmailed(s, k) == [s EXCEPT !.box = WithoutMail(@, k), !.dirty = TRUE]

\* Slip: a user who is there is taken for one who is not.
MailAddToFile(sv, u, n) ==
  [sv EXCEPT !.files[u].box = WithMail(@, n)]

\* mail_add: to the session, or to the file of a user who is not there.
MailAdd(sv, u, n) ==
  LET c == Newest(sv, SessionsOf(sv, u))
  IN  IF c = NoConn
      THEN [sv EXCEPT !.files[u].box = WithMail(@, n)]
      ELSE [sv EXCEPT !.sessions[c] = Mailed(@, n)]

-----------------------------------------------------------------------------
(***************************************************************************)
(* Sessions.                                                               *)
(***************************************************************************)
\* utr_save and mail_save.
SavedIn(file, s) ==
  [box |-> IF s.dirty THEN s.box ELSE file.box, fullroom |-> s.fullroom]

\* chiudi_sessione.
Closed(sv, c) ==
  LET s == sv.sessions[c]
  IN  [list     |-> RemoveFirst(sv.list, c),
       sessions |-> [sv.sessions EXCEPT ![c] = Fresh],
       files    |-> IF s.user = NoUser \/ s.guest THEN sv.files
                    ELSE [sv.files EXCEPT ![s.user] = SavedIn(@, s)]]

\* One pass over the list.
AllClosed(sv, which) ==
  FoldLeft(LAMBDA v, c : IF c \in which THEN Closed(v, c) ELSE v, sv, sv.list)

\* Slip: nobody is thrown out.
AlterEgoOutNot(sv, u) == sv

\* cmd_usr1: collegato finds the newest session of that name.
AlterEgoOut(sv, u) ==
  LET c == Newest(sv, SessionsNamed(sv, u))
  IN  IF c = NoConn THEN sv ELSE [sv EXCEPT !.sessions[c].cancella = TRUE]

-----------------------------------------------------------------------------
(***************************************************************************)
(* A pass: new and lost connections (a lost one is noticed reading from    *)
(* it), one command for each session, closing.                             *)
(***************************************************************************)
Poll(new, lost) ==
  LET sv == AllClosed(server, lost)
  IN  /\ phase = "POLL"
      /\ server' = IF new = NoConn THEN sv
                   ELSE [sv EXCEPT !.list = << new >> \o @]
      /\ turn' = server'.list
      /\ phase' = "COMMANDS"
      /\ UNCHANGED << commands, lastmail >>

\* interprete_comandi for the session whose turn it is, in the right state.
Serving(c, stato) ==
  /\ phase = "COMMANDS" /\ turn # << >> /\ c = Head(turn)
  /\ Session(c).stato = stato
  /\ turn' = Tail(turn)
  /\ UNCHANGED << commands, phase >>

\* prendi_da_coda finds no line.
Silent ==
  /\ phase = "COMMANDS" /\ turn # << >>
  /\ turn' = Tail(turn)
  /\ UNCHANGED << commands, server, phase, lastmail >>

\* cmd_usr1 with the right password.
Usr1(c, u) ==
  LET others == SessionsNamed(server, u)
      sv == AlterEgoOut(server, u)
      f  == server.files[u]
  IN  /\ Serving(c, "LIC")
      /\ others # {} => may("TAKEOVER")
      /\ (\E d \in others : Session(d).cancella) => may("RACE")
      /\ server' = [sv EXCEPT !.sessions[c] =
                      [@ EXCEPT !.user = u, !.stato = "COMANDI", !.box = f.box,
                                !.fullroom = f.fullroom, !.newmsg = f.fullroom]]
      /\ UNCHANGED lastmail

\* cmd_usr1 for Ospite: it has the number of the first user, and no box.
Usr1Guest(c) ==
  /\ Serving(c, "LIC") /\ may("GUEST")
  /\ server' = [server EXCEPT !.sessions[c] =
                  [@ EXCEPT !.user = 0, !.guest = TRUE, !.stato = "COMANDI"]]
  /\ UNCHANGED lastmail

\* cmd_pste in the mail room, save_post: perhaps a copy for the author.
Send(c, to, cc) ==
  LET n    == lastmail + 1
      own  == IF cc THEN MailAdd(server, Session(c).user, n) ELSE server
      sent == MailAdd(own, to, n)
  IN  /\ Serving(c, "COMANDI") /\ may("SEND") /\ (cc => may("CC"))
      /\ ~ Session(c).guest /\ to # Session(c).user /\ n <= MaxMails
      /\ server' = [sent EXCEPT !.sessions[c].box.highmsg = n]
      /\ lastmail' = n

\* cmd_xinm, send_mail: a message to somebody who has left, as a mail.
Xinm(c, to) ==
  LET n    == lastmail + 1
      sent == MailAdd(server, to, n)
  IN  /\ Serving(c, "COMANDI") /\ may("XINM")
      /\ ~ Session(c).guest /\ to # Session(c).user /\ n <= MaxMails
      /\ server' = MailAdd(sent, Session(c).user, n)
      /\ lastmail' = n

Shown(s, n, mark) == [s EXCEPT !.lastread = n, !.fullroom = mark]

\* cmd_read in the mail room.  Only READ of the new mails sets the local
\* fullroom that the mail shown is compared with (messaggi.c:381): after any
\* other the mark may stay, or be the mail shown, before or after the mark.
Read(c, k, mark) ==
  LET n == Session(c).box.slots[k]
  IN  /\ Serving(c, "COMANDI") /\ may("READ")
      /\ n # NoMail /\ mark \in {n, Session(c).fullroom}
      /\ server' = [server EXCEPT !.sessions[c] = Shown(@, n, mark)]
      /\ UNCHANGED lastmail

\* cmd_mdel in the mail room: the mail shown last.
Mdel(c, k) ==
  /\ Serving(c, "COMANDI") /\ may("MDEL")
  /\ Session(c).box.slots[k] # NoMail
  /\ Session(c).box.slots[k] = Session(c).lastread
  /\ server' = [server EXCEPT !.sessions[c] = Unmailed(@, k)]
  /\ UNCHANGED lastmail

BackIn(s, mark) == [s EXCEPT !.fullroom = mark, !.newmsg = mark, !.lastread = 0]

\* cmd_goto out of the mail room, and in again later: all is read, or (abandon,
\* and to the own room or blog) what was shown last if it is newer, or (to the
\* base room) the mark stays, or (skip) it is again what it was on entering.
Goto(c, mark) ==
  LET s == Session(c)
  IN  /\ Serving(c, "COMANDI") /\ may("GOTO")
      /\ \/ mark \in {s.box.highmsg, s.fullroom, s.newmsg}
         \/ mark = s.lastread /\ s.lastread > s.fullroom
      /\ server' = [server EXCEPT !.sessions[c] = BackIn(@, mark)]
      /\ UNCHANGED lastmail

Quit(c) ==
  /\ Serving(c, "COMANDI") /\ may("QUIT") /\ ~ Session(c).guest
  /\ server' = [server EXCEPT !.sessions[c].stato = "CHIUSA"]
  /\ UNCHANGED lastmail

ThrownOut(s) == [s EXCEPT !.user = NoUser, !.stato = "CHIUSA"]

\* cmd_cusr: every session of the name loses its user.
Cusr(c, u) ==
  /\ Serving(c, "COMANDI") /\ may("CUSR")
  /\ ~ Session(c).guest /\ Session(c).user # u
  /\ server' = [server EXCEPT !.sessions =
       [d \in Conns |->
          IF @[d].user = u /\ ~ @[d].guest
          THEN ThrownOut(@[d]) ELSE @[d]]]
  /\ UNCHANGED lastmail

\* After the commands: first those that were taken over, then those that have
\* left and those that are idle.
EndPass(idle) ==
  LET cancelled == AllClosed(server, { c \in Conns : Session(c).cancella })
  IN  /\ phase = "COMMANDS" /\ turn = << >>
      /\ server' = AllClosed(cancelled,
                     { c \in Conns : c \in idle \/ Session(c).stato = "CHIUSA" })
      /\ phase' = "POLL"
      /\ UNCHANGED << commands, turn, lastmail >>

-----------------------------------------------------------------------------
Init ==
  /\ commands \in CommandSets
  /\ server = [list |-> << >>, sessions |-> [c \in Conns |-> Fresh],
               files |-> [u \in Users |-> [box |-> NoBox, fullroom |-> 0]]]
  /\ turn = << >>
  /\ phase = "POLL"
  /\ lastmail = 0

Connected == ToSet(server.list)

Subsets(S, command) == IF may(command) THEN SUBSET S ELSE {{}}

Next ==
  \/ \E new \in (Conns \ Connected) \cup {NoConn},
        lost \in Subsets(Connected, "LOST") : Poll(new, lost)
  \/ Silent
  \/ \E c \in Connected :
       \/ Usr1Guest(c) \/ Quit(c)
       \/ \E u \in Users : Usr1(c, u) \/ Xinm(c, u) \/ Cusr(c, u)
       \/ \E u \in Users, cc \in BOOLEAN : Send(c, u, cc)
       \/ \E k \in Slots : Mdel(c, k)
       \/ \E k \in Slots, mark \in 0 .. MaxMails : Read(c, k, mark)
       \/ \E mark \in 0 .. MaxMails : Goto(c, mark)
  \/ \E idle \in Subsets(Connected, "IDLE") : EndPass(idle)

Spec == Init /\ [][Next]_vars

-----------------------------------------------------------------------------
(***************************************************************************)
(* Properties.                                                             *)
(***************************************************************************)
Boxes == [slots : [Slots -> {NoMail} \cup 1 .. MaxMails], highmsg : 0 .. MaxMails]

\* Boxes keep their length, in memory and in the files; the list holds each
\* connection once.
TypeOK ==
  /\ commands \in CommandSets
  /\ server.sessions \in
       [Conns -> [user : Users \cup {NoUser}, guest : BOOLEAN,
                  stato : {"LIC", "COMANDI", "CHIUSA"}, cancella : BOOLEAN,
                  box : Boxes, dirty : BOOLEAN, fullroom : 0 .. MaxMails,
                  newmsg : 0 .. MaxMails, lastread : 0 .. MaxMails]]
  /\ server.files \in [Users -> [box : Boxes, fullroom : 0 .. MaxMails]]
  /\ IsInjective(server.list) /\ Connected \subseteq Conns
  /\ \A c \in Conns \ Connected : Session(c) = Fresh
  /\ turn \in Seq(Conns) /\ phase \in {"POLL", "COMMANDS"}
  /\ lastmail \in 0 .. MaxMails

Named(u) == SessionsNamed(server, u)

\* Between two passes a user has one session at most, the last to log in: the
\* earlier one is closed before the server looks at the world again.  Unless
\* two take over the same session in one pass (RACE).
OneSession ==
  "RACE" \notin commands /\ phase = "POLL" =>
    \A u \in Users : Cardinality(Named(u)) <= 1

\* As above whatever happens ("Killa l'alter ego se presente",
\* utente_cmd.c:219).
AlterEgoKilled ==
  phase = "POLL" => \A u \in Users : Cardinality(Named(u)) <= 1

\* A mail that was not read is announced (new_msg compares the marks with
\* highmsg only, messaggi.c:580), whoever wrote to whom meanwhile, also after
\* the box was taken over from another session.
NewMailAnnounced ==
  \A c \in Connected :
    (\E k \in Slots : Session(c).box.slots[k] > Session(c).fullroom) =>
      Session(c).box.highmsg > Session(c).fullroom

\* Where the mail of a user is.
Held(u) ==
  IF Named(u) = {} THEN server.files[u]
  ELSE LET s == Session(CHOOSE c \in Named(u) : TRUE)
       IN  [box |-> s.box, fullroom |-> s.fullroom]

MailsOf(u) == ToSet(Held(u).box.slots) \ {NoMail}

Abstract == INSTANCE UserMailboxes WITH
  Mails  <- 1 .. MaxMails,
  boxes  <- [u \in Users |-> MailsOf(u)],
  unread <- [u \in Users |-> { n \in MailsOf(u) : n > Held(u).fullroom }]

Faithful == {"TAKEOVER", "CUSR", "GUEST"} \cap commands = {}

\* As long as no user is in twice, is thrown out, or shares the number with a
\* guest, all these boxes and files are one mail box for each user: no mail is
\* lost, doubled or comes back, and which are new only their owner changes (who
\* may also make some new again, by READ of an older one or by leaving with
\* skip), whoever is there when one is sent, and however sessions begin and end
\* (mail.c:171).
ImplementsUserMailboxes ==
  Abstract!Init /\ [][Faithful => Abstract!Next]_(Abstract!vars)
=============================================================================
