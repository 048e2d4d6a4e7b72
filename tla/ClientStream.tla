---------------------------- MODULE ClientStream ----------------------------
(***************************************************************************)
(* The bytes between a client and its session (server/src/socket_citta.c,  *)
(* coda_testo.c and the main loop in cittaserver.c).  TCP hands over the   *)
(* bytes of the client in pieces of any length; elabora_input makes lines  *)
(* of them, or puts them in the file that is being uploaded.  Each pass    *)
(* serves one line and sends what fits of the replies.                     *)
(*                                                                         *)
(* Left out: backspaces and characters that are not printed, compression,  *)
(* what the commands do.  The client sends the bytes of a file only after  *)
(* its FUPL was served.                                                    *)
(***************************************************************************)
EXTENDS Integers, SequencesExt

CONSTANTS
  Scripts,    \* what clients send: sequences of lines
  MaxString,  \* MAX_STRINGA: length of the two buffers
  MaxLine,    \* MAX_L_INPUT - 2: characters of a line that are used
  CommandSets \* what may happen, in one behaviour or another

\* THIRD_PART: a line comes in more than two pieces; WRITE_ERROR: write fails
\* and the session goes on.
AllCommands == {"THIRD_PART", "WRITE_ERROR"}

\* A line: its length, the bytes of the file it announces, and the reply, which
\* is binary if it is a file.
LineType(l) ==
  /\ l.len \in Nat \ {0} /\ l.data \in Nat /\ l.reply \in Nat
  /\ l.binary \in BOOLEAN

ASSUME ScriptsAssumption ==
  \A s \in Scripts : s \in Seq(ToSet(s)) /\ \A l \in ToSet(s) : LineType(l)
ASSUME NumbersAssumption ==
  /\ MaxString \in Nat /\ MaxString >= 3 /\ MaxLine \in Nat \ {0}
ASSUME CommandsAssumption == CommandSets \subseteq SUBSET AllCommands

VARIABLES
  commands, \* what happens in this behaviour; it never changes
  script,   \* what this client sends; it never changes
  session,  \* what the server holds of it, and what went over the wire
  phase     \* where the pass of the main loop is

vars == << commands, script, session, phase >>

may(c) == c \in commands

\* Operators introduced as a `slip' are no part of the program: each is a
\* plausible mistake in the definition after it that a property must notice.

-----------------------------------------------------------------------------
(***************************************************************************)
(* What is sent.  The characters of line n are n; a file holds any bytes.  *)
(***************************************************************************)
NL       == -1
FileByte == 0
Junk     == -2

Line(n) == [k \in 1 .. script[n].len |-> n]
Data(n) == [k \in 1 .. script[n].data |-> IF k % 2 = 0 THEN NL ELSE FileByte]
Reply(n) == [k \in 1 .. script[n].reply |-> n]

Upto(n) == FlattenSeq([i \in 1 .. n |-> Append(Line(i), NL) \o Data(i)])
Stream  == Upto(Len(script))

\* Bytes the client has sent at most: no file before its FUPL was served.
Announced == { n \in 1 .. Len(script) : n > Len(session.served) /\ script[n].data > 0 }
Available ==
  IF Announced = {} THEN Len(Stream)
  ELSE LET n == CHOOSE n \in Announced : \A m \in Announced : n <= m
       IN  Len(Upto(n - 1)) + script[n].len + 1

-----------------------------------------------------------------------------
(***************************************************************************)
(* elabora_input.                                                          *)
(***************************************************************************)
Cut(line) == SubSeq(line, 1, IF Len(line) < MaxLine THEN Len(line) ELSE MaxLine)

\* The lines that are complete, and the beginning of the next; there are no
\* empty lines.
Ends(bytes) ==
  << 0 >> \o SetToSortSeq({ k \in DOMAIN bytes : bytes[k] = NL }, <)

Lines(bytes) ==
  LET ends == Ends(bytes)
  IN  SelectSeq([k \in 1 .. Len(ends) - 1 |->
                   Cut(SubSeq(bytes, ends[k] + 1, ends[k + 1] - 1))],
                LAMBDA line : line # << >>)

\* Slip: what comes after the last newline is forgotten.
RestNot(bytes) == << >>

Rest(bytes) == SubSeq(bytes, Last(Ends(bytes)) + 1, Len(bytes))

\* How many of the bytes belong to the file.
Filed(missing, bytes) == IF Len(bytes) > missing THEN missing ELSE Len(bytes)

\* The gap begins with a NUL: neither what follows it nor anything after that
\* is ever seen.
Gap(s) == s.ilen > Len(s.text)

\* With text that holds no newline: the length of what was in the buffer is
\* counted twice.
MoreText(s, bytes) ==
  [s EXCEPT !.text = IF Gap(s) THEN @ ELSE @ \o bytes,
            !.ilen = @ + (@ + Len(bytes))]

LinesQueued(s, bytes) ==
  IF Gap(s) THEN [s EXCEPT !.ilen = @ + Len(bytes)]
  ELSE LET rest == Rest(s.text \o bytes)
       IN  [s EXCEPT !.queue = @ \o Lines(s.text \o bytes), !.text = rest,
                     !.ilen = Len(rest)]

\* A full buffer is taken for the end of the connection.
Elaborated(s, bytes) ==
  LET filed == Filed(s.missing, bytes)
      new   == SubSeq(bytes, filed + 1, Len(bytes))
      t     == [s EXCEPT !.got = @ + Len(bytes), !.missing = @ - filed,
                         !.file = @ \o SubSeq(bytes, 1, filed)]
  IN  IF bytes = << >> THEN s
      ELSE IF s.ilen = MaxString - 1 THEN [s EXCEPT !.open = FALSE]
      ELSE IF NL \in ToSet(new) THEN LinesQueued(t, new) ELSE MoreText(t, new)

\* What may be read: it fits, and the rest of a line that is too long is not
\* looked for outside the buffer (socket_citta.c:351).
Readable(s, bytes) ==
  bytes # << >> =>
       /\ s.ilen = MaxString - 1 \/ s.ilen + Len(bytes) < MaxString
       /\ s.ilen > 0 /\ NL \notin ToSet(bytes) => may("THIRD_PART")
       /\ NL \in ToSet(bytes) => Len(Rest(bytes)) <= MaxLine

-----------------------------------------------------------------------------
(***************************************************************************)
(* Commands and replies.                                                   *)
(***************************************************************************)
\* prendi_da_coda and interprete_comandi: one line; FUPL opens a file.
Commanded(s) ==
  IF s.queue = << >> THEN s
  ELSE LET n == Head(s.queue)[1]
       IN  [s EXCEPT !.queue = Tail(@), !.served = Append(@, Head(s.queue)),
                     !.missing = IF script[n].data > 0 THEN script[n].data ELSE @,
                     !.blocks = Append(@, [bytes  |-> Reply(n),
                                           binary |-> script[n].binary])]

\* Slip: a block is taken only when there is room for all of it.
RoomForWhole(block, len) ==
  IF Len(block.bytes) + 1 < MaxString - len THEN MaxString - len - 1 ELSE 0

\* Slip: the NUL after the text may lie outside the buffer.
RoomTooMuch(block, len) == MaxString + 1 - len

\* prendi_da_coda_o: text is followed by a NUL.
Room(block, len) == MaxString - len - (IF block.binary THEN 0 ELSE 1)

\* The loop before the sending: block k comes after the bytes of those before
\* it, as long as there is room for more than the NUL.
Taken(s, k) ==
  LET len  == Len(s.out) + Len(FlattenSeq([j \in 1 .. k - 1 |-> s.blocks[j].bytes]))
      room == IF len < MaxString - 1 THEN Room(s.blocks[k], len) ELSE 0
      all  == Len(s.blocks[k].bytes)
  IN  IF all < room THEN all ELSE room

Filled(s) ==
  LET moved(k) == SubSeq(s.blocks[k].bytes, 1, Taken(s, k))
      left(k)  == SubSeq(s.blocks[k].bytes, Taken(s, k) + 1, Len(s.blocks[k].bytes))
      blocks   == DOMAIN s.blocks
  IN  [s EXCEPT !.out = @ \o FlattenSeq([k \in blocks |-> moved(k)]),
                !.blocks = SelectSeq([k \in blocks |-> [s.blocks[k] EXCEPT !.bytes = left(k)]],
                                     LAMBDA b : b.bytes # << >>)]

\* Slip: what was sent stays in the buffer.
WrittenAgain(s, size) ==
  [s EXCEPT !.sent = @ \o SubSeq(s.out, 1, size),
            !.out = SubSeq(@, 1, Len(@) - size)]

\* scrivi_a_client_iobuf, of which the socket takes size bytes.
Written(s, size) ==
  [s EXCEPT !.sent = @ \o SubSeq(s.out, 1, size),
            !.out = SubSeq(@, size + 1, Len(@))]

\* The -1 of write is stored without a sign: not an error, but one byte more.
WriteFailed(s) == [s EXCEPT !.out = Append(@, Junk)]

-----------------------------------------------------------------------------
(***************************************************************************)
(* A pass of the main loop: what is there is read, one line is served, and *)
(* what fits is sent.                                                      *)
(***************************************************************************)
Step(from, to) ==
  /\ session.open /\ phase = from
  /\ phase' = to
  /\ UNCHANGED << commands, script >>

Input(read) ==
  LET bytes == SubSeq(Stream, session.got + 1, session.got + read)
  IN  /\ Step("INPUT", "COMMAND")
      /\ session.got + read <= Available /\ Readable(session, bytes)
      /\ session' = Elaborated(session, bytes)

Command ==
  /\ Step("COMMAND", "OUTPUT")
  /\ session' = Filled(Commanded(session))

Output(write) ==
  /\ Step("OUTPUT", "INPUT")
  /\ write <= Len(session.out)
  /\ session' = Written(session, write)

\* At most once: a bound of the model.
OutputFails ==
  /\ Step("OUTPUT", "INPUT")
  /\ may("WRITE_ERROR") /\ Len(session.out) \in 1 .. MaxString - 1
  /\ Junk \notin ToSet(session.sent \o session.out)
  /\ session' = WriteFailed(session)

Init ==
  /\ commands \in CommandSets
  /\ script \in Scripts
  /\ session = [got |-> 0, text |-> << >>, ilen |-> 0, open |-> TRUE,
                missing |-> 0, file |-> << >>, queue |-> << >>,
                served |-> << >>, blocks |-> << >>, out |-> << >>,
                sent |-> << >>]
  /\ phase = "INPUT"

Reading == \E read \in 1 .. MaxString : Input(read)
Writing == \E write \in 1 .. MaxString : Output(write)

Next == Input(0) \/ Reading \/ Command \/ Output(0) \/ Writing \/ OutputFails

\* The passes never stop (cittaserver.c:600); what the client sends arrives, and
\* it reads what it is sent.
Fairness == WF_vars(Next) /\ SF_vars(Reading) /\ SF_vars(Writing)

Spec == Init /\ [][Next]_vars /\ Fairness

-----------------------------------------------------------------------------
(***************************************************************************)
(* Properties.                                                             *)
(***************************************************************************)
Bytes == {NL, FileByte, Junk} \cup 1 .. Len(script)

\* Both buffers hold what they can hold at most.
TypeOK ==
  /\ commands \in CommandSets /\ script \in Scripts
  /\ phase \in {"INPUT", "COMMAND", "OUTPUT"}
  /\ session.got \in 0 .. Len(Stream) /\ session.missing \in Nat
  /\ session.open \in BOOLEAN
  /\ \A field \in {"text", "file", "out", "sent"} : session[field] \in Seq(Bytes)
  /\ \A field \in {"queue", "served"} : session[field] \in Seq(Seq(Bytes))
  /\ Len(session.text) < MaxString /\ Len(session.out) <= MaxString

\* The lines whose newline was read.
Complete ==
  { n \in 1 .. Len(script) : Len(Upto(n - 1)) + script[n].len < session.got }
LinesRead == [n \in 1 .. Cardinality(Complete) |-> Cut(Line(n))]

Queued == session.served \o session.queue

\* Each line is queued as soon as it is read to its end, whole, once and in
\* order, and no byte of a file is taken for a command, wherever the pieces
\* begin and end; as long as no line comes in three pieces.
QueuedAsRead == "THIRD_PART" \notin commands => Queued = LinesRead

\* As above, however the lines are cut ("Se l'input non contiene nessun newline
\* esce senza fare nulla", socket_citta.c:321).
QueuedHoweverCut == Queued = LinesRead

\* The files get their bytes, all of them and no others, and what follows is
\* text again (socket_citta.c:302).
FileExact ==
  LET expected == FlattenSeq([k \in DOMAIN session.served |->
                                Data(session.served[k][1])])
  IN  /\ IsPrefix(session.file, expected)
      /\ Len(session.file) + session.missing = Len(expected)

\* Every byte that comes goes, once and in order, to the line or to the file it
\* belongs to.
InputExact == QueuedAsRead /\ FileExact

\* What the client was sent, and what waits in the buffer and the blocks, are
\* the replies to the lines served, in their order: however little the socket
\* takes at a time, and whatever does not fit (coda_testo.c:94); as long as
\* write does not fail.
RepliesInOrder ==
  "WRITE_ERROR" \notin commands =>
    session.sent \o session.out
      \o FlattenSeq([k \in DOMAIN session.blocks |-> session.blocks[k].bytes])
    = FlattenSeq([k \in DOMAIN session.served |-> Reply(session.served[k][1])])

\* The client gets all its replies in the end, also those longer than the
\* buffer, and the session never takes a full buffer for the end.
AllReplies == FlattenSeq([n \in 1 .. Len(script) |-> Reply(n)])
AllAnswered == commands = {} => <>(session.sent = AllReplies)
=============================================================================
