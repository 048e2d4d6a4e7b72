-------------------------- MODULE MessageFileCrash --------------------------
(***************************************************************************)
(* The message file through crashes of the server.  Posts go to the file   *)
(* at once (fm_put writes and closes it), but the description of the file  *)
(* (struct file_msg) and the lists that name posts live in memory, and     *)
(* reach the disk apart: the rooms' lists and then the description when    *)
(* crash_save_perfavore runs (server/src/cittaserver.c), a mailbox, which  *)
(* names posts of the same file, when its owner leaves (mail_save) or, if  *)
(* he is away, with each mail (mail_add).  A restart loads what was saved  *)
(* last of each: nothing rebuilds it from the file, fm_check being empty.  *)
(*                                                                         *)
(* There is one mailbox, whose owner comes and goes; entries is what the   *)
(* rooms and the mailbox remember together.  A mail to the Sysops, which   *)
(* goes to a room (sysop_mail), is a post of that room: the copy that its  *)
(* sender may keep is left out.                                            *)
(***************************************************************************)
EXTENDS MessageFile

CONSTANT MaxCrashes  \* bound of the model: how often the server dies

ASSUME CrashAssumption == MaxCrashes \in Nat

VARIABLES
  mails,     \* those of entries that the mailbox remembers
  fmdata,    \* FILE_MSG_DATA on disk: the description saved last
  msgdata,   \* FILE_MSGDATA<n> on disk: the rooms' lists saved last
  maildata,  \* FILE_MAIL<n> on disk: the mailbox saved last
  saving,    \* the rooms' lists are saved, the description not yet
  torn,      \* a crash fell between the two (for the properties)
  ahead,     \* posts that a restart found in a list on disk, but newer than the
             \* description it found there (for the properties)
  crashes    \* how often the server died (bounds the model)

mailVars == << mails, maildata >>
diskVars == << fmdata, msgdata, saving, torn, crashes >>
crashVars == << vars, mailVars, diskVars, ahead >>

Rooms == entries \ mails

\* Slip: the number given last is not among what is saved.
FmDataNoHighest == [lowest |-> lowest, highest |-> fmdata.highest,
                    posizione |-> posizione, nmsg |-> nmsg, ndel |-> ndel]

\* struct file_msg, as fm_save_data writes it.
FmData == [lowest |-> lowest, highest |-> highest, posizione |-> posizione,
           nmsg |-> nmsg, ndel |-> ndel]

\* room_save_data, inside crash_save_perfavore: no command is served until
\* the whole save is over, the server being single-threaded.
RoomSaveData ==
  /\ ~saving
  /\ msgdata' = Rooms
  /\ saving' = TRUE
  /\ UNCHANGED << vars, mailVars, fmdata, torn, ahead, crashes >>

\* fm_save_data.
FmSaveData ==
  /\ saving
  /\ fmdata' = FmData
  /\ saving' = FALSE
  /\ UNCHANGED << vars, mailVars, msgdata, torn, ahead, crashes >>

\* The owner's session is closed (chiudi_sessione: mail_save).
MailSave ==
  /\ ~saving
  /\ maildata' = mails
  /\ UNCHANGED << vars, mails, diskVars, ahead >>

\* The process dies and is started again: fm_load_data, room_load_data, and
\* mail_load when the owner logs in.
CrashRestart ==
  /\ crashes < MaxCrashes
  /\ crashes' = crashes + 1
  /\ lowest' = fmdata.lowest
  /\ highest' = fmdata.highest
  /\ posizione' = fmdata.posizione
  /\ nmsg' = fmdata.nmsg
  /\ ndel' = fmdata.ndel
  /\ entries' = msgdata \cup maildata
  /\ mails' = maildata
  /\ saving' = FALSE
  /\ torn' = (torn \/ saving)
  /\ ahead' = { e \in msgdata \cup maildata : e \in ahead \/ e.num > fmdata.highest }
  /\ UNCHANGED << size, disk, fmdata, msgdata, maildata >>

\* A post put now: one number is given at a time.
Arrived == entries' \ entries

\* Any command.  What it puts goes to a room or to the mailbox, and what it
\* takes from the lists it takes from the one that has it.  The mailbox of a user
\* who is connected changes in memory; that of one who is away, which is what is
\* on disk, is read, changed and written at once (mail_add).
Serve ==
  /\ ~saving
  /\ Next
  /\ \E got \in {{}, Arrived} : mails' = (mails \cap entries') \cup got
  /\ \/ maildata' = maildata
     \/ maildata = mails /\ maildata' = mails'
  /\ ahead' = ahead \ Arrived
  /\ UNCHANGED diskVars

CrashInit == /\ Init
             /\ fmdata = [lowest |-> 1, highest |-> 0, posizione |-> 0,
                          nmsg |-> 0, ndel |-> 0]
             /\ mails = {} /\ msgdata = {} /\ maildata = {} /\ ahead = {}
             /\ saving = FALSE
             /\ torn = FALSE
             /\ crashes = 0

CrashNext == Serve \/ MailSave \/ RoomSaveData \/ FmSaveData \/ CrashRestart

CrashSpec == CrashInit /\ [][CrashNext]_crashVars

-----------------------------------------------------------------------------
\* Of two posts that are remembered under one number, also when the server fell
\* back to an older description of the file and gives numbers again, one was on
\* disk ahead of that description; and only the mailbox remembers such a post,
\* unless the server fell between the savings of rooms and description.
NumbersNotReused ==
  /\ \A e, f \in entries \ ahead : e.num = f.num => e = f
  /\ ~ torn => ahead \cap Rooms = {}
=============================================================================
