----------------------------- MODULE PostCache -----------------------------
(***************************************************************************)
(* The cache of posts in front of the message file (server/src/            *)
(* cache_post.c, share/cache.c, share/hash.c).  Posts are kept in memory   *)
(* by their numbers: in a queue, the post used last at its end, and in a   *)
(* hash table that finds the block of a number.  Nobody takes a post out   *)
(* of the cache when it is deleted, overwritten or forgotten               *)
(* (cache_remove is empty).  There is one message file; how numbers are    *)
(* hashed is left out.                                                     *)
(***************************************************************************)
EXTENDS MessageFileCrash, SequencesExt

CONSTANTS
  CacheSize, \* POST_CACHE_SIZE
  Says       \* bound of the model: what posts say, by how often the server died
             \* before: one server never gives a number twice

ASSUME CacheAssumption == /\ CacheSize \in Nat \ {0}
                          /\ Says \in [0 .. MaxCrashes -> Texts]

VARIABLE cache  \* post_cache: the queue of blocks, each with whether the hash
                \* table has it under its number; and the numbers under which
                \* the table has a block that was freed

cacheVars == << crashVars, cache >>

EmptyCache == [queue |-> << >>, freed |-> {}]

\* The block that the hash table has under a number, if it has one.
InTable(c, num) == { i \in DOMAIN c.queue : c.queue[i].num = num /\ c.queue[i].found }
BlockOf(c, num) == c.queue[CHOOSE i \in InTable(c, num) : TRUE]

-----------------------------------------------------------------------------
(***************************************************************************)
(* share/cache.c, share/hash.c.                                            *)
(***************************************************************************)
\* cache_find: the block goes to the end of the queue.
Used(c, num) ==
  IF InTable(c, num) = {} THEN c
  ELSE LET i == CHOOSE k \in InTable(c, num) : TRUE
       IN  [c EXCEPT !.queue = Append(RemoveAt(@, i), @[i])]

\* Slip: the table keeps the block that is freed.
EvictedStill(c) ==
  [queue |-> Tail(c.queue),
   freed |-> c.freed \cup IF Head(c.queue).found THEN {Head(c.queue).num} ELSE {}]

\* cache_insert into a full cache: the block used least recently is freed, and
\* the table forgets its number, whichever block it has under it (hash_remove).
Evicted(c) ==
  LET num == Head(c.queue).num
      out == { k \in 2 .. Len(c.queue) : c.queue[k].num = num }
  IN  [queue |-> [k \in 1 .. Len(c.queue) - 1 |->
                    IF k + 1 \in out THEN [c.queue[k + 1] EXCEPT !.found = FALSE]
                                     ELSE c.queue[k + 1]],
       freed |-> IF Head(c.queue).found \/ \E k \in out : c.queue[k].found
                 THEN c.freed ELSE c.freed \ {num}]

\* cache_insert.  hash_insert refuses a number that the table has already.
Inserted(c, num, pos, text) ==
  LET d == IF Len(c.queue) < CacheSize THEN c ELSE Evicted(c)
  IN  [d EXCEPT !.queue =
         Append(@, [num |-> num, pos |-> pos, text |-> text,
                    found |-> InTable(d, num) = {} /\ num \notin d.freed])]

-----------------------------------------------------------------------------
(***************************************************************************)
(* server/src/cache_post.c.                                                *)
(***************************************************************************)
\* What is found under a number at a position.  FREED is memory that was given
\* back.
Lookup(c, num, pos) ==
  CASE num \in c.freed                                          -> "FREED"
    [] InTable(c, num) # {} /\ BlockOf(c, num).pos = pos        -> "HIT"
    [] OTHER                                                    -> "MISS"

\* cp_put.
CpPut(c, num, pos, text) ==
  IF Lookup(c, num, pos) = "MISS" THEN Inserted(Used(c, num), num, pos, text)
                                  ELSE Used(c, num)

\* The answer of cp_get: from the cache, or of fm_get.
CpGet(num, pos) ==
  CASE Lookup(cache, num, pos) = "HIT" ->
         [err |-> "OK", text |-> BlockOf(cache, num).text]
    [] Lookup(cache, num, pos) = "FREED" -> [err |-> "FREED", text |-> NoText]
    [] OTHER ->
         [err  |-> Get(num, pos),
          text |-> IF Get(num, pos) = "OK" THEN At(pos).text ELSE NoText]

\* cp_get for a post some list remembers (msg_send, http_send_post).
Read(e) ==
  /\ ~ saving
  /\ LET answer == CpGet(e.num, e.pos)
     IN  cache' = IF answer.err = "OK" THEN CpPut(cache, e.num, e.pos, answer.text)
                                       ELSE Used(cache, e.num)
  /\ UNCHANGED crashVars

\* The other commands.  save_post puts its post in the cache; notices and mails
\* of the system are not put there.
Others ==
  /\ Serve
  /\ \A e \in entries' \ entries : e.text = Says[crashes]
  /\ cache' \in {cache} \cup { CpPut(cache, e.num, e.pos, e.text) : e \in entries' \ entries }

CacheInit == CrashInit /\ cache = EmptyCache

CacheNext ==
  \/ \E e \in entries : Read(e)
  \/ Others
  \/ (MailSave \/ RoomSaveData \/ FmSaveData) /\ UNCHANGED cache
  \/ CrashRestart /\ cache' = EmptyCache

CacheSpec == CacheInit /\ [][CacheNext]_cacheVars

-----------------------------------------------------------------------------
(***************************************************************************)
(* Properties.                                                             *)
(***************************************************************************)
\* The types; a number is in the table once.
CacheTypeOK ==
  /\ Len(cache.queue) <= CacheSize
  /\ \A i \in DOMAIN cache.queue : cache.queue[i].num \in 1 .. MaxNum
  /\ \A num \in 1 .. MaxNum :
       Cardinality(InTable(cache, num)) + (IF num \in cache.freed THEN 1 ELSE 0) <= 1

\* Whatever the file, the lists and the cache went through, who asks for a post
\* gets the text that was written under that number, or an error, and never
\* memory that was freed or the post half overwritten; all but the freed memory
\* is said of the posts that were not on disk ahead of the description that a
\* crash left.
CachedOwn ==
  \A e \in entries :
    LET answer == CpGet(e.num, e.pos)
    IN  /\ answer.err # "FREED"
        /\ e \notin ahead => /\ answer.err # "CHKSUM"
                             /\ answer.err = "OK" => answer.text = e.text

\* "Verifica se e' gia' nella cache, se non lo trova lo legge dal file messaggi con
\* fm_get()" (cp_get): the cache answers as the file would.
AnswersAsFile ==
  \A e \in entries : CpGet(e.num, e.pos).err = Get(e.num, e.pos)
=============================================================================
