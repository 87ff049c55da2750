------------------------------ MODULE Multipart ------------------------------
(***************************************************************************)
(* Multipart uploads (storage/mod.rs) and their reaper (cleanup.rs).  An   *)
(* upload is a staging directory of its own: upload.json, content_type and *)
(* parts/<n> with parts/<n>.meta.  Its completion writes the object as     *)
(* put_object does, then removes the staging directory.  Tasks overlap at  *)
(* will, with no lock; an action is one filesystem call.  The parent       *)
(* directories of the object are left to ObjectStore.                      *)
(***************************************************************************)
EXTENDS Naturals, FiniteSets, SequencesExt

CONSTANTS
  Uploads,  \* upload ids; each is used by one create_multipart_upload
  Target,   \* [Uploads -> Keys]: the object an upload is for
  Keys, Values,
  Numbers,  \* part numbers
  Tasks,    \* requests and reaper visits: each runs once
  Faults,   \* which of "crash", "disconnect", "write" may happen
  NONE, ABSENT, EMPTY, MANGLED

ASSUME Targets == Target \in [Uploads -> Keys]
ASSUME PartNumbers == Numbers \subseteq Nat /\ IsFiniteSet(Numbers) /\ Numbers # {}
ASSUME UploadFaults == Faults \subseteq {"crash", "disconnect", "write"}
ASSUME UploadMarkers ==
  /\ {NONE, ABSENT, MANGLED} \cap Values = {} /\ NONE # MANGLED
  /\ ABSENT \notin Values \cup Keys \cup {NONE, EMPTY, MANGLED}
  /\ \A none \in {NONE, ABSENT} : none \notin Seq(Values \cup {EMPTY, MANGLED})

VARIABLES
  staging,   \* [Uploads -> the directories that exist]
  file,      \* [Uploads -> [Names -> content of a staged file]]
  object,    \* [Keys -> the sequence of blocks in the data file, or ABSENT]
  meta,      \* [Keys -> the metadata document]
  pc, req, reply,
  cursor,    \* [Tasks -> the file or part it has reached]
  held,      \* [Tasks -> the blocks a completion has read]
  todo,      \* [Tasks -> what remove_dir_all has seen]
  unlinked,  \* tasks that write to a file whose name is gone
  pool,      \* [Tasks -> the last block a completion has given to tokio's pool of
             \* threads: "afloat" till it is on disk, or "failed"; else "clear"]
  born,      \* the uploads that have been begun
  events,    \* the events handed to sync
  acked,     \* history: the bytes last answered Ok for each part
  promised,  \* history: those bytes, for the parts a completion lists
  settled    \* history: what the last completion of each object answered

fs == <<staging, file, object, meta>>
ghosts == <<acked, promised, settled>>
vars == <<fs, pc, req, reply, cursor, held, todo, unlinked, pool, born, events,
          ghosts>>

TOP == <<"top", 0>>
PARTS == <<"parts", 0>>
INFO == <<"upload.json", 0>>
TYPE == <<"content_type", 0>>
Part(n) == <<"part", n>>
PartInfo(n) == <<"part.meta", n>>
Names == {INFO, TYPE} \cup ({"part", "part.meta"} \X Numbers)
In(e) == IF e[1] \in {"part", "part.meta"} THEN PARTS ELSE TOP

Block == Values \cup {EMPTY, MANGLED}
Describes(blocks) == [of |-> blocks]

Lists == UNION {[1..n -> Numbers] : n \in 1..Cardinality(Numbers)}
Ask(kinds, ns, bodies, lists) ==
  [kind : kinds, upload : Uploads, number : ns, body : bodies, parts : lists]
Asks == Ask({"create", "abort", "reap"}, {0}, {NONE}, {<<>>})
          \cup Ask({"upload"}, Numbers, Values, {<<>>})
          \cup Ask({"complete"}, {0}, {NONE}, Lists)
NoAsk == [kind |-> "reap", upload |-> NONE, number |-> 0, body |-> NONE, parts |-> <<>>]

KeyOf(r) == Target[req[r].upload]
InFlight(r) == pc[r] \notin {"idle", "done", "lost"}
Go(r, p) == pc' = [pc EXCEPT ![r] = p]

Answer(r, code, blocks) ==
  /\ pc' = [pc EXCEPT ![r] = "done"]
  /\ reply' = [reply EXCEPT ![r] = [code |-> code, blocks |-> blocks]]
Fail(r, code) == Answer(r, code, <<>>)

-----------------------------------------------------------------------------
Within(u) == staging[u] \cup {n \in Names : file[u][n] # ABSENT}
Inside(u, d) == {e \in Within(u) \ {TOP} : In(e) = d}

(* What a write leaves in a file that another task may have opened too.    *)
Mixed(new, old) == IF old \in {EMPTY, new} THEN {new} ELSE {new, MANGLED}

(* The same for a block written after the blocks a task wrote before.      *)
Appended(before, block, old) ==
  LET whole == Append(before, block) IN
  IF old = before THEN {whole}
  ELSE IF IsPrefix(whole, old) THEN {old}
  ELSE IF IsPrefix(old, before) THEN {<<MANGLED>>}
  ELSE {whole, <<MANGLED>>}

(* The files a task writes to the staging directory, in order.             *)
Staged(q) == IF q.kind = "create" THEN <<INFO, TYPE>>
             ELSE <<Part(q.number), PartInfo(q.number)>>
FileOf(r) == Staged(req[r])[cursor[r]]
Bytes(r) == CASE FileOf(r) = INFO -> KeyOf(r)
              [] FileOf(r) = TYPE -> NONE
              [] OTHER -> req[r].body

(* No upload begun, or some with parts stored; no request was interrupted. *)
Init ==
  /\ \E B \in SUBSET Uploads, p \in [Uploads \X Numbers -> Values \cup {ABSENT}] :
        /\ \A u \in Uploads \ B, n \in Numbers : p[<<u, n>>] = ABSENT
        /\ born = B
        /\ staging = [u \in Uploads |-> IF u \in B THEN {TOP, PARTS} ELSE {}]
        /\ file = [u \in Uploads |-> [e \in Names |->
                     IF u \notin B THEN ABSENT
                     ELSE CASE e = INFO -> Target[u]
                            [] e = TYPE -> NONE
                            [] OTHER -> p[<<u, e[2]>>]]]
        /\ acked = [x \in Uploads \X Numbers |-> IF p[x] = ABSENT THEN NONE ELSE p[x]]
  /\ \E o \in [Keys -> {<<v>> : v \in Values} \cup {ABSENT}] :
        /\ object = o
        /\ meta = [k \in Keys |-> IF o[k] = ABSENT THEN ABSENT ELSE Describes(o[k])]
        /\ settled = o
  /\ pc = [r \in Tasks |-> "idle"]
  /\ req = [r \in Tasks |-> NoAsk]
  /\ reply = [r \in Tasks |-> [code |-> "", blocks |-> <<>>]]
  /\ cursor = [r \in Tasks |-> 1]
  /\ held = [r \in Tasks |-> <<>>]
  /\ todo = [r \in Tasks |-> {}]
  /\ unlinked = {}
  /\ pool = [r \in Tasks |-> "clear"]
  /\ events = <<>>
  /\ promised = [r \in Tasks |-> <<>>]

Entry(kind) ==
  CASE kind = "create" -> "mk_staging" [] kind = "upload" -> "open"
    [] kind = "abort" -> "rm" [] OTHER -> "read_info"

(* A handler begins; mp_dir.exists() is a synchronous call.  An id that    *)
(* was never listed nor answered is not asked about, except by the reaper. *)
Start(r) ==
  /\ pc[r] = "idle"
  /\ \E q \in Asks :
        LET u == q.upload
            part == <<u, q.number>>
            peers == {s \in Tasks : InFlight(s) /\ req[s].kind = "upload"
                                      /\ <<req[s].upload, req[s].number>> = part}
        IN
        /\ q.kind = "create" => /\ u \notin born
                                /\ \A s \in Tasks : req[s].kind = "create" => req[s].upload # u
        /\ q.kind \in {"upload", "complete", "abort"} => u \in born
        /\ req' = [req EXCEPT ![r] = q]
        /\ IF TOP \notin staging[u] /\ q.kind # "create"
           THEN Fail(r, "NoSuchUpload") /\ UNCHANGED <<todo, acked, promised>>
           ELSE /\ Go(r, Entry(q.kind))
                /\ todo' = [todo EXCEPT ![r] = IF q.kind = "abort" THEN Within(u) ELSE {}]
                /\ acked' = IF q.kind # "upload" THEN acked
                            ELSE [acked EXCEPT ![part] = IF peers = {} THEN NONE ELSE MANGLED]
                /\ promised' = [s \in Tasks |->
                     IF s = r THEN [i \in DOMAIN q.parts |-> acked[<<u, q.parts[i]>>]]
                     ELSE [i \in DOMAIN promised[s] |->
                             IF /\ InFlight(s) /\ q.kind = "upload"
                                /\ <<req[s].upload, req[s].parts[i]>> = part
                             THEN NONE ELSE promised[s][i]]]
                /\ UNCHANGED reply
  /\ UNCHANGED <<fs, cursor, held, unlinked, pool, born, events, settled>>

-----------------------------------------------------------------------------
(* create_multipart_upload and upload_part: two fs::write each.            *)

MakeStaging(r) ==
  /\ pc[r] = "mk_staging"
  /\ staging' = [staging EXCEPT ![req[r].upload] = {TOP, PARTS}]
  /\ Go(r, "open")
  /\ UNCHANGED <<file, object, meta, req, reply, cursor, held, todo, unlinked, pool, born, events,
                 ghosts>>

(* Mutant: the directory is made when it is not there.                     *)
OpenAnyway(r) ==
  /\ pc[r] = "open"
  /\ staging' = [staging EXCEPT ![req[r].upload] = {TOP, PARTS}]
  /\ file' = [file EXCEPT ![req[r].upload][FileOf(r)] = EMPTY]
  /\ Go(r, "write")
  /\ UNCHANGED <<object, meta, req, reply, cursor, held, todo, unlinked, pool, born, events, ghosts>>

(* The content type is written with .ok(): its failure is ignored.         *)
GiveUp(r) == IF FileOf(r) = TYPE THEN Answer(r, "Ok", <<>>) ELSE Fail(r, "InternalError")

Open(r) ==
  /\ pc[r] = "open"
  /\ IF In(FileOf(r)) \in staging[req[r].upload]
     THEN /\ file' = [file EXCEPT ![req[r].upload][FileOf(r)] = EMPTY]
          /\ Go(r, "write")
          /\ UNCHANGED reply
     ELSE GiveUp(r) /\ UNCHANGED file
  /\ UNCHANGED <<staging, object, meta, req, cursor, held, todo, unlinked, pool, born, events, ghosts>>

Write(r) ==
  /\ pc[r] = "write"
  /\ LET u == req[r].upload IN
       /\ \/ r \in unlinked /\ UNCHANGED file
          \/ /\ r \notin unlinked
             /\ \E c \in Mixed(Bytes(r), file[u][FileOf(r)]) :
                   file' = [file EXCEPT ![u][FileOf(r)] = c]
       /\ born' = born \cup {u}
       /\ \/ /\ cursor[r] = 1
             /\ cursor' = [cursor EXCEPT ![r] = 2]
             /\ Go(r, "open")
             /\ UNCHANGED <<reply, acked>>
          \/ /\ cursor[r] = 2
             /\ Answer(r, "Ok", <<>>)
             /\ acked' = IF req[r].kind = "upload" /\ acked[<<u, req[r].number>>] = NONE
                         THEN [acked EXCEPT ![<<u, req[r].number>>] = req[r].body] ELSE acked
             /\ UNCHANGED cursor
  /\ unlinked' = unlinked \ {r}
  /\ UNCHANGED <<staging, object, meta, req, held, todo, pool, events, promised, settled>>

-----------------------------------------------------------------------------
(* complete_multipart_upload, and the reaper's look at upload.json.        *)

Ascending(parts) == \A i \in 1..(Len(parts) - 1) : parts[i] < parts[i + 1]

(* Mutant: the object is truncated before the order of the parts is checked. *)
ReadInfoTruncating(r) ==
  /\ pc[r] = "read_info" /\ file[req[r].upload][INFO] \in Keys
  /\ \/ /\ req[r].kind = "reap"
        /\ Go(r, "rm")
        /\ todo' = [todo EXCEPT ![r] = Within(req[r].upload)]
        /\ UNCHANGED <<object, reply>>
     \/ /\ req[r].kind = "complete"
        /\ object' = [object EXCEPT ![KeyOf(r)] = <<>>]
        /\ IF Ascending(req[r].parts) THEN Go(r, "open_object") /\ UNCHANGED reply
           ELSE Fail(r, "InvalidPartOrder")
        /\ UNCHANGED todo
  /\ UNCHANGED <<staging, file, meta, req, cursor, held, unlinked, pool, born, events, ghosts>>

(* The order of the parts is checked right after the read.                 *)
ReadInfo(r) ==
  /\ pc[r] = "read_info"
  /\ LET u == req[r].upload
         known == file[u][INFO] \in Keys
     IN \/ /\ req[r].kind = "reap" /\ known
           /\ Go(r, "rm")
           /\ todo' = [todo EXCEPT ![r] = Within(u)]
           /\ UNCHANGED reply
        \/ /\ req[r].kind = "complete" /\ known /\ Ascending(req[r].parts)
           /\ Go(r, "open_object")
           /\ UNCHANGED <<reply, todo>>
        \/ /\ req[r].kind = "complete" /\ known /\ ~Ascending(req[r].parts)
           /\ Fail(r, "InvalidPartOrder") /\ UNCHANGED todo
        \/ /\ ~known
           /\ Fail(r, IF req[r].kind = "reap" THEN "Ok" ELSE "InternalError")
           /\ UNCHANGED todo
  /\ UNCHANGED <<fs, req, cursor, held, unlinked, pool, born, events, ghosts>>

(* A completion that was refused writes on while its last block is afloat.  *)
Writing(r) ==
  \/ pool[r] = "afloat"
  \/ /\ pc[r] \in {"check_part", "read_part", "append", "open_meta", "write_meta", "rm", "emit"}
     /\ req[r].kind = "complete"

OpenObject(r) ==
  /\ pc[r] = "open_object"
  /\ object' = [object EXCEPT ![KeyOf(r)] = <<>>]
  /\ settled' = [settled EXCEPT ![KeyOf(r)] =
       IF \E s \in Tasks : Writing(s) /\ KeyOf(s) = KeyOf(r) THEN MANGLED ELSE NONE]
  /\ Go(r, "check_part")
  /\ UNCHANGED <<staging, file, meta, req, reply, cursor, held, todo, unlinked, pool, born, events,
                 acked, promised>>

PartHere(r) == Part(req[r].parts[cursor[r]])

(* The file waits for the block before, and then tells whether it failed.  *)
Settle(r, p) ==
  /\ pool[r] # "afloat"
  /\ IF pool[r] = "failed" THEN Fail(r, "InternalError") ELSE Go(r, p) /\ UNCHANGED reply

(* Mutant: the object ends at the first part that is not there.            *)
CheckPartLeniently(r) ==
  /\ pc[r] = "check_part"
  /\ IF cursor[r] <= Len(req[r].parts) /\ file[req[r].upload][PartHere(r)] # ABSENT
     THEN Go(r, "read_part") /\ UNCHANGED reply ELSE Settle(r, "open_meta")
  /\ UNCHANGED <<fs, req, cursor, held, todo, unlinked, pool, born, events, ghosts>>

(* Mutant: the metadata is written without a flush of the object.          *)
CheckPartUnflushed(r) ==
  /\ pc[r] = "check_part"
  /\ \/ /\ cursor[r] > Len(req[r].parts)
        /\ Go(r, "open_meta")
        /\ UNCHANGED reply
     \/ /\ cursor[r] <= Len(req[r].parts)
        /\ IF file[req[r].upload][PartHere(r)] = ABSENT
           THEN Fail(r, "InvalidPart") ELSE Go(r, "read_part") /\ UNCHANGED reply
  /\ UNCHANGED <<fs, req, cursor, held, todo, unlinked, pool, born, events, ghosts>>

(* The head of the loop; after the last part the file is flushed and the   *)
(* metadata is written.                                                    *)
CheckPart(r) ==
  /\ pc[r] = "check_part"
  /\ \/ cursor[r] > Len(req[r].parts) /\ Settle(r, "open_meta")
     \/ /\ cursor[r] <= Len(req[r].parts)
        /\ IF file[req[r].upload][PartHere(r)] = ABSENT
           THEN Fail(r, "InvalidPart") ELSE Go(r, "read_part") /\ UNCHANGED reply
  /\ UNCHANGED <<fs, req, cursor, held, todo, unlinked, pool, born, events, ghosts>>

(* A part that is being written may be read in part.                       *)
ReadPart(r) ==
  /\ pc[r] = "read_part"
  /\ LET u == req[r].upload
         torn == {MANGLED : s \in {x \in Tasks \ unlinked : /\ pc[x] = "write"
                                                            /\ req[x].upload = u
                                                            /\ FileOf(x) = PartHere(r)}}
     IN IF file[u][PartHere(r)] = ABSENT
        THEN Fail(r, "InternalError") /\ UNCHANGED held
        ELSE /\ \E c \in {file[u][PartHere(r)]} \cup torn : held' = [held EXCEPT ![r] = Append(@, c)]
             /\ Go(r, "append")
             /\ UNCHANGED reply
  /\ UNCHANGED <<fs, req, cursor, todo, unlinked, pool, born, events, ghosts>>

(* write_all hands the block over and does not wait until it is on disk.   *)
AppendBlock(r) ==
  /\ pc[r] = "append"
  /\ Settle(r, "check_part")
  /\ \/ /\ pool[r] = "clear"
        /\ pool' = [pool EXCEPT ![r] = "afloat"]
        /\ cursor' = [cursor EXCEPT ![r] = @ + 1]
     \/ pool[r] = "failed" /\ UNCHANGED <<pool, cursor>>
  /\ UNCHANGED <<fs, req, held, todo, unlinked, born, events, ghosts>>

(* What a completion has handed over, the block that is afloat being last. *)
Handed(r) == SubSeq(held[r], 1, cursor[r] - 1)

(* The block reaches the file, whatever has become of the handler.         *)
Land(r) ==
  /\ pool[r] = "afloat"
  /\ pool' = [pool EXCEPT ![r] = "clear"]
  /\ \E c \in Appended(Front(Handed(r)), Last(Handed(r)), object[KeyOf(r)]) :
        object' = [object EXCEPT ![KeyOf(r)] = c]
  /\ UNCHANGED <<staging, file, meta, pc, req, reply, cursor, held, todo, unlinked, born, events,
                 ghosts>>

OpenMeta(r) ==
  /\ pc[r] = "open_meta"
  /\ meta' = [meta EXCEPT ![KeyOf(r)] = EMPTY]
  /\ Go(r, "write_meta")
  /\ UNCHANGED <<staging, file, object, req, reply, cursor, held, todo, unlinked, pool, born, events,
                 ghosts>>

WriteMeta(r) ==
  /\ pc[r] = "write_meta"
  /\ \E c \in Mixed(Describes(held[r]), meta[KeyOf(r)]) : meta' = [meta EXCEPT ![KeyOf(r)] = c]
  /\ todo' = [todo EXCEPT ![r] = Within(req[r].upload)]
  /\ Go(r, "rm")
  /\ UNCHANGED <<staging, file, object, req, reply, cursor, held, unlinked, pool, born, events, ghosts>>

Emit(r) ==
  /\ pc[r] = "emit"
  /\ events' = Append(events, KeyOf(r))
  /\ settled' = [settled EXCEPT ![KeyOf(r)] = IF @ = NONE THEN held[r] ELSE @]
  /\ Answer(r, "Ok", held[r])
  /\ UNCHANGED <<fs, req, cursor, held, todo, unlinked, pool, born, acked, promised>>

-----------------------------------------------------------------------------
(* remove_dir_all of the staging directory, by abort, the reaper and, with *)
(* .ok(), completion: every entry it has seen, a directory after what it   *)
(* holds.  An entry made meanwhile is seen or it is not.                   *)

Removed(r, ok) ==
  CASE req[r].kind = "complete" -> Go(r, "emit") /\ UNCHANGED reply
    [] req[r].kind = "abort" -> Fail(r, IF ok THEN "Ok" ELSE "InternalError")
    [] OTHER -> Fail(r, "Ok")

NoticeEntry(r) ==
  /\ pc[r] = "rm"
  /\ \E e \in Within(req[r].upload) \ todo[r] :
        /\ In(e) \in todo[r]
        /\ todo' = [todo EXCEPT ![r] = @ \cup {e}]
  /\ UNCHANGED <<fs, pc, req, reply, cursor, held, unlinked, pool, born, events, ghosts>>

(* Mutant: a directory is removed with what it holds.                      *)
RemoveDirsOnly(r) ==
  /\ pc[r] = "rm"
  /\ LET u == req[r].upload IN
     \E e \in (Within(u) \cap todo[r]) \cap {TOP, PARTS} :
        staging' = [staging EXCEPT ![u] = @ \ {e}]
  /\ UNCHANGED <<file, object, meta, pc, req, reply, cursor, held, todo, unlinked, pool, born, events,
                 ghosts>>

RemoveEntry(r) ==
  /\ pc[r] = "rm"
  /\ LET u == req[r].upload IN
     \E e \in (Within(u) \cap todo[r]) \ {TOP} :
        /\ \/ /\ e = PARTS /\ Inside(u, PARTS) = {}
              /\ staging' = [staging EXCEPT ![u] = @ \ {PARTS}]
              /\ UNCHANGED <<file, unlinked>>
           \/ /\ e \in Names
              /\ file' = [file EXCEPT ![u][e] = ABSENT]
              /\ unlinked' = unlinked \cup
                   {s \in Tasks : pc[s] = "write" /\ req[s].upload = u /\ FileOf(s) = e}
              /\ UNCHANGED staging
        /\ todo' = [todo EXCEPT ![r] = @ \ {e}]
  /\ UNCHANGED <<object, meta, pc, req, reply, cursor, held, pool, born, events, ghosts>>

RemoveTop(r) ==
  /\ pc[r] = "rm"
  /\ LET u == req[r].upload IN
       \/ /\ Within(u) = {TOP}
          /\ staging' = [staging EXCEPT ![u] = {}]
          /\ Removed(r, TRUE)
       \/ /\ \/ TOP \notin staging[u]
             \/ \E d \in todo[r] \cap staging[u] : /\ Inside(u, d) # {}
                                                   /\ Inside(u, d) \cap todo[r] = {}
          /\ Removed(r, FALSE)
          /\ UNCHANGED staging
  /\ todo' = [todo EXCEPT ![r] = {}]
  /\ UNCHANGED <<file, object, meta, req, cursor, held, unlinked, pool, born, events, ghosts>>

-----------------------------------------------------------------------------
(* Faults, as in ObjectStore.                                              *)

(* The files after the writes under way of the tasks in S went half way.   *)
Torn(S) ==
  /\ file' = [u \in Uploads |-> [n \in Names |->
       IF \E r \in S : pc[r] = "write" /\ req[r].upload = u /\ FileOf(r) = n
       THEN MANGLED ELSE file[u][n]]]
  /\ object' = [k \in Keys |->
       IF \E r \in S : pool[r] = "afloat" /\ KeyOf(r) = k THEN <<MANGLED>> ELSE object[k]]
  /\ meta' = [k \in Keys |->
       IF \E r \in S : pc[r] = "write_meta" /\ KeyOf(r) = k THEN MANGLED ELSE meta[k]]

WriteError(r) ==
  /\ "write" \in Faults
  /\ pc[r] \in {"mk_staging", "open", "write", "open_object", "open_meta", "write_meta"}
  /\ \/ UNCHANGED <<file, object, meta>>
     \/ pc[r] \in {"write", "write_meta"} /\ r \notin unlinked /\ Torn({r})
  /\ IF pc[r] \in {"open", "write"} THEN GiveUp(r) ELSE Fail(r, "InternalError")
  /\ unlinked' = unlinked \ {r}
  /\ UNCHANGED <<staging, req, cursor, held, todo, pool, born, events, ghosts>>

(* A block that does not reach the file; the next use of the file tells.   *)
LandFails(r) ==
  /\ "write" \in Faults
  /\ pool[r] = "afloat"
  /\ UNCHANGED <<file, object, meta>> \/ Torn({r})
  /\ pool' = [pool EXCEPT ![r] = "failed"]
  /\ UNCHANGED <<staging, pc, req, reply, cursor, held, todo, unlinked, born, events, ghosts>>

(* The call under way is not cut off with the handler: a client that goes  *)
(* away counts as in flight until it has ended.                            *)
Abandon(r) ==
  /\ "disconnect" \in Faults
  /\ InFlight(r) /\ req[r].kind # "reap"
  /\ pc[r] \notin {"write", "write_meta", "rm"}
  /\ Go(r, "lost")
  /\ UNCHANGED <<fs, req, reply, cursor, held, todo, unlinked, pool, born, events, ghosts>>

Crash ==
  /\ "crash" \in Faults
  /\ \E r \in Tasks : InFlight(r) \/ pool[r] = "afloat"
  /\ \E S \in SUBSET {r \in Tasks \ unlinked : pc[r] \in {"write", "write_meta"}
                                                  \/ pool[r] = "afloat"} :
        Torn(S)
  /\ pc' = [r \in Tasks |-> IF InFlight(r) THEN "lost" ELSE pc[r]]
  /\ unlinked' = {}
  /\ pool' = [r \in Tasks |-> "clear"]
  /\ UNCHANGED <<staging, req, reply, cursor, held, todo, born, events, ghosts>>

Step(r) ==
  \/ MakeStaging(r) \/ Open(r) \/ Write(r)
  \/ ReadInfo(r) \/ OpenObject(r) \/ CheckPart(r) \/ ReadPart(r) \/ AppendBlock(r)
  \/ OpenMeta(r) \/ WriteMeta(r) \/ Emit(r)
  \/ NoticeEntry(r) \/ RemoveEntry(r) \/ RemoveTop(r)

Next ==
  \/ Crash
  \/ \E r \in Tasks : Start(r) \/ Step(r) \/ Land(r)
                         \/ WriteError(r) \/ LandFails(r) \/ Abandon(r)

Spec == Init /\ [][Next]_vars


-----------------------------------------------------------------------------
PCs == {"idle", "mk_staging", "open", "write", "read_info", "open_object", "check_part",
        "read_part", "append", "open_meta", "write_meta", "rm", "emit", "done", "lost"}
Codes == {"", "Ok", "NoSuchUpload", "InvalidPart", "InvalidPartOrder", "InternalError"}

(* Types; what a staging directory holds, it holds in a directory.         *)
MultipartTypeOK ==
  /\ staging \in [Uploads -> SUBSET {TOP, PARTS}]
  /\ \A u \in Uploads :
        /\ DOMAIN file[u] = Names
        /\ file[u][INFO] \in {Target[u], ABSENT, EMPTY, MANGLED}
        /\ file[u][TYPE] \in {NONE, ABSENT, EMPTY, MANGLED}
        /\ \A n \in Numbers :
             {file[u][Part(n)], file[u][PartInfo(n)]} \subseteq Block \cup {ABSENT}
        /\ \A e \in Within(u) \ {TOP} : In(e) \in staging[u]
  /\ \A k \in Keys :
        /\ object[k] = ABSENT \/ object[k] \in Seq(Block)
        /\ \/ meta[k] \in {ABSENT, EMPTY, MANGLED}
           \/ DOMAIN meta[k] = {"of"} /\ meta[k].of \in Seq(Block)
        /\ settled[k] \in {NONE, ABSENT, MANGLED} \/ settled[k] \in Seq(Block)
  /\ pc \in [Tasks -> PCs]
  /\ req \in [Tasks -> Asks \cup {NoAsk}]
  /\ \A r \in Tasks : reply[r].code \in Codes /\ reply[r].blocks \in Seq(Block)
  /\ cursor \in [Tasks -> 1..(Cardinality(Numbers) + 1)]
  /\ held \in [Tasks -> Seq(Block)]
  /\ todo \in [Tasks -> SUBSET (Names \cup {TOP, PARTS})]
  /\ unlinked \subseteq Tasks /\ born \subseteq Uploads
  /\ pool \in [Tasks -> {"clear", "afloat", "failed"}]
  /\ events \in Seq(Keys)
  /\ acked \in [Uploads \X Numbers -> Values \cup {NONE, MANGLED}]
  /\ promised \in [Tasks -> Seq(Values \cup {NONE, MANGLED})]

(* A completion that answers Ok has read exactly the parts it was asked    *)
(* for, and of each the bytes last answered Ok (unless that part was being *)
(* uploaded), however aborts, the reaper and other completions took the    *)
(* staging directory away under it.                                        *)
Assembled ==
  \A r \in Tasks :
    req[r].kind = "complete" /\ reply[r].code = "Ok" =>
      /\ Len(reply[r].blocks) = Len(req[r].parts)
      /\ \A i \in DOMAIN promised[r] :
           promised[r][i] \in Values => reply[r].blocks[i] = promised[r][i]

(* Until another completion opens it, an object is what the last one       *)
(* answered, and its metadata describes it, if none overlapped with it: no *)
(* request that is refused before that, no abort, no lost or failing       *)
(* upload and no reaper touches it.  A completion overlaps from the moment *)
(* it opens the object until its last block is on disk: one that is refused*)
(* for a part that is not there answers before that.                       *)
AnsweredObjectStays ==
  \A k \in Keys :
    settled[k] \notin {NONE, MANGLED} =>
      /\ object[k] = settled[k]
      /\ meta[k] = IF settled[k] = ABSENT THEN ABSENT ELSE Describes(settled[k])

(* A completion refused or cut short, perhaps once it had opened the object. *)
CutShort(r) ==
  /\ req[r].kind = "complete"
  /\ pc[r] = "lost" \/ reply[r].code \in {"InvalidPart", "InternalError"}

(* If the metadata of an object describes other bytes than it holds, some  *)
(* completion is still writing it, or one of them was refused or cut short *)
(* on its way, or two overlapped: aborts, the reaper, uploads of parts and *)
(* refusals before the object is opened never are the cause.               *)
DamageExplained ==
  \A k \in Keys :
    object[k] # ABSENT /\ meta[k] # ABSENT /\ meta[k] # Describes(object[k]) =>
      \/ settled[k] = MANGLED
      \/ \E r \in Tasks : (Writing(r) \/ CutShort(r)) /\ KeyOf(r) = k

(* After an abort was answered Ok nothing of the upload is left, for good: *)
(* a part that was on its way cannot bring it back.                        *)
AbortedIsGone ==
  \A r \in Tasks :
    req[r].kind = "abort" /\ reply[r].code = "Ok" => Within(req[r].upload) = {}

(* README.md: "ETag -- MD5 hash of object (quoted), or md5-N for multipart".*)
(* When nothing is in flight the document beside an object describes it.     *)
ETagOfCompleted ==
  (\A r \in Tasks : ~InFlight(r)) =>
    \A k \in Keys : object[k] # ABSENT /\ meta[k] # ABSENT => meta[k] = Describes(object[k])
=============================================================================
