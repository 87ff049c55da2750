----------------------------- MODULE ObjectStore -----------------------------
(***************************************************************************)
(* The filesystem backend of miniminio (storage/mod.rs) and the orphan     *)
(* sweep (storage/cleanup.rs).  Requests run concurrently, with no lock;   *)
(* an action is the code between two points at which another task may      *)
(* touch the data directory, that is one filesystem call.                  *)
(*                                                                         *)
(* An object is two files, its data and its metadata document, in two      *)
(* trees under the bucket: <bucket>/<key> and                              *)
(* <bucket>/.miniminio/<key>.meta.                                         *)
(***************************************************************************)
EXTENDS S3Requests, Naturals, Sequences

CONSTANTS
  Dirs,        \* the directories that keys with a "/" imply
  ROOT,        \* the top directory of a tree
  Parent,      \* [Keys \cup Dirs -> Dirs \cup {ROOT}]: the directory of a path
  Above,       \* [Keys \cup Dirs -> SUBSET Dirs]: every directory on the path
  Trimmed,     \* [Keys -> Keys]: the key that trim_end_matches(".meta") leaves
  Requests,    \* one task each: a request is made once and runs to its end
  Faults,      \* which of "crash", "disconnect", "write", "unlink" may happen
  ABSENT,      \* no such file
  EMPTY,       \* a file of length zero
  MANGLED      \* bytes no single write wrote: a prefix, or a mix of two writes

(* The directories on the way from ROOT to a path: ROOT and each of them   *)
(* is the parent of the next.                                              *)
PathAssumption ==
  /\ Parent \in [Keys \cup Dirs -> Dirs \cup {ROOT}]
  /\ Above \in [Keys \cup Dirs -> SUBSET Dirs]
  /\ Trimmed \in [Keys -> Keys]
  /\ {ROOT, NONE} \cap (Keys \cup Dirs) = {} /\ ROOT # NONE
  /\ Keys \cap Dirs = {}
  /\ \A p \in Keys \cup Dirs :
        /\ Parent[p] \in Above[p] \cup {ROOT}
        /\ p \notin Above[p]
        /\ \A d \in Above[p] : Above[d] \subseteq Above[p]
        /\ \A d \in Above[p] \cup {ROOT} : \E c \in Above[p] \cup {p} : Parent[c] = d
        /\ Above[p] = IF Parent[p] = ROOT THEN {} ELSE Above[Parent[p]] \cup {Parent[p]}

ValueAssumption ==
  /\ EMPTY \notin Values \cup {ABSENT, MANGLED, NONE}
  /\ MANGLED \notin Values \cup {ABSENT, NONE}
  /\ ABSENT \notin Values \cup {NONE}

ASSUME Paths == PathAssumption
ASSUME Distinct == ValueAssumption
ASSUME FaultKinds == Faults \subseteq {"crash", "disconnect", "write", "unlink"}

VARIABLES
  dirs,      \* the directories that exist: <<bucket, "data" or "meta", path>>
  data,      \* [Objects -> content of the data file]
  meta,      \* [Objects -> content of the metadata file]
  info,      \* the buckets that have a bucket.json
  pc,        \* [Requests -> the call the request makes next]
  req,       \* [Requests -> what was asked]
  buf,       \* [Requests -> the object bytes the request holds in memory]
  unlinked,  \* requests that write to a file whose name is gone
  cursor,    \* [Requests -> the entry a removal loop has reached]
  todo,      \* [Requests -> the entries a directory walk still has to visit]
  reply,     \* [Requests -> the answer]
  events,    \* every event handed to the sync channel, in order
  dirty      \* history: objects whose last writer has not answered Ok

vars == <<dirs, data, meta, info, pc, req, buf, unlinked, cursor, todo, reply,
          events, dirty>>
fs == <<dirs, data, meta, info>>

Contents == Values \cup {EMPTY, MANGLED}
Describes(c) == [of |-> c]            \* the document with the ETag and size of c
Documents == {Describes(c) : c \in Contents}

ASSUME NotADocument == {ABSENT, EMPTY, MANGLED} \cap Documents = {}

Reply == [code : Codes, data : Contents \cup {NONE}, etag : Contents \cup {NONE}]

InFlight(r) == pc[r] \notin {"idle", "done", "lost"}

-----------------------------------------------------------------------------
(* The data directory.                                                     *)

Exists(b) == <<b, "data", ROOT>> \in dirs

(* Mutant: create_dir_all of the path itself and not of its parent.        *)
DataPathOfKey(b, k) == {<<b, "data", d>> : d \in Above[k] \cup {k, ROOT}}

(* What create_dir_all leaves: the directory of key k and all above it.    *)
DataPath(b, k) == {<<b, "data", d>> : d \in Above[k] \cup {ROOT}}
MetaPath(b, k) ==
  {<<b, "data", ROOT>>} \cup {<<b, "meta", d>> : d \in Above[k] \cup {ROOT}}

(* The entries of a directory: the files and the directories right under   *)
(* it.  The .miniminio directory is an entry of the bucket directory.      *)
Files(b, tree) ==
  {k \in Keys : (IF tree = "data" THEN data ELSE meta)[<<b, k>>] # ABSENT}
Entries(b, tree, d) ==
  {<<b, tree, k>> : k \in {f \in Files(b, tree) : Parent[f] = d}}
    \cup {<<b, tree, e>> : e \in {g \in Dirs : Parent[g] = d /\ <<b, tree, g>> \in dirs}}

(* Mutant: the emptiness check overlooks directories.                      *)
ForeignFiles(b) == {e \in Entries(b, "data", ROOT) : e[3] \in Keys}

Foreign(b) == Entries(b, "data", ROOT)   \* all but .miniminio

(* The effect of writing new bytes into a file that holds old ones: another*)
(* writer may have been there since this one truncated it.                 *)
Written(new, old) ==
  IF old = EMPTY \/ old = new THEN {new}
  ELSE IF new = EMPTY THEN {old}
  ELSE {new, MANGLED}

-----------------------------------------------------------------------------
Go(r, p) == pc' = [pc EXCEPT ![r] = p]

Finish(r, answer) ==
  /\ pc' = [pc EXCEPT ![r] = "done"]
  /\ reply' = [reply EXCEPT ![r] = answer]

Fail(r, code) == Finish(r, Plain(code)) /\ UNCHANGED <<events, dirty>>

(* A data directory in which no request was interrupted.                   *)
Init ==
  /\ \E B \in SUBSET Buckets, held \in [Objects -> Values \cup {ABSENT}] :
        /\ \A o \in Objects : held[o] # ABSENT => o[1] \in B
        /\ data = held
        /\ meta = [o \in Objects |->
                     IF held[o] = ABSENT THEN ABSENT ELSE Describes(held[o])]
        /\ info = B
        /\ dirs = (B \X {"data", "meta"} \X {ROOT})
                    \cup UNION {DataPath(o[1], o[2]) \cup MetaPath(o[1], o[2]) :
                                  o \in {x \in Objects : held[x] # ABSENT}}
  /\ pc = [r \in Requests |-> "idle"]
  /\ req = [r \in Requests |-> NoRequest]
  /\ buf = [r \in Requests |-> NONE]
  /\ unlinked = {}
  /\ cursor = [r \in Requests |-> NONE]
  /\ todo = [r \in Requests |-> {}]
  /\ reply = [r \in Requests |-> Plain("")]
  /\ events = <<>>
  /\ dirty = {}

Entry(kind) ==
  CASE kind \in {"get", "head", "copy"} -> "is_file"
    [] kind = "put" -> "make_parent"
    [] kind = "delete" -> "rm_data"
    [] kind = "create_bucket" -> "make_bucket"
    [] kind = "delete_bucket" -> "scan"
    [] OTHER -> "sweep"

(* A handler begins.  bucket_exists and path.exists() are synchronous      *)
(* calls, so the first check is made in the same step.                     *)
Start(r) ==
  /\ pc[r] = "idle"
  /\ \E q \in Request :
        /\ WellFormed(q)
        /\ \A s \in Requests : InFlight(s) => ~Conflict(q, req[s])
        /\ req' = [req EXCEPT ![r] = q]
        /\ LET here == q.kind = "cleanup" \/ Exists(Source(q)[1])
               refused == IF q.kind = "create_bucket" THEN here ELSE ~here
           IN IF refused
              THEN /\ Finish(r, Plain(IF here THEN "BucketAlreadyExists"
                                              ELSE "NoSuchBucket"))
                   /\ UNCHANGED <<buf, todo, dirty>>
              ELSE /\ Go(r, Entry(q.kind))
                   /\ buf' = [buf EXCEPT ![r] = q.body]
                   /\ todo' = [todo EXCEPT ![r] =
                        IF q.kind = "cleanup"
                        THEN Buckets \X {"meta"} \X (Keys \cup Dirs) ELSE {}]
                   /\ dirty' = IF q.kind \in Writers THEN dirty \cup {Obj(q)} ELSE dirty
                   /\ UNCHANGED reply
  /\ UNCHANGED <<fs, unlinked, cursor, events>>

-----------------------------------------------------------------------------
(* put_object, and copy_object from its put_object on.                     *)

MakeParent(r) ==
  /\ pc[r] = "make_parent"
  /\ dirs' = dirs \cup DataPath(req[r].bucket, req[r].key)
  /\ Go(r, "open_data")
  /\ UNCHANGED <<data, meta, info, req, buf, unlinked, cursor, todo, reply, events, dirty>>

(* Mutant: the file is opened without O_TRUNC.                             *)
OpenDataInPlace(r) ==
  /\ pc[r] = "open_data"
  /\ <<req[r].bucket, "data", Parent[req[r].key]>> \in dirs
  /\ data' = [data EXCEPT ![Obj(req[r])] = IF @ = ABSENT THEN EMPTY ELSE @]
  /\ Go(r, "write_data")
  /\ UNCHANGED <<dirs, meta, info, req, buf, unlinked, cursor, todo, reply, events, dirty>>

(* fs::write is open(O_CREAT | O_TRUNC) and then write.                    *)
OpenData(r) ==
  /\ pc[r] = "open_data"
  /\ \/ /\ <<req[r].bucket, "data", Parent[req[r].key]>> \in dirs
        /\ data' = [data EXCEPT ![Obj(req[r])] = EMPTY]
        /\ Go(r, "write_data")
        /\ UNCHANGED <<reply, events, dirty>>
     \/ /\ <<req[r].bucket, "data", Parent[req[r].key]>> \notin dirs
        /\ Fail(r, "InternalError")
        /\ UNCHANGED data
  /\ UNCHANGED <<dirs, meta, info, req, buf, unlinked, cursor, todo>>

WriteData(r) ==
  /\ pc[r] = "write_data"
  /\ \/ r \in unlinked /\ UNCHANGED data
     \/ /\ r \notin unlinked
        /\ \E c \in Written(buf[r], data[Obj(req[r])]) :
              data' = [data EXCEPT ![Obj(req[r])] = c]
  /\ unlinked' = unlinked \ {r}
  /\ Go(r, "make_meta_dir")
  /\ UNCHANGED <<dirs, meta, info, req, buf, cursor, todo, reply, events, dirty>>

MakeMetaDir(r) ==
  /\ pc[r] = "make_meta_dir"
  /\ dirs' = dirs \cup MetaPath(req[r].bucket, req[r].key)
  /\ Go(r, "open_meta")
  /\ UNCHANGED <<data, meta, info, req, buf, unlinked, cursor, todo, reply, events, dirty>>

OpenMeta(r) ==
  /\ pc[r] = "open_meta"
  /\ \/ /\ <<req[r].bucket, "meta", Parent[req[r].key]>> \in dirs
        /\ meta' = [meta EXCEPT ![Obj(req[r])] = EMPTY]
        /\ Go(r, "write_meta")
        /\ UNCHANGED <<reply, events, dirty>>
     \/ /\ <<req[r].bucket, "meta", Parent[req[r].key]>> \notin dirs
        /\ Fail(r, "InternalError")
        /\ UNCHANGED meta
  /\ UNCHANGED <<dirs, data, info, req, buf, unlinked, cursor, todo>>

WriteMeta(r) ==
  /\ pc[r] = "write_meta"
  /\ \/ r \in unlinked /\ UNCHANGED meta
     \/ /\ r \notin unlinked
        /\ \E c \in Written(Describes(buf[r]), meta[Obj(req[r])]) :
              meta' = [meta EXCEPT ![Obj(req[r])] = c]
  /\ unlinked' = unlinked \ {r}
  /\ Go(r, "emit")
  /\ UNCHANGED <<dirs, data, info, req, buf, cursor, todo, reply, events, dirty>>

(* emit_sync and the answer: no await lies between them.                   *)
Emit(r) ==
  /\ pc[r] = "emit"
  /\ events' = Append(events, Event(req[r]))
  /\ dirty' = IF req[r].kind \in Writers THEN dirty \ {Obj(req[r])} ELSE dirty
  /\ Finish(r, Plain("Ok"))
  /\ UNCHANGED <<fs, req, buf, unlinked, cursor, todo>>

-----------------------------------------------------------------------------
(* get_object, head_object and the first half of copy_object.              *)

IsFile(r) ==
  /\ pc[r] = "is_file"
  /\ \/ /\ data[Source(req[r])] # ABSENT
        /\ Go(r, IF req[r].kind = "head" THEN "read_meta" ELSE "read_data")
        /\ UNCHANGED <<reply, events, dirty>>
     \/ /\ data[Source(req[r])] = ABSENT
        /\ Fail(r, "NoSuchKey")
  /\ UNCHANGED <<fs, req, buf, unlinked, cursor, todo>>

(* A read while a writer has the file open may return part of its bytes.   *)
Readable(o) ==
  {data[o]} \cup {MANGLED : w \in {x \in Requests : /\ pc[x] = "write_data"
                                                    /\ x \notin unlinked
                                                    /\ Obj(req[x]) = o}}

ReadData(r) ==
  /\ pc[r] = "read_data"
  /\ \/ /\ data[Source(req[r])] # ABSENT
        /\ \E c \in Readable(Source(req[r])) : buf' = [buf EXCEPT ![r] = c]
        /\ Go(r, "read_meta")
        /\ UNCHANGED <<reply, events, dirty>>
     \/ /\ data[Source(req[r])] = ABSENT
        /\ Fail(r, "InternalError")
        /\ UNCHANGED buf
  /\ UNCHANGED <<fs, req, unlinked, cursor, todo>>

(* load_metadata: an error of the read is NoSuchKey, a document that does  *)
(* not parse is InternalError.                                             *)
ReadMeta(r) ==
  /\ pc[r] = "read_meta"
  /\ LET doc == meta[Source(req[r])] IN
       \/ /\ doc \in Documents
          /\ \/ /\ req[r].kind = "copy"
                /\ Go(r, "check_dst")
                /\ UNCHANGED reply
             \/ /\ req[r].kind # "copy"
                /\ Finish(r, [code |-> "Ok", data |-> buf[r], etag |-> doc.of])
          /\ UNCHANGED <<events, dirty>>
       \/ doc = ABSENT /\ Fail(r, "NoSuchKey")
       \/ doc \in {EMPTY, MANGLED} /\ Fail(r, "InternalError")
  /\ UNCHANGED <<fs, req, buf, unlinked, cursor, todo>>

CheckDst(r) ==
  /\ pc[r] = "check_dst"
  /\ \/ /\ Exists(req[r].bucket)
        /\ Go(r, "make_parent")
        /\ UNCHANGED <<reply, events, dirty>>
     \/ /\ ~Exists(req[r].bucket)
        /\ Fail(r, "NoSuchBucket")
  /\ UNCHANGED <<fs, req, buf, unlinked, cursor, todo>>

-----------------------------------------------------------------------------
(* delete_object.  is_file() and remove_file().ok() have together the      *)
(* effect of one removal; under the "unlink" fault it fails unnoticed.  A   *)
(* remove_dir fails for what is in the directory, and for nothing else.    *)

RemoveData(r) ==
  /\ pc[r] = "rm_data"
  /\ \/ /\ data' = [data EXCEPT ![Obj(req[r])] = ABSENT]
        /\ unlinked' = unlinked \cup {x \in Requests : /\ pc[x] = "write_data"
                                                       /\ Obj(req[x]) = Obj(req[r])}
     \/ "unlink" \in Faults /\ UNCHANGED <<data, unlinked>>
  /\ Go(r, "rm_meta")
  /\ UNCHANGED <<dirs, meta, info, req, buf, cursor, todo, reply, events, dirty>>

Unname(o) ==
  /\ meta' = [meta EXCEPT ![o] = ABSENT]
  /\ unlinked' = unlinked \cup {x \in Requests : pc[x] = "write_meta" /\ Obj(req[x]) = o}

RemoveMeta(r) ==
  /\ pc[r] = "rm_meta"
  /\ Unname(Obj(req[r])) \/ ("unlink" \in Faults /\ UNCHANGED <<meta, unlinked>>)
  /\ cursor' = [cursor EXCEPT ![r] = Parent[req[r].key]]
  /\ Go(r, "rm_parent")
  /\ UNCHANGED <<dirs, data, info, req, buf, todo, reply, events, dirty>>

(* Mutant: one parent is removed, with no loop.                            *)
RemoveOneParent(r) ==
  /\ pc[r] = "rm_parent"
  /\ dirs' = {e \in dirs : \/ e # <<req[r].bucket, "data", cursor[r]>>
                           \/ cursor[r] = ROOT
                           \/ Entries(e[1], "data", e[3]) # {}}
  /\ Go(r, "emit")
  /\ UNCHANGED <<data, meta, info, req, buf, unlinked, cursor, todo, reply, events, dirty>>

(* One turn of the loop that removes empty parents, up to the bucket.      *)
RemoveParent(r) ==
  /\ pc[r] = "rm_parent"
  /\ LET b == req[r].bucket
         d == cursor[r]
         removable == /\ d # ROOT
                      /\ <<b, "data", d>> \in dirs
                      /\ Entries(b, "data", d) = {}
     IN \/ /\ removable
           /\ dirs' = dirs \ {<<b, "data", d>>}
           /\ cursor' = [cursor EXCEPT ![r] = Parent[d]]
           /\ UNCHANGED pc
        \/ /\ ~removable
           /\ Go(r, "emit")
           /\ UNCHANGED <<dirs, cursor>>
  /\ UNCHANGED <<data, meta, info, req, buf, unlinked, todo, reply, events, dirty>>

-----------------------------------------------------------------------------
(* create_bucket.                                                          *)

MakeBucket(r) ==
  /\ pc[r] = "make_bucket"
  /\ dirs' = dirs \cup {<<req[r].bucket, "data", ROOT>>}
  /\ Go(r, "make_meta_root")
  /\ UNCHANGED <<data, meta, info, req, buf, unlinked, cursor, todo, reply, events, dirty>>

MakeMetaRoot(r) ==
  /\ pc[r] = "make_meta_root"
  /\ dirs' = dirs \cup {<<req[r].bucket, t, ROOT>> : t \in {"data", "meta"}}
  /\ Go(r, "write_info")
  /\ UNCHANGED <<data, meta, info, req, buf, unlinked, cursor, todo, reply, events, dirty>>

WriteInfo(r) ==
  /\ pc[r] = "write_info"
  /\ \/ /\ <<req[r].bucket, "meta", ROOT>> \in dirs
        /\ info' = info \cup {req[r].bucket}
        /\ Go(r, "emit")
        /\ UNCHANGED <<reply, events, dirty>>
     \/ /\ <<req[r].bucket, "meta", ROOT>> \notin dirs
        /\ Fail(r, "InternalError")
        /\ UNCHANGED info
  /\ UNCHANGED <<dirs, data, meta, req, buf, unlinked, cursor, todo>>

(* delete_bucket.                                                          *)

Within(b) ==
  {e \in dirs : e[1] = b}
    \cup {<<b, "data", k>> : k \in Files(b, "data")}
    \cup {<<b, "meta", k>> : k \in Files(b, "meta")}
    \cup {<<x, "meta", NONE>> : x \in info \cap {b}}

Scan(r) ==
  /\ pc[r] = "scan"
  /\ LET b == req[r].bucket IN
       \/ ~Exists(b) /\ Fail(r, "InternalError") /\ UNCHANGED todo
       \/ Exists(b) /\ Foreign(b) # {} /\ Fail(r, "BucketNotEmpty") /\ UNCHANGED todo
       \/ /\ Exists(b) /\ Foreign(b) = {}
          /\ todo' = [todo EXCEPT ![r] = Within(b)]
          /\ Go(r, "rm_bucket")
          /\ UNCHANGED <<reply, events, dirty>>
  /\ UNCHANGED <<fs, req, buf, unlinked, cursor>>

(* remove_dir_all unlinks what it has read of a directory, then the         *)
(* directory.  An entry made meanwhile is read too, or it is not.          *)
Inside(e) ==
  Entries(e[1], e[2], e[3])
    \cup (IF e[3] # ROOT THEN {}
          ELSE IF e[2] = "meta" THEN {<<x, "meta", NONE>> : x \in info \cap {e[1]}}
          ELSE {<<e[1], "meta", ROOT>>} \cap dirs)
IsDir(e) == e[3] \in Dirs \cup {ROOT}

NoticeEntry(r) ==
  /\ pc[r] = "rm_bucket"
  /\ \E e \in Within(req[r].bucket) \ todo[r] :
        /\ \E p \in todo[r] : IsDir(p) /\ e \in Inside(p)
        /\ todo' = [todo EXCEPT ![r] = @ \cup {e}]
  /\ UNCHANGED <<fs, pc, req, buf, unlinked, cursor, reply, events, dirty>>

RemoveEntry(r) ==
  /\ pc[r] = "rm_bucket"
  /\ \E e \in Within(req[r].bucket) \cap todo[r] :
        LET o == <<e[1], e[3]>> IN
        /\ e # <<e[1], "data", ROOT>>
        /\ IsDir(e) => Inside(e) = {}
        /\ \/ /\ IsDir(e)
              /\ dirs' = dirs \ {e}
              /\ UNCHANGED <<data, meta, info, unlinked>>
           \/ /\ e[3] = NONE
              /\ info' = info \ {e[1]}
              /\ UNCHANGED <<dirs, data, meta, unlinked>>
           \/ /\ e[3] \in Keys /\ e[2] = "data"
              /\ data' = [data EXCEPT ![o] = ABSENT]
              /\ unlinked' = unlinked \cup {x \in Requests : /\ pc[x] = "write_data"
                                                             /\ Obj(req[x]) = o}
              /\ UNCHANGED <<dirs, meta, info>>
           \/ e[3] \in Keys /\ e[2] = "meta" /\ Unname(o) /\ UNCHANGED <<dirs, data, info>>
        /\ todo' = [todo EXCEPT ![r] = @ \ {e}]
  /\ UNCHANGED <<pc, req, buf, cursor, reply, events, dirty>>

(* Mutant: what the bucket holds is removed, and its directory stays.      *)
RemoveContents(r) ==
  /\ pc[r] = "rm_bucket"
  /\ Within(req[r].bucket) = {<<req[r].bucket, "data", ROOT>>}
  /\ Go(r, "emit")
  /\ UNCHANGED <<fs, req, buf, unlinked, cursor, todo, reply, events, dirty>>

(* The bucket directory goes last.  A directory that has received an entry *)
(* since the walk read it cannot be removed, and the walk ends there.      *)
RemoveBucketDir(r) ==
  /\ pc[r] = "rm_bucket"
  /\ LET b == req[r].bucket
         root == <<b, "data", ROOT>>
         Stuck(e) == IsDir(e) /\ Inside(e) # {} /\ Inside(e) \cap todo[r] = {}
     IN \/ /\ Within(b) = {root}
           /\ dirs' = dirs \ {root}
           /\ Go(r, "emit")
           /\ UNCHANGED <<reply, events, dirty>>
        \/ /\ root \notin dirs \/ \E e \in todo[r] : Stuck(e)
           /\ Fail(r, "InternalError")
           /\ UNCHANGED dirs
  /\ UNCHANGED <<data, meta, info, req, buf, unlinked, cursor, todo>>

-----------------------------------------------------------------------------
(* cleanup_orphaned_metadata: the walk visits every entry once, a directory*)
(* after what it holds, and the test is made on the trimmed name.          *)

(* Mutant: the path is taken relative to the directory being walked.       *)
NamesNoDataHere(e) ==
  /\ meta[<<e[1], e[3]>>] # ABSENT
  /\ data[<<e[1], Trimmed[e[3]]>>] = ABSENT \/ Parent[e[3]] # ROOT

(* An entry whose key, with the suffix trimmed, names no data.             *)
NamesNoData(e) ==
  meta[<<e[1], e[3]>>] # ABSENT /\ data[<<e[1], Trimmed[e[3]]>>] = ABSENT

Sweep(r) ==
  /\ pc[r] = "sweep"
  /\ \/ /\ todo[r] = {}
        /\ Finish(r, Plain("Ok"))
        /\ UNCHANGED <<dirs, cursor, todo>>
     \/ \E e \in todo[r] :
          /\ todo' = [todo EXCEPT ![r] = @ \ {e}]
          /\ UNCHANGED reply
          /\ \/ /\ e[3] \in Keys
                /\ IF NamesNoData(e)
                   THEN Go(r, "rm_orphan") /\ cursor' = [cursor EXCEPT ![r] = e]
                   ELSE UNCHANGED <<pc, cursor>>
                /\ UNCHANGED dirs
             \/ /\ e[3] \in Dirs
                /\ \A x \in todo[r] : x[1] = e[1] => Parent[x[3]] # e[3]
                /\ dirs' = IF Entries(e[1], "meta", e[3]) = {} THEN dirs \ {e} ELSE dirs
                /\ UNCHANGED <<pc, cursor>>
  /\ UNCHANGED <<data, meta, info, req, buf, unlinked, events, dirty>>

RemoveOrphan(r) ==
  /\ pc[r] = "rm_orphan"
  /\ Unname(<<cursor[r][1], cursor[r][3]>>)
  /\ Go(r, "sweep")
  /\ UNCHANGED <<dirs, data, info, req, buf, cursor, todo, reply, events, dirty>>

-----------------------------------------------------------------------------
(* Faults.                                                                 *)

(* A full or failing disk: the call returns an error, which "?" passes on. *)
WriteError(r) ==
  /\ "write" \in Faults
  /\ pc[r] \in {"make_parent", "open_data", "write_data", "make_meta_dir", "open_meta",
                "write_meta", "make_bucket", "make_meta_root", "write_info"}
  /\ Fail(r, "InternalError")
  /\ unlinked' = unlinked \ {r}
  /\ \/ UNCHANGED <<data, meta>>
     \/ /\ pc[r] = "write_data" /\ r \notin unlinked
        /\ data' = [data EXCEPT ![Obj(req[r])] = MANGLED]
        /\ UNCHANGED meta
     \/ /\ pc[r] = "write_meta" /\ r \notin unlinked
        /\ meta' = [meta EXCEPT ![Obj(req[r])] = MANGLED]
        /\ UNCHANGED data
  /\ UNCHANGED <<dirs, info, req, buf, cursor, todo>>

(* The client goes away and the server drops its handler, which ends where *)
(* it next waits: a call under way in the thread pool is completed first.  *)
(* The client counts as in flight until then: one that came back sooner    *)
(* would overlap with its own last call.                                   *)
Abandon(r) ==
  /\ "disconnect" \in Faults
  /\ InFlight(r) /\ pc[r] \notin {"write_data", "write_meta", "rm_bucket"}
  /\ Go(r, "lost")
  /\ UNCHANGED <<fs, req, buf, unlinked, cursor, todo, reply, events, dirty>>

(* The process dies and the supervisor starts it again: every request in   *)
(* flight is gone, a file it was writing holds part of the bytes, or none. *)
Crash ==
  /\ "crash" \in Faults
  /\ \E r \in Requests : InFlight(r)
  /\ \E torn \in SUBSET {r \in Requests \ unlinked : pc[r] \in {"write_data", "write_meta"}} :
        LET Torn(o, p) == \E r \in torn : pc[r] = p /\ Obj(req[r]) = o IN
        /\ data' = [o \in Objects |-> IF Torn(o, "write_data") THEN MANGLED ELSE data[o]]
        /\ meta' = [o \in Objects |-> IF Torn(o, "write_meta") THEN MANGLED ELSE meta[o]]
  /\ pc' = [r \in Requests |-> IF InFlight(r) THEN "lost" ELSE pc[r]]
  /\ unlinked' = {}
  /\ UNCHANGED <<dirs, info, req, buf, cursor, todo, reply, events, dirty>>

-----------------------------------------------------------------------------
Step(r) ==
  \/ MakeParent(r) \/ OpenData(r) \/ WriteData(r)
  \/ MakeMetaDir(r) \/ OpenMeta(r) \/ WriteMeta(r) \/ Emit(r)
  \/ IsFile(r) \/ ReadData(r) \/ ReadMeta(r) \/ CheckDst(r)
  \/ RemoveData(r) \/ RemoveMeta(r) \/ RemoveParent(r)
  \/ MakeBucket(r) \/ MakeMetaRoot(r) \/ WriteInfo(r)
  \/ Scan(r) \/ NoticeEntry(r) \/ RemoveEntry(r) \/ RemoveBucketDir(r)
  \/ Sweep(r) \/ RemoveOrphan(r)

Next == Crash \/ \E r \in Requests : Start(r) \/ Step(r) \/ WriteError(r) \/ Abandon(r)

Spec == Init /\ [][Next]_vars

-----------------------------------------------------------------------------
(* Type correctness.                                                       *)
PCs == {"idle", "make_parent", "open_data", "write_data", "make_meta_dir", "open_meta",
        "write_meta", "emit", "is_file", "read_data", "read_meta", "check_dst", "rm_data",
        "rm_meta", "rm_parent", "make_bucket", "make_meta_root", "write_info", "scan",
        "rm_bucket", "sweep", "rm_orphan", "done", "lost"}
Names == Buckets \X {"data", "meta"} \X (Keys \cup Dirs \cup {ROOT, NONE})

TypeOK ==
  /\ dirs \subseteq Buckets \X {"data", "meta"} \X (Dirs \cup {ROOT})
  /\ data \in [Objects -> Contents \cup {ABSENT}]
  /\ meta \in [Objects -> Documents \cup {ABSENT, EMPTY, MANGLED}]
  /\ info \subseteq Buckets
  /\ pc \in [Requests -> PCs]
  /\ req \in [Requests -> Request]
  /\ buf \in [Requests -> Contents \cup {NONE}]
  /\ unlinked \subseteq Requests
  /\ cursor \in [Requests -> Names \cup Dirs \cup {ROOT, NONE}]
  /\ todo \in [Requests -> SUBSET Names]
  /\ reply \in [Requests -> Reply]
  /\ events \in Seq(Events)
  /\ dirty \subseteq Objects

-----------------------------------------------------------------------------
(* What the store promises.                                                *)

(* Data and metadata of an object belong together: both files are there    *)
(* and the document describes those bytes, or neither file is.             *)
Consistent(o) ==
  \/ data[o] = ABSENT /\ meta[o] = ABSENT
  \/ data[o] # ABSENT /\ meta[o] = Describes(data[o])

(* A writer that has changed one file of object o and not yet the other.   *)
HalfPCs == {"write_data", "make_meta_dir", "open_meta", "write_meta", "rm_meta"}
Half(o) == \E r \in Requests : pc[r] \in HalfPCs /\ Obj(req[r]) = o

(* A request that ended without getting to its end.                        *)
Broken(r) == pc[r] = "lost" \/ reply[r].code = "InternalError"

(* When clients do not overlap writes to one object, every object whose    *)
(* last writer was answered Ok is consistent, whatever crashes and full    *)
(* disks did before: a retry that succeeds repairs what a lost writer left.*)
Settled == \A o \in Objects \ dirty : Consistent(o)

(* An object whose two files disagree has a writer between them, or one    *)
(* that a crash, a client that left or a full disk stopped: no overlap of  *)
(* the other requests, and no refusal, leaves such an object behind.       *)
MismatchExplained ==
  \A o \in Objects :
    Consistent(o) \/ Half(o)
      \/ \E r \in Requests : req[r].kind \in Writers /\ Obj(req[r]) = o /\ Broken(r)

(* A bucket without its bucket.json, which ListBuckets shows as made in    *)
(* 1970, is being made or removed, or such a request did not get to its    *)
(* end: overlapping creations, and puts beside them, leave none behind.    *)
InfoExplained ==
  \A b \in Buckets :
    Exists(b) /\ b \notin info =>
      \E r \in Requests :
        /\ req[r].kind \in BucketKinds /\ req[r].bucket = b
        /\ pc[r] \in {"make_meta_root", "write_info", "rm_bucket"} \/ Broken(r)

(* delete_bucket takes away no bytes of an object, and no metadata but     *)
(* what a writer that did not get to its end has left without data.        *)
RemovalSparesObjects ==
  [][\A r \in Requests : RemoveEntry(r) =>
       /\ data' = data
       /\ \A o \in Objects : meta'[o] # meta[o] => data[o] = ABSENT /\ o \in dirty]_vars

(* Upstream sync sees the events in order.  The last event about an object *)
(* with no unanswered writer tells whether the object is there.            *)
EventsMatchState ==
  \A o \in Objects \ dirty :
    LET about == {i \in 1..Len(events) : <<events[i].bucket, events[i].key>> = o}
    IN about = {} \/ \E i \in about : /\ \A j \in about : j <= i
                                      /\ (events[i].kind = "put") <=> (data[o] # ABSENT)

(* A directory under a bucket that nobody is using holds an object: an     *)
(* empty one would make delete_bucket answer BucketNotEmpty for ever, for  *)
(* no request removes it.  Holds with any overlap of puts and deletes, and *)
(* with removals of files that fail.                                       *)
NoStrayDirs ==
  \A e \in dirs :
    \/ e[3] = ROOT \/ e[2] = "meta"
    \/ Entries(e[1], "data", e[3]) # {}
    \/ \E r \in Requests : InFlight(r) /\ req[r].bucket = e[1]

(* An object whose put was answered Ok and that nobody asked to delete     *)
(* keeps both its files while puts, copies, deletes of its neighbours and  *)
(* orphan sweeps overlap: put writes the data first, so that the sweep     *)
(* never takes the metadata for an orphan.                                 *)
AnsweredPutStays ==
  \A r \in Requests :
    LET o == Obj(req[r]) IN
      /\ req[r].kind \in {"put", "copy"} /\ reply[r].code = "Ok"
      /\ \A s \in Requests : req[s].kind = "delete" => Obj(req[s]) # o
      => data[o] # ABSENT /\ meta[o] # ABSENT

(* The sweep removes the metadata of no object but those that a client     *)
(* asked to delete: a put or copy under way is never taken for an orphan,  *)
(* however the walk of the metadata tree overlaps with it.                 *)
SweepFollowsDelete ==
  [][\A r \in Requests : RemoveOrphan(r) =>
       \E s \in Requests : /\ req[s].kind = "delete"
                           /\ Obj(req[s]) = <<cursor[r][1], cursor[r][3]>>]_vars

(* The atomic store behind the files.  An object has the value its         *)
(* metadata document describes: a put takes effect when it truncates that  *)
(* document, after the data is in place, a delete when it removes it.      *)
Visible(o) ==
  CASE meta[o] \in Documents -> meta[o].of
    [] meta[o] = EMPTY -> data[o]
    [] OTHER -> ABSENT

Status(r) ==
  CASE pc[r] \in {"idle", "done"} -> pc[r]
    [] pc[r] \in {"write_meta", "rm_parent", "make_meta_root", "write_info", "emit"}
         -> "performed"
    [] OTHER -> "working"

Atomic == INSTANCE AtomicStore WITH
  buckets <- {b \in Buckets : Exists(b)},
  objects <- [o \in Objects |-> Visible(o)],
  status <- [r \in Requests |-> Status(r)]

(* For clients that overlap nothing on one object or bucket, while other   *)
(* objects of the same directories come and go, the store is atomic.       *)
ImplementsAtomicStore == Atomic!Spec

-----------------------------------------------------------------------------
(* What the documents say, and concurrent or unlucky use refutes.          *)

(* README.md: "ETag -- MD5 hash of object".  When nothing is in flight,     *)
(* the ETag of every stored object is that of its bytes.                   *)
ETagOfObject ==
  (\A r \in Requests : ~InFlight(r)) =>
    \A o \in Objects : data[o] # ABSENT => meta[o] = Describes(data[o])

(* cleanup.rs: "Remove orphaned metadata files that have no corresponding  *)
(* object data".  The sweep leaves the metadata of stored objects alone.   *)
SweepKeepsLiveMetadata ==
  [][\A r \in Requests : RemoveOrphan(r) =>
       data[<<cursor[r][1], cursor[r][3]>>] = ABSENT]_vars

(* README.md: DeleteBucket is "Delete an empty bucket".  It removes no     *)
(* file of an object whose put was answered Ok.                            *)
OnlyEmptyBucketsGo ==
  [][\A r, s \in Requests :
       RemoveEntry(r) /\ req[s].kind = "put" /\ reply[s].code = "Ok"
         => LET o == Obj(req[s]) IN data'[o] = data[o] /\ meta'[o] = meta[o]]_vars
=============================================================================
