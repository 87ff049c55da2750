-------------------------- MODULE ObjectStoreProofs --------------------------
(***************************************************************************)
(* Proofs about ObjectStore, for any buckets, keys, values and requests.   *)
(***************************************************************************)
EXTENDS ObjectStore, TLAPS

(* Which calls each kind of request makes.                                 *)
PutPCs == {"make_parent", "open_data", "write_data", "make_meta_dir", "open_meta",
           "write_meta"}
GetPCs == {"is_file", "read_data", "read_meta"}
DeletePCs == {"rm_data", "rm_meta", "rm_parent"}
CreatePCs == {"make_bucket", "make_meta_root", "write_info"}
DropPCs == {"scan", "rm_bucket"}
SweepPCs == {"sweep", "rm_orphan"}
EmitKinds == {"put", "copy", "delete", "create_bucket", "delete_bucket"}

Program(r) ==
  /\ pc[r] \in PutPCs => req[r].kind \in {"put", "copy"}
  /\ pc[r] \in GetPCs => req[r].kind \in {"get", "head", "copy"}
  /\ pc[r] = "check_dst" => req[r].kind = "copy"
  /\ pc[r] \in DeletePCs => req[r].kind = "delete"
  /\ pc[r] \in CreatePCs => req[r].kind = "create_bucket"
  /\ pc[r] \in DropPCs => req[r].kind = "delete_bucket"
  /\ pc[r] \in SweepPCs => req[r].kind = "cleanup"
  /\ pc[r] = "emit" => req[r].kind \in EmitKinds
  /\ InFlight(r) => WellFormed(req[r])

(* What a request holds in memory when it makes a call.                    *)
Holds(r) ==
  /\ pc[r] \in PutPCs \cup {"check_dst"} => buf[r] \in Contents
  /\ pc[r] = "read_meta" /\ req[r].kind # "head" => buf[r] \in Contents
  /\ pc[r] = "rm_parent" => cursor[r] \in Dirs \cup {ROOT}
  /\ pc[r] = "sweep" => todo[r] \subseteq Buckets \X {"meta"} \X (Keys \cup Dirs)
  /\ pc[r] = "rm_orphan" => /\ cursor[r] \in Buckets \X {"meta"} \X Keys
                            /\ todo[r] \subseteq Buckets \X {"meta"} \X (Keys \cup Dirs)

TypeInv == TypeOK /\ \A r \in Requests : Program(r) /\ Holds(r)

-----------------------------------------------------------------------------
(* A request in flight names a bucket, and an object if its kind has one.  *)
LEMMA Named ==
  ASSUME TypeInv, NEW r \in Requests
  PROVE  /\ pc[r] \in PutPCs \cup GetPCs \cup DeletePCs \cup {"check_dst"} =>
              /\ req[r].bucket \in Buckets /\ req[r].key \in Keys
              /\ Obj(req[r]) \in Objects /\ Source(req[r]) \in Objects
         /\ pc[r] \in CreatePCs \cup DropPCs => req[r].bucket \in Buckets
<1>1. req[r] \in Request /\ Program(r)
  BY DEF TypeInv, TypeOK
<1>2. ASSUME pc[r] \in PutPCs \cup GetPCs \cup DeletePCs \cup {"check_dst"}
      PROVE  /\ req[r].bucket \in Buckets /\ req[r].key \in Keys
             /\ Obj(req[r]) \in Objects /\ Source(req[r]) \in Objects
  <2>1. WellFormed(req[r]) /\ req[r].kind \notin BucketKinds \cup {"cleanup"}
    BY <1>1, <1>2 DEF Program, InFlight, PutPCs, GetPCs, DeletePCs, BucketKinds
  <2>2. req[r].bucket \in Buckets /\ req[r].key \in Keys
    BY <1>1, <2>1 DEF WellFormed, Request
  <2>3. req[r].kind = "copy" => req[r].from \in Objects
    BY <1>1, <2>1 DEF WellFormed, Request
  <2> QED BY <2>2, <2>3 DEF Obj, Source, Objects
<1>3. ASSUME pc[r] \in CreatePCs \cup DropPCs PROVE req[r].bucket \in Buckets
  <2>1. WellFormed(req[r]) /\ req[r].kind \in BucketKinds
    BY <1>1, <1>3 DEF Program, InFlight, CreatePCs, DropPCs, BucketKinds
  <2> QED BY <1>1, <2>1 DEF WellFormed, Request, BucketKinds
<1> QED BY <1>2, <1>3

(* What a file holds after a write is what it held or a whole or part of   *)
(* the new bytes.                                                          *)
LEMMA WrittenRange ==
  ASSUME NEW new, NEW old, NEW c \in Written(new, old)
  PROVE  c \in {new, old, MANGLED}
BY DEF Written

LEMMA WithinNames ==
  ASSUME TypeOK, NEW b \in Buckets
  PROVE  Within(b) \subseteq Names
<1>1. {e \in dirs : e[1] = b} \subseteq Names
  BY DEF Names, TypeOK
<1>2. \A t \in {"data", "meta"} : {<<b, t, k>> : k \in Files(b, t)} \subseteq Names
  <2>1. \A t \in {"data", "meta"} : Files(b, t) \subseteq Keys
    BY DEF Files
  <2> QED BY <2>1 DEF Names
<1>3. {<<x, "meta", NONE>> : x \in info \cap {b}} \subseteq Names
  BY DEF Names
<1> QED BY <1>1, <1>2, <1>3 DEF Within

LEMMA EventTyped ==
  ASSUME NEW q \in Request PROVE Event(q) \in Events
BY DEF Event, Events, Request, Kinds

(* Every kind of request begins with a call of its own.                    *)
LEMMA EntryProgram ==
  ASSUME NEW q \in Request, WellFormed(q)
  PROVE  /\ Entry(q.kind) \in PCs \ {"idle", "done", "lost"}
         /\ Entry(q.kind) \in PutPCs => q.kind = "put"
         /\ Entry(q.kind) \in GetPCs => q.kind \in {"get", "head", "copy"} /\ Entry(q.kind) = "is_file"
         /\ Entry(q.kind) \in DeletePCs => q.kind = "delete" /\ Entry(q.kind) = "rm_data"
         /\ Entry(q.kind) \in CreatePCs => q.kind = "create_bucket"
         /\ Entry(q.kind) \in DropPCs => q.kind = "delete_bucket" /\ Entry(q.kind) = "scan"
         /\ Entry(q.kind) \in SweepPCs => q.kind = "cleanup" /\ Entry(q.kind) = "sweep"
         /\ Entry(q.kind) \notin {"emit", "check_dst"}
         /\ q.kind = "put" => Entry(q.kind) = "make_parent"
BY DEF Entry, Request, Kinds, PCs, PutPCs, GetPCs, DeletePCs, CreatePCs, DropPCs, SweepPCs

(* The directories of a key.                                               *)
LEMMA PathsTyped ==
  ASSUME NEW b \in Buckets, NEW k \in Keys
  PROVE  DataPath(b, k) \cup MetaPath(b, k)
           \subseteq Buckets \X {"data", "meta"} \X (Dirs \cup {ROOT})
<1>1. Above[k] \subseteq Dirs
  BY Paths DEF PathAssumption
<1> QED BY <1>1 DEF DataPath, MetaPath

-----------------------------------------------------------------------------
LEMMA TypeInit == Init => TypeInv
<1> SUFFICES ASSUME Init PROVE TypeInv
  OBVIOUS
<1>1. PICK B \in SUBSET Buckets, held \in [Objects -> Values \cup {ABSENT}] :
        /\ data = held
        /\ meta = [o \in Objects |->
                     IF held[o] = ABSENT THEN ABSENT ELSE Describes(held[o])]
        /\ info = B
        /\ dirs = (B \X {"data", "meta"} \X {ROOT})
                    \cup UNION {DataPath(o[1], o[2]) \cup MetaPath(o[1], o[2]) :
                                  o \in {x \in Objects : held[x] # ABSENT}}
  BY DEF Init
<1>2. dirs \subseteq Buckets \X {"data", "meta"} \X (Dirs \cup {ROOT})
  <2>1. \A o \in Objects : DataPath(o[1], o[2]) \cup MetaPath(o[1], o[2])
                             \subseteq Buckets \X {"data", "meta"} \X (Dirs \cup {ROOT})
    BY PathsTyped DEF Objects
  <2>2. B \X {"data", "meta"} \X {ROOT} \subseteq Buckets \X {"data", "meta"} \X (Dirs \cup {ROOT})
    OBVIOUS
  <2>3. \A e \in UNION {DataPath(o[1], o[2]) \cup MetaPath(o[1], o[2]) :
                            o \in {x \in Objects : held[x] # ABSENT}} :
          \E o \in Objects : e \in DataPath(o[1], o[2]) \cup MetaPath(o[1], o[2])
    OBVIOUS
  <2> QED BY <1>1, <2>1, <2>2, <2>3
<1>3. data \in [Objects -> Contents \cup {ABSENT}] /\ info \subseteq Buckets
  BY <1>1 DEF Contents
<1>4. meta \in [Objects -> Documents \cup {ABSENT, EMPTY, MANGLED}]
  BY <1>1 DEF Documents, Contents
<1>5. NoRequest \in Request
  BY DEF NoRequest, Request, Kinds
<1>6. Plain("") \in Reply
  BY DEF Plain, Reply, Codes
<1>7. /\ pc \in [Requests -> PCs] /\ cursor \in [Requests -> Names \cup Dirs \cup {ROOT, NONE}]
      /\ buf \in [Requests -> Contents \cup {NONE}] /\ unlinked \subseteq Requests
      /\ todo \in [Requests -> SUBSET Names]
  BY DEF Init, PCs
<1>8. events \in Seq(Events) /\ dirty \subseteq Objects
  <2>1. events = <<>> /\ dirty = {}
    BY DEF Init
  <2> QED BY <2>1
<1>9. TypeOK
  BY <1>2, <1>3, <1>4, <1>5, <1>6, <1>7, <1>8 DEF Init, TypeOK
<1>10. ASSUME NEW r \in Requests PROVE Program(r) /\ Holds(r)
  BY DEF Init, Program, Holds, InFlight, PutPCs, GetPCs, DeletePCs, CreatePCs, DropPCs,
              SweepPCs
<1> QED BY <1>9, <1>10 DEF TypeInv

-----------------------------------------------------------------------------
LEMMA Members ==
  /\ EMPTY \in Contents /\ MANGLED \in Contents /\ Values \subseteq Contents
  /\ \A c \in Contents : Describes(c) \in Documents
  /\ \A code \in Codes : Plain(code) \in Reply
BY DEF Contents, Documents, Describes, Codes, Plain, Reply

(* A request that a step leaves alone keeps its place in its program.      *)
Same(x) ==
  /\ pc'[x] = pc[x] /\ req'[x] = req[x] /\ buf'[x] = buf[x]
  /\ cursor'[x] = cursor[x] /\ todo'[x] = todo[x]

LEMMA SameKeeps ==
  ASSUME NEW x \in Requests, Program(x), Holds(x), Same(x)
  PROVE  Program(x)' /\ Holds(x)'
BY DEF Same, Program, Holds, InFlight

(* A refusal.                                                              *)
LEMMA FailTyped ==
  ASSUME TypeInv, NEW r \in Requests, NEW code \in Codes, Finish(r, Plain(code)),
         UNCHANGED <<req, buf, cursor, todo>>
  PROVE  /\ pc' \in [Requests -> PCs] /\ reply' \in [Requests -> Reply]
         /\ \A x \in Requests : Program(x)' /\ Holds(x)'
<1>1. pc' \in [Requests -> PCs] /\ reply' \in [Requests -> Reply]
  BY Members DEF TypeInv, TypeOK, Finish, PCs
<1>2. ASSUME NEW x \in Requests PROVE Program(x)' /\ Holds(x)'
  <2>1. CASE x = r
    <3>1. pc'[r] = "done"
      BY DEF TypeInv, TypeOK, Finish
    <3> QED BY <3>1, <2>1 DEF Program, Holds, InFlight, PutPCs, GetPCs, DeletePCs, CreatePCs,
                              DropPCs, SweepPCs
  <2>2. CASE x # r
    <3>1. Same(x)
      BY <2>2 DEF Same, Finish, TypeInv, TypeOK
    <3> QED BY <3>1, SameKeeps DEF TypeInv
  <2> QED BY <2>1, <2>2
<1> QED BY <1>1, <1>2

(* The next call of a program.                                             *)
LEMMA GoTyped ==
  ASSUME TypeInv, NEW r \in Requests, NEW p \in PCs, Go(r, p), req' = req,
         \A x \in Requests \ {r} : Same(x)
  PROVE  /\ pc' \in [Requests -> PCs] /\ pc'[r] = p
         /\ Program(r)' /\ Holds(r)' => \A x \in Requests : Program(x)' /\ Holds(x)'
<1>1. pc' \in [Requests -> PCs] /\ pc'[r] = p
  BY DEF TypeInv, TypeOK, Go
<1>2. \A x \in Requests \ {r} : Program(x)' /\ Holds(x)'
  BY SameKeeps DEF TypeInv
<1> QED BY <1>1, <1>2

-----------------------------------------------------------------------------
(* Each action keeps TypeInv.                                              *)

LEMMA TypeMakeParent ==
  ASSUME TypeInv, NEW r \in Requests, MakeParent(r)
  PROVE  TypeInv'
<1>1. Go(r, "open_data") /\ req' = req /\ \A x \in Requests \ {r} : Same(x)
  BY DEF MakeParent, Go, Same, TypeInv, TypeOK
<1>2. pc' \in [Requests -> PCs] /\ pc'[r] = "open_data"
  BY <1>1, GoTyped DEF PCs
<1>3. Program(r)' /\ Holds(r)'
  BY <1>1, <1>2 DEF MakeParent, TypeInv, TypeOK, Program, Holds, InFlight, PutPCs, GetPCs, DeletePCs, CreatePCs, DropPCs, SweepPCs
<1>4. \A x \in Requests : Program(x)' /\ Holds(x)'
  BY <1>1, <1>3, GoTyped DEF PCs
<1>5. TypeOK'
  <2>1. dirs' \subseteq Buckets \X {"data", "meta"} \X (Dirs \cup {ROOT})
    BY Named, PathsTyped DEF MakeParent, TypeInv, TypeOK, PutPCs
  <2> QED BY <1>2, <2>1 DEF MakeParent, TypeInv, TypeOK
<1> QED BY <1>4, <1>5 DEF TypeInv

LEMMA TypeWriteData ==
  ASSUME TypeInv, NEW r \in Requests, WriteData(r)
  PROVE  TypeInv'
<1>1. Go(r, "make_meta_dir") /\ req' = req /\ \A x \in Requests \ {r} : Same(x)
  BY DEF WriteData, Go, Same, TypeInv, TypeOK
<1>2. pc' \in [Requests -> PCs] /\ pc'[r] = "make_meta_dir"
  BY <1>1, GoTyped DEF PCs
<1>3. Program(r)' /\ Holds(r)'
  BY <1>1, <1>2 DEF WriteData, TypeInv, TypeOK, Program, Holds, InFlight, PutPCs, GetPCs, DeletePCs, CreatePCs, DropPCs, SweepPCs
<1>4. \A x \in Requests : Program(x)' /\ Holds(x)'
  BY <1>1, <1>3, GoTyped DEF PCs
<1>5. TypeOK'
  <2>1. data' \in [Objects -> Contents \cup {ABSENT}]
    <3>1. CASE UNCHANGED data
      BY <3>1 DEF TypeInv, TypeOK
    <3>2. CASE ~UNCHANGED data
      <4>1. Obj(req[r]) \in Objects /\ buf[r] \in Contents
        BY Named DEF WriteData, TypeInv, Holds, PutPCs
      <4>2. PICK c \in Written(buf[r], data[Obj(req[r])]) : data' = [data EXCEPT ![Obj(req[r])] = c]
        BY <3>2 DEF WriteData
      <4>3. c \in Contents \cup {ABSENT}
        BY <4>1, <4>2, WrittenRange, Members DEF TypeInv, TypeOK
      <4> QED BY <4>2, <4>3 DEF TypeInv, TypeOK
    <3> QED BY <3>1, <3>2
  <2> QED BY <1>2, <2>1 DEF WriteData, TypeInv, TypeOK
<1> QED BY <1>4, <1>5 DEF TypeInv

LEMMA TypeMakeMetaDir ==
  ASSUME TypeInv, NEW r \in Requests, MakeMetaDir(r)
  PROVE  TypeInv'
<1>1. Go(r, "open_meta") /\ req' = req /\ \A x \in Requests \ {r} : Same(x)
  BY DEF MakeMetaDir, Go, Same, TypeInv, TypeOK
<1>2. pc' \in [Requests -> PCs] /\ pc'[r] = "open_meta"
  BY <1>1, GoTyped DEF PCs
<1>3. Program(r)' /\ Holds(r)'
  BY <1>1, <1>2 DEF MakeMetaDir, TypeInv, TypeOK, Program, Holds, InFlight, PutPCs, GetPCs, DeletePCs, CreatePCs, DropPCs, SweepPCs
<1>4. \A x \in Requests : Program(x)' /\ Holds(x)'
  BY <1>1, <1>3, GoTyped DEF PCs
<1>5. TypeOK'
  <2>1. dirs' \subseteq Buckets \X {"data", "meta"} \X (Dirs \cup {ROOT})
    BY Named, PathsTyped DEF MakeMetaDir, TypeInv, TypeOK, PutPCs
  <2> QED BY <1>2, <2>1 DEF MakeMetaDir, TypeInv, TypeOK
<1> QED BY <1>4, <1>5 DEF TypeInv

LEMMA TypeWriteMeta ==
  ASSUME TypeInv, NEW r \in Requests, WriteMeta(r)
  PROVE  TypeInv'
<1>1. Go(r, "emit") /\ req' = req /\ \A x \in Requests \ {r} : Same(x)
  BY DEF WriteMeta, Go, Same, TypeInv, TypeOK
<1>2. pc' \in [Requests -> PCs] /\ pc'[r] = "emit"
  BY <1>1, GoTyped DEF PCs
<1>3. Program(r)' /\ Holds(r)'
  BY <1>1, <1>2 DEF WriteMeta, TypeInv, TypeOK, Program, Holds, InFlight, PutPCs, GetPCs, DeletePCs, CreatePCs, DropPCs, SweepPCs, EmitKinds
<1>4. \A x \in Requests : Program(x)' /\ Holds(x)'
  BY <1>1, <1>3, GoTyped DEF PCs
<1>5. TypeOK'
  <2>1. meta' \in [Objects -> Documents \cup {ABSENT, EMPTY, MANGLED}]
    <3>1. CASE UNCHANGED meta
      BY <3>1 DEF TypeInv, TypeOK
    <3>2. CASE ~UNCHANGED meta
      <4>1. Obj(req[r]) \in Objects /\ Describes(buf[r]) \in Documents
        BY Named, Members DEF WriteMeta, TypeInv, Holds, PutPCs
      <4>2. PICK c \in Written(Describes(buf[r]), meta[Obj(req[r])]) :
              meta' = [meta EXCEPT ![Obj(req[r])] = c]
        BY <3>2 DEF WriteMeta
      <4>3. c \in Documents \cup {ABSENT, EMPTY, MANGLED}
        BY <4>1, <4>2, WrittenRange DEF TypeInv, TypeOK
      <4> QED BY <4>2, <4>3 DEF TypeInv, TypeOK
    <3> QED BY <3>1, <3>2
  <2> QED BY <1>2, <2>1 DEF WriteMeta, TypeInv, TypeOK
<1> QED BY <1>4, <1>5 DEF TypeInv

LEMMA TypeRemoveData ==
  ASSUME TypeInv, NEW r \in Requests, RemoveData(r)
  PROVE  TypeInv'
<1>1. Go(r, "rm_meta") /\ req' = req /\ \A x \in Requests \ {r} : Same(x)
  BY DEF RemoveData, Go, Same, TypeInv, TypeOK
<1>2. pc' \in [Requests -> PCs] /\ pc'[r] = "rm_meta"
  BY <1>1, GoTyped DEF PCs
<1>3. Program(r)' /\ Holds(r)'
  BY <1>1, <1>2 DEF RemoveData, TypeInv, TypeOK, Program, Holds, InFlight, PutPCs, GetPCs, DeletePCs, CreatePCs, DropPCs, SweepPCs
<1>4. \A x \in Requests : Program(x)' /\ Holds(x)'
  BY <1>1, <1>3, GoTyped DEF PCs
<1>5. TypeOK'
  BY <1>2 DEF RemoveData, TypeInv, TypeOK
<1> QED BY <1>4, <1>5 DEF TypeInv

LEMMA TypeRemoveMeta ==
  ASSUME TypeInv, NEW r \in Requests, RemoveMeta(r)
  PROVE  TypeInv'
<1>1. Go(r, "rm_parent") /\ req' = req /\ \A x \in Requests \ {r} : Same(x)
  BY DEF RemoveMeta, Go, Same, TypeInv, TypeOK
<1>2. pc' \in [Requests -> PCs] /\ pc'[r] = "rm_parent"
  BY <1>1, GoTyped DEF PCs
<1>3. Program(r)' /\ Holds(r)'
  <2>1. Program(r)'
    BY <1>1, <1>2 DEF RemoveMeta, TypeInv, Program, InFlight, PutPCs, GetPCs, DeletePCs, CreatePCs, DropPCs, SweepPCs
  <2>2. cursor'[r] \in Dirs \cup {ROOT}
    <3>1. req[r].key \in Keys /\ cursor'[r] = Parent[req[r].key]
      BY Named DEF RemoveMeta, TypeInv, TypeOK, DeletePCs
    <3> QED BY <3>1, Paths DEF PathAssumption
  <2> QED BY <1>2, <2>1, <2>2 DEF Holds, PutPCs
<1>4. \A x \in Requests : Program(x)' /\ Holds(x)'
  BY <1>1, <1>3, GoTyped DEF PCs
<1>5. TypeOK'
  <2>1. cursor' \in [Requests -> Names \cup Dirs \cup {ROOT, NONE}]
    BY Named, Paths DEF RemoveMeta, TypeInv, TypeOK, DeletePCs, PathAssumption
  <2> QED BY <1>2, <2>1, Members DEF RemoveMeta, Unname, TypeInv, TypeOK
<1> QED BY <1>4, <1>5 DEF TypeInv

LEMMA TypeMakeBucket ==
  ASSUME TypeInv, NEW r \in Requests, MakeBucket(r)
  PROVE  TypeInv'
<1>1. Go(r, "make_meta_root") /\ req' = req /\ \A x \in Requests \ {r} : Same(x)
  BY DEF MakeBucket, Go, Same, TypeInv, TypeOK
<1>2. pc' \in [Requests -> PCs] /\ pc'[r] = "make_meta_root"
  BY <1>1, GoTyped DEF PCs
<1>3. Program(r)' /\ Holds(r)'
  BY <1>1, <1>2 DEF MakeBucket, TypeInv, TypeOK, Program, Holds, InFlight, PutPCs, GetPCs, DeletePCs, CreatePCs, DropPCs, SweepPCs
<1>4. \A x \in Requests : Program(x)' /\ Holds(x)'
  BY <1>1, <1>3, GoTyped DEF PCs
<1>5. TypeOK'
  <2>1. req[r].bucket \in Buckets
    BY Named DEF MakeBucket, CreatePCs
  <2> QED BY <1>2, <2>1 DEF MakeBucket, TypeInv, TypeOK
<1> QED BY <1>4, <1>5 DEF TypeInv

LEMMA TypeMakeMetaRoot ==
  ASSUME TypeInv, NEW r \in Requests, MakeMetaRoot(r)
  PROVE  TypeInv'
<1>1. Go(r, "write_info") /\ req' = req /\ \A x \in Requests \ {r} : Same(x)
  BY DEF MakeMetaRoot, Go, Same, TypeInv, TypeOK
<1>2. pc' \in [Requests -> PCs] /\ pc'[r] = "write_info"
  BY <1>1, GoTyped DEF PCs
<1>3. Program(r)' /\ Holds(r)'
  BY <1>1, <1>2 DEF MakeMetaRoot, TypeInv, TypeOK, Program, Holds, InFlight, PutPCs, GetPCs, DeletePCs, CreatePCs, DropPCs, SweepPCs
<1>4. \A x \in Requests : Program(x)' /\ Holds(x)'
  BY <1>1, <1>3, GoTyped DEF PCs
<1>5. TypeOK'
  <2>1. req[r].bucket \in Buckets
    BY Named DEF MakeMetaRoot, CreatePCs
  <2> QED BY <1>2, <2>1 DEF MakeMetaRoot, TypeInv, TypeOK
<1> QED BY <1>4, <1>5 DEF TypeInv

LEMMA TypeRemoveOrphan ==
  ASSUME TypeInv, NEW r \in Requests, RemoveOrphan(r)
  PROVE  TypeInv'
<1>1. Go(r, "sweep") /\ req' = req /\ \A x \in Requests \ {r} : Same(x)
  BY DEF RemoveOrphan, Go, Same, TypeInv, TypeOK
<1>2. pc' \in [Requests -> PCs] /\ pc'[r] = "sweep"
  BY <1>1, GoTyped DEF PCs
<1>3. Program(r)' /\ Holds(r)'
  BY <1>1, <1>2 DEF RemoveOrphan, TypeInv, TypeOK, Program, Holds, InFlight, PutPCs, GetPCs, DeletePCs, CreatePCs, DropPCs, SweepPCs
<1>4. \A x \in Requests : Program(x)' /\ Holds(x)'
  BY <1>1, <1>3, GoTyped DEF PCs
<1>5. TypeOK'
  BY <1>2 DEF RemoveOrphan, Unname, TypeInv, TypeOK
<1> QED BY <1>4, <1>5 DEF TypeInv

LEMMA TypeOpenData ==
  ASSUME TypeInv, NEW r \in Requests, OpenData(r)
  PROVE  TypeInv'
<1>1. CASE Finish(r, Plain("InternalError"))
  <2>1. UNCHANGED <<req, buf, cursor, todo>>
    BY <1>1 DEF OpenData, Finish, Fail, Go, TypeInv, TypeOK, Plain
  <2>2. /\ pc' \in [Requests -> PCs] /\ reply' \in [Requests -> Reply]
        /\ \A x \in Requests : Program(x)' /\ Holds(x)'
    BY <1>1, <2>1, FailTyped DEF Codes
  <2>3. TypeOK'
    BY <1>1, <2>1, <2>2, Members DEF OpenData, Go, Finish, Fail, fs, TypeInv, TypeOK
  <2> QED BY <2>2, <2>3 DEF TypeInv
<1>2. CASE Go(r, "write_data") /\ UNCHANGED <<reply, events, dirty>>
  <2>1. req' = req /\ \A x \in Requests \ {r} : Same(x)
    BY <1>2 DEF OpenData, Finish, Fail, Go, Same, TypeInv, TypeOK
  <2>2. pc' \in [Requests -> PCs] /\ pc'[r] = "write_data"
    BY <1>2, <2>1, GoTyped DEF PCs
  <2>3. Program(r)' /\ Holds(r)'
    BY <1>2, <2>1, <2>2 DEF OpenData, TypeInv, TypeOK, Program, Holds, InFlight, PutPCs, GetPCs, DeletePCs, CreatePCs, DropPCs, SweepPCs
  <2>4. \A x \in Requests : Program(x)' /\ Holds(x)'
    BY <1>2, <2>1, <2>3, GoTyped DEF PCs
  <2>5. TypeOK'
    BY <1>2, <2>2, Members DEF OpenData, TypeInv, TypeOK
  <2> QED BY <2>4, <2>5 DEF TypeInv
<1> QED BY <1>1, <1>2 DEF OpenData, Fail

LEMMA TypeOpenMeta ==
  ASSUME TypeInv, NEW r \in Requests, OpenMeta(r)
  PROVE  TypeInv'
<1>1. CASE Finish(r, Plain("InternalError"))
  <2>1. UNCHANGED <<req, buf, cursor, todo>>
    BY <1>1 DEF OpenMeta, Finish, Fail, Go, TypeInv, TypeOK, Plain
  <2>2. /\ pc' \in [Requests -> PCs] /\ reply' \in [Requests -> Reply]
        /\ \A x \in Requests : Program(x)' /\ Holds(x)'
    BY <1>1, <2>1, FailTyped DEF Codes
  <2>3. TypeOK'
    BY <1>1, <2>1, <2>2, Members DEF OpenMeta, Go, Finish, Fail, fs, TypeInv, TypeOK
  <2> QED BY <2>2, <2>3 DEF TypeInv
<1>2. CASE Go(r, "write_meta") /\ UNCHANGED <<reply, events, dirty>>
  <2>1. req' = req /\ \A x \in Requests \ {r} : Same(x)
    BY <1>2 DEF OpenMeta, Finish, Fail, Go, Same, TypeInv, TypeOK
  <2>2. pc' \in [Requests -> PCs] /\ pc'[r] = "write_meta"
    BY <1>2, <2>1, GoTyped DEF PCs
  <2>3. Program(r)' /\ Holds(r)'
    BY <1>2, <2>1, <2>2 DEF OpenMeta, TypeInv, TypeOK, Program, Holds, InFlight, PutPCs, GetPCs, DeletePCs, CreatePCs, DropPCs, SweepPCs
  <2>4. \A x \in Requests : Program(x)' /\ Holds(x)'
    BY <1>2, <2>1, <2>3, GoTyped DEF PCs
  <2>5. TypeOK'
    BY <1>2, <2>2, Members DEF OpenMeta, TypeInv, TypeOK
  <2> QED BY <2>4, <2>5 DEF TypeInv
<1> QED BY <1>1, <1>2 DEF OpenMeta, Fail

LEMMA TypeCheckDst ==
  ASSUME TypeInv, NEW r \in Requests, CheckDst(r)
  PROVE  TypeInv'
<1>1. CASE Finish(r, Plain("NoSuchBucket"))
  <2>1. UNCHANGED <<req, buf, cursor, todo>>
    BY <1>1 DEF CheckDst, Finish, Fail, Go, TypeInv, TypeOK, Plain
  <2>2. /\ pc' \in [Requests -> PCs] /\ reply' \in [Requests -> Reply]
        /\ \A x \in Requests : Program(x)' /\ Holds(x)'
    BY <1>1, <2>1, FailTyped DEF Codes
  <2>3. TypeOK'
    BY <1>1, <2>1, <2>2, Members DEF CheckDst, Go, Finish, Fail, fs, TypeInv, TypeOK
  <2> QED BY <2>2, <2>3 DEF TypeInv
<1>2. CASE Go(r, "make_parent") /\ UNCHANGED <<reply, events, dirty>>
  <2>1. req' = req /\ \A x \in Requests \ {r} : Same(x)
    BY <1>2 DEF CheckDst, Finish, Fail, Go, Same, TypeInv, TypeOK
  <2>2. pc' \in [Requests -> PCs] /\ pc'[r] = "make_parent"
    BY <1>2, <2>1, GoTyped DEF PCs
  <2>3. Program(r)' /\ Holds(r)'
    BY <1>2, <2>1, <2>2 DEF CheckDst, TypeInv, TypeOK, Program, Holds, InFlight, PutPCs, GetPCs, DeletePCs, CreatePCs, DropPCs, SweepPCs
  <2>4. \A x \in Requests : Program(x)' /\ Holds(x)'
    BY <1>2, <2>1, <2>3, GoTyped DEF PCs
  <2>5. TypeOK'
    BY <1>2, <2>2, Members DEF CheckDst, fs, TypeInv, TypeOK
  <2> QED BY <2>4, <2>5 DEF TypeInv
<1> QED BY <1>1, <1>2 DEF CheckDst, Fail

LEMMA TypeWriteInfo ==
  ASSUME TypeInv, NEW r \in Requests, WriteInfo(r)
  PROVE  TypeInv'
<1>1. CASE Finish(r, Plain("InternalError"))
  <2>1. UNCHANGED <<req, buf, cursor, todo>>
    BY <1>1 DEF WriteInfo, Finish, Fail, Go, TypeInv, TypeOK, Plain
  <2>2. /\ pc' \in [Requests -> PCs] /\ reply' \in [Requests -> Reply]
        /\ \A x \in Requests : Program(x)' /\ Holds(x)'
    BY <1>1, <2>1, FailTyped DEF Codes
  <2>3. TypeOK'
    BY <1>1, <2>1, <2>2, Members DEF WriteInfo, Go, Finish, Fail, fs, TypeInv, TypeOK
  <2> QED BY <2>2, <2>3 DEF TypeInv
<1>2. CASE Go(r, "emit") /\ UNCHANGED <<reply, events, dirty>>
  <2>1. req' = req /\ \A x \in Requests \ {r} : Same(x)
    BY <1>2 DEF WriteInfo, Finish, Fail, Go, Same, TypeInv, TypeOK
  <2>2. pc' \in [Requests -> PCs] /\ pc'[r] = "emit"
    BY <1>2, <2>1, GoTyped DEF PCs
  <2>3. Program(r)' /\ Holds(r)'
    BY <1>2, <2>1, <2>2 DEF WriteInfo, TypeInv, TypeOK, Program, Holds, InFlight, PutPCs, GetPCs, DeletePCs, CreatePCs, DropPCs, SweepPCs, EmitKinds
  <2>4. \A x \in Requests : Program(x)' /\ Holds(x)'
    BY <1>2, <2>1, <2>3, GoTyped DEF PCs
  <2>5. TypeOK'
    <3>1. req[r].bucket \in Buckets
      BY Named DEF WriteInfo, CreatePCs
    <3> QED BY <1>2, <2>2, <3>1 DEF WriteInfo, TypeInv, TypeOK
  <2> QED BY <2>4, <2>5 DEF TypeInv
<1> QED BY <1>1, <1>2 DEF WriteInfo, Fail

LEMMA TypeIsFile ==
  ASSUME TypeInv, NEW r \in Requests, IsFile(r)
  PROVE  TypeInv'
<1>1. CASE Fail(r, "NoSuchKey")
  <2>1. UNCHANGED <<req, buf, cursor, todo>>
    BY DEF IsFile
  <2>2. /\ pc' \in [Requests -> PCs] /\ reply' \in [Requests -> Reply]
        /\ \A x \in Requests : Program(x)' /\ Holds(x)'
    BY <1>1, <2>1, FailTyped DEF Codes, Fail
  <2>3. TypeOK'
    BY <1>1, <2>1, <2>2 DEF IsFile, fs, Fail, TypeInv, TypeOK
  <2> QED BY <2>2, <2>3 DEF TypeInv
<1>2. ASSUME NEW p \in {"read_meta", "read_data"}, Go(r, p), UNCHANGED <<reply, events, dirty>>,
             p = "read_meta" => req[r].kind = "head"
      PROVE  TypeInv'
  <2>1. req' = req /\ \A x \in Requests \ {r} : Same(x)
    BY <1>2 DEF IsFile, Go, Same, TypeInv, TypeOK
  <2>2. p \in PCs
    BY <1>2 DEF PCs
  <2>3. pc' \in [Requests -> PCs] /\ pc'[r] = p
    BY <1>2, <2>1, <2>2, GoTyped
  <2>4. Program(r)' /\ Holds(r)'
    BY <1>2, <2>1, <2>3 DEF IsFile, TypeInv, TypeOK, Program, Holds, InFlight, PutPCs, GetPCs, DeletePCs, CreatePCs, DropPCs, SweepPCs
  <2>5. \A x \in Requests : Program(x)' /\ Holds(x)'
    BY <1>2, <2>1, <2>2, <2>4, GoTyped
  <2>6. TypeOK'
    BY <1>2, <2>3 DEF IsFile, fs, TypeInv, TypeOK
  <2> QED BY <2>5, <2>6 DEF TypeInv
<1> QED BY <1>1, <1>2 DEF IsFile

LEMMA TypeReadData ==
  ASSUME TypeInv, NEW r \in Requests, ReadData(r)
  PROVE  TypeInv'
<1>1. CASE Fail(r, "InternalError") /\ UNCHANGED buf
  <2>1. UNCHANGED <<req, buf, cursor, todo>>
    BY <1>1 DEF ReadData
  <2>2. /\ pc' \in [Requests -> PCs] /\ reply' \in [Requests -> Reply]
        /\ \A x \in Requests : Program(x)' /\ Holds(x)'
    BY <1>1, <2>1, FailTyped DEF Codes, Fail
  <2>3. TypeOK'
    BY <1>1, <2>1, <2>2 DEF ReadData, fs, Fail, TypeInv, TypeOK
  <2> QED BY <2>2, <2>3 DEF TypeInv
<1>2. CASE /\ data[Source(req[r])] # ABSENT
           /\ \E c \in Readable(Source(req[r])) : buf' = [buf EXCEPT ![r] = c]
           /\ Go(r, "read_meta") /\ UNCHANGED <<reply, events, dirty>>
  <2>1. req' = req /\ \A x \in Requests \ {r} : Same(x)
    BY <1>2 DEF ReadData, Go, Same, TypeInv, TypeOK
  <2>2. pc' \in [Requests -> PCs] /\ pc'[r] = "read_meta"
    BY <1>2, <2>1, GoTyped DEF PCs
  <2>3. PICK c \in Readable(Source(req[r])) : buf' = [buf EXCEPT ![r] = c]
    BY <1>2
  <2>4. c \in Contents
    <3>1. Source(req[r]) \in Objects
      BY Named DEF ReadData, GetPCs
    <3>2. data[Source(req[r])] \in Contents
      BY <1>2, <3>1 DEF TypeInv, TypeOK
    <3> QED BY <2>3, <3>2, Members DEF Readable
  <2>5. Program(r)' /\ Holds(r)'
    BY <1>2, <2>1, <2>2, <2>3, <2>4
       DEF ReadData, TypeInv, TypeOK, Program, Holds, InFlight, PutPCs, GetPCs, DeletePCs, CreatePCs, DropPCs, SweepPCs
  <2>6. \A x \in Requests : Program(x)' /\ Holds(x)'
    BY <1>2, <2>1, <2>5, GoTyped DEF PCs
  <2>7. TypeOK'
    BY <1>2, <2>2, <2>3, <2>4 DEF ReadData, fs, TypeInv, TypeOK
  <2> QED BY <2>6, <2>7 DEF TypeInv
<1> QED BY <1>1, <1>2 DEF ReadData

LEMMA TypeReadMeta ==
  ASSUME TypeInv, NEW r \in Requests, ReadMeta(r)
  PROVE  TypeInv'
<1> DEFINE doc == meta[Source(req[r])]
<1>0. UNCHANGED <<req, buf, cursor, todo>>
  BY DEF ReadMeta
<1>1. ASSUME NEW code \in Codes, Fail(r, code)
      PROVE  TypeInv'
  <2>1. /\ pc' \in [Requests -> PCs] /\ reply' \in [Requests -> Reply]
        /\ \A x \in Requests : Program(x)' /\ Holds(x)'
    BY <1>0, <1>1, FailTyped DEF Fail
  <2>2. TypeOK'
    BY <1>0, <1>1, <2>1 DEF ReadMeta, fs, Fail, TypeInv, TypeOK
  <2> QED BY <2>1, <2>2 DEF TypeInv
<1>2. CASE req[r].kind = "copy" /\ Go(r, "check_dst") /\ UNCHANGED <<reply, events, dirty>>
  <2>1. req' = req /\ \A x \in Requests \ {r} : Same(x)
    BY <1>0, <1>2 DEF Go, Same, TypeInv, TypeOK
  <2>2. pc' \in [Requests -> PCs] /\ pc'[r] = "check_dst"
    BY <1>2, <2>1, GoTyped DEF PCs
  <2>3. Program(r)' /\ Holds(r)'
    BY <1>0, <1>2, <2>2 DEF ReadMeta, TypeInv, TypeOK, Program, Holds, InFlight, PutPCs, GetPCs, DeletePCs, CreatePCs, DropPCs, SweepPCs
  <2>4. \A x \in Requests : Program(x)' /\ Holds(x)'
    BY <1>2, <2>1, <2>3, GoTyped DEF PCs
  <2>5. TypeOK'
    BY <1>0, <1>2, <2>2 DEF ReadMeta, fs, TypeInv, TypeOK
  <2> QED BY <2>4, <2>5 DEF TypeInv
<1>3. CASE /\ doc \in Documents /\ UNCHANGED <<events, dirty>>
           /\ Finish(r, [code |-> "Ok", data |-> buf[r], etag |-> doc.of])
  <2>1. doc.of \in Contents
    <3>1. PICK c \in Contents : doc = Describes(c)
      BY <1>3 DEF Documents
    <3>2. doc.of = c
      BY ONLY <3>1 DEF Describes
    <3> QED BY <3>1, <3>2
  <2>2. [code |-> "Ok", data |-> buf[r], etag |-> doc.of] \in Reply
    BY <2>1 DEF Reply, Codes, TypeInv, TypeOK
  <2>3. pc' \in [Requests -> PCs] /\ reply' \in [Requests -> Reply]
    BY <1>3, <2>2 DEF Finish, TypeInv, TypeOK, PCs
  <2>4. ASSUME NEW x \in Requests PROVE Program(x)' /\ Holds(x)'
    <3>1. CASE x = r
      <4>1. pc'[r] = "done"
        BY <1>3 DEF TypeInv, TypeOK, Finish
      <4> QED BY <4>1, <3>1 DEF Program, Holds, InFlight, PutPCs, GetPCs, DeletePCs, CreatePCs, DropPCs, SweepPCs
    <3>2. CASE x # r
      <4>1. Same(x)
        BY <1>0, <1>3, <3>2 DEF Same, Finish, TypeInv, TypeOK
      <4> QED BY <4>1, SameKeeps DEF TypeInv
    <3> QED BY <3>1, <3>2
  <2>5. TypeOK'
    BY <1>0, <1>3, <2>3 DEF ReadMeta, fs, TypeInv, TypeOK
  <2> QED BY <2>4, <2>5 DEF TypeInv
<1> QED BY <1>1, <1>2, <1>3 DEF ReadMeta, Codes

LEMMA TypeEmit ==
  ASSUME TypeInv, NEW r \in Requests, Emit(r)
  PROVE  TypeInv'
<1>1. UNCHANGED <<req, buf, cursor, todo>> /\ Finish(r, Plain("Ok"))
  BY DEF Emit
<1>2. /\ pc' \in [Requests -> PCs] /\ reply' \in [Requests -> Reply]
      /\ \A x \in Requests : Program(x)' /\ Holds(x)'
  BY <1>1, FailTyped DEF Codes
<1>3. events' \in Seq(Events)
  <2>1. Event(req[r]) \in Events
    BY EventTyped DEF TypeInv, TypeOK
  <2> QED BY <2>1 DEF Emit, TypeInv, TypeOK
<1>4. dirty' \subseteq Objects
  BY DEF Emit, TypeInv, TypeOK
<1>5. TypeOK'
  BY <1>1, <1>2, <1>3, <1>4 DEF Emit, fs, TypeInv, TypeOK
<1> QED BY <1>2, <1>5 DEF TypeInv

LEMMA TypeRemoveParent ==
  ASSUME TypeInv, NEW r \in Requests, RemoveParent(r)
  PROVE  TypeInv'
<1>1. UNCHANGED <<req, buf, todo>> /\ pc[r] = "rm_parent" /\ req[r].kind = "delete"
  BY DEF RemoveParent, TypeInv, Program, DeletePCs
<1>2. CASE Go(r, "emit") /\ UNCHANGED <<dirs, cursor>>
  <2>1. req' = req /\ \A x \in Requests \ {r} : Same(x)
    BY <1>1, <1>2 DEF Go, Same, TypeInv, TypeOK
  <2>2. pc' \in [Requests -> PCs] /\ pc'[r] = "emit"
    BY <1>2, <2>1, GoTyped DEF PCs
  <2>3. Program(r)' /\ Holds(r)'
    BY <1>1, <2>2 DEF TypeInv, Program, Holds, InFlight, EmitKinds, PutPCs, GetPCs, DeletePCs, CreatePCs, DropPCs, SweepPCs
  <2>4. \A x \in Requests : Program(x)' /\ Holds(x)'
    BY <1>2, <2>1, <2>3, GoTyped DEF PCs
  <2>5. TypeOK'
    BY <1>2, <2>2 DEF RemoveParent, TypeInv, TypeOK
  <2> QED BY <2>4, <2>5 DEF TypeInv
<1>3. CASE /\ pc' = pc /\ cursor[r] # ROOT
           /\ dirs' = dirs \ {<<req[r].bucket, "data", cursor[r]>>}
           /\ cursor' = [cursor EXCEPT ![r] = Parent[cursor[r]]]
  <2>1. Parent[cursor[r]] \in Dirs \cup {ROOT}
    BY <1>1, <1>3, Paths DEF TypeInv, Holds, PathAssumption
  <2>2. cursor' \in [Requests -> Names \cup Dirs \cup {ROOT, NONE}]
        /\ cursor'[r] \in Dirs \cup {ROOT}
    BY <1>3, <2>1 DEF TypeInv, TypeOK
  <2>3. TypeOK'
    BY <1>3, <2>2 DEF RemoveParent, TypeInv, TypeOK
  <2>4. ASSUME NEW x \in Requests PROVE Program(x)' /\ Holds(x)'
    <3>1. CASE x = r
      BY <1>1, <1>3, <2>2, <3>1 DEF TypeInv, Program, Holds, InFlight, PutPCs, GetPCs, DeletePCs, CreatePCs, DropPCs, SweepPCs
    <3>2. CASE x # r
      <4>1. Same(x)
        BY <1>1, <1>3, <3>2 DEF Same, TypeInv, TypeOK
      <4> QED BY <4>1, SameKeeps DEF TypeInv
    <3> QED BY <3>1, <3>2
  <2> QED BY <2>3, <2>4 DEF TypeInv
<1> QED BY <1>2, <1>3 DEF RemoveParent

LEMMA TypeScan ==
  ASSUME TypeInv, NEW r \in Requests, Scan(r)
  PROVE  TypeInv'
<1>0. UNCHANGED <<req, buf, cursor>> /\ pc[r] = "scan"
  BY DEF Scan
<1>1. ASSUME NEW code \in Codes, Fail(r, code), UNCHANGED todo
      PROVE  TypeInv'
  <2>1. /\ pc' \in [Requests -> PCs] /\ reply' \in [Requests -> Reply]
        /\ \A x \in Requests : Program(x)' /\ Holds(x)'
    BY <1>0, <1>1, FailTyped DEF Fail
  <2>2. TypeOK'
    BY <1>0, <1>1, <2>1 DEF Scan, fs, Fail, TypeInv, TypeOK
  <2> QED BY <2>1, <2>2 DEF TypeInv
<1>2. CASE /\ todo' = [todo EXCEPT ![r] = Within(req[r].bucket)]
           /\ Go(r, "rm_bucket") /\ UNCHANGED <<reply, events, dirty>>
  <2>1. req' = req /\ \A x \in Requests \ {r} : Same(x)
    BY <1>0, <1>2 DEF Go, Same, TypeInv, TypeOK
  <2>2. pc' \in [Requests -> PCs] /\ pc'[r] = "rm_bucket"
    BY <1>2, <2>1, GoTyped DEF PCs
  <2>3. Program(r)' /\ Holds(r)'
    BY <1>0, <2>2 DEF TypeInv, Program, Holds, InFlight, PutPCs, GetPCs, DeletePCs, CreatePCs, DropPCs, SweepPCs
  <2>4. \A x \in Requests : Program(x)' /\ Holds(x)'
    BY <1>2, <2>1, <2>3, GoTyped DEF PCs
  <2>5. todo' \in [Requests -> SUBSET Names]
    <3>1. Within(req[r].bucket) \subseteq Names
      BY <1>0, Named, WithinNames DEF DropPCs, TypeInv
    <3> QED BY <1>2, <3>1 DEF TypeInv, TypeOK
  <2>6. TypeOK'
    BY <1>0, <1>2, <2>2, <2>5 DEF Scan, fs, TypeInv, TypeOK
  <2> QED BY <2>4, <2>6 DEF TypeInv
<1> QED BY <1>1, <1>2 DEF Scan, Codes

LEMMA TypeNoticeEntry ==
  ASSUME TypeInv, NEW r \in Requests, NoticeEntry(r)
  PROVE  TypeInv'
<1>1. pc[r] = "rm_bucket" /\ UNCHANGED <<pc, req, buf, cursor>>
  BY DEF NoticeEntry
<1>2. PICK e \in Within(req[r].bucket) : todo' = [todo EXCEPT ![r] = @ \cup {e}]
  BY DEF NoticeEntry
<1>3. e \in Names
  BY <1>1, <1>2, Named, WithinNames DEF DropPCs, TypeInv
<1>4. TypeOK'
  BY <1>2, <1>3 DEF NoticeEntry, fs, TypeInv, TypeOK
<1>5. ASSUME NEW x \in Requests PROVE Program(x)' /\ Holds(x)'
  <2>1. pc[x] \in SweepPCs => todo'[x] = todo[x]
    BY <1>1, <1>2 DEF TypeInv, TypeOK, SweepPCs
  <2> QED BY <1>1, <2>1 DEF TypeInv, Program, Holds, InFlight, SweepPCs
<1> QED BY <1>4, <1>5 DEF TypeInv

LEMMA TypeRemoveEntry ==
  ASSUME TypeInv, NEW r \in Requests, RemoveEntry(r)
  PROVE  TypeInv'
<1>1. pc[r] = "rm_bucket" /\ UNCHANGED <<pc, req, buf, cursor, reply, events, dirty>>
  BY DEF RemoveEntry
<1>2. PICK e : todo' = [todo EXCEPT ![r] = @ \ {e}]
  BY DEF RemoveEntry
<1>3. /\ dirs' \subseteq dirs /\ info' \subseteq info
      /\ unlinked' \subseteq Requests
      /\ data' \in [Objects -> Contents \cup {ABSENT}]
      /\ meta' \in [Objects -> Documents \cup {ABSENT, EMPTY, MANGLED}]
  BY DEF RemoveEntry, Unname, TypeInv, TypeOK
<1>4. TypeOK'
  BY <1>1, <1>2, <1>3 DEF TypeInv, TypeOK
<1>5. ASSUME NEW x \in Requests PROVE Program(x)' /\ Holds(x)'
  <2>1. pc[x] \in SweepPCs => todo'[x] = todo[x]
    BY <1>1, <1>2 DEF TypeInv, TypeOK, SweepPCs
  <2> QED BY <1>1, <2>1 DEF TypeInv, Program, Holds, InFlight, SweepPCs
<1> QED BY <1>4, <1>5 DEF TypeInv

LEMMA TypeRemoveBucketDir ==
  ASSUME TypeInv, NEW r \in Requests, RemoveBucketDir(r)
  PROVE  TypeInv'
<1>0. UNCHANGED <<req, buf, cursor, todo>> /\ pc[r] = "rm_bucket"
  BY DEF RemoveBucketDir
<1>1. CASE Fail(r, "InternalError") /\ UNCHANGED dirs
  <2>1. /\ pc' \in [Requests -> PCs] /\ reply' \in [Requests -> Reply]
        /\ \A x \in Requests : Program(x)' /\ Holds(x)'
    BY <1>0, <1>1, FailTyped DEF Fail, Codes
  <2>2. TypeOK'
    BY <1>0, <1>1, <2>1 DEF RemoveBucketDir, Fail, TypeInv, TypeOK
  <2> QED BY <2>1, <2>2 DEF TypeInv
<1>2. CASE /\ dirs' = dirs \ {<<req[r].bucket, "data", ROOT>>}
           /\ Go(r, "emit") /\ UNCHANGED <<reply, events, dirty>>
  <2>1. req' = req /\ \A x \in Requests \ {r} : Same(x)
    BY <1>0, <1>2 DEF Go, Same, TypeInv, TypeOK
  <2>2. pc' \in [Requests -> PCs] /\ pc'[r] = "emit"
    BY <1>2, <2>1, GoTyped DEF PCs
  <2>3. Program(r)' /\ Holds(r)'
    BY <1>0, <2>2 DEF TypeInv, Program, Holds, InFlight, EmitKinds, PutPCs, GetPCs, DeletePCs, CreatePCs, DropPCs, SweepPCs
  <2>4. \A x \in Requests : Program(x)' /\ Holds(x)'
    BY <1>2, <2>1, <2>3, GoTyped DEF PCs
  <2>5. TypeOK'
    BY <1>0, <1>2, <2>2 DEF RemoveBucketDir, TypeInv, TypeOK
  <2> QED BY <2>4, <2>5 DEF TypeInv
<1> QED BY <1>1, <1>2 DEF RemoveBucketDir

LEMMA TypeSweep ==
  ASSUME TypeInv, NEW r \in Requests, Sweep(r)
  PROVE  TypeInv'
<1>0. UNCHANGED <<req, buf>> /\ pc[r] = "sweep" /\ req[r].kind = "cleanup"
  BY DEF Sweep, TypeInv, Program, SweepPCs
<1>1. CASE Finish(r, Plain("Ok")) /\ UNCHANGED <<dirs, cursor, todo>>
  <2>1. /\ pc' \in [Requests -> PCs] /\ reply' \in [Requests -> Reply]
        /\ \A x \in Requests : Program(x)' /\ Holds(x)'
    BY <1>0, <1>1, FailTyped DEF Codes
  <2>2. TypeOK'
    BY <1>0, <1>1, <2>1 DEF Sweep, TypeInv, TypeOK
  <2> QED BY <2>1, <2>2 DEF TypeInv
<1>2. ASSUME NEW e \in todo[r], todo' = [todo EXCEPT ![r] = @ \ {e}], UNCHANGED reply,
             \/ e[3] \in Keys /\ Go(r, "rm_orphan") /\ cursor' = [cursor EXCEPT ![r] = e]
             \/ UNCHANGED <<pc, cursor>>,
             dirs' \subseteq dirs
      PROVE  TypeInv'
  <2>1. e \in Buckets \X {"meta"} \X (Keys \cup Dirs) /\ e \in Names
    BY <1>0 DEF TypeInv, Holds, Names
  <2>2. pc' \in [Requests -> PCs] /\ pc'[r] \in {"sweep", "rm_orphan"}
    BY <1>0, <1>2 DEF TypeInv, TypeOK, Go, PCs
  <2>3. cursor' \in [Requests -> Names \cup Dirs \cup {ROOT, NONE}]
    BY <1>2, <2>1 DEF TypeInv, TypeOK
  <2>4. todo' \in [Requests -> SUBSET Names]
    BY <1>2 DEF TypeInv, TypeOK
  <2>5. TypeOK'
    BY <1>0, <1>2, <2>2, <2>3, <2>4 DEF Sweep, TypeInv, TypeOK
  <2>6. pc'[r] = "rm_orphan" => cursor'[r] \in Buckets \X {"meta"} \X Keys
    BY <1>0, <1>2, <2>1 DEF TypeInv, TypeOK, Go
  <2>7. todo'[r] \subseteq Buckets \X {"meta"} \X (Keys \cup Dirs)
    BY <1>0, <1>2 DEF TypeInv, TypeOK, Holds
  <2>8. ASSUME NEW x \in Requests PROVE Program(x)' /\ Holds(x)'
    <3>1. CASE x = r
      BY <1>0, <2>2, <2>6, <2>7, <3>1 DEF TypeInv, Program, Holds, InFlight, PutPCs, GetPCs, DeletePCs, CreatePCs, DropPCs, SweepPCs
    <3>2. CASE x # r
      <4>1. Same(x)
        BY <1>0, <1>2, <3>2 DEF Same, Go, TypeInv, TypeOK
      <4> QED BY <4>1, SameKeeps DEF TypeInv
    <3> QED BY <3>1, <3>2
  <2> QED BY <2>5, <2>8 DEF TypeInv
<1> QED BY <1>1, <1>2 DEF Sweep

LEMMA TypeWriteError ==
  ASSUME TypeInv, NEW r \in Requests, WriteError(r)
  PROVE  TypeInv'
<1>1. UNCHANGED <<req, buf, cursor, todo>> /\ Fail(r, "InternalError")
  BY DEF WriteError
<1>2. /\ pc' \in [Requests -> PCs] /\ reply' \in [Requests -> Reply]
      /\ \A x \in Requests : Program(x)' /\ Holds(x)'
  BY <1>1, FailTyped DEF Fail, Codes
<1>3. /\ data' \in [Objects -> Contents \cup {ABSENT}]
      /\ meta' \in [Objects -> Documents \cup {ABSENT, EMPTY, MANGLED}]
  BY Members DEF WriteError, TypeInv, TypeOK
<1>4. TypeOK'
  BY <1>1, <1>2, <1>3 DEF WriteError, Fail, TypeInv, TypeOK
<1> QED BY <1>2, <1>4 DEF TypeInv

LEMMA TypeAbandon ==
  ASSUME TypeInv, NEW r \in Requests, Abandon(r)
  PROVE  TypeInv'
<1>1. Go(r, "lost") /\ req' = req /\ \A x \in Requests \ {r} : Same(x)
  BY DEF Abandon, Go, Same, TypeInv, TypeOK
<1>2. pc' \in [Requests -> PCs] /\ pc'[r] = "lost"
  BY <1>1, GoTyped DEF PCs
<1>3. Program(r)' /\ Holds(r)'
  BY <1>2 DEF Program, Holds, InFlight, PutPCs, GetPCs, DeletePCs, CreatePCs, DropPCs, SweepPCs
<1>4. \A x \in Requests : Program(x)' /\ Holds(x)'
  BY <1>1, <1>3, GoTyped DEF PCs
<1>5. TypeOK'
  BY <1>2 DEF Abandon, fs, TypeInv, TypeOK
<1> QED BY <1>4, <1>5 DEF TypeInv

LEMMA TypeCrash ==
  ASSUME TypeInv, Crash
  PROVE  TypeInv'
<1>1. UNCHANGED <<req, buf, cursor, todo>>
      /\ pc' = [r \in Requests |-> IF InFlight(r) THEN "lost" ELSE pc[r]]
  BY DEF Crash
<1>2. pc' \in [Requests -> PCs]
  BY <1>1 DEF TypeInv, TypeOK, PCs
<1>3. /\ data' \in [Objects -> Contents \cup {ABSENT}]
      /\ meta' \in [Objects -> Documents \cup {ABSENT, EMPTY, MANGLED}]
  BY Members DEF Crash, TypeInv, TypeOK
<1>4. TypeOK'
  BY <1>1, <1>2, <1>3 DEF Crash, TypeInv, TypeOK
<1>5. ASSUME NEW x \in Requests PROVE Program(x)' /\ Holds(x)'
  <2>1. pc'[x] \in {"idle", "done", "lost"}
    BY <1>1 DEF InFlight
  <2> QED BY <2>1 DEF Program, Holds, InFlight, PutPCs, GetPCs, DeletePCs, CreatePCs, DropPCs, SweepPCs
<1> QED BY <1>4, <1>5 DEF TypeInv

LEMMA TypeStart ==
  ASSUME TypeInv, NEW r \in Requests, Start(r)
  PROVE  TypeInv'
<1>0. pc[r] = "idle" /\ UNCHANGED <<fs, unlinked, cursor, events>>
  BY DEF Start
<1>1. PICK q \in Request :
        /\ WellFormed(q)
        /\ req' = [req EXCEPT ![r] = q]
        /\ \/ /\ \E code \in {"BucketAlreadyExists", "NoSuchBucket"} : Finish(r, Plain(code))
              /\ UNCHANGED <<buf, todo, dirty>>
           \/ /\ Go(r, Entry(q.kind))
              /\ buf' = [buf EXCEPT ![r] = q.body]
              /\ todo' = [todo EXCEPT ![r] =
                   IF q.kind = "cleanup" THEN Buckets \X {"meta"} \X (Keys \cup Dirs) ELSE {}]
              /\ dirty' = IF q.kind \in Writers THEN dirty \cup {Obj(q)} ELSE dirty
              /\ UNCHANGED reply
  BY DEF Start
<1>2. req' \in [Requests -> Request] /\ req'[r] = q
  BY <1>1 DEF TypeInv, TypeOK
<1>3. CASE /\ \E code \in {"BucketAlreadyExists", "NoSuchBucket"} : Finish(r, Plain(code))
           /\ UNCHANGED <<buf, todo, dirty>>
  <2>1. pc' \in [Requests -> PCs] /\ reply' \in [Requests -> Reply] /\ pc'[r] = "done"
    <3>1. PICK code \in {"BucketAlreadyExists", "NoSuchBucket"} : Finish(r, Plain(code))
      BY <1>3
    <3>2. Plain(code) \in Reply
      BY Members DEF Codes
    <3> QED BY <3>1, <3>2 DEF Finish, TypeInv, TypeOK, PCs
  <2>2. TypeOK'
    BY <1>0, <1>2, <1>3, <2>1 DEF fs, TypeInv, TypeOK
  <2>3. ASSUME NEW x \in Requests PROVE Program(x)' /\ Holds(x)'
    <3>1. CASE x = r
      BY <2>1, <3>1 DEF Program, Holds, InFlight, PutPCs, GetPCs, DeletePCs, CreatePCs, DropPCs, SweepPCs
    <3>2. CASE x # r
      <4>1. Same(x)
        BY <1>0, <1>1, <1>3, <3>2 DEF Same, Finish, TypeInv, TypeOK
      <4> QED BY <4>1, SameKeeps DEF TypeInv
    <3> QED BY <3>1, <3>2
  <2> QED BY <2>2, <2>3 DEF TypeInv
<1>4. CASE /\ Go(r, Entry(q.kind))
           /\ buf' = [buf EXCEPT ![r] = q.body]
           /\ todo' = [todo EXCEPT ![r] =
                IF q.kind = "cleanup" THEN Buckets \X {"meta"} \X (Keys \cup Dirs) ELSE {}]
           /\ dirty' = IF q.kind \in Writers THEN dirty \cup {Obj(q)} ELSE dirty
           /\ UNCHANGED reply
  <2>1. Entry(q.kind) \in PCs
    BY <1>1, EntryProgram
  <2>2. pc' \in [Requests -> PCs] /\ pc'[r] = Entry(q.kind)
    BY <1>4, <2>1 DEF Go, TypeInv, TypeOK
  <2>3. q.body \in Contents \cup {NONE} /\ (q.kind = "put" => q.body \in Contents)
    BY <1>1, Members DEF Request, WellFormed
  <2>4. buf' \in [Requests -> Contents \cup {NONE}] /\ buf'[r] = q.body
    BY <1>4, <2>3 DEF TypeInv, TypeOK
  <2>5. todo' \in [Requests -> SUBSET Names]
        /\ (q.kind = "cleanup" => todo'[r] = Buckets \X {"meta"} \X (Keys \cup Dirs))
    BY <1>4 DEF Names, TypeInv, TypeOK
  <2>6. dirty' \subseteq Objects
    <3>1. q.kind \in Writers => Obj(q) \in Objects
      BY <1>1 DEF WellFormed, Request, Obj, Objects, Writers, BucketKinds
    <3> QED BY <1>4, <3>1 DEF TypeInv, TypeOK
  <2>7. TypeOK'
    BY <1>0, <1>2, <1>4, <2>2, <2>4, <2>5, <2>6 DEF fs, TypeInv, TypeOK
  <2>8. Program(r)' /\ Holds(r)'
    <3>1. Program(r)'
      BY <1>1, <1>2, <2>2, EntryProgram DEF Program, InFlight
    <3>2. Holds(r)'
      BY <1>1, <1>2, <2>2, <2>3, <2>4, <2>5, EntryProgram DEF Holds, PutPCs, GetPCs, DeletePCs, CreatePCs, DropPCs, SweepPCs
    <3> QED BY <3>1, <3>2
  <2>9. ASSUME NEW x \in Requests \ {r} PROVE Program(x)' /\ Holds(x)'
    <3>1. Same(x)
      BY <1>0, <1>1, <1>4 DEF Same, Go, TypeInv, TypeOK
    <3> QED BY <3>1, SameKeeps DEF TypeInv
  <2> QED BY <2>7, <2>8, <2>9 DEF TypeInv
<1> QED BY <1>1, <1>3, <1>4

-----------------------------------------------------------------------------
LEMMA TypeStep ==
  ASSUME TypeInv, [Next]_vars
  PROVE  TypeInv'
<1>1. CASE UNCHANGED vars
  <2>1. TypeOK'
    BY <1>1 DEF vars, TypeInv, TypeOK
  <2>2. \A x \in Requests : Same(x)
    BY <1>1 DEF vars, Same
  <2> QED BY <2>1, <2>2, SameKeeps DEF TypeInv
<1>2. ASSUME NEW r \in Requests, Step(r) PROVE TypeInv'
  BY <1>2, TypeMakeParent, TypeOpenData, TypeWriteData, TypeMakeMetaDir, TypeOpenMeta,
     TypeWriteMeta, TypeEmit, TypeIsFile, TypeReadData, TypeReadMeta, TypeCheckDst,
     TypeRemoveData, TypeRemoveMeta, TypeRemoveParent, TypeMakeBucket, TypeMakeMetaRoot,
     TypeWriteInfo, TypeScan, TypeNoticeEntry, TypeRemoveEntry, TypeRemoveBucketDir,
     TypeSweep, TypeRemoveOrphan DEF Step
<1> QED BY <1>1, <1>2, TypeCrash, TypeStart, TypeWriteError, TypeAbandon DEF Next

(* Type correctness of the store, whatever the clients overlap and         *)
(* whichever faults happen (storage/mod.rs).                               *)
THEOREM TypeCorrect == Spec => []TypeOK
<1>1. TypeInv => TypeOK
  BY DEF TypeInv
<1>2. TypeInv /\ [Next]_vars => TypeInv'
  BY TypeStep
<1> QED BY <1>1, <1>2, TypeInit, PTL DEF Spec

-----------------------------------------------------------------------------
(* The shape of the data directory.                                        *)

(* Every directory and file lies in directories that exist.                *)
Tree ==
  /\ \A b \in Buckets, d \in Dirs : <<b, "data", d>> \in dirs => DataPath(b, d) \subseteq dirs
  /\ \A b \in Buckets, k \in Keys : data[<<b, k>>] # ABSENT => DataPath(b, k) \subseteq dirs

LEMMA TreeGrows ==
  ASSUME Tree, dirs \subseteq dirs',
         \A b \in Buckets, d \in Dirs :
           <<b, "data", d>> \in dirs' \ dirs => DataPath(b, d) \subseteq dirs',
         \A b \in Buckets, k \in Keys :
           data'[<<b, k>>] # ABSENT =>
             data[<<b, k>>] # ABSENT \/ DataPath(b, k) \subseteq dirs'
  PROVE  Tree'
BY DEF Tree, DataPath

(* The directories above a directory of a path are on that path.           *)
LEMMA PathClosed ==
  ASSUME NEW b, NEW p \in Keys \cup Dirs, NEW c, NEW d \in Dirs,
         <<c, "data", d>> \in DataPath(b, p)
  PROVE  DataPath(c, d) \subseteq DataPath(b, p)
<1>1. d \in Above[p] /\ c = b
  BY Paths DEF DataPath, PathAssumption
<1>2. Above[d] \subseteq Above[p]
  BY <1>1, Paths DEF PathAssumption
<1> QED BY <1>1, <1>2 DEF DataPath

(* If its own directory exists, so does every one above a path.            *)
LEMMA ParentSuffices ==
  ASSUME Tree, NEW b \in Buckets, NEW k \in Keys, <<b, "data", Parent[k]>> \in dirs
  PROVE  Parent[k] # ROOT => DataPath(b, k) \subseteq dirs
<1>1. ASSUME Parent[k] # ROOT PROVE DataPath(b, k) \subseteq dirs
  <2>1. Parent[k] \in Dirs /\ Above[k] = Above[Parent[k]] \cup {Parent[k]}
    BY <1>1, Paths DEF PathAssumption
  <2>2. DataPath(b, Parent[k]) \subseteq dirs
    BY <2>1 DEF Tree
  <2> QED BY <2>1, <2>2 DEF DataPath
<1> QED BY <1>1

LEMMA RootSuffices ==
  ASSUME NEW b \in Buckets, NEW k \in Keys, <<b, "data", Parent[k]>> \in dirs,
         Parent[k] = ROOT
  PROVE  DataPath(b, k) \subseteq dirs
<1>1. Above[k] = {}
  BY Paths DEF PathAssumption
<1> QED BY <1>1 DEF DataPath

(* On every path there is an entry of each directory above it.             *)
LEMMA EntryOnPath ==
  ASSUME Tree, NEW b \in Buckets, NEW d \in Dirs \cup {ROOT},
         Entries(b, "data", d) = {}
  PROVE  /\ \A k \in Keys : d \in Above[k] \cup {ROOT} => data[<<b, k>>] = ABSENT
         /\ \A e \in Dirs : d \in Above[e] \cup {ROOT} => <<b, "data", e>> \notin dirs
<1>1. ASSUME NEW k \in Keys, d \in Above[k] \cup {ROOT}, data[<<b, k>>] # ABSENT PROVE FALSE
  <2>1. DataPath(b, k) \subseteq dirs
    BY <1>1 DEF Tree
  <2>2. PICK c \in Above[k] \cup {k} : Parent[c] = d
    BY <1>1, Paths DEF PathAssumption
  <2>3. CASE c = k
    BY <1>1, <2>2, <2>3 DEF Entries, Files
  <2>4. CASE c \in Above[k]
    <3>1. c \in Dirs
      BY <2>4, Paths DEF PathAssumption
    <3>2. <<b, "data", c>> \in dirs
      BY <2>1, <2>4 DEF DataPath
    <3> QED BY <2>2, <3>1, <3>2 DEF Entries
  <2> QED BY <2>2, <2>3, <2>4
<1>2. ASSUME NEW e \in Dirs, d \in Above[e] \cup {ROOT}, <<b, "data", e>> \in dirs PROVE FALSE
  <2>1. DataPath(b, e) \subseteq dirs
    BY <1>2 DEF Tree
  <2>2. PICK c \in Above[e] \cup {e} : Parent[c] = d
    BY <1>2, Paths DEF PathAssumption
  <2>3. c \in Dirs
    BY Paths DEF PathAssumption
  <2>4. <<b, "data", c>> \in dirs
    BY <1>2, <2>1 DEF DataPath
  <2> QED BY <2>2, <2>3, <2>4 DEF Entries
<1> QED BY <1>1, <1>2

(* An empty directory can go.                                              *)
LEMMA TreeShrinks ==
  ASSUME Tree, NEW b \in Buckets, NEW d \in Dirs \cup {ROOT},
         Entries(b, "data", d) = {}, dirs' = dirs \ {<<b, "data", d>>}, data' = data
  PROVE  Tree'
<1>1. ASSUME NEW c \in Buckets, NEW e \in Dirs, <<c, "data", e>> \in dirs'
      PROVE  DataPath(c, e) \subseteq dirs'
  <2>1. DataPath(c, e) \subseteq dirs
    BY <1>1 DEF Tree
  <2>2. c = b => d \notin Above[e] \cup {ROOT}
    BY <1>1, EntryOnPath
  <2> QED BY <2>1, <2>2 DEF DataPath
<1>2. ASSUME NEW c \in Buckets, NEW k \in Keys, data[<<c, k>>] # ABSENT
      PROVE  DataPath(c, k) \subseteq dirs'
  <2>1. DataPath(c, k) \subseteq dirs
    BY <1>2 DEF Tree
  <2>2. c = b => d \notin Above[k] \cup {ROOT}
    BY <1>2, EntryOnPath
  <2> QED BY <2>1, <2>2 DEF DataPath
<1> QED
  <2>1. \A b1 \in Buckets, k \in Keys : DataPath(b1, k)' = DataPath(b1, k)
    BY DEF DataPath
  <2> QED BY <1>1, <1>2, <2>1 DEF Tree, DataPath

(* No directory goes and no file comes.                                    *)
LEMMA TreeKeeps ==
  ASSUME Tree, dirs' = dirs,
         \A b \in Buckets, k \in Keys : data'[<<b, k>>] # ABSENT => data[<<b, k>>] # ABSENT
  PROVE  Tree'
BY DEF Tree, DataPath

-----------------------------------------------------------------------------
(* What Go and Finish do to the program counters.                          *)
LEMMA GoCounters ==
  ASSUME TypeInv, NEW r \in Requests, NEW p, Go(r, p)
  PROVE  pc'[r] = p /\ \A x \in Requests \ {r} : pc'[x] = pc[x]
BY DEF TypeInv, TypeOK, Go

LEMMA FinishCounters ==
  ASSUME TypeInv, NEW r \in Requests, NEW answer, Finish(r, answer)
  PROVE  pc'[r] = "done" /\ \A x \in Requests \ {r} : pc'[x] = pc[x]
BY DEF TypeInv, TypeOK, Finish
=============================================================================
