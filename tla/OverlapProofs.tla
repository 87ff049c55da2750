----------------------------- MODULE OverlapProofs -----------------------------
(***************************************************************************)
(* Proofs of what ObjectStore keeps however requests overlap, as long as   *)
(* no bucket is deleted: NoStrayDirs, no delete leaves an empty directory  *)
(* behind; AnsweredPutStays, an answered put stays until a delete comes;   *)
(* SweepFollowsDelete, the sweep touches nothing that no delete touched.   *)
(***************************************************************************)
EXTENDS ObjectStoreProofs

-----------------------------------------------------------------------------
(* Directories nobody needs.                                               *)

(* A removal that has reached directory c of bucket b still has to look at *)
(* d: it is there, or c is there too and it will climb from c to d.        *)
Owes(b, c, d) == d = c \/ (<<b, "data", c>> \in dirs /\ d \in Above[c])

(* Request r needs directory d, or will try to remove it.                  *)
Covers(r, b, d) ==
  /\ req[r].bucket = b
  /\ \/ /\ pc[r] = "open_data" /\ <<b, "data", Parent[req[r].key]>> \in dirs
        /\ d \in Above[req[r].key]
     \/ pc[r] = "rm_meta" /\ Parent[req[r].key] \in Dirs /\ Owes(b, Parent[req[r].key], d)
     \/ pc[r] = "rm_parent" /\ cursor[r] \in Dirs /\ Owes(b, cursor[r], d)

(* A stored object lies under directory d.                                 *)
Holding(b, d) == \E k \in Keys : d \in Above[k] /\ data[<<b, k>>] # ABSENT

Used ==
  \A b \in Buckets, d \in Dirs :
    <<b, "data", d>> \in dirs => Holding(b, d) \/ \E r \in Requests : Covers(r, b, d)

(* A path's directory, and what is above that, is what is above the path.  *)
LEMMA Climb ==
  ASSUME NEW p \in Keys \cup Dirs
  PROVE  /\ Above[p] \subseteq Dirs /\ Parent[p] \in Dirs \cup {ROOT} /\ p \notin Above[p]
         /\ Above[p] # {} <=> Parent[p] \in Dirs
         /\ Parent[p] \in Dirs => /\ Above[p] = Above[Parent[p]] \cup {Parent[p]}
                                 /\ Parent[p] \notin Above[Parent[p]]
         /\ \A d \in Above[p] : Above[d] \subseteq Above[p]
<1>1. /\ Parent \in [Keys \cup Dirs -> Dirs \cup {ROOT}]
      /\ Above \in [Keys \cup Dirs -> SUBSET Dirs] /\ ROOT \notin Dirs
      /\ \A q \in Keys \cup Dirs : q \notin Above[q]
      /\ \A d \in Above[p] : Above[d] \subseteq Above[p]
      /\ Above[p] = IF Parent[p] = ROOT THEN {} ELSE Above[Parent[p]] \cup {Parent[p]}
  BY Paths DEF PathAssumption
<1> QED BY <1>1

(* Who covers a directory that is there covers the ones above it.          *)
LEMMA CoversUp ==
  ASSUME TypeInv, NEW r \in Requests, NEW b \in Buckets, NEW g \in Dirs,
         Covers(r, b, g), <<b, "data", g>> \in dirs, NEW d \in Above[g]
  PROVE  Covers(r, b, d)
<1>1. CASE pc[r] = "open_data"
  <2>1. req[r].key \in Keys
    BY <1>1, Named DEF PutPCs
  <2>2. Above[g] \subseteq Above[req[r].key]
    BY <1>1, <2>1, Climb DEF Covers
  <2> QED BY <1>1, <2>2 DEF Covers
<1>2. ASSUME NEW c \in Dirs, Owes(b, c, g) PROVE Owes(b, c, d)
  BY <1>2, Climb DEF Owes
<1> QED BY <1>1, <1>2 DEF Covers

(* A step of r that removes no directory and no data, and adds none below  *)
(* the buckets, and after which r covers what it did, or data does.        *)
LEMMA UsedKeeps ==
  ASSUME TypeInv, Used, NEW r \in Requests,
         \A b \in Buckets, d \in Dirs \cup {ROOT} : <<b, "data", d>> \in dirs => <<b, "data", d>> \in dirs',
         \A b \in Buckets, d \in Dirs : <<b, "data", d>> \in dirs' => <<b, "data", d>> \in dirs,
         \A x \in Requests \ {r} : pc'[x] = pc[x] /\ req'[x] = req[x] /\ cursor'[x] = cursor[x],
         \A b \in Buckets, k \in Keys : data[<<b, k>>] # ABSENT => data'[<<b, k>>] # ABSENT,
         \A b \in Buckets, d \in Dirs :
           <<b, "data", d>> \in dirs /\ Covers(r, b, d) => Holding(b, d)' \/ Covers(r, b, d)'
  PROVE  Used'
<1> SUFFICES ASSUME NEW b \in Buckets, NEW d \in Dirs, <<b, "data", d>> \in dirs'
             PROVE  Holding(b, d)' \/ \E x \in Requests : Covers(x, b, d)'
  BY DEF Used
<1>1. <<b, "data", d>> \in dirs
  OBVIOUS
<1>2. Holding(b, d) => Holding(b, d)'
  BY DEF Holding
<1>3. ASSUME NEW x \in Requests \ {r}, Covers(x, b, d) PROVE Covers(x, b, d)'
  <2>1. /\ pc'[x] = pc[x] /\ req'[x] = req[x] /\ cursor'[x] = cursor[x]
    OBVIOUS
  <2>2. ASSUME NEW c \in Dirs, Owes(b, c, d) PROVE Owes(b, c, d)'
    BY <2>2 DEF Owes
  <2>3. CASE pc[x] = "open_data"
    <3>1. Parent[req[x].key] \in Dirs \cup {ROOT}
      BY <2>3, Named, Climb DEF PutPCs
    <3> QED BY <1>3, <2>1, <2>3, <3>1 DEF Covers
  <2> QED BY <1>3, <2>1, <2>2, <2>3 DEF Covers
<1> QED BY <1>1, <1>2, <1>3 DEF Used

(* Every object and directory of the first state lies under its own path.  *)
LEMMA UsedInit == Init => Tree /\ Used
<1> SUFFICES ASSUME Init PROVE Tree /\ Used
  OBVIOUS
<1>1. PICK B \in SUBSET Buckets, held \in [Objects -> Values \cup {ABSENT}] :
        /\ data = held
        /\ dirs = (B \X {"data", "meta"} \X {ROOT})
                    \cup UNION {DataPath(o[1], o[2]) \cup MetaPath(o[1], o[2]) :
                                  o \in {x \in Objects : held[x] # ABSENT}}
  BY DEF Init
<1>2. ASSUME NEW b \in Buckets, NEW k \in Keys, data[<<b, k>>] # ABSENT
      PROVE  DataPath(b, k) \subseteq dirs
  <2>1. <<b, k>> \in {x \in Objects : held[x] # ABSENT}
    BY <1>1, <1>2 DEF Objects
  <2>2. \A o \in {x \in Objects : held[x] # ABSENT} : DataPath(o[1], o[2]) \subseteq dirs
    BY <1>1
  <2> QED BY <2>1, <2>2
<1>3. ASSUME NEW b \in Buckets, NEW d \in Dirs, <<b, "data", d>> \in dirs
      PROVE  \E k \in Keys : d \in Above[k] /\ data[<<b, k>>] # ABSENT
                            /\ DataPath(b, d) \subseteq DataPath(b, k)
  <2>1. ROOT \notin Dirs
    BY Paths DEF PathAssumption
  <2>2. PICK o \in {x \in Objects : held[x] # ABSENT} :
          <<b, "data", d>> \in DataPath(o[1], o[2]) \cup MetaPath(o[1], o[2])
    BY <1>1, <1>3, <2>1
  <2>3. <<b, "data", d>> \in DataPath(o[1], o[2])
    BY <2>1, <2>2 DEF MetaPath
  <2>4. o[2] \in Keys /\ o = <<o[1], o[2]>> /\ data[o] # ABSENT
    BY <1>1 DEF Objects
  <2>5. d \in Above[o[2]] /\ o[1] = b
    BY <2>1, <2>3 DEF DataPath
  <2> QED BY <2>3, <2>4, <2>5, PathClosed
<1> QED BY <1>2, <1>3 DEF Tree, Used, Holding

(* A directory that is covered is not empty, or a request is busy with it. *)
LEMMA NoStray ==
  ASSUME TypeInv, Tree, Used
  PROVE  NoStrayDirs
<1> SUFFICES ASSUME NEW e \in dirs, e[3] # ROOT, e[2] # "meta", Entries(e[1], "data", e[3]) = {}
             PROVE  \E r \in Requests : InFlight(r) /\ req[r].bucket = e[1]
  BY DEF NoStrayDirs
<1>1. e = <<e[1], "data", e[3]>> /\ e[1] \in Buckets /\ e[3] \in Dirs
  BY DEF TypeInv, TypeOK
<1>2. ~Holding(e[1], e[3])
  BY <1>1, EntryOnPath DEF Holding
<1>3. PICK r \in Requests : Covers(r, e[1], e[3])
  BY <1>1, <1>2 DEF Used
<1> QED BY <1>3 DEF Covers, InFlight

(* A file that a request has opened is there, or the request writes to one *)
(* that has lost its name.                                                 *)
Opened ==
  \A r \in Requests : pc[r] = "write_data" /\ r \notin unlinked => data[Obj(req[r])] # ABSENT

(* The directories of objects are those of before, and new ones only for   *)
(* new buckets.                                                            *)
Rooted ==
  /\ \A b \in Buckets, d \in Dirs \cup {ROOT} : <<b, "data", d>> \in dirs => <<b, "data", d>> \in dirs'
  /\ \A b \in Buckets, d \in Dirs : <<b, "data", d>> \in dirs' => <<b, "data", d>> \in dirs

LEMMA TreeRooted ==
  ASSUME Tree, Rooted,
         \A b \in Buckets, k \in Keys : data'[<<b, k>>] # ABSENT => data[<<b, k>>] # ABSENT
  PROVE  Tree'
<1>1. ASSUME NEW b \in Buckets, NEW p \in Keys \cup Dirs, DataPath(b, p) \subseteq dirs
      PROVE  DataPath(b, p) \subseteq dirs'
  BY <1>1, Climb DEF DataPath, Rooted
<1>2. \A b \in Buckets, p \in Keys \cup Dirs : DataPath(b, p)' = DataPath(b, p)
  BY DEF DataPath
<1> QED BY <1>1, <1>2 DEF Tree, Rooted

(* Steps that neither begin nor end the use of a directory.                *)
LEMMA UsedElsewhere ==
  ASSUME TypeInv, Opened, Tree, Used, NEW r \in Requests,
         \/ Start(r) \/ WriteData(r) \/ MakeMetaDir(r) \/ OpenMeta(r) \/ WriteMeta(r) \/ Emit(r)
         \/ IsFile(r) \/ ReadData(r) \/ ReadMeta(r) \/ CheckDst(r)
         \/ MakeBucket(r) \/ MakeMetaRoot(r) \/ WriteInfo(r) \/ Sweep(r) \/ RemoveOrphan(r)
  PROVE  Tree' /\ Used'
<1>1. pc[r] \notin {"open_data", "rm_meta", "rm_parent"}
  BY DEF Start, WriteData, MakeMetaDir, OpenMeta, WriteMeta, Emit, IsFile, ReadData, ReadMeta,
         CheckDst, MakeBucket, MakeMetaRoot, WriteInfo, Sweep, RemoveOrphan
<1>2. \A b \in Buckets, d \in Dirs : ~Covers(r, b, d)
  BY <1>1 DEF Covers
<1>3. \A x \in Requests \ {r} : pc'[x] = pc[x] /\ req'[x] = req[x] /\ cursor'[x] = cursor[x]
  BY DEF Start, WriteData, MakeMetaDir, OpenMeta, WriteMeta, Emit, IsFile, ReadData, ReadMeta,
         CheckDst, MakeBucket, MakeMetaRoot, WriteInfo, Sweep, RemoveOrphan, Go, Finish, Fail,
         TypeInv, TypeOK
<1>4. Rooted
  <2>1. CASE Sweep(r)
    <3>1. todo[r] \subseteq Buckets \X {"meta"} \X (Keys \cup Dirs)
      BY <2>1 DEF Sweep, TypeInv, Holds
    <3>2. \A e \in todo[r] : e[2] = "meta"
      BY <3>1
    <3> QED BY <2>1, <3>2 DEF Sweep, Rooted
  <2>2. CASE MakeMetaDir(r)
    BY <2>2, Paths DEF MakeMetaDir, MetaPath, Rooted, PathAssumption
  <2>3. CASE MakeBucket(r) \/ MakeMetaRoot(r)
    BY <2>3, Paths DEF MakeBucket, MakeMetaRoot, Rooted, PathAssumption
  <2>4. CASE \/ Start(r) \/ WriteData(r) \/ OpenMeta(r) \/ WriteMeta(r) \/ Emit(r)
             \/ IsFile(r) \/ ReadData(r) \/ ReadMeta(r) \/ CheckDst(r)
             \/ WriteInfo(r) \/ RemoveOrphan(r)
    BY <2>4 DEF Start, WriteData, OpenMeta, WriteMeta, Emit, IsFile, ReadData, ReadMeta,
                CheckDst, WriteInfo, RemoveOrphan, fs, Rooted
  <2> QED BY <2>1, <2>2, <2>3, <2>4
<1>5. \A b \in Buckets, k \in Keys : (data'[<<b, k>>] # ABSENT) <=> (data[<<b, k>>] # ABSENT)
  <2>1. CASE WriteData(r)
    <3>1. CASE data' = data
      BY <3>1
    <3>2. CASE r \notin unlinked
      <4>1. PICK c \in Written(buf[r], data[Obj(req[r])]) :
              data' = [data EXCEPT ![Obj(req[r])] = c]
        BY <2>1, <3>2 DEF WriteData
      <4>2. data[Obj(req[r])] # ABSENT
        BY <2>1, <3>2 DEF WriteData, Opened
      <4>3. buf[r] # ABSENT /\ MANGLED # ABSENT
        BY <2>1, Distinct DEF WriteData, TypeInv, Holds, PutPCs, Contents, ValueAssumption
      <4>4. c # ABSENT
        BY <4>2, <4>3, WrittenRange
      <4> QED BY <4>1, <4>2, <4>4 DEF TypeInv, TypeOK, Objects
    <3> QED BY <2>1, <3>1, <3>2 DEF WriteData
  <2>2. CASE ~WriteData(r)
    BY <2>2 DEF Start, MakeMetaDir, OpenMeta, WriteMeta, Emit, IsFile, ReadData, ReadMeta,
                CheckDst, MakeBucket, MakeMetaRoot, WriteInfo, Sweep, RemoveOrphan, fs
  <2> QED BY <2>1, <2>2
<1>6. Tree'
  BY <1>4, <1>5, TreeRooted
<1>7. Used'
  BY <1>2, <1>3, <1>4, <1>5, UsedKeeps DEF Rooted
<1> QED BY <1>6, <1>7

(* A put makes the directories it needs.                                   *)
LEMMA UsedMakeParent ==
  ASSUME TypeInv, Tree, Used, NEW r \in Requests, MakeParent(r)
  PROVE  Tree' /\ Used'
<1> DEFINE b == req[r].bucket
           k == req[r].key
<1>1. /\ pc'[r] = "open_data" /\ UNCHANGED <<data, req, cursor>>
      /\ \A x \in Requests \ {r} : pc'[x] = pc[x]
      /\ dirs' = dirs \cup DataPath(b, k)
  BY GoCounters DEF MakeParent
<1>2. b \in Buckets /\ k \in Keys
  BY Named DEF MakeParent, PutPCs
<1>3. Tree'
  BY <1>1, <1>2, PathClosed, TreeGrows
<1>4. ASSUME NEW c \in Buckets, NEW d \in Dirs, <<c, "data", d>> \in DataPath(b, k)
      PROVE  Covers(r, c, d)'
  <2>1. c = b /\ d \in Above[k]
    BY <1>4, Paths DEF DataPath, PathAssumption
  <2>2. <<b, "data", Parent[k]>> \in dirs'
    BY <1>1, <1>2, Climb DEF DataPath
  <2> QED BY <1>1, <2>1, <2>2 DEF Covers
<1>5. ASSUME NEW c \in Buckets, NEW d \in Dirs, <<c, "data", d>> \in dirs,
             NEW x \in Requests, Covers(x, c, d)
      PROVE  Covers(x, c, d)'
  <2>1. x # r
    BY <1>5 DEF Covers, MakeParent
  <2>2. pc'[x] = pc[x] /\ req' = req /\ cursor' = cursor /\ dirs \subseteq dirs'
    BY <1>1, <2>1
  <2>3. ASSUME NEW a, Owes(c, a, d) PROVE Owes(c, a, d)'
    BY <2>2, <2>3 DEF Owes
  <2> QED BY <1>5, <2>2, <2>3 DEF Covers
<1>6. \A c \in Buckets, d \in Dirs : Holding(c, d) => Holding(c, d)'
  BY <1>1 DEF Holding
<1> QED BY <1>1, <1>3, <1>4, <1>5, <1>6 DEF Used

(* It then stores its object in them; if they are gone, it needs none.     *)
LEMMA UsedOpenData ==
  ASSUME TypeInv, Tree, Used, NEW r \in Requests, OpenData(r)
  PROVE  Tree' /\ Used'
<1> DEFINE b == req[r].bucket
           k == req[r].key
<1>1. /\ UNCHANGED <<dirs, req, cursor>> /\ pc[r] = "open_data"
      /\ \A x \in Requests \ {r} : pc'[x] = pc[x]
  BY DEF OpenData, Go, Fail, Finish, TypeInv, TypeOK
<1>2. b \in Buckets /\ k \in Keys /\ Obj(req[r]) \in Objects
  BY <1>1, Named DEF PutPCs
<1>3. CASE <<b, "data", Parent[k]>> \notin dirs /\ data' = data
  <2>1. \A c \in Buckets, d \in Dirs : ~Covers(r, c, d)
    BY <1>1, <1>3 DEF Covers
  <2>2. Tree'
    BY <1>1, <1>3, TreeKeeps
  <2> QED BY <1>1, <1>3, <2>1, <2>2, UsedKeeps
<1>4. CASE <<b, "data", Parent[k]>> \in dirs /\ data' = [data EXCEPT ![Obj(req[r])] = EMPTY]
  <2>1. /\ data'[<<b, k>>] # ABSENT
        /\ \A o \in Objects \ {<<b, k>>} : data'[o] = data[o]
    BY <1>2, <1>4, Distinct DEF TypeInv, TypeOK, Obj, ValueAssumption
  <2>2. DataPath(b, k) \subseteq dirs
    BY <1>2, <1>4, ParentSuffices, RootSuffices
  <2>3. Tree'
    <3>1. \A c \in Buckets, j \in Keys :
            data'[<<c, j>>] # ABSENT => data[<<c, j>>] # ABSENT \/ DataPath(c, j) \subseteq dirs'
      BY <1>1, <2>1, <2>2 DEF Objects
    <3> QED BY <1>1, <3>1, TreeGrows
  <2>4. \A c \in Buckets, j \in Keys : data[<<c, j>>] # ABSENT => data'[<<c, j>>] # ABSENT
    BY <2>1 DEF Objects
  <2>5. \A c \in Buckets, d \in Dirs : Covers(r, c, d) => Holding(c, d)'
    BY <1>1, <1>2, <2>1 DEF Covers, Holding
  <2> QED BY <1>1, <2>3, <2>4, <2>5, UsedKeeps
<1> QED BY <1>3, <1>4 DEF OpenData

(* A delete takes the object and is then bound to try its directory.       *)
LEMMA UsedRemoveData ==
  ASSUME TypeInv, Tree, Used, NEW r \in Requests, RemoveData(r)
  PROVE  Tree' /\ Used'
<1> DEFINE b == req[r].bucket
           k == req[r].key
<1>1. /\ pc[r] = "rm_data" /\ pc'[r] = "rm_meta" /\ UNCHANGED <<dirs, req, cursor>>
      /\ \A x \in Requests \ {r} : pc'[x] = pc[x]
  BY GoCounters DEF RemoveData
<1>2. b \in Buckets /\ k \in Keys /\ Obj(req[r]) \in Objects
  BY <1>1, Named DEF DeletePCs
<1>3. \A o \in Objects \ {<<b, k>>} : data'[o] = data[o]
  BY <1>2 DEF RemoveData, TypeInv, TypeOK, Obj
<1>4. data'[<<b, k>>] = ABSENT \/ data' = data
  BY <1>2 DEF RemoveData, TypeInv, TypeOK, Obj
<1>5. Tree'
  <2>1. \A c \in Buckets, j \in Keys : data'[<<c, j>>] # ABSENT => data[<<c, j>>] # ABSENT
    BY <1>3, <1>4 DEF Objects
  <2> QED BY <1>1, <2>1, TreeKeeps
<1>6. ASSUME NEW c \in Buckets, NEW d \in Above[k], c = b, data[<<b, k>>] # ABSENT
      PROVE  Covers(r, c, d)'
  <2>1. Parent[k] \in Dirs /\ Above[k] = Above[Parent[k]] \cup {Parent[k]}
    BY <1>2, Climb
  <2>2. <<b, "data", Parent[k]>> \in dirs
    BY <1>2, <1>6, <2>1 DEF Tree, DataPath
  <2> QED BY <1>1, <1>6, <2>1, <2>2 DEF Covers, Owes
<1>7. ASSUME NEW c \in Buckets, NEW d \in Dirs, Holding(c, d)
      PROVE  Holding(c, d)' \/ Covers(r, c, d)'
  <2>1. PICK j \in Keys : d \in Above[j] /\ data[<<c, j>>] # ABSENT
    BY <1>7 DEF Holding
  <2>2. CASE <<c, j>> = <<b, k>>
    <3>1. c = b /\ j = k
      BY <2>2
    <3> QED BY <1>6, <2>1, <2>2, <3>1
  <2>3. CASE <<c, j>> # <<b, k>>
    BY <1>3, <2>1, <2>3 DEF Holding, Objects
  <2> QED BY <2>2, <2>3
<1>8. ASSUME NEW c \in Buckets, NEW d \in Dirs, NEW x \in Requests, Covers(x, c, d)
      PROVE  Covers(x, c, d)'
  BY <1>1, <1>8 DEF Covers, Owes
<1> QED BY <1>1, <1>5, <1>7, <1>8 DEF Used

LEMMA UsedRemoveMeta ==
  ASSUME TypeInv, Tree, Used, NEW r \in Requests, RemoveMeta(r)
  PROVE  Tree' /\ Used'
<1>1. /\ pc[r] = "rm_meta" /\ pc'[r] = "rm_parent" /\ UNCHANGED <<dirs, data, req>>
      /\ cursor' = [cursor EXCEPT ![r] = Parent[req[r].key]]
      /\ \A x \in Requests \ {r} : pc'[x] = pc[x]
  BY GoCounters DEF RemoveMeta
<1>2. \A c \in Buckets, d \in Dirs : Covers(r, c, d) => Covers(r, c, d)'
  BY <1>1 DEF Covers, Owes, TypeInv, TypeOK
<1>3. \A x \in Requests \ {r} : cursor'[x] = cursor[x]
  BY <1>1 DEF TypeInv, TypeOK
<1> QED BY <1>1, <1>2, <1>3, TreeKeeps, UsedKeeps

(* It climbs as long as it finds empty directories, and stops at one that  *)
(* somebody else needs, or that is gone already.                           *)
LEMMA UsedRemoveParent ==
  ASSUME TypeInv, Tree, Used, NEW r \in Requests, RemoveParent(r)
  PROVE  Tree' /\ Used'
<1> DEFINE b == req[r].bucket
           c == cursor[r]
<1>1. /\ pc[r] = "rm_parent" /\ UNCHANGED <<data, req>> /\ b \in Buckets /\ c \in Dirs \cup {ROOT}
  BY Named DEF RemoveParent, TypeInv, Holds, DeletePCs
<1>2. CASE /\ c # ROOT /\ <<b, "data", c>> \in dirs /\ Entries(b, "data", c) = {}
           /\ dirs' = dirs \ {<<b, "data", c>>}
           /\ cursor' = [cursor EXCEPT ![r] = Parent[c]]
           /\ UNCHANGED pc
  <2>1. c \in Dirs
    BY <1>1, <1>2
  <2>2. Tree'
    BY <1>1, <1>2, TreeShrinks
  <2>3. cursor'[r] = Parent[c] /\ \A x \in Requests \ {r} : cursor'[x] = cursor[x]
    BY <1>2 DEF TypeInv, TypeOK
  <2>4. ASSUME NEW a \in Buckets, NEW d \in Above[c], a = b PROVE Covers(r, a, d)'
    <3>1. Parent[c] \in Dirs /\ Above[c] = Above[Parent[c]] \cup {Parent[c]} /\ Parent[c] # c
      BY <2>1, Climb
    <3>2. <<b, "data", Parent[c]>> \in dirs
      BY <1>1, <1>2, <2>1, <3>1 DEF Tree, DataPath
    <3>3. <<b, "data", Parent[c]>> \in dirs'
      BY <1>2, <3>1, <3>2
    <3> QED BY <1>1, <1>2, <2>3, <2>4, <3>1, <3>3 DEF Covers, Owes
  <2>5. ASSUME NEW a \in Buckets, NEW d \in Dirs, <<a, "data", d>> \in dirs',
               NEW x \in Requests, Covers(x, a, d)
        PROVE  \E y \in Requests : Covers(y, a, d)'
    <3>1. <<a, d>> # <<b, c>>
      BY <1>2, <2>5
    <3>2. CASE a = b /\ d \in Above[c]
      BY <2>4, <3>2
    <3>3. CASE ~(a = b /\ d \in Above[c])
      <4>1. x # r
        BY <1>1, <2>5, <3>1, <3>3 DEF Covers, Owes
      <4>2. pc'[x] = pc[x] /\ req' = req /\ cursor'[x] = cursor[x]
        BY <1>1, <1>2, <2>3, <4>1
      <4>3. ASSUME NEW e \in Dirs, Owes(a, e, d) PROVE Owes(a, e, d)'
        BY <1>2, <3>3, <4>3 DEF Owes
      <4>4. CASE pc[x] = "open_data"
        <5>1. req[x].key \in Keys /\ d \in Above[req[x].key]
          BY <2>5, <4>4, Named DEF Covers, PutPCs
        <5>2. Parent[req[x].key] = c => d \in Above[c] \cup {c}
          BY <2>1, <5>1, Climb
        <5>3. <<a, "data", Parent[req[x].key]>> \in dirs'
          BY <1>2, <2>5, <3>1, <3>3, <4>4, <5>2 DEF Covers
        <5> QED BY <2>5, <4>2, <4>4, <5>3 DEF Covers
      <4>5. CASE pc[x] # "open_data"
        BY <2>5, <4>2, <4>3, <4>5 DEF Covers
      <4> QED BY <4>4, <4>5
    <3> QED BY <3>2, <3>3
  <2>6. \A a \in Buckets, d \in Dirs : Holding(a, d) => Holding(a, d)'
    BY <1>1 DEF Holding
  <2> QED BY <1>2, <2>2, <2>5, <2>6 DEF Used
<1>3. CASE /\ ~(c # ROOT /\ <<b, "data", c>> \in dirs /\ Entries(b, "data", c) = {})
           /\ Go(r, "emit")
           /\ UNCHANGED <<dirs, cursor>>
  <2>1. pc'[r] = "emit" /\ \A x \in Requests \ {r} : pc'[x] = pc[x]
    BY <1>3, GoCounters
  <2>2. ASSUME NEW d \in Dirs, <<b, "data", d>> \in dirs, Covers(r, b, d)
        PROVE  Holding(b, d) \/ \E x \in Requests \ {r} : Covers(x, b, d)
    <3>1. c \in Dirs /\ <<b, "data", c>> \in dirs /\ d \in Above[c] \cup {c}
      BY <1>1, <2>2 DEF Covers, Owes
    <3>2. Entries(b, "data", c) # {}
      BY <1>3, <3>1, Paths DEF PathAssumption
    <3>3. CASE \E k \in Files(b, "data") : Parent[k] = c
      <4>1. PICK k \in Keys : data[<<b, k>>] # ABSENT /\ Parent[k] = c
        BY <3>3 DEF Files
      <4>2. Above[k] = Above[c] \cup {c}
        BY <3>1, <4>1, Climb
      <4> QED BY <3>1, <4>1, <4>2 DEF Holding
    <3>4. CASE \E g \in Dirs : Parent[g] = c /\ <<b, "data", g>> \in dirs
      <4>1. PICK g \in Dirs : Parent[g] = c /\ <<b, "data", g>> \in dirs
        BY <3>4
      <4>2. d \in Above[g] /\ c \in Above[g] /\ g \notin Above[g] /\ c \notin Above[c]
        BY <3>1, <4>1, Climb
      <4>3. CASE Holding(b, g)
        <5>1. PICK k \in Keys : g \in Above[k] /\ data[<<b, k>>] # ABSENT
          BY <4>3 DEF Holding
        <5> QED BY <4>2, <5>1, Climb DEF Holding
      <4>4. ASSUME NEW x \in Requests, Covers(x, b, g)
            PROVE  x # r /\ Covers(x, b, d)
        <5>1. g \notin Above[c] /\ g # c
          BY <3>1, <4>1, <4>2, Climb
        <5>2. x # r
          BY <1>1, <4>4, <5>1 DEF Covers, Owes
        <5> QED BY <1>1, <4>1, <4>2, <4>4, <5>2, CoversUp
      <4> QED BY <1>1, <4>1, <4>3, <4>4 DEF Used
    <3> QED BY <3>2, <3>3, <3>4 DEF Entries
  <2>3. ASSUME NEW a \in Buckets, NEW d \in Dirs, NEW x \in Requests \ {r}, Covers(x, a, d)
        PROVE  Covers(x, a, d)'
    BY <1>1, <1>3, <2>1, <2>3 DEF Covers, Owes
  <2>4. \A a \in Buckets, d \in Dirs : Holding(a, d) => Holding(a, d)'
    BY <1>1 DEF Holding
  <2>5. \A a \in Buckets, d \in Dirs : Covers(r, a, d) => a = b
    BY DEF Covers
  <2>6. ASSUME NEW a \in Buckets, NEW d \in Dirs, <<a, "data", d>> \in dirs
        PROVE  Holding(a, d)' \/ \E x \in Requests : Covers(x, a, d)'
    <3>1. CASE a = b /\ Covers(r, a, d)
      BY <1>1, <2>2, <2>3, <2>4, <2>6, <3>1
    <3>2. CASE ~Covers(r, a, d)
      BY <2>3, <2>4, <2>6, <3>2 DEF Used
    <3> QED BY <2>5, <3>1, <3>2
  <2>7. Used'
    BY <1>3, <2>6 DEF Used
  <2> QED BY <1>1, <1>3, <2>7, TreeKeeps
<1> QED BY <1>2, <1>3 DEF RemoveParent

-----------------------------------------------------------------------------
(* Steps with any overlap of requests.                                     *)

(* The action of r that opens a file makes it; the others leave r with no  *)
(* open file.                                                              *)
LEMMA OpenedSelf ==
  ASSUME TypeInv, NEW r \in Requests, Start(r) \/ Step(r) \/ WriteError(r) \/ Abandon(r),
         pc'[r] = "write_data"
  PROVE  data'[Obj(req'[r])] # ABSENT
<1>1. CASE OpenData(r)
  <2>1. Obj(req[r]) \in Objects
    BY <1>1, Named DEF OpenData, PutPCs
  <2>2. CASE data' = [data EXCEPT ![Obj(req[r])] = EMPTY]
    BY <1>1, <2>1, <2>2, Distinct DEF OpenData, TypeInv, TypeOK, ValueAssumption
  <2>3. CASE Fail(r, "InternalError")
    BY <2>3, FinishCounters DEF Fail
  <2> QED BY <1>1, <2>2, <2>3 DEF OpenData
<1>2. CASE Start(r)
  <2>1. PICK q \in Request : Go(r, Entry(q.kind)) \/ \E answer : Finish(r, answer)
    BY <1>2 DEF Start
  <2>2. Entry(q.kind) # "write_data"
    BY DEF Entry
  <2> QED BY <2>1, <2>2, GoCounters, FinishCounters
<1>3. CASE WriteError(r) \/ Abandon(r)
  BY <1>3 DEF WriteError, Abandon, Fail, Finish, Go, TypeInv, TypeOK
<1>4. CASE \/ MakeParent(r) \/ WriteData(r) \/ MakeMetaDir(r) \/ OpenMeta(r) \/ WriteMeta(r)
           \/ Emit(r) \/ IsFile(r) \/ ReadData(r) \/ ReadMeta(r) \/ CheckDst(r)
           \/ RemoveData(r) \/ RemoveMeta(r) \/ RemoveParent(r)
  BY <1>4 DEF MakeParent, WriteData, MakeMetaDir, OpenMeta, WriteMeta, Emit, IsFile, ReadData,
              ReadMeta, CheckDst, RemoveData, RemoveMeta, RemoveParent, Fail, Finish, Go,
              TypeInv, TypeOK
<1>5. CASE \/ MakeBucket(r) \/ MakeMetaRoot(r) \/ WriteInfo(r) \/ Scan(r) \/ NoticeEntry(r)
           \/ RemoveEntry(r) \/ RemoveBucketDir(r) \/ Sweep(r) \/ RemoveOrphan(r)
  BY <1>5 DEF MakeBucket, MakeMetaRoot, WriteInfo, Scan, NoticeEntry, RemoveEntry,
              RemoveBucketDir, Sweep, RemoveOrphan, Fail, Finish, Go, TypeInv, TypeOK
<1> QED BY <1>1, <1>2, <1>3, <1>4, <1>5 DEF Step

(* What r does to the others: a file they have open gets other bytes or    *)
(* loses its name, and stays known as nameless until they have written it. *)
LEMMA OthersOpen ==
  ASSUME TypeInv, Opened, NEW r \in Requests, Start(r) \/ Step(r) \/ WriteError(r) \/ Abandon(r),
         NEW x \in Requests \ {r}
  PROVE  /\ pc'[x] = pc[x] /\ req'[x] = req[x] /\ cursor'[x] = cursor[x]
         /\ reply'[x] = reply[x] /\ unlinked \ {r} \subseteq unlinked'
         /\ pc[x] = "write_data" /\ x \notin unlinked' /\ data[Obj(req[x])] # ABSENT
              => data'[Obj(req[x])] # ABSENT
<1> USE DEF TypeInv, TypeOK
<1>1. CASE OpenData(r) \/ WriteData(r)
  <2>1. \/ data' = data
        \/ /\ WriteData(r) /\ r \notin unlinked
           /\ \E c \in Written(buf[r], data[Obj(req[r])]) : data' = [data EXCEPT ![Obj(req[r])] = c]
        \/ data' = [data EXCEPT ![Obj(req[r])] = EMPTY]
    BY <1>1 DEF OpenData, WriteData
  <2>2. ASSUME WriteData(r), r \notin unlinked, NEW c \in Written(buf[r], data[Obj(req[r])])
        PROVE  c # ABSENT
    <3>1. data[Obj(req[r])] # ABSENT
      BY <2>2 DEF WriteData, Opened
    <3>2. buf[r] # ABSENT /\ MANGLED # ABSENT
      BY <2>2, Distinct DEF WriteData, Holds, PutPCs, Contents, ValueAssumption
    <3> QED BY <3>1, <3>2, WrittenRange
  <2>3. EMPTY # ABSENT
    BY Distinct DEF ValueAssumption
  <2>4. pc[x] = "write_data" => Obj(req[x]) \in Objects
    BY Named DEF PutPCs
  <2>5. pc[x] = "write_data" /\ data[Obj(req[x])] # ABSENT => data'[Obj(req[x])] # ABSENT
    BY <2>1, <2>2, <2>3, <2>4
  <2> QED BY <1>1, <2>5 DEF OpenData, WriteData, Go, Fail, Finish
<1>2. CASE RemoveData(r) \/ RemoveEntry(r)
  <2>1. \/ data' = data
        \/ \E o : /\ data' = [data EXCEPT ![o] = ABSENT]
                 /\ unlinked' = unlinked \cup {y \in Requests : pc[y] = "write_data" /\ Obj(req[y]) = o}
    <3>1. CASE RemoveData(r)
      BY <3>1 DEF RemoveData
    <3>2. CASE RemoveEntry(r)
      <4>1. PICK e \in Within(req[r].bucket) :
              \/ data' = data
              \/ /\ data' = [data EXCEPT ![<<e[1], e[3]>>] = ABSENT]
                 /\ unlinked' = unlinked \cup {y \in Requests : /\ pc[y] = "write_data"
                                                              /\ Obj(req[y]) = <<e[1], e[3]>>}
        BY <3>2 DEF RemoveEntry
      <4> QED BY <4>1
    <3> QED BY <1>2, <3>1, <3>2
  <2>2. unlinked \subseteq unlinked'
    BY <1>2 DEF RemoveData, RemoveEntry, Unname
  <2>3. pc'[x] = pc[x] /\ UNCHANGED <<req, cursor, reply>>
    BY <1>2 DEF RemoveData, RemoveEntry, Go
  <2>4. pc[x] = "write_data" => Obj(req[x]) \in Objects
    BY Named DEF PutPCs
  <2>5. pc[x] = "write_data" /\ x \notin unlinked' => data'[Obj(req[x])] = data[Obj(req[x])]
    BY <2>1, <2>4
  <2> QED BY <2>2, <2>3, <2>5
<1>3. CASE WriteError(r)
  <2>1. MANGLED # ABSENT
    BY Distinct DEF ValueAssumption
  <2>2. pc[x] = "write_data" => Obj(req[x]) \in Objects
    BY Named DEF PutPCs
  <2>3. data' = data \/ data' = [data EXCEPT ![Obj(req[r])] = MANGLED]
    BY <1>3 DEF WriteError
  <2>4. pc[x] = "write_data" /\ data[Obj(req[x])] # ABSENT => data'[Obj(req[x])] # ABSENT
    BY <2>1, <2>2, <2>3
  <2> QED BY <1>3, <2>4 DEF WriteError, Fail, Finish
<1>4. CASE \/ Start(r) \/ Abandon(r) \/ MakeParent(r) \/ MakeMetaDir(r) \/ OpenMeta(r) \/ WriteMeta(r)
           \/ Emit(r) \/ IsFile(r) \/ ReadData(r) \/ ReadMeta(r) \/ CheckDst(r)
           \/ RemoveMeta(r) \/ RemoveParent(r)
  BY <1>4 DEF Start, Abandon, MakeParent, MakeMetaDir, OpenMeta, WriteMeta, Emit, IsFile, ReadData,
              ReadMeta, CheckDst, RemoveMeta, RemoveParent, Unname, Fail, Finish, Go, fs
<1>5. CASE \/ MakeBucket(r) \/ MakeMetaRoot(r) \/ WriteInfo(r) \/ Scan(r) \/ NoticeEntry(r)
           \/ RemoveBucketDir(r) \/ Sweep(r) \/ RemoveOrphan(r)
  BY <1>5 DEF MakeBucket, MakeMetaRoot, WriteInfo, Scan, NoticeEntry, RemoveBucketDir, Sweep,
              RemoveOrphan, Unname, Fail, Finish, Go, fs
<1> QED BY <1>1, <1>2, <1>3, <1>4, <1>5 DEF Step

LEMMA OpenedStep ==
  ASSUME TypeInv, Opened, [Next]_vars
  PROVE  Opened'
<1>1. CASE UNCHANGED vars
  BY <1>1 DEF vars, Opened
<1>2. CASE Crash
  BY <1>2 DEF Crash, Opened, InFlight
<1>3. ASSUME NEW r \in Requests, Start(r) \/ Step(r) \/ WriteError(r) \/ Abandon(r) PROVE Opened'
  <2> SUFFICES ASSUME NEW x \in Requests, pc'[x] = "write_data", x \notin unlinked'
               PROVE  data'[Obj(req'[x])] # ABSENT
    BY DEF Opened, Obj
  <2>1. CASE x = r
    BY <1>3, <2>1, OpenedSelf
  <2>2. CASE x # r
    BY <1>3, <2>2, OthersOpen DEF Opened
  <2> QED BY <2>1, <2>2
<1> QED BY <1>1, <1>2, <1>3 DEF Next

(* No step of a request that is not a delete_bucket leaves a directory     *)
(* that nobody needs.                                                      *)
LEMMA UsedStep ==
  ASSUME TypeInv, Opened, Tree, Used, NEW r \in Requests, Start(r) \/ Step(r), pc[r] \notin DropPCs
  PROVE  Tree' /\ Used'
<1>1. ~(Scan(r) \/ NoticeEntry(r) \/ RemoveEntry(r) \/ RemoveBucketDir(r))
  BY DEF Scan, NoticeEntry, RemoveEntry, RemoveBucketDir, DropPCs
<1> QED BY <1>1, UsedElsewhere, UsedMakeParent, UsedOpenData, UsedRemoveData, UsedRemoveMeta,
           UsedRemoveParent DEF Step

(* While no bucket is deleted, nothing crashes, no handler is dropped and  *)
(* no write fails, no put, copy, delete, sweep or bucket creation leaves a *)
(* directory under a bucket without an object in it, however they overlap  *)
(* (storage/mod.rs, put_object's create_dir_all and the loop of            *)
(* delete_object that removes empty parents).                              *)
THEOREM NoStrayCorrect ==
  ASSUME "delete_bucket" \notin Ops, Faults \subseteq {"unlink"}
  PROVE  Spec => []NoStrayDirs
<1> DEFINE DInv == TypeInv /\ Opened /\ Tree /\ Used
<1>1. Init => DInv
  <2>1. Init => \A r \in Requests : pc[r] = "idle"
    BY Zenon DEF Init
  <2> QED BY <2>1, TypeInit, UsedInit DEF Opened
<1>2. DInv /\ [Next]_vars => DInv'
  <2> SUFFICES ASSUME DInv, [Next]_vars PROVE DInv'
    OBVIOUS
  <2>1. TypeInv' /\ Opened'
    BY TypeStep, OpenedStep
  <2>2. CASE UNCHANGED vars
    <3>1. UNCHANGED <<dirs, data, pc, req, cursor>>
      BY <2>2 DEF vars
    <3>2. \A r \in Requests, b \in Buckets, d \in Dirs : Covers(r, b, d) => Covers(r, b, d)'
      BY <3>1 DEF Covers, Owes
    <3>3. \A b \in Buckets, d \in Dirs : Holding(b, d) => Holding(b, d)'
      BY <3>1 DEF Holding
    <3> QED BY <2>1, <3>1, <3>2, <3>3, TreeKeeps DEF Used
  <2>3. ASSUME NEW r \in Requests, Start(r) \/ Step(r) PROVE Tree' /\ Used'
    <3>1. pc[r] \notin DropPCs
      BY DEF TypeInv, Program, InFlight, DropPCs, WellFormed
    <3> QED BY <2>3, <3>1, UsedStep
  <2>4. ~Crash /\ \A r \in Requests : ~WriteError(r) /\ ~Abandon(r)
    BY DEF Crash, WriteError, Abandon
  <2> QED BY <2>1, <2>2, <2>3, <2>4 DEF Next
<1>3. DInv => NoStrayDirs
  BY NoStray
<1> QED BY <1>1, <1>2, <1>3, PTL DEF Spec

-----------------------------------------------------------------------------
(* Objects that nobody deletes.                                            *)

Undeleted(o) == \A s \in Requests : req[s].kind = "delete" => Obj(req[s]) # o

(* A request asks for nothing, and has no Ok, before it starts.            *)
Fresh == \A r \in Requests : pc[r] = "idle" => req[r] = NoRequest /\ reply[r].code # "Ok"

(* Only a file that is open can have lost its name.                        *)
Nameless == \A r \in unlinked : pc[r] \in {"write_data", "write_meta"}

(* An object has metadata only if it has data, and the sweep, which looks  *)
(* for metadata without data, is not about to remove it.                   *)
Whole(o) ==
  /\ meta[o] # ABSENT => data[o] # ABSENT
  /\ \A r \in Requests : pc[r] = "rm_orphan" => <<cursor[r][1], cursor[r][3]>> # o

(* How far a put or copy has come, and that both its files last.           *)
Stored(r) ==
  LET o == Obj(req[r]) IN
  req[r].kind \in {"put", "copy"} =>
    /\ o \in Objects
    /\ Undeleted(o) =>
         /\ pc[r] \in {"write_data", "write_meta"} => r \notin unlinked
         /\ pc[r] \in {"make_meta_dir", "open_meta", "write_meta"} => data[o] # ABSENT
         /\ pc[r] = "write_meta" => meta[o] # ABSENT
         /\ pc[r] = "emit" \/ reply[r].code = "Ok" => data[o] # ABSENT /\ meta[o] # ABSENT

StayInv ==
  /\ TypeInv /\ Opened /\ Fresh /\ Nameless
  /\ \A o \in Objects : Undeleted(o) => Whole(o)
  /\ \A r \in Requests : Stored(r)

Plainly == "delete_bucket" \notin Ops /\ \A k \in Keys : Trimmed[k] = k

(* What no step does to the files of an object that nobody deletes.        *)
Spared(o) ==
  /\ data[o] # ABSENT => data'[o] # ABSENT
  /\ meta[o] # ABSENT => meta'[o] # ABSENT
  /\ meta'[o] # ABSENT => data'[o] # ABSENT
  /\ \A x \in unlinked' \ unlinked : Obj(req[x]) # o

(* What a write leaves is not nothing.                                     *)
LEMMA Remains ==
  /\ \A new \in Contents : \A old : old # ABSENT => \A c \in Written(new, old) : c # ABSENT
  /\ \A new \in Documents : \A old : old # ABSENT => \A c \in Written(new, old) : c # ABSENT
  /\ EMPTY # ABSENT /\ MANGLED # ABSENT
<1>1. ABSENT \notin Contents \cup Documents /\ MANGLED # ABSENT /\ EMPTY # ABSENT
  BY Distinct, NotADocument DEF Contents, ValueAssumption
<1> QED BY <1>1, WrittenRange

LEMMA SparedByRequest ==
  ASSUME StayInv, Plainly, NEW r \in Requests, Start(r) \/ Step(r) \/ WriteError(r) \/ Abandon(r),
         NEW o \in Objects, Undeleted(o)
  PROVE  Spared(o)
<1> USE DEF Spared
<1>1. Whole(o) /\ Stored(r) /\ data \in [Objects -> Contents \cup {ABSENT}]
      /\ meta \in [Objects -> Documents \cup {ABSENT, EMPTY, MANGLED}]
  BY DEF StayInv, TypeInv, TypeOK
<1>2. CASE OpenData(r)
  <2>1. Obj(req[r]) \in Objects /\ unlinked' = unlinked /\ meta' = meta
    BY <1>2, Named DEF OpenData, PutPCs, StayInv
  <2>2. data' = data \/ data' = [data EXCEPT ![Obj(req[r])] = EMPTY]
    BY <1>2 DEF OpenData
  <2> QED BY <1>1, <2>1, <2>2, Remains DEF Whole
<1>3. CASE WriteData(r)
  <2>1. Obj(req[r]) \in Objects /\ unlinked' \subseteq unlinked /\ meta' = meta
    BY <1>3, Named DEF WriteData, PutPCs, StayInv
  <2>2. CASE data' = data
    BY <1>1, <2>1, <2>2 DEF Whole
  <2>3. CASE r \notin unlinked
    <3>1. buf[r] \in Contents /\ data[Obj(req[r])] # ABSENT
      BY <1>3, <2>3 DEF WriteData, StayInv, Opened, TypeInv, Holds, PutPCs
    <3>2. PICK c \in Written(buf[r], data[Obj(req[r])]) : data' = [data EXCEPT ![Obj(req[r])] = c]
      BY <1>3, <2>3 DEF WriteData
    <3>3. c # ABSENT
      BY <3>1, Remains
    <3> QED BY <1>1, <2>1, <3>1, <3>2, <3>3 DEF Whole
  <2> QED BY <1>3, <2>2, <2>3 DEF WriteData
<1>4. CASE OpenMeta(r)
  <2>1. /\ Obj(req[r]) \in Objects /\ unlinked' = unlinked /\ data' = data
        /\ req[r].kind \in {"put", "copy"} /\ pc[r] = "open_meta"
    BY <1>4, Named DEF OpenMeta, PutPCs, StayInv, TypeInv, Program
  <2>2. meta' = meta \/ meta' = [meta EXCEPT ![Obj(req[r])] = EMPTY]
    BY <1>4 DEF OpenMeta
  <2>3. Obj(req[r]) = o => data[o] # ABSENT
    BY <1>1, <2>1 DEF Stored
  <2> QED BY <1>1, <2>1, <2>2, <2>3, Remains DEF Whole
<1>5. CASE WriteMeta(r)
  <2>1. /\ Obj(req[r]) \in Objects /\ unlinked' \subseteq unlinked /\ data' = data
        /\ req[r].kind \in {"put", "copy"} /\ pc[r] = "write_meta" /\ buf[r] \in Contents
    BY <1>5, Named DEF WriteMeta, PutPCs, StayInv, TypeInv, Program, Holds
  <2>2. CASE meta' = meta
    BY <1>1, <2>1, <2>2 DEF Whole
  <2>3. CASE r \notin unlinked
    <3>1. PICK c \in Written(Describes(buf[r]), meta[Obj(req[r])]) :
            meta' = [meta EXCEPT ![Obj(req[r])] = c]
      BY <1>5, <2>3 DEF WriteMeta
    <3>2. Obj(req[r]) = o => data[o] # ABSENT /\ meta[o] # ABSENT
      BY <1>1, <2>1 DEF Stored
    <3>3. Obj(req[r]) = o => c # ABSENT
      BY <2>1, <3>2, Remains, Members
    <3> QED BY <1>1, <2>1, <3>1, <3>2, <3>3 DEF Whole
  <2> QED BY <1>5, <2>2, <2>3 DEF WriteMeta
<1>6. CASE RemoveData(r) \/ RemoveMeta(r)
  <2>1. req[r].kind = "delete"
    BY <1>6 DEF RemoveData, RemoveMeta, StayInv, TypeInv, Program, DeletePCs
  <2>2. Obj(req[r]) # o
    BY <2>1 DEF Undeleted
  <2> QED BY <1>1, <1>6, <2>2 DEF RemoveData, RemoveMeta, Unname, Whole
<1>7. CASE RemoveOrphan(r)
  BY <1>1, <1>7 DEF RemoveOrphan, Unname, Whole
<1>8. CASE WriteError(r)
  <2>1. unlinked' \subseteq unlinked
    BY <1>8 DEF WriteError
  <2>2. CASE UNCHANGED <<data, meta>>
    BY <1>1, <2>1, <2>2 DEF Whole
  <2>3. CASE /\ pc[r] = "write_data" /\ meta' = meta
             /\ data' = [data EXCEPT ![Obj(req[r])] = MANGLED]
    BY <1>1, <2>1, <2>3, Remains DEF Whole
  <2>4. CASE /\ pc[r] = "write_meta" /\ data' = data
             /\ meta' = [meta EXCEPT ![Obj(req[r])] = MANGLED]
    <3>1. req[r].kind \in {"put", "copy"}
      BY <2>4 DEF StayInv, TypeInv, Program, PutPCs
    <3>2. Obj(req[r]) = o => data[o] # ABSENT
      BY <1>1, <2>4, <3>1 DEF Stored
    <3> QED BY <1>1, <2>1, <2>4, <3>2, Remains DEF Whole
  <2> QED BY <1>8, <2>2, <2>3, <2>4 DEF WriteError
<1>9. CASE Scan(r) \/ NoticeEntry(r) \/ RemoveEntry(r) \/ RemoveBucketDir(r)
  <2>1. req[r].kind = "delete_bucket" /\ WellFormed(req[r])
    BY <1>9 DEF Scan, NoticeEntry, RemoveEntry, RemoveBucketDir, StayInv, TypeInv, Program,
                InFlight, DropPCs
  <2> QED BY <2>1 DEF WellFormed, Plainly
<1>10. CASE \/ Start(r) \/ Abandon(r) \/ MakeParent(r) \/ MakeMetaDir(r) \/ Emit(r) \/ IsFile(r)
            \/ ReadData(r) \/ ReadMeta(r) \/ CheckDst(r) \/ RemoveParent(r) \/ MakeBucket(r)
            \/ MakeMetaRoot(r) \/ WriteInfo(r) \/ Sweep(r)
  BY <1>1, <1>10 DEF Start, Abandon, MakeParent, MakeMetaDir, Emit, IsFile, ReadData, ReadMeta,
       CheckDst, RemoveParent, MakeBucket, MakeMetaRoot, WriteInfo, Sweep, fs, Whole
<1> QED BY <1>2, <1>3, <1>4, <1>5, <1>6, <1>7, <1>8, <1>9, <1>10 DEF Step

(* What a step does to the request that makes it.                          *)
LEMMA OwnStep ==
  ASSUME TypeInv, Nameless, NEW r \in Requests, Start(r) \/ Step(r) \/ WriteError(r) \/ Abandon(r)
  PROVE  /\ pc'[r] # "idle" /\ (pc'[r] = "rm_orphan" => Sweep(r)) /\ r \notin unlinked'
         /\ \A x \in unlinked' \ unlinked : pc[x] \in {"write_data", "write_meta"}
<1> USE DEF TypeInv, TypeOK
<1>1. CASE Start(r)
  <2>1. PICK q \in Request : Go(r, Entry(q.kind)) \/ \E answer : Finish(r, answer)
    BY <1>1 DEF Start
  <2>2. Entry(q.kind) \notin {"idle", "rm_orphan"}
    BY DEF Entry
  <2>3. pc'[r] \notin {"idle", "rm_orphan"}
    BY <2>1, <2>2, GoCounters, FinishCounters
  <2> QED BY <1>1, <2>3 DEF Start, Nameless
<1>2. CASE OpenData(r) \/ WriteData(r) \/ OpenMeta(r) \/ WriteMeta(r)
  BY <1>2 DEF OpenData, WriteData, OpenMeta, WriteMeta, Go, Fail, Finish, Nameless
<1>3. CASE \/ MakeParent(r) \/ MakeMetaDir(r) \/ Emit(r) \/ IsFile(r) \/ ReadData(r) \/ ReadMeta(r)
           \/ CheckDst(r)
  BY <1>3 DEF MakeParent, MakeMetaDir, Emit, IsFile, ReadData, ReadMeta, CheckDst, Go, Fail, Finish,
              Nameless
<1>4. CASE RemoveData(r) \/ RemoveMeta(r) \/ RemoveOrphan(r)
  BY <1>4 DEF RemoveData, RemoveMeta, RemoveOrphan, Unname, Go, Nameless
<1>5. CASE RemoveEntry(r)
  <2>1. /\ pc[r] = "rm_bucket" /\ pc' = pc
        /\ unlinked' \subseteq unlinked \cup {x \in Requests : pc[x] \in {"write_data", "write_meta"}}
    BY <1>5 DEF RemoveEntry, Unname
  <2> QED BY <2>1 DEF Nameless
<1>6. CASE \/ RemoveParent(r) \/ MakeBucket(r) \/ MakeMetaRoot(r) \/ WriteInfo(r) \/ Scan(r)
           \/ NoticeEntry(r) \/ RemoveBucketDir(r) \/ Sweep(r)
  BY <1>6 DEF RemoveParent, MakeBucket, MakeMetaRoot, WriteInfo, Scan, NoticeEntry, RemoveBucketDir,
              Sweep, Go, Fail, Finish, Nameless
<1>7. CASE WriteError(r) \/ Abandon(r)
  BY <1>7 DEF WriteError, Abandon, Go, Fail, Finish, Nameless
<1> QED BY <1>1, <1>2, <1>3, <1>4, <1>5, <1>6, <1>7 DEF Step

(* Who starts was no delete before.                                        *)
LEMMA UndeletedBefore ==
  ASSUME StayInv, NEW r \in Requests, Start(r) \/ Step(r) \/ WriteError(r) \/ Abandon(r),
         NEW o, Undeleted(o)'
  PROVE  Undeleted(o)
<1> SUFFICES ASSUME NEW s \in Requests, req[s].kind = "delete" PROVE Obj(req[s]) # o
  BY DEF Undeleted
<1>1. CASE req'[s] = req[s]
  BY <1>1 DEF Undeleted, Obj
<1>2. CASE req'[s] # req[s]
  <2>1. s = r /\ Start(r)
    <3>1. s = r
      BY <1>2, OthersOpen DEF StayInv
    <3>2. Start(r) \/ req' = req
      BY DEF Step, WriteError, Abandon, MakeParent, OpenData, WriteData, MakeMetaDir, OpenMeta,
             WriteMeta, Emit, IsFile, ReadData, ReadMeta, CheckDst, RemoveData, RemoveMeta,
             RemoveParent, MakeBucket, MakeMetaRoot, WriteInfo, Scan, NoticeEntry, RemoveEntry,
             RemoveBucketDir, Sweep, RemoveOrphan
    <3> QED BY <1>2, <3>1, <3>2
  <2>2. req[s] = NoRequest
    BY <2>1 DEF Start, StayInv, Fresh
  <2> QED BY <2>2 DEF NoRequest
<1> QED BY <1>1, <1>2

(* A put or copy makes its files one after the other, and answers then.    *)
LEMMA StoredSelf ==
  ASSUME StayInv, Plainly, NEW r \in Requests, Start(r) \/ Step(r) \/ WriteError(r) \/ Abandon(r)
  PROVE  Stored(r)'
<1> DEFINE o == Obj(req[r])
<1>1. TypeInv /\ Program(r) /\ Stored(r) /\ Nameless /\ r \notin unlinked'
  BY OwnStep DEF StayInv, TypeInv
<1>2. CASE Start(r)
  <2>1. PICK q \in Request :
          /\ WellFormed(q)
          /\ req' = [req EXCEPT ![r] = q]
          /\ \/ \E code \in {"BucketAlreadyExists", "NoSuchBucket"} : Finish(r, Plain(code))
             \/ Go(r, Entry(q.kind)) /\ UNCHANGED reply
    BY <1>2 DEF Start
  <2>2. req'[r] = q /\ reply'[r].code # "Ok"
    <3>1. req'[r] = q
      BY <1>1, <2>1 DEF TypeInv, TypeOK
    <3>2. CASE UNCHANGED reply
      <4>1. reply[r].code # "Ok"
        BY <1>2 DEF Start, StayInv, Fresh
      <4> QED BY <3>1, <3>2, <4>1
    <3>3. ASSUME NEW code \in {"BucketAlreadyExists", "NoSuchBucket"}, Finish(r, Plain(code))
          PROVE  reply'[r].code # "Ok"
      BY <1>1, <3>3 DEF Finish, Plain, TypeInv, TypeOK
    <3> QED BY <2>1, <3>1, <3>2, <3>3
  <2>3. pc'[r] \notin {"write_data", "write_meta", "make_meta_dir", "open_meta", "emit"}
    <3>1. Entry(q.kind) \notin {"write_data", "write_meta", "make_meta_dir", "open_meta", "emit"}
      BY DEF Entry
    <3> QED BY <1>1, <2>1, <3>1, GoCounters, FinishCounters
  <2>4. q.kind \in {"put", "copy"} => Obj(q) \in Objects
    BY <2>1 DEF WellFormed, BucketKinds, Obj, Objects, Request
  <2> QED BY <2>2, <2>3, <2>4 DEF Stored
<1>3. CASE ~Start(r) /\ req[r].kind \in {"put", "copy"}
  <2>1. req' = req /\ o \in Objects
    BY <1>1, <1>3 DEF Stored, Step, WriteError, Abandon, MakeParent, OpenData, WriteData, MakeMetaDir,
       OpenMeta, WriteMeta, Emit, IsFile, ReadData, ReadMeta, CheckDst, RemoveData, RemoveMeta,
       RemoveParent, MakeBucket, MakeMetaRoot, WriteInfo, Scan, NoticeEntry, RemoveEntry,
       RemoveBucketDir, Sweep, RemoveOrphan
  <2> SUFFICES ASSUME Undeleted(o)
               PROVE  /\ pc'[r] \in {"make_meta_dir", "open_meta", "write_meta"} => data'[o] # ABSENT
                      /\ pc'[r] = "write_meta" => meta'[o] # ABSENT
                      /\ pc'[r] = "emit" \/ reply'[r].code = "Ok" => data'[o] # ABSENT /\ meta'[o] # ABSENT
    BY <1>1, <2>1 DEF Stored, Undeleted
  <2>2. Spared(o) /\ data \in [Objects -> Contents \cup {ABSENT}]
        /\ meta \in [Objects -> Documents \cup {ABSENT, EMPTY, MANGLED}]
    BY <1>1, <2>1, SparedByRequest DEF TypeInv, TypeOK
  <2>3. reply[r].code = "Ok" => data'[o] # ABSENT /\ meta'[o] # ABSENT
    BY <1>1, <1>3, <2>2 DEF Stored, Spared
  <2>4. CASE \E code \in Codes \ {"Ok"} : Finish(r, Plain(code))
    BY <1>1, <2>4 DEF Finish, Plain, TypeInv, TypeOK
  <2>5. CASE MakeParent(r)
    BY <1>1, <2>3, <2>5, GoCounters DEF MakeParent
  <2>6. CASE OpenData(r)
    <3>1. CASE Fail(r, "InternalError")
      BY <2>4, <3>1 DEF Fail, Codes
    <3>2. CASE Go(r, "write_data") /\ UNCHANGED reply
      BY <1>1, <2>3, <3>2, GoCounters
    <3> QED BY <2>6, <3>1, <3>2 DEF OpenData
  <2>7. CASE WriteData(r)
    <3>1. data[o] # ABSENT
      BY <1>1, <1>3, <2>7 DEF WriteData, StayInv, Opened, Stored
    <3> QED BY <1>1, <2>2, <2>3, <2>7, <3>1, GoCounters DEF WriteData, Spared
  <2>8. CASE MakeMetaDir(r)
    BY <1>1, <1>3, <2>2, <2>3, <2>8, GoCounters DEF MakeMetaDir, Stored, Spared
  <2>9. CASE OpenMeta(r)
    <3>1. CASE Fail(r, "InternalError")
      BY <2>4, <3>1 DEF Fail, Codes
    <3>2. CASE Go(r, "write_meta") /\ UNCHANGED reply /\ meta' = [meta EXCEPT ![o] = EMPTY]
      BY <1>1, <1>3, <2>1, <2>2, <2>3, <2>9, <3>2, GoCounters, Remains DEF OpenMeta, Stored, Spared
    <3> QED BY <2>9, <3>1, <3>2 DEF OpenMeta
  <2>10. CASE WriteMeta(r)
    BY <1>1, <1>3, <2>2, <2>3, <2>10, GoCounters DEF WriteMeta, Stored, Spared
  <2>11. CASE Emit(r)
    BY <1>1, <1>3, <2>2, <2>11, FinishCounters DEF Emit, Stored, Spared
  <2>12. CASE IsFile(r) \/ ReadData(r) \/ CheckDst(r)
    <3>1. CASE \E code \in Codes \ {"Ok"} : Fail(r, code)
      BY <2>4, <3>1 DEF Fail
    <3>2. CASE UNCHANGED reply /\ \E next \in {"read_meta", "read_data", "make_parent"} : Go(r, next)
      BY <1>1, <2>3, <3>2, GoCounters
    <3> QED BY <2>12, <3>1, <3>2 DEF IsFile, ReadData, CheckDst, Codes
  <2>13. CASE ReadMeta(r)
    <3>1. CASE \E code \in Codes \ {"Ok"} : Fail(r, code)
      BY <2>4, <3>1 DEF Fail
    <3>2. CASE UNCHANGED reply /\ Go(r, "check_dst")
      BY <1>1, <2>3, <3>2, GoCounters
    <3>3. req[r].kind = "copy"
      BY <1>1, <1>3, <2>13 DEF ReadMeta, Program, GetPCs
    <3> QED BY <2>13, <3>1, <3>2, <3>3 DEF ReadMeta, Codes
  <2>14. CASE WriteError(r)
    BY <2>4, <2>14 DEF WriteError, Fail, Codes
  <2>15. CASE Abandon(r)
    BY <1>1, <2>3, <2>15, GoCounters DEF Abandon
  <2>16. ~(\/ RemoveData(r) \/ RemoveMeta(r) \/ RemoveParent(r) \/ MakeBucket(r) \/ MakeMetaRoot(r)
           \/ WriteInfo(r) \/ Scan(r) \/ NoticeEntry(r) \/ RemoveEntry(r) \/ RemoveBucketDir(r)
           \/ Sweep(r) \/ RemoveOrphan(r))
    BY <1>1, <1>3 DEF RemoveData, RemoveMeta, RemoveParent, MakeBucket, MakeMetaRoot, WriteInfo, Scan,
       NoticeEntry, RemoveEntry, RemoveBucketDir, Sweep, RemoveOrphan, Program, DeletePCs, CreatePCs,
       DropPCs, SweepPCs
  <2> QED BY <1>3, <2>5, <2>6, <2>7, <2>8, <2>9, <2>10, <2>11, <2>12, <2>13, <2>14, <2>15, <2>16 DEF Step
<1>4. CASE ~Start(r) /\ req[r].kind \notin {"put", "copy"}
  BY <1>4 DEF Stored, Step, WriteError, Abandon, MakeParent, OpenData, WriteData, MakeMetaDir,
     OpenMeta, WriteMeta, Emit, IsFile, ReadData, ReadMeta, CheckDst, RemoveData, RemoveMeta,
     RemoveParent, MakeBucket, MakeMetaRoot, WriteInfo, Scan, NoticeEntry, RemoveEntry,
     RemoveBucketDir, Sweep, RemoveOrphan
<1> QED BY <1>2, <1>3, <1>4

LEMMA StayStep ==
  ASSUME StayInv, Plainly, [Next]_vars
  PROVE  StayInv'
<1>1. TypeInv' /\ Opened'
  BY TypeStep, OpenedStep DEF StayInv
<1>2. CASE UNCHANGED vars
  <2>1. UNCHANGED <<data, meta, pc, req, unlinked, cursor, reply>>
    BY <1>2 DEF vars
  <2>2. Fresh' /\ Nameless'
    BY <2>1 DEF StayInv, Fresh, Nameless
  <2>3. \A o \in Objects : Undeleted(o)' => Whole(o)'
    BY <2>1 DEF StayInv, Undeleted, Whole
  <2>4. \A r \in Requests : Stored(r)'
    BY <2>1 DEF StayInv, Stored, Undeleted
  <2> QED BY <1>1, <2>2, <2>3, <2>4 DEF StayInv
<1>3. CASE Crash
  <2>1. /\ UNCHANGED <<req, reply, cursor>> /\ unlinked' = {}
        /\ pc' = [r \in Requests |-> IF InFlight(r) THEN "lost" ELSE pc[r]]
    BY <1>3 DEF Crash
  <2>2. \A r \in Requests : pc'[r] = "lost" \/ (pc'[r] = pc[r] /\ pc[r] \in {"idle", "done", "lost"})
    BY <2>1 DEF InFlight
  <2>3. PICK torn \in SUBSET {r \in Requests \ unlinked : pc[r] \in {"write_data", "write_meta"}} :
          LET Torn(o, p) == \E r \in torn : pc[r] = p /\ Obj(req[r]) = o IN
          /\ data' = [o \in Objects |-> IF Torn(o, "write_data") THEN MANGLED ELSE data[o]]
          /\ meta' = [o \in Objects |-> IF Torn(o, "write_meta") THEN MANGLED ELSE meta[o]]
    BY <1>3 DEF Crash
  <2>4. ASSUME NEW o \in Objects, Undeleted(o)
        PROVE  /\ data[o] # ABSENT => data'[o] # ABSENT
               /\ meta[o] # ABSENT => meta'[o] # ABSENT
               /\ meta'[o] # ABSENT => data'[o] # ABSENT
    <3>1. ASSUME NEW r \in torn, pc[r] = "write_meta", Obj(req[r]) = o PROVE data[o] # ABSENT
      <4>1. req[r].kind \in {"put", "copy"}
        BY <3>1 DEF StayInv, TypeInv, Program, PutPCs
      <4> QED BY <2>4, <3>1, <4>1 DEF StayInv, Stored
    <3>2. meta[o] # ABSENT => data[o] # ABSENT
      BY <2>4 DEF StayInv, Whole
    <3> QED BY <2>3, <3>1, <3>2, Remains
  <2>5. Fresh' /\ Nameless'
    BY <2>1, <2>2 DEF StayInv, Fresh, Nameless
  <2>6. \A o \in Objects : Undeleted(o)' => Whole(o)'
    BY <2>1, <2>2, <2>4 DEF Undeleted, Whole
  <2>7. ASSUME NEW r \in Requests PROVE Stored(r)'
    BY <2>1, <2>2, <2>4 DEF StayInv, Stored, Undeleted
  <2> QED BY <1>1, <2>5, <2>6, <2>7 DEF StayInv
<1>4. ASSUME NEW r \in Requests, Start(r) \/ Step(r) \/ WriteError(r) \/ Abandon(r) PROVE StayInv'
  <2>1. \A x \in Requests \ {r} : /\ pc'[x] = pc[x] /\ req'[x] = req[x] /\ cursor'[x] = cursor[x]
                                /\ reply'[x] = reply[x]
    BY <1>4, OthersOpen DEF StayInv
  <2>2. /\ pc'[r] # "idle" /\ (pc'[r] = "rm_orphan" => Sweep(r)) /\ r \notin unlinked'
        /\ \A x \in unlinked' \ unlinked : pc[x] \in {"write_data", "write_meta"}
    BY <1>4, OwnStep DEF StayInv
  <2>3. \A o \in Objects : Undeleted(o)' => Undeleted(o) /\ Spared(o)
    BY <1>4, UndeletedBefore, SparedByRequest
  <2>4. Fresh'
    BY <2>1, <2>2 DEF StayInv, Fresh
  <2>5. unlinked' \subseteq Requests
    BY <1>1 DEF TypeInv, TypeOK
  <2>6. Nameless'
    BY <2>1, <2>2, <2>5 DEF StayInv, Nameless
  <2>7. ASSUME NEW o \in Objects, Undeleted(o)' PROVE Whole(o)'
    <3>1. Undeleted(o) /\ Spared(o) /\ Whole(o)
      BY <2>3, <2>7 DEF StayInv
    <3>2. ASSUME pc'[r] = "rm_orphan" PROVE <<cursor'[r][1], cursor'[r][3]>> # o
      <4>1. Sweep(r) /\ pc[r] = "sweep"
        BY <2>2, <3>2 DEF Sweep
      <4>2. PICK e \in todo[r] : e[3] \in Keys /\ NamesNoData(e) /\ cursor' = [cursor EXCEPT ![r] = e]
        <5>1. pc' # pc /\ ~Finish(r, Plain("Ok"))
          BY <3>2, <4>1, FinishCounters DEF StayInv
        <5> QED BY <4>1, <5>1 DEF Sweep
      <4>3. cursor'[r] = e
        BY <4>2 DEF StayInv, TypeInv, TypeOK
      <4>4. meta[<<e[1], e[3]>>] # ABSENT /\ data[<<e[1], e[3]>>] = ABSENT
        BY <4>2 DEF NamesNoData, Plainly
      <4> QED BY <3>1, <4>3, <4>4 DEF Whole
    <3> QED BY <2>1, <3>1, <3>2 DEF Whole, Spared
  <2>8. ASSUME NEW x \in Requests \ {r} PROVE Stored(x)'
    <3> DEFINE o == Obj(req[x])
    <3>1. CASE req[x].kind \notin {"put", "copy"}
      BY <2>1, <3>1 DEF Stored
    <3>2. CASE req[x].kind \in {"put", "copy"}
      <4>1. Stored(x) /\ o \in Objects /\ Obj(req'[x]) = o
        BY <2>1, <3>2 DEF StayInv, Stored
      <4>2. CASE ~Undeleted(o)'
        BY <2>1, <4>1, <4>2 DEF Stored, Undeleted
      <4>3. CASE Undeleted(o)'
        <5>1. Undeleted(o) /\ Spared(o)
          BY <2>3, <4>1, <4>3
        <5>2. pc[x] \in {"write_data", "write_meta"} => x \notin unlinked'
          BY <3>2, <4>1, <5>1 DEF Stored, Spared
        <5> QED BY <2>1, <3>2, <4>1, <5>1, <5>2 DEF Stored, Spared
      <4> QED BY <4>2, <4>3
    <3> QED BY <3>1, <3>2
  <2>9. Stored(r)'
    BY <1>4, StoredSelf
  <2> QED BY <1>1, <2>4, <2>6, <2>7, <2>8, <2>9 DEF StayInv
<1> QED BY <1>2, <1>3, <1>4 DEF Next

LEMMA StayInit == Init => StayInv
<1> SUFFICES ASSUME Init PROVE StayInv
  OBVIOUS
<1>1. PICK held \in [Objects -> Values \cup {ABSENT}] :
        /\ data = held
        /\ meta = [o \in Objects |->
                     IF held[o] = ABSENT THEN ABSENT ELSE Describes(held[o])]
  BY DEF Init
<1>2. unlinked = {} /\ \A r \in Requests : pc[r] = "idle" /\ req[r] = NoRequest
  BY DEF Init
<1>3. \A r \in Requests : reply[r].code # "Ok"
  <2>1. reply = [r \in Requests |-> Plain("")]
    BY Zenon DEF Init
  <2>2. Plain("").code = ""
    BY Zenon DEF Plain
  <2> QED BY <2>1, <2>2, Zenon
<1>4. Fresh /\ Nameless /\ Opened
  BY <1>2, <1>3 DEF Fresh, Nameless, Opened
<1>5. \A o \in Objects : Whole(o)
  BY <1>1, <1>2 DEF Whole
<1>6. \A r \in Requests : Stored(r)
  BY <1>2 DEF Stored, NoRequest
<1> QED BY <1>4, <1>5, <1>6, TypeInit DEF StayInv

(* While no bucket is deleted and no key ends like a metadata file, an     *)
(* object whose put or copy was answered Ok and that nobody asks to delete *)
(* keeps its data and its metadata, whatever puts, copies, deletes of      *)
(* other objects and sweeps overlap with it, and whatever crashes, dropped *)
(* handlers and failing writes happen (storage/mod.rs, put_object writes   *)
(* the data first; storage/cleanup.rs).                                    *)
THEOREM AnsweredPutCorrect ==
  ASSUME "delete_bucket" \notin Ops, \A k \in Keys : Trimmed[k] = k
  PROVE  Spec => []AnsweredPutStays
<1>1. Plainly
  BY DEF Plainly
<1>2. StayInv /\ [Next]_vars => StayInv'
  BY <1>1, StayStep
<1>3. StayInv => AnsweredPutStays
  BY DEF StayInv, Stored, Undeleted, AnsweredPutStays
<1> QED BY <1>2, <1>3, StayInit, PTL DEF Spec

(* Under the same conditions the sweep removes the metadata of no object   *)
(* but those a client asked to delete: it never takes a put or copy under  *)
(* way for an orphan (storage/cleanup.rs, the walk and its test).          *)
THEOREM SweepCorrect ==
  ASSUME "delete_bucket" \notin Ops, \A k \in Keys : Trimmed[k] = k
  PROVE  Spec => SweepFollowsDelete
<1>1. Plainly
  BY DEF Plainly
<1>2. StayInv /\ [Next]_vars => StayInv'
  BY <1>1, StayStep
<1>3. ASSUME StayInv, NEW r \in Requests, RemoveOrphan(r)
      PROVE  \E s \in Requests : /\ req[s].kind = "delete"
                                /\ Obj(req[s]) = <<cursor[r][1], cursor[r][3]>>
  <2>1. pc[r] = "rm_orphan" /\ <<cursor[r][1], cursor[r][3]>> \in Objects
    BY <1>3 DEF RemoveOrphan, StayInv, TypeInv, Holds, Objects
  <2> QED BY <1>3, <2>1 DEF StayInv, Whole, Undeleted
<1>4. StayInv => [\A r \in Requests : RemoveOrphan(r) =>
                    \E s \in Requests : /\ req[s].kind = "delete"
                                        /\ Obj(req[s]) = <<cursor[r][1], cursor[r][3]>>]_vars
  BY <1>3
<1> QED BY <1>2, <1>4, StayInit, PTL DEF Spec, SweepFollowsDelete
==============================================================================
