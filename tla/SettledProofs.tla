----------------------------- MODULE SettledProofs -----------------------------
(***************************************************************************)
(* Proof of ObjectStore's Settled: if clients overlap no put, copy or      *)
(* delete of one object, nor a delete_bucket with them, and no sweep runs, *)
(* crashes, disconnects and write errors leave every object whose last     *)
(* writer was answered Ok with data and metadata that belong together.     *)
(* On the same invariant, the proof of EventsMatchState: the last event of *)
(* such an object tells whether it is there. And, when clients overlap     *)
(* nothing at all on one object or bucket and no fault strikes, the proof  *)
(* of ImplementsAtomicStore: the store of files refines AtomicStore. Last, *)
(* what the requests that did not get to their end can leave behind.       *)
(***************************************************************************)
EXTENDS OverlapProofs

Mutators == Writers \cup {"delete_bucket"}
Careful == Mutators \subseteq Serialised /\ "cleanup" \notin Ops /\ "unlink" \notin Faults

(* Requests in flight do not conflict.                                     *)
Apart ==
  \A r, s \in Requests : r # s /\ InFlight(r) /\ InFlight(s) => ~Conflict(req[r], req[s])

(* How far a writer of one object, or a delete_bucket, has come.           *)
InProgress(r) ==
  LET o == Obj(req[r]) IN
  /\ InFlight(r) /\ req[r].kind \in Writers => o \in dirty
  /\ pc[r] = "write_data" => data[o] = EMPTY
  /\ pc[r] \in {"make_meta_dir", "open_meta"} => data[o] = buf[r]
  /\ pc[r] = "write_meta" => data[o] = buf[r] /\ meta[o] = EMPTY
  /\ pc[r] = "emit" /\ req[r].kind \in {"put", "copy"}
       => data[o] # ABSENT /\ meta[o] = Describes(data[o])
  /\ pc[r] = "rm_meta" => data[o] = ABSENT
  /\ pc[r] = "rm_parent" \/ (pc[r] = "emit" /\ req[r].kind = "delete")
       => data[o] = ABSENT /\ meta[o] = ABSENT
  /\ pc[r] = "rm_bucket" => \A k \in Keys : data[<<req[r].bucket, k>>] = ABSENT

IInv ==
  /\ TypeInv
  /\ Apart
  /\ unlinked = {}
  /\ Tree
  /\ \A r \in Requests : InProgress(r)
  /\ Settled

-----------------------------------------------------------------------------
(* Requests that are both serialised and in flight touch different objects.*)
LEMMA Disjoint ==
  ASSUME Careful, Apart, NEW r \in Requests, NEW x \in Requests \ {r},
         InFlight(r), InFlight(x),
         req[r].kind \in Mutators, req[x].kind \in Mutators
  PROVE  Touches(req[r]) \cap Touches(req[x]) = {}
BY DEF Careful, Apart, Conflict

(* What each kind of writer touches.                                       *)
LEMMA Touching ==
  ASSUME TypeInv, NEW r \in Requests, InFlight(r)
  PROVE  /\ req[r].kind \in Writers => Obj(req[r]) \in Touches(req[r]) \cap Objects
         /\ req[r].kind = "delete_bucket" =>
              \A k \in Keys : <<req[r].bucket, k>> \in Touches(req[r]) \cap Objects
<1>1. req[r] \in Request /\ WellFormed(req[r])
  BY DEF TypeInv, TypeOK, Program
<1>2. ASSUME req[r].kind \in Writers PROVE Obj(req[r]) \in Touches(req[r]) \cap Objects
  BY <1>1, <1>2 DEF WellFormed, Request, Obj, Objects, Touches, Writers, BucketKinds
<1>3. ASSUME req[r].kind = "delete_bucket", NEW k \in Keys
      PROVE  <<req[r].bucket, k>> \in Touches(req[r]) \cap Objects
  BY <1>1, <1>3 DEF WellFormed, Request, Objects, Touches, Writers, BucketKinds
<1> QED BY <1>2, <1>3

(* A step of r that writes at most to what r touches leaves the others     *)
(* where they are.                                                         *)
LEMMA OthersKeep ==
  ASSUME IInv, Careful, NEW r \in Requests, NEW x \in Requests \ {r},
         pc'[x] = pc[x], req'[x] = req[x], buf'[x] = buf[x],
         \/ dirty \subseteq dirty'
         \/ InFlight(r) /\ req[r].kind \in Writers /\ dirty' = dirty \ {Obj(req[r])},
         \/ data' = data /\ meta' = meta
         \/ /\ InFlight(r) /\ req[r].kind \in Mutators
            /\ \A o \in Objects \ Touches(req[r]) : data'[o] = data[o] /\ meta'[o] = meta[o]
  PROVE  InProgress(x)'
<1>1. InProgress(x) /\ Program(x)
  BY DEF IInv, TypeInv
<1>2. CASE ~InFlight(x)
  BY <1>2 DEF InProgress, InFlight
<1>3. CASE InFlight(x) /\ req[x].kind \in Writers
  <2>1. LET o == Obj(req[x]) IN data'[o] = data[o] /\ meta'[o] = meta[o]
    BY <1>3, Disjoint, Touching DEF IInv, Mutators
  <2>2. Obj(req[x]) \in dirty'
    <3>1. Obj(req[x]) \in dirty
      BY <1>1, <1>3 DEF InProgress
    <3>2. InFlight(r) /\ req[r].kind \in Writers => Obj(req[r]) # Obj(req[x])
      BY <1>3, Disjoint, Touching DEF IInv, Mutators
    <3> QED BY <3>1, <3>2
  <2>3. pc[x] # "rm_bucket"
    BY <1>1, <1>3 DEF Program, DropPCs, Writers
  <2> QED BY <1>1, <2>1, <2>2, <2>3 DEF InProgress
<1>4. CASE InFlight(x) /\ req[x].kind = "delete_bucket"
  <2>1. \A k \in Keys : data'[<<req[x].bucket, k>>] = data[<<req[x].bucket, k>>]
    BY <1>4, Disjoint, Touching DEF IInv, Mutators
  <2>2. pc[x] \notin PutPCs \cup DeletePCs
    BY <1>1, <1>4 DEF Program
  <2> QED BY <1>1, <1>4, <2>1, <2>2 DEF InProgress, PutPCs, DeletePCs, Writers
<1>5. CASE InFlight(x) /\ req[x].kind \notin Mutators
  <2>1. pc[x] \notin PutPCs \cup DeletePCs \cup DropPCs
    BY <1>1, <1>5 DEF Program, Mutators, Writers
  <2> QED BY <1>5, <2>1 DEF InProgress, PutPCs, DeletePCs, DropPCs, Mutators, Writers
<1> QED BY <1>2, <1>3, <1>4, <1>5 DEF Mutators

(* No step but Start puts a request in flight.                             *)
LEMMA ApartKeeps ==
  ASSUME Apart, req' = req, \A x \in Requests : InFlight(x)' => InFlight(x)
  PROVE  Apart'
BY DEF Apart, Conflict, Touches

-----------------------------------------------------------------------------
(* A step of r that writes at most its own object.                         *)
LEMMA Frame ==
  ASSUME IInv, TypeInv', Careful, NEW r \in Requests, InFlight(r), req' = req,
         \A x \in Requests \ {r} : pc'[x] = pc[x] /\ buf'[x] = buf[x],
         unlinked' = {}, dirty' = dirty,
         \/ data' = data /\ meta' = meta
         \/ /\ req[r].kind \in Writers
            /\ \A o \in Objects \ {Obj(req[r])} : data'[o] = data[o] /\ meta'[o] = meta[o],
         InProgress(r)', Tree'
  PROVE  IInv'
<1>1. Apart'
  <2>1. \A x \in Requests : InFlight(x)' => InFlight(x)
    BY DEF InFlight
  <2> QED BY <2>1, ApartKeeps DEF IInv
<1>2. ASSUME NEW x \in Requests PROVE InProgress(x)'
  <2>1. CASE x = r
    BY <2>1
  <2>2. CASE x # r
    <3>1. \/ data' = data /\ meta' = meta
          \/ /\ InFlight(r) /\ req[r].kind \in Mutators
             /\ \A o \in Objects \ Touches(req[r]) : data'[o] = data[o] /\ meta'[o] = meta[o]
      BY Touching DEF IInv, Mutators
    <3> QED BY <2>2, <3>1, OthersKeep
  <2> QED BY <2>1, <2>2
<1>3. Settled'
  <2> SUFFICES ASSUME NEW o \in Objects \ dirty PROVE Consistent(o)'
    BY DEF Settled
  <2>1. Consistent(o)
    BY DEF IInv, Settled
  <2>2. req[r].kind \in Writers => o # Obj(req[r])
    BY DEF IInv, InProgress
  <2> QED BY <2>1, <2>2 DEF Consistent
<1> QED BY <1>1, <1>2, <1>3 DEF IInv

(* The fields a refusal leaves alone.                                      *)
LEMMA RefusalKeeps ==
  ASSUME IInv, TypeInv', Careful, NEW r \in Requests, InFlight(r), req' = req,
         pc'[r] \in {"done", "lost"},
         \A x \in Requests \ {r} : pc'[x] = pc[x], buf' = buf,
         unlinked' = {}, dirty' = dirty, dirs' = dirs,
         \/ data' = data /\ meta' = meta
         \/ /\ req[r].kind \in Writers /\ data[Obj(req[r])] # ABSENT
            /\ \A o \in Objects \ {Obj(req[r])} : data'[o] = data[o] /\ meta'[o] = meta[o]
         \/ /\ req[r].kind \in Writers /\ data' = data
            /\ \A o \in Objects \ {Obj(req[r])} : meta'[o] = meta[o]
  PROVE  IInv'
<1>1. InProgress(r)'
  BY DEF InProgress, InFlight
<1>2. Tree'
  <2>1. \A b \in Buckets, k \in Keys : data'[<<b, k>>] # ABSENT => data[<<b, k>>] # ABSENT
    BY DEF Objects
  <2> QED BY <2>1, TreeKeeps DEF IInv
<1> QED BY <1>1, <1>2, Frame

-----------------------------------------------------------------------------
(* Each action keeps IInv.                                                 *)

LEMMA SettledMakeParent ==
  ASSUME IInv, TypeInv', Careful, NEW r \in Requests, MakeParent(r)
  PROVE  IInv'
<1>1. /\ InFlight(r) /\ pc'[r] = "open_data" /\ \A x \in Requests \ {r} : pc'[x] = pc[x]
      /\ UNCHANGED <<data, meta, req, buf, unlinked, dirty>>
  BY GoCounters DEF MakeParent, InFlight, IInv
<1>2. req[r].bucket \in Buckets /\ req[r].key \in Keys
  BY Named DEF MakeParent, IInv, PutPCs
<1>3. Tree'
  BY <1>1, <1>2, PathClosed, TreeGrows DEF MakeParent, IInv
<1>4. InProgress(r)'
  BY <1>1 DEF IInv, InProgress, InFlight
<1> QED BY <1>1, <1>3, <1>4, Frame DEF IInv

LEMMA SettledOpenData ==
  ASSUME IInv, TypeInv', Careful, NEW r \in Requests, OpenData(r)
  PROVE  IInv'
<1>1. InFlight(r) /\ req' = req /\ dirs' = dirs /\ buf' = buf /\ unlinked' = {} /\ dirty' = dirty
      /\ meta' = meta
  BY DEF OpenData, InFlight, IInv, Fail
<1>2. /\ req[r].bucket \in Buckets /\ req[r].key \in Keys /\ Obj(req[r]) \in Objects
      /\ req[r].kind \in Writers
  BY Named DEF OpenData, IInv, TypeInv, Program, PutPCs, Writers
<1>3. CASE Fail(r, "InternalError") /\ UNCHANGED data
  BY <1>1, <1>3, RefusalKeeps, FinishCounters DEF Fail, IInv
<1>4. CASE /\ <<req[r].bucket, "data", Parent[req[r].key]>> \in dirs
           /\ data' = [data EXCEPT ![Obj(req[r])] = EMPTY]
           /\ Go(r, "write_data")
  <2>1. pc'[r] = "write_data" /\ \A x \in Requests \ {r} : pc'[x] = pc[x]
    BY <1>4, GoCounters DEF IInv
  <2>2. /\ data'[Obj(req[r])] = EMPTY
        /\ \A o \in Objects \ {Obj(req[r])} : data'[o] = data[o]
    BY <1>2, <1>4 DEF IInv, TypeInv, TypeOK
  <2>3. InProgress(r)'
    BY <1>1, <2>1, <2>2 DEF IInv, InProgress, InFlight
  <2>4. DataPath(req[r].bucket, req[r].key) \subseteq dirs
    BY <1>2, <1>4, ParentSuffices, RootSuffices DEF IInv
  <2>5. Tree'
    <3>1. ASSUME NEW b \in Buckets, NEW k \in Keys, data'[<<b, k>>] # ABSENT
          PROVE  data[<<b, k>>] # ABSENT \/ DataPath(b, k) \subseteq dirs'
      <4>1. CASE <<b, k>> = Obj(req[r])
        BY <1>1, <2>4, <4>1 DEF Obj
      <4>2. CASE <<b, k>> # Obj(req[r])
        BY <2>2, <3>1, <4>2 DEF Objects
      <4> QED BY <4>1, <4>2
    <3> QED BY <1>1, <3>1, TreeGrows DEF IInv
  <2> QED BY <1>1, <1>2, <2>1, <2>2, <2>3, <2>5, Frame
<1> QED BY <1>3, <1>4 DEF OpenData

LEMMA SettledWriteData ==
  ASSUME IInv, TypeInv', Careful, NEW r \in Requests, WriteData(r)
  PROVE  IInv'
<1>1. /\ InFlight(r) /\ pc[r] = "write_data" /\ pc'[r] = "make_meta_dir"
      /\ \A x \in Requests \ {r} : pc'[x] = pc[x]
      /\ UNCHANGED <<dirs, meta, req, buf, dirty>> /\ unlinked' = {}
  BY GoCounters DEF WriteData, InFlight, IInv
<1>2. /\ req[r].bucket \in Buckets /\ req[r].key \in Keys /\ Obj(req[r]) \in Objects
      /\ req[r].kind \in Writers
  BY Named DEF WriteData, IInv, TypeInv, Program, PutPCs, Writers
<1>3. data[Obj(req[r])] = EMPTY
  BY <1>1 DEF IInv, InProgress
<1>4. PICK c \in Written(buf[r], EMPTY) : data' = [data EXCEPT ![Obj(req[r])] = c]
  BY <1>3 DEF WriteData, IInv
<1>5. /\ data'[Obj(req[r])] = buf[r]
      /\ \A o \in Objects \ {Obj(req[r])} : data'[o] = data[o]
  BY <1>2, <1>4 DEF Written, IInv, TypeInv, TypeOK
<1>6. InProgress(r)'
  BY <1>1, <1>5 DEF IInv, InProgress, InFlight
<1>7. Tree'
  <2>1. \A b \in Buckets, k \in Keys : data'[<<b, k>>] # ABSENT => data[<<b, k>>] # ABSENT
    BY <1>3, <1>5, Distinct DEF Objects, ValueAssumption
  <2> QED BY <1>1, <2>1, TreeKeeps DEF IInv
<1> QED BY <1>1, <1>2, <1>5, <1>6, <1>7, Frame

LEMMA SettledMakeMetaDir ==
  ASSUME IInv, TypeInv', Careful, NEW r \in Requests, MakeMetaDir(r)
  PROVE  IInv'
<1>1. /\ InFlight(r) /\ pc[r] = "make_meta_dir" /\ pc'[r] = "open_meta"
      /\ \A x \in Requests \ {r} : pc'[x] = pc[x]
      /\ UNCHANGED <<data, meta, req, buf, unlinked, dirty>>
  BY GoCounters DEF MakeMetaDir, InFlight, IInv
<1>2. Tree'
  <2>1. \A b \in Buckets, d \in Dirs : <<b, "data", d>> \notin dirs' \ dirs
    BY Paths DEF MakeMetaDir, MetaPath, PathAssumption
  <2> QED BY <1>1, <2>1, TreeGrows DEF MakeMetaDir, IInv
<1>3. InProgress(r)'
  BY <1>1 DEF IInv, InProgress, InFlight
<1> QED BY <1>1, <1>2, <1>3, Frame DEF IInv

LEMMA SettledOpenMeta ==
  ASSUME IInv, TypeInv', Careful, NEW r \in Requests, OpenMeta(r)
  PROVE  IInv'
<1>1. /\ InFlight(r) /\ pc[r] = "open_meta"
      /\ UNCHANGED <<req, dirs, buf, dirty, data>> /\ unlinked' = {}
  BY DEF OpenMeta, InFlight, IInv, Fail
<1>2. Obj(req[r]) \in Objects /\ req[r].kind \in Writers
  BY Named DEF OpenMeta, IInv, TypeInv, Program, PutPCs, Writers
<1>3. CASE Fail(r, "InternalError") /\ UNCHANGED meta
  BY <1>1, <1>3, RefusalKeeps, FinishCounters DEF Fail, IInv
<1>4. CASE meta' = [meta EXCEPT ![Obj(req[r])] = EMPTY] /\ Go(r, "write_meta")
  <2>1. pc'[r] = "write_meta" /\ \A x \in Requests \ {r} : pc'[x] = pc[x]
    BY <1>4, GoCounters DEF IInv
  <2>2. /\ meta'[Obj(req[r])] = EMPTY
        /\ \A o \in Objects \ {Obj(req[r])} : meta'[o] = meta[o]
    BY <1>2, <1>4 DEF IInv, TypeInv, TypeOK
  <2>3. InProgress(r)'
    BY <1>1, <2>1, <2>2 DEF IInv, InProgress, InFlight
  <2>4. Tree'
    BY <1>1, TreeKeeps DEF IInv
  <2> QED BY <1>1, <1>2, <2>1, <2>2, <2>3, <2>4, Frame
<1> QED BY <1>3, <1>4 DEF OpenMeta

LEMMA SettledWriteMeta ==
  ASSUME IInv, TypeInv', Careful, NEW r \in Requests, WriteMeta(r)
  PROVE  IInv'
<1>1. /\ InFlight(r) /\ pc[r] = "write_meta" /\ pc'[r] = "emit"
      /\ \A x \in Requests \ {r} : pc'[x] = pc[x]
      /\ UNCHANGED <<dirs, data, req, buf, dirty>> /\ unlinked' = {}
  BY GoCounters DEF WriteMeta, InFlight, IInv
<1>2. Obj(req[r]) \in Objects /\ req[r].kind \in {"put", "copy"} /\ buf[r] \in Contents
  BY Named DEF WriteMeta, IInv, TypeInv, Program, Holds, PutPCs
<1>3. data[Obj(req[r])] = buf[r] /\ meta[Obj(req[r])] = EMPTY
  BY <1>1 DEF IInv, InProgress
<1>4. PICK c \in Written(Describes(buf[r]), EMPTY) : meta' = [meta EXCEPT ![Obj(req[r])] = c]
  BY <1>3 DEF WriteMeta, IInv
<1>5. /\ meta'[Obj(req[r])] = Describes(buf[r])
      /\ \A o \in Objects \ {Obj(req[r])} : meta'[o] = meta[o]
  BY <1>2, <1>4 DEF Written, IInv, TypeInv, TypeOK
<1>6. buf[r] # ABSENT
  BY <1>2, Distinct DEF Contents, ValueAssumption
<1>7. InProgress(r)'
  BY <1>1, <1>2, <1>3, <1>5, <1>6 DEF IInv, InProgress, InFlight
<1>8. Tree'
  BY <1>1, TreeKeeps DEF IInv
<1>9. req[r].kind \in Writers
  BY <1>2 DEF Writers
<1> QED BY <1>1, <1>5, <1>7, <1>8, <1>9, Frame

(* A step of r that changes no file and no directory.                      *)
LEMMA Moves ==
  ASSUME IInv, TypeInv', Careful, NEW r \in Requests, InFlight(r),
         UNCHANGED <<dirs, data, meta, req, unlinked, dirty>>,
         \A x \in Requests \ {r} : pc'[x] = pc[x] /\ buf'[x] = buf[x],
         pc'[r] \notin {"write_data", "make_meta_dir", "open_meta", "write_meta", "emit",
                        "rm_meta", "rm_parent", "rm_bucket"}
  PROVE  IInv'
<1>1. InProgress(r)'
  BY DEF IInv, InProgress
<1>2. Tree'
  BY TreeKeeps DEF IInv
<1> QED BY <1>1, <1>2, Frame DEF IInv

LEMMA SettledIsFile ==
  ASSUME IInv, TypeInv', Careful, NEW r \in Requests, IsFile(r)
  PROVE  IInv'
<1>1. /\ InFlight(r) /\ UNCHANGED <<dirs, data, meta, req, buf, unlinked, dirty>>
  BY DEF IsFile, InFlight, fs, Fail
<1>2. /\ pc'[r] \in {"read_meta", "read_data", "done"}
      /\ \A x \in Requests \ {r} : pc'[x] = pc[x]
  BY GoCounters, FinishCounters DEF IsFile, Fail, IInv
<1> QED BY <1>1, <1>2, Moves

LEMMA SettledReadData ==
  ASSUME IInv, TypeInv', Careful, NEW r \in Requests, ReadData(r)
  PROVE  IInv'
<1>1. /\ InFlight(r) /\ UNCHANGED <<dirs, data, meta, req, unlinked, dirty>>
      /\ \A x \in Requests \ {r} : buf'[x] = buf[x]
  BY DEF ReadData, InFlight, fs, Fail, IInv, TypeInv, TypeOK
<1>2. /\ pc'[r] \in {"read_meta", "done"}
      /\ \A x \in Requests \ {r} : pc'[x] = pc[x]
  BY GoCounters, FinishCounters DEF ReadData, Fail, IInv
<1> QED BY <1>1, <1>2, Moves

LEMMA SettledReadMeta ==
  ASSUME IInv, TypeInv', Careful, NEW r \in Requests, ReadMeta(r)
  PROVE  IInv'
<1>1. /\ InFlight(r) /\ UNCHANGED <<dirs, data, meta, req, buf, unlinked, dirty>>
  BY DEF ReadMeta, InFlight, fs, Fail
<1>2. /\ pc'[r] \in {"check_dst", "done"}
      /\ \A x \in Requests \ {r} : pc'[x] = pc[x]
  BY GoCounters, FinishCounters DEF ReadMeta, Fail, IInv
<1> QED BY <1>1, <1>2, Moves

LEMMA SettledCheckDst ==
  ASSUME IInv, TypeInv', Careful, NEW r \in Requests, CheckDst(r)
  PROVE  IInv'
<1>1. /\ InFlight(r) /\ UNCHANGED <<dirs, data, meta, req, buf, unlinked, dirty>>
  BY DEF CheckDst, InFlight, fs, Fail
<1>2. /\ pc'[r] \in {"make_parent", "done"}
      /\ \A x \in Requests \ {r} : pc'[x] = pc[x]
  BY GoCounters, FinishCounters DEF CheckDst, Fail, IInv
<1> QED BY <1>1, <1>2, Moves

LEMMA SettledAbandon ==
  ASSUME IInv, TypeInv', Careful, NEW r \in Requests, Abandon(r)
  PROVE  IInv'
<1>1. /\ InFlight(r) /\ UNCHANGED <<dirs, data, meta, req, buf, unlinked, dirty>>
  BY DEF Abandon, fs
<1>2. pc'[r] = "lost" /\ \A x \in Requests \ {r} : pc'[x] = pc[x]
  BY GoCounters DEF Abandon, IInv
<1> QED BY <1>1, <1>2, Moves

LEMMA SettledRemoveData ==
  ASSUME IInv, TypeInv', Careful, NEW r \in Requests, RemoveData(r)
  PROVE  IInv'
<1>1. /\ InFlight(r) /\ pc[r] = "rm_data" /\ pc'[r] = "rm_meta"
      /\ \A x \in Requests \ {r} : pc'[x] = pc[x]
      /\ UNCHANGED <<dirs, meta, req, buf, dirty>>
  BY GoCounters DEF RemoveData, InFlight, IInv
<1>2. /\ data' = [data EXCEPT ![Obj(req[r])] = ABSENT]
      /\ unlinked' = unlinked \cup {x \in Requests : /\ pc[x] = "write_data"
                                                    /\ Obj(req[x]) = Obj(req[r])}
  BY DEF RemoveData, Careful
<1>3. Obj(req[r]) \in Objects /\ req[r].kind = "delete"
  BY <1>1, Named DEF IInv, TypeInv, Program, DeletePCs
<1>4. unlinked' = {}
  <2>1. ASSUME NEW x \in Requests, pc[x] = "write_data", Obj(req[x]) = Obj(req[r]) PROVE FALSE
    <3>1. x # r /\ InFlight(x) /\ req[x].kind \in Writers
      BY <1>1, <2>1 DEF IInv, TypeInv, Program, InFlight, PutPCs, Writers
    <3> QED BY <1>1, <1>3, <2>1, <3>1, Disjoint, Touching DEF IInv, Mutators, Writers
  <2> QED BY <1>2, <2>1 DEF IInv
<1>5. /\ data'[Obj(req[r])] = ABSENT
      /\ \A o \in Objects \ {Obj(req[r])} : data'[o] = data[o]
  BY <1>2, <1>3 DEF IInv, TypeInv, TypeOK
<1>6. InProgress(r)'
  BY <1>1, <1>5 DEF IInv, InProgress, InFlight
<1>7. Tree'
  <2>1. \A b \in Buckets, k \in Keys : data'[<<b, k>>] # ABSENT => data[<<b, k>>] # ABSENT
    BY <1>5 DEF Objects
  <2> QED BY <1>1, <2>1, TreeKeeps DEF IInv
<1>8. req[r].kind \in Writers
  BY <1>3 DEF Writers
<1> QED BY <1>1, <1>4, <1>5, <1>6, <1>7, <1>8, Frame

LEMMA SettledRemoveMeta ==
  ASSUME IInv, TypeInv', Careful, NEW r \in Requests, RemoveMeta(r)
  PROVE  IInv'
<1>1. /\ InFlight(r) /\ pc[r] = "rm_meta" /\ pc'[r] = "rm_parent"
      /\ \A x \in Requests \ {r} : pc'[x] = pc[x]
      /\ UNCHANGED <<dirs, data, req, buf, dirty>>
  BY GoCounters DEF RemoveMeta, InFlight, IInv
<1>2. /\ meta' = [meta EXCEPT ![Obj(req[r])] = ABSENT]
      /\ unlinked' = unlinked \cup {x \in Requests : /\ pc[x] = "write_meta"
                                                    /\ Obj(req[x]) = Obj(req[r])}
  BY DEF RemoveMeta, Careful, Unname
<1>3. Obj(req[r]) \in Objects /\ req[r].kind = "delete"
  BY <1>1, Named DEF IInv, TypeInv, Program, DeletePCs
<1>4. unlinked' = {}
  <2>1. ASSUME NEW x \in Requests, pc[x] = "write_meta", Obj(req[x]) = Obj(req[r]) PROVE FALSE
    <3>1. x # r /\ InFlight(x) /\ req[x].kind \in Writers
      BY <1>1, <2>1 DEF IInv, TypeInv, Program, InFlight, PutPCs, Writers
    <3> QED BY <1>1, <1>3, <2>1, <3>1, Disjoint, Touching DEF IInv, Mutators, Writers
  <2> QED BY <1>2, <2>1 DEF IInv
<1>5. /\ meta'[Obj(req[r])] = ABSENT
      /\ \A o \in Objects \ {Obj(req[r])} : meta'[o] = meta[o]
  BY <1>2, <1>3 DEF IInv, TypeInv, TypeOK
<1>6. InProgress(r)'
  BY <1>1, <1>5 DEF IInv, InProgress, InFlight
<1>7. Tree'
  BY <1>1, TreeKeeps DEF IInv
<1>8. req[r].kind \in Writers
  BY <1>3 DEF Writers
<1> QED BY <1>1, <1>4, <1>5, <1>6, <1>7, <1>8, Frame

LEMMA SettledRemoveParent ==
  ASSUME IInv, TypeInv', Careful, NEW r \in Requests, RemoveParent(r)
  PROVE  IInv'
<1>1. /\ InFlight(r) /\ pc[r] = "rm_parent" /\ req[r].kind = "delete"
      /\ req[r].bucket \in Buckets /\ cursor[r] \in Dirs \cup {ROOT}
      /\ UNCHANGED <<data, meta, req, buf, dirty, unlinked>>
  BY Named DEF RemoveParent, InFlight, IInv, TypeInv, Program, Holds, DeletePCs
<1>2. pc'[r] \in {"rm_parent", "emit"} /\ \A x \in Requests \ {r} : pc'[x] = pc[x]
  BY <1>1, GoCounters DEF RemoveParent, IInv
<1>3. InProgress(r)'
  BY <1>1, <1>2 DEF IInv, InProgress, InFlight
<1>4. Tree'
  <2>1. CASE UNCHANGED dirs
    BY <1>1, <2>1, TreeKeeps DEF IInv
  <2>2. CASE /\ Entries(req[r].bucket, "data", cursor[r]) = {}
             /\ dirs' = dirs \ {<<req[r].bucket, "data", cursor[r]>>}
    BY <1>1, <2>2, TreeShrinks DEF IInv
  <2> QED BY <2>1, <2>2 DEF RemoveParent
<1> QED BY <1>1, <1>2, <1>3, <1>4, Frame DEF IInv

LEMMA SettledMakeBucket ==
  ASSUME IInv, TypeInv', Careful, NEW r \in Requests,
         MakeBucket(r) \/ MakeMetaRoot(r) \/ WriteInfo(r)
  PROVE  IInv'
<1>1. /\ InFlight(r) /\ req[r].kind = "create_bucket"
      /\ UNCHANGED <<data, meta, req, buf, dirty, unlinked>>
  BY DEF MakeBucket, MakeMetaRoot, WriteInfo, InFlight, Fail, IInv, TypeInv, Program, CreatePCs
<1>2. /\ pc'[r] \in {"make_meta_root", "write_info", "emit", "done"}
      /\ \A x \in Requests \ {r} : pc'[x] = pc[x]
  BY GoCounters, FinishCounters DEF MakeBucket, MakeMetaRoot, WriteInfo, Fail, IInv
<1>3. InProgress(r)'
  BY <1>1, <1>2 DEF InProgress, Writers
<1>4. Tree'
  <2>1. dirs \subseteq dirs' /\ \A e \in dirs' \ dirs : e[3] = ROOT
    BY DEF MakeBucket, MakeMetaRoot, WriteInfo
  <2>2. \A b \in Buckets, d \in Dirs : <<b, "data", d>> \notin dirs' \ dirs
    BY <2>1, Paths DEF PathAssumption
  <2> QED BY <1>1, <2>1, <2>2, TreeGrows DEF IInv
<1> QED BY <1>1, <1>2, <1>3, <1>4, Frame DEF IInv

(* An empty bucket holds no object.                                        *)
LEMMA SettledScan ==
  ASSUME IInv, TypeInv', Careful, NEW r \in Requests, Scan(r)
  PROVE  IInv'
<1>1. /\ InFlight(r) /\ req[r].kind = "delete_bucket" /\ req[r].bucket \in Buckets
      /\ UNCHANGED <<dirs, data, meta, req, buf, unlinked, dirty>>
  BY Named DEF Scan, InFlight, fs, Fail, IInv, TypeInv, Program, DropPCs
<1>2. CASE pc'[r] = "done" /\ \A x \in Requests \ {r} : pc'[x] = pc[x]
  BY <1>1, <1>2, Moves
<1>3. CASE Foreign(req[r].bucket) = {} /\ Go(r, "rm_bucket")
  <2>1. pc'[r] = "rm_bucket" /\ \A x \in Requests \ {r} : pc'[x] = pc[x]
    BY <1>3, GoCounters DEF IInv
  <2>2. \A k \in Keys : data[<<req[r].bucket, k>>] = ABSENT
    BY <1>1, <1>3, EntryOnPath DEF Foreign, IInv
  <2>3. InProgress(r)'
    BY <1>1, <2>1, <2>2 DEF InProgress, Writers
  <2>4. Tree'
    BY <1>1, TreeKeeps DEF IInv
  <2> QED BY <1>1, <2>1, <2>3, <2>4, Frame DEF IInv
<1> QED BY <1>2, <1>3, FinishCounters DEF Scan, Fail, IInv

LEMMA SettledNoticeEntry ==
  ASSUME IInv, TypeInv', Careful, NEW r \in Requests, NoticeEntry(r)
  PROVE  IInv'
<1>1. /\ InFlight(r) /\ UNCHANGED <<dirs, data, meta, pc, req, buf, unlinked, dirty>>
  BY DEF NoticeEntry, InFlight, fs
<1>2. InProgress(r)'
  BY <1>1 DEF IInv, InProgress, InFlight
<1>3. Tree'
  BY <1>1, TreeKeeps DEF IInv
<1> QED BY <1>1, <1>2, <1>3, Frame DEF IInv

(* What the removal of a bucket meets in it.                               *)
LEMMA WithinBucket ==
  ASSUME TypeInv, NEW b \in Buckets, NEW e \in Within(b)
  PROVE  /\ e = <<b, e[2], e[3]>> /\ e[2] \in {"data", "meta"}
         /\ IsDir(e) => e \in dirs
         /\ e[3] \in Keys /\ e[2] = "data" => data[<<b, e[3]>>] # ABSENT
<1>1. e \in Names
  BY WithinNames DEF TypeInv
<1>2. e[1] = b
  BY DEF Within
<1>3. ROOT \notin Keys /\ NONE \notin Keys \cup Dirs \cup {ROOT} /\ Keys \cap Dirs = {}
  BY Paths DEF PathAssumption
<1>4. CASE e \in dirs
  <2>1. e[3] \notin Keys
    BY <1>3, <1>4 DEF TypeInv, TypeOK
  <2> QED BY <1>1, <1>2, <1>4, <2>1 DEF Names
<1>5. CASE \E k \in Files(b, "data") : e = <<b, "data", k>>
  BY <1>3, <1>5 DEF IsDir, Files
<1>6. CASE \E k \in Files(b, "meta") : e = <<b, "meta", k>>
  BY <1>3, <1>6 DEF IsDir, Files
<1>7. CASE e = <<b, "meta", NONE>>
  BY <1>3, <1>7 DEF IsDir
<1> QED BY <1>4, <1>5, <1>6, <1>7 DEF Within

LEMMA SettledRemoveEntry ==
  ASSUME IInv, TypeInv', Careful, NEW r \in Requests, RemoveEntry(r)
  PROVE  IInv'
<1> DEFINE b == req[r].bucket
<1>1. /\ InFlight(r) /\ pc[r] = "rm_bucket" /\ req[r].kind = "delete_bucket" /\ b \in Buckets
      /\ UNCHANGED <<pc, req, buf, dirty>>
  BY Named DEF RemoveEntry, InFlight, IInv, TypeInv, Program, DropPCs
<1>2. \A k \in Keys : data[<<b, k>>] = ABSENT
  BY <1>1 DEF IInv, InProgress
<1>3. PICK e \in Within(b) :
        /\ e # <<e[1], "data", ROOT>>
        /\ IsDir(e) => Inside(e) = {}
        /\ \/ IsDir(e) /\ dirs' = dirs \ {e} /\ UNCHANGED <<data, meta, unlinked>>
           \/ UNCHANGED <<dirs, data, meta, unlinked>>
           \/ e[3] \in Keys /\ e[2] = "data"
           \/ e[3] \in Keys /\ e[2] = "meta" /\ Unname(<<e[1], e[3]>>) /\ UNCHANGED <<dirs, data>>
  BY DEF RemoveEntry
<1>4. /\ e = <<b, e[2], e[3]>> /\ e[2] \in {"data", "meta"}
      /\ ~(e[3] \in Keys /\ e[2] = "data")
  BY <1>1, <1>2, <1>3, WithinBucket DEF IInv
<1>5. data' = data
  BY <1>3, <1>4
<1>6. /\ unlinked' = {}
      /\ \A o \in Objects : \/ meta'[o] = meta[o]
                            \/ o[1] = b /\ data[o] = ABSENT /\ meta'[o] = ABSENT
  <2>1. CASE UNCHANGED <<meta, unlinked>>
    BY <2>1 DEF IInv
  <2>2. CASE e[3] \in Keys /\ Unname(<<b, e[3]>>)
    <3>1. ASSUME NEW x \in Requests, pc[x] = "write_meta", Obj(req[x]) = <<b, e[3]>> PROVE FALSE
      <4>1. x # r /\ InFlight(x) /\ req[x].kind \in Writers
        BY <1>1, <3>1 DEF IInv, TypeInv, Program, InFlight, PutPCs, Writers
      <4> QED BY <1>1, <2>2, <3>1, <4>1, Disjoint, Touching DEF IInv, Mutators
    <3>2. unlinked' = {}
      BY <2>2, <3>1 DEF Unname, IInv
    <3> QED BY <1>1, <1>2, <2>2, <3>2 DEF Unname, IInv, TypeInv, TypeOK, Objects
  <2> QED BY <1>3, <1>4, <2>1, <2>2
<1>7. Apart'
  <2>1. \A x \in Requests : InFlight(x)' => InFlight(x)
    BY <1>1 DEF InFlight
  <2> QED BY <1>1, <2>1, ApartKeeps DEF IInv
<1>8. Tree'
  <2>1. CASE UNCHANGED dirs
    BY <1>5, <2>1, TreeKeeps DEF IInv
  <2>2. CASE e[2] = "meta" /\ dirs' = dirs \ {e}
    BY <1>4, <1>5, <2>2 DEF Tree, DataPath, IInv
  <2>3. CASE IsDir(e) /\ e[2] = "data" /\ dirs' = dirs \ {e}
    <3>1. e[3] \in Dirs \cup {ROOT} /\ Entries(b, "data", e[3]) = {}
      BY <1>3, <1>4, <2>3 DEF IsDir, Inside
    <3> QED BY <1>1, <1>4, <1>5, <2>3, <3>1, TreeShrinks DEF IInv
  <2> QED BY <1>3, <1>4, <2>1, <2>2, <2>3
<1>9. ASSUME NEW x \in Requests PROVE InProgress(x)'
  <2>1. CASE x = r
    BY <1>1, <1>2, <1>5, <2>1 DEF InProgress, Writers
  <2>2. CASE x # r
    <3>1. \A o \in Objects \ Touches(req[r]) : data'[o] = data[o] /\ meta'[o] = meta[o]
      BY <1>1, <1>5, <1>6, Touching DEF IInv, Objects
    <3> QED BY <1>1, <2>2, <3>1, OthersKeep DEF Mutators
  <2> QED BY <2>1, <2>2
<1>10. Settled'
  BY <1>1, <1>5, <1>6 DEF IInv, Settled, Consistent
<1> QED BY <1>6, <1>7, <1>8, <1>9, <1>10 DEF IInv

LEMMA SettledRemoveBucketDir ==
  ASSUME IInv, TypeInv', Careful, NEW r \in Requests, RemoveBucketDir(r)
  PROVE  IInv'
<1>1. /\ InFlight(r) /\ req[r].kind = "delete_bucket" /\ req[r].bucket \in Buckets
      /\ UNCHANGED <<data, meta, req, buf, unlinked, dirty>>
  BY Named DEF RemoveBucketDir, InFlight, Fail, IInv, TypeInv, Program, DropPCs
<1>2. CASE Fail(r, "InternalError") /\ UNCHANGED dirs
  BY <1>1, <1>2, FinishCounters, Moves DEF Fail, IInv
<1>3. CASE /\ Within(req[r].bucket) = {<<req[r].bucket, "data", ROOT>>}
           /\ dirs' = dirs \ {<<req[r].bucket, "data", ROOT>>}
           /\ Go(r, "emit")
  <2>1. pc'[r] = "emit" /\ \A x \in Requests \ {r} : pc'[x] = pc[x]
    BY <1>3, GoCounters DEF IInv
  <2>2. InProgress(r)'
    BY <1>1, <2>1 DEF InProgress, Writers
  <2>3. Entries(req[r].bucket, "data", ROOT) = {}
    <3>1. ROOT \notin Keys \cup Dirs
      BY Paths DEF PathAssumption
    <3>2. Files(req[r].bucket, "data") = {}
      <4>1. \A k \in Files(req[r].bucket, "data") : <<req[r].bucket, "data", k>> \in Within(req[r].bucket)
        BY DEF Within
      <4> QED BY <1>3, <3>1, <4>1 DEF Files
    <3>3. \A d \in Dirs : <<req[r].bucket, "data", d>> \notin dirs
      BY <1>3, <3>1 DEF Within
    <3> QED BY <3>2, <3>3 DEF Entries
  <2>4. Tree'
    BY <1>1, <1>3, <2>3, TreeShrinks DEF IInv
  <2> QED BY <1>1, <2>1, <2>2, <2>4, Frame DEF IInv
<1> QED BY <1>2, <1>3 DEF RemoveBucketDir

LEMMA SettledWriteError ==
  ASSUME IInv, TypeInv', Careful, NEW r \in Requests, WriteError(r)
  PROVE  IInv'
<1>1. /\ InFlight(r) /\ UNCHANGED <<dirs, req, buf, dirty>> /\ unlinked' = {}
      /\ pc'[r] = "done" /\ \A x \in Requests \ {r} : pc'[x] = pc[x]
  BY FinishCounters DEF WriteError, InFlight, Fail, IInv
<1>2. CASE UNCHANGED <<data, meta>>
  BY <1>1, <1>2, RefusalKeeps
<1>3. CASE pc[r] = "write_data" /\ meta' = meta
           /\ data' = [data EXCEPT ![Obj(req[r])] = MANGLED]
  <2>1. req[r].kind \in Writers /\ data[Obj(req[r])] # ABSENT
    BY <1>3, Distinct DEF IInv, TypeInv, Program, PutPCs, Writers, InProgress, ValueAssumption
  <2>2. \A o \in Objects \ {Obj(req[r])} : data'[o] = data[o]
    BY <1>3 DEF IInv, TypeInv, TypeOK
  <2> QED BY <1>1, <1>3, <2>1, <2>2, RefusalKeeps
<1>4. CASE pc[r] = "write_meta" /\ data' = data
           /\ meta' = [meta EXCEPT ![Obj(req[r])] = MANGLED]
  <2>1. req[r].kind \in Writers
    BY <1>4 DEF IInv, TypeInv, Program, PutPCs, Writers
  <2>2. \A o \in Objects \ {Obj(req[r])} : meta'[o] = meta[o]
    BY <1>4 DEF IInv, TypeInv, TypeOK
  <2> QED BY <1>1, <1>4, <2>1, <2>2, RefusalKeeps
<1> QED BY <1>2, <1>3, <1>4 DEF WriteError

(* A writer that answers Ok leaves its object consistent.                  *)
LEMMA SettledEmit ==
  ASSUME IInv, TypeInv', Careful, NEW r \in Requests, Emit(r)
  PROVE  IInv'
<1>1. /\ InFlight(r) /\ pc[r] = "emit" /\ UNCHANGED <<dirs, data, meta, req, buf, unlinked>>
      /\ pc'[r] = "done" /\ \A x \in Requests \ {r} : pc'[x] = pc[x]
      /\ dirty' = IF req[r].kind \in Writers THEN dirty \ {Obj(req[r])} ELSE dirty
  BY FinishCounters DEF Emit, InFlight, fs, IInv
<1>2. Apart'
  <2>1. \A x \in Requests : InFlight(x)' => InFlight(x)
    BY <1>1 DEF InFlight
  <2> QED BY <1>1, <2>1, ApartKeeps DEF IInv
<1>3. ASSUME NEW x \in Requests PROVE InProgress(x)'
  <2>1. CASE x = r
    BY <1>1, <2>1 DEF InProgress, InFlight
  <2>2. CASE x # r
    BY <1>1, <2>2, OthersKeep
  <2> QED BY <2>1, <2>2
<1>4. Tree'
  BY <1>1, TreeKeeps DEF IInv
<1>5. Settled'
  <2>1. req[r].kind \in Writers => Consistent(Obj(req[r]))
    BY <1>1 DEF IInv, InProgress, Writers, Consistent
  <2> QED BY <1>1, <2>1 DEF IInv, Settled, Consistent
<1> QED BY <1>1, <1>2, <1>3, <1>4, <1>5 DEF IInv

LEMMA SettledCrash ==
  ASSUME IInv, TypeInv', Careful, Crash
  PROVE  IInv'
<1>1. /\ UNCHANGED <<dirs, req, dirty>> /\ unlinked' = {}
      /\ pc' = [r \in Requests |-> IF InFlight(r) THEN "lost" ELSE pc[r]]
  BY DEF Crash
<1>2. \A x \in Requests : ~InFlight(x)'
  BY <1>1 DEF InFlight
<1>3. Apart' /\ \A x \in Requests : InProgress(x)'
  BY <1>2 DEF Apart, InProgress, InFlight
<1>4. PICK torn \in SUBSET {r \in Requests \ unlinked : pc[r] \in {"write_data", "write_meta"}} :
        LET Torn(o, p) == \E r \in torn : pc[r] = p /\ Obj(req[r]) = o IN
        /\ data' = [o \in Objects |-> IF Torn(o, "write_data") THEN MANGLED ELSE data[o]]
        /\ meta' = [o \in Objects |-> IF Torn(o, "write_meta") THEN MANGLED ELSE meta[o]]
  BY DEF Crash
<1>5. \A r \in torn : /\ Obj(req[r]) \in dirty
                      /\ pc[r] = "write_data" => data[Obj(req[r])] # ABSENT
  <2> SUFFICES ASSUME NEW r \in torn
               PROVE  /\ Obj(req[r]) \in dirty
                      /\ pc[r] = "write_data" => data[Obj(req[r])] # ABSENT
    OBVIOUS
  <2>1. InFlight(r) /\ req[r].kind \in Writers
    BY DEF IInv, TypeInv, Program, PutPCs, Writers, InFlight
  <2> QED BY <2>1, Distinct DEF IInv, InProgress, ValueAssumption
<1>6. Tree'
  <2>1. \A b \in Buckets, k \in Keys : data'[<<b, k>>] # ABSENT => data[<<b, k>>] # ABSENT
    BY <1>4, <1>5 DEF Objects
  <2> QED BY <1>1, <2>1, TreeKeeps DEF IInv
<1>7. Settled'
  <2> SUFFICES ASSUME NEW o \in Objects \ dirty PROVE Consistent(o)'
    BY <1>1 DEF Settled
  <2>1. data'[o] = data[o] /\ meta'[o] = meta[o]
    BY <1>4, <1>5
  <2> QED BY <2>1 DEF IInv, Settled, Consistent
<1> QED BY <1>1, <1>3, <1>6, <1>7 DEF IInv

LEMMA SettledStart ==
  ASSUME IInv, TypeInv', Careful, NEW r \in Requests, Start(r)
  PROVE  IInv'
<1>1. pc[r] = "idle" /\ UNCHANGED <<dirs, data, meta, unlinked>>
  BY DEF Start, fs
<1>2. PICK q \in Request :
        /\ WellFormed(q)
        /\ \A s \in Requests : InFlight(s) => ~Conflict(q, req[s])
        /\ req' = [req EXCEPT ![r] = q]
        /\ \/ (\E answer : Finish(r, answer)) /\ UNCHANGED <<buf, todo, dirty>>
           \/ /\ Go(r, Entry(q.kind))
              /\ buf' = [buf EXCEPT ![r] = q.body]
              /\ dirty' = IF q.kind \in Writers THEN dirty \cup {Obj(q)} ELSE dirty
  BY DEF Start
<1>3. /\ req'[r] = q
      /\ \A x \in Requests \ {r} : req'[x] = req[x] /\ buf'[x] = buf[x] /\ pc'[x] = pc[x]
  BY <1>2, GoCounters, FinishCounters DEF IInv, TypeInv, TypeOK
<1>4. pc'[r] = "done" \/ (pc'[r] = Entry(q.kind) /\ (q.kind \in Writers => Obj(q) \in dirty'))
  BY <1>2, GoCounters, FinishCounters DEF IInv
<1>5. dirty \subseteq dirty'
  BY <1>2
<1>6. Apart'
  <2> SUFFICES ASSUME NEW s \in Requests, NEW x \in Requests, s # x, InFlight(s)', InFlight(x)'
               PROVE  ~Conflict(req'[s], req'[x])
    BY DEF Apart, Conflict, Touches
  <2>1. CASE s # r /\ x # r
    BY <1>3, <2>1 DEF IInv, Apart, InFlight
  <2>2. CASE s = r
    BY <1>2, <1>3, <2>2 DEF InFlight
  <2>3. CASE x = r
    <3>1. ~Conflict(q, req[s])
      BY <1>2, <1>3, <2>3 DEF InFlight
    <3> QED BY <1>3, <2>3, <3>1 DEF Conflict
  <2> QED BY <2>1, <2>2, <2>3
<1>7. InProgress(r)'
  <2>1. Entry(q.kind) \notin {"write_data", "make_meta_dir", "open_meta", "write_meta", "emit",
                              "rm_meta", "rm_parent", "rm_bucket"}
    BY DEF Entry
  <2> QED BY <1>3, <1>4, <2>1 DEF InProgress, InFlight
<1>8. ASSUME NEW x \in Requests \ {r} PROVE InProgress(x)'
  BY <1>1, <1>3, <1>5, OthersKeep
<1>9. Tree'
  BY <1>1, TreeKeeps DEF IInv
<1>10. Settled'
  BY <1>1, <1>5 DEF IInv, Settled, Consistent
<1> QED BY <1>1, <1>6, <1>7, <1>8, <1>9, <1>10 DEF IInv

(* At the start every stored object has its document and its directories.  *)
LEMMA SettledInit == Init => IInv
<1> SUFFICES ASSUME Init PROVE IInv
  OBVIOUS
<1>1. PICK held \in [Objects -> Values \cup {ABSENT}] :
        /\ data = held
        /\ meta = [o \in Objects |->
                     IF held[o] = ABSENT THEN ABSENT ELSE Describes(held[o])]
  BY DEF Init
<1>2. Settled
  BY <1>1 DEF Settled, Consistent
<1>3. unlinked = {} /\ \A r \in Requests : pc[r] = "idle"
  BY DEF Init
<1>4. Apart /\ \A r \in Requests : InProgress(r)
  BY <1>3 DEF Apart, InProgress, InFlight
<1> QED BY <1>2, <1>3, <1>4, TypeInit, UsedInit DEF IInv

LEMMA SettledStep ==
  ASSUME IInv, Careful, [Next]_vars
  PROVE  IInv'
<1>0. TypeInv'
  BY TypeStep DEF IInv
<1>1. CASE UNCHANGED vars
  <2>1. Apart' /\ Tree' /\ Settled'
    BY <1>1 DEF vars, IInv, Apart, Tree, DataPath, Settled, Consistent, InFlight, Conflict, Touches
  <2>2. \A x \in Requests : InProgress(x)'
    BY <1>1 DEF vars, IInv, InProgress, InFlight
  <2> QED BY <1>0, <1>1, <2>1, <2>2 DEF vars, IInv
<1>2. ASSUME NEW r \in Requests, Sweep(r) \/ RemoveOrphan(r) PROVE FALSE
  <2>1. req[r].kind = "cleanup" /\ WellFormed(req[r])
    BY <1>2 DEF Sweep, RemoveOrphan, IInv, TypeInv, Program, InFlight, SweepPCs
  <2> QED BY <2>1 DEF WellFormed, Careful
<1>3. ASSUME NEW r \in Requests, Step(r) PROVE IInv'
  BY <1>0, <1>2, <1>3, SettledMakeParent, SettledOpenData, SettledWriteData, SettledMakeMetaDir,
     SettledOpenMeta, SettledWriteMeta, SettledEmit, SettledIsFile, SettledReadData,
     SettledReadMeta, SettledCheckDst, SettledRemoveData, SettledRemoveMeta,
     SettledRemoveParent, SettledMakeBucket, SettledScan, SettledNoticeEntry,
     SettledRemoveEntry, SettledRemoveBucketDir DEF Step
<1> QED BY <1>0, <1>1, <1>3, SettledCrash, SettledStart, SettledWriteError, SettledAbandon DEF Next

(* If clients overlap no put, copy, delete and delete_bucket on one object,*)
(* no sweep runs and removals do not fail, then whatever crashes,          *)
(* disconnects and write errors happen, an object whose last writer was    *)
(* answered Ok has data and metadata that agree (storage/mod.rs,           *)
(* put_object, copy_object, delete_object, delete_bucket).                 *)
THEOREM SettledCorrect ==
  ASSUME Careful
  PROVE  Spec => []Settled
<1>1. IInv => Settled
  BY DEF IInv
<1>2. IInv /\ [Next]_vars => IInv'
  BY SettledStep
<1> QED BY <1>1, <1>2, SettledInit, PTL DEF Spec

-----------------------------------------------------------------------------
(* The events that upstream sync gets.                                     *)

(* The data of an object with no unanswered writer changes in no step, and *)
(* the only step that adds an event is the answer of a request.            *)
LEMMA QuietStep ==
  ASSUME IInv, Careful, [Next]_vars
  PROVE  \/ \E r \in Requests : Emit(r)
         \/ /\ events' = events /\ dirty \subseteq dirty'
            /\ \A o \in Objects \ dirty : data'[o] = data[o]
<1> DEFINE Quiet == /\ events' = events /\ dirty \subseteq dirty'
                    /\ \A o \in Objects \ dirty : data'[o] = data[o]
<1> USE DEF IInv
<1>1. \A r \in Requests :
        pc[r] \in {"open_data", "write_data", "rm_data"} => Obj(req[r]) \in dirty
  BY DEF TypeInv, Program, InProgress, InFlight, PutPCs, DeletePCs, Writers
<1>2. ASSUME NEW r \in Requests, NEW c,
             pc[r] \in {"open_data", "write_data", "rm_data"},
             data' = [data EXCEPT ![Obj(req[r])] = c]
      PROVE  \A o \in Objects \ dirty : data'[o] = data[o]
  BY <1>1, <1>2 DEF TypeInv, TypeOK
<1>3. CASE UNCHANGED vars
  BY <1>3 DEF vars
<1>4. CASE Crash
  <2>1. PICK torn \in SUBSET {r \in Requests : pc[r] \in {"write_data", "write_meta"}} :
          data' = [o \in Objects |->
                     IF \E r \in torn : pc[r] = "write_data" /\ Obj(req[r]) = o
                     THEN MANGLED ELSE data[o]]
    BY <1>4 DEF Crash
  <2> QED BY <1>1, <1>4, <2>1 DEF Crash
<1>5. ASSUME NEW r \in Requests, Start(r) \/ Abandon(r) PROVE Quiet
  BY <1>5 DEF Start, Abandon, fs
<1>6. ASSUME NEW r \in Requests, WriteError(r) PROVE Quiet
  BY <1>2, <1>6 DEF WriteError, Fail
<1>7. ASSUME NEW r \in Requests, OpenData(r) \/ WriteData(r) \/ RemoveData(r) PROVE Quiet
  BY <1>2, <1>7 DEF OpenData, WriteData, RemoveData, Fail
<1>8. ASSUME NEW r \in Requests,
             \/ MakeParent(r) \/ MakeMetaDir(r) \/ OpenMeta(r) \/ WriteMeta(r)
             \/ IsFile(r) \/ ReadData(r) \/ ReadMeta(r) \/ CheckDst(r)
             \/ RemoveMeta(r) \/ RemoveParent(r)
      PROVE  Quiet
  BY <1>8 DEF MakeParent, MakeMetaDir, OpenMeta, WriteMeta, IsFile, ReadData, ReadMeta,
              CheckDst, RemoveMeta, RemoveParent, Fail, fs
<1>9. ASSUME NEW r \in Requests,
             \/ MakeBucket(r) \/ MakeMetaRoot(r) \/ WriteInfo(r) \/ Scan(r)
             \/ NoticeEntry(r) \/ RemoveBucketDir(r) \/ Sweep(r) \/ RemoveOrphan(r)
      PROVE  Quiet
  BY <1>9 DEF MakeBucket, MakeMetaRoot, WriteInfo, Scan, NoticeEntry, RemoveBucketDir,
              Sweep, RemoveOrphan, Fail, fs
<1>10. ASSUME NEW r \in Requests, RemoveEntry(r) PROVE Quiet
  <2> DEFINE b == req[r].bucket
  <2>1. /\ b \in Buckets /\ events' = events /\ dirty' = dirty
        /\ \A k \in Keys : data[<<b, k>>] = ABSENT
    BY <1>10, Named DEF RemoveEntry, DropPCs, InProgress
  <2>2. PICK e \in Within(b) : data' = data \/ (e[3] \in Keys /\ e[2] = "data")
    BY <1>10 DEF RemoveEntry
  <2> QED BY <2>1, <2>2, WithinBucket
<1> QED BY <1>3, <1>4, <1>5, <1>6, <1>7, <1>8, <1>9, <1>10 DEF Next, Step

(* The event of a writer tells what the writer left behind, and the event  *)
(* of a bucket request is about no object.                                 *)
LEMMA AnnouncesItsObject ==
  ASSUME IInv, NEW r \in Requests, Emit(r), NEW o \in Objects,
         <<Event(req[r]).bucket, Event(req[r]).key>> = o
  PROVE  /\ req[r].kind \in Writers /\ o = Obj(req[r])
         /\ (Event(req[r]).kind = "put") <=> (data[o] # ABSENT)
<1>1. pc[r] = "emit" /\ req[r].kind \in EmitKinds /\ WellFormed(req[r])
  BY DEF Emit, IInv, TypeInv, Program, InFlight
<1>2. o = Obj(req[r]) /\ req[r].key # NONE
  BY NoneIsNothing DEF Event, Obj, Objects
<1>3. req[r].kind \in Writers
  BY <1>1, <1>2 DEF WellFormed, EmitKinds, BucketKinds, Writers
<1> QED BY <1>1, <1>2, <1>3 DEF IInv, InProgress, Event, Writers

LEMMA EventsStep ==
  ASSUME IInv, Careful, EventsMatchState, [Next]_vars
  PROVE  EventsMatchState'
<1>1. CASE /\ events' = events /\ dirty \subseteq dirty'
           /\ \A o \in Objects \ dirty : data'[o] = data[o]
  BY <1>1 DEF EventsMatchState
<1>2. ASSUME NEW r \in Requests, Emit(r) PROVE EventsMatchState'
  <2> DEFINE n == Len(events)
  <2>1. /\ events \in Seq(Events) /\ n \in Nat
        /\ events' = Append(events, Event(req[r])) /\ data' = data
        /\ dirty' = IF req[r].kind \in Writers THEN dirty \ {Obj(req[r])} ELSE dirty
    BY <1>2 DEF Emit, fs, IInv, TypeInv, TypeOK
  <2>2. /\ Len(events') = n + 1 /\ events'[n + 1] = Event(req[r])
        /\ \A i \in 1..n : events'[i] = events[i]
    BY <2>1
  <2> SUFFICES ASSUME NEW o \in Objects \ dirty'
      PROVE  LET about == {i \in 1..Len(events') : <<events'[i].bucket, events'[i].key>> = o}
             IN about = {} \/ \E i \in about : /\ \A j \in about : j <= i
                                               /\ (events'[i].kind = "put") <=> (data[o] # ABSENT)
    BY <2>1 DEF EventsMatchState
  <2> DEFINE about == {i \in 1..n : <<events[i].bucket, events[i].key>> = o}
             after == {i \in 1..(n + 1) : <<events'[i].bucket, events'[i].key>> = o}
             Last(S, s) == \E i \in S : /\ \A j \in S : j <= i
                                        /\ (s[i].kind = "put") <=> (data[o] # ABSENT)
  <2>3. CASE <<Event(req[r]).bucket, Event(req[r]).key>> = o
    <3>1. (Event(req[r]).kind = "put") <=> (data[o] # ABSENT)
      BY <1>2, <2>3, AnnouncesItsObject
    <3>2. n + 1 \in after /\ \A j \in after : j <= n + 1
      BY <2>1, <2>2, <2>3
    <3>3. (events'[n + 1].kind = "put") <=> (data[o] # ABSENT)
      BY <2>2, <3>1
    <3>4. Last(after, events')
      BY <3>2, <3>3
    <3> QED BY <2>2, <3>4
  <2>4. CASE <<Event(req[r]).bucket, Event(req[r]).key>> # o
    <3>1. o \notin dirty
      BY <2>1, <2>4 DEF Event, Obj
    <3>2. about = {} \/ Last(about, events)
      BY <3>1 DEF EventsMatchState
    <3>3. after = about
      BY <2>1, <2>2, <2>4
    <3>4. about = {} \/ Last(about, events')
      BY <2>2, <3>2
    <3> QED BY <2>2, <3>3, <3>4
  <2> QED BY <2>3, <2>4
<1> QED BY <1>1, <1>2, QuietStep

(* Under the same conditions the last event that upstream sync receives of *)
(* an object with no unanswered writer tells whether the object is there   *)
(* (storage/mod.rs, emit_sync at the end of every writer), whatever        *)
(* crashes, disconnects and write errors came in between.                  *)
THEOREM EventsCorrect ==
  ASSUME Careful
  PROVE  Spec => []EventsMatchState
<1>1. Init => EventsMatchState
  <2>1. Init => events = <<>>
    BY Zenon DEF Init
  <2>2. events = <<>> => EventsMatchState
    BY DEF EventsMatchState
  <2> QED BY <2>1, <2>2
<1>2. IInv /\ EventsMatchState /\ [Next]_vars => (IInv /\ EventsMatchState)'
  BY SettledStep, EventsStep
<1> QED BY <1>1, <1>2, SettledInit, PTL DEF Spec

-----------------------------------------------------------------------------
(* The store is atomic for clients that overlap nothing on one object or   *)
(* bucket: every step is a step of AtomicStore, or none.                   *)

Alone ==
  /\ Careful /\ Kinds \ {"cleanup"} \subseteq Serialised
  /\ Faults = {} /\ Keys # {}

(* An object whose two files do not agree has a writer between them.       *)
Complete == \A o \in Objects : Consistent(o) \/ Half(o)

(* What a request has found or done, and what no other undoes: in its      *)
(* buckets, in the files of its objects, and in its memory.                *)
Houses(r) ==
  LET b == req[r].bucket IN
  /\ pc[r] \in GetPCs => Exists(Source(req[r])[1])
  /\ pc[r] \in PutPCs \cup DeletePCs \cup DropPCs \cup {"make_meta_root", "write_info"}
       => Exists(b)
  /\ pc[r] = "make_bucket" => ~Exists(b)
  /\ pc[r] = "write_info" => <<b, "meta", ROOT>> \in dirs
  /\ pc[r] = "open_meta" => <<b, "meta", Parent[req[r].key]>> \in dirs
  /\ pc[r] = "rm_bucket" => Within(b) \subseteq todo[r] /\ \A e \in todo[r] : e[1] = b

Carries(r) ==
  LET src == Source(req[r]) IN
  /\ pc[r] \in HalfPCs \ {"write_meta"} => meta[Obj(req[r])] \in Documents \cup {ABSENT}
  /\ pc[r] \in {"read_data", "read_meta"} => data[src] # ABSENT
  /\ pc[r] = "read_data" => req[r].kind # "head"
  /\ pc[r] = "read_meta" /\ req[r].kind # "head" => buf[r] = data[src]
  /\ req[r].kind = "head" /\ InFlight(r) => buf[r] = NONE
  /\ req[r].kind = "put" /\ pc[r] \in PutPCs => buf[r] = req[r].body
  /\ req[r].kind = "copy" /\ pc[r] \in (PutPCs \ {"write_meta"}) \cup {"check_dst"}
       => buf[r] = Visible(src) /\ Visible(src) # ABSENT

Course(r) == pc[r] # "lost" /\ Houses(r) /\ Carries(r)

AInv == IInv /\ Opened /\ Used /\ Complete /\ \A r \in Requests : Course(r)

(* What a request in flight names.                                         *)
LEMMA Names4 ==
  ASSUME TypeInv, Alone, NEW r \in Requests, InFlight(r)
  PROVE  /\ req[r].bucket \in Buckets /\ Source(req[r])[1] \in Buckets
         /\ req[r].kind \in Kinds \ {"cleanup"}
         /\ req[r].kind \notin BucketKinds =>
              /\ Obj(req[r]) \in Touches(req[r]) \cap Objects
              /\ Source(req[r]) \in Touches(req[r]) \cap Objects
              /\ req[r].key \in Keys
         /\ req[r].kind \in BucketKinds =>
              /\ Touches(req[r]) = {req[r].bucket} \X Keys
              /\ Source(req[r])[1] = req[r].bucket /\ Obj(req[r]) \notin Objects
<1>1. req[r] \in Request /\ WellFormed(req[r]) /\ req[r].kind # "cleanup"
  BY DEF TypeInv, TypeOK, Program, Alone, Careful, WellFormed
<1>2. req[r].bucket \in Buckets /\ req[r].kind \in Kinds
  BY <1>1 DEF WellFormed, Request
<1>3. CASE req[r].kind = "copy"
  BY <1>1, <1>2, <1>3 DEF WellFormed, Request, Obj, Source, Objects, Touches, BucketKinds
<1>4. CASE req[r].kind \in BucketKinds
  <2>1. req[r].key = NONE
    BY <1>1, <1>4 DEF WellFormed
  <2> QED BY <1>1, <1>2, <1>4, <2>1, NoneIsNothing DEF Obj, Source, Touches, BucketKinds, Objects
<1>5. CASE req[r].kind \notin BucketKinds \cup {"copy"}
  BY <1>1, <1>2, <1>5 DEF WellFormed, Request, Obj, Source, Objects, Touches, BucketKinds
<1> QED BY <1>1, <1>2, <1>3, <1>4, <1>5

(* Two requests in flight touch different objects, and a bucket request has*)
(* its bucket to itself.                                                   *)
LEMMA Sole ==
  ASSUME AInv, Alone, NEW r \in Requests, NEW x \in Requests \ {r}, InFlight(r), InFlight(x)
  PROVE  /\ Touches(req[r]) \cap Touches(req[x]) = {}
         /\ req[r].kind \in BucketKinds \/ req[x].kind \in BucketKinds =>
              /\ req[x].bucket # req[r].bucket /\ Source(req[x])[1] # req[r].bucket
              /\ Source(req[r])[1] # req[x].bucket
<1>1. TypeInv /\ Apart
  BY DEF AInv, IInv
<1>2. Touches(req[r]) \cap Touches(req[x]) = {}
  <2>1. ~Conflict(req[r], req[x])
    BY <1>1 DEF Apart
  <2>2. req[r].kind \in Kinds \ {"cleanup"} /\ req[x].kind \in Kinds \ {"cleanup"}
    BY <1>1, Names4
  <2>3. req[r].kind \in Serialised /\ req[x].kind \in Serialised
    BY <2>2 DEF Alone
  <2> QED BY <2>1, <2>3 DEF Conflict
<1>3. ASSUME NEW s \in Requests, NEW y \in Requests, InFlight(s), InFlight(y),
             Touches(req[s]) \cap Touches(req[y]) = {}, req[s].kind \in BucketKinds
      PROVE  req[y].bucket # req[s].bucket /\ Source(req[y])[1] # req[s].bucket
  <2>1. Touches(req[s]) = {req[s].bucket} \X Keys /\ Keys # {}
    BY <1>1, <1>3, Names4 DEF Alone
  <2>2. CASE req[y].kind \in BucketKinds
    <3>1. Touches(req[y]) = {req[y].bucket} \X Keys /\ Source(req[y])[1] = req[y].bucket
      BY <1>1, <1>3, <2>2, Names4
    <3>2. PICK k \in Keys : TRUE
      BY <2>1
    <3>3. <<req[s].bucket, k>> \in Touches(req[s])
      BY <2>1
    <3>4. <<req[s].bucket, k>> \notin Touches(req[y])
      BY <1>3, <3>3
    <3>5. req[y].bucket # req[s].bucket
      BY <3>1, <3>4
    <3> QED BY <3>1, <3>5
  <2>3. CASE req[y].kind \notin BucketKinds
    <3>1. Obj(req[y]) \in Touches(req[y]) \cap Objects /\ Source(req[y]) \in Touches(req[y]) \cap Objects
      BY <1>1, <1>3, <2>3, Names4
    <3>2. Obj(req[y]) \notin {req[s].bucket} \X Keys /\ Source(req[y]) \notin {req[s].bucket} \X Keys
      BY <1>3, <2>1, <3>1
    <3> QED BY <3>1, <3>2 DEF Obj, Objects
  <2> QED BY <2>2, <2>3
<1>4. ASSUME NEW s \in Requests, InFlight(s), req[s].kind \in BucketKinds
      PROVE  Source(req[s])[1] = req[s].bucket
  BY <1>1, <1>4, Names4
<1>5. CASE req[r].kind \in BucketKinds
  BY <1>2, <1>3, <1>4, <1>5
<1>6. CASE req[x].kind \in BucketKinds
  <2>1. Touches(req[x]) \cap Touches(req[r]) = {}
    BY <1>2
  <2>2. req[r].bucket # req[x].bucket /\ Source(req[r])[1] # req[x].bucket
    BY <1>3, <1>6, <2>1
  <2> QED BY <1>2, <1>4, <1>6, <2>2
<1> QED BY <1>2, <1>5, <1>6

LEMMA HalfWriter ==
  ASSUME TypeInv, NEW r \in Requests, pc[r] \in HalfPCs
  PROVE  InFlight(r) /\ req[r].kind \in Writers /\ req[r].kind \notin BucketKinds
BY DEF TypeInv, Program, HalfPCs, PutPCs, DeletePCs, InFlight, Writers, BucketKinds

(* No other request is between the two files of an object a request        *)
(* touches, so that they agree unless it is there itself.                  *)
LEMMA Clean ==
  ASSUME AInv, Alone, NEW r \in Requests, InFlight(r), NEW o \in Touches(req[r]) \cap Objects
  PROVE  /\ \A x \in Requests \ {r} : pc[x] \in HalfPCs => Obj(req[x]) # o
         /\ pc[r] \notin HalfPCs \/ Obj(req[r]) # o => Consistent(o)
<1>1. ASSUME NEW x \in Requests \ {r}, pc[x] \in HalfPCs, Obj(req[x]) = o PROVE FALSE
  <2>1. InFlight(x) /\ o \in Touches(req[x])
    BY <1>1, HalfWriter, Names4 DEF AInv, IInv
  <2> QED BY <2>1, Sole
<1>2. pc[r] \notin HalfPCs \/ Obj(req[r]) # o => ~Half(o)
  BY <1>1 DEF Half
<1> QED BY <1>1, <1>2 DEF AInv, Complete

(* A bucket that is being removed holds nothing, nor any directory.        *)
LEMMA Bare ==
  ASSUME AInv, Alone, NEW r \in Requests, pc[r] = "rm_bucket"
  PROVE  /\ InFlight(r) /\ req[r].kind = "delete_bucket" /\ req[r].bucket \in Buckets
         /\ \A k \in Keys : data[<<req[r].bucket, k>>] = ABSENT /\ meta[<<req[r].bucket, k>>] = ABSENT
         /\ \A d \in Dirs : <<req[r].bucket, "data", d>> \notin dirs
<1> DEFINE b == req[r].bucket
<1>1. InFlight(r) /\ req[r].kind = "delete_bucket" /\ b \in Buckets
  BY Named DEF AInv, IInv, TypeInv, Program, DropPCs, InFlight
<1>2. ASSUME NEW k \in Keys PROVE data[<<b, k>>] = ABSENT /\ meta[<<b, k>>] = ABSENT
  <2>1. data[<<b, k>>] = ABSENT
    BY DEF AInv, IInv, InProgress
  <2>2. <<b, k>> \in Touches(req[r]) \cap Objects
    BY <1>1, Touching DEF AInv, IInv
  <2>3. Consistent(<<b, k>>)
    BY <1>1, <2>2, Clean DEF HalfPCs
  <2> QED BY <2>1, <2>3 DEF Consistent
<1>3. ASSUME NEW d \in Dirs, <<b, "data", d>> \in dirs PROVE FALSE
  <2>1. ~Holding(b, d)
    BY <1>2 DEF Holding
  <2>2. PICK x \in Requests : Covers(x, b, d)
    BY <1>1, <1>3, <2>1 DEF AInv, Used
  <2>3. x # r /\ InFlight(x) /\ req[x].bucket = b
    BY <2>2 DEF Covers, InFlight
  <2> QED BY <1>1, <2>3, Sole DEF BucketKinds
<1> QED BY <1>1, <1>2, <1>3

(* A step of r stays with its object, or in its bucket.                    *)
Local(r) ==
  /\ req' = req
  /\ \A x \in Requests \ {r} : pc'[x] = pc[x] /\ buf'[x] = buf[x] /\ todo'[x] = todo[x]
  /\ \A o \in Objects \ {Obj(req[r])} : data'[o] = data[o] /\ meta'[o] = meta[o]
  /\ \A e \in dirs \cup dirs' : e[1] # req[r].bucket => e \in dirs \cap dirs'
  /\ info' \ {req[r].bucket} = info \ {req[r].bucket}
  /\ req[r].kind \notin BucketKinds =>
       \A e \in dirs : e[2] = "meta" \/ e[3] = ROOT => e \in dirs'

LEMMA LocalRemoveEntry ==
  ASSUME AInv, Alone, NEW r \in Requests, RemoveEntry(r)
  PROVE  /\ Local(r) /\ data' = data /\ meta' = meta /\ pc' = pc
         /\ \E e \in Within(req[r].bucket) :
              /\ e # <<req[r].bucket, "data", ROOT>> /\ e[1] = req[r].bucket
              /\ todo' = [todo EXCEPT ![r] = @ \ {e}]
              /\ \/ IsDir(e) /\ dirs' = dirs \ {e} /\ info' = info
                 \/ e[3] = NONE /\ dirs' = dirs /\ info' = info \ {req[r].bucket}
<1> DEFINE b == req[r].bucket
<1>1. PICK e \in Within(b) \cap todo[r] :
        LET o == <<e[1], e[3]>> IN
        /\ e # <<e[1], "data", ROOT>>
        /\ \/ /\ IsDir(e)
              /\ dirs' = dirs \ {e}
              /\ UNCHANGED <<data, meta, info, unlinked>>
           \/ /\ e[3] = NONE
              /\ info' = info \ {e[1]}
              /\ UNCHANGED <<dirs, data, meta, unlinked>>
           \/ e[3] \in Keys /\ e[2] = "data"
           \/ e[3] \in Keys /\ e[2] = "meta"
        /\ todo' = [todo EXCEPT ![r] = @ \ {e}]
  BY DEF RemoveEntry
<1>2. pc[r] = "rm_bucket" /\ UNCHANGED <<pc, req, buf>>
  BY DEF RemoveEntry
<1>3. e[1] = b /\ e[3] \notin Keys
  <2>1. Files(b, "data") = {} /\ Files(b, "meta") = {}
    BY <1>2, Bare DEF Files
  <2>2. \/ e \in dirs /\ e[1] = b
        \/ e = <<b, "meta", NONE>>
    BY <2>1 DEF Within
  <2>3. e \in dirs => e[3] \in Dirs \cup {ROOT}
    BY DEF AInv, IInv, TypeInv, TypeOK
  <2> QED BY <2>2, <2>3, Paths DEF PathAssumption
<1>4. /\ UNCHANGED <<data, meta>>
      /\ \/ IsDir(e) /\ dirs' = dirs \ {e} /\ info' = info
         \/ e[3] = NONE /\ dirs' = dirs /\ info' = info \ {b}
  BY <1>1, <1>3
<1>5. \A x \in Requests \ {r} : todo'[x] = todo[x]
  BY <1>1 DEF AInv, IInv, TypeInv, TypeOK
<1>6. req[r].kind \in BucketKinds
  BY <1>2, Bare DEF BucketKinds
<1>7. Local(r)
  BY <1>2, <1>3, <1>4, <1>5, <1>6 DEF Local
<1> QED BY <1>1, <1>2, <1>3, <1>4, <1>7

(* Nothing fails and no sweep runs.                                        *)
LEMMA NoFaults ==
  ASSUME TypeInv, Alone, Next
  PROVE  \E r \in Requests : Start(r) \/ (Step(r) /\ ~Sweep(r) /\ ~RemoveOrphan(r))
<1>1. ~Crash /\ \A r \in Requests : ~WriteError(r) /\ ~Abandon(r)
  BY DEF Alone, Crash, WriteError, Abandon
<1>2. ASSUME NEW r \in Requests PROVE pc[r] \notin SweepPCs
  BY DEF TypeInv, Program, Alone, Careful, WellFormed, SweepPCs, InFlight
<1>3. \A r \in Requests : ~Sweep(r) /\ ~RemoveOrphan(r)
  BY <1>2 DEF Sweep, RemoveOrphan, SweepPCs
<1> QED BY <1>1, <1>3 DEF Next

LEMMA LocalStep ==
  ASSUME AInv, Alone, NEW r \in Requests, Step(r), ~Sweep(r), ~RemoveOrphan(r)
  PROVE  Local(r)
<1> USE DEF Local
<1>0. TypeInv /\ Program(r)
  BY DEF AInv, IInv, TypeInv
<1>1. req' = req /\ \A x \in Requests \ {r} : pc'[x] = pc[x]
  BY <1>0, OthersOpen DEF Step, MakeParent, OpenData, WriteData, MakeMetaDir, OpenMeta,
     WriteMeta, Emit, IsFile, ReadData, ReadMeta, CheckDst, RemoveData, RemoveMeta,
     RemoveParent, MakeBucket, MakeMetaRoot, WriteInfo, Scan, NoticeEntry, RemoveEntry,
     RemoveBucketDir, AInv
<1>2. \A x \in Requests \ {r} : buf'[x] = buf[x] /\ todo'[x] = todo[x]
  BY <1>0 DEF Step, MakeParent, OpenData, WriteData, MakeMetaDir, OpenMeta,
     WriteMeta, Emit, IsFile, ReadData, ReadMeta, CheckDst, RemoveData, RemoveMeta,
     RemoveParent, MakeBucket, MakeMetaRoot, WriteInfo, Scan, NoticeEntry, RemoveEntry,
     RemoveBucketDir, TypeInv, TypeOK
<1>3. CASE OpenData(r) \/ WriteData(r) \/ RemoveData(r)
  BY <1>0, <1>1, <1>2, <1>3 DEF OpenData, WriteData, RemoveData, TypeInv, TypeOK
<1>4. CASE OpenMeta(r) \/ WriteMeta(r) \/ RemoveMeta(r)
  BY <1>0, <1>1, <1>2, <1>4 DEF OpenMeta, WriteMeta, RemoveMeta, Unname, TypeInv, TypeOK
<1>5. CASE Emit(r) \/ IsFile(r) \/ ReadData(r) \/ ReadMeta(r) \/ CheckDst(r) \/ Scan(r) \/ NoticeEntry(r)
  BY <1>1, <1>2, <1>5 DEF Emit, IsFile, ReadData, ReadMeta, CheckDst, Scan, NoticeEntry, fs
<1>6. CASE MakeParent(r) \/ MakeMetaDir(r)
  BY <1>1, <1>2, <1>6 DEF MakeParent, MakeMetaDir, DataPath, MetaPath
<1>7. CASE RemoveParent(r)
  BY <1>1, <1>2, <1>7 DEF RemoveParent
<1>8. CASE MakeBucket(r) \/ MakeMetaRoot(r)
  BY <1>1, <1>2, <1>8 DEF MakeBucket, MakeMetaRoot
<1>9. CASE WriteInfo(r)
  BY <1>1, <1>2, <1>9 DEF WriteInfo
<1>10. CASE RemoveBucketDir(r)
  <2>1. req[r].kind \in BucketKinds
    BY <1>0, <1>10 DEF RemoveBucketDir, Program, DropPCs, BucketKinds
  <2> QED BY <1>1, <1>2, <1>10, <2>1 DEF RemoveBucketDir
<1> QED BY <1>3, <1>4, <1>5, <1>6, <1>7, <1>8, <1>9, <1>10, LocalRemoveEntry DEF Step

LEMMA StepFlies ==
  ASSUME NEW r \in Requests, Step(r)
  PROVE  InFlight(r)
BY DEF Step, MakeParent, OpenData, WriteData, MakeMetaDir, OpenMeta, WriteMeta, Emit, IsFile,
       ReadData, ReadMeta, CheckDst, RemoveData, RemoveMeta, RemoveParent, MakeBucket,
       MakeMetaRoot, WriteInfo, Scan, NoticeEntry, RemoveEntry, RemoveBucketDir, Sweep,
       RemoveOrphan, InFlight

(* It leaves what others have found and done as it is.                     *)
LEMMA OthersCourse ==
  ASSUME AInv, Alone, NEW r \in Requests, InFlight(r), Local(r), NEW x \in Requests \ {r}
  PROVE  Course(x)'
<1>0. TypeInv /\ Course(x)
  BY DEF AInv, IInv
<1>1. pc'[x] = pc[x] /\ req'[x] = req[x] /\ buf'[x] = buf[x] /\ todo'[x] = todo[x]
  BY DEF Local
<1>2. CASE ~InFlight(x)
  <2>1. pc[x] \in {"idle", "done"}
    BY <1>0, <1>2 DEF Course, InFlight
  <2> QED BY <1>1, <2>1 DEF Course, Houses, Carries, GetPCs, PutPCs, DeletePCs, DropPCs,
             HalfPCs, InFlight
<1>3. CASE InFlight(x)
  <2> DEFINE b == req[x].bucket
             c == req[r].bucket
             src == Source(req[x])
             o == Obj(req[x])
  <2>1. /\ Exists(src[1]) => Exists(src[1])'
        /\ Exists(b) => Exists(b)'
        /\ \A d : <<b, "meta", d>> \in dirs => <<b, "meta", d>> \in dirs'
    <3>1. CASE req[r].kind \in BucketKinds
      <4>1. b # c /\ src[1] # c
        BY <1>3, <3>1, Sole
      <4> QED BY <4>1 DEF Local, Exists
    <3>2. CASE req[r].kind \notin BucketKinds
      BY <3>2 DEF Local, Exists
    <3> QED BY <3>1, <3>2
  <2>2. ASSUME req[x].kind \in BucketKinds
        PROVE  (Exists(b)' <=> Exists(b)) /\ Within(b)' = Within(b)
    <3>1. b # c /\ b \in Buckets
      BY <1>0, <1>3, <2>2, Sole, Names4
    <3>2. \A e : e[1] = b => (e \in dirs' <=> e \in dirs)
      BY <3>1 DEF Local
    <3>3. \A k \in Keys : data'[<<b, k>>] = data[<<b, k>>] /\ meta'[<<b, k>>] = meta[<<b, k>>]
      <4>1. \A k \in Keys : <<b, k>> \in Objects \ {Obj(req[r])}
        BY <3>1 DEF Objects, Obj
      <4> QED BY <4>1 DEF Local
    <3>4. info' \cap {b} = info \cap {b}
      BY <3>1 DEF Local
    <3>5. Files(b, "data")' = Files(b, "data") /\ Files(b, "meta")' = Files(b, "meta")
      BY <1>1, <3>3 DEF Files
    <3>6. {e \in dirs' : e[1] = b} = {e \in dirs : e[1] = b}
      BY <3>2
    <3>7. Exists(b)' <=> Exists(b)
      BY <1>1, <3>2 DEF Exists
    <3> QED BY <1>1, <3>4, <3>5, <3>6, <3>7 DEF Within
  <2>3. ASSUME req[x].kind \notin BucketKinds
        PROVE  /\ data'[src] = data[src] /\ meta'[src] = meta[src] /\ meta'[o] = meta[o]
               /\ Visible(src)' = Visible(src)
    <3>1. o \in Touches(req[x]) \cap Objects /\ src \in Touches(req[x]) \cap Objects
      BY <1>0, <1>3, <2>3, Names4
    <3>2. Obj(req[r]) \notin {o, src}
      <4>1. CASE req[r].kind \in BucketKinds
        BY <1>0, <3>1, <4>1, Names4
      <4>2. CASE req[r].kind \notin BucketKinds
        BY <1>0, <1>3, <3>1, <4>2, Names4, Sole
      <4> QED BY <4>1, <4>2
    <3>3. data'[src] = data[src] /\ meta'[src] = meta[src] /\ meta'[o] = meta[o]
      BY <3>1, <3>2 DEF Local
    <3> QED BY <1>1, <3>3 DEF Visible, Source, Obj
  <2>4. Program(x)
    BY <1>0 DEF TypeInv
  <2>5. Houses(x)'
    <3>1. pc[x] \in {"make_bucket", "rm_bucket"} => req[x].kind \in BucketKinds
      BY <2>4 DEF Program, CreatePCs, DropPCs, BucketKinds
    <3> QED BY <1>0, <1>1, <2>1, <2>2, <3>1 DEF Course, Houses
  <2>6. Carries(x)'
    <3>1. pc[x] \in PutPCs \cup HalfPCs \cup GetPCs \cup {"check_dst"} => req[x].kind \notin BucketKinds
      BY <2>4 DEF Program, PutPCs, HalfPCs, DeletePCs, GetPCs, BucketKinds
    <3> QED BY <1>0, <1>1, <2>3, <3>1 DEF Course, Carries, PutPCs, HalfPCs, GetPCs, InFlight
  <2> QED BY <1>0, <1>1, <2>5, <2>6 DEF Course
<1> QED BY <1>2, <1>3

-----------------------------------------------------------------------------
(* What a request itself does.                                             *)

(* The document of an object whose two files agree.                        *)
LEMMA Documented ==
  ASSUME TypeInv, NEW o \in Objects, Consistent(o)
  PROVE  /\ meta[o] \in Documents \cup {ABSENT} /\ meta[o] # EMPTY /\ meta[o] # MANGLED
         /\ Visible(o) = data[o] /\ data[o] \in Contents \cup {ABSENT}
         /\ data[o] # ABSENT => meta[o] \in Documents /\ meta[o].of = data[o]
         /\ meta[o] # ABSENT => data[o] # ABSENT
<1>1. data[o] \in Contents \cup {ABSENT}
  BY DEF TypeInv, TypeOK
<1>2. CASE data[o] = ABSENT /\ meta[o] = ABSENT
  <2>1. ABSENT \notin Documents /\ ABSENT # EMPTY /\ ABSENT # MANGLED
    BY NotADocument, Distinct DEF ValueAssumption
  <2> QED BY <1>1, <1>2, <2>1 DEF Visible
<1>3. CASE data[o] # ABSENT /\ meta[o] = Describes(data[o])
  <2>1. meta[o] \in Documents /\ meta[o].of = data[o]
    BY <1>1, <1>3 DEF Documents, Describes
  <2>2. meta[o] \notin {ABSENT, EMPTY, MANGLED}
    BY <2>1, NotADocument
  <2> QED BY <1>1, <1>3, <2>1, <2>2 DEF Visible
<1> QED BY <1>2, <1>3 DEF Consistent

LEMMA CoursePut ==
  ASSUME AInv, Alone, NEW r \in Requests,
         \/ MakeParent(r) \/ OpenData(r) \/ WriteData(r) \/ MakeMetaDir(r) \/ OpenMeta(r)
         \/ WriteMeta(r) \/ Emit(r)
  PROVE  Course(r)'
<1> DEFINE o == Obj(req[r])
           src == Source(req[r])
           b == req[r].bucket
<1>0. TypeInv /\ Program(r) /\ Course(r)
  BY DEF AInv, IInv, TypeInv
<1> USE DEF Course, Houses, Carries, PutPCs, HalfPCs, GetPCs, DeletePCs, DropPCs
<1>1. CASE Emit(r)
  <2>1. pc'[r] = "done"
    BY <1>0, <1>1, FinishCounters DEF Emit
  <2> QED BY <2>1 DEF InFlight
<1>2. CASE pc[r] \in PutPCs
  <2>1. /\ InFlight(r) /\ b \in Buckets /\ req[r].key \in Keys /\ o \in Objects /\ src \in Objects
        /\ req[r].kind \in {"put", "copy"} /\ o \in Touches(req[r]) /\ src \in Touches(req[r])
    <3>1. /\ b \in Buckets /\ req[r].key \in Keys /\ o \in Objects /\ src \in Objects
      BY <1>0, <1>2, Named
    <3>2. InFlight(r) /\ req[r].kind \in {"put", "copy"}
      BY <1>0, <1>2 DEF Program, InFlight
    <3> QED BY <1>0, <3>1, <3>2, Names4 DEF BucketKinds
  <2>2. Exists(b)
    BY <1>0, <1>2
  <2>3. CASE MakeParent(r)
    <3>1. pc'[r] = "open_data" /\ UNCHANGED <<data, meta, req, buf>>
      BY <1>0, <2>3, GoCounters DEF MakeParent
    <3>2. pc[r] = "make_parent" /\ Exists(b)'
      BY <2>2, <2>3 DEF MakeParent, Exists
    <3> QED BY <1>0, <2>1, <3>1, <3>2 DEF Visible
  <2>4. CASE OpenData(r)
    <3>1. pc[r] = "open_data" /\ UNCHANGED <<dirs, meta, req, buf>>
      BY <2>4 DEF OpenData
    <3>2. pc'[r] \in {"write_data", "done"}
      BY <1>0, <2>4, GoCounters, FinishCounters DEF OpenData, Fail
    <3>3. Consistent(o) /\ Consistent(src)
      BY <2>1, <3>1, Clean
    <3>4. meta[o] \in Documents \cup {ABSENT} /\ meta[src] \in Documents \cup {ABSENT} /\ meta[src] # EMPTY
      BY <1>0, <2>1, <3>3, Documented
    <3>5. Visible(src)' = Visible(src)
      BY <3>1, <3>4 DEF Visible, Source, Obj
    <3>6. Exists(b)'
      BY <2>2, <3>1 DEF Exists
    <3> QED BY <1>0, <2>1, <3>1, <3>2, <3>4, <3>5, <3>6
  <2>5. CASE WriteData(r)
    <3>1. pc[r] = "write_data" /\ UNCHANGED <<dirs, meta, req, buf>> /\ pc'[r] = "make_meta_dir"
      BY <1>0, <2>5, GoCounters DEF WriteData
    <3>2. \A p \in Objects \ {o} : data'[p] = data[p]
      BY <1>0, <2>5 DEF WriteData, TypeInv, TypeOK
    <3>3. meta[o] \in Documents \cup {ABSENT} /\ meta[o] # EMPTY
      <4>1. meta[o] \in Documents \cup {ABSENT}
        BY <1>0, <3>1
      <4> QED BY <4>1, NotADocument, Distinct DEF ValueAssumption
    <3>4. Visible(src)' = Visible(src)
      BY <2>1, <3>1, <3>2, <3>3 DEF Visible, Source, Obj
    <3>5. Exists(b)'
      BY <2>2, <3>1 DEF Exists
    <3> QED BY <1>0, <2>1, <3>1, <3>3, <3>4, <3>5
  <2>6. CASE MakeMetaDir(r)
    <3>1. pc[r] = "make_meta_dir" /\ UNCHANGED <<data, meta, req, buf>> /\ pc'[r] = "open_meta"
      BY <1>0, <2>6, GoCounters DEF MakeMetaDir
    <3>2. Exists(b)'
      BY <2>2, <2>6 DEF MakeMetaDir, Exists
    <3>3. <<b, "meta", Parent[req[r].key]>> \in dirs'
      <4>1. Parent[req[r].key] \in Above[req[r].key] \cup {ROOT}
        BY <2>1, Paths DEF PathAssumption
      <4> QED BY <2>6, <4>1 DEF MakeMetaDir, MetaPath
    <3>4. Visible(src)' = Visible(src)
      BY <3>1 DEF Visible, Source, Obj
    <3> QED BY <1>0, <2>1, <3>1, <3>2, <3>3, <3>4
  <2>7. CASE OpenMeta(r)
    <3>1. pc[r] = "open_meta" /\ UNCHANGED <<dirs, data, req, buf>>
      BY <2>7 DEF OpenMeta
    <3>2. pc'[r] \in {"write_meta", "done"}
      BY <1>0, <2>7, GoCounters, FinishCounters DEF OpenMeta, Fail
    <3>3. Exists(b)'
      BY <2>2, <3>1 DEF Exists
    <3> QED BY <1>0, <2>1, <3>1, <3>2, <3>3 DEF InFlight
  <2>8. CASE WriteMeta(r)
    <3>1. pc'[r] = "emit" /\ req' = req
      BY <1>0, <2>8, GoCounters DEF WriteMeta
    <3> QED BY <2>1, <3>1
  <2> QED BY <1>0, <1>2, <2>3, <2>4, <2>5, <2>6, <2>7, <2>8 DEF Emit
<1> QED BY <1>1, <1>2 DEF MakeParent, OpenData, WriteData, MakeMetaDir, OpenMeta, WriteMeta

(* The data that a request has found belongs to its document.              *)
LEMMA Found ==
  ASSUME AInv, Alone, NEW r \in Requests, pc[r] \in GetPCs
  PROVE  LET src == Source(req[r]) IN
         /\ InFlight(r) /\ src \in Objects /\ Consistent(src)
         /\ pc[r] = "read_data" => Readable(src) = {data[src]}
<1> DEFINE src == Source(req[r])
<1>0. TypeInv /\ Program(r)
  BY DEF AInv, IInv, TypeInv
<1>1. InFlight(r) /\ req[r].kind \notin BucketKinds /\ src \in Objects
  BY <1>0, Named DEF Program, GetPCs, InFlight, BucketKinds
<1>2. src \in Touches(req[r]) \cap Objects
  BY <1>0, <1>1, Names4
<1>3. Consistent(src)
  BY <1>1, <1>2, Clean DEF GetPCs, HalfPCs
<1>4. ASSUME pc[r] = "read_data", NEW x \in Requests, pc[x] = "write_data", Obj(req[x]) = src
      PROVE  FALSE
  BY <1>1, <1>2, <1>4, Clean DEF HalfPCs
<1>5. pc[r] = "read_data" => Readable(src) = {data[src]}
  BY <1>4 DEF Readable
<1> QED BY <1>1, <1>3, <1>5

LEMMA CourseGet ==
  ASSUME AInv, Alone, NEW r \in Requests,
         IsFile(r) \/ ReadData(r) \/ ReadMeta(r) \/ CheckDst(r)
  PROVE  Course(r)'
<1> DEFINE src == Source(req[r])
<1>0. TypeInv /\ Program(r) /\ Course(r)
  BY DEF AInv, IInv, TypeInv
<1> USE DEF Course, Houses, Carries, PutPCs, HalfPCs, GetPCs, DeletePCs, DropPCs
<1>1. CASE pc'[r] = "done"
  BY <1>1 DEF InFlight
<1>2. CASE IsFile(r) /\ pc'[r] # "done"
  <2>1. /\ pc[r] = "is_file" /\ UNCHANGED <<dirs, data, meta, req, buf>> /\ data[src] # ABSENT
        /\ pc'[r] = IF req[r].kind = "head" THEN "read_meta" ELSE "read_data"
    BY <1>0, <1>2, GoCounters, FinishCounters DEF IsFile, fs, Fail
  <2>2. Exists(src[1])' /\ InFlight(r)
    BY <1>0, <2>1 DEF Exists, Source, Obj, InFlight
  <2>3. data'[Source(req'[r])] # ABSENT
    BY <2>1
  <2>4. Source(req'[r]) = src
    BY <2>1
  <2> QED BY <1>0, <2>1, <2>2, <2>3 DEF Program
<1>3. CASE ReadData(r) /\ pc'[r] # "done"
  <2>1. /\ pc[r] = "read_data" /\ UNCHANGED <<dirs, data, meta, req>> /\ pc'[r] = "read_meta"
    BY <1>0, <1>3, GoCounters, FinishCounters DEF ReadData, fs, Fail
  <2>2. buf'[r] = data[src]
    <3>1. Readable(src) = {data[src]}
      BY <2>1, Found
    <3>2. PICK c \in Readable(src) : buf' = [buf EXCEPT ![r] = c]
      BY <1>0, <1>3, FinishCounters DEF ReadData, Fail
    <3> QED BY <1>0, <3>1, <3>2 DEF TypeInv, TypeOK
  <2>3. Exists(src[1])'
    BY <1>0, <2>1 DEF Exists, Source, Obj
  <2> QED BY <1>0, <2>1, <2>2, <2>3 DEF Program
<1>4. CASE ReadMeta(r) /\ pc'[r] # "done"
  <2>1. /\ pc[r] = "read_meta" /\ UNCHANGED <<dirs, data, meta, req, buf>> /\ pc'[r] = "check_dst"
        /\ req[r].kind = "copy"
    BY <1>0, <1>4, GoCounters, FinishCounters DEF ReadMeta, fs, Fail
  <2>2. src \in Objects /\ Consistent(src)
    BY <2>1, Found
  <2>3. Visible(src) = data[src] /\ data[src] # ABSENT /\ buf[r] = data[src]
    BY <1>0, <2>1, <2>2, Documented
  <2>4. Visible(src)' = Visible(src)
    BY <2>1 DEF Visible, Source, Obj
  <2> QED BY <1>0, <2>1, <2>3, <2>4
<1>5. CASE CheckDst(r) /\ pc'[r] # "done"
  <2>1. /\ pc[r] = "check_dst" /\ UNCHANGED <<dirs, data, meta, req, buf>> /\ pc'[r] = "make_parent"
        /\ Exists(req[r].bucket) /\ req[r].kind = "copy"
    BY <1>0, <1>5, GoCounters, FinishCounters DEF CheckDst, fs, Fail, Program
  <2>2. Visible(src)' = Visible(src)
    BY <2>1 DEF Visible, Source, Obj
  <2>3. Exists(req[r].bucket)'
    BY <2>1 DEF Exists
  <2> QED BY <1>0, <2>1, <2>2, <2>3
<1> QED BY <1>1, <1>2, <1>3, <1>4, <1>5

LEMMA CourseDelete ==
  ASSUME AInv, Alone, NEW r \in Requests, RemoveData(r) \/ RemoveMeta(r) \/ RemoveParent(r)
  PROVE  Course(r)'
<1> DEFINE b == req[r].bucket
           o == Obj(req[r])
<1>0. TypeInv /\ Program(r) /\ Course(r) /\ pc[r] \in DeletePCs
  BY DEF AInv, IInv, TypeInv, RemoveData, RemoveMeta, RemoveParent, DeletePCs
<1> USE DEF Course, Houses, Carries, PutPCs, HalfPCs, GetPCs, DeletePCs, DropPCs
<1>1. req[r].kind = "delete" /\ Exists(b) /\ req' = req /\ InFlight(r)
  BY <1>0 DEF Program, RemoveData, RemoveMeta, RemoveParent, InFlight
<1>2. Exists(b)'
  BY <1>1 DEF RemoveData, RemoveMeta, RemoveParent, Exists
<1>3. CASE RemoveData(r)
  <2>1. pc'[r] = "rm_meta" /\ meta' = meta /\ pc[r] = "rm_data"
    BY <1>0, <1>3, GoCounters DEF RemoveData
  <2>2. o \in Touches(req[r]) \cap Objects
    BY <1>0, <1>1, Names4 DEF BucketKinds
  <2>3. meta[o] \in Documents \cup {ABSENT}
    BY <1>0, <1>1, <2>1, <2>2, Clean, Documented
  <2> QED BY <1>1, <1>2, <2>1, <2>3
<1>4. CASE RemoveMeta(r)
  <2>1. pc'[r] = "rm_parent"
    BY <1>0, <1>4, GoCounters DEF RemoveMeta
  <2> QED BY <1>1, <1>2, <2>1
<1>5. CASE RemoveParent(r)
  <2>1. pc'[r] \in {"rm_parent", "emit"}
    BY <1>0, <1>5, GoCounters DEF RemoveParent
  <2> QED BY <1>1, <1>2, <2>1
<1> QED BY <1>3, <1>4, <1>5

LEMMA CourseBucket ==
  ASSUME AInv, Alone, NEW r \in Requests,
         \/ MakeBucket(r) \/ MakeMetaRoot(r) \/ WriteInfo(r)
         \/ Scan(r) \/ NoticeEntry(r) \/ RemoveEntry(r) \/ RemoveBucketDir(r)
  PROVE  Course(r)'
<1> DEFINE b == req[r].bucket
<1>0. TypeInv /\ Program(r) /\ Course(r)
  BY DEF AInv, IInv, TypeInv
<1> USE DEF Course, Houses, Carries, PutPCs, HalfPCs, GetPCs, DeletePCs, DropPCs
<1>1. InFlight(r) /\ req[r].kind \in BucketKinds /\ req' = req
  BY <1>0 DEF Program, MakeBucket, MakeMetaRoot, WriteInfo, Scan, NoticeEntry, RemoveEntry,
     RemoveBucketDir, CreatePCs, InFlight, BucketKinds
<1>2. CASE MakeBucket(r)
  <2>1. pc'[r] = "make_meta_root" /\ Exists(b)'
    BY <1>0, <1>1, <1>2, GoCounters DEF MakeBucket, Exists
  <2> QED BY <1>1, <2>1 DEF BucketKinds
<1>3. CASE MakeMetaRoot(r)
  <2>1. pc'[r] = "write_info" /\ Exists(b)' /\ <<b, "meta", ROOT>> \in dirs'
    BY <1>0, <1>1, <1>3, GoCounters DEF MakeMetaRoot, Exists
  <2> QED BY <1>1, <2>1 DEF BucketKinds
<1>4. CASE WriteInfo(r)
  <2>1. pc'[r] \in {"emit", "done"}
    BY <1>0, <1>4, GoCounters, FinishCounters DEF WriteInfo, Fail
  <2> QED BY <1>1, <2>1 DEF BucketKinds
<1>5. CASE Scan(r)
  <2>1. CASE pc'[r] = "done"
    BY <2>1 DEF InFlight
  <2>2. CASE pc'[r] # "done"
    <3>1. /\ Exists(b) /\ pc'[r] = "rm_bucket" /\ UNCHANGED <<dirs, data, meta, info>>
          /\ todo'[r] = Within(b)
      BY <1>0, <1>5, <2>2, GoCounters, FinishCounters DEF Scan, Fail, fs, TypeInv, TypeOK
    <3>2. Exists(b)' /\ Within(b)' = Within(b) /\ b \in Buckets
      BY <1>0, <1>1, <3>1, Names4 DEF Exists, Within, Files
    <3>3. \A e \in Within(b) : e[1] = b
      BY DEF Within
    <3> QED BY <1>1, <3>1, <3>2, <3>3 DEF BucketKinds
  <2> QED BY <2>1, <2>2
<1>6. CASE NoticeEntry(r)
  <2>1. /\ UNCHANGED <<pc, dirs, data, meta, info>> /\ pc[r] = "rm_bucket"
        /\ \E e \in Within(b) : todo'[r] = todo[r] \cup {e}
    BY <1>0, <1>6 DEF NoticeEntry, fs, TypeInv, TypeOK
  <2>2. Exists(b)' /\ Within(b)' = Within(b)
    BY <1>0, <1>1, <2>1 DEF Exists, Within, Files
  <2>3. \A e \in Within(b) : e[1] = b
    BY DEF Within
  <2> QED BY <1>0, <1>1, <2>1, <2>2, <2>3 DEF BucketKinds
<1>7. CASE RemoveEntry(r)
  <2>1. PICK e \in Within(b) :
          /\ e # <<b, "data", ROOT>> /\ e[1] = b
          /\ todo' = [todo EXCEPT ![r] = @ \ {e}]
          /\ \/ IsDir(e) /\ dirs' = dirs \ {e} /\ info' = info
             \/ e[3] = NONE /\ dirs' = dirs /\ info' = info \ {b}
    BY <1>7, LocalRemoveEntry
  <2>2. data' = data /\ meta' = meta /\ pc' = pc /\ pc[r] = "rm_bucket"
    BY <1>7, LocalRemoveEntry DEF RemoveEntry
  <2>3. Exists(b)'
    BY <1>0, <1>1, <2>1, <2>2 DEF Exists
  <2>4. todo'[r] = todo[r] \ {e} /\ Within(b) \subseteq todo[r]
    BY <1>0, <2>1, <2>2 DEF TypeInv, TypeOK
  <2>5. Within(b)' \subseteq Within(b) \ {e}
    <3>1. Files(b, "data") = {} /\ Files(b, "meta") = {}
      BY <2>2, Bare DEF Files
    <3>2. Files(b, "data")' = {} /\ Files(b, "meta")' = {}
      BY <1>1, <2>2, Bare DEF Files
    <3>3. Within(b) = {f \in dirs : f[1] = b} \cup {<<x, "meta", NONE>> : x \in info \cap {b}}
      BY <3>1 DEF Within
    <3>4. Within(b)' = {f \in dirs' : f[1] = b} \cup {<<x, "meta", NONE>> : x \in info' \cap {b}}
      BY <1>1, <3>2 DEF Within
    <3>5. \A f \in dirs : f[3] # NONE
      BY <1>0, Paths DEF TypeInv, TypeOK, PathAssumption
    <3>6. e[3] # NONE \/ e = <<b, "meta", NONE>>
      BY <3>3, <3>5
    <3>7. CASE IsDir(e) /\ dirs' = dirs \ {e} /\ info' = info
      <4>1. e[3] # NONE
        BY <3>7, Paths DEF IsDir, PathAssumption
      <4> QED BY <3>3, <3>4, <3>7, <4>1
    <3>8. CASE e[3] = NONE /\ dirs' = dirs /\ info' = info \ {b}
      BY <3>3, <3>4, <3>5, <3>8
    <3> QED BY <2>1, <3>7, <3>8
  <2> QED BY <1>0, <1>1, <2>2, <2>3, <2>4, <2>5 DEF BucketKinds
<1>8. CASE RemoveBucketDir(r)
  <2>1. pc'[r] \in {"emit", "done"}
    BY <1>0, <1>8, GoCounters, FinishCounters DEF RemoveBucketDir, Fail
  <2> QED BY <1>1, <2>1 DEF BucketKinds
<1> QED BY <1>2, <1>3, <1>4, <1>5, <1>6, <1>7, <1>8

LEMMA CourseStart ==
  ASSUME AInv, Alone, NEW r \in Requests, Start(r), NEW x \in Requests
  PROVE  Course(x)'
<1>0. TypeInv /\ Course(x) /\ pc[r] = "idle" /\ UNCHANGED <<dirs, data, meta, info>>
  BY DEF AInv, IInv, Start, fs
<1> USE DEF Course, Houses, Carries, PutPCs, HalfPCs, GetPCs, DeletePCs, DropPCs
<1>1. PICK q \in Request :
        /\ WellFormed(q) /\ req' = [req EXCEPT ![r] = q]
        /\ \/ /\ \E code \in {"BucketAlreadyExists", "NoSuchBucket"} : Finish(r, Plain(code))
              /\ UNCHANGED <<buf, todo>>
           \/ /\ q.kind = "cleanup" \/ (q.kind = "create_bucket" <=> ~Exists(Source(q)[1]))
              /\ Go(r, Entry(q.kind))
              /\ buf' = [buf EXCEPT ![r] = q.body]
              /\ todo' = [todo EXCEPT ![r] =
                   IF q.kind = "cleanup" THEN Buckets \X {"meta"} \X (Keys \cup Dirs) ELSE {}]
  BY DEF Start
<1>2. req'[r] = q /\ \A y \in Requests \ {r} : req'[y] = req[y] /\ buf'[y] = buf[y] /\ todo'[y] = todo[y]
  BY <1>0, <1>1 DEF TypeInv, TypeOK
<1>3. CASE x # r
  <2>1. pc'[x] = pc[x]
    BY <1>0, <1>1, <1>3, GoCounters, FinishCounters
  <2>2. req'[x] = req[x] /\ buf'[x] = buf[x] /\ todo'[x] = todo[x]
    BY <1>2, <1>3
  <2>3. /\ Within(req[x].bucket)' = Within(req[x].bucket)
        /\ Exists(req[x].bucket)' <=> Exists(req[x].bucket)
        /\ Exists(Source(req[x])[1])' <=> Exists(Source(req[x])[1])
        /\ Visible(Source(req[x]))' = Visible(Source(req[x]))
    BY <1>0, <2>2, Zenon DEF Exists, Within, Files, Visible, Source, Obj
  <2>4. Houses(x)'
    BY <1>0, <2>1, <2>2, <2>3
  <2>5. Carries(x)'
    BY <1>0, <2>1, <2>2, <2>3 DEF InFlight
  <2> QED BY <1>0, <2>1, <2>4, <2>5
<1>4. CASE x = r /\ pc'[r] = "done"
  BY <1>4 DEF InFlight
<1>5. CASE x = r /\ pc'[r] # "done"
  <2>1. /\ q.kind = "cleanup" \/ (q.kind = "create_bucket" <=> ~Exists(Source(q)[1]))
        /\ pc'[r] = Entry(q.kind) /\ buf'[r] = q.body
    <3>1. ~\E code \in {"BucketAlreadyExists", "NoSuchBucket"} : Finish(r, Plain(code))
      BY <1>0, <1>5, FinishCounters
    <3> QED BY <1>0, <1>1, <3>1, GoCounters DEF TypeInv, TypeOK
  <2>2. q.kind # "cleanup"
    BY <1>1 DEF Alone, Careful, WellFormed
  <2>3. Exists(q.bucket)' <=> Exists(q.bucket)
    BY <1>0 DEF Exists
  <2>4. Exists(Source(q)[1])' <=> Exists(Source(q)[1])
    BY <1>0 DEF Exists
  <2>5. q.kind # "copy" => Source(q)[1] = q.bucket
    BY DEF Source, Obj
  <2>6. q.kind = "put" <=> q.body # NONE
    BY <1>1 DEF WellFormed
  <2>7. CASE q.kind \in {"get", "head", "copy"}
    <3>1. pc'[r] = "is_file"
      BY <2>1, <2>7 DEF Entry
    <3> QED BY <1>2, <1>5, <2>1, <2>2, <2>4, <2>6, <2>7, <3>1 DEF Exists
  <2>8. CASE q.kind = "put"
    <3>1. pc'[r] = "make_parent"
      BY <2>1, <2>8 DEF Entry
    <3> QED BY <1>2, <1>5, <2>1, <2>3, <2>5, <2>8, <3>1 DEF Exists
  <2>9. CASE q.kind \in {"delete", "delete_bucket"}
    <3>1. pc'[r] \in {"rm_data", "scan"}
      BY <2>1, <2>9 DEF Entry
    <3> QED BY <1>2, <1>5, <2>1, <2>3, <2>5, <2>9, <3>1 DEF Exists
  <2>10. CASE q.kind = "create_bucket"
    <3>1. pc'[r] = "make_bucket"
      BY <2>1, <2>10 DEF Entry
    <3> QED BY <1>2, <1>5, <2>1, <2>3, <2>5, <2>10, <3>1 DEF Exists
  <2> QED BY <2>2, <2>7, <2>8, <2>9, <2>10 DEF Request, Kinds
<1> QED BY <1>3, <1>4, <1>5

-----------------------------------------------------------------------------
(* The other parts of AInv.                                                *)

LEMMA UsedDrop ==
  ASSUME AInv, Alone, NEW r \in Requests,
         Scan(r) \/ NoticeEntry(r) \/ RemoveEntry(r) \/ RemoveBucketDir(r)
  PROVE  Used'
<1>0. TypeInv /\ Opened /\ Step(r) /\ ~Sweep(r) /\ ~RemoveOrphan(r) /\ pc[r] \in DropPCs
  BY DEF AInv, IInv, Step, Scan, NoticeEntry, RemoveEntry, RemoveBucketDir, Sweep, RemoveOrphan, DropPCs
<1>1. Local(r) /\ data' = data
  BY <1>0, LocalStep, LocalRemoveEntry DEF Scan, NoticeEntry, RemoveBucketDir, fs
<1>2. \A x \in Requests \ {r} : pc'[x] = pc[x] /\ req'[x] = req[x] /\ cursor'[x] = cursor[x]
  BY <1>0, OthersOpen
<1>3. CASE dirs' = dirs
  <2>1. \A b \in Buckets, d \in Dirs : ~Covers(r, b, d)
    BY <1>0 DEF Covers, DropPCs
  <2> QED BY <1>0, <1>1, <1>2, <1>3, <2>1, UsedKeeps DEF AInv
<1>4. CASE dirs' # dirs
  <2>1. pc[r] = "rm_bucket" /\ dirs' \subseteq dirs
    <3>1. CASE RemoveEntry(r)
      BY <3>1, LocalRemoveEntry DEF RemoveEntry
    <3> QED BY <1>4, <3>1 DEF Scan, NoticeEntry, RemoveBucketDir, fs
  <2> SUFFICES ASSUME NEW b \in Buckets, NEW d \in Dirs, <<b, "data", d>> \in dirs'
               PROVE  Holding(b, d)' \/ \E x \in Requests : Covers(x, b, d)'
    BY DEF Used
  <2>2. b # req[r].bucket
    BY <2>1, Bare
  <2>3. \A p : <<b, "data", p>> \in dirs => <<b, "data", p>> \in dirs'
    BY <1>1, <2>2 DEF Local
  <2>4. CASE Holding(b, d)
    BY <1>1, <2>4 DEF Holding
  <2>5. CASE \E x \in Requests : Covers(x, b, d)
    <3>1. PICK x \in Requests : Covers(x, b, d)
      BY <2>5
    <3>2. x # r
      BY <2>2, <3>1 DEF Covers
    <3>3. Covers(x, b, d)'
      BY <1>2, <2>3, <3>1, <3>2 DEF Covers, Owes
    <3> QED BY <3>3
  <2> QED BY <2>1, <2>4, <2>5 DEF AInv, Used
<1> QED BY <1>3, <1>4

LEMMA CompleteStep ==
  ASSUME AInv, IInv', Alone, NEW r \in Requests, Step(r), ~Sweep(r), ~RemoveOrphan(r)
  PROVE  Complete'
<1> SUFFICES ASSUME NEW o \in Objects PROVE Consistent(o)' \/ Half(o)'
  BY DEF Complete
<1>0. /\ TypeInv /\ Program(r) /\ Course(r) /\ InFlight(r) /\ Local(r)
      /\ pc \in [Requests -> PCs]
  BY LocalStep, StepFlies DEF AInv, IInv, TypeInv, TypeOK
<1>1. CASE o # Obj(req[r])
  <2>1. data'[o] = data[o] /\ meta'[o] = meta[o]
    BY <1>0, <1>1 DEF Local
  <2>2. Consistent(o) => Consistent(o)'
    BY <2>1 DEF Consistent
  <2>3. ASSUME NEW x \in Requests, pc[x] \in HalfPCs, Obj(req[x]) = o PROVE Half(o)'
    <3>1. x # r
      BY <1>1, <2>3
    <3>2. pc'[x] = pc[x] /\ req'[x] = req[x]
      BY <1>0, <3>1 DEF Local
    <3> QED BY <2>3, <3>2 DEF Half, Obj
  <2> QED BY <2>2, <2>3 DEF AInv, Complete, Half
<1>2. CASE o = Obj(req[r]) /\ pc'[r] \in HalfPCs
  BY <1>0, <1>2 DEF Half, Local
<1>3. CASE o = Obj(req[r]) /\ pc'[r] \notin HalfPCs /\ pc[r] \in HalfPCs
  <2> USE DEF HalfPCs
  <2>1. ~(WriteData(r) \/ MakeMetaDir(r))
    BY <1>0, <1>3, GoCounters DEF WriteData, MakeMetaDir
  <2>2. CASE OpenMeta(r)
    <3>1. pc'[r] = "write_meta"
      BY <1>0, <2>2, GoCounters DEF OpenMeta, Course, Houses
    <3> QED BY <1>3, <3>1
  <2>3. CASE WriteMeta(r)
    <3>1. pc'[r] = "emit" /\ req' = req /\ req[r].kind \in {"put", "copy"}
      BY <1>0, <2>3, GoCounters DEF WriteMeta, Program, PutPCs
    <3>2. InProgress(r)'
      BY DEF IInv
    <3>3. data'[o] # ABSENT /\ meta'[o] = Describes(data'[o])
      BY <1>3, <3>1, <3>2 DEF InProgress
    <3> QED BY <3>3 DEF Consistent
  <2>4. CASE RemoveMeta(r)
    <3>1. pc'[r] = "rm_parent" /\ req' = req
      BY <1>0, <2>4, GoCounters DEF RemoveMeta
    <3>2. InProgress(r)'
      BY DEF IInv
    <3>3. data'[o] = ABSENT /\ meta'[o] = ABSENT
      BY <1>3, <3>1, <3>2 DEF InProgress
    <3> QED BY <3>3 DEF Consistent
  <2> QED BY <1>3, <2>1, <2>2, <2>3, <2>4 DEF Step, MakeParent, OpenData, Emit, IsFile, ReadData,
             ReadMeta, CheckDst, RemoveData, RemoveParent, MakeBucket, MakeMetaRoot, WriteInfo,
             Scan, NoticeEntry, RemoveEntry, RemoveBucketDir, Sweep, RemoveOrphan
<1>4. CASE o = Obj(req[r]) /\ pc'[r] \notin HalfPCs /\ pc[r] \notin HalfPCs
  <2>1. req[r].kind \notin BucketKinds
    BY <1>0, <1>4, Names4
  <2>2. Consistent(o)
    BY <1>0, <1>4, <2>1, Names4, Clean
  <2>3. data' = data /\ meta' = meta
    <3>1. ~RemoveData(r) /\ (OpenData(r) => data' = data)
      BY <1>0, <1>4, GoCounters DEF RemoveData, OpenData, HalfPCs
    <3>2. RemoveEntry(r) => data' = data /\ meta' = meta
      BY LocalRemoveEntry
    <3>3. ~(WriteData(r) \/ OpenMeta(r) \/ WriteMeta(r) \/ RemoveMeta(r))
      BY <1>4 DEF WriteData, OpenMeta, WriteMeta, RemoveMeta, HalfPCs
    <3> QED BY <3>1, <3>2, <3>3 DEF Step, MakeParent, OpenData, MakeMetaDir, Emit, IsFile,
               ReadData, ReadMeta, CheckDst, RemoveParent, MakeBucket, MakeMetaRoot, WriteInfo,
               Scan, NoticeEntry, RemoveBucketDir, fs
  <2> QED BY <2>2, <2>3 DEF Consistent
<1> QED BY <1>1, <1>2, <1>3, <1>4

LEMMA AInvInit == Init => AInv
<1> SUFFICES ASSUME Init PROVE AInv
  OBVIOUS
<1>1. IInv /\ Used
  BY SettledInit, UsedInit
<1>2. dirty = {} /\ \A r \in Requests : pc[r] = "idle"
  BY Zenon DEF Init
<1>3. Opened
  BY <1>2 DEF Opened
<1>4. Complete
  BY <1>1, <1>2 DEF Complete, IInv, Settled
<1>5. \A r \in Requests : Course(r)
  BY <1>2 DEF Course, Houses, Carries, PutPCs, HalfPCs, GetPCs, DeletePCs, DropPCs, InFlight
<1> QED BY <1>1, <1>3, <1>4, <1>5 DEF AInv

LEMMA AInvStep ==
  ASSUME AInv, Alone, [Next]_vars
  PROVE  AInv'
<1>0. TypeInv /\ Opened /\ Tree /\ Used /\ Complete /\ \A r \in Requests : Course(r)
  BY DEF AInv, IInv
<1>1. IInv' /\ Opened'
  BY <1>0, SettledStep, OpenedStep DEF AInv, Alone
<1>2. CASE UNCHANGED vars
  <2>1. Used'
    <3>1. \A b \in Buckets, d \in Dirs :
            /\ Holding(b, d)' <=> Holding(b, d)
            /\ \A x \in Requests : Covers(x, b, d)' <=> Covers(x, b, d)
      <4>1. UNCHANGED <<dirs, data, pc, req, cursor>>
        BY <1>2 DEF vars
      <4>2. ASSUME NEW b \in Buckets, NEW d \in Dirs PROVE Holding(b, d)' <=> Holding(b, d)
        BY <4>1 DEF Holding
      <4>3. ASSUME NEW b \in Buckets, NEW d \in Dirs, NEW x \in Requests
            PROVE  Covers(x, b, d)' <=> Covers(x, b, d)
        BY <4>1 DEF Covers, Owes
      <4> QED BY <4>2, <4>3
    <3> QED BY <1>0, <1>2, <3>1 DEF vars, Used
  <2>2. Complete'
    BY <1>0, <1>2 DEF vars, Complete, Consistent, Half
  <2>3. ASSUME NEW r \in Requests PROVE Course(r)'
    <3>1. Houses(r)'
      <4>1. /\ Within(req[r].bucket)' = Within(req[r].bucket)
            /\ Exists(req[r].bucket)' <=> Exists(req[r].bucket)
            /\ Exists(Source(req[r])[1])' <=> Exists(Source(req[r])[1])
        BY <1>2, Zenon DEF vars, Exists, Within, Files, Source, Obj
      <4> QED BY <1>0, <1>2, <4>1 DEF vars, Course, Houses
    <3>2. Carries(r)'
      BY <1>0, <1>2 DEF vars, Course, Carries, Visible, InFlight
    <3> QED BY <1>0, <1>2, <3>1, <3>2 DEF vars, Course
  <2> QED BY <1>1, <2>1, <2>2, <2>3 DEF AInv
<1>3. ASSUME NEW r \in Requests, Start(r) PROVE AInv'
  <2>1. Used'
    BY <1>0, <1>3, UsedStep DEF Start, DropPCs
  <2>2. Complete'
    <3>1. UNCHANGED <<data, meta>> /\ pc[r] = "idle"
      BY <1>3 DEF Start, fs
    <3>2. \A x \in Requests \ {r} : pc'[x] = pc[x] /\ req'[x] = req[x]
      BY <1>0, <1>3, OthersOpen
    <3> QED BY <1>0, <3>1, <3>2 DEF Complete, Consistent, Half, HalfPCs, Obj
  <2>3. \A x \in Requests : Course(x)'
    BY <1>3, CourseStart
  <2> QED BY <1>1, <2>1, <2>2, <2>3 DEF AInv
<1>4. ASSUME NEW r \in Requests, Step(r), ~Sweep(r), ~RemoveOrphan(r) PROVE AInv'
  <2>1. Used'
    <3>1. CASE pc[r] \in DropPCs
      <4>1. Scan(r) \/ NoticeEntry(r) \/ RemoveEntry(r) \/ RemoveBucketDir(r)
        BY <1>4, <3>1 DEF Step, MakeParent, OpenData, WriteData, MakeMetaDir, OpenMeta,
           WriteMeta, Emit, IsFile, ReadData, ReadMeta, CheckDst, RemoveData, RemoveMeta,
           RemoveParent, MakeBucket, MakeMetaRoot, WriteInfo, DropPCs
      <4> QED BY <4>1, UsedDrop
    <3>2. CASE pc[r] \notin DropPCs
      BY <1>0, <1>4, <3>2, UsedStep
    <3> QED BY <3>1, <3>2
  <2>2. Complete'
    BY <1>1, <1>4, CompleteStep
  <2>3. Course(r)'
    BY <1>4, CoursePut, CourseGet, CourseDelete, CourseBucket DEF Step
  <2>4. \A x \in Requests \ {r} : Course(x)'
    BY <1>4, LocalStep, StepFlies, OthersCourse
  <2> QED BY <1>1, <2>1, <2>2, <2>3, <2>4 DEF AInv
<1> QED BY <1>0, <1>2, <1>3, <1>4, NoFaults

-----------------------------------------------------------------------------
(* What AtomicStore sees of a step.                                        *)

VisibleSame == \A o \in Objects : Visible(o)' = Visible(o)
ExistsSame == \A b \in Buckets : Exists(b)' <=> Exists(b)

(* S3Requests means the same to both modules.                              *)
LEMMA SameTerms ==
  /\ Atomic!Objects = Objects /\ Atomic!Codes = Codes /\ Atomic!Request = Request
  /\ Atomic!NoRequest = NoRequest /\ Atomic!Writers = Writers
  /\ \A c : Atomic!Plain(c) = Plain(c)
  /\ \A q : /\ Atomic!Obj(q) = Obj(q) /\ Atomic!Source(q) = Source(q)
            /\ Atomic!Touches(q) = Touches(q) /\ Atomic!Event(q) = Event(q)
            /\ Atomic!WellFormed(q) <=> WellFormed(q)
            /\ \A p : Atomic!Conflict(p, q) <=> Conflict(p, q)
<1>1. /\ Atomic!Objects = Objects /\ Atomic!Kinds = Kinds /\ Atomic!BucketKinds = BucketKinds
      /\ Atomic!NoRequest = NoRequest /\ Atomic!Writers = Writers
  BY Zenon DEF Objects, Kinds, BucketKinds, NoRequest, Writers, Atomic!Objects, Atomic!Kinds,
     Atomic!BucketKinds, Atomic!NoRequest, Atomic!Writers
<1>2. Atomic!Codes = Codes /\ \A c : Atomic!Plain(c) = Plain(c)
  BY Zenon DEF Codes, Plain, Atomic!Codes, Atomic!Plain
<1>3. Atomic!Request = Request
  BY <1>1, Zenon DEF Request, Atomic!Request
<1>4. ASSUME NEW q
      PROVE  /\ Atomic!Obj(q) = Obj(q) /\ Atomic!Source(q) = Source(q)
             /\ Atomic!Event(q) = Event(q) /\ (Atomic!WellFormed(q) <=> WellFormed(q))
  BY <1>1, Zenon DEF Obj, Source, Event, WellFormed, Atomic!Obj, Atomic!Source, Atomic!Event,
     Atomic!WellFormed
<1>5. ASSUME NEW q PROVE Atomic!Touches(q) = Touches(q)
  BY <1>1, <1>4 DEF Touches, Atomic!Touches
<1>6. ASSUME NEW p, NEW q PROVE Atomic!Conflict(p, q) <=> Conflict(p, q)
  BY <1>5, Zenon DEF Conflict, Atomic!Conflict
<1> QED BY <1>1, <1>2, <1>3, <1>4, <1>5, <1>6

(* The other requests keep their status.                                   *)
Moved(r) == [x \in Requests |-> Status(x)]' = [[x \in Requests |-> Status(x)] EXCEPT ![r] = Status(r)']

LEMMA StatusMoved ==
  ASSUME AInv, NEW r \in Requests, Start(r) \/ Step(r)
  PROVE  Moved(r)
<1>1. \A x \in Requests \ {r} : pc'[x] = pc[x]
  BY OthersOpen DEF AInv, IInv
<1>2. \A x \in Requests \ {r} : Status(x)' = Status(x)
  BY <1>1 DEF Status
<1> QED BY <1>2 DEF Moved

LEMMA SeenNothing ==
  ASSUME NEW r \in Requests, Moved(r), Status(r)' = Status(r), VisibleSame, ExistsSame,
         UNCHANGED <<req, reply, events>>
  PROVE  UNCHANGED Atomic!vars
<1>1. [x \in Requests |-> Status(x)]' = [x \in Requests |-> Status(x)]
  BY DEF Moved
<1>2. [o \in Objects |-> Visible(o)]' = [o \in Objects |-> Visible(o)]
  BY DEF VisibleSame
<1>3. {b \in Buckets : Exists(b)}' = {b \in Buckets : Exists(b)}
  BY DEF ExistsSame
<1> QED BY <1>1, <1>2, <1>3 DEF Atomic!vars

(* A request is refused, and nothing else is seen.                         *)
LEMMA SeenRefusal ==
  ASSUME TypeInv, NEW r \in Requests, Moved(r), Status(r) = "working", VisibleSame, ExistsSame,
         NEW code \in Codes, Atomic!Refused(req[r], code), Finish(r, Plain(code)),
         UNCHANGED <<req, events>>
  PROVE  Atomic!Refuse(r)
<1>1. Status(r)' = "done"
  BY FinishCounters DEF Status
<1>2. [o \in Objects |-> Visible(o)]' = [o \in Objects |-> Visible(o)]
  BY DEF VisibleSame
<1>3. {b \in Buckets : Exists(b)}' = {b \in Buckets : Exists(b)}
  BY DEF ExistsSame
<1>4. Atomic!Answer(r, Atomic!Plain(code)) /\ code \in Atomic!Codes
  BY <1>1, SameTerms DEF Moved, Finish, Atomic!Answer
<1>5. [x \in Requests |-> Status(x)][r] = "working"
  OBVIOUS
<1> QED BY <1>2, <1>3, <1>4, <1>5, Zenon DEF Atomic!Refuse

(* Only the bucket of a request can come or go at its steps.               *)
LEMMA ExistsLocal ==
  ASSUME NEW r \in Requests, Local(r)
  PROVE  /\ \A b \in Buckets \ {req[r].bucket} : Exists(b)' <=> Exists(b)
         /\ (<<req[r].bucket, "data", ROOT>> \in dirs' <=> Exists(req[r].bucket)) => ExistsSame
<1>1. \A b \in Buckets \ {req[r].bucket} : Exists(b)' <=> Exists(b)
  BY DEF Local, Exists
<1> QED BY <1>1 DEF ExistsSame, Exists

(* Steps that write or remove a file without changing what is visible.     *)
LEMMA VisibleStays ==
  ASSUME AInv, IInv', Alone, NEW r \in Requests,
         \/ WriteData(r) \/ WriteMeta(r) \/ RemoveData(r)
         \/ OpenData(r) /\ data' = [data EXCEPT ![Obj(req[r])] = EMPTY]
  PROVE  VisibleSame
<1> DEFINE o == Obj(req[r])
<1>0. TypeInv /\ Program(r) /\ Course(r) /\ pc[r] \in PutPCs \cup DeletePCs
  BY DEF AInv, IInv, TypeInv, WriteData, WriteMeta, RemoveData, OpenData, PutPCs, DeletePCs
<1>1. InFlight(r) /\ Step(r) /\ ~Sweep(r) /\ ~RemoveOrphan(r)
  BY DEF InFlight, Step, WriteData, WriteMeta, RemoveData, OpenData, Sweep, RemoveOrphan
<1>2. o \in Objects /\ o \in Touches(req[r])
  <2>1. req[r].kind \notin BucketKinds
    BY <1>0 DEF Program, PutPCs, DeletePCs, BucketKinds
  <2> QED BY <1>0, <1>1, <2>1, Names4
<1>3. \A p \in Objects \ {o} : data'[p] = data[p] /\ meta'[p] = meta[p]
  BY <1>1, LocalStep DEF Local
<1>4. ASSUME meta' = meta, meta[o] \in Documents \cup {ABSENT} PROVE VisibleSame
  <2>1. meta[o] # EMPTY
    BY <1>4, NotADocument, Distinct DEF ValueAssumption
  <2>2. ASSUME NEW p \in Objects PROVE Visible(p)' = Visible(p)
    BY <1>3, <1>4, <2>1 DEF Visible
  <2> QED BY <2>2 DEF VisibleSame
<1>5. CASE OpenData(r) \/ RemoveData(r)
  <2>1. meta' = meta /\ pc[r] \notin HalfPCs
    BY <1>5 DEF OpenData, RemoveData, HalfPCs
  <2> QED BY <1>0, <1>1, <1>2, <1>4, <2>1, Clean, Documented
<1>6. CASE WriteData(r)
  <2>1. meta' = meta /\ pc[r] \in HalfPCs \ {"write_meta"}
    BY <1>6 DEF WriteData, HalfPCs
  <2> QED BY <1>0, <1>4, <2>1 DEF Course, Carries
<1>7. CASE WriteMeta(r)
  <2>1. /\ pc[r] = "write_meta" /\ pc'[r] = "emit" /\ data' = data /\ req' = req
        /\ req[r].kind \in {"put", "copy"}
    BY <1>0, <1>7, GoCounters DEF WriteMeta, Program, PutPCs
  <2>2. InProgress(r) /\ InProgress(r)'
    BY DEF AInv, IInv
  <2>3. meta[o] = EMPTY
    BY <2>1, <2>2 DEF InProgress
  <2>4. data[o] # ABSENT /\ meta'[o] = Describes(data[o])
    BY <2>1, <2>2 DEF InProgress
  <2>5. data[o] \in Contents /\ EMPTY \notin Documents
    BY <1>0, <1>2, <2>4, NotADocument DEF TypeInv, TypeOK
  <2>6. meta'[o] \in Documents /\ meta'[o].of = data[o]
    BY <2>4, <2>5 DEF Documents, Describes
  <2>7. ASSUME NEW p \in Objects PROVE Visible(p)' = Visible(p)
    <3>1. CASE p = o
      BY <2>3, <2>5, <2>6, <3>1 DEF Visible
    <3>2. CASE p # o
      BY <1>3, <3>2 DEF Visible
    <3> QED BY <3>1, <3>2
  <2> QED BY <2>7 DEF VisibleSame
<1> QED BY <1>5, <1>6, <1>7

LEMMA FilesSame ==
  ASSUME data' = data, meta' = meta
  PROVE  VisibleSame
BY DEF VisibleSame, Visible

(* Steps that are not seen.                                                *)
LEMMA UnseenPut ==
  ASSUME AInv, AInv', Alone, NEW r \in Requests,
         \/ MakeParent(r) \/ WriteData(r) \/ MakeMetaDir(r) \/ WriteMeta(r)
         \/ OpenData(r) /\ data' = [data EXCEPT ![Obj(req[r])] = EMPTY] /\ pc'[r] = "write_data"
                        /\ UNCHANGED <<reply, events>>
         \/ RemoveData(r) \/ RemoveParent(r)
  PROVE  UNCHANGED Atomic!vars
<1>0. /\ TypeInv /\ Program(r) /\ Course(r) /\ Step(r) /\ ~Sweep(r) /\ ~RemoveOrphan(r)
      /\ IInv' /\ pc[r] \in PutPCs \cup DeletePCs
  BY DEF AInv, IInv, TypeInv, Step, Sweep, RemoveOrphan, MakeParent, WriteData, MakeMetaDir,
         WriteMeta, OpenData, RemoveData, RemoveParent, PutPCs, DeletePCs
<1>1. Moved(r) /\ Local(r)
  BY <1>0, StatusMoved, LocalStep
<1>2. VisibleSame
  <2>1. CASE MakeParent(r) \/ MakeMetaDir(r) \/ RemoveParent(r)
    BY <2>1, FilesSame DEF MakeParent, MakeMetaDir, RemoveParent
  <2> QED BY <1>0, <2>1, VisibleStays
<1>3. ExistsSame
  <2>1. Exists(req[r].bucket)
    BY <1>0 DEF Course, Houses
  <2>2. <<req[r].bucket, "data", ROOT>> \in dirs'
    BY <2>1 DEF Exists, MakeParent, WriteData, MakeMetaDir, WriteMeta, OpenData, RemoveData, RemoveParent
  <2> QED BY <1>1, <2>1, <2>2, ExistsLocal
<1>4. Status(r)' = Status(r)
  <2>1. CASE MakeParent(r) \/ WriteData(r) \/ MakeMetaDir(r) \/ WriteMeta(r) \/ RemoveData(r)
    BY <1>0, <2>1, GoCounters DEF MakeParent, WriteData, MakeMetaDir, WriteMeta, RemoveData, Status
  <2>2. CASE OpenData(r) /\ pc'[r] = "write_data"
    BY <2>2 DEF OpenData, Status
  <2>3. CASE RemoveParent(r)
    BY <1>0, <2>3, GoCounters DEF RemoveParent, Status
  <2> QED BY <2>1, <2>2, <2>3
<1>5. UNCHANGED <<req, reply, events>>
  BY DEF MakeParent, WriteData, MakeMetaDir, WriteMeta, OpenData, RemoveData, RemoveParent
<1> QED BY <1>1, <1>2, <1>3, <1>4, <1>5, SeenNothing

LEMMA UnseenOther ==
  ASSUME AInv, Alone, NEW r \in Requests,
         \/ IsFile(r) \/ ReadData(r) \/ ReadMeta(r) \/ CheckDst(r) \/ MakeMetaRoot(r)
         \/ WriteInfo(r) \/ Scan(r) \/ NoticeEntry(r) \/ RemoveEntry(r),
         pc'[r] # "done"
  PROVE  UNCHANGED Atomic!vars
<1>0. /\ TypeInv /\ Program(r) /\ Course(r) /\ Step(r) /\ ~Sweep(r) /\ ~RemoveOrphan(r)
  BY DEF AInv, IInv, TypeInv, Step, Sweep, RemoveOrphan, IsFile, ReadData, ReadMeta, CheckDst,
         MakeMetaRoot, WriteInfo, Scan, NoticeEntry, RemoveEntry
<1>1. Moved(r) /\ Local(r)
  BY <1>0, StatusMoved, LocalStep
<1>2. VisibleSame
  <2>1. data' = data /\ meta' = meta
    BY LocalRemoveEntry DEF IsFile, ReadData, ReadMeta, CheckDst, MakeMetaRoot, WriteInfo, Scan,
       NoticeEntry, fs
  <2> QED BY <2>1, FilesSame
<1>3. ExistsSame
  <2>1. CASE dirs' = dirs
    BY <2>1 DEF ExistsSame, Exists
  <2>2. CASE MakeMetaRoot(r)
    <3>1. Exists(req[r].bucket) /\ <<req[r].bucket, "data", ROOT>> \in dirs'
      BY <1>0, <2>2 DEF MakeMetaRoot, Course, Houses
    <3> QED BY <1>1, <3>1, ExistsLocal
  <2>3. CASE RemoveEntry(r)
    <3>1. Exists(req[r].bucket)
      BY <1>0, <2>3 DEF RemoveEntry, Course, Houses, DropPCs
    <3>2. <<req[r].bucket, "data", ROOT>> \in dirs'
      BY <2>3, <3>1, LocalRemoveEntry DEF Exists
    <3> QED BY <1>1, <3>1, <3>2, ExistsLocal
  <2> QED BY <2>1, <2>2, <2>3 DEF IsFile, ReadData, ReadMeta, CheckDst, WriteInfo, Scan,
             NoticeEntry, fs
<1>4. Status(r)' = Status(r) /\ UNCHANGED <<req, reply, events>>
  <2>1. CASE IsFile(r) \/ ReadData(r) \/ ReadMeta(r) \/ CheckDst(r) \/ Scan(r)
    BY <1>0, <2>1, GoCounters, FinishCounters DEF IsFile, ReadData, ReadMeta, CheckDst, Scan, Status, Fail
  <2>2. CASE MakeMetaRoot(r) \/ WriteInfo(r)
    BY <1>0, <2>2, GoCounters, FinishCounters DEF MakeMetaRoot, WriteInfo, Status, Fail
  <2>3. CASE NoticeEntry(r) \/ RemoveEntry(r)
    BY <2>3 DEF NoticeEntry, RemoveEntry, Status
  <2> QED BY <2>1, <2>2, <2>3
<1> QED BY <1>1, <1>2, <1>3, <1>4, SeenNothing

(* What a bucket that is not empty holds.                                  *)
LEMMA ForeignHeld ==
  ASSUME AInv, Alone, NEW r \in Requests, pc[r] = "scan", Foreign(req[r].bucket) # {}
  PROVE  \E k \in Keys : Visible(<<req[r].bucket, k>>) # ABSENT
<1> DEFINE b == req[r].bucket
<1>0. TypeInv /\ InFlight(r) /\ req[r].kind = "delete_bucket" /\ b \in Buckets
  BY Named DEF AInv, IInv, TypeInv, Program, DropPCs, InFlight
<1>1. ASSUME NEW k \in Keys, data[<<b, k>>] # ABSENT PROVE Visible(<<b, k>>) # ABSENT
  <2>1. <<b, k>> \in Touches(req[r]) \cap Objects
    BY <1>0, Touching
  <2>2. Consistent(<<b, k>>)
    BY <1>0, <2>1, Clean DEF HalfPCs
  <2> QED BY <1>0, <1>1, <2>1, <2>2, Documented
<1>2. ASSUME NEW d \in Dirs, <<b, "data", d>> \in dirs PROVE \E k \in Keys : data[<<b, k>>] # ABSENT
  <2>1. ASSUME NEW x \in Requests, Covers(x, b, d) PROVE FALSE
    <3>1. x # r /\ InFlight(x) /\ req[x].bucket = b
      BY <1>0, <2>1 DEF Covers, InFlight
    <3> QED BY <1>0, <3>1, Sole DEF BucketKinds
  <2>2. Holding(b, d)
    BY <1>0, <1>2, <2>1 DEF AInv, Used
  <2> QED BY <2>2 DEF Holding
<1>3. PICK e : e \in Entries(b, "data", ROOT)
  BY DEF Foreign
<1>4. CASE \E k \in Files(b, "data") : TRUE
  BY <1>1, <1>4 DEF Files
<1>5. CASE Files(b, "data") = {}
  <2>1. PICK d \in Dirs : <<b, "data", d>> \in dirs
    BY <1>3, <1>5 DEF Entries
  <2> QED BY <1>1, <1>2, <2>1
<1> QED BY <1>4, <1>5

(* Refusals.                                                               *)
LEMMA Refusing ==
  ASSUME AInv, Alone, NEW r \in Requests,
         \/ OpenData(r) \/ OpenMeta(r) \/ IsFile(r) \/ ReadData(r) \/ CheckDst(r)
         \/ WriteInfo(r) \/ Scan(r) \/ RemoveBucketDir(r),
         pc'[r] = "done"
  PROVE  Atomic!Refuse(r)
<1> DEFINE b == req[r].bucket
           src == Source(req[r])
<1>0. /\ TypeInv /\ Program(r) /\ Course(r) /\ Step(r) /\ ~Sweep(r) /\ ~RemoveOrphan(r)
  BY DEF AInv, IInv, TypeInv, Step, Sweep, RemoveOrphan, OpenData, OpenMeta, IsFile, ReadData,
         CheckDst, WriteInfo, Scan, RemoveBucketDir
<1>1. Moved(r)
  BY <1>0, StatusMoved
<1>2. ASSUME UNCHANGED <<dirs, data, meta, req>>, NEW code \in Codes, Fail(r, code),
             Status(r) = "working", Atomic!Refused(req[r], code)
      PROVE  Atomic!Refuse(r)
  <2>1. VisibleSame /\ ExistsSame
    BY <1>2, FilesSame DEF ExistsSame, Exists
  <2> QED BY <1>0, <1>1, <1>2, <2>1, SeenRefusal DEF Fail
<1> USE DEF Course, Houses, Carries
<1>3. CASE OpenData(r) \/ OpenMeta(r)
  <2>1. /\ UNCHANGED <<dirs, data, meta, req>> /\ Fail(r, "InternalError")
        /\ Status(r) = "working" /\ req[r].kind \in {"put", "copy"}
    BY <1>0, <1>3, GoCounters DEF OpenData, OpenMeta, Status, Program, PutPCs
  <2>2. Atomic!Refused(req[r], "InternalError")
    BY <2>1 DEF Atomic!Refused
  <2> QED BY <1>2, <2>1, <2>2 DEF Codes
<1>4. CASE IsFile(r)
  <2>1. /\ UNCHANGED <<dirs, data, meta, req>> /\ Fail(r, "NoSuchKey") /\ data[src] = ABSENT
        /\ pc[r] = "is_file" /\ Status(r) = "working" /\ req[r].kind \in {"get", "head", "copy"}
    BY <1>0, <1>4, GoCounters DEF IsFile, fs, Status, Program, GetPCs
  <2>2. src \in Objects /\ Visible(src) = ABSENT
    BY <1>0, <2>1, Found, Documented DEF GetPCs
  <2>3. Atomic!Refused(req[r], "NoSuchKey")
    BY <2>1, <2>2, SameTerms DEF Atomic!Refused
  <2> QED BY <1>2, <2>1, <2>3 DEF Codes
<1>5. CASE CheckDst(r)
  <2>1. /\ UNCHANGED <<dirs, data, meta, req>> /\ Fail(r, "NoSuchBucket") /\ ~Exists(b)
        /\ Status(r) = "working" /\ req[r].kind = "copy"
    BY <1>0, <1>5, GoCounters DEF CheckDst, fs, Status, Program
  <2>2. Atomic!Refused(req[r], "NoSuchBucket")
    BY <2>1 DEF Atomic!Refused
  <2> QED BY <1>2, <2>1, <2>2 DEF Codes
<1>6. CASE Scan(r)
  <2>1. /\ UNCHANGED <<dirs, data, meta, req>> /\ Fail(r, "BucketNotEmpty") /\ Foreign(b) # {}
        /\ pc[r] = "scan" /\ Status(r) = "working" /\ req[r].kind = "delete_bucket"
    BY <1>0, <1>6, GoCounters DEF Scan, fs, Status, Program, DropPCs
  <2>2. PICK k \in Keys : Visible(<<b, k>>) # ABSENT
    BY <2>1, ForeignHeld
  <2>3. <<b, k>> \in Objects
    BY <1>0, <2>1, Named DEF Objects, DropPCs
  <2>4. Atomic!Held(b) # {}
    BY <2>2, <2>3 DEF Atomic!Held
  <2>5. Atomic!Refused(req[r], "BucketNotEmpty")
    BY <2>1, <2>4 DEF Atomic!Refused
  <2> QED BY <1>2, <2>1, <2>5 DEF Codes
<1>7. CASE ReadData(r) \/ WriteInfo(r)
  BY <1>0, <1>7, GoCounters DEF ReadData, WriteInfo
<1>8. CASE RemoveBucketDir(r)
  <2>1. pc[r] = "rm_bucket" /\ <<b, "data", ROOT>> \in dirs /\ Within(b) \subseteq todo[r]
    BY <1>0, <1>8 DEF RemoveBucketDir, DropPCs, Exists
  <2>2. PICK e \in todo[r] : IsDir(e) /\ Inside(e) # {} /\ Inside(e) \cap todo[r] = {}
    BY <1>0, <1>8, <2>1, GoCounters DEF RemoveBucketDir
  <2>3. e[1] = b
    BY <1>0, <2>1
  <2>4. e[2] \in {"data", "meta"}
    BY <1>0, <2>2 DEF TypeInv, TypeOK, Names
  <2>5. Inside(e) \subseteq Within(b)
    <3>1. ASSUME NEW t \in {"data", "meta"} PROVE Entries(b, t, e[3]) \subseteq Within(b)
      <4>1. {<<b, t, k>> : k \in Files(b, t)} \subseteq Within(b)
        BY DEF Within
      <4>2. \A g \in Dirs : <<b, t, g>> \in dirs => <<b, t, g>> \in Within(b)
        BY DEF Within
      <4> QED BY <4>1, <4>2 DEF Entries
    <3>2. Entries(e[1], e[2], e[3]) \subseteq Within(b)
      BY <2>3, <2>4, <3>1
    <3>3. {<<x, "meta", NONE>> : x \in info \cap {e[1]}} \subseteq Within(b)
      BY <2>3 DEF Within
    <3>4. {<<e[1], "meta", ROOT>>} \cap dirs \subseteq Within(b)
      BY <2>3 DEF Within
    <3> QED BY <3>2, <3>3, <3>4 DEF Inside
  <2> QED BY <2>1, <2>2, <2>5
<1> QED BY <1>3, <1>4, <1>5, <1>6, <1>7, <1>8

(* Answers of reads.                                                       *)
LEMMA Reading ==
  ASSUME AInv, Alone, NEW r \in Requests, ReadMeta(r), pc'[r] = "done"
  PROVE  Atomic!Read(r)
<1> DEFINE src == Source(req[r])
<1>0. /\ TypeInv /\ Program(r) /\ Course(r) /\ Step(r) /\ pc[r] = "read_meta"
  BY DEF AInv, IInv, TypeInv, Step, ReadMeta
<1>1. src \in Objects /\ Consistent(src) /\ data[src] # ABSENT
  BY <1>0, Found DEF GetPCs, Course, Carries
<1>2. meta[src] \in Documents /\ meta[src].of = data[src] /\ Visible(src) = data[src]
  BY <1>0, <1>1, Documented
<1>3. /\ Finish(r, [code |-> "Ok", data |-> buf[r], etag |-> data[src]])
      /\ UNCHANGED <<dirs, data, meta, req, events>> /\ req[r].kind # "copy"
  BY <1>0, <1>2, GoCounters, NotADocument DEF ReadMeta, fs
<1>4. req[r].kind \in {"get", "head"} /\ src = Obj(req[r]) /\ Status(r) = "working" /\ InFlight(r)
  BY <1>0, <1>3 DEF Program, GetPCs, Source, Status, InFlight
<1>5. buf[r] = IF req[r].kind = "get" THEN data[src] ELSE NONE
  BY <1>0, <1>4 DEF Course, Carries
<1>6. Moved(r) /\ Status(r)' = "done"
  BY <1>0, StatusMoved DEF Status
<1>7. VisibleSame /\ ExistsSame
  BY <1>3, FilesSame DEF ExistsSame, Exists
<1>8. [o \in Objects |-> Visible(o)]' = [o \in Objects |-> Visible(o)]
  BY <1>7 DEF VisibleSame
<1>9. {b \in Buckets : Exists(b)}' = {b \in Buckets : Exists(b)}
  BY <1>7 DEF ExistsSame
<1>10. [o \in Objects |-> Visible(o)][Atomic!Obj(req[r])] = data[src]
  BY <1>1, <1>2, <1>4, SameTerms
<1> DEFINE c == [o \in Objects |-> Visible(o)][Atomic!Obj(req[r])]
<1>11. c # ABSENT /\ Atomic!Answer(r, [code |-> "Ok", etag |-> c,
                                      data |-> IF req[r].kind = "get" THEN c ELSE NONE])
  BY <1>1, <1>3, <1>5, <1>6, <1>10 DEF Moved, Finish, Atomic!Answer
<1>12. [x \in Requests |-> Status(x)][r] = "working"
  BY <1>4
<1>13. UNCHANGED <<{b \in Buckets : Exists(b)}, [o \in Objects |-> Visible(o)], req, events>>
  BY <1>3, <1>8, <1>9
<1> QED BY <1>4, <1>11, <1>12, <1>13, SameTerms, Zenon DEF Atomic!Read

(* Where requests take effect: at the truncation or removal of the         *)
(* document, and at the creation or removal of the bucket's directory.     *)
LEMMA PerformsWrite ==
  ASSUME AInv, Alone, NEW r \in Requests, (OpenMeta(r) /\ pc'[r] # "done") \/ RemoveMeta(r)
  PROVE  Atomic!Perform(r)
<1> DEFINE q == req[r]
           o == Obj(q)
           objs == [p \in Objects |-> Visible(p)]
           new == CASE q.kind = "put" -> q.body
                    [] q.kind = "copy" -> objs[q.from]
                    [] OTHER -> ABSENT
<1>0. /\ TypeInv /\ Program(r) /\ Course(r) /\ Step(r) /\ ~Sweep(r) /\ ~RemoveOrphan(r)
      /\ pc[r] \in {"open_meta", "rm_meta"}
  BY DEF AInv, IInv, TypeInv, Step, OpenMeta, RemoveMeta, Sweep, RemoveOrphan
<1>1. /\ o \in Objects /\ Source(q) \in Objects /\ q.bucket \in Buckets /\ InFlight(r)
  BY <1>0, Named DEF PutPCs, DeletePCs, InFlight
<1>2. /\ UNCHANGED <<dirs, data, req, reply, events>> /\ \A p \in Objects \ {o} : meta'[p] = meta[p]
      /\ Status(r) = "working" /\ Status(r)' = "performed" /\ Moved(r)
  <2>1. UNCHANGED <<dirs, data, req, reply, events>> /\ pc'[r] \in {"write_meta", "rm_parent"}
    BY <1>0, GoCounters, FinishCounters DEF OpenMeta, RemoveMeta, Fail
  <2>2. \A p \in Objects \ {o} : meta'[p] = meta[p]
    BY <1>0, LocalStep DEF Local
  <2> QED BY <1>0, <2>1, <2>2, StatusMoved DEF Status
<1>3. Exists(q.bucket)
  BY <1>0 DEF Course, Houses, PutPCs, DeletePCs
<1>4. Visible(o)' = new /\ (q.kind = "copy" => objs[q.from] # ABSENT) /\ q.kind \in Writers
  <2>1. CASE OpenMeta(r) /\ pc'[r] # "done"
    <3>1. meta'[o] = EMPTY /\ pc[r] = "open_meta"
      BY <1>0, <1>1, <2>1, FinishCounters DEF OpenMeta, Fail, TypeInv, TypeOK
    <3>2. Visible(o)' = data[o]
      BY <1>2, <3>1, NotADocument DEF Visible, Obj
    <3>3. data[o] = buf[r]
      BY <3>1 DEF AInv, IInv, InProgress
    <3>4. CASE q.kind = "put"
      BY <1>0, <3>1, <3>2, <3>3, <3>4 DEF Course, Carries, PutPCs, Writers
    <3>5. CASE q.kind = "copy"
      <4>1. buf[r] = Visible(Source(q)) /\ Visible(Source(q)) # ABSENT
        BY <1>0, <3>1, <3>5 DEF Course, Carries, PutPCs
      <4>2. Source(q) = q.from
        BY <3>5 DEF Source
      <4> QED BY <1>1, <3>2, <3>3, <3>5, <4>1, <4>2 DEF Writers
    <3> QED BY <1>0, <3>1, <3>4, <3>5 DEF Program, PutPCs
  <2>2. CASE RemoveMeta(r)
    <3>1. meta'[o] = ABSENT /\ q.kind = "delete"
      BY <1>0, <1>1, <2>2 DEF RemoveMeta, Unname, Alone, TypeInv, TypeOK, Program, DeletePCs
    <3>2. Visible(o)' = ABSENT
      BY <1>2, <3>1, NotADocument, Distinct DEF Visible, Obj, ValueAssumption
    <3> QED BY <3>1, <3>2 DEF Writers
  <2> QED BY <2>1, <2>2
<1>5. objs' = [objs EXCEPT ![o] = new]
  <2>1. \A p \in Objects \ {o} : Visible(p)' = Visible(p)
    BY <1>2 DEF Visible
  <2>2. \A p \in Objects : p = o => Visible(p)' = new
    BY <1>2, <1>4 DEF Visible, Obj
  <2> QED BY <2>1, <2>2
<1>6. {b \in Buckets : Exists(b)}' = {b \in Buckets : Exists(b)}
  BY <1>2 DEF Exists
<1>7. q.bucket \in {b \in Buckets : Exists(b)}
  BY <1>1, <1>3
<1>8. [x \in Requests |-> Status(x)][r] = "working"
  BY <1>2
<1>9. [x \in Requests |-> Status(x)]' = [[x \in Requests |-> Status(x)] EXCEPT ![r] = "performed"]
  BY <1>2 DEF Moved
<1>10. objs' = [objs EXCEPT ![Atomic!Obj(q)] = new] /\ q.kind \in Atomic!Writers
  BY <1>4, <1>5, SameTerms
<1> QED BY <1>2, <1>4, <1>6, <1>7, <1>8, <1>9, <1>10, SameTerms DEF Atomic!Perform

LEMMA PerformsBucket ==
  ASSUME AInv, Alone, NEW r \in Requests,
         MakeBucket(r) \/ (RemoveBucketDir(r) /\ pc'[r] # "done")
  PROVE  Atomic!Perform(r)
<1> DEFINE b == req[r].bucket
           objs == [p \in Objects |-> Visible(p)]
           bkts == {c \in Buckets : Exists(c)}
<1>0. /\ TypeInv /\ Program(r) /\ Course(r) /\ Step(r) /\ ~Sweep(r) /\ ~RemoveOrphan(r)
      /\ pc[r] \in {"make_bucket", "rm_bucket"}
  BY DEF AInv, IInv, TypeInv, Step, MakeBucket, RemoveBucketDir, Sweep, RemoveOrphan
<1>1. b \in Buckets
  BY <1>0, Named DEF CreatePCs, DropPCs
<1>2. UNCHANGED <<data, meta, req, reply, events>> /\ pc'[r] \in {"make_meta_root", "emit"}
  BY <1>0, GoCounters, FinishCounters DEF MakeBucket, RemoveBucketDir, Fail
<1>3. /\ [x \in Requests |-> Status(x)][r] = "working"
      /\ [x \in Requests |-> Status(x)]' = [[x \in Requests |-> Status(x)] EXCEPT ![r] = "performed"]
  BY <1>0, <1>2, StatusMoved DEF Status, Moved
<1>4. objs' = objs
  BY <1>2, FilesSame DEF VisibleSame
<1>5. \A c \in Buckets \ {b} : Exists(c)' <=> Exists(c)
  BY <1>0, LocalStep, ExistsLocal
<1>6. CASE MakeBucket(r)
  <2>1. ~Exists(b) /\ req[r].kind = "create_bucket"
    BY <1>0, <1>6 DEF MakeBucket, Course, Houses, Program, CreatePCs
  <2>2. <<b, "data", ROOT>> \in dirs'
    BY <1>6 DEF MakeBucket
  <2>3. bkts' = bkts \cup {b}
    <3>1. \A c \in Buckets : c \in bkts' <=> c \in bkts \cup {b}
      BY <1>1, <1>5, <2>2 DEF Exists
    <3> QED BY <1>1, <3>1
  <2> QED BY <1>1, <1>2, <1>3, <1>4, <2>1, <2>3 DEF Atomic!Perform
<1>7. CASE RemoveBucketDir(r) /\ pc'[r] # "done"
  <2>1. pc[r] = "rm_bucket" /\ dirs' = dirs \ {<<b, "data", ROOT>>}
    BY <1>0, <1>7, FinishCounters DEF RemoveBucketDir, Fail
  <2>2. Exists(b) /\ req[r].kind = "delete_bucket"
    BY <1>0, <2>1 DEF Course, Houses, DropPCs, Program
  <2>3. bkts' = bkts \ {b}
    <3>1. \A c \in Buckets : c \in bkts' <=> c \in bkts \ {b}
      BY <1>5, <2>1 DEF Exists
    <3> QED BY <3>1
  <2>4. \A k \in Keys : objs[<<b, k>>] = ABSENT
    <3>1. \A k \in Keys : <<b, k>> \in Objects /\ data[<<b, k>>] = ABSENT /\ meta[<<b, k>>] = ABSENT
      BY <1>1, <2>1, Bare DEF Objects
    <3> QED BY <3>1, NotADocument, Distinct DEF Visible, ValueAssumption
  <2>5. Atomic!Held(b) = {}
    BY <2>4 DEF Atomic!Held
  <2>6. b \in bkts
    BY <1>1, <2>2
  <2> QED BY <1>2, <1>3, <1>4, <2>2, <2>3, <2>5, <2>6 DEF Atomic!Perform
<1> QED BY <1>6, <1>7

LEMMA Announcing ==
  ASSUME AInv, NEW r \in Requests, Emit(r)
  PROVE  Atomic!Announce(r)
<1>0. TypeInv /\ Step(r) /\ pc[r] = "emit"
  BY DEF AInv, IInv, Step, Emit
<1>1. pc'[r] = "done" /\ UNCHANGED <<dirs, data, meta, req>>
  BY <1>0, FinishCounters DEF Emit, fs
<1>2. /\ [x \in Requests |-> Status(x)][r] = "performed"
      /\ [x \in Requests |-> Status(x)]' = [[x \in Requests |-> Status(x)] EXCEPT ![r] = "done"]
  BY <1>0, <1>1, StatusMoved DEF Status, Moved
<1>3. [o \in Objects |-> Visible(o)]' = [o \in Objects |-> Visible(o)]
  BY <1>1, FilesSame DEF VisibleSame
<1>4. {b \in Buckets : Exists(b)}' = {b \in Buckets : Exists(b)}
  BY <1>1 DEF Exists
<1>5. Atomic!Answer(r, Plain("Ok"))
  BY <1>2 DEF Emit, Finish, Atomic!Answer
<1>6. Atomic!Plain("Ok") = Plain("Ok") /\ Atomic!Event(req[r]) = Event(req[r])
  BY SameTerms
<1>7. events' = Append(events, Event(req[r]))
  BY DEF Emit
<1> QED BY <1>1, <1>2, <1>3, <1>4, <1>5, <1>6, <1>7, Zenon DEF Atomic!Announce

LEMMA Invoking ==
  ASSUME AInv, Alone, NEW r \in Requests, Start(r)
  PROVE  Atomic!Invoke(r)
<1>0. TypeInv /\ pc[r] = "idle" /\ UNCHANGED <<dirs, data, meta, info, events>>
  BY DEF AInv, IInv, Start, fs
<1> DEFINE stats == [x \in Requests |-> Status(x)]
<1>1. PICK q \in Request :
        /\ WellFormed(q) /\ req' = [req EXCEPT ![r] = q]
        /\ \A s \in Requests : InFlight(s) => ~Conflict(q, req[s])
        /\ LET here == q.kind = "cleanup" \/ Exists(Source(q)[1])
               refused == IF q.kind = "create_bucket" THEN here ELSE ~here
           IN IF refused
              THEN Finish(r, Plain(IF here THEN "BucketAlreadyExists" ELSE "NoSuchBucket"))
              ELSE Go(r, Entry(q.kind)) /\ UNCHANGED reply
  BY DEF Start
<1>2. q.kind # "cleanup" /\ q.bucket \in Buckets
  BY <1>1 DEF Alone, Careful, WellFormed, Request
<1>3. /\ [o \in Objects |-> Visible(o)]' = [o \in Objects |-> Visible(o)]
      /\ {b \in Buckets : Exists(b)}' = {b \in Buckets : Exists(b)}
  BY <1>0, FilesSame DEF VisibleSame, Exists
<1>4. stats[r] = "idle" /\ Moved(r)
  BY <1>0, StatusMoved DEF Status
<1>5. ASSUME NEW s \in Requests, Atomic!Active(s) PROVE ~Atomic!Conflict(q, req[s])
  <2>1. Course(s)
    BY DEF AInv
  <2>2. InFlight(s)
    BY <1>5, <2>1 DEF Atomic!Active, Status, InFlight, Course
  <2> QED BY <1>1, <2>2, SameTerms
<1>6. \/ stats' = [stats EXCEPT ![r] = "working"] /\ UNCHANGED reply
      \/ \E code \in Atomic!Codes : Atomic!Refused(q, code) /\ Atomic!Answer(r, Atomic!Plain(code))
  <2>1. ASSUME NEW code \in Codes, Finish(r, Plain(code))
        PROVE  Atomic!Answer(r, Atomic!Plain(code)) /\ code \in Atomic!Codes
    <3>1. Status(r)' = "done"
      BY <1>0, <2>1, FinishCounters DEF Status
    <3> QED BY <1>4, <2>1, <3>1, SameTerms DEF Moved, Finish, Atomic!Answer
  <2>2. CASE q.kind = "create_bucket" /\ Exists(Source(q)[1])
    <3>1. Finish(r, Plain("BucketAlreadyExists"))
      BY <1>1, <2>2
    <3>2. Source(q)[1] = q.bucket
      BY <2>2 DEF Source, Obj
    <3>3. Atomic!Refused(q, "BucketAlreadyExists")
      BY <1>2, <2>2, <3>2 DEF Atomic!Refused
    <3> QED BY <2>1, <3>1, <3>3 DEF Codes
  <2>3. CASE q.kind # "create_bucket" /\ ~Exists(Source(q)[1])
    <3>1. Finish(r, Plain("NoSuchBucket"))
      BY <1>1, <1>2, <2>3
    <3>2. Atomic!Refused(q, "NoSuchBucket")
      BY <2>3, SameTerms DEF Atomic!Refused
    <3> QED BY <2>1, <3>1, <3>2 DEF Codes
  <2>4. CASE q.kind = "create_bucket" <=> ~Exists(Source(q)[1])
    <3>1. Go(r, Entry(q.kind)) /\ UNCHANGED reply
      BY <1>1, <1>2, <2>4
    <3>2. Entry(q.kind) \in {"is_file", "make_parent", "rm_data", "make_bucket", "scan"}
      BY <1>2 DEF Entry, Request, Kinds
    <3>3. Status(r)' = "working"
      BY <1>0, <3>1, <3>2, GoCounters DEF Status
    <3> QED BY <1>4, <3>1, <3>3 DEF Moved
  <2> QED BY <2>2, <2>3, <2>4
<1>7. q \in Atomic!Request /\ Atomic!WellFormed(q)
  BY <1>1, SameTerms
<1>8. UNCHANGED <<{b \in Buckets : Exists(b)}, [o \in Objects |-> Visible(o)], events>>
  BY <1>0, <1>3
<1> QED BY <1>1, <1>4, <1>5, <1>6, <1>7, <1>8, Zenon DEF Atomic!Invoke

LEMMA AtomicInit == Init => Atomic!Init
<1> SUFFICES ASSUME Init PROVE Atomic!Init
  OBVIOUS
<1>1. PICK B \in SUBSET Buckets, held \in [Objects -> Values \cup {ABSENT}] :
        /\ \A o \in Objects : held[o] # ABSENT => o[1] \in B
        /\ data = held
        /\ meta = [o \in Objects |->
                     IF held[o] = ABSENT THEN ABSENT ELSE Describes(held[o])]
        /\ dirs = (B \X {"data", "meta"} \X {ROOT})
                    \cup UNION {DataPath(o[1], o[2]) \cup MetaPath(o[1], o[2]) :
                                  o \in {x \in Objects : held[x] # ABSENT}}
  BY DEF Init
<1>2. \A o \in Objects : Visible(o) = held[o]
  <2>1. ASSUME NEW o \in Objects PROVE Visible(o) = held[o]
    <3>1. Consistent(o) /\ data[o] = held[o]
      BY <1>1 DEF Consistent
    <3> QED BY <3>1, TypeInit, Documented
  <2> QED BY <2>1
<1>3. ASSUME NEW o \in Objects, held[o] # ABSENT PROVE o[1] \in Buckets /\ Exists(o[1])
  <2>1. o[1] \in B
    BY <1>1, <1>3
  <2>2. <<o[1], "data", ROOT>> \in B \X {"data", "meta"} \X {ROOT}
    BY <2>1
  <2> QED BY <1>1, <2>1, <2>2 DEF Exists
<1>4. [o \in Objects |-> Visible(o)] = held
  BY <1>2
<1>5. {b \in Buckets : Exists(b)} \in SUBSET Buckets
  OBVIOUS
<1>6. [r \in Requests |-> Status(r)] = [r \in Requests |-> "idle"]
  <2>1. \A r \in Requests : pc[r] = "idle"
    BY Zenon DEF Init
  <2> QED BY <2>1 DEF Status
<1>7. req = [r \in Requests |-> Atomic!NoRequest] /\ reply = [r \in Requests |-> Atomic!Plain("")]
      /\ events = <<>>
  BY SameTerms, Zenon DEF Init
<1>8. \A o \in Objects : held[o] # ABSENT => o[1] \in {b \in Buckets : Exists(b)}
  BY <1>3
<1>9. [o \in Objects |-> Visible(o)] \in [Atomic!Objects -> Values \cup {ABSENT}]
  BY <1>1, <1>4, SameTerms
<1>10. \A o \in Atomic!Objects : [p \in Objects |-> Visible(p)][o] # ABSENT
                                   => o[1] \in {b \in Buckets : Exists(b)}
  BY <1>4, <1>8, SameTerms
<1> QED BY <1>5, <1>6, <1>7, <1>9, <1>10, Zenon DEF Atomic!Init

LEMMA AtomicStep ==
  ASSUME AInv, Alone, [Next]_vars
  PROVE  Atomic!Next \/ UNCHANGED Atomic!vars
<1>1. CASE UNCHANGED vars
  <2>1. /\ [x \in Requests |-> Status(x)]' = [x \in Requests |-> Status(x)]
        /\ [o \in Objects |-> Visible(o)]' = [o \in Objects |-> Visible(o)]
        /\ {b \in Buckets : Exists(b)}' = {b \in Buckets : Exists(b)}
    BY <1>1 DEF vars, Status, Visible, Exists
  <2> QED BY <1>1, <2>1 DEF vars, Atomic!vars
<1>2. ASSUME NEW r \in Requests, Start(r) PROVE Atomic!Next
  BY <1>2, Invoking DEF Atomic!Next
<1>3. ASSUME NEW r \in Requests, Step(r), ~Sweep(r), ~RemoveOrphan(r)
      PROVE  Atomic!Next \/ UNCHANGED Atomic!vars
  <2>0. AInv' /\ TypeInv /\ Course(r)
    BY AInvStep DEF AInv, IInv
  <2>1. CASE \/ MakeParent(r) \/ WriteData(r) \/ MakeMetaDir(r) \/ WriteMeta(r)
             \/ RemoveData(r) \/ RemoveParent(r)
    BY <2>0, <2>1, UnseenPut
  <2>2. CASE OpenData(r)
    <3>1. CASE pc'[r] = "done"
      BY <2>2, <3>1, Refusing DEF Atomic!Next
    <3>2. CASE pc'[r] # "done"
      <4>1. /\ data' = [data EXCEPT ![Obj(req[r])] = EMPTY] /\ pc'[r] = "write_data"
            /\ UNCHANGED <<reply, events>>
        BY <2>0, <2>2, <3>2, GoCounters, FinishCounters DEF OpenData, Fail
      <4> QED BY <2>0, <2>2, <4>1, UnseenPut
    <3> QED BY <3>1, <3>2
  <2>3. CASE OpenMeta(r)
    BY <2>3, PerformsWrite, Refusing DEF Atomic!Next
  <2>4. CASE IsFile(r) \/ ReadData(r) \/ CheckDst(r) \/ WriteInfo(r) \/ Scan(r)
    BY <2>4, UnseenOther, Refusing DEF Atomic!Next
  <2>5. CASE ReadMeta(r)
    BY <2>5, UnseenOther, Reading DEF Atomic!Next
  <2>6. CASE MakeMetaRoot(r) \/ NoticeEntry(r) \/ RemoveEntry(r)
    <3>1. pc'[r] # "done"
      BY <2>0, <2>6, GoCounters DEF MakeMetaRoot, NoticeEntry, RemoveEntry
    <3> QED BY <2>6, <3>1, UnseenOther
  <2>7. CASE RemoveMeta(r) \/ MakeBucket(r)
    BY <2>7, PerformsWrite, PerformsBucket DEF Atomic!Next
  <2>8. CASE RemoveBucketDir(r)
    BY <2>8, PerformsBucket, Refusing DEF Atomic!Next
  <2>9. CASE Emit(r)
    BY <2>9, Announcing DEF Atomic!Next
  <2> QED BY <1>3, <2>1, <2>2, <2>3, <2>4, <2>5, <2>6, <2>7, <2>8, <2>9 DEF Step
<1> QED BY <1>1, <1>2, <1>3, NoFaults DEF AInv, IInv

(* The refinement: for clients that overlap nothing on one object or       *)
(* bucket, the store with two files to an object, with its directories     *)
(* made, climbed and removed one call at a time, implements the atomic     *)
(* store, with the answers, the refusals and the order of the events       *)
(* (storage/mod.rs, s3/object.rs, s3/bucket.rs).                           *)
THEOREM AtomicCorrect ==
  ASSUME Alone
  PROVE  Spec => ImplementsAtomicStore
<1>1. Init => AInv /\ Atomic!Init
  BY AInvInit, AtomicInit
<1>2. AInv /\ [Next]_vars => AInv'
  BY AInvStep
<1>3. AInv /\ [Next]_vars => [Atomic!Next]_(Atomic!vars)
  BY AtomicStep
<1> QED BY <1>1, <1>2, <1>3, PTL DEF Spec, ImplementsAtomicStore, Atomic!Spec

-----------------------------------------------------------------------------
(* What a request that did not get to its end leaves behind.               *)

(* A request has no answer before its end.                                 *)
Untold == \A r \in Requests : pc[r] = "idle" \/ InFlight(r) => reply[r].code = ""

(* A file that is open for writing is there.                               *)
LEMMA SettledOpened == IInv => Opened
<1>1. EMPTY # ABSENT
  BY Distinct DEF ValueAssumption
<1> QED BY <1>1 DEF IInv, InProgress, Opened

LEMMA UntoldInit == Init => Untold
<1> SUFFICES ASSUME Init PROVE Untold
  OBVIOUS
<1>1. reply = [r \in Requests |-> Plain("")]
  BY Zenon DEF Init
<1>2. Plain("").code = ""
  BY Zenon DEF Plain
<1> QED BY <1>1, <1>2, Zenon DEF Untold

(* Who steps is not at its end, and answers only where it ends.            *)
LEMMA Answers ==
  ASSUME TypeInv, NEW r \in Requests, Start(r) \/ Step(r) \/ WriteError(r) \/ Abandon(r)
  PROVE  /\ pc[r] = "idle" \/ InFlight(r)
         /\ Start(r) \/ (InFlight(r) /\ req' = req)
         /\ reply'[r] = reply[r] \/ pc'[r] = "done"
<1>1. CASE Start(r)
  BY <1>1, FinishCounters DEF Start
<1>2. CASE WriteError(r)
  BY <1>2, FinishCounters DEF WriteError, Fail, InFlight
<1>3. CASE Abandon(r)
  BY <1>3 DEF Abandon
<1>4. CASE \/ MakeParent(r) \/ WriteData(r) \/ MakeMetaDir(r) \/ WriteMeta(r) \/ RemoveData(r)
           \/ RemoveMeta(r) \/ RemoveParent(r) \/ MakeBucket(r) \/ MakeMetaRoot(r)
           \/ NoticeEntry(r) \/ RemoveEntry(r) \/ RemoveOrphan(r)
  BY <1>4 DEF MakeParent, WriteData, MakeMetaDir, WriteMeta, RemoveData, RemoveMeta, RemoveParent,
              MakeBucket, MakeMetaRoot, NoticeEntry, RemoveEntry, RemoveOrphan, InFlight
<1>5. CASE \/ OpenData(r) \/ OpenMeta(r) \/ Emit(r) \/ IsFile(r) \/ ReadData(r) \/ ReadMeta(r)
           \/ CheckDst(r) \/ WriteInfo(r) \/ Scan(r) \/ RemoveBucketDir(r) \/ Sweep(r)
  BY <1>5, FinishCounters DEF OpenData, OpenMeta, Emit, IsFile, ReadData, ReadMeta, CheckDst,
              WriteInfo, Scan, RemoveBucketDir, Sweep, Fail, InFlight
<1> QED BY <1>1, <1>2, <1>3, <1>4, <1>5 DEF Step

LEMMA UntoldStep ==
  ASSUME IInv, Untold, [Next]_vars
  PROVE  Untold'
<1>0. TypeInv /\ Opened
  BY SettledOpened DEF IInv
<1>1. CASE UNCHANGED vars
  BY <1>1 DEF vars, Untold, InFlight
<1>2. CASE Crash
  BY <1>2 DEF Crash, Untold, InFlight
<1>3. ASSUME NEW r \in Requests, Start(r) \/ Step(r) \/ WriteError(r) \/ Abandon(r) PROVE Untold'
  <2>1. \A x \in Requests \ {r} : pc'[x] = pc[x] /\ reply'[x] = reply[x]
    BY <1>0, <1>3, OthersOpen
  <2>2. /\ pc[r] = "idle" \/ InFlight(r)
        /\ reply'[r] = reply[r] \/ pc'[r] = "done"
    BY <1>0, <1>3, Answers
  <2> QED BY <2>1, <2>2 DEF Untold, InFlight
<1> QED BY <1>1, <1>2, <1>3 DEF Next

(* A request asks for nothing, or for something a client may ask.          *)
Formed == \A r \in Requests : req[r] = NoRequest \/ WellFormed(req[r])

LEMMA FormedStep ==
  ASSUME IInv, Formed, [Next]_vars
  PROVE  Formed'
<1>0. TypeInv
  BY DEF IInv
<1>1. CASE UNCHANGED vars
  BY <1>1 DEF vars, Formed
<1>2. CASE Crash
  BY <1>2 DEF Crash, Formed
<1>3. ASSUME NEW r \in Requests, Start(r) PROVE Formed'
  BY <1>0, <1>3 DEF Start, Formed, TypeInv, TypeOK
<1>4. ASSUME NEW r \in Requests, Step(r) \/ WriteError(r) \/ Abandon(r) PROVE Formed'
  <2>1. CASE req' = req
    BY <2>1 DEF Formed
  <2>2. CASE Start(r)
    BY <1>3, <2>2
  <2> QED BY <1>0, <1>4, <2>1, <2>2, Answers
<1> QED BY <1>1, <1>2, <1>3, <1>4 DEF Next

(* The removal of a bucket finds no object in it, and takes at most        *)
(* metadata that describes nothing.                                        *)
LEMMA RemovalLeaves ==
  ASSUME IInv, Careful, NEW r \in Requests, RemoveEntry(r)
  PROVE  /\ data' = data /\ req[r].kind = "delete_bucket"
         /\ \A o \in Objects : \/ meta'[o] = meta[o]
                               \/ o[1] = req[r].bucket /\ data[o] = ABSENT /\ meta'[o] = ABSENT
<1> DEFINE b == req[r].bucket
<1>1. /\ pc[r] = "rm_bucket" /\ req[r].kind = "delete_bucket" /\ b \in Buckets
      /\ \A k \in Keys : data[<<b, k>>] = ABSENT
  BY Named DEF RemoveEntry, IInv, InProgress, TypeInv, Program, DropPCs
<1>2. PICK e \in Within(b) :
        \/ UNCHANGED <<data, meta>>
        \/ e[3] \in Keys /\ e[2] = "data"
        \/ e[3] \in Keys /\ e[2] = "meta" /\ Unname(<<e[1], e[3]>>) /\ UNCHANGED data
  BY DEF RemoveEntry
<1>3. e = <<b, e[2], e[3]>> /\ ~(e[3] \in Keys /\ e[2] = "data")
  BY <1>1, WithinBucket DEF IInv
<1>4. e[1] = b
  BY <1>3
<1>5. data' = data
  BY <1>2, <1>3
<1>6. ASSUME NEW o \in Objects, meta'[o] # meta[o]
      PROVE  o[1] = b /\ data[o] = ABSENT /\ meta'[o] = ABSENT
  <2>1. meta' = [meta EXCEPT ![<<e[1], e[3]>>] = ABSENT]
    BY <1>2, <1>3, <1>6 DEF Unname
  <2>2. o = <<b, e[3]>> /\ o[2] \in Keys /\ o = <<o[1], o[2]>> /\ meta'[o] = ABSENT
    BY <1>4, <1>6, <2>1 DEF Objects, IInv, TypeInv, TypeOK
  <2> QED BY <1>1, <2>2
<1> QED BY <1>1, <1>5, <1>6

(* A step changes the files of one object, of which it is a writer.        *)
LEMMA OwnFiles ==
  ASSUME IInv, Careful, NEW r \in Requests, Start(r) \/ Step(r) \/ WriteError(r) \/ Abandon(r),
         NEW o \in Objects, ~(InFlight(r) /\ req[r].kind \in Writers /\ Obj(req[r]) = o)
  PROVE  /\ data'[o] = data[o]
         /\ \/ meta'[o] = meta[o]
            \/ data[o] = ABSENT /\ meta'[o] = ABSENT
<1>0. TypeInv /\ Program(r) /\ unlinked = {}
  BY DEF IInv, TypeInv
<1>1. CASE OpenData(r) \/ WriteData(r) \/ OpenMeta(r) \/ WriteMeta(r) \/ RemoveData(r) \/ RemoveMeta(r)
  <2>1. Obj(req[r]) # o
    BY <1>0, <1>1 DEF OpenData, WriteData, OpenMeta, WriteMeta, RemoveData, RemoveMeta, Program,
                      PutPCs, DeletePCs, InFlight, Writers
  <2> QED BY <1>0, <1>1, <2>1 DEF OpenData, WriteData, OpenMeta, WriteMeta, RemoveData, RemoveMeta,
                      Unname, TypeInv, TypeOK
<1>2. CASE WriteError(r)
  <2>1. pc[r] \in {"write_data", "write_meta"} => Obj(req[r]) # o
    BY <1>0, <1>2 DEF Program, PutPCs, InFlight, Writers
  <2> QED BY <1>0, <1>2, <2>1 DEF WriteError, TypeInv, TypeOK
<1>3. CASE RemoveEntry(r)
  BY <1>3, RemovalLeaves
<1>4. CASE RemoveOrphan(r)
  <2>1. req[r].kind = "cleanup" /\ WellFormed(req[r])
    BY <1>0, <1>4 DEF RemoveOrphan, Program, InFlight, SweepPCs
  <2> QED BY <2>1 DEF WellFormed, Careful
<1>5. CASE \/ Start(r) \/ Abandon(r) \/ MakeParent(r) \/ MakeMetaDir(r) \/ Emit(r) \/ IsFile(r)
           \/ ReadData(r) \/ ReadMeta(r) \/ CheckDst(r) \/ RemoveParent(r) \/ MakeBucket(r)
           \/ MakeMetaRoot(r) \/ WriteInfo(r) \/ Scan(r) \/ NoticeEntry(r) \/ RemoveBucketDir(r)
           \/ Sweep(r)
  BY <1>5 DEF Start, Abandon, MakeParent, MakeMetaDir, Emit, IsFile, ReadData, ReadMeta, CheckDst,
       RemoveParent, MakeBucket, MakeMetaRoot, WriteInfo, Scan, NoticeEntry, RemoveBucketDir, Sweep, fs
<1> QED BY <1>1, <1>2, <1>3, <1>4, <1>5 DEF Step

(* Where a writer goes from between the two files, and what it touches     *)
(* before and after.                                                       *)
LEMMA WritersWay ==
  ASSUME IInv, IInv', Careful, NEW r \in Requests, Step(r) \/ WriteError(r) \/ Abandon(r),
         InFlight(r), req[r].kind \in Writers, pc'[r] \notin HalfPCs, ~Broken(r)'
  PROVE  LET o == Obj(req[r]) IN
           IF pc[r] \in HalfPCs THEN Consistent(o)' ELSE data'[o] = data[o] /\ meta'[o] = meta[o]
<1> DEFINE o == Obj(req[r])
<1>0. TypeInv /\ Program(r) /\ o \in Objects /\ InProgress(r)' /\ reply \in [Requests -> Reply]
  BY Touching DEF IInv, TypeInv, TypeOK
<1>1. ~Fail(r, "InternalError")
  <2>1. Plain("InternalError").code = "InternalError"
    BY DEF Plain
  <2> QED BY <1>0, <2>1, Zenon DEF Fail, Finish, Broken
<1>2. ~WriteError(r) /\ ~Abandon(r)
  BY <1>0, <1>1, GoCounters DEF WriteError, Abandon, Broken
<1>3. CASE pc[r] \in HalfPCs
  <2> USE DEF HalfPCs
  <2>1. ~(WriteData(r) \/ MakeMetaDir(r) \/ OpenMeta(r))
    BY <1>0, <1>1, GoCounters DEF WriteData, MakeMetaDir, OpenMeta
  <2>2. CASE WriteMeta(r)
    <3>1. pc'[r] = "emit" /\ req' = req /\ req[r].kind \in {"put", "copy"}
      BY <1>0, <2>2, GoCounters DEF WriteMeta, Program, PutPCs
    <3> QED BY <1>0, <1>3, <3>1 DEF InProgress, Consistent
  <2>3. CASE RemoveMeta(r)
    <3>1. pc'[r] = "rm_parent" /\ req' = req
      BY <1>0, <2>3, GoCounters DEF RemoveMeta
    <3> QED BY <1>0, <1>3, <3>1 DEF InProgress, Consistent
  <2> QED BY <1>2, <1>3, <2>1, <2>2, <2>3 DEF Step, MakeParent, OpenData, Emit, IsFile, ReadData,
             ReadMeta, CheckDst, RemoveData, RemoveParent, MakeBucket, MakeMetaRoot, WriteInfo,
             Scan, NoticeEntry, RemoveEntry, RemoveBucketDir, Sweep, RemoveOrphan
<1>4. CASE pc[r] \notin HalfPCs
  <2>1. ~RemoveData(r) /\ ~OpenData(r)
    BY <1>0, <1>1, GoCounters DEF RemoveData, OpenData, HalfPCs
  <2>2. ~(WriteData(r) \/ OpenMeta(r) \/ WriteMeta(r) \/ RemoveMeta(r))
    BY <1>4 DEF WriteData, OpenMeta, WriteMeta, RemoveMeta, HalfPCs
  <2>3. ~RemoveEntry(r) /\ ~RemoveOrphan(r)
    BY <1>0 DEF RemoveEntry, RemoveOrphan, Program, DropPCs, SweepPCs, Writers
  <2> QED BY <1>2, <1>4, <2>1, <2>2, <2>3 DEF Step, MakeParent, MakeMetaDir, Emit, IsFile,
             ReadData, ReadMeta, CheckDst, RemoveParent, MakeBucket, MakeMetaRoot, WriteInfo,
             Scan, NoticeEntry, RemoveBucketDir, Sweep, fs
<1> QED BY <1>3, <1>4

LEMMA MismatchStep ==
  ASSUME IInv, IInv', Untold, Careful, MismatchExplained, [Next]_vars
  PROVE  MismatchExplained'
<1> SUFFICES ASSUME NEW o \in Objects
             PROVE  Consistent(o)' \/ Half(o)'
                      \/ \E x \in Requests : req'[x].kind \in Writers /\ Obj(req'[x]) = o /\ Broken(x)'
  BY DEF MismatchExplained, Obj
<1>0. TypeInv /\ Opened /\ unlinked = {}
  BY SettledOpened DEF IInv
<1>a. Consistent(o) \/ Half(o)
        \/ \E x \in Requests : req[x].kind \in Writers /\ Obj(req[x]) = o /\ Broken(x)
  BY DEF MismatchExplained
<1>1. CASE UNCHANGED vars
  BY <1>a, <1>1 DEF vars, Consistent, Half, Broken
<1>2. CASE Crash
  <2>1. /\ req' = req /\ reply' = reply
        /\ pc' = [r \in Requests |-> IF InFlight(r) THEN "lost" ELSE pc[r]]
    BY <1>2 DEF Crash
  <2>2. PICK torn \in SUBSET {r \in Requests \ unlinked : pc[r] \in {"write_data", "write_meta"}} :
          LET Torn(u, p) == \E r \in torn : pc[r] = p /\ Obj(req[r]) = u IN
          /\ data' = [u \in Objects |-> IF Torn(u, "write_data") THEN MANGLED ELSE data[u]]
          /\ meta' = [u \in Objects |-> IF Torn(u, "write_meta") THEN MANGLED ELSE meta[u]]
    BY <1>2 DEF Crash
  <2>3. \A x \in Requests : pc[x] \in HalfPCs => req[x].kind \in Writers /\ pc'[x] = "lost"
    BY <1>0, <2>1, HalfWriter
  <2>4. \A x \in torn : pc[x] \in HalfPCs
    BY <2>2 DEF HalfPCs
  <2>5. ASSUME NEW x \in Requests, pc[x] \in HalfPCs, Obj(req[x]) = o
        PROVE  req'[x].kind \in Writers /\ Obj(req'[x]) = o /\ Broken(x)'
    BY <2>1, <2>3, <2>5 DEF Broken
  <2>6. CASE \E x \in torn : Obj(req[x]) = o
    BY <2>2, <2>4, <2>5, <2>6
  <2>7. CASE ~\E x \in torn : Obj(req[x]) = o
    <3>1. data'[o] = data[o] /\ meta'[o] = meta[o]
      BY <2>2, <2>7
    <3>2. ASSUME NEW x \in Requests, Broken(x) PROVE Broken(x)'
      BY <2>1, <3>2 DEF Broken, InFlight
    <3> QED BY <1>a, <2>1, <2>5, <3>1, <3>2 DEF Consistent, Half
  <2> QED BY <2>6, <2>7
<1>3. ASSUME NEW r \in Requests, Start(r) \/ Step(r) \/ WriteError(r) \/ Abandon(r)
      PROVE  Consistent(o)' \/ Half(o)'
               \/ \E x \in Requests : req'[x].kind \in Writers /\ Obj(req'[x]) = o /\ Broken(x)'
  <2>1. \A x \in Requests \ {r} : pc'[x] = pc[x] /\ req'[x] = req[x] /\ reply'[x] = reply[x]
    BY <1>0, <1>3, OthersOpen
  <2>2. /\ pc[r] = "idle" \/ InFlight(r)
        /\ Start(r) \/ (InFlight(r) /\ req' = req)
    BY <1>0, <1>3, Answers
  <2>3. ~Broken(r)
    BY <2>2 DEF Broken, Untold, InFlight
  <2>4. ASSUME NEW x \in Requests, x # r, Broken(x), req[x].kind \in Writers, Obj(req[x]) = o
        PROVE  req'[x].kind \in Writers /\ Obj(req'[x]) = o /\ Broken(x)'
    BY <2>1, <2>4 DEF Broken, Obj
  <2>5. ASSUME NEW x \in Requests, x # r, pc[x] \in HalfPCs, Obj(req[x]) = o
        PROVE  Half(o)'
    BY <2>1, <2>5 DEF Half, Obj
  <2>6. CASE ~(InFlight(r) /\ req[r].kind \in Writers /\ Obj(req[r]) = o)
    <3>1. Consistent(o) => Consistent(o)'
      BY <1>3, <2>6, OwnFiles DEF Consistent
    <3>2. ~(pc[r] \in HalfPCs /\ Obj(req[r]) = o)
      BY <1>0, <2>6, HalfWriter
    <3> QED BY <1>a, <2>3, <2>4, <2>5, <3>1, <3>2 DEF Half
  <2>7. CASE InFlight(r) /\ req[r].kind \in Writers /\ Obj(req[r]) = o
    <3>1. req' = req /\ ~Start(r)
      BY <2>2, <2>7 DEF Start, InFlight
    <3>2. CASE pc'[r] \in HalfPCs
      BY <2>7, <3>1, <3>2 DEF Half
    <3>3. CASE Broken(r)'
      BY <2>7, <3>1, <3>3
    <3>4. CASE pc'[r] \notin HalfPCs /\ ~Broken(r)'
      <4>1. CASE pc[r] \in HalfPCs
        BY <1>3, <2>7, <3>1, <3>4, <4>1, WritersWay
      <4>2. CASE pc[r] \notin HalfPCs
        <5>1. data'[o] = data[o] /\ meta'[o] = meta[o]
          BY <1>3, <2>7, <3>1, <3>4, <4>2, WritersWay
        <5> QED BY <1>a, <2>3, <2>4, <2>5, <4>2, <5>1 DEF Half, Consistent
      <4> QED BY <4>1, <4>2
    <3> QED BY <3>2, <3>3, <3>4
  <2> QED BY <2>6, <2>7
<1> QED BY <1>1, <1>2, <1>3 DEF Next

-----------------------------------------------------------------------------
(* Buckets and their bucket.json.                                          *)

(* A put or copy under way has its bucket.                                 *)
Based == \A r \in Requests : pc[r] \in PutPCs => Exists(req[r].bucket)

(* Which buckets and documents of buckets a step makes or removes.         *)
LEMMA Founding ==
  ASSUME TypeInv, NEW r \in Requests, Start(r) \/ Step(r) \/ WriteError(r) \/ Abandon(r),
         NEW b \in Buckets
  PROVE  /\ Exists(b) /\ ~Exists(b)' =>
              RemoveBucketDir(r) /\ pc[r] = "rm_bucket" /\ pc'[r] = "emit" /\ req[r].bucket = b
         /\ ~Exists(b) /\ Exists(b)' =>
              /\ req[r].bucket = b
              /\ \/ pc[r] = "make_bucket" /\ pc'[r] = "make_meta_root"
                 \/ pc[r] = "make_meta_root" /\ pc'[r] = "write_info"
                 \/ pc[r] \in PutPCs
         /\ b \in info /\ b \notin info' => pc[r] = "rm_bucket" /\ pc'[r] = "rm_bucket" /\ req[r].bucket = b
<1>0. /\ dirs \subseteq Buckets \X {"data", "meta"} \X (Dirs \cup {ROOT}) /\ info \subseteq Buckets
      /\ pc \in [Requests -> PCs] /\ ROOT \notin Dirs
  BY Paths DEF TypeInv, TypeOK, PathAssumption
<1>1. CASE MakeParent(r) \/ MakeMetaDir(r)
  BY <1>0, <1>1 DEF MakeParent, MakeMetaDir, DataPath, MetaPath, Exists, PutPCs
<1>2. CASE MakeBucket(r) \/ MakeMetaRoot(r)
  BY <1>0, <1>2, GoCounters DEF MakeBucket, MakeMetaRoot, Exists
<1>3. CASE WriteInfo(r)
  BY <1>0, <1>3 DEF WriteInfo, Exists
<1>4. CASE RemoveEntry(r)
  BY <1>0, <1>4 DEF RemoveEntry, Exists, Within
<1>5. CASE RemoveBucketDir(r)
  BY <1>0, <1>5, GoCounters DEF RemoveBucketDir, Exists
<1>6. CASE RemoveParent(r)
  BY <1>0, <1>6 DEF RemoveParent, Exists
<1>7. CASE Sweep(r)
  BY <1>0, <1>7 DEF Sweep, Exists
<1>8. CASE \/ Start(r) \/ WriteError(r) \/ Abandon(r) \/ OpenData(r) \/ WriteData(r) \/ OpenMeta(r)
           \/ WriteMeta(r) \/ Emit(r) \/ IsFile(r) \/ ReadData(r) \/ ReadMeta(r) \/ CheckDst(r)
           \/ RemoveData(r) \/ RemoveMeta(r) \/ Scan(r) \/ NoticeEntry(r) \/ RemoveOrphan(r)
  BY <1>8 DEF Start, WriteError, Abandon, OpenData, WriteData, OpenMeta, WriteMeta, Emit, IsFile,
       ReadData, ReadMeta, CheckDst, RemoveData, RemoveMeta, Scan, NoticeEntry, RemoveOrphan, Exists, fs
<1> QED BY <1>1, <1>2, <1>3, <1>4, <1>5, <1>6, <1>7, <1>8 DEF Step

LEMMA BasedStep ==
  ASSUME IInv, Careful, Based, [Next]_vars
  PROVE  Based'
<1>0. TypeInv /\ Opened
  BY SettledOpened DEF IInv
<1>1. CASE UNCHANGED vars
  BY <1>1 DEF vars, Based, Exists
<1>2. CASE Crash
  BY <1>2 DEF Crash, Based, Exists, PutPCs
<1>3. ASSUME NEW r \in Requests, Start(r) \/ Step(r) \/ WriteError(r) \/ Abandon(r) PROVE Based'
  <2>1. \A x \in Requests \ {r} : pc'[x] = pc[x] /\ req'[x] = req[x]
    BY <1>0, <1>3, OthersOpen
  <2>2. ASSUME NEW x \in Requests \ {r}, pc[x] \in PutPCs
        PROVE  <<req[x].bucket, "data", ROOT>> \in dirs'
    <3>1. /\ Exists(req[x].bucket) /\ req[x].bucket \in Buckets /\ req[x].key \in Keys
          /\ InFlight(x) /\ req[x].kind \in Writers
      BY <1>0, <2>2, Named DEF Based, TypeInv, Program, PutPCs, InFlight, Writers
    <3>2. ASSUME pc[r] = "rm_bucket", req[r].bucket = req[x].bucket PROVE FALSE
      <4>1. InFlight(r) /\ req[r].kind = "delete_bucket"
        BY <1>0, <3>2 DEF TypeInv, Program, DropPCs, InFlight
      <4>2. Obj(req[x]) \in Touches(req[r]) \cap Touches(req[x])
        BY <1>0, <3>1, <3>2, <4>1, Touching DEF Obj
      <4> QED BY <3>1, <4>1, <4>2, Disjoint DEF IInv, Mutators
    <3>3. PICK b \in Buckets : b = req[x].bucket
      BY <3>1
    <3>4. Exists(b)'
      BY <1>0, <1>3, <3>1, <3>2, <3>3, Founding DEF Exists
    <3> QED BY <3>3, <3>4 DEF Exists
  <2>3. ASSUME pc'[r] \in PutPCs PROVE <<req'[r].bucket, "data", ROOT>> \in dirs'
    <3>1. CASE Start(r)
      <4>1. PICK q \in Request :
              /\ WellFormed(q) /\ req' = [req EXCEPT ![r] = q] /\ dirs' = dirs
              /\ \/ Exists(Source(q)[1]) /\ Go(r, Entry(q.kind))
                 \/ q.kind \in {"create_bucket", "cleanup"} /\ Go(r, Entry(q.kind))
                 \/ \E answer : Finish(r, answer)
        BY <3>1 DEF Start, fs
      <4>2. /\ Go(r, Entry(q.kind)) /\ Entry(q.kind) \in PutPCs
            /\ ~\E answer : Finish(r, answer)
        BY <1>0, <2>3, <4>1, GoCounters, FinishCounters DEF PutPCs
      <4>3. q.kind = "put" /\ req'[r] = q
        BY <1>0, <4>1, <4>2 DEF Entry, PutPCs, TypeInv, TypeOK, Request, Kinds
      <4>4. <<Source(q)[1], "data", ROOT>> \in dirs
        BY <4>1, <4>2, <4>3 DEF Exists
      <4> QED BY <4>1, <4>3, <4>4 DEF Source, Obj
    <3>2. CASE CheckDst(r)
      BY <1>0, <2>3, <3>2, FinishCounters DEF CheckDst, Fail, PutPCs, fs, Exists
    <3>3. CASE ~Start(r) /\ ~CheckDst(r)
      <4>1. pc[r] \in PutPCs /\ req' = req
        <5>1. req' = req /\ pc'[r] \notin {"done", "lost"}
          BY <1>0, <1>3, <2>3, <3>3, Answers DEF PutPCs
        <5>2. ~WriteError(r) /\ ~Abandon(r)
          BY <1>0, <5>1, GoCounters, FinishCounters DEF WriteError, Abandon, Fail
        <5>3. Step(r)
          BY <1>3, <3>3, <5>2
        <5>4. pc[r] \notin PutPCs => FALSE
          BY <1>0, <2>3, <3>3, <5>3, GoCounters, FinishCounters
             DEF Step, MakeParent, OpenData, WriteData, MakeMetaDir, OpenMeta, WriteMeta, Emit, IsFile,
                 ReadData, ReadMeta, RemoveData, RemoveMeta, RemoveParent, MakeBucket, MakeMetaRoot,
                 WriteInfo, Scan, NoticeEntry, RemoveEntry, RemoveBucketDir, Sweep, RemoveOrphan, Fail, PutPCs
        <5> QED BY <5>1, <5>4
      <4>2. Exists(req[r].bucket) /\ req[r].bucket \in Buckets
        BY <1>0, <4>1, Named DEF Based
      <4>3. pc[r] # "rm_bucket"
        BY <4>1 DEF PutPCs
      <4>4. PICK b \in Buckets : b = req[r].bucket
        BY <4>2
      <4>5. Exists(b)'
        BY <1>0, <1>3, <4>2, <4>3, <4>4, Founding DEF Exists
      <4> QED BY <4>1, <4>4, <4>5 DEF Exists
    <3> QED BY <3>1, <3>2, <3>3
  <2> QED BY <2>1, <2>2, <2>3 DEF Based, Exists
<1> QED BY <1>1, <1>2, <1>3 DEF Next

(* A request that makes or removes a bucket, or did not get to its end.    *)
Busy(x, b) ==
  /\ req[x].kind \in BucketKinds /\ req[x].bucket = b
  /\ pc[x] \in {"make_meta_root", "write_info", "rm_bucket"} \/ Broken(x)

LEMMA InfoStep ==
  ASSUME IInv, Untold, Based, Careful, InfoExplained, [Next]_vars
  PROVE  InfoExplained'
<1> SUFFICES ASSUME NEW b \in Buckets, Exists(b)', b \notin info'
             PROVE  \E x \in Requests : Busy(x, b)'
  BY DEF InfoExplained, Busy
<1>0. TypeInv /\ Opened /\ reply \in [Requests -> Reply]
  BY SettledOpened DEF IInv, TypeInv, TypeOK
<1>a. Exists(b) /\ b \notin info => \E x \in Requests : Busy(x, b)
  BY DEF InfoExplained, Busy
<1>1. CASE UNCHANGED vars
  BY <1>a, <1>1 DEF vars, Exists, Busy, Broken
<1>2. CASE Crash
  <2>1. /\ UNCHANGED <<dirs, info, req, reply>>
        /\ pc' = [r \in Requests |-> IF InFlight(r) THEN "lost" ELSE pc[r]]
    BY <1>2 DEF Crash
  <2>2. ASSUME NEW x \in Requests, Busy(x, b) PROVE Busy(x, b)'
    BY <2>1, <2>2 DEF Busy, Broken, InFlight
  <2> QED BY <1>a, <2>1, <2>2 DEF Exists
<1>3. ASSUME NEW r \in Requests, Start(r) \/ Step(r) \/ WriteError(r) \/ Abandon(r)
      PROVE  \E x \in Requests : Busy(x, b)'
  <2>1. \A x \in Requests \ {r} : pc'[x] = pc[x] /\ req'[x] = req[x] /\ reply'[x] = reply[x]
    BY <1>0, <1>3, OthersOpen
  <2>2. /\ pc[r] = "idle" \/ InFlight(r)
        /\ Start(r) \/ (InFlight(r) /\ req' = req)
    BY <1>0, <1>3, Answers
  <2>3. ~Broken(r)
    BY <2>2 DEF Broken, Untold, InFlight
  <2>4. CASE Exists(b) /\ b \notin info
    <3>1. PICK x \in Requests : Busy(x, b)
      BY <1>a, <2>4
    <3>2. CASE x # r
      BY <2>1, <3>1, <3>2 DEF Busy, Broken
    <3>3. CASE x = r
      <4>1. /\ pc[r] \in {"make_meta_root", "write_info", "rm_bucket"} /\ req[r].bucket = b
            /\ req[r].kind \in BucketKinds
        BY <2>3, <3>1, <3>3 DEF Busy
      <4>2. req' = req /\ ~Start(r)
        BY <2>2, <4>1 DEF Start, InFlight
      <4> SUFFICES ASSUME ~Broken(r)'
                   PROVE  pc'[r] \in {"make_meta_root", "write_info", "rm_bucket"}
        BY <4>1, <4>2 DEF Busy
      <4>3. ~Fail(r, "InternalError")
        <5>1. Plain("InternalError").code = "InternalError"
          BY DEF Plain
        <5> QED BY <1>0, <5>1, Zenon DEF Fail, Finish, Broken
      <4>4. ~WriteError(r) /\ ~Abandon(r)
        BY <1>0, <4>3, GoCounters DEF WriteError, Abandon, Broken
      <4>5. MakeMetaRoot(r) \/ WriteInfo(r) \/ NoticeEntry(r) \/ RemoveEntry(r) \/ RemoveBucketDir(r)
        BY <1>3, <4>1, <4>2, <4>4 DEF Step, MakeParent, OpenData, WriteData, MakeMetaDir, OpenMeta,
           WriteMeta, Emit, IsFile, ReadData, ReadMeta, CheckDst, RemoveData, RemoveMeta,
           RemoveParent, MakeBucket, Scan, Sweep, RemoveOrphan
      <4>6. ~WriteInfo(r) /\ ~RemoveBucketDir(r)
        BY <1>0, <4>1, <4>3 DEF WriteInfo, RemoveBucketDir, Exists, TypeInv, TypeOK
      <4> QED BY <1>0, <4>1, <4>5, <4>6, GoCounters DEF MakeMetaRoot, NoticeEntry, RemoveEntry
    <3> QED BY <3>2, <3>3
  <2>5. CASE ~Exists(b)
    <3>1. /\ req[r].bucket = b
          /\ \/ pc[r] = "make_bucket" /\ pc'[r] = "make_meta_root"
             \/ pc[r] = "make_meta_root" /\ pc'[r] = "write_info"
             \/ pc[r] \in PutPCs
      BY <1>0, <1>3, <2>5, Founding
    <3>2. pc[r] \notin PutPCs
      BY <2>5, <3>1 DEF Based
    <3>3. req[r].kind \in BucketKinds /\ req' = req
      BY <1>0, <2>2, <3>1, <3>2 DEF TypeInv, Program, CreatePCs, BucketKinds, InFlight, Start
    <3> QED BY <3>1, <3>2, <3>3 DEF Busy
  <2>6. CASE b \in info
    <3>1. pc[r] = "rm_bucket" /\ pc'[r] = "rm_bucket" /\ req[r].bucket = b
      BY <1>0, <1>3, <2>6, Founding
    <3>2. req[r].kind \in BucketKinds /\ req' = req
      BY <1>0, <2>2, <3>1 DEF TypeInv, Program, DropPCs, BucketKinds, InFlight, Start
    <3> QED BY <3>1, <3>2 DEF Busy
  <2> QED BY <2>4, <2>5, <2>6
<1> QED BY <1>1, <1>2, <1>3 DEF Next

EInv == IInv /\ Untold /\ Based /\ MismatchExplained /\ InfoExplained

LEMMA ExplainedInit == Init => EInv
<1> SUFFICES ASSUME Init PROVE EInv
  OBVIOUS
<1>1. IInv /\ Untold
  BY SettledInit, UntoldInit
<1>2. dirty = {} /\ \A r \in Requests : pc[r] = "idle"
  BY Zenon DEF Init
<1>3. MismatchExplained
  BY <1>1, <1>2 DEF IInv, Settled, MismatchExplained
<1>4. InfoExplained
  <2>1. PICK B \in SUBSET Buckets, held \in [Objects -> Values \cup {ABSENT}] :
          /\ \A o \in Objects : held[o] # ABSENT => o[1] \in B
          /\ info = B
          /\ dirs = (B \X {"data", "meta"} \X {ROOT})
                      \cup UNION {DataPath(o[1], o[2]) \cup MetaPath(o[1], o[2]) :
                                    o \in {x \in Objects : held[x] # ABSENT}}
    BY DEF Init
  <2>2. ASSUME NEW e \in dirs PROVE e[1] \in B
    BY <2>1, <2>2 DEF DataPath, MetaPath, Objects
  <2> QED BY <2>1, <2>2 DEF InfoExplained, Exists
<1> QED BY <1>1, <1>2, <1>3, <1>4 DEF EInv, Based, PutPCs

LEMMA ExplainedStep ==
  ASSUME EInv, Careful, [Next]_vars
  PROVE  EInv'
BY SettledStep, UntoldStep, MismatchStep, InfoStep, BasedStep DEF EInv

(* If clients overlap no put, copy, delete and delete_bucket on one object *)
(* and no sweep runs, an object whose data and metadata do not belong      *)
(* together has a writer between the two files, or one that a crash, a     *)
(* disconnect or an internal error stopped (storage/mod.rs, put_object,    *)
(* copy_object, delete_object).                                            *)
THEOREM MismatchCorrect ==
  ASSUME Careful
  PROVE  Spec => []MismatchExplained
<1>1. EInv => MismatchExplained
  BY DEF EInv
<1>2. EInv /\ [Next]_vars => EInv'
  BY ExplainedStep
<1> QED BY <1>1, <1>2, ExplainedInit, PTL DEF Spec

(* Under the same conditions, with creations of one bucket that overlap,   *)
(* a bucket that has no bucket.json is being made or removed, or such a    *)
(* request did not get to its end (storage/mod.rs, create_bucket's two     *)
(* create_dir_all and its write, delete_bucket's remove_dir_all).          *)
THEOREM InfoCorrect ==
  ASSUME Careful
  PROVE  Spec => []InfoExplained
<1>1. EInv => InfoExplained
  BY DEF EInv
<1>2. EInv /\ [Next]_vars => EInv'
  BY ExplainedStep
<1> QED BY <1>1, <1>2, ExplainedInit, PTL DEF Spec

(* Under the same conditions delete_bucket takes away the bytes of no      *)
(* object, and only metadata that an unfinished writer left without data   *)
(* (storage/mod.rs, delete_bucket's read_dir and remove_dir_all).          *)
THEOREM RemovalCorrect ==
  ASSUME Careful
  PROVE  Spec => RemovalSparesObjects
<1>1. ASSUME IInv, NEW r \in Requests, RemoveEntry(r)
      PROVE  /\ data' = data
             /\ \A o \in Objects : meta'[o] # meta[o] => data[o] = ABSENT /\ o \in dirty
  <2>1. ASSUME NEW o \in Objects \ dirty, data[o] = ABSENT PROVE meta[o] = ABSENT
    BY <1>1, <2>1 DEF IInv, Settled, Consistent
  <2> QED BY <1>1, <2>1, RemovalLeaves
<1>2. IInv => [\A r \in Requests : RemoveEntry(r) =>
                /\ data' = data
                /\ \A o \in Objects : meta'[o] # meta[o] => data[o] = ABSENT /\ o \in dirty]_vars
  BY <1>1
<1>3. IInv /\ [Next]_vars => IInv'
  BY SettledStep
<1> QED BY <1>2, <1>3, SettledInit, PTL DEF Spec, RemovalSparesObjects

(* No put, copy or delete has met a crash, a disconnect or an error.       *)
Unbroken == \A r \in Requests : req[r].kind \in Writers => ~Broken(r)

(* What README.md says of ETags, and what overlapping puts refute: for     *)
(* clients that do not overlap writes to one object, and as long as none   *)
(* of these is cut short, the ETag of every stored object is that of its   *)
(* bytes whenever nothing is in flight.                                    *)
THEOREM ETagCorrect ==
  ASSUME Careful
  PROVE  Spec /\ []Unbroken => []ETagOfObject
<1>1. EInv /\ Unbroken => ETagOfObject
  <2>1. ASSUME NEW r \in Requests, ~InFlight(r) PROVE pc[r] \notin HalfPCs
    BY <2>1 DEF InFlight, HalfPCs
  <2> QED BY <2>1 DEF EInv, MismatchExplained, Unbroken, ETagOfObject, Half, Consistent
<1>2. EInv /\ [Next]_vars => EInv'
  BY ExplainedStep
<1> QED BY <1>1, <1>2, ExplainedInit, PTL DEF Spec

(* What README.md says of DeleteBucket, and what a put beside it refutes:  *)
(* under the same conditions no file of any object goes with a bucket.     *)
THEOREM EmptyBucketsCorrect ==
  ASSUME Careful
  PROVE  Spec /\ []Unbroken => OnlyEmptyBucketsGo
<1>1. ASSUME EInv, Unbroken, NEW r \in Requests, RemoveEntry(r), NEW o \in Objects
      PROVE  data'[o] = data[o] /\ meta'[o] = meta[o]
  <2>1. IInv /\ TypeInv /\ pc[r] = "rm_bucket"
    BY <1>1 DEF EInv, IInv, RemoveEntry
  <2>2. data' = data /\ req[r].kind = "delete_bucket"
        /\ (\/ meta'[o] = meta[o]
            \/ o[1] = req[r].bucket /\ data[o] = ABSENT /\ meta'[o] = ABSENT)
    BY <1>1, <2>1, RemovalLeaves
  <2>3. ASSUME o[1] = req[r].bucket, ~Consistent(o) PROVE FALSE
    <3>1. PICK x \in Requests : pc[x] \in HalfPCs /\ Obj(req[x]) = o
      BY <1>1, <2>3 DEF EInv, MismatchExplained, Unbroken, Half
    <3>2. InFlight(x) /\ req[x].kind \in Writers /\ o \in Touches(req[x])
      BY <2>1, <3>1, HalfWriter, Touching
    <3>3. InFlight(r) /\ o \in Touches(req[r])
      BY <2>1, <2>2, <2>3, Touching DEF InFlight, Objects
    <3>4. x # r
      BY <2>2, <3>2 DEF Writers
    <3> QED BY <2>1, <2>2, <3>2, <3>3, <3>4, Disjoint DEF IInv, Mutators
  <2> QED BY <2>2, <2>3 DEF Consistent
<1>2. ASSUME IInv, Formed, NEW s \in Requests, req[s].kind = "put" PROVE Obj(req[s]) \in Objects
  BY <1>2 DEF Formed, NoRequest, WellFormed, BucketKinds, IInv, TypeInv, TypeOK, Request, Obj, Objects
<1>3. EInv /\ Formed /\ Unbroken =>
        [\A r, s \in Requests :
           RemoveEntry(r) /\ req[s].kind = "put" /\ reply[s].code = "Ok"
             => LET o == Obj(req[s]) IN data'[o] = data[o] /\ meta'[o] = meta[o]]_vars
  BY <1>1, <1>2 DEF EInv
<1>4. EInv /\ [Next]_vars => EInv'
  BY ExplainedStep
<1>5. EInv /\ Formed /\ [Next]_vars => Formed'
  BY FormedStep DEF EInv
<1>6. Init => Formed
  BY DEF Init, Formed
<1> QED BY <1>3, <1>4, <1>5, <1>6, ExplainedInit, PTL DEF Spec, OnlyEmptyBucketsGo
===============================================================================
