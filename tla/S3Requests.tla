----------------------------- MODULE S3Requests -----------------------------
(***************************************************************************)
(* What clients ask of the store and how it answers: the arguments of the  *)
(* methods of storage/mod.rs, the codes of s3/error.rs, and the events     *)
(* that sync/mod.rs declares.                                              *)
(***************************************************************************)
CONSTANTS
  Buckets,     \* bucket names
  Keys,        \* object keys, all of them accepted by validate_key
  Values,      \* what clients store
  Ops,         \* the kinds of request that clients make
  Serialised,  \* the kinds clients never overlap on the same object or bucket
  NONE         \* no value

Kinds == {"put", "get", "head", "delete", "copy", "create_bucket",
          "delete_bucket", "cleanup"}
BucketKinds == {"create_bucket", "delete_bucket"}
Writers == {"put", "copy", "delete"}

ASSUME Configured == Ops \subseteq Kinds /\ Serialised \subseteq Kinds
ASSUME NoneIsNothing == NONE \notin Values \cup Keys \cup Buckets

Objects == Buckets \X Keys

Request ==
  [kind : Kinds, bucket : Buckets \cup {NONE}, key : Keys \cup {NONE},
   from : Objects \cup {<<NONE, NONE>>}, body : Values \cup {NONE}]

NoRequest == [kind |-> "get", bucket |-> NONE, key |-> NONE,
              from |-> <<NONE, NONE>>, body |-> NONE]

(* What a client may ask: only the fields its kind of request has.         *)
WellFormed(q) ==
  /\ q.kind \in Ops
  /\ (q.bucket = NONE) <=> (q.kind = "cleanup")
  /\ (q.key = NONE) <=> (q.kind \in BucketKinds \cup {"cleanup"})
  /\ (q.from = <<NONE, NONE>>) <=> (q.kind # "copy")
  /\ (q.body = NONE) <=> (q.kind # "put")

Obj(q) == <<q.bucket, q.key>>
Source(q) == IF q.kind = "copy" THEN q.from ELSE Obj(q)

(* The objects a request reads or writes; a bucket request touches all of  *)
(* its bucket and the sweep touches everything.                            *)
Touches(q) ==
  CASE q.kind = "cleanup" -> Objects
    [] q.kind \in BucketKinds -> {q.bucket} \X Keys
    [] q.kind = "copy" -> {Obj(q), q.from}
    [] OTHER -> {Obj(q)}

Conflict(p, q) ==
  /\ p.kind \in Serialised /\ q.kind \in Serialised
  /\ Touches(p) \cap Touches(q) # {}

Codes == {"", "Ok", "NoSuchBucket", "NoSuchKey", "BucketAlreadyExists",
          "BucketNotEmpty", "InternalError"}
Plain(code) == [code |-> code, data |-> NONE, etag |-> NONE]

(* Mutant: a copy announces its source.                                    *)
EventOfSource(q) == [kind |-> IF q.kind = "copy" THEN "put" ELSE q.kind,
                     bucket |-> Source(q)[1], key |-> Source(q)[2]]

Event(q) == [kind |-> IF q.kind = "copy" THEN "put" ELSE q.kind,
             bucket |-> q.bucket, key |-> q.key]
Events == [kind : Kinds, bucket : Buckets \cup {NONE}, key : Keys \cup {NONE}]
=============================================================================
