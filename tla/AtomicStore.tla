----------------------------- MODULE AtomicStore -----------------------------
(***************************************************************************)
(* What the store promises to clients who wait for an answer before they   *)
(* touch the same object again: every request takes effect in one step     *)
(* between its start and its answer, a refused one has no effect, and the  *)
(* events come in an order that agrees with the effects on each object.    *)
(***************************************************************************)
EXTENDS S3Requests, Sequences

CONSTANTS Requests, ABSENT

VARIABLES
  buckets,  \* the buckets that exist
  objects,  \* [Objects -> the bytes of the object, or ABSENT]
  status,   \* [Requests -> "idle", "working", "performed" or "done"]
  req, reply, events

vars == <<buckets, objects, status, req, reply, events>>

Init ==
  /\ buckets \in SUBSET Buckets
  /\ objects \in [Objects -> Values \cup {ABSENT}]
  /\ \A o \in Objects : objects[o] # ABSENT => o[1] \in buckets
  /\ status = [r \in Requests |-> "idle"]
  /\ req = [r \in Requests |-> NoRequest]
  /\ reply = [r \in Requests |-> Plain("")]
  /\ events = <<>>

Active(r) == status[r] \in {"working", "performed"}
Held(b) == {k \in Keys : objects[<<b, k>>] # ABSENT}

(* The reasons to refuse a request; InternalError only for a put that lost *)
(* its directory to a delete of a neighbour.                               *)
Refused(q, code) ==
  \/ /\ code = "NoSuchBucket" /\ q.kind # "create_bucket"
     /\ \E b \in {Source(q)[1], q.bucket} : b \notin buckets
  \/ /\ code = "NoSuchKey" /\ q.kind \in {"get", "head", "copy"}
     /\ objects[Source(q)] = ABSENT
  \/ code = "BucketAlreadyExists" /\ q.kind = "create_bucket" /\ q.bucket \in buckets
  \/ code = "BucketNotEmpty" /\ q.kind = "delete_bucket" /\ Held(q.bucket) # {}
  \/ code = "InternalError" /\ q.kind \in {"put", "copy"}

Answer(r, answer) ==
  /\ status' = [status EXCEPT ![r] = "done"]
  /\ reply' = [reply EXCEPT ![r] = answer]

Invoke(r) ==
  /\ status[r] = "idle"
  /\ \E q \in Request :
        /\ WellFormed(q)
        /\ \A s \in Requests : Active(s) => ~Conflict(q, req[s])
        /\ req' = [req EXCEPT ![r] = q]
        /\ \/ status' = [status EXCEPT ![r] = "working"] /\ UNCHANGED reply
           \/ \E code \in Codes : Refused(q, code) /\ Answer(r, Plain(code))
  /\ UNCHANGED <<buckets, objects, events>>

Refuse(r) ==
  /\ status[r] = "working"
  /\ \E code \in Codes : Refused(req[r], code) /\ Answer(r, Plain(code))
  /\ UNCHANGED <<buckets, objects, req, events>>

Read(r) ==
  /\ status[r] = "working"
  /\ req[r].kind \in {"get", "head"}
  /\ LET c == objects[Obj(req[r])] IN
       /\ c # ABSENT
       /\ Answer(r, [code |-> "Ok", etag |-> c,
                     data |-> IF req[r].kind = "get" THEN c ELSE NONE])
  /\ UNCHANGED <<buckets, objects, req, events>>

Perform(r) ==
  /\ status[r] = "working"
  /\ status' = [status EXCEPT ![r] = "performed"]
  /\ LET q == req[r] IN
       \/ /\ q.kind \in Writers /\ q.bucket \in buckets
          /\ q.kind = "copy" => objects[q.from] # ABSENT
          /\ objects' = [objects EXCEPT ![Obj(q)] =
                           CASE q.kind = "put" -> q.body
                             [] q.kind = "copy" -> objects[q.from]
                             [] OTHER -> ABSENT]
          /\ UNCHANGED buckets
       \/ /\ q.kind = "create_bucket" /\ q.bucket \notin buckets
          /\ buckets' = buckets \cup {q.bucket}
          /\ UNCHANGED objects
       \/ /\ q.kind = "delete_bucket" /\ q.bucket \in buckets /\ Held(q.bucket) = {}
          /\ buckets' = buckets \ {q.bucket}
          /\ UNCHANGED objects
  /\ UNCHANGED <<req, reply, events>>

Announce(r) ==
  /\ status[r] = "performed"
  /\ Answer(r, Plain("Ok"))
  /\ events' = Append(events, Event(req[r]))
  /\ UNCHANGED <<buckets, objects, req>>

Next == \E r \in Requests :
          Invoke(r) \/ Refuse(r) \/ Read(r) \/ Perform(r) \/ Announce(r)

Spec == Init /\ [][Next]_vars
=============================================================================
