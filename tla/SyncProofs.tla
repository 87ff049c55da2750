------------------------------ MODULE SyncProofs ------------------------------
(***************************************************************************)
(* Proofs about Sync, for any number of requests, any keys, retries,       *)
(* failures and restarts.                                                  *)
(*                                                                         *)
(* First its types, and that events_pending and the counters of events     *)
(* sent and given up are exact, whatever clients overlap.                  *)
(*                                                                         *)
(* Then Converged: if clients overlap no put, copy or delete of one        *)
(* object, the upstream holds the bytes of every object about which        *)
(* nothing is under way, and whose last change was announced and whose     *)
(* last event was not given up or lost.                                    *)
(*                                                                         *)
(* Last BucketsConverged: if clients overlap no bucket request with        *)
(* another one, or with a writer, in the same bucket, the upstream has the *)
(* buckets that the store has, wherever nothing is under way, missed or    *)
(* given up.                                                               *)
(***************************************************************************)
EXTENDS Sync, FiniteSetTheorems, TLAPS

Announcing == Writers \cup BucketKinds
IsEvent(e) ==
  /\ e \in Events
  /\ e.kind \in {"put", "delete"} \cup BucketKinds
  /\ e.bucket \in Buckets
  /\ IF e.kind \in BucketKinds THEN e.key = NONE ELSE e.key \in Keys

Subjects == (Buckets \cup {NONE}) \X (Keys \cup {NONE})

(* What requests and events can be, given how far they have come.          *)
RequestsKnown ==
  \A r \in Requests : /\ status[r] # "idle" => WellFormed(req[r])
                      /\ status[r] = "performed" => req[r].kind \in Announcing
EventsKnown == \A i \in 1..Len(events) : IsEvent(events[i])

(* Which events bring the manager where.                                   *)
Phases ==
  /\ manager \in {"head", "create_bucket"} => Current.kind \in {"put", "create_bucket"}
  /\ manager = "put" => Current.kind = "put"
  /\ manager = "delete" => Current.kind = "delete"
  /\ manager = "delete_bucket" => Current.kind = "delete_bucket"

(* Each event is counted before it is sent.                                *)
Counted ==
  /\ IsFiniteSet(counted)
  /\ \A r \in counted : status[r] = "performed"
  /\ PendingIsExact

TypeInv == SyncTypeOK /\ RequestsKnown /\ EventsKnown /\ Phases /\ Counted

-----------------------------------------------------------------------------
(* The event of a request that is performed is one.                        *)
LEMMA EventOfRequest ==
  ASSUME NEW q \in Request, WellFormed(q), q.kind \in Announcing
  PROVE  IsEvent(Event(q)) /\ Subject(Event(q)) = Obj(q)
BY NoneIsNothing DEF WellFormed, Announcing, Writers, BucketKinds, IsEvent, Event, Events,
   Request, Kinds, Subject, Obj

(* The event at which the manager is.                                      *)
LEMMA CurrentIsEvent ==
  ASSUME TypeInv, manager # "recv"
  PROVE  /\ taken \in 1..Len(events) /\ IsEvent(Current)
         /\ Current.kind \in {"put", "delete"} => Subject(Current) \in Objects
         /\ Subject(Current) \in Subjects
<1>1. taken \in 1..Len(events)
  BY DEF TypeInv, SyncTypeOK
<1>2. IsEvent(Current)
  BY <1>1 DEF TypeInv, EventsKnown, Current
<1> QED BY <1>1, <1>2 DEF IsEvent, Events, Subject, Objects, Subjects, BucketKinds

(* Steps that leave the requests, the events and the place in the channel. *)
LEMMA QueueKeeps ==
  ASSUME TypeInv, UNCHANGED <<status, req, events>>
  PROVE  RequestsKnown' /\ EventsKnown'
BY DEF TypeInv, RequestsKnown, EventsKnown

LEMMA DoneTypes ==
  ASSUME TypeInv, manager # "recv", Done, UNCHANGED <<taken, events>>
  PROVE  /\ sent' \in Nat /\ failed' \in Nat /\ attempt' \in 0..MaxRetries
         /\ stale' \subseteq Subjects
         /\ manager' = "recv" /\ Phases'
BY DEF TypeInv, SyncTypeOK, Done, Phases, Subjects

LEMMA RetryTypes ==
  ASSUME TypeInv, manager # "recv", Retry, UNCHANGED <<taken, events>>
  PROVE  /\ sent' \in Nat /\ failed' \in Nat /\ attempt' \in 0..MaxRetries
         /\ stale' \subseteq Subjects
         /\ manager' \in {"begin", "recv"} /\ Phases'
<1>1. Subject(Current) \in Subjects
  BY CurrentIsEvent
<1>2. manager' \in {"begin", "recv"} /\ sent' \in Nat /\ failed' \in Nat
  BY DEF TypeInv, SyncTypeOK, Retry, counters
<1>3. attempt' \in 0..MaxRetries
  BY RetriesAreNat DEF TypeInv, SyncTypeOK, Retry
<1>4. stale' \subseteq Subjects
  BY <1>1 DEF TypeInv, SyncTypeOK, Retry, Subjects
<1> QED BY <1>2, <1>3, <1>4 DEF Phases

LEMMA ToTypes ==
  ASSUME TypeInv, NEW next, To(next)
  PROVE  /\ sent' \in Nat /\ failed' \in Nat /\ attempt' \in 0..MaxRetries
         /\ stale' \subseteq Subjects
         /\ manager' = next
BY DEF TypeInv, SyncTypeOK, To, counters, Subjects

-----------------------------------------------------------------------------
LEMMA TypeInit == SyncInit => TypeInv
<1> SUFFICES ASSUME SyncInit PROVE TypeInv
  OBVIOUS
<1>1. NoRequest \in Request
  BY DEF NoRequest, Request, Kinds
<1>2. remote \in [Objects -> Values \cup {ABSENT, MANGLED}]
  BY DEF SyncInit, Init
<1>3. req \in [Requests -> Request]
  BY <1>1 DEF SyncInit, Init
<1>4. events = <<>>
  BY DEF SyncInit, Init
<1>5. events \in Seq(Events) /\ Len(events) = 0
  BY <1>4
<1>6. /\ buckets \subseteq Buckets /\ objects \in [Objects -> Values \cup {ABSENT}]
      /\ status = [r \in Requests |-> "idle"]
      /\ counted = {} /\ pending = 0 /\ taken = 0 /\ manager = "recv" /\ attempt = 0
      /\ held = ABSENT /\ sent = 0 /\ failed = 0 /\ remoteBuckets = buckets
      /\ crashes = 0 /\ dropped = 0 /\ stale = {} /\ missed = {} /\ seen = {}
  BY DEF SyncInit, Init
<1>7. SyncTypeOK
  BY <1>2, <1>3, <1>5, <1>6, RetriesAreNat DEF SyncTypeOK
<1>8. RequestsKnown /\ EventsKnown /\ Phases
  BY <1>5, <1>6 DEF RequestsKnown, EventsKnown, Phases
<1>9. Counted
  BY <1>5, <1>6, FS_EmptySet DEF Counted, PendingIsExact
<1> QED BY <1>7, <1>8, <1>9 DEF TypeInv

(* What StoreStep does to the types: nothing but the four variables of the *)
(* requests changes.                                                       *)
LEMMA StoreStepTypes ==
  ASSUME TypeInv, StoreStep
  PROVE  TypeInv'
<1> PICK r \in Requests : Invoke(r) \/ Refuse(r) \/ Read(r) \/ Perform(r)
  BY DEF StoreStep
<1> USE DEF TypeInv, SyncTypeOK, Subjects
<1>1. UNCHANGED <<events, syncVars>>
  BY DEF StoreStep, Invoke, Refuse, Read, Perform
<1>2. Phases'
  BY <1>1 DEF Phases, Current, syncVars
<1>3. EventsKnown'
  BY <1>1 DEF EventsKnown
<1>8. Counted'
  <2>1. \A x \in Requests : status[x] = "performed" => status'[x] = "performed"
    BY DEF Invoke, Refuse, Read, Perform, Answer
  <2> QED BY <1>1, <2>1 DEF Counted, PendingIsExact, syncVars
<1>4. status' \in [Requests -> {"idle", "working", "performed", "done"}]
  BY DEF Invoke, Refuse, Read, Perform, Answer
<1>5. req' \in [Requests -> Request]
  BY DEF Invoke, Refuse, Read, Perform
<1>6. buckets' \subseteq Buckets /\ objects' \in [Objects -> Values \cup {ABSENT}]
  <2>1. CASE Perform(r)
    <3>1. WellFormed(req[r]) /\ req[r] \in Request
      BY <2>1 DEF RequestsKnown, Perform
    <3>2. req[r].kind \in Announcing => req[r].bucket \in Buckets
      BY <3>1 DEF WellFormed, Request, Announcing, Writers, BucketKinds
    <3>3. req[r].kind = "put" => req[r].body \in Values
      BY <3>1 DEF WellFormed, Request
    <3>4. req[r].kind = "copy" => req[r].from \in Objects
      BY <3>1 DEF WellFormed, Request
    <3> QED BY <2>1, <3>2, <3>3, <3>4 DEF Perform, Announcing, Writers, BucketKinds
  <2> QED BY <2>1 DEF Invoke, Refuse, Read
<1>7. RequestsKnown'
  <2>1. CASE Invoke(r)
    BY <2>1 DEF Invoke, RequestsKnown, Answer
  <2>2. CASE Refuse(r) \/ Read(r)
    BY <2>2 DEF Refuse, Read, RequestsKnown, Answer
  <2>3. CASE Perform(r)
    BY <2>3 DEF Perform, RequestsKnown, Announcing, BucketKinds
  <2> QED BY <2>1, <2>2, <2>3
<1> QED BY <1>1, <1>2, <1>3, <1>4, <1>5, <1>6, <1>7, <1>8 DEF syncVars, counters, remoteVars

(* What the counters are made of.                                          *)
LEMMA Numbers ==
  ASSUME TypeInv
  PROVE  /\ Cardinality(counted) \in Nat /\ Len(events) \in Nat /\ taken \in Nat
         /\ taken <= Len(events) /\ pending \in Nat
         /\ pending = Cardinality(counted) + (Len(events) - taken)
                        + (IF manager = "subtract" THEN 1 ELSE 0)
<1>1. Cardinality(counted) \in Nat
  BY FS_CardinalityType DEF TypeInv, Counted
<1>2. Len(events) \in Nat
  BY DEF TypeInv, SyncTypeOK
<1> QED BY <1>1, <1>2 DEF TypeInv, SyncTypeOK, Counted, PendingIsExact

LEMMA CountedKeeps ==
  ASSUME TypeInv, UNCHANGED <<status, counted, events, taken, pending>>,
         manager' = "subtract" <=> manager = "subtract"
  PROVE  Counted'
<1>1. PendingIsExact'
  BY DEF TypeInv, Counted, PendingIsExact
<1> QED BY <1>1 DEF TypeInv, Counted

LEMMA RecvCounts == ASSUME TypeInv, Recv PROVE Counted' /\ taken' \in 1..Len(events')
<1>1. /\ taken' = taken + 1 /\ manager = "recv" /\ manager' = "subtract"
      /\ UNCHANGED <<status, counted, events, pending>> /\ taken + 1 \in 1..Len(events)
  BY Numbers DEF Recv, Waiting, vars
<1>2. PendingIsExact'
  BY <1>1, Numbers DEF PendingIsExact
<1> QED BY <1>1, <1>2 DEF TypeInv, Counted

LEMMA SubtractCounts == ASSUME TypeInv, Subtract PROVE Counted' /\ pending' \in Nat
<1>1. /\ pending' = pending - 1 /\ manager = "subtract" /\ manager' = "begin"
      /\ UNCHANGED <<status, counted, events, taken>>
  BY DEF Subtract, vars
<1>2. PendingIsExact' /\ pending' \in Nat
  BY <1>1, Numbers DEF PendingIsExact
<1> QED BY <1>1, <1>2 DEF TypeInv, Counted

LEMMA CountCounts == ASSUME TypeInv, NEW r \in Requests, Count(r) PROVE Counted'
<1>1. /\ pending' = pending + 1 /\ counted' = counted \cup {r} /\ r \notin counted
      /\ status[r] = "performed" /\ UNCHANGED <<status, events, taken, manager>>
  BY DEF Count, vars
<1>2. /\ IsFiniteSet(counted')
      /\ Cardinality(counted') = Cardinality(counted) + 1
  BY <1>1, FS_AddElement DEF TypeInv, Counted
<1>3. PendingIsExact'
  BY <1>1, <1>2, Numbers DEF PendingIsExact
<1> QED BY <1>1, <1>2, <1>3 DEF TypeInv, Counted

LEMMA SendCounts ==
  ASSUME TypeInv, NEW r \in Requests, Send(r), Len(events') = Len(events) + 1
  PROVE  Counted'
<1>1. /\ counted' = counted \ {r} /\ r \in counted
      /\ UNCHANGED <<pending, taken, manager>>
      /\ \A x \in Requests \ {r} : status'[x] = status[x]
  BY DEF Send, Announce, Answer, TypeInv, SyncTypeOK
<1>2. /\ IsFiniteSet(counted')
      /\ Cardinality(counted') = Cardinality(counted) - 1
  BY <1>1, FS_RemoveElement DEF TypeInv, Counted
<1>3. PendingIsExact'
  BY <1>1, <1>2, Numbers DEF PendingIsExact
<1> QED BY <1>1, <1>2, <1>3 DEF TypeInv, SyncTypeOK, Counted

(* A request past its write.                                               *)
LEMMA TaskTypes ==
  ASSUME TypeInv, NEW r \in Requests, Count(r) \/ Send(r) \/ Drop(r)
  PROVE  TypeInv'
<1> USE DEF TypeInv, SyncTypeOK, Subjects
<1>1. CASE Count(r)
  <2>1. UNCHANGED <<vars, taken, manager>>
    BY <1>1 DEF Count
  <2>2. RequestsKnown' /\ EventsKnown' /\ Phases'
    BY <2>1, QueueKeeps DEF vars, Phases, Current
  <2>3. Counted'
    BY <1>1, CountCounts
  <2> QED BY <1>1, <2>2, <2>3 DEF Count, vars, counters, remoteVars
<1>2. CASE Send(r)
  <2>1. r \in counted /\ status[r] = "performed" /\ req[r] \in Request
    BY <1>2 DEF Send, Announce
  <2>2. IsEvent(Event(req[r]))
    BY <2>1, EventOfRequest DEF RequestsKnown
  <2>3. events' = Append(events, Event(req[r])) /\ events' \in Seq(Events)
    BY <1>2, <2>2 DEF Send, Announce, IsEvent
  <2>4. /\ Len(events') = Len(events) + 1
        /\ \A i \in 1..Len(events) : events'[i] = events[i]
        /\ events'[Len(events) + 1] = Event(req[r])
    BY <2>3
  <2>5. EventsKnown'
    BY <2>2, <2>4 DEF EventsKnown
  <2>6. Phases'
    <3>1. UNCHANGED <<taken, manager>>
      BY <1>2 DEF Send
    <3>2. manager # "recv" => Current' = Current
      BY <3>1, <2>4 DEF Current
    <3> QED BY <3>1, <3>2 DEF Phases
  <2>7. RequestsKnown' /\ status' \in [Requests -> {"idle", "working", "performed", "done"}]
    BY <1>2 DEF Send, Announce, Answer, RequestsKnown
  <2>8. taken' \in 0..Len(events') /\ dropped' \in 0..Len(events')
    BY <1>2, <2>4 DEF Send
  <2>9. Counted'
    BY <1>2, <2>4, SendCounts
  <2> QED BY <1>2, <2>3, <2>5, <2>6, <2>7, <2>8, <2>9 DEF Send, Announce, counters, remoteVars
<1>3. CASE Drop(r)
  <2>1. Obj(req[r]) \in Subjects
    BY <1>3 DEF Drop, Request, Obj
  <2>2. RequestsKnown' /\ EventsKnown' /\ Phases'
    BY <1>3 DEF Drop, RequestsKnown, EventsKnown, Phases, Current
  <2>3. Counted'
    BY <1>3 DEF Drop, Counted, PendingIsExact
  <2> QED BY <1>3, <2>1, <2>2, <2>3 DEF Drop, counters, remoteVars
<1> QED BY <1>1, <1>2, <1>3

(* The manager between two calls.                                          *)
LEMMA ManagerTypes ==
  ASSUME TypeInv, Manager
  PROVE  TypeInv'
<1>1. RequestsKnown' /\ EventsKnown'
  BY QueueKeeps DEF Manager, Recv, Subtract, Begin, vars
<1> USE DEF TypeInv, SyncTypeOK, Subjects
<1>2. CASE Recv
  <2>1. Counted' /\ taken' \in 1..Len(events')
    BY <1>2, RecvCounts
  <2> QED BY <1>1, <1>2, <2>1 DEF Recv, Phases, vars, counters, remoteVars
<1>3. CASE Subtract
  <2>1. Counted' /\ pending' \in Nat
    BY <1>3, SubtractCounts
  <2> QED BY <1>1, <1>3, <2>1, RetriesAreNat
          DEF Subtract, Phases, vars, counters, remoteVars
<1>4. CASE Begin
  <2>1. UNCHANGED <<vars, counted, pending, taken, remoteVars, crashes, dropped, missed>>
        /\ manager = "begin"
    BY <1>4 DEF Begin
  <2>2. manager' # "subtract" => Counted'
    BY <2>1, CountedKeeps DEF vars
  <2>3. Current' = Current
    BY <2>1 DEF Current, vars
  <2>4. CASE Current.kind = "put"
    <3>1. Subject(Current) \in Objects
      BY <2>1, <2>4, CurrentIsEvent
    <3>2. held' \in Values \cup {ABSENT, MANGLED} /\ seen' \subseteq Requests
      <4>1. ReadLocal
        BY <1>4, <2>4 DEF Begin
      <4> QED BY <3>1, <4>1 DEF ReadLocal, Overwriting
    <3>3. CASE Done
      BY <1>1, <2>1, <2>2, <3>2, <3>3, DoneTypes DEF vars, counters, remoteVars
    <3>4. CASE manager' = "head" /\ UNCHANGED <<attempt, sent, failed, stale>>
      BY <1>1, <2>1, <2>2, <2>3, <2>4, <3>2, <3>4 DEF Phases, vars, counters, remoteVars
    <3> QED BY <1>4, <2>4, <3>3, <3>4 DEF Begin
  <2>5. CASE Current.kind # "put"
    <3>1. /\ manager' = CASE Current.kind = "create_bucket" -> "head"
                           [] Current.kind = "delete_bucket" -> "delete_bucket"
                           [] OTHER -> "delete"
          /\ UNCHANGED <<attempt, held, counters, stale, seen>>
      BY <1>4, <2>5 DEF Begin
    <3>2. Current.kind \in {"delete", "create_bucket", "delete_bucket"}
      BY <2>1, <2>5, CurrentIsEvent DEF IsEvent, BucketKinds
    <3> QED BY <1>1, <2>1, <2>2, <2>3, <3>1, <3>2 DEF Phases, vars, counters, remoteVars
  <2> QED BY <2>4, <2>5
<1> QED BY <1>2, <1>3, <1>4 DEF Manager

(* A call to the upstream, whatever comes of it.                           *)
LEMMA CallTypes ==
  ASSUME TypeInv, Upstream
  PROVE  TypeInv'
<1> USE DEF TypeInv, SyncTypeOK, Subjects
<1>1. manager \notin {"recv", "subtract", "begin"} /\ UNCHANGED CallVars
  BY DEF Upstream, HeadBucket, CreateBucket, PutObject, DeleteObject, DeleteBucket
<1>2. RequestsKnown' /\ EventsKnown'
  BY <1>1, QueueKeeps DEF CallVars, vars
<1>3. manager' # "subtract" => Counted'
  BY <1>1, CountedKeeps DEF CallVars, vars
<1>4. UNCHANGED <<taken, events>> /\ Current' = Current
  BY <1>1 DEF CallVars, vars, Current
<1>5. Done \/ Retry \/ To("create_bucket") \/ (Put /\ To("put"))
  BY DEF Upstream, HeadBucket, CreateBucket, PutObject, DeleteObject, DeleteBucket
<1>6. manager' = "create_bucket" => manager \in {"head", "create_bucket"}
  BY <1>1 DEF Upstream, HeadBucket, CreateBucket, PutObject, DeleteObject, DeleteBucket, Done, Retry, To
<1>7. /\ sent' \in Nat /\ failed' \in Nat /\ attempt' \in 0..MaxRetries
      /\ stale' \subseteq Subjects
      /\ manager' \in {"recv", "begin", "create_bucket", "put"}
  BY <1>1, <1>4, <1>5, DoneTypes, RetryTypes, ToTypes
<1>8. Phases'
  <2>1. manager' = "put" => Current.kind = "put"
    BY <1>5, <1>1, <1>4, DoneTypes, RetryTypes, ToTypes DEF Put
  <2> QED BY <1>4, <1>6, <1>7, <2>1 DEF Phases
<1>9. Current.bucket \in Buckets
  BY <1>1, CurrentIsEvent DEF IsEvent
<1>10. remoteBuckets' \subseteq Buckets
  BY <1>9 DEF Upstream, HeadBucket, CreateBucket, PutObject, DeleteObject, DeleteBucket, remoteVars
<1>11. remote' \in [Objects -> Values \cup {ABSENT, MANGLED}]
  BY DEF Upstream, HeadBucket, CreateBucket, PutObject, DeleteObject, DeleteBucket, remoteVars
<1> QED BY <1>1, <1>2, <1>3, <1>4, <1>7, <1>8, <1>10, <1>11 DEF CallVars, vars

LEMMA CrashTypes ==
  ASSUME TypeInv, Crash
  PROVE  TypeInv'
<1> USE DEF TypeInv, SyncTypeOK, Subjects
<1>1. status' \in [Requests -> {"idle", "working", "performed", "done"}]
  BY DEF Crash
<1>2. RequestsKnown' /\ EventsKnown' /\ Phases'
  BY DEF Crash, RequestsKnown, EventsKnown, Phases, Active
<1>3. Counted'
  BY FS_EmptySet DEF Crash, Counted, PendingIsExact
<1>4. missed' \subseteq Subjects
  <2>1. \A r \in Requests : Obj(req[r]) \in Subjects
    BY DEF Request, Obj, Subjects
  <2> QED BY <2>1 DEF Crash, Subjects
<1>5. stale' \subseteq Subjects
  <2>1. \A i \in Unfinished : Subject(events[i]) \in Subjects
    BY DEF Unfinished, Waiting, EventsKnown, IsEvent, Events, Subject, Subjects
  <2> QED BY <2>1 DEF Crash, Subjects
<1> QED BY <1>1, <1>2, <1>3, <1>4, <1>5, RetriesAreNat DEF Crash, counters, remoteVars

-----------------------------------------------------------------------------
LEMMA TypeStep == TypeInv /\ [SyncNext]_allVars => TypeInv'
<1> SUFFICES ASSUME TypeInv, [SyncNext]_allVars PROVE TypeInv'
  OBVIOUS
<1>1. CASE UNCHANGED allVars
  BY <1>1 DEF TypeInv, SyncTypeOK, RequestsKnown, EventsKnown, Phases, Counted,
     PendingIsExact, Current, allVars, vars, syncVars, counters, remoteVars
<1> QED BY <1>1, StoreStepTypes, TaskTypes, ManagerTypes, CallTypes, CrashTypes DEF SyncNext

LEMMA TypeInvariant == SyncSpec => []TypeInv
BY TypeInit, TypeStep, PTL DEF SyncSpec

(* Every variable of the manager, the upstream and the channel has its     *)
(* type, whichever calls fail and whenever the process dies.               *)
THEOREM SyncTypeCorrect == SyncSpec => []SyncTypeOK
<1>1. TypeInv => SyncTypeOK
  BY DEF TypeInv
<1> QED BY <1>1, TypeInvariant, PTL

(* events_pending is exact, and so never wraps, although emit_sync and the *)
(* manager change it in steps of their own.                                *)
THEOREM PendingCorrect == SyncSpec => []PendingIsExact
<1>1. TypeInv => PendingIsExact
  BY DEF TypeInv, Counted
<1> QED BY <1>1, TypeInvariant, PTL

(* Every event that was received is sent, given up or being processed.     *)
THEOREM CountersCorrect == SyncSpec => []NoEventUncounted
<1>1. SyncInit => NoEventUncounted
  BY DEF SyncInit, NoEventUncounted
<1>2. TypeInv /\ NoEventUncounted /\ [SyncNext]_allVars => NoEventUncounted'
  <2> SUFFICES ASSUME TypeInv, NoEventUncounted, [SyncNext]_allVars
               PROVE  NoEventUncounted'
    OBVIOUS
  <2>1. taken \in Nat /\ dropped \in Nat /\ sent \in Nat /\ failed \in Nat
    BY DEF TypeInv, SyncTypeOK
  <2>2. CASE UNCHANGED <<taken, dropped, sent, failed, manager>>
    BY <2>2 DEF NoEventUncounted
  <2>3. CASE Recv
    BY <2>1, <2>3 DEF NoEventUncounted, Recv, counters
  <2>4. CASE Crash
    <3>1. /\ taken' = Len(events) /\ dropped' = Len(events) /\ sent' = 0 /\ failed' = 0
          /\ manager' = "recv"
      BY <2>4 DEF Crash
    <3>2. Len(events) \in Nat
      BY DEF TypeInv, SyncTypeOK
    <3> QED BY <3>1, <3>2 DEF NoEventUncounted
  <2>5. ASSUME manager # "recv", UNCHANGED <<taken, dropped>>,
               \/ manager' # "recv" /\ UNCHANGED <<sent, failed>>
               \/ Done \/ Retry
        PROVE  NoEventUncounted'
    BY <2>1, <2>5 DEF NoEventUncounted, Done, Retry, counters
  <2>6. CASE Subtract \/ Begin
    <3>1. Subtract => manager = "subtract" /\ manager' = "begin"
                      /\ UNCHANGED <<taken, dropped, sent, failed>>
      BY DEF Subtract, counters
    <3>2. ASSUME Begin PROVE NoEventUncounted'
      <4>1. manager = "begin" /\ UNCHANGED <<taken, dropped>>
        BY <3>2 DEF Begin
      <4>2. CASE Done
        BY <2>5, <4>1, <4>2
      <4>3. CASE ~Done
        <5>1. CASE Current.kind = "put"
          BY <2>5, <3>2, <4>1, <4>3, <5>1 DEF Begin
        <5>2. CASE Current.kind # "put"
          BY <2>5, <3>2, <4>1, <5>2 DEF Begin, counters
        <5> QED BY <5>1, <5>2
      <4> QED BY <4>2, <4>3
    <3> QED BY <2>5, <2>6, <3>1, <3>2
  <2>7. CASE Upstream
    <3>1. manager # "recv" /\ UNCHANGED <<taken, dropped>>
      BY <2>7 DEF Upstream, HeadBucket, CreateBucket, PutObject, DeleteObject, DeleteBucket, CallVars
    <3>2. Done \/ Retry \/ To("create_bucket") \/ To("put")
      BY <2>7 DEF Upstream, HeadBucket, CreateBucket, PutObject, DeleteObject, DeleteBucket
    <3> QED BY <2>5, <3>1, <3>2 DEF To, counters
  <2>8. CASE StoreStep \/ \E r \in Requests : Count(r) \/ Send(r) \/ Drop(r)
    BY <2>2, <2>8 DEF StoreStep, Count, Send, Drop, syncVars, counters
  <2> QED BY <2>2, <2>3, <2>4, <2>6, <2>7, <2>8 DEF SyncNext, Manager, allVars, syncVars, counters
<1> QED BY <1>1, <1>2, TypeInvariant, PTL DEF SyncSpec

-----------------------------------------------------------------------------
(* The objects upstream.                                                   *)

Careful == Writers \subseteq Serialised

Writing(r, o) == req[r].kind \in Writers /\ Obj(req[r]) = o

(* No two writers of one object are under way.                             *)
Apart ==
  \A r, s \in Requests : r # s /\ Active(r) /\ Active(s) =>
    ~(req[r].kind \in Writers /\ Writing(s, Obj(req[r])))

SeenWriters ==
  \A r \in seen : status[r] # "idle" /\ (Active(r) => req[r].kind \in Writers)

(* Between its write and its event, an object is as its writer left it.    *)
Tells(r) ==
  status[r] = "performed" /\ req[r].kind \in Writers =>
    (objects[Obj(req[r])] # ABSENT <=> req[r].kind # "delete")

About(o) == {i \in 1..Len(events) : Subject(events[i]) = o}
Performed(o) == \E r \in Requests : status[r] = "performed" /\ Writing(r, o)
Observed(o) == \E r \in seen : Active(r) /\ Writing(r, o)

(* The manager will come back to this object, or need not.                 *)
Later(o) ==
  \/ o \in missed \/ Performed(o) \/ Observed(o)
  \/ \E i \in About(o) : i > taken

Covered(o) ==
  Later(o) \/ o \in stale \/ (manager # "recv" /\ Subject(Current) = o)

(* The last event about an object tells whether it is there.               *)
LastTells(o) ==
  o \notin missed /\ ~Performed(o) =>
    \A i \in About(o) : (\A j \in About(o) : j <= i)
                          => (events[i].kind = "put" <=> objects[o] # ABSENT)

(* What the manager pushes is what the store holds, or it comes back.      *)
InHand(o) ==
  /\ manager \in {"head", "create_bucket", "put"}
  /\ Current.kind = "put" /\ Subject(Current) = o
  => held = objects[o] \/ Later(o)

InStep(o) ==
  /\ LastTells(o)
  /\ InHand(o)
  /\ ~Covered(o) => remote[o] = objects[o]

CInv ==
  /\ TypeInv
  /\ Apart
  /\ SeenWriters
  /\ \A r \in Requests : Tells(r)
  /\ \A o \in Objects : InStep(o)

-----------------------------------------------------------------------------
(* An object that is bound to be looked at again needs nothing else.       *)
LEMMA BoundToBeSeen ==
  ASSUME NEW o, o \in missed' \/ Performed(o)'
  PROVE  InStep(o)'
BY DEF InStep, LastTells, InHand, Covered, Later

(* A step that concerns other objects.                                     *)
LEMMA Elsewhere ==
  ASSUME TypeInv, NEW o \in Objects, InStep(o),
         UNCHANGED <<taken, manager, held, remote, stale>>,
         objects'[o] = objects[o], Performed(o)' <=> Performed(o), Observed(o) => Observed(o)',
         o \in missed' <=> o \in missed,
         About(o)' = About(o), \A i \in 1..Len(events) : events'[i] = events[i]
  PROVE  InStep(o)'
<1>1. manager # "recv" => Current' = Current
  BY CurrentIsEvent DEF Current
<1>2. LastTells(o)'
  BY DEF InStep, LastTells, About
<1>3. Later(o) => Later(o)'
  BY DEF Later
<1>4. InHand(o)'
  BY <1>1, <1>3 DEF InStep, InHand
<1>5. ~Covered(o)' => remote'[o] = objects'[o]
  BY <1>1, <1>3 DEF InStep, Covered
<1> QED BY <1>2, <1>4, <1>5 DEF InStep

(* The manager is at the last event about an object.                       *)
LEMMA AtLast ==
  ASSUME TypeInv, NEW o \in Objects, LastTells(o), manager # "recv", Subject(Current) = o,
         o \notin missed, ~Performed(o), \A i \in About(o) : ~(i > taken)
  PROVE  Current.kind = "put" <=> objects[o] # ABSENT
<1>1. taken \in 1..Len(events)
  BY CurrentIsEvent
<1>2. taken \in About(o)
  BY <1>1 DEF About, Current
<1>3. \A j \in About(o) : j <= taken
  BY <1>1 DEF About
<1> QED BY <1>2, <1>3 DEF LastTells, Current

LEMMA ConvergedInit == SyncInit => CInv
<1> SUFFICES ASSUME SyncInit PROVE CInv
  OBVIOUS
<1>1. /\ events = <<>> /\ Len(events) = 0 /\ status = [r \in Requests |-> "idle"]
      /\ remote = objects /\ manager = "recv" /\ seen = {}
  BY DEF SyncInit, Init
<1>2. Apart /\ SeenWriters /\ \A r \in Requests : Tells(r)
  BY <1>1 DEF Apart, SeenWriters, Tells, Active
<1>3. \A o \in Objects : InStep(o)
  BY <1>1 DEF InStep, LastTells, InHand, About
<1> QED BY <1>2, <1>3, TypeInit DEF CInv

-----------------------------------------------------------------------------
(* The requests.                                                           *)

(* A writer touches its object, so that serialised writers of one object   *)
(* conflict.                                                               *)
LEMMA WritersConflict ==
  ASSUME Careful, NEW p, NEW q, p.kind \in Writers, q.kind \in Writers, Obj(p) = Obj(q)
  PROVE  Conflict(p, q)
<1>1. Obj(p) \in Touches(p) /\ Obj(q) \in Touches(q)
  BY DEF Touches, Writers, BucketKinds
<1> QED BY <1>1 DEF Careful, Conflict

LEMMA StoreStepConverges == ASSUME CInv, Careful, StoreStep PROVE CInv'
<1>0. TypeInv'
  BY StoreStepTypes DEF CInv
<1> PICK r \in Requests : Invoke(r) \/ (r \notin seen /\ Refuse(r)) \/ Read(r) \/ Perform(r)
  BY DEF StoreStep
<1>1. UNCHANGED <<events, taken, manager, held, remote, stale, missed, seen>>
  BY DEF StoreStep, Invoke, Refuse, Read, Perform, syncVars, remoteVars
<1>2. status \in [Requests -> {"idle", "working", "performed", "done"}]
      /\ req \in [Requests -> Request] /\ objects \in [Objects -> Values \cup {ABSENT}]
      /\ seen \subseteq Requests
  BY DEF CInv, TypeInv, SyncTypeOK
<1>3. \A o : About(o)' = About(o)
  BY <1>1 DEF About
<1>4. CASE Invoke(r)
  <2>1. PICK q \in Request :
          /\ WellFormed(q)
          /\ \A s \in Requests : Active(s) => ~Conflict(q, req[s])
          /\ req' = [req EXCEPT ![r] = q]
          /\ status' \in {[status EXCEPT ![r] = "working"], [status EXCEPT ![r] = "done"]}
    BY <1>4 DEF Invoke, Answer
  <2>2. status[r] = "idle" /\ objects' = objects
    BY <1>4 DEF Invoke
  <2>3. \A s \in Requests \ {r} : req'[s] = req[s] /\ status'[s] = status[s]
    BY <1>2, <2>1
  <2>4. req'[r] = q /\ status'[r] \in {"working", "done"}
    BY <1>2, <2>1
  <2>5. Apart'
    <3>1. \A s \in Requests \ {r} : Active(s) /\ q.kind \in Writers /\ req[s].kind \in Writers
                                      => Obj(req[s]) # Obj(q)
      BY <2>1, WritersConflict
    <3> QED BY <2>3, <2>4, <3>1 DEF CInv, Apart, Writing, Active
  <2>6. SeenWriters' /\ r \notin seen
    BY <1>1, <1>2, <2>2, <2>3 DEF CInv, SeenWriters, Active
  <2>7. \A s \in Requests : Tells(s)'
    BY <2>2, <2>3, <2>4 DEF CInv, Tells
  <2>8. \A o \in Objects : (Performed(o)' <=> Performed(o)) /\ (Observed(o) => Observed(o)')
    BY <1>1, <1>2, <2>2, <2>3, <2>4, <2>6 DEF Performed, Observed, Writing, Active
  <2>9. \A o \in Objects : InStep(o)'
    BY <1>1, <1>3, <2>2, <2>8, Elsewhere DEF CInv
  <2> QED BY <1>0, <2>5, <2>6, <2>7, <2>9 DEF CInv
<1>5. CASE (r \notin seen /\ Refuse(r)) \/ Read(r)
  <2>1. /\ status[r] = "working" /\ status' = [status EXCEPT ![r] = "done"]
        /\ UNCHANGED <<objects, req>>
    BY <1>5 DEF Refuse, Read, Answer
  <2>2. r \notin seen
    BY <1>5, <2>1 DEF CInv, SeenWriters, Read, Active, Writers
  <2>3. \A s \in Requests \ {r} : status'[s] = status[s]
    BY <1>2, <2>1
  <2>4. status'[r] = "done"
    BY <1>2, <2>1
  <2>5. Apart' /\ SeenWriters' /\ \A s \in Requests : Tells(s)'
    BY <1>1, <1>2, <2>1, <2>2, <2>3, <2>4 DEF CInv, Apart, SeenWriters, Tells, Writing, Active
  <2>6. \A o \in Objects : (Performed(o)' <=> Performed(o)) /\ (Observed(o) => Observed(o)')
    BY <1>1, <1>2, <2>1, <2>2, <2>3, <2>4 DEF Performed, Observed, Writing, Active
  <2>7. \A o \in Objects : InStep(o)'
    BY <1>1, <1>3, <2>1, <2>6, Elsewhere DEF CInv
  <2> QED BY <1>0, <2>5, <2>7 DEF CInv
<1>6. CASE Perform(r)
  <2>1. /\ status[r] = "working" /\ status' = [status EXCEPT ![r] = "performed"]
        /\ req' = req
    BY <1>6 DEF Perform
  <2>2. \A s \in Requests \ {r} : status'[s] = status[s]
    BY <1>2, <2>1
  <2>3. status'[r] = "performed"
    BY <1>2, <2>1
  <2>4. WellFormed(req[r]) /\ req[r] \in Request
    BY <1>2, <2>1 DEF CInv, TypeInv, RequestsKnown
  <2>5. req[r].kind \in Writers => Obj(req[r]) \in Objects
    BY <2>4 DEF WellFormed, Request, Writers, BucketKinds, Obj, Objects
  <2>6. \A o \in Objects : o # Obj(req[r]) \/ req[r].kind \notin Writers
                             => objects'[o] = objects[o]
    BY <1>6, <1>2, <2>4 DEF Perform, BucketKinds, Writers
  <2>7. req[r].kind \in Writers =>
          (objects'[Obj(req[r])] # ABSENT <=> req[r].kind # "delete")
    <3>1. req[r].kind = "put" => req[r].body \in Values
      BY <2>4 DEF WellFormed, Request
    <3>2. ABSENT \notin Values
      BY NotStored
    <3> QED BY <1>2, <1>6, <2>5, <3>1, <3>2 DEF Perform, Writers, BucketKinds
  <2>8. Apart' /\ SeenWriters'
    BY <1>1, <1>2, <2>1, <2>2, <2>3 DEF CInv, Apart, SeenWriters, Writing, Active
  <2>9. \A s \in Requests : Tells(s)'
    <3> SUFFICES ASSUME NEW s \in Requests, status'[s] = "performed", req[s].kind \in Writers
                 PROVE  objects'[Obj(req[s])] # ABSENT <=> req[s].kind # "delete"
      BY <2>1 DEF Tells
    <3>1. CASE s = r
      BY <2>7, <3>1
    <3>2. CASE s # r
      <4>1. status[s] = "performed"
        BY <2>2, <3>2
      <4>2. req[r].kind \in Writers => Obj(req[s]) # Obj(req[r])
        BY <2>1, <3>2, <4>1 DEF CInv, Apart, Writing, Active
      <4>3. Obj(req[s]) \in Objects
        <5>1. WellFormed(req[s]) /\ req[s] \in Request
          BY <1>2, <4>1 DEF CInv, TypeInv, RequestsKnown
        <5> QED BY <5>1 DEF WellFormed, Request, Writers, BucketKinds, Obj, Objects
      <4> QED BY <2>6, <4>1, <4>2, <4>3 DEF CInv, Tells
    <3> QED BY <3>1, <3>2
  <2>10. \A o \in Objects : InStep(o)'
    <3> TAKE o \in Objects
    <3>1. CASE Writing(r, o)
      BY <2>1, <2>3, <3>1, BoundToBeSeen DEF Performed, Writing
    <3>2. CASE ~Writing(r, o)
      <4>1. (Performed(o)' <=> Performed(o)) /\ (Observed(o) => Observed(o)')
        BY <1>1, <1>2, <2>1, <2>2, <2>3, <3>2 DEF Performed, Observed, Writing, Active
      <4> QED BY <1>1, <1>3, <2>6, <3>2, <4>1, Elsewhere DEF CInv, Writing
    <3> QED BY <3>1, <3>2
  <2> QED BY <1>0, <2>8, <2>9, <2>10 DEF CInv
<1> QED BY <1>4, <1>5, <1>6

(* Counting changes nothing that matters here.                             *)
LEMMA CountConverges == ASSUME CInv, NEW r \in Requests, Count(r) PROVE CInv'
<1>1. TypeInv'
  BY TaskTypes DEF CInv
<1>2. /\ UNCHANGED <<status, req, objects, events, taken, manager, held, remote, stale,
                     missed, seen>>
  BY DEF Count, vars, remoteVars
<1>3. Apart' /\ SeenWriters' /\ \A s \in Requests : Tells(s)'
  BY <1>2 DEF CInv, Apart, SeenWriters, Tells, Writing, Active
<1>4. \A o \in Objects : InStep(o)'
  BY <1>2 DEF CInv, InStep, LastTells, InHand, Covered, Later, Performed, Observed, About,
     Writing, Active, Current
<1> QED BY <1>1, <1>3, <1>4 DEF CInv

(* A writer ends: with its event in the channel, or with its object among  *)
(* those that were missed.                                                 *)
LEMMA Leaves ==
  ASSUME CInv, NEW r \in Requests, status[r] = "performed",
         status' = [status EXCEPT ![r] = "done"],
         UNCHANGED <<req, objects, taken, manager, held, remote, stale, seen>>
  PROVE  /\ Apart' /\ SeenWriters' /\ \A s \in Requests : Tells(s)'
         /\ \A o \in Objects : ~Writing(r, o) =>
              (Performed(o)' <=> Performed(o)) /\ (Observed(o) => Observed(o)')
         /\ \A o \in Objects : Writing(r, o) => ~Performed(o)'
<1>1. \A s \in Requests \ {r} : status'[s] = status[s]
  BY DEF CInv, TypeInv, SyncTypeOK
<1>2. status'[r] = "done"
  BY DEF CInv, TypeInv, SyncTypeOK
<1>3. seen \subseteq Requests
  BY DEF CInv, TypeInv, SyncTypeOK
<1>4. Apart' /\ SeenWriters' /\ \A s \in Requests : Tells(s)'
  BY <1>1, <1>2, <1>3 DEF CInv, Apart, SeenWriters, Tells, Writing, Active
<1>5. \A o \in Objects : ~Writing(r, o) =>
        (Performed(o)' <=> Performed(o)) /\ (Observed(o) => Observed(o)')
  BY <1>1, <1>2, <1>3 DEF Performed, Observed, Writing, Active
<1>6. \A o \in Objects : Writing(r, o) => ~Performed(o)'
  BY <1>1, <1>2 DEF CInv, Apart, Performed, Writing, Active
<1> QED BY <1>4, <1>5, <1>6

LEMMA SendConverges == ASSUME CInv, NEW r \in Requests, Send(r) PROVE CInv'
<1>1. TypeInv'
  BY TaskTypes DEF CInv
<1>2. /\ status[r] = "performed" /\ status' = [status EXCEPT ![r] = "done"]
      /\ UNCHANGED <<req, objects, taken, manager, held, remote, stale, seen>>
      /\ events' = Append(events, Event(req[r])) /\ missed' = missed \ {Obj(req[r])}
  BY DEF Send, Announce, Answer, remoteVars
<1>3. req[r] \in Request /\ WellFormed(req[r]) /\ req[r].kind \in Announcing
      /\ events \in Seq(Events) /\ taken \in 0..Len(events)
  BY <1>2 DEF CInv, TypeInv, SyncTypeOK, RequestsKnown
<1>4. IsEvent(Event(req[r])) /\ Subject(Event(req[r])) = Obj(req[r])
  BY <1>3, EventOfRequest
<1>5. /\ Len(events') = Len(events) + 1 /\ Len(events) \in Nat
      /\ \A i \in 1..Len(events) : events'[i] = events[i]
      /\ events'[Len(events) + 1] = Event(req[r])
  BY <1>2, <1>3, <1>4 DEF IsEvent
<1>6. Apart' /\ SeenWriters' /\ \A s \in Requests : Tells(s)'
  BY <1>2, Leaves
<1>7. ASSUME NEW o \in Objects PROVE InStep(o)'
  <2>1. CASE Writing(r, o)
    <3>1. Obj(req[r]) = o /\ req[r].kind \in Writers
      BY <2>1 DEF Writing
    <3>2. Len(events) + 1 \in About(o)' /\ \A i \in About(o)' : i <= Len(events) + 1
      BY <1>4, <1>5, <3>1 DEF About
    <3>3. Later(o)'
      BY <1>2, <1>3, <1>5, <3>2 DEF Later
    <3>4. events'[Len(events) + 1].kind = "put" <=> objects'[o] # ABSENT
      <4>1. objects[o] # ABSENT <=> req[r].kind # "delete"
        BY <1>2, <3>1 DEF CInv, Tells
      <4>2. events'[Len(events) + 1].kind = "put" <=> req[r].kind # "delete"
        BY <1>5, <3>1 DEF Event, Writers
      <4> QED BY <1>2, <4>1, <4>2
    <3>5. LastTells(o)'
      <4> SUFFICES ASSUME NEW i \in About(o)', \A j \in About(o)' : j <= i
                   PROVE  events'[i].kind = "put" <=> objects'[o] # ABSENT
        BY DEF LastTells
      <4>1. i = Len(events) + 1
        BY <1>5, <3>2 DEF About
      <4> QED BY <3>4, <4>1
    <3> QED BY <3>3, <3>5 DEF InStep, InHand, Covered
  <2>2. CASE ~Writing(r, o)
    <3>1. Obj(req[r]) # o
      BY <1>3, <2>2, NoneIsNothing DEF Writing, WellFormed, Announcing, BucketKinds, Obj, Objects
    <3>2. About(o)' = About(o)
      BY <1>4, <1>5, <3>1 DEF About
    <3>3. (Performed(o)' <=> Performed(o)) /\ (Observed(o) => Observed(o)')
      BY <1>2, <2>2, Leaves
    <3> QED BY <1>2, <1>5, <3>1, <3>2, <3>3, Elsewhere DEF CInv
  <2> QED BY <2>1, <2>2
<1> QED BY <1>1, <1>6, <1>7 DEF CInv

LEMMA DropConverges == ASSUME CInv, NEW r \in Requests, Drop(r) PROVE CInv'
<1>1. TypeInv'
  BY TaskTypes DEF CInv
<1>2. /\ status[r] = "performed" /\ status' = [status EXCEPT ![r] = "done"]
      /\ UNCHANGED <<req, objects, events, taken, manager, held, remote, stale, seen>>
      /\ missed' = missed \cup {Obj(req[r])}
  BY DEF Drop, remoteVars
<1>3. Apart' /\ SeenWriters' /\ \A s \in Requests : Tells(s)'
  BY <1>2, Leaves
<1>4. ASSUME NEW o \in Objects PROVE InStep(o)'
  <2>1. CASE Obj(req[r]) = o
    BY <1>2, <2>1, BoundToBeSeen
  <2>2. CASE Obj(req[r]) # o
    <3>1. (Performed(o)' <=> Performed(o)) /\ (Observed(o) => Observed(o)')
      BY <1>2, <2>2, Leaves DEF Writing
    <3>2. About(o)' = About(o)
      BY <1>2 DEF About
    <3> QED BY <1>2, <2>2, <3>1, <3>2, Elsewhere DEF CInv
  <2> QED BY <2>1, <2>2
<1> QED BY <1>1, <1>3, <1>4 DEF CInv

-----------------------------------------------------------------------------
(* The manager and the upstream.                                           *)

(* What these steps leave alone.                                           *)
LEMMA RequestsKeep ==
  ASSUME CInv, UNCHANGED <<status, req, objects, seen>>
  PROVE  Apart' /\ SeenWriters' /\ \A s \in Requests : Tells(s)'
BY DEF CInv, Apart, SeenWriters, Tells, Writing, Active

LEMMA LastKeeps ==
  ASSUME NEW o, LastTells(o), UNCHANGED <<status, req, objects, events, missed>>
  PROVE  LastTells(o)' /\ About(o)' = About(o)
BY DEF LastTells, About, Performed, Writing

LEMMA LaterKeeps ==
  ASSUME NEW o, UNCHANGED <<status, req, events, missed, taken>>, seen \subseteq seen'
  PROVE  Later(o) => Later(o)'
BY DEF Later, Performed, Observed, About, Writing, Active

LEMMA RecvConverges == ASSUME CInv, Recv PROVE CInv'
<1>1. TypeInv'
  BY ManagerTypes DEF CInv, Manager
<1>2. /\ manager = "recv" /\ taken' = taken + 1 /\ manager' = "subtract"
      /\ UNCHANGED <<status, req, objects, events, held, remote, stale, missed, seen>>
      /\ taken \in Nat
  BY DEF CInv, TypeInv, SyncTypeOK, Recv, vars, remoteVars
<1>3. ASSUME NEW o \in Objects PROVE InStep(o)'
  <2>1. LastTells(o)' /\ InHand(o)' /\ About(o)' = About(o)
    BY <1>2, LastKeeps DEF CInv, InStep, InHand
  <2>2. Covered(o) => Covered(o)'
    <3>1. ASSUME NEW i \in About(o), i > taken, ~(i > taken + 1)
          PROVE  Subject(Current)' = o
      <4>1. i = taken + 1
        BY <1>2, <3>1 DEF About
      <4> QED BY <1>2, <3>1, <4>1 DEF About, Current, Subject
    <3> QED BY <1>2, <2>1, <3>1 DEF Covered, Later, Performed, Observed, Writing, Active
  <2> QED BY <1>2, <2>1, <2>2 DEF CInv, InStep
<1> QED BY <1>1, <1>2, <1>3, RequestsKeep DEF CInv

LEMMA SubtractConverges == ASSUME CInv, Subtract PROVE CInv'
<1>1. TypeInv'
  BY ManagerTypes DEF CInv, Manager
<1>2. /\ manager = "subtract" /\ manager' = "begin"
      /\ UNCHANGED <<status, req, objects, events, taken, held, remote, stale, missed, seen>>
  BY DEF Subtract, vars, remoteVars
<1>3. ASSUME NEW o \in Objects PROVE InStep(o)'
  <2>1. LastTells(o)' /\ InHand(o)' /\ (Later(o) => Later(o)')
    BY <1>2, LastKeeps, LaterKeeps DEF CInv, InStep, InHand
  <2> QED BY <1>2, <2>1 DEF CInv, InStep, Covered, Current
<1> QED BY <1>1, <1>2, <1>3, RequestsKeep DEF CInv

(* The event goes on, or is given up: its object stays covered.            *)
LEMMA GoesOn ==
  ASSUME CInv, manager # "recv", NEW o \in Objects,
         UNCHANGED <<status, req, objects, events, taken, missed>>, seen \subseteq seen',
         remote'[o] = remote[o] \/ Subject(Current) = o,
         \/ manager' # "recv" /\ stale' = stale
         \/ stale' = stale \cup {Subject(Current)},
         InHand(o)'
  PROVE  InStep(o)'
<1>1. LastTells(o)' /\ (Later(o) => Later(o)') /\ Current' = Current
  BY LastKeeps, LaterKeeps DEF CInv, InStep, Current
<1>2. Subject(Current) = o => Covered(o)'
  BY <1>1 DEF Covered
<1>3. Covered(o) => Covered(o)'
  BY <1>1 DEF Covered
<1> QED BY <1>1, <1>2, <1>3 DEF CInv, InStep

(* The event is done: then the upstream must agree, or come to.            *)
LEMMA IsDone ==
  ASSUME CInv, manager # "recv", Done, NEW o \in Objects,
         UNCHANGED <<status, req, objects, events, taken, missed>>, seen \subseteq seen',
         remote'[o] = remote[o] \/ Subject(Current) = o,
         Subject(Current) = o => remote'[o] = objects[o] \/ Later(o)'
  PROVE  InStep(o)'
<1>1. LastTells(o)' /\ (Later(o) => Later(o)')
  BY LastKeeps, LaterKeeps DEF CInv, InStep
<1>2. manager' = "recv" /\ stale' = stale \ {Subject(Current)}
  BY DEF Done
<1>3. Subject(Current) # o /\ Covered(o) => Covered(o)'
  BY <1>1, <1>2 DEF Covered
<1>4. Subject(Current) = o => remote'[o] = objects[o] \/ Covered(o)'
  BY DEF Covered
<1>5. InHand(o)'
  BY <1>2 DEF InHand
<1> QED BY <1>1, <1>3, <1>4, <1>5 DEF CInv, InStep

(* If nothing else is to come, the event tells what the object is.         *)
LEMMA CurrentTells ==
  ASSUME CInv, manager # "recv", NEW o \in Objects, Subject(Current) = o, ~Later(o)
  PROVE  Current.kind = "put" <=> objects[o] # ABSENT
BY AtLast DEF CInv, InStep, Later

LEMMA BeginConverges == ASSUME CInv, Begin PROVE CInv'
<1>1. TypeInv'
  BY ManagerTypes DEF CInv, Manager
<1>2. /\ manager = "begin"
      /\ UNCHANGED <<status, req, objects, events, taken, remote, missed>>
  BY DEF Begin, vars, remoteVars
<1>3. Current' = Current /\ seen \subseteq Requests
  BY <1>2 DEF Current, CInv, TypeInv, SyncTypeOK
<1>4. CASE Current.kind = "put"
  <2>1. ReadLocal
    BY <1>4 DEF Begin
  <2>2. \/ held' = objects[Subject(Current)] /\ seen' = seen
        \/ \E w \in Overwriting(Subject(Current)) : seen' = seen \cup {w}
    BY <2>1 DEF ReadLocal
  <2>3. seen \subseteq seen' /\ Apart' /\ \A s \in Requests : Tells(s)'
    BY <1>2, <2>2 DEF CInv, Apart, Tells, Writing, Active
  <2>4. SeenWriters'
    BY <1>2, <2>2 DEF CInv, SeenWriters, Overwriting, Active
  <2>5. ASSUME NEW o \in Objects, Subject(Current) = o
        PROVE  held' = objects[o] \/ Later(o)'
    <3>1. ASSUME NEW w \in Overwriting(o), seen' = seen \cup {w}
          PROVE  Observed(o)'
      BY <1>2, <1>3, <3>1 DEF Overwriting, Observed, Writing, Active
    <3> QED BY <2>2, <2>5, <3>1 DEF Later
  <2>6. ASSUME NEW o \in Objects PROVE InStep(o)'
    <3>1. CASE held' = ABSENT
      <4>1. Done
        BY <1>4, <3>1 DEF Begin
      <4>2. Subject(Current) = o => remote'[o] = objects[o] \/ Later(o)'
        <5>1. Later(o) => Later(o)'
          BY <1>2, <2>3, LaterKeeps
        <5> QED BY <1>2, <1>4, <2>5, <3>1, <5>1, CurrentTells
      <4> QED BY <1>2, <2>3, <4>1, <4>2, IsDone
    <3>2. CASE held' # ABSENT
      <4>1. manager' = "head" /\ stale' = stale
        BY <1>4, <3>2 DEF Begin
      <4>2. InHand(o)'
        BY <1>2, <1>3, <2>5 DEF InHand
      <4> QED BY <1>2, <2>3, <4>1, <4>2, GoesOn
    <3> QED BY <3>1, <3>2
  <2> QED BY <1>1, <2>3, <2>4, <2>6 DEF CInv
<1>5. CASE Current.kind # "put"
  <2>1. UNCHANGED <<held, stale, seen>> /\ manager' # "recv"
    BY <1>5 DEF Begin
  <2>2. ASSUME NEW o \in Objects PROVE InStep(o)'
    <3>1. InHand(o)'
      BY <1>3, <1>5 DEF InHand
    <3> QED BY <1>2, <2>1, <3>1, GoesOn
  <2> QED BY <1>1, <1>2, <2>1, <2>2, RequestsKeep DEF CInv
<1> QED BY <1>4, <1>5

LEMMA UpstreamConverges == ASSUME CInv, Upstream PROVE CInv'
<1>1. TypeInv'
  BY CallTypes DEF CInv
<1>2. /\ manager \notin {"recv", "subtract", "begin"}
      /\ UNCHANGED <<status, req, objects, events, taken, held, missed, seen>>
  BY DEF Upstream, HeadBucket, CreateBucket, PutObject, DeleteObject, DeleteBucket, CallVars, vars
<1>3. Current' = Current
  BY <1>2 DEF Current
<1>4. IsEvent(Current) /\ Current.kind \in BucketKinds => Subject(Current) \notin Objects
  BY NoneIsNothing DEF IsEvent, Subject, Objects
<1>5. IsEvent(Current)
  BY <1>2, CurrentIsEvent DEF CInv
<1>6. ASSUME NEW o \in Objects PROVE InStep(o)'
  <2>1. Later(o) => Later(o)'
    BY <1>2, LaterKeeps
  <2>2. ASSUME remote'[o] = remote[o] \/ Subject(Current) = o, Retry
        PROVE  InStep(o)'
    <3>1. InHand(o)'
      BY <2>2 DEF InHand, Retry
    <3> QED BY <1>2, <2>2, <3>1, GoesOn DEF Retry
  <2>3. ASSUME manager \in {"head", "create_bucket"}, remote' = remote,
               NEW next \in {"create_bucket", "put"}, To(next)
        PROVE  InStep(o)'
    <3>1. InHand(o)'
      BY <1>2, <1>3, <2>1, <2>3 DEF CInv, InStep, InHand, To
    <3> QED BY <1>2, <2>3, <3>1, GoesOn DEF To
  <2>4. ASSUME remote' = remote, Done, Current.kind \in BucketKinds
        PROVE  InStep(o)'
    BY <1>2, <1>4, <1>5, <2>4, IsDone
  <2>5. CASE HeadBucket
    <3>1. manager = "head" /\ remote' = remote
      BY <2>5 DEF HeadBucket, remoteVars
    <3>2. Current.kind = "put" \/ Current.kind \in BucketKinds
      BY <3>1 DEF CInv, TypeInv, Phases, BucketKinds
    <3>3. To("put") \/ To("create_bucket") \/ Retry \/ (Done /\ Current.kind # "put")
      BY <2>5 DEF HeadBucket, Put
    <3> QED BY <2>2, <2>3, <2>4, <3>1, <3>2, <3>3
  <2>6. CASE CreateBucket
    <3>1. manager = "create_bucket" /\ remote' = remote
      BY <2>6 DEF CreateBucket
    <3>2. Current.kind = "put" \/ Current.kind \in BucketKinds
      BY <3>1 DEF CInv, TypeInv, Phases, BucketKinds
    <3>3. To("put") \/ Retry \/ (Done /\ Current.kind # "put")
      BY <2>6 DEF CreateBucket, Put
    <3> QED BY <2>2, <2>3, <2>4, <3>1, <3>2, <3>3
  <2>7. CASE PutObject
    <3>1. manager = "put" /\ Current.kind = "put"
      BY <2>7 DEF PutObject, CInv, TypeInv, Phases
    <3>2. Subject(Current) \in Objects
      BY <1>2, <3>1, CurrentIsEvent DEF CInv
    <3>3. \/ remote' = [remote EXCEPT ![Subject(Current)] = held] /\ (Done \/ Retry)
          \/ remote' = remote /\ Retry
      BY <2>7 DEF PutObject
    <3>4. remote'[o] = remote[o] \/ Subject(Current) = o
      BY <3>3 DEF CInv, TypeInv, SyncTypeOK
    <3>5. CASE Done /\ remote' = [remote EXCEPT ![Subject(Current)] = held]
      <4>1. Subject(Current) = o => remote'[o] = held
        BY <3>5 DEF CInv, TypeInv, SyncTypeOK
      <4>2. Subject(Current) = o => held = objects[o] \/ Later(o)
        BY <3>1 DEF CInv, InStep, InHand
      <4> QED BY <1>2, <2>1, <3>4, <3>5, <4>1, <4>2, IsDone
    <3> QED BY <2>2, <3>3, <3>4, <3>5
  <2>8. CASE DeleteObject
    <3>1. manager = "delete" /\ Current.kind = "delete"
      BY <2>8 DEF DeleteObject, CInv, TypeInv, Phases
    <3>2. \/ remote' = [remote EXCEPT ![Subject(Current)] = ABSENT] /\ (Done \/ Retry)
          \/ remote' = remote /\ Retry
      BY <2>8 DEF DeleteObject
    <3>3. remote'[o] = remote[o] \/ Subject(Current) = o
      BY <3>2 DEF CInv, TypeInv, SyncTypeOK
    <3>4. CASE Done /\ remote' = [remote EXCEPT ![Subject(Current)] = ABSENT]
      <4>1. Subject(Current) = o => remote'[o] = ABSENT
        BY <3>4 DEF CInv, TypeInv, SyncTypeOK
      <4>2. Subject(Current) = o => objects[o] = ABSENT \/ Later(o)
        BY <1>2, <3>1, CurrentTells
      <4> QED BY <1>2, <2>1, <3>3, <3>4, <4>1, <4>2, IsDone
    <3> QED BY <2>2, <3>2, <3>3, <3>4
  <2>9. CASE DeleteBucket
    <3>1. manager = "delete_bucket" /\ Current.kind \in BucketKinds /\ remote' = remote
      BY <2>9 DEF DeleteBucket, CInv, TypeInv, Phases, BucketKinds
    <3>2. Done \/ Retry
      BY <2>9 DEF DeleteBucket
    <3> QED BY <2>2, <2>4, <3>1, <3>2
  <2> QED BY <2>5, <2>6, <2>7, <2>8, <2>9 DEF Upstream
<1> QED BY <1>1, <1>2, <1>6, RequestsKeep DEF CInv

(* What was under way is lost, and counts as missed or stale from now on.  *)
LEMMA CrashConverges == ASSUME CInv, Crash PROVE CInv'
<1>1. TypeInv'
  BY CrashTypes DEF CInv
<1> DEFINE cut == {r \in Requests : Active(r)}
<1>2. /\ stale' = stale \cup {Subject(events[i]) : i \in Unfinished}
      /\ missed' = missed \cup {Obj(req[r]) : r \in cut}
      /\ status' = [r \in Requests |-> IF r \in cut THEN "done" ELSE status[r]]
      /\ taken' = Len(events) /\ manager' = "recv"
      /\ UNCHANGED <<objects, req, events, remote, seen>>
  BY DEF Crash, remoteVars
<1>3. seen \subseteq Requests /\ taken \in 0..Len(events) /\ Len(events) \in Nat
      /\ (manager # "recv" => taken \in 1..Len(events))
  BY DEF CInv, TypeInv, SyncTypeOK
<1>4. \A r \in Requests : ~Active(r)' /\ (status[r] # "idle" => status'[r] # "idle")
  BY <1>2 DEF Active
<1>5. Apart' /\ SeenWriters' /\ \A s \in Requests : Tells(s)'
  BY <1>2, <1>3, <1>4 DEF CInv, Apart, SeenWriters, Tells, Active
<1>6. ASSUME NEW o \in Objects PROVE InStep(o)'
  <2>1. CASE o \in missed'
    BY <2>1, BoundToBeSeen
  <2>2. CASE o \notin missed'
    <3>1. o \notin missed /\ ~Performed(o) /\ ~Observed(o)
      BY <1>2, <1>3, <2>2 DEF Performed, Observed, Writing, Active
    <3>2. About(o)' = About(o)
      BY <1>2 DEF About
    <3>3. LastTells(o)'
      BY <1>2, <3>1, <3>2 DEF CInv, InStep, LastTells
    <3>4. InHand(o)'
      BY <1>2 DEF InHand
    <3>5. Covered(o) => o \in stale'
      <4>1. \A i \in About(o) : i > taken => i \in Unfinished
        BY <1>3 DEF About, Unfinished, Waiting
      <4>2. manager # "recv" => taken \in Unfinished
        BY DEF Unfinished
      <4> QED BY <1>2, <3>1, <4>1, <4>2 DEF Covered, Later, About, Current
    <3> QED BY <1>2, <3>3, <3>4, <3>5 DEF CInv, InStep, Covered
  <2> QED BY <2>1, <2>2
<1> QED BY <1>1, <1>5, <1>6 DEF CInv

LEMMA ConvergedStep == ASSUME CInv, Careful, [SyncNext]_allVars PROVE CInv'
<1>1. CASE UNCHANGED allVars
  <2>1. TypeInv'
    BY <1>1, TypeStep DEF CInv
  <2>2. UNCHANGED <<status, req, objects, events, taken, manager, held, remote, stale, missed,
                    seen>>
    BY <1>1 DEF allVars, vars, syncVars, remoteVars
  <2>3. \A o \in Objects : InStep(o)'
    BY <2>2 DEF CInv, InStep, LastTells, InHand, Covered, Later, Performed, Observed, About,
       Writing, Active, Current
  <2> QED BY <2>1, <2>2, <2>3, RequestsKeep DEF CInv
<1> QED BY <1>1, StoreStepConverges, CountConverges, SendConverges, DropConverges,
           RecvConverges, SubtractConverges, BeginConverges, UpstreamConverges,
           CrashConverges DEF SyncNext, Manager

(* Lost calls, lost answers, retries, dropped handlers and restarts in any *)
(* number: once nothing about an object is under way, the upstream agrees, *)
(* unless its last change was not announced or its event was given up or   *)
(* lost (sync/mod.rs, process_with_retry and process_event).               *)
THEOREM ConvergedCorrect ==
  ASSUME Careful
  PROVE  SyncSpec => []Converged
<1>1. CInv => Converged
  <2> SUFFICES ASSUME CInv, NEW o \in Objects, Quiet(o), o \notin stale \cup missed
               PROVE  remote[o] = objects[o]
    BY DEF Converged
  <2>1. ~Performed(o) /\ ~Observed(o)
    BY DEF CInv, TypeInv, SyncTypeOK, Quiet, Performed, Observed, Writing, Active
  <2>2. \A i \in About(o) : ~(i > taken)
    BY DEF CInv, TypeInv, SyncTypeOK, Quiet, Unfinished, Waiting, About
  <2>3. manager # "recv" => Subject(Current) # o
    BY DEF Quiet, Unfinished, Current
  <2> QED BY <2>1, <2>2, <2>3 DEF CInv, InStep, Covered, Later
<1>2. CInv /\ [SyncNext]_allVars => CInv'
  BY ConvergedStep
<1> QED BY <1>1, <1>2, ConvergedInit, PTL DEF SyncSpec

-----------------------------------------------------------------------------
(* Buckets.                                                                *)

BucketCareful == Writers \cup BucketKinds \subseteq Serialised /\ Keys # {}

Mark(b) == <<b, NONE>>
BucketsApart ==
  \A r, s \in Requests : r # s /\ Active(r) /\ Active(s) =>
    ~(/\ req[r].kind \in BucketKinds /\ req[s].kind \in Writers \cup BucketKinds
      /\ req[r].bucket = req[s].bucket)

Housed == \A o \in Objects : objects[o] # ABSENT => o[1] \in buckets
TellsBucket(r) ==
  status[r] = "performed" =>
    /\ req[r].kind \in Writers \cup {"create_bucket"} => req[r].bucket \in buckets
    /\ req[r].kind = "delete_bucket" => req[r].bucket \notin buckets

Changing(b) ==
  \E r \in Requests : /\ status[r] = "performed"
                      /\ req[r].kind \in BucketKinds /\ req[r].bucket = b
Owed(b) == Covered(Mark(b)) \/ Changing(b)
Astir(b) == Owed(b) \/ \E k \in Keys : Covered(<<b, k>>)

Of(b) == {i \in 1..Len(events) : events[i].bucket = b}
IsLast(S, i) == i \in S /\ \A j \in S : j <= i

(* The last event about a bucket tells whether it is there; when it is not,*)
(* no event of its objects comes later.                                    *)
LastTellsBucket(b) ==
  Mark(b) \notin missed /\ ~Changing(b) =>
    /\ \A i \in 1..Len(events) : IsLast(About(Mark(b)), i)
         => (events[i].kind = "create_bucket" <=> b \in buckets)
    /\ b \notin buckets =>
         \A i \in 1..Len(events) : IsLast(Of(b), i) => events[i].kind = "delete_bucket"

BucketInStep(b) ==
  /\ LastTellsBucket(b)
  /\ b \in buckets /\ b \notin remoteBuckets => Owed(b)
  /\ b \in remoteBuckets /\ b \notin buckets => Astir(b)

BInv ==
  /\ CInv
  /\ BucketsApart
  /\ Housed
  /\ \A r \in Requests : TellsBucket(r)
  /\ \A b \in Buckets : BucketInStep(b)

-----------------------------------------------------------------------------
LEMMA BucketsInit == SyncInit => BInv
<1> SUFFICES ASSUME SyncInit PROVE BInv
  OBVIOUS
<1>1. /\ Len(events) = 0 /\ status = [r \in Requests |-> "idle"]
      /\ remoteBuckets = buckets
      /\ \A o \in Objects : objects[o] # ABSENT => o[1] \in buckets
  BY DEF SyncInit, Init
<1>2. BucketsApart /\ Housed /\ \A r \in Requests : TellsBucket(r)
  BY <1>1 DEF BucketsApart, Housed, TellsBucket, Active
<1>3. \A b \in Buckets : BucketInStep(b)
  BY <1>1 DEF BucketInStep, LastTellsBucket
<1> QED BY <1>2, <1>3, ConvergedInit DEF BInv

(* A bucket request conflicts with every writer in its bucket.             *)
LEMMA BucketConflict ==
  ASSUME BucketCareful, NEW p \in Request, NEW q \in Request, WellFormed(p), WellFormed(q),
         p.kind \in BucketKinds, q.kind \in Writers \cup BucketKinds, p.bucket = q.bucket
  PROVE  Conflict(p, q) /\ Conflict(q, p)
<1>1. PICK k \in Keys : TRUE
  BY DEF BucketCareful
<1>2. <<p.bucket, k>> \in Touches(p)
  BY DEF Touches, BucketKinds
<1>3. q.kind \in BucketKinds => <<p.bucket, k>> \in Touches(q)
  BY DEF Touches, BucketKinds
<1>4. q.kind \in Writers => Obj(q) \in Touches(q) /\ Obj(q) \in Touches(p)
  <2>1. q.kind \in Writers => q.key \in Keys
    BY DEF WellFormed, Request, Writers, BucketKinds
  <2> QED BY <2>1 DEF Touches, Writers, BucketKinds, Obj
<1> QED BY <1>2, <1>3, <1>4 DEF Conflict, BucketCareful

(* What is covered stays so while requests and the channel move.           *)
LEMMA CoveredKeeps ==
  ASSUME CInv, NEW x,
         \/ StoreStep \/ Recv \/ Subtract \/ Crash
         \/ \E r \in Requests : Count(r) \/ Send(r) \/ Drop(r)
  PROVE  Covered(x) => Covered(x)'
<1>0. /\ status \in [Requests -> {"idle", "working", "performed", "done"}]
      /\ seen \subseteq Requests /\ req \in [Requests -> Request]
      /\ taken \in 0..Len(events) /\ Len(events) \in Nat
      /\ (manager # "recv" => taken \in 1..Len(events)) /\ events \in Seq(Events)
  BY DEF CInv, TypeInv, SyncTypeOK
<1>1. CASE StoreStep
  <2> PICK r \in Requests : Invoke(r) \/ (r \notin seen /\ Refuse(r)) \/ Read(r) \/ Perform(r)
    BY <1>1 DEF StoreStep
  <2>1. UNCHANGED <<events, taken, manager, stale, missed, seen>>
    BY <1>1 DEF StoreStep, Invoke, Refuse, Read, Perform, syncVars
  <2>2. \A s \in Requests \ {r} : status'[s] = status[s] /\ req'[s] = req[s]
    BY <1>0 DEF Invoke, Refuse, Read, Perform, Answer
  <2>3. r \in seen => status[r] = "working" /\ status'[r] = "performed" /\ req'[r] = req[r]
    BY <1>0 DEF CInv, SeenWriters, Invoke, Refuse, Read, Perform, Answer, Active, Writers
  <2>4. status[r] # "performed"
    BY DEF Invoke, Refuse, Read, Perform
  <2>5. (Performed(x) => Performed(x)') /\ (Observed(x) => Observed(x)')
    BY <1>0, <2>1, <2>2, <2>3, <2>4 DEF Performed, Observed, Writing, Active
  <2> QED BY <2>1, <2>5 DEF Covered, Later, About, Current
<1>2. ASSUME NEW r \in Requests, Count(r) PROVE Covered(x) => Covered(x)'
  BY <1>2 DEF Count, vars, Covered, Later, About, Current, Performed, Observed, Writing, Active
<1>3. ASSUME NEW r \in Requests, Send(r) PROVE Covered(x) => Covered(x)'
  <2>1. /\ status[r] = "performed" /\ status' = [status EXCEPT ![r] = "done"]
        /\ UNCHANGED <<req, taken, manager, stale, seen>>
        /\ events' = Append(events, Event(req[r])) /\ missed' = missed \ {Obj(req[r])}
    BY <1>3 DEF Send, Announce, Answer
  <2>2. IsEvent(Event(req[r])) /\ Subject(Event(req[r])) = Obj(req[r])
    BY <1>0, <2>1, EventOfRequest DEF CInv, TypeInv, RequestsKnown
  <2>3. /\ Len(events') = Len(events) + 1
        /\ \A i \in 1..Len(events) : events'[i] = events[i]
        /\ events'[Len(events) + 1] = Event(req[r])
    BY <1>0, <2>1, <2>2 DEF IsEvent
  <2>4. x = Obj(req[r]) => Later(x)'
    BY <1>0, <2>1, <2>2, <2>3 DEF Later, About
  <2>5. x # Obj(req[r]) => (Performed(x) => Performed(x)') /\ (Observed(x) => Observed(x)')
    BY <1>0, <2>1 DEF Performed, Observed, Writing, Active
  <2>6. \A i \in About(x) : i \in About(x)'
    BY <1>0, <2>3 DEF About
  <2>7. manager # "recv" => Current' = Current
    BY <1>0, <2>1, <2>3 DEF Current
  <2> QED BY <2>1, <2>4, <2>5, <2>6, <2>7 DEF Covered, Later
<1>4. ASSUME NEW r \in Requests, Drop(r) PROVE Covered(x) => Covered(x)'
  <2>1. /\ status[r] = "performed" /\ status' = [status EXCEPT ![r] = "done"]
        /\ UNCHANGED <<req, events, taken, manager, stale, seen>>
        /\ missed' = missed \cup {Obj(req[r])}
    BY <1>4 DEF Drop
  <2>2. x # Obj(req[r]) => (Performed(x) => Performed(x)') /\ (Observed(x) => Observed(x)')
    BY <1>0, <2>1 DEF Performed, Observed, Writing, Active
  <2> QED BY <2>1, <2>2 DEF Covered, Later, About, Current
<1>5. CASE Recv
  <2>1. /\ manager = "recv" /\ taken' = taken + 1 /\ manager' = "subtract"
        /\ UNCHANGED <<status, req, events, stale, missed, seen>>
    BY <1>5 DEF Recv, vars
  <2>2. ASSUME NEW i \in About(x), i > taken, ~(i > taken + 1)
        PROVE  Subject(Current)' = x
    <3>1. i = taken + 1
      BY <1>0, <2>2 DEF About
    <3> QED BY <2>1, <2>2, <3>1 DEF About, Current, Subject
  <2> QED BY <2>1, <2>2 DEF Covered, Later, About, Performed, Observed, Writing, Active
<1>6. CASE Subtract
  BY <1>6 DEF Subtract, vars, Covered, Later, About, Current, Performed, Observed, Writing, Active
<1>7. CASE Crash
  <2>1. /\ stale' = stale \cup {Subject(events[i]) : i \in Unfinished}
        /\ missed' = missed \cup {Obj(req[r]) : r \in {s \in Requests : Active(s)}}
    BY <1>7 DEF Crash
  <2>2. Performed(x) \/ Observed(x) => x \in missed'
    BY <1>0, <2>1 DEF Performed, Observed, Writing, Active
  <2>3. (\E i \in About(x) : i > taken) => x \in stale'
    BY <1>0, <2>1 DEF About, Unfinished, Waiting
  <2>4. manager # "recv" /\ Subject(Current) = x => x \in stale'
    BY <2>1 DEF Unfinished, Current
  <2> QED BY <2>1, <2>2, <2>3, <2>4 DEF Covered, Later
<1> QED BY <1>1, <1>2, <1>3, <1>4, <1>5, <1>6, <1>7

(* A bucket request that ends leaves its bucket covered.                   *)
LEMMA OwedKeeps ==
  ASSUME CInv, NEW b \in Buckets,
         \/ StoreStep \/ Recv \/ Subtract \/ Crash
         \/ \E r \in Requests : Count(r) \/ Send(r) \/ Drop(r)
  PROVE  (Owed(b) => Owed(b)') /\ (Astir(b) => Astir(b)')
<1>0. /\ status \in [Requests -> {"idle", "working", "performed", "done"}]
      /\ req \in [Requests -> Request]
      /\ taken \in 0..Len(events) /\ Len(events) \in Nat /\ events \in Seq(Events)
  BY DEF CInv, TypeInv, SyncTypeOK
<1>1. ASSUME Changing(b) PROVE Owed(b)'
  <2> PICK x \in Requests : status[x] = "performed" /\ req[x].kind \in BucketKinds
                             /\ req[x].bucket = b
    BY <1>1 DEF Changing
  <2>1. WellFormed(req[x]) /\ Obj(req[x]) = Mark(b)
    BY <1>0 DEF CInv, TypeInv, RequestsKnown, WellFormed, Obj, Mark
  <2>2. CASE status'[x] = "performed" /\ req'[x] = req[x]
    BY <2>2 DEF Owed, Changing
  <2>3. CASE Send(x)
    <3>1. events' = Append(events, Event(req[x])) /\ UNCHANGED taken
      BY <2>3 DEF Send, Announce
    <3>2. IsEvent(Event(req[x])) /\ Subject(Event(req[x])) = Mark(b)
      BY <1>0, <2>1, EventOfRequest DEF Announcing
    <3>3. Len(events') = Len(events) + 1 /\ events'[Len(events) + 1] = Event(req[x])
      BY <1>0, <3>1, <3>2 DEF IsEvent
    <3>4. Later(Mark(b))'
      BY <1>0, <3>1, <3>2, <3>3 DEF Later, About, Mark
    <3> QED BY <3>4 DEF Owed, Covered
  <2>4. CASE Drop(x) \/ Crash
    <3>1. Mark(b) \in missed'
      BY <2>1, <2>4 DEF Drop, Crash, Active
    <3> QED BY <3>1 DEF Owed, Covered, Later, Mark
  <2>5. CASE ~Send(x) /\ ~Drop(x) /\ ~Crash
    <3>1. StoreStep => status'[x] = "performed" /\ req'[x] = req[x]
      BY <1>0 DEF StoreStep, Invoke, Refuse, Read, Perform, Answer
    <3>2. \A r \in Requests : r # x /\ (Send(r) \/ Drop(r))
                                => status'[x] = "performed" /\ req'[x] = req[x]
      BY <1>0 DEF Send, Drop, Announce, Answer
    <3>3. Recv \/ Subtract \/ (\E r \in Requests : Count(r))
                                => status'[x] = "performed" /\ req'[x] = req[x]
      BY DEF Recv, Subtract, Count, vars
    <3> QED BY <2>2, <2>5, <3>1, <3>2, <3>3
  <2> QED BY <2>3, <2>4, <2>5
<1>2. \A x : Covered(x) => Covered(x)'
  BY CoveredKeeps
<1>3. Owed(b) => Owed(b)'
  BY <1>1, <1>2 DEF Owed, Mark
<1> QED BY <1>2, <1>3 DEF Astir

(* A step in which no bucket request begins or takes effect.               *)
LEMMA SettlingKeeps ==
  ASSUME BInv, UNCHANGED <<req, objects, buckets>>,
         \A s \in Requests : /\ Active(s)' => Active(s)
                             /\ status'[s] = "performed" => status[s] = "performed"
  PROVE  BucketsApart' /\ Housed' /\ \A s \in Requests : TellsBucket(s)'
BY DEF BInv, BucketsApart, Housed, TellsBucket

(* A step of the requests or of the channel that is about other buckets.   *)
LEMMA BucketElsewhere ==
  ASSUME BInv, NEW b \in Buckets,
         \/ StoreStep \/ Recv \/ Subtract \/ Crash
         \/ \E r \in Requests : Count(r) \/ Send(r) \/ Drop(r),
         remoteBuckets' = remoteBuckets, b \in buckets' <=> b \in buckets,
         Mark(b) \notin missed' => Mark(b) \notin missed /\ (Changing(b) => Changing(b)'),
         Of(b)' = Of(b), About(Mark(b))' = About(Mark(b)),
         \A i \in 1..Len(events) : events'[i] = events[i]
  PROVE  BucketInStep(b)'
<1>1. (Owed(b) => Owed(b)') /\ (Astir(b) => Astir(b)')
  BY OwedKeeps DEF BInv
<1>2. LastTellsBucket(b)'
  <2> SUFFICES ASSUME Mark(b)' \notin missed', ~Changing(b)' PROVE LastTellsBucket(b)'
    BY DEF LastTellsBucket
  <2>1. Mark(b) \notin missed /\ ~Changing(b)
    BY DEF Mark
  <2>2. \A i : IsLast(Of(b), i)' => i \in 1..Len(events) /\ IsLast(Of(b), i)
    BY DEF IsLast, Of
  <2>3. \A i : IsLast(About(Mark(b)), i)' => i \in 1..Len(events) /\ IsLast(About(Mark(b)), i)
    BY DEF IsLast, About
  <2> QED BY <2>1, <2>2, <2>3 DEF BInv, BucketInStep, LastTellsBucket
<1> QED BY <1>1, <1>2 DEF BInv, BucketInStep

LEMMA StoreStepBuckets == ASSUME BInv, BucketCareful, StoreStep PROVE BInv'
<1>0. CInv'
  BY StoreStepConverges DEF BInv, BucketCareful, Careful
<1> PICK r \in Requests : Invoke(r) \/ (r \notin seen /\ Refuse(r)) \/ Read(r) \/ Perform(r)
  BY DEF StoreStep
<1>1. UNCHANGED <<events, missed, remoteBuckets>>
  BY DEF StoreStep, Invoke, Refuse, Read, Perform, syncVars, remoteVars
<1>2. /\ status \in [Requests -> {"idle", "working", "performed", "done"}]
      /\ req \in [Requests -> Request] /\ objects \in [Objects -> Values \cup {ABSENT}]
      /\ buckets \subseteq Buckets /\ RequestsKnown
  BY DEF BInv, CInv, TypeInv, SyncTypeOK
<1>3. \A b : Of(b)' = Of(b) /\ About(Mark(b))' = About(Mark(b))
  BY <1>1 DEF Of, About, Mark
<1>4. CASE Invoke(r)
  <2>1. PICK q \in Request :
          /\ WellFormed(q)
          /\ \A s \in Requests : Active(s) => ~Conflict(q, req[s])
          /\ req' = [req EXCEPT ![r] = q]
          /\ status' \in {[status EXCEPT ![r] = "working"], [status EXCEPT ![r] = "done"]}
    BY <1>4 DEF Invoke, Answer
  <2>2. status[r] = "idle" /\ UNCHANGED <<objects, buckets>>
    BY <1>4 DEF Invoke
  <2>3. \A s \in Requests \ {r} : req'[s] = req[s] /\ status'[s] = status[s]
    BY <1>2, <2>1
  <2>4. req'[r] = q /\ status'[r] \in {"working", "done"}
    BY <1>2, <2>1
  <2>5. BucketsApart'
    <3>1. ASSUME NEW s \in Requests \ {r}, Active(s), q.bucket = req[s].bucket
          PROVE  /\ q.kind \in BucketKinds => req[s].kind \notin Writers \cup BucketKinds
                 /\ req[s].kind \in BucketKinds => q.kind \notin Writers \cup BucketKinds
      <4>1. req[s] \in Request /\ WellFormed(req[s])
        BY <1>2, <3>1 DEF RequestsKnown, Active
      <4> QED BY <2>1, <3>1, <4>1, BucketConflict
    <3> QED BY <2>3, <2>4, <3>1 DEF BInv, BucketsApart, Active
  <2>6. Housed' /\ \A s \in Requests : TellsBucket(s)'
    BY <2>2, <2>3, <2>4 DEF BInv, Housed, TellsBucket
  <2>7. \A b : Changing(b) => Changing(b)'
    BY <2>2, <2>3 DEF Changing
  <2>8. \A b \in Buckets : BucketInStep(b)'
    BY <1>1, <1>3, <2>2, <2>7, BucketElsewhere
  <2> QED BY <1>0, <2>5, <2>6, <2>8 DEF BInv
<1>5. CASE (r \notin seen /\ Refuse(r)) \/ Read(r)
  <2>1. /\ status[r] = "working" /\ status' = [status EXCEPT ![r] = "done"]
        /\ UNCHANGED <<buckets, objects, req>>
    BY <1>5 DEF Refuse, Read, Answer
  <2>2. \A s \in Requests : /\ Active(s)' => Active(s)
                            /\ status'[s] = "performed" <=> status[s] = "performed"
    BY <1>2, <2>1 DEF Active
  <2>3. \A b : Changing(b) => Changing(b)'
    BY <2>1, <2>2 DEF Changing
  <2>4. \A b \in Buckets : BucketInStep(b)'
    BY <1>1, <1>3, <2>1, <2>3, BucketElsewhere
  <2> QED BY <1>0, <2>1, <2>2, <2>4, SettlingKeeps DEF BInv
<1>6. CASE Perform(r)
  <2>1. /\ status[r] = "working" /\ status' = [status EXCEPT ![r] = "performed"]
        /\ req' = req
    BY <1>6 DEF Perform
  <2>2. /\ \A s \in Requests \ {r} : status'[s] = status[s]
        /\ status'[r] = "performed"
    BY <1>2, <2>1
  <2>3. WellFormed(req[r]) /\ req[r] \in Request
    BY <1>2, <2>1 DEF RequestsKnown
  <2>4. BucketsApart'
    BY <2>1, <2>2 DEF BInv, BucketsApart, Active
  <2>5. \A b : Changing(b) => Changing(b)'
    BY <2>1, <2>2 DEF Changing
  <2>6. CASE req[r].kind \in Writers
    <3>1. req[r].bucket \in buckets /\ buckets' = buckets
      BY <1>6, <2>6 DEF Perform, Writers
    <3>2. \A o \in Objects : o # Obj(req[r]) => objects'[o] = objects[o]
      BY <1>2, <1>6, <2>6 DEF Perform, Writers
    <3>3. Housed'
      BY <3>1, <3>2 DEF BInv, Housed, Obj
    <3>4. \A s \in Requests : TellsBucket(s)'
      BY <2>1, <2>2, <2>6, <3>1 DEF BInv, TellsBucket, Writers
    <3>5. \A b \in Buckets : BucketInStep(b)'
      BY <1>1, <1>3, <2>5, <3>1, BucketElsewhere
    <3> QED BY <1>0, <2>4, <3>3, <3>4, <3>5 DEF BInv
  <2>7. CASE req[r].kind \in BucketKinds
    <3> DEFINE c == req[r].bucket
    <3>1. \/ req[r].kind = "create_bucket" /\ buckets' = buckets \cup {c}
          \/ req[r].kind = "delete_bucket" /\ Held(c) = {} /\ buckets' = buckets \ {c}
      BY <1>6, <2>7 DEF Perform, Writers, BucketKinds
    <3>2. objects' = objects
      BY <1>6, <2>7 DEF Perform, Writers, BucketKinds
    <3>3. Housed'
      <4> SUFFICES ASSUME NEW o \in Objects, objects[o] # ABSENT PROVE o[1] \in buckets'
        BY <3>2 DEF Housed
      <4>1. o[1] \in buckets
        BY DEF BInv, Housed
      <4>2. o = <<o[1], o[2]>> /\ o[2] \in Keys
        BY DEF Objects
      <4>3. o[1] = c => Held(c) # {}
        BY <4>2 DEF Held
      <4> QED BY <3>1, <4>1, <4>3
    <3>4. \A s \in Requests : TellsBucket(s)'
      <4> SUFFICES ASSUME NEW s \in Requests, status'[s] = "performed"
                   PROVE  /\ req[s].kind \in Writers \cup {"create_bucket"}
                               => req[s].bucket \in buckets'
                          /\ req[s].kind = "delete_bucket" => req[s].bucket \notin buckets'
        BY <2>1 DEF TellsBucket
      <4>1. CASE s = r
        BY <2>7, <3>1, <4>1 DEF Writers, BucketKinds
      <4>2. CASE s # r
        <5>1. status[s] = "performed"
          BY <2>2, <4>2
        <5>2. req[s].kind \in Writers \cup BucketKinds => req[s].bucket # c
          BY <2>1, <2>7, <4>2, <5>1 DEF BInv, BucketsApart, Active
        <5> QED BY <3>1, <5>1, <5>2 DEF BInv, TellsBucket, BucketKinds
      <4> QED BY <4>1, <4>2
    <3>5. ASSUME NEW b \in Buckets PROVE BucketInStep(b)'
      <4>1. CASE b = c
        <5>1. Changing(b)'
          BY <2>1, <2>2, <2>7, <4>1 DEF Changing
        <5> QED BY <5>1 DEF BucketInStep, LastTellsBucket, Owed, Astir
      <4>2. CASE b # c
        <5>1. b \in buckets' <=> b \in buckets
          BY <3>1, <4>2
        <5> QED BY <1>1, <1>3, <2>5, <5>1, BucketElsewhere
      <4> QED BY <4>1, <4>2
    <3> QED BY <1>0, <2>4, <3>3, <3>4, <3>5 DEF BInv
  <2>8. req[r].kind \in Writers \cup BucketKinds
    BY <1>6 DEF Perform, BucketKinds
  <2> QED BY <2>6, <2>7, <2>8
<1> QED BY <1>4, <1>5, <1>6

-----------------------------------------------------------------------------
(* The channel.                                                            *)

LEMMA CountBuckets == ASSUME BInv, NEW r \in Requests, Count(r) PROVE BInv'
<1>1. UNCHANGED <<status, req, objects, buckets, events, missed, remoteBuckets>>
  BY DEF Count, vars, remoteVars
<1>2. \A b \in Buckets : BucketInStep(b)'
  BY <1>1, BucketElsewhere DEF Changing, Of, About, Mark
<1> QED BY <1>1, <1>2, CountConverges, SettlingKeeps DEF BInv, Active

LEMMA SendBuckets == ASSUME BInv, NEW r \in Requests, Send(r) PROVE BInv'
<1>1. /\ status[r] = "performed" /\ status' = [status EXCEPT ![r] = "done"]
      /\ UNCHANGED <<req, objects, buckets, remoteBuckets>>
      /\ events' = Append(events, Event(req[r])) /\ missed' = missed \ {Obj(req[r])}
  BY DEF Send, Announce, Answer, remoteVars
<1>2. /\ status \in [Requests -> {"idle", "working", "performed", "done"}]
      /\ req[r] \in Request /\ WellFormed(req[r]) /\ req[r].kind \in Announcing
      /\ events \in Seq(Events)
  BY <1>1 DEF BInv, CInv, TypeInv, SyncTypeOK, RequestsKnown
<1>3. /\ IsEvent(Event(req[r])) /\ Subject(Event(req[r])) = Obj(req[r])
      /\ Event(req[r]).bucket = req[r].bucket
  BY <1>2, EventOfRequest DEF Event
<1>4. /\ Len(events') = Len(events) + 1 /\ Len(events) \in Nat
      /\ \A i \in 1..Len(events) : events'[i] = events[i]
      /\ events'[Len(events) + 1] = Event(req[r])
  BY <1>1, <1>2, <1>3 DEF IsEvent
<1>5. \A s \in Requests : /\ Active(s)' => Active(s)
                          /\ status'[s] = "performed" => status[s] = "performed"
                          /\ s # r => status'[s] = status[s]
  BY <1>1, <1>2 DEF Active
<1>6. CInv'
  BY SendConverges DEF BInv
<1>7. BucketsApart' /\ Housed' /\ \A s \in Requests : TellsBucket(s)'
  BY <1>1, <1>5, SettlingKeeps
<1>8. ASSUME NEW b \in Buckets PROVE BucketInStep(b)'
  <2>1. CASE req[r].bucket # b
    <3>1. Obj(req[r]) # Mark(b)
      BY <2>1 DEF Obj, Mark
    <3>2. Of(b)' = Of(b) /\ About(Mark(b))' = About(Mark(b))
      BY <1>3, <1>4, <2>1, <3>1 DEF Of, About, Mark
    <3>3. Changing(b) => Changing(b)'
      BY <1>1, <1>5, <2>1 DEF Changing
    <3> QED BY <1>1, <1>4, <3>1, <3>2, <3>3, BucketElsewhere
  <2>2. CASE req[r].bucket = b /\ req[r].kind \in Writers
    <3>1. b \in buckets /\ buckets' = buckets
      BY <1>1, <2>2 DEF BInv, TellsBucket
    <3>2. Obj(req[r]) # Mark(b)
      BY <1>2, <2>2, NoneIsNothing DEF WellFormed, Writers, BucketKinds, Obj, Mark
    <3>3. About(Mark(b))' = About(Mark(b))
      BY <1>3, <1>4, <3>2 DEF About, Mark
    <3>4. Changing(b) => Changing(b)'
      BY <1>1, <1>5, <2>2 DEF Changing, Writers, BucketKinds
    <3>5. (Owed(b) => Owed(b)') /\ (Astir(b) => Astir(b)')
      BY OwedKeeps DEF BInv
    <3>6. LastTellsBucket(b)'
      <4> SUFFICES ASSUME Mark(b)' \notin missed', ~Changing(b)',
                          NEW i, IsLast(About(Mark(b)), i)'
                   PROVE  events'[i].kind = "create_bucket" <=> b \in buckets
        BY <3>1 DEF LastTellsBucket
      <4>1. Mark(b) \notin missed /\ ~Changing(b)
        BY <1>1, <3>2, <3>4 DEF Mark
      <4>2. i \in 1..Len(events) /\ IsLast(About(Mark(b)), i)
        BY <3>3 DEF IsLast, About
      <4> QED BY <1>4, <4>1, <4>2 DEF BInv, BucketInStep, LastTellsBucket
    <3> QED BY <1>1, <3>1, <3>5, <3>6 DEF BInv, BucketInStep
  <2>3. CASE req[r].bucket = b /\ req[r].kind \in BucketKinds
    <3>1. /\ req[r].kind = "create_bucket" => b \in buckets
          /\ req[r].kind = "delete_bucket" => b \notin buckets
      BY <1>1, <2>3 DEF BInv, TellsBucket
    <3>2. Event(req[r]).kind = req[r].kind /\ Obj(req[r]) = Mark(b)
      BY <1>2, <2>3 DEF Event, BucketKinds, WellFormed, Obj, Mark
    <3>3. Len(events) + 1 \in Of(b)' /\ Len(events) + 1 \in About(Mark(b))'
      BY <1>3, <1>4, <2>3, <3>2 DEF Of, About, Mark
    <3>4. \A i : IsLast(Of(b), i)' \/ IsLast(About(Mark(b)), i)' => i = Len(events) + 1
      <4>1. \A i : i \in Of(b)' \/ i \in About(Mark(b))' => i \in 1..(Len(events) + 1)
        BY <1>4 DEF Of, About
      <4> QED BY <1>4, <3>3, <4>1 DEF IsLast
    <3>5. LastTellsBucket(b)'
      BY <1>1, <1>4, <2>3, <3>1, <3>2, <3>4 DEF LastTellsBucket, BucketKinds
    <3>6. (Owed(b) => Owed(b)') /\ (Astir(b) => Astir(b)')
      BY OwedKeeps DEF BInv
    <3> QED BY <1>1, <3>5, <3>6 DEF BInv, BucketInStep
  <2> QED BY <1>2, <2>1, <2>2, <2>3 DEF Announcing
<1> QED BY <1>6, <1>7, <1>8 DEF BInv

LEMMA DropBuckets == ASSUME BInv, NEW r \in Requests, Drop(r) PROVE BInv'
<1>1. /\ status[r] = "performed" /\ status' = [status EXCEPT ![r] = "done"]
      /\ UNCHANGED <<req, objects, buckets, events, remoteBuckets>>
      /\ missed' = missed \cup {Obj(req[r])}
  BY DEF Drop, remoteVars
<1>2. /\ status \in [Requests -> {"idle", "working", "performed", "done"}]
      /\ WellFormed(req[r])
  BY <1>1 DEF BInv, CInv, TypeInv, SyncTypeOK, RequestsKnown
<1>3. \A s \in Requests : /\ Active(s)' => Active(s)
                          /\ status'[s] = "performed" => status[s] = "performed"
                          /\ s # r => status'[s] = status[s]
  BY <1>1, <1>2 DEF Active
<1>4. ASSUME NEW b \in Buckets PROVE BucketInStep(b)'
  <2>1. Mark(b) \notin missed' => (Changing(b) => Changing(b)')
    <3>1. req[r].kind \in BucketKinds /\ req[r].bucket = b => Obj(req[r]) = Mark(b)
      BY <1>2 DEF WellFormed, Obj, Mark
    <3> QED BY <1>1, <1>3, <3>1 DEF Changing
  <2> QED BY <1>1, <2>1, BucketElsewhere DEF Of, About, Mark
<1> QED BY <1>1, <1>3, <1>4, DropConverges, SettlingKeeps DEF BInv

LEMMA CrashBuckets == ASSUME BInv, Crash PROVE BInv'
<1> DEFINE cut == {r \in Requests : Active(r)}
<1>1. /\ missed' = missed \cup {Obj(req[r]) : r \in cut}
      /\ status' = [r \in Requests |-> IF r \in cut THEN "done" ELSE status[r]]
      /\ UNCHANGED <<req, objects, buckets, events, remoteBuckets>>
  BY DEF Crash, remoteVars
<1>2. \A s \in Requests : ~Active(s)' /\ status'[s] # "performed"
  BY <1>1 DEF Active
<1>3. ASSUME NEW b \in Buckets PROVE BucketInStep(b)'
  <2>1. Mark(b) \notin missed' => ~Changing(b)
    <3> SUFFICES ASSUME NEW r \in Requests, status[r] = "performed",
                        req[r].kind \in BucketKinds, req[r].bucket = b
                 PROVE  Mark(b) \in missed'
      BY DEF Changing
    <3>1. Obj(req[r]) = Mark(b)
      BY DEF BInv, CInv, TypeInv, RequestsKnown, WellFormed, Obj, Mark
    <3> QED BY <1>1, <3>1 DEF Active
  <2> QED BY <1>1, <2>1, BucketElsewhere DEF Of, About, Mark
<1> QED BY <1>1, <1>2, <1>3, CrashConverges, SettlingKeeps DEF BInv

LEMMA TakeBuckets == ASSUME BInv, Recv \/ Subtract PROVE BInv'
<1>1. UNCHANGED <<status, req, objects, buckets, events, missed, remoteBuckets>>
  BY DEF Recv, Subtract, vars, remoteVars
<1>2. \A b \in Buckets : BucketInStep(b)'
  BY <1>1, BucketElsewhere DEF Changing, Of, About, Mark
<1> QED BY <1>1, <1>2, RecvConverges, SubtractConverges, SettlingKeeps DEF BInv, Active

-----------------------------------------------------------------------------
(* The manager and the upstream.                                           *)

(* What these steps leave alone.                                           *)
LEMMA ChannelKeeps ==
  ASSUME BInv, UNCHANGED <<status, req, objects, buckets, events, taken, missed>>,
         seen \subseteq seen', NEW b \in Buckets
  PROVE  /\ LastTellsBucket(b)' /\ Current' = Current
         /\ Changing(b) => Changing(b)'
         /\ \A x : Later(x) => Later(x)'
<1>1. \A x : Later(x) => Later(x)'
  BY LaterKeeps
<1>2. LastTellsBucket(b)'
  BY DEF BInv, BucketInStep, LastTellsBucket, IsLast, Of, About, Mark, Changing
<1> QED BY <1>1, <1>2 DEF Current, Changing

(* What an event in a bucket is about.                                     *)
LEMMA InBucket ==
  ASSUME BInv, NEW i \in 1..Len(events)
  PROVE  /\ Subject(events[i]) = Mark(events[i].bucket)
             <=> events[i].kind \in BucketKinds
         /\ \/ Subject(events[i]) = Mark(events[i].bucket)
            \/ \E k \in Keys : Subject(events[i]) = <<events[i].bucket, k>>
<1>1. IsEvent(events[i])
  BY DEF BInv, CInv, TypeInv, EventsKnown
<1> QED BY <1>1, NoneIsNothing DEF IsEvent, Subject, Mark

(* The event goes on, or is given up: its bucket stays covered.            *)
LEMMA BucketGoesOn ==
  ASSUME BInv, manager # "recv", NEW b \in Buckets,
         UNCHANGED <<status, req, objects, buckets, events, taken, missed>>,
         seen \subseteq seen',
         \/ manager' # "recv" /\ stale' = stale
         \/ stale' = stale \cup {Subject(Current)},
         b \in remoteBuckets /\ b \notin remoteBuckets' => Subject(Current) = Mark(b),
         b \notin remoteBuckets /\ b \in remoteBuckets' => Current.bucket = b
  PROVE  BucketInStep(b)'
<1>1. /\ LastTellsBucket(b)' /\ Current' = Current /\ (Changing(b) => Changing(b)')
      /\ \A x : Later(x) => Later(x)'
  BY ChannelKeeps
<1>2. \A x : Covered(x) \/ Subject(Current) = x => Covered(x)'
  BY <1>1 DEF Covered
<1>3. (Owed(b) => Owed(b)') /\ (Astir(b) => Astir(b)')
  BY <1>1, <1>2 DEF Owed, Astir, Mark
<1>4. Current.bucket = b => Astir(b)'
  <2>1. taken \in 1..Len(events)
    BY CurrentIsEvent DEF BInv, CInv
  <2> QED BY <1>2, <2>1, InBucket DEF Astir, Owed, Mark, Current
<1>5. Subject(Current) = Mark(b) => Owed(b)'
  BY <1>2 DEF Owed, Mark
<1> QED BY <1>1, <1>3, <1>4, <1>5 DEF BInv, BucketInStep

(* The event is done: then the upstream must agree, or come to.            *)
LEMMA BucketIsDone ==
  ASSUME BInv, manager # "recv", Done, NEW b \in Buckets,
         UNCHANGED <<status, req, objects, buckets, events, taken, missed>>,
         seen \subseteq seen',
         b \in remoteBuckets /\ b \notin remoteBuckets' => Subject(Current) = Mark(b),
         b \notin remoteBuckets /\ b \in remoteBuckets' => Current.bucket = b,
         Current.bucket = b /\ Current.kind = "create_bucket" => b \in remoteBuckets',
         Current.bucket = b /\ Current.kind = "delete_bucket" /\ b \in remoteBuckets'
           => \E k \in Keys : remote[<<b, k>>] # ABSENT
  PROVE  BucketInStep(b)'
<1>1. /\ LastTellsBucket(b)' /\ (Changing(b) => Changing(b)')
      /\ \A x : Later(x) => Later(x)'
  BY ChannelKeeps
<1>2. \A x : Covered(x) /\ x # Subject(Current) => Covered(x)'
  BY <1>1 DEF Covered, Done
<1>3. taken \in 1..Len(events)
  BY CurrentIsEvent DEF BInv, CInv
<1>4. /\ Subject(Current) = Mark(b) <=> Current.bucket = b /\ Current.kind \in BucketKinds
      /\ Current.bucket # b => Subject(Current) \notin {b} \X (Keys \cup {NONE})
  <2>1. Subject(Current) = Mark(Current.bucket) <=> Current.kind \in BucketKinds
    BY <1>3, InBucket DEF Current
  <2> QED BY <2>1 DEF Subject, Mark
<1>5. Later(Mark(b)) \/ Changing(b) => Owed(b)'
  BY <1>1 DEF Owed, Covered, Mark
<1>6. ASSUME b \in buckets', b \notin remoteBuckets' PROVE Owed(b)'
  <2>1. CASE Subject(Current) # Mark(b)
    <3>1. Owed(b)
      BY <1>6, <2>1 DEF BInv, BucketInStep
    <3> QED BY <1>1, <1>2, <2>1, <3>1 DEF Owed, Mark
  <2>2. CASE Subject(Current) = Mark(b)
    <3>1. Current.kind # "create_bucket"
      BY <1>4, <1>6, <2>2
    <3>2. IsLast(About(Mark(b)), taken) => Mark(b) \in missed \/ Changing(b)
      BY <1>3, <1>6, <3>1 DEF BInv, BucketInStep, LastTellsBucket, Current
    <3>3. ~IsLast(About(Mark(b)), taken) => Later(Mark(b))
      BY <1>3, <2>2 DEF IsLast, About, Later, Current
    <3> QED BY <1>5, <3>2, <3>3 DEF Later
  <2> QED BY <2>1, <2>2
<1>7. ASSUME b \in remoteBuckets', b \notin buckets' PROVE Astir(b)'
  <2>1. CASE Current.bucket # b
    <3>1. Astir(b)
      BY <1>7, <2>1 DEF BInv, BucketInStep
    <3>2. \A k \in Keys \cup {NONE} : Covered(<<b, k>>) => Covered(<<b, k>>)'
      BY <1>2, <1>4, <2>1
    <3> QED BY <1>1, <3>1, <3>2 DEF Astir, Owed, Mark
  <2>2. CASE Current.bucket = b
    <3>1. CASE Mark(b) \in missed \/ Changing(b)
      BY <1>5, <3>1 DEF Later, Astir
    <3>2. CASE \E i \in Of(b) : i > taken
      <4> PICK i \in Of(b) : i > taken
        BY <3>2
      <4>1. i \in About(Subject(events[i])) /\ i \in 1..Len(events) /\ events[i].bucket = b
        BY DEF About, Of
      <4>2. Later(Subject(events[i]))
        BY <4>1 DEF Later
      <4>3. \A x : Later(x) => Covered(x)'
        BY <1>1 DEF Covered
      <4> QED BY <4>1, <4>2, <4>3, InBucket DEF Astir, Owed, Mark
    <3>3. CASE Mark(b) \notin missed /\ ~Changing(b) /\ ~\E i \in Of(b) : i > taken
      <4>1. IsLast(Of(b), taken)
        BY <1>3, <2>2, <3>3 DEF IsLast, Of, Current
      <4>2. Current.kind = "delete_bucket"
        BY <1>3, <1>7, <3>3, <4>1 DEF BInv, BucketInStep, LastTellsBucket, Current
      <4>3. PICK k \in Keys : remote[<<b, k>>] # ABSENT
        BY <1>7, <2>2, <4>2
      <4>4. <<b, k>> \in Objects /\ objects[<<b, k>>] = ABSENT
        BY <1>7 DEF BInv, Housed, Objects
      <4>5. Covered(<<b, k>>)
        BY <4>3, <4>4 DEF BInv, CInv, InStep
      <4>6. <<b, k>> # Subject(Current)
        BY <1>4, <2>2, <4>2, NoneIsNothing DEF Mark, BucketKinds
      <4> QED BY <1>2, <4>5, <4>6 DEF Astir
    <3> QED BY <3>1, <3>2, <3>3
  <2> QED BY <2>1, <2>2
<1> QED BY <1>1, <1>6, <1>7 DEF BucketInStep

LEMMA BeginBuckets == ASSUME BInv, Begin PROVE BInv'
<1>1. /\ manager = "begin"
      /\ UNCHANGED <<status, req, objects, buckets, events, taken, missed, remoteBuckets>>
  BY DEF Begin, vars, remoteVars
<1>2. seen \subseteq seen'
  BY DEF Begin, ReadLocal
<1>3. \/ Done /\ Current.kind = "put"
      \/ manager' # "recv" /\ stale' = stale
  BY DEF Begin
<1>4. ASSUME NEW b \in Buckets PROVE BucketInStep(b)'
  <2>1. CASE Done /\ Current.kind = "put"
    BY <1>1, <1>2, <2>1, BucketIsDone
  <2>2. CASE manager' # "recv" /\ stale' = stale
    BY <1>1, <1>2, <2>2, BucketGoesOn
  <2> QED BY <1>3, <2>1, <2>2
<1> QED BY <1>1, <1>4, BeginConverges, SettlingKeeps DEF BInv, Active

LEMMA UpstreamBuckets == ASSUME BInv, Upstream PROVE BInv'
<1>1. /\ manager \notin {"recv", "subtract", "begin"}
      /\ UNCHANGED <<status, req, objects, buckets, events, taken, missed, seen>>
  BY DEF Upstream, HeadBucket, CreateBucket, PutObject, DeleteObject, DeleteBucket, CallVars, vars
<1>2. Phases /\ taken \in 1..Len(events)
  BY <1>1, CurrentIsEvent DEF BInv, CInv, TypeInv
<1>3. Subject(Current) = Mark(Current.bucket) <=> Current.kind \in BucketKinds
  BY <1>2, InBucket DEF Current
<1>4. ASSUME NEW b \in Buckets PROVE BucketInStep(b)'
  <2>1. ASSUME Retry \/ \E next \in {"create_bucket", "put"} : To(next),
               b \in remoteBuckets /\ b \notin remoteBuckets' => Subject(Current) = Mark(b),
               b \notin remoteBuckets /\ b \in remoteBuckets' => Current.bucket = b
        PROVE  BucketInStep(b)'
    <3>1. \/ manager' # "recv" /\ stale' = stale
          \/ stale' = stale \cup {Subject(Current)}
      BY <2>1 DEF Retry, To
    <3> QED BY <1>1, <2>1, <3>1, BucketGoesOn
  <2>2. CASE HeadBucket
    <3>1. remoteBuckets' = remoteBuckets /\ Current.kind \in {"put", "create_bucket"}
      BY <1>2, <2>2 DEF HeadBucket, remoteVars, Phases
    <3>2. \/ Retry \/ \E next \in {"create_bucket", "put"} : To(next)
          \/ Done /\ Current.bucket \in remoteBuckets
      BY <2>2 DEF HeadBucket
    <3>3. CASE Done /\ Current.bucket \in remoteBuckets
      BY <1>1, <3>1, <3>3, BucketIsDone
    <3> QED BY <2>1, <3>1, <3>2, <3>3
  <2>3. CASE CreateBucket
    <3>1. Current.kind \in {"put", "create_bucket"}
      BY <1>2, <2>3 DEF CreateBucket, Phases
    <3>2. /\ \/ remoteBuckets' = remoteBuckets \cup {Current.bucket}
             \/ remoteBuckets' = remoteBuckets
          /\ \/ Retry \/ To("put")
             \/ Done /\ remoteBuckets' = remoteBuckets \cup {Current.bucket}
      BY <2>3 DEF CreateBucket
    <3>3. CASE Done /\ remoteBuckets' = remoteBuckets \cup {Current.bucket}
      BY <1>1, <3>1, <3>3, BucketIsDone
    <3> QED BY <2>1, <3>2, <3>3
  <2>4. CASE PutObject
    <3>1. remoteBuckets' = remoteBuckets /\ Current.kind = "put" /\ (Done \/ Retry)
      BY <1>2, <2>4 DEF PutObject, Phases
    <3> QED BY <1>1, <2>1, <3>1, BucketIsDone
  <2>5. CASE DeleteObject
    <3>1. remoteBuckets' = remoteBuckets /\ Current.kind = "delete" /\ (Done \/ Retry)
      BY <1>2, <2>5 DEF DeleteObject, Phases
    <3> QED BY <1>1, <2>1, <3>1, BucketIsDone
  <2>6. CASE DeleteBucket
    <3>1. Current.kind = "delete_bucket" /\ Subject(Current) = Mark(Current.bucket)
      BY <1>2, <1>3, <2>6 DEF DeleteBucket, Phases, BucketKinds
    <3>2. \/ Retry /\ remoteBuckets' \in {remoteBuckets, remoteBuckets \ {Current.bucket}}
          \/ Done /\ remoteBuckets' = remoteBuckets \ {Current.bucket}
          \/ /\ Done /\ remoteBuckets' = remoteBuckets
             /\ \E k \in Keys : remote[<<Current.bucket, k>>] # ABSENT
      BY <2>6 DEF DeleteBucket
    <3>3. CASE Retry
      BY <2>1, <3>1, <3>2, <3>3
    <3>4. CASE Done /\ remoteBuckets' = remoteBuckets \ {Current.bucket}
      BY <1>1, <3>1, <3>4, BucketIsDone
    <3>5. CASE /\ Done /\ remoteBuckets' = remoteBuckets
               /\ \E k \in Keys : remote[<<Current.bucket, k>>] # ABSENT
      BY <1>1, <3>1, <3>5, BucketIsDone
    <3> QED BY <3>2, <3>3, <3>4, <3>5
  <2> QED BY <2>2, <2>3, <2>4, <2>5, <2>6 DEF Upstream
<1> QED BY <1>1, <1>4, UpstreamConverges, SettlingKeeps DEF BInv, Active

LEMMA BucketsStep == ASSUME BInv, BucketCareful, [SyncNext]_allVars PROVE BInv'
<1>1. CASE UNCHANGED allVars
  <2>1. CInv'
    BY <1>1, ConvergedStep DEF BInv, BucketCareful, Careful
  <2>2. UNCHANGED <<status, req, objects, buckets, events, taken, manager, stale, missed, seen,
                    remoteBuckets>>
    BY <1>1 DEF allVars, vars, syncVars, remoteVars
  <2>3. \A b \in Buckets : BucketInStep(b)'
    BY <2>2 DEF BInv, BucketInStep, LastTellsBucket, IsLast, Of, About, Mark, Changing, Owed,
       Astir, Covered, Later, Performed, Observed, Writing, Active, Current
  <2> QED BY <2>1, <2>2, <2>3, SettlingKeeps DEF BInv, Active
<1> QED BY <1>1, StoreStepBuckets, CountBuckets, SendBuckets, DropBuckets, TakeBuckets,
           BeginBuckets, UpstreamBuckets, CrashBuckets DEF SyncNext, Manager

(* A bucket that was deleted and made again, pushes that make it upstream, *)
(* deletes that the upstream refuses because it still holds objects: where *)
(* nothing is under way, the two stores have the same buckets              *)
(* (sync/mod.rs, process_event; sync/client.rs, delete_bucket).            *)
THEOREM BucketsCorrect ==
  ASSUME BucketCareful
  PROVE  SyncSpec => []BucketsConverged
<1>1. BInv => BucketsConverged
  <2> SUFFICES ASSUME BInv, NEW b \in Buckets,
                      \A k \in Keys \cup {NONE} :
                        Quiet(<<b, k>>) /\ <<b, k>> \notin stale \cup missed
               PROVE  b \in remoteBuckets <=> b \in buckets
    BY DEF BucketsConverged
  <2>1. ASSUME NEW x, Quiet(x), x \notin stale \cup missed PROVE ~Covered(x)
    <3>1. ~Performed(x) /\ ~Observed(x)
      BY <2>1 DEF BInv, CInv, TypeInv, SyncTypeOK, Quiet, Performed, Observed, Writing, Active
    <3>2. \A i \in About(x) : ~(i > taken)
      BY <2>1 DEF BInv, CInv, TypeInv, SyncTypeOK, Quiet, Unfinished, Waiting, About
    <3>3. manager # "recv" => Subject(Current) # x
      BY <2>1 DEF Quiet, Unfinished, Current
    <3> QED BY <2>1, <3>1, <3>2, <3>3 DEF Covered, Later
  <2>2. ~Changing(b)
    <3> SUFFICES ASSUME NEW r \in Requests, status[r] = "performed",
                        req[r].kind \in BucketKinds, req[r].bucket = b
                 PROVE  FALSE
      BY DEF Changing
    <3>1. Obj(req[r]) = <<b, NONE>>
      BY DEF BInv, CInv, TypeInv, RequestsKnown, WellFormed, Obj
    <3> QED BY <3>1 DEF Quiet, Active
  <2> QED BY <2>1, <2>2 DEF BInv, BucketInStep, Owed, Astir, Mark
<1>2. BInv /\ [SyncNext]_allVars => BInv'
  BY BucketsStep
<1> QED BY <1>1, <1>2, BucketsInit, PTL DEF SyncSpec

-----------------------------------------------------------------------------
(* What a retry, an end and a call that goes on leave to be done.          *)
LEMMA AttemptsFall ==
  ASSUME TypeInv, manager \notin {"recv", "subtract"}, TypeInv',
         \/ manager' = "recv"
         \/ attempt' = attempt + 1 /\ manager' = "begin"
         \/ /\ attempt' = attempt /\ manager' \notin {"recv", "subtract", "begin"}
            /\ \/ manager = "begin"
               \/ manager = "head" /\ manager' # "head"
               \/ manager = "create_bucket" /\ manager' = "put"
  PROVE  Left' < Left
<1>1. /\ attempt \in 0..MaxRetries /\ attempt' \in 0..MaxRetries /\ MaxRetries \in Nat
      /\ {manager, manager'} \subseteq {"recv", "subtract", "begin", "head", "create_bucket",
                                       "put", "delete", "delete_bucket"}
  BY RetriesAreNat DEF TypeInv, SyncTypeOK
<1>2. Left = (MaxRetries - attempt) * 4
               + (CASE manager = "begin" -> 4 [] manager = "head" -> 3
                    [] manager = "create_bucket" -> 2 [] OTHER -> 1)
  BY DEF Left
<1>3. CASE manager' = "recv"
  <2>1. Left' = 0
    BY <1>3 DEF Left
  <2>2. MaxRetries - attempt \in Nat
    BY <1>1
  <2> QED BY <1>1, <1>2, <2>1, <2>2
<1>4. CASE attempt' = attempt + 1 /\ manager' = "begin"
  <2>1. Left' = (MaxRetries - (attempt + 1)) * 4 + 4
    BY <1>4 DEF Left
  <2> QED BY <1>1, <1>2, <2>1
<1>5. CASE attempt' = attempt /\ manager' \notin {"recv", "subtract", "begin"}
  <2>1. Left' = (MaxRetries - attempt) * 4
                  + (CASE manager' = "head" -> 3 [] manager' = "create_bucket" -> 2 [] OTHER -> 1)
    BY <1>5 DEF Left
  <2> QED BY <1>1, <1>2, <1>5, <2>1
<1> QED BY <1>3, <1>4, <1>5

(* No event holds the manager up for more than a bounded number of steps,  *)
(* whichever calls fail: the safety half of Drains.                        *)
THEOREM EffortCorrect == SyncSpec => EffortFalls
<1>1. ASSUME TypeInv, TypeInv', SyncNext,
             crashes' = crashes, <<taken, manager, attempt>>' # <<taken, manager, attempt>>
      PROVE  taken' > taken \/ (taken' = taken /\ Left' < Left)
  <2>1. taken \in Nat /\ crashes \in Nat /\ MaxRetries \in Nat
    BY <1>1, RetriesAreNat DEF TypeInv, SyncTypeOK
  <2>2. Manager \/ Upstream
    BY <1>1, <2>1 DEF SyncNext, StoreStep, syncVars, Count, Send, Drop, Crash
  <2>3. CASE Recv
    BY <2>1, <2>3 DEF Recv
  <2>4. CASE Subtract
    <3>1. Left = (MaxRetries + 1) * 4 + 1
      BY <2>4 DEF Left, Subtract
    <3>2. Left' = (MaxRetries - 0) * 4 + 4 /\ taken' = taken
      BY <2>4 DEF Left, Subtract
    <3> QED BY <2>1, <3>1, <3>2
  <2>5. CASE Begin
    <3>1. manager = "begin" /\ taken' = taken
      BY <2>5 DEF Begin
    <3>2. \/ manager' = "recv"
          \/ attempt' = attempt /\ manager' \in {"head", "delete", "delete_bucket"}
      <4>1. Current.kind \in {"put", "delete", "create_bucket", "delete_bucket"}
        BY <1>1, <3>1, CurrentIsEvent DEF IsEvent, BucketKinds
      <4> QED BY <2>5, <4>1 DEF Begin, Done
    <3>3. Left' < Left
      BY <1>1, <3>1, <3>2, AttemptsFall
    <3> QED BY <3>1, <3>3
  <2>6. CASE Upstream
    <3>1. manager \notin {"recv", "subtract", "begin"} /\ taken' = taken
      BY <2>6 DEF Upstream, HeadBucket, CreateBucket, PutObject, DeleteObject, DeleteBucket,
                  CallVars
    <3>2. Done \/ Retry \/ (manager = "head" /\ (To("create_bucket") \/ To("put")))
            \/ (manager = "create_bucket" /\ To("put"))
      BY <2>6 DEF Upstream, HeadBucket, CreateBucket, PutObject, DeleteObject, DeleteBucket
    <3>3. Left' < Left
      BY <1>1, <3>1, <3>2, AttemptsFall DEF Done, Retry, To
    <3> QED BY <3>1, <3>3
  <2> QED BY <2>2, <2>3, <2>4, <2>5, <2>6 DEF Manager
<1>2. TypeInv /\ TypeInv' /\ [SyncNext]_allVars
        => [ crashes' = crashes /\ <<taken, manager, attempt>>' # <<taken, manager, attempt>>
               => taken' > taken \/ (taken' = taken /\ Left' < Left) ]_allVars
  BY <1>1
<1> QED BY <1>2, TypeInvariant, PTL DEF SyncSpec, EffortFalls
=============================================================================
