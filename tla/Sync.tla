-------------------------------- MODULE Sync --------------------------------
(***************************************************************************)
(* Upstream sync (sync/mod.rs, sync/client.rs) over the atomic store: the  *)
(* writers hand events to an in-memory channel, one manager takes them in  *)
(* order, reads the object again from the local store and calls the        *)
(* upstream, with retries.  An HTTP call is one step of the upstream.      *)
(***************************************************************************)
EXTENDS AtomicStore, Naturals, FiniteSets

CONSTANTS
  MaxRetries,  \* MAX_RETRIES of process_with_retry
  Failures,    \* how a call may fail: {"unsent", "unheard"} or fewer
  Crashes,     \* how often the process dies and is started again
  MANGLED      \* part of an object that is being overwritten

ASSUME RetriesAreNat == MaxRetries \in Nat /\ Crashes \in Nat
ASSUME FailureKinds == Failures \subseteq {"unsent", "unheard"}
ASSUME NotStored == {ABSENT, MANGLED} \cap Values = {} /\ ABSENT # MANGLED

VARIABLES
  counted,  \* requests that have added to events_pending and not yet sent
  pending,  \* the events_pending counter
  taken,    \* how many events the manager has received: events after it wait
  manager,  \* what the manager does next
  attempt,  \* the attempt it is at
  held,     \* the bytes it read, to be pushed
  sent, failed,     \* the events_sent and events_failed counters
  remoteBuckets, remote,  \* the upstream
  crashes,  \* how often the process has died
  dropped,  \* history: how many events a crash took with it
  stale,    \* history: what an event given up or lost was about
  missed,   \* history: what was changed by a handler that never announced it
  seen      \* history: writers whose half-written object was read

remoteVars == <<remoteBuckets, remote>>
counters == <<sent, failed>>
syncVars == <<counted, pending, taken, manager, attempt, held, counters, remoteVars,
              crashes, dropped, stale, missed, seen>>
allVars == <<vars, syncVars>>

Subject(e) == <<e.bucket, e.key>>
Current == events[taken]
Waiting == (taken + 1)..Len(events)
Unfinished == Waiting \cup (IF manager = "recv" THEN {} ELSE {taken})

SyncInit ==
  /\ Init
  /\ counted = {} /\ pending = 0 /\ taken = 0
  /\ manager = "recv" /\ attempt = 0 /\ held = ABSENT
  /\ sent = 0 /\ failed = 0
  /\ remoteBuckets = buckets /\ remote = objects
  /\ crashes = 0 /\ dropped = 0 /\ stale = {} /\ missed = {} /\ seen = {}

-----------------------------------------------------------------------------
(* The writers.                                                            *)

(* A put that was seen on the disk is past the calls that refuse it; disks *)
(* do not fill up here.                                                    *)
StoreStep ==
  /\ \E r \in Requests :
        Invoke(r) \/ (r \notin seen /\ Refuse(r)) \/ Read(r) \/ Perform(r)
  /\ UNCHANGED syncVars

(* emit_sync adds to the counter before it sends.                          *)
Count(r) ==
  /\ status[r] = "performed"
  /\ r \notin counted
  /\ counted' = counted \cup {r}
  /\ pending' = pending + 1
  /\ UNCHANGED <<vars, taken, manager, attempt, held, counters, remoteVars, crashes,
                 dropped, stale, missed, seen>>

(* Whatever was not announced before: the manager will look at this again. *)
Send(r) ==
  /\ r \in counted
  /\ Announce(r)
  /\ counted' = counted \ {r}
  /\ missed' = missed \ {Obj(req[r])}
  /\ UNCHANGED <<pending, taken, manager, attempt, held, counters, remoteVars, crashes,
                 dropped, stale, seen>>

(* The client goes away while the last filesystem call is under way: the   *)
(* call completes and the handler never comes to emit_sync, which has no   *)
(* await in it.                                                            *)
Drop(r) ==
  /\ status[r] = "performed"
  /\ r \notin counted
  /\ status' = [status EXCEPT ![r] = "done"]
  /\ missed' = missed \cup {Obj(req[r])}
  /\ UNCHANGED <<buckets, objects, req, reply, events, counted, pending, taken, manager,
                 attempt, held, counters, remoteVars, crashes, dropped, stale, seen>>

-----------------------------------------------------------------------------
(* The manager.                                                            *)

(* Mutant: an event is taken and not subtracted.                           *)
RecvOnly ==
  /\ manager = "recv"
  /\ Waiting # {}
  /\ taken' = taken + 1
  /\ attempt' = 0
  /\ manager' = "begin"
  /\ UNCHANGED <<vars, counted, pending, held, counters, remoteVars, crashes, dropped,
                 stale, missed, seen>>

Recv ==
  /\ manager = "recv"
  /\ Waiting # {}
  /\ taken' = taken + 1
  /\ manager' = "subtract"
  /\ UNCHANGED <<vars, counted, pending, attempt, held, counters, remoteVars, crashes,
                 dropped, stale, missed, seen>>

Subtract ==
  /\ manager = "subtract"
  /\ pending' = pending - 1
  /\ attempt' = 0
  /\ manager' = "begin"
  /\ UNCHANGED <<vars, counted, taken, held, counters, remoteVars, crashes, dropped,
                 stale, missed, seen>>

(* process_event begins.  get_object may meet a writer of the same object: *)
(* it returns part of the bytes, or an error, on which the event is skipped.*)
Overwriting(o) ==
  {r \in Requests : Active(r) /\ req[r].kind \in Writers /\ Obj(req[r]) = o}

ReadLocal ==
  \/ /\ held' = objects[Subject(Current)]
     /\ UNCHANGED seen
  \/ \E w \in Overwriting(Subject(Current)) :
        /\ held' \in IF req[w].kind = "delete" THEN {ABSENT} ELSE {MANGLED, ABSENT}
        /\ seen' = seen \cup {w}

Done ==
  /\ sent' = sent + 1
  /\ stale' = stale \ {Subject(Current)}
  /\ manager' = "recv"
  /\ UNCHANGED <<attempt, failed>>

Begin ==
  /\ manager = "begin"
  /\ \/ /\ Current.kind = "put"
        /\ ReadLocal
        /\ IF held' = ABSENT THEN Done
           ELSE manager' = "head" /\ UNCHANGED <<attempt, sent, failed, stale>>
     \/ /\ Current.kind # "put"
        /\ manager' = CASE Current.kind = "create_bucket" -> "head"
                        [] Current.kind = "delete_bucket" -> "delete_bucket"
                        [] OTHER -> "delete"
        /\ UNCHANGED <<attempt, held, counters, stale, seen>>
  /\ UNCHANGED <<vars, counted, pending, taken, remoteVars, crashes, dropped, missed>>

(* Mutants: one retry too many; an event given up and not counted; an      *)
(* attempt that is never counted.                                          *)
RetryOnceMore ==
  \/ /\ attempt <= MaxRetries
     /\ attempt' = attempt + 1
     /\ manager' = "begin"
     /\ UNCHANGED <<counters, stale>>
  \/ /\ attempt > MaxRetries
     /\ failed' = failed + 1
     /\ stale' = stale \cup {Subject(Current)}
     /\ manager' = "recv"
     /\ UNCHANGED <<attempt, sent>>

RetryOrForget ==
  /\ attempt' = IF attempt < MaxRetries THEN attempt + 1 ELSE attempt
  /\ manager' = IF attempt < MaxRetries THEN "begin" ELSE "recv"
  /\ stale' = IF attempt < MaxRetries THEN stale ELSE stale \cup {Subject(Current)}
  /\ UNCHANGED counters

RetryForever == manager' = "begin" /\ UNCHANGED <<attempt, counters, stale>>

(* An attempt failed: sleep and try again, or give the event up.           *)
Retry ==
  \/ /\ attempt < MaxRetries
     /\ attempt' = attempt + 1
     /\ manager' = "begin"
     /\ UNCHANGED <<counters, stale>>
  \/ /\ attempt = MaxRetries
     /\ failed' = failed + 1
     /\ stale' = stale \cup {Subject(Current)}
     /\ manager' = "recv"
     /\ UNCHANGED <<attempt, sent>>

To(next) == manager' = next /\ UNCHANGED <<attempt, counters, stale>>

-----------------------------------------------------------------------------
(* The upstream, and the manager's reaction to its answer.  A call that    *)
(* fails was never served ("unsent") or was, and its answer lost.          *)

Put == Current.kind = "put"
CallVars == <<vars, counted, pending, taken, held, crashes, dropped, missed, seen>>

HeadBucket ==
  /\ manager = "head"
  /\ \/ /\ Current.bucket \in remoteBuckets
        /\ IF Put THEN To("put") ELSE Done
     \/ Current.bucket \notin remoteBuckets /\ To("create_bucket")
     \/ Failures # {} /\ (IF Put THEN To("create_bucket") ELSE Retry)
  /\ UNCHANGED <<CallVars, remoteVars>>

(* 200, or 409 when it exists.  For a put the result is ignored.           *)
CreateBucket ==
  /\ manager = "create_bucket"
  /\ \/ /\ remoteBuckets' = remoteBuckets \cup {Current.bucket}
        /\ \/ IF Put THEN To("put") ELSE Done
           \/ "unheard" \in Failures /\ (IF Put THEN To("put") ELSE Retry)
     \/ /\ "unsent" \in Failures
        /\ IF Put THEN To("put") ELSE Retry
        /\ UNCHANGED remoteBuckets
  /\ UNCHANGED <<CallVars, remote>>

(* Mutant: the status of the answer is not looked at.                      *)
PutObjectAnyStatus ==
  /\ manager = "put"
  /\ IF Current.bucket \in remoteBuckets
     THEN remote' = [remote EXCEPT ![Subject(Current)] = held] ELSE UNCHANGED remote
  /\ Done
  /\ UNCHANGED <<CallVars, remoteBuckets>>

PutObject ==
  /\ manager = "put"
  /\ \/ /\ Current.bucket \in remoteBuckets
        /\ remote' = [remote EXCEPT ![Subject(Current)] = held]
        /\ Done \/ ("unheard" \in Failures /\ Retry)
     \/ /\ Current.bucket \notin remoteBuckets \/ "unsent" \in Failures
        /\ Retry
        /\ UNCHANGED remote
  /\ UNCHANGED <<CallVars, remoteBuckets>>

(* 204, or 404 when the object or the bucket is not there.                 *)
DeleteObject ==
  /\ manager = "delete"
  /\ \/ /\ remote' = [remote EXCEPT ![Subject(Current)] = ABSENT]
        /\ Done \/ ("unheard" \in Failures /\ Retry)
     \/ /\ "unsent" \in Failures
        /\ Retry
        /\ UNCHANGED remote
  /\ UNCHANGED <<CallVars, remoteBuckets>>

(* Mutant: a failed call counts as done.                                   *)
DeleteBucketOnce ==
  /\ manager = "delete_bucket"
  /\ \/ "unsent" \in Failures /\ UNCHANGED remoteBuckets
     \/ remoteBuckets' = IF \A k \in Keys : remote[<<Current.bucket, k>>] = ABSENT
                         THEN remoteBuckets \ {Current.bucket} ELSE remoteBuckets
  /\ Done
  /\ UNCHANGED <<CallVars, remote>>

(* 204, 404, or 409 when it still holds objects: then it stays.            *)
DeleteBucket ==
  /\ manager = "delete_bucket"
  /\ LET empty == \A k \in Keys : remote[<<Current.bucket, k>>] = ABSENT IN
       \/ /\ remoteBuckets' = IF empty THEN remoteBuckets \ {Current.bucket}
                              ELSE remoteBuckets
          /\ Done \/ ("unheard" \in Failures /\ Retry)
       \/ /\ "unsent" \in Failures
          /\ Retry
          /\ UNCHANGED remoteBuckets
  /\ UNCHANGED <<CallVars, remote>>

(* The channel, the counters and the requests die with the process, and    *)
(* nothing compares the two stores when it starts again.                   *)
Crash ==
  /\ crashes < Crashes
  /\ crashes' = crashes + 1
  /\ LET cut == {r \in Requests : Active(r)}
     IN /\ stale' = stale \cup {Subject(events[i]) : i \in Unfinished}
        /\ missed' = missed \cup {Obj(req[r]) : r \in cut}
        /\ dropped' = Len(events)
        /\ status' = [r \in Requests |-> IF r \in cut THEN "done" ELSE status[r]]
  /\ taken' = Len(events)
  /\ counted' = {} /\ pending' = 0 /\ sent' = 0 /\ failed' = 0
  /\ manager' = "recv" /\ attempt' = 0 /\ held' = ABSENT
  /\ UNCHANGED <<buckets, objects, req, reply, events, remoteVars, seen>>

-----------------------------------------------------------------------------
Manager == Recv \/ Subtract \/ Begin
Upstream == HeadBucket \/ CreateBucket \/ PutObject \/ DeleteObject \/ DeleteBucket

SyncNext ==
  \/ StoreStep
  \/ \E r \in Requests : Count(r) \/ Send(r) \/ Drop(r)
  \/ Manager \/ Upstream \/ Crash

SyncSpec == SyncInit /\ [][SyncNext]_allVars

(* A request past its last write and the manager are tasks that the        *)
(* runtime goes on polling.                                                *)
TasksRun == WF_allVars(Manager) /\ \A r \in Requests : WF_allVars(Count(r) \/ Send(r))

(* An upstream that answers, or breaks the connection, sooner or later.    *)
FairSpec == SyncSpec /\ TasksRun /\ WF_allVars(Upstream)

-----------------------------------------------------------------------------
SyncTypeOK ==
  /\ buckets \subseteq Buckets /\ remoteBuckets \subseteq Buckets
  /\ objects \in [Objects -> Values \cup {ABSENT}]
  /\ remote \in [Objects -> Values \cup {ABSENT, MANGLED}]
  /\ status \in [Requests -> {"idle", "working", "performed", "done"}]
  /\ req \in [Requests -> Request]
  /\ events \in Seq(Events)
  /\ counted \subseteq Requests /\ seen \subseteq Requests
  /\ pending \in Nat /\ sent \in Nat /\ failed \in Nat
  /\ taken \in 0..Len(events) /\ dropped \in 0..Len(events)
  /\ manager \in {"recv", "subtract", "begin", "head", "create_bucket", "put",
                  "delete", "delete_bucket"}
  /\ manager # "recv" => taken > 0
  /\ attempt \in 0..MaxRetries
  /\ held \in Values \cup {ABSENT, MANGLED}
  /\ crashes \in 0..Crashes
  /\ {stale, missed} \subseteq SUBSET ((Buckets \cup {NONE}) \X (Keys \cup {NONE}))

(* events_pending is unsigned: it never wraps, because each event was      *)
(* counted before it could be received.  It is exactly the events waiting, *)
(* those about to be sent and the one just received.                       *)
PendingIsExact ==
  pending = Cardinality(counted) + (Len(events) - taken)
              + (IF manager = "subtract" THEN 1 ELSE 0)

(* Every event received since the start is sent, given up, or in progress. *)
NoEventUncounted ==
  taken - dropped = sent + failed + (IF manager = "recv" THEN 0 ELSE 1)

(* Nothing on its way upstream is about this object or bucket.             *)
Quiet(x) ==
  /\ \A i \in Unfinished : Subject(events[i]) # x
  /\ \A r \in Requests : Active(r) => Obj(req[r]) # x

(* Once nothing about an object is under way, the upstream holds the bytes *)
(* of the local store, unless the last change was never announced or its   *)
(* event was given up or lost: a later write or delete that goes through   *)
(* repairs that too.                                                       *)
Converged ==
  \A o \in Objects : Quiet(o) /\ o \notin stale \cup missed => remote[o] = objects[o]

(* The same for a bucket in which nothing is under way or stale.           *)
BucketsConverged ==
  \A b \in Buckets :
    (\A k \in Keys \cup {NONE} : Quiet(<<b, k>>) /\ <<b, k>> \notin stale \cup missed)
      => (b \in remoteBuckets <=> b \in buckets)

(* Upstream calls and steps that the event in hand may still cost, a call *)
(* that fails included: four to an attempt.                                *)
Left ==
  CASE manager = "recv" -> 0
    [] manager = "subtract" -> (MaxRetries + 1) * 4 + 1
    [] OTHER -> (MaxRetries - attempt) * 4
                + (CASE manager = "begin" -> 4 [] manager = "head" -> 3
                     [] manager = "create_bucket" -> 2 [] OTHER -> 1)

(* README.md: "Failed syncs retry", and not for ever.  However the calls   *)
(* to the upstream fail, each step of the manager takes the next event or  *)
(* leaves less to do for the one in hand: none can hold up those behind it.*)
EffortFalls ==
  [][ crashes' = crashes /\ <<taken, manager, attempt>>' # <<taken, manager, attempt>>
        => taken' > taken \/ (taken' = taken /\ Left' < Left) ]_allVars

(* README.md: "Failed syncs retry" and "Events that fail after all retries *)
(* are dropped".  After a write has taken effect, its event is sent or     *)
(* given up, with all those before it (unless the process dies or the      *)
(* handler is dropped first).                                              *)
Drains ==
  \A r \in Requests :
    status[r] = "performed" ~> /\ status[r] = "done" /\ manager = "recv"
                               /\ taken = Len(events)
=============================================================================
