----------------------------- MODULE Hierarchy -----------------------------
(***************************************************************************)
(* Several MiniMinios in a tree, each pushing what is written to it to the *)
(* next (README.md, "Hierarchy Example"): the sync manager of every node   *)
(* (sync/mod.rs) is a client of the S3 handlers of the node above, whose   *)
(* changes go into that node's own channel.  A handler is one step here;   *)
(* ObjectStore and Sync take it apart.                                     *)
(***************************************************************************)
EXTENDS KeyPaths, Sequences

CONSTANTS
  Nodes,
  Up,          \* [Nodes -> the node it replicates to, or NONE]
  Prefix,      \* [Nodes -> sync_bucket_prefix], as a sequence of name parts
  Fronts,      \* the nodes that have clients of their own
  Local,       \* [Fronts -> the bucket names those clients use]
  Route,       \* [Fronts -> the nodes from there to the top]
  NameAt,      \* [Clients -> [its route -> the name of its bucket there]]
  NamesAt,     \* [Nodes -> the bucket names a node may come to see]
  MaxName,     \* the longest bucket name, in parts
  Keys,
  MaxRetries, Failures,
  Writes,      \* how many requests the clients make
  NONE, ABSENT

(* A node with clients, and a bucket name of theirs.                       *)
Clients == UNION {{n} \X Local[n] : n \in Fronts}

ASSUME TreeOfNodes ==
  /\ Up \in [Nodes -> Nodes \cup {NONE}] /\ NONE \notin Nodes /\ Fronts \subseteq Nodes
  /\ \A n \in Fronts :
       /\ Route[n] \in Seq(Nodes) /\ Route[n] # <<>> /\ Route[n][1] = n
       /\ \A i \in DOMAIN Route[n] :
            IF Up[Route[n][i]] = NONE THEN i = Len(Route[n])
            ELSE i + 1 \in DOMAIN Route[n] /\ Route[n][i + 1] = Up[Route[n][i]]
ASSUME NamesOnTheWay ==
  \A m \in Clients : \A i \in DOMAIN Route[m[1]] :
    /\ NameAt[m][i] = IF i = 1 THEN m[2] ELSE Prefix[Route[m[1]][i - 1]] \o NameAt[m][i - 1]
    /\ NameAt[m][i] \in NamesAt[Route[m[1]][i]]
ASSUME NamesClosed ==
  /\ \A n \in Fronts : Local[n] \subseteq NamesAt[n]
  /\ \A n \in Nodes : \A b \in NamesAt[n] : Up[n] # NONE => Prefix[n] \o b \in NamesAt[Up[n]]
ASSUME KeysAreKeys ==
  /\ \A k \in Keys : /\ WellFormedKey(k)
                     /\ {StoredAs(SyncRequest(k)), StoredAs(SdkRequest(k))} \subseteq Keys
  /\ NONE \notin Keys
ASSUME Counts == {MaxRetries, Writes, MaxName} \subseteq Nat
ASSUME Failing == Failures \subseteq {"unsent", "unheard"}

VARIABLES
  buckets,  \* [Nodes -> the buckets that exist]
  objects,  \* [Nodes -> [its objects -> which write each holds, or ABSENT]]
  queue,    \* [Nodes -> the events in its channel]
  job,      \* [Nodes -> what its sync manager is doing]
  requests, \* how many requests the clients have made
  stale     \* history: [Nodes -> what the events it gave up were about]

stores == <<buckets, objects, queue>>
vars == <<stores, job, requests, stale>>

Objects(n) == NamesAt[n] \X Keys
Event(kind, b, k) == [kind |-> kind, bucket |-> b, key |-> k]
Events(n) ==
  [kind : {"put", "delete"}, bucket : NamesAt[n], key : Keys]
    \cup [kind : {"create_bucket", "delete_bucket"}, bucket : NamesAt[n], key : {NONE}]
Calls == {"recv", "begin", "head", "create_bucket", "put", "delete", "delete_bucket"}
Idle == [call |-> "recv", event |-> Event("none", NONE, NONE), attempt |-> 0, held |-> ABSENT]

Valid(b) == Len(b) <= MaxName

(* Mutant: the prefix is forgotten.                                        *)
RemoteUnprefixed(n, b) == b

Remote(n, b) == Prefix[n] \o b

(* A write: the node and the bucket of its client, and its number.         *)
Write(m, i) == <<m[1], m[2], i>>
AllWrites == {Write(m, i) : m \in Clients, i \in 0..Writes}
ASSUME NotAWrite == ABSENT \notin AllWrites

(* Some buckets of the clients exist, with some objects, and have been     *)
(* replicated.                                                             *)
Replica(u, x, m) == \E i \in DOMAIN Route[m[1]] : Route[m[1]][i] = u /\ NameAt[m][i] = x
Init ==
  /\ \E made \in SUBSET {m \in Clients : \A i \in DOMAIN Route[m[1]] : Valid(NameAt[m][i])} :
     \E kept \in SUBSET (made \X {k \in Keys : Travels(k)}) :
       /\ buckets = [u \in Nodes |-> {x \in NamesAt[u] : \E m \in made : Replica(u, x, m)}]
       /\ objects = [u \in Nodes |-> [o \in Objects(u) |->
            LET own == {m \in made : <<m, o[2]>> \in kept /\ Replica(u, o[1], m)}
            IN IF own = {} THEN ABSENT ELSE Write(CHOOSE m \in own : TRUE, 0)]]
  /\ queue = [n \in Nodes |-> <<>>]
  /\ job = [n \in Nodes |-> Idle]
  /\ requests = 0
  /\ stale = [n \in Nodes |-> {}]

-----------------------------------------------------------------------------
(* The handlers of a node, for whoever calls them.                         *)

Emitted(n, event) ==
  IF Up[n] = NONE THEN queue ELSE [queue EXCEPT ![n] = Append(@, event)]

PutObject(n, b, k, w) ==
  /\ b \in buckets[n]
  /\ objects' = [objects EXCEPT ![n][<<b, k>>] = w]
  /\ queue' = Emitted(n, Event("put", b, k))
  /\ UNCHANGED buckets

DeleteObject(n, b, k) ==
  /\ b \in buckets[n]
  /\ objects' = [objects EXCEPT ![n][<<b, k>>] = ABSENT]
  /\ queue' = Emitted(n, Event("delete", b, k))
  /\ UNCHANGED buckets

CreateBucket(n, b) ==
  /\ Valid(b) /\ b \notin buckets[n]
  /\ buckets' = [buckets EXCEPT ![n] = @ \cup {b}]
  /\ queue' = Emitted(n, Event("create_bucket", b, NONE))
  /\ UNCHANGED objects

Empty(n, b) == \A k \in Keys : objects[n][<<b, k>>] = ABSENT

DeleteBucket(n, b) ==
  /\ b \in buckets[n] /\ Empty(n, b)
  /\ buckets' = [buckets EXCEPT ![n] = @ \ {b}]
  /\ queue' = Emitted(n, Event("delete_bucket", b, NONE))
  /\ UNCHANGED objects

-----------------------------------------------------------------------------
(* Clients.  The console stores a key as it is; an SDK can only store one  *)
(* whose signature is verified.  Refused requests change nothing.          *)

SdkPut(n, b, k, w) == Verified(SdkRequest(k)) /\ PutObject(n, b, StoredAs(SdkRequest(k)), w)
ConsolePut(n, b, k, w) == PutObject(n, b, k, w)

Client(n) ==
  /\ requests < Writes
  /\ requests' = requests + 1
  /\ \E b \in Local[n], k \in Keys :
        LET w == Write(<<n, b>>, requests') IN
          \/ SdkPut(n, b, k, w) \/ ConsolePut(n, b, k, w) \/ DeleteObject(n, b, k)
          \/ CreateBucket(n, b) \/ DeleteBucket(n, b)
  /\ UNCHANGED <<job, stale>>

-----------------------------------------------------------------------------
(* The sync manager of a node.                                             *)

Subject(n) == <<job[n].event.bucket, job[n].event.key>>
To(n, call) == job' = [job EXCEPT ![n].call = call] /\ UNCHANGED stale
Done(n) ==
  /\ job' = [job EXCEPT ![n] = Idle]
  /\ stale' = [stale EXCEPT ![n] = @ \ {Subject(n)}]

(* Mutants: one retry too many; an attempt that is never counted.          *)
RetryOnceMore(n) ==
  /\ job' = IF job[n].attempt <= MaxRetries
            THEN [job EXCEPT ![n].call = "begin", ![n].attempt = @ + 1]
            ELSE [job EXCEPT ![n] = Idle]
  /\ stale' = IF job[n].attempt <= MaxRetries THEN stale
              ELSE [stale EXCEPT ![n] = @ \cup {Subject(n)}]

RetryForever(n) == job' = [job EXCEPT ![n].call = "begin"] /\ UNCHANGED stale

Retry(n) ==
  \/ /\ job[n].attempt < MaxRetries
     /\ job' = [job EXCEPT ![n].call = "begin", ![n].attempt = @ + 1]
     /\ UNCHANGED stale
  \/ /\ job[n].attempt = MaxRetries
     /\ job' = [job EXCEPT ![n] = Idle]
     /\ stale' = [stale EXCEPT ![n] = @ \cup {Subject(n)}]

Recv(n) ==
  /\ job[n].call = "recv" /\ queue[n] # <<>>
  /\ job' = [job EXCEPT ![n].call = "begin", ![n].event = Head(queue[n])]
  /\ queue' = [queue EXCEPT ![n] = Tail(@)]
  /\ UNCHANGED <<buckets, objects, requests, stale>>

(* process_event: a put reads the object again, at every attempt.          *)
Begin(n) ==
  /\ job[n].call = "begin"
  /\ LET e == job[n].event IN
       \/ /\ e.kind = "put"
          /\ LET w == objects[n][Subject(n)] IN
               \/ w = ABSENT /\ Done(n)
               \/ /\ w # ABSENT
                  /\ job' = [job EXCEPT ![n].call = "head", ![n].held = w]
                  /\ UNCHANGED stale
       \/ e.kind = "create_bucket" /\ To(n, "head")
       \/ e.kind \in {"delete", "delete_bucket"} /\ To(n, e.kind)
  /\ UNCHANGED <<stores, requests>>

Heard == {TRUE} \cup (IF "unheard" \in Failures THEN {FALSE} ELSE {})
Unsent == "unsent" \in Failures

(* For a put the result of ensuring the bucket is ignored.                 *)
Settle(n, ok) ==
  IF job[n].event.kind = "put" THEN To(n, "put") ELSE IF ok THEN Done(n) ELSE Retry(n)

HeadBucket(n) ==
  /\ job[n].call = "head"
  /\ \/ Remote(n, job[n].event.bucket) \in buckets[Up[n]] /\ Settle(n, TRUE)
     \/ Remote(n, job[n].event.bucket) \notin buckets[Up[n]] /\ To(n, "create_bucket")
     \/ Failures # {} /\ (IF job[n].event.kind = "put" THEN To(n, "create_bucket")
                          ELSE Retry(n))
  /\ UNCHANGED <<stores, requests>>

EnsureBucket(n) ==
  /\ job[n].call = "create_bucket"
  /\ LET b == Remote(n, job[n].event.bucket) IN
       \/ CreateBucket(Up[n], b) /\ \E heard \in Heard : Settle(n, heard)
       \/ /\ b \in buckets[Up[n]] /\ Valid(b)
          /\ \E heard \in Heard : Settle(n, heard)
          /\ UNCHANGED stores
       \/ ~Valid(b) /\ Settle(n, FALSE) /\ UNCHANGED stores
       \/ Unsent /\ Settle(n, FALSE) /\ UNCHANGED stores
  /\ UNCHANGED requests

(* Mutant: whatever the answer, the event was sent.                        *)
FinishAnyway(n, ok) == Done(n)

Finish(n, ok) == IF ok THEN Done(n) ELSE Retry(n)

(* 403 when the signature is not verified, 404 without the bucket.         *)
PushObject(n) ==
  /\ job[n].call = "put"
  /\ LET b == Remote(n, job[n].event.bucket)
         q == SyncRequest(job[n].event.key)
     IN \/ /\ Verified(q)
           /\ PutObject(Up[n], b, StoredAs(q), job[n].held)
           /\ \E heard \in Heard : Finish(n, heard)
        \/ /\ ~Verified(q) \/ b \notin buckets[Up[n]] \/ Unsent
           /\ Finish(n, FALSE) /\ UNCHANGED stores
  /\ UNCHANGED requests

PushDelete(n) ==
  /\ job[n].call = "delete"
  /\ LET b == Remote(n, job[n].event.bucket)
         q == SyncRequest(job[n].event.key)
     IN \/ /\ Verified(q)
           /\ DeleteObject(Up[n], b, StoredAs(q))
           /\ \E heard \in Heard : Finish(n, heard)
        \/ /\ Verified(q) /\ b \notin buckets[Up[n]]
           /\ \E heard \in Heard : Finish(n, heard)
           /\ UNCHANGED stores
        \/ (~Verified(q) \/ Unsent) /\ Finish(n, FALSE) /\ UNCHANGED stores
  /\ UNCHANGED requests

PushDeleteBucket(n) ==
  /\ job[n].call = "delete_bucket"
  /\ LET b == Remote(n, job[n].event.bucket) IN
       \/ DeleteBucket(Up[n], b) /\ \E heard \in Heard : Finish(n, heard)
       \/ /\ b \notin buckets[Up[n]] \/ ~Empty(Up[n], b)
          /\ \E heard \in Heard : Finish(n, heard)
          /\ UNCHANGED stores
       \/ Unsent /\ Finish(n, FALSE) /\ UNCHANGED stores
  /\ UNCHANGED requests

Replicating == {n \in Nodes : Up[n] # NONE}
Manager(n) ==
  \/ Recv(n) \/ Begin(n) \/ HeadBucket(n) \/ EnsureBucket(n)
  \/ PushObject(n) \/ PushDelete(n) \/ PushDeleteBucket(n)

Next ==
  \/ \E n \in Fronts : Client(n)
  \/ \E n \in Replicating : Manager(n)

(* The runtime polls every manager, and upstreams answer or break the      *)
(* connection sooner or later.                                             *)
Spec == Init /\ [][Next]_vars /\ \A n \in Replicating : WF_vars(Manager(n))

-----------------------------------------------------------------------------
HierarchyTypeOK ==
  /\ \A n \in Nodes :
       /\ buckets[n] \subseteq {b \in NamesAt[n] : Valid(b)}
       /\ objects[n] \in [Objects(n) -> AllWrites \cup {ABSENT}]
       /\ queue[n] \in Seq(Events(n))
       /\ job[n] \in [call : Calls, event : Events(n) \cup {Idle.event},
                     attempt : 0..MaxRetries, held : AllWrites \cup {ABSENT}]
       /\ stale[n] \subseteq NamesAt[n] \X (Keys \cup {NONE})
  /\ requests \in 0..Writes

(* No bucket of one instance's clients is called like that of another one  *)
(* at a node where both arrive: the prefixes are there to make it so.      *)
Separate ==
  \A m, p \in Clients : \A i \in DOMAIN Route[m[1]], j \in DOMAIN Route[p[1]] :
    Route[m[1]][i] = Route[p[1]][j] /\ NameAt[m][i] = NameAt[p][j] => m = p

Quiet(n) == queue[n] = <<>> /\ job[n].call = "recv"

(* README.md: the prefix "prevents name collisions across instances".      *)
(* Under the name that a bucket of n has at a node above, no other         *)
(* instance's bytes are ever found.                                        *)
Isolated ==
  \A n \in Fronts : \A b \in Local[n], k \in Keys, i \in DOMAIN Route[n] :
    LET w == objects[Route[n][i]][<<NameAt[<<n, b>>][i], k>>]
    IN w # ABSENT => w[1] = n /\ w[2] = b

(* Nothing about an object of n waits below the i-th node of its route,    *)
(* and nothing about it was given up there.                                *)
Arrived(n, b, k, i) ==
  \A j \in 1..(i - 1) : /\ Quiet(Route[n][j])
                        /\ <<NameAt[<<n, b>>][j], k>> \notin stale[Route[n][j]]

Same(n, b, k, i) ==
  objects[Route[n][i]][<<NameAt[<<n, b>>][i], k>>] = objects[n][<<b, k>>]

(* All the way up, each node then holds what the first one holds, for keys *)
(* that keep their name and that no other key turns into.                  *)
EndToEnd ==
  \A n \in Fronts : \A b \in Local[n], k \in Keys, i \in DOMAIN Route[n] :
    /\ Travels(k)
    /\ \A j \in Keys \ {k} : StoredAs(SyncRequest(j)) # k
    /\ Arrived(n, b, k, i)
    => Same(n, b, k, i)

(* Whatever the clients have done is pushed to the top or given up.        *)
Settles == <>[](\A n \in Replicating : Quiet(n))

(* README.md: "one-way push replication to an upstream MiniMinio".  When   *)
(* no call fails, every object of whatever name gets there.                *)
EveryKeyReplicates ==
  \A n \in Fronts : \A b \in Local[n], k \in Keys, i \in DOMAIN Route[n] :
    (\A j \in 1..(i - 1) : Quiet(Route[n][j])) => Same(n, b, k, i)
=============================================================================
