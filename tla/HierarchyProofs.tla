--------------------------- MODULE HierarchyProofs ---------------------------
(***************************************************************************)
(* Proofs about Hierarchy: its types, that replication keeps instances     *)
(* apart, and that it carries objects all the way up, for any tree of      *)
(* nodes, any prefixes and any keys.                                       *)
(***************************************************************************)
EXTENDS Hierarchy, SequenceTheorems, NaturalsInduction, WellFoundedInduction, TLAPS

(* The bytes were written by clients whose bucket has this name here.      *)
Comes(u, x, w) == \E m \in Clients : Replica(u, x, m) /\ w[1] = m[1] /\ w[2] = m[2]

Stored == AllWrites \cup {ABSENT}
StoreOK(n) ==
  /\ buckets[n] \subseteq {b \in NamesAt[n] : Valid(b)}
  /\ objects[n] \in [Objects(n) -> Stored]
  /\ queue[n] \in Seq(Events(n))
  /\ \A o \in Objects(n) : objects[n][o] # ABSENT => Comes(n, o[1], objects[n][o])
StoresOK ==
  /\ DOMAIN buckets = Nodes /\ DOMAIN objects = Nodes /\ DOMAIN queue = Nodes
  /\ buckets = [n \in Nodes |-> buckets[n]] /\ objects = [n \in Nodes |-> objects[n]]
  /\ queue = [n \in Nodes |-> queue[n]]
  /\ \A n \in Nodes : StoreOK(n)

(* What a manager is doing with which event.                               *)
Phase(call, kind) ==
  /\ call \in {"head", "create_bucket"} => kind \in {"put", "create_bucket"}
  /\ call \in {"put", "delete", "delete_bucket"} => kind = call
JobOK(n) ==
  /\ job[n] \in [call : Calls, event : Events(n) \cup {Idle.event},
                 attempt : 0..MaxRetries, held : Stored]
  /\ IF job[n].call = "recv" THEN job[n].held = ABSENT /\ job[n].attempt = 0
     ELSE job[n].event \in Events(n) /\ Phase(job[n].call, job[n].event.kind)
  /\ job[n].held # ABSENT => Comes(n, job[n].event.bucket, job[n].held)
  /\ stale[n] \subseteq NamesAt[n] \X (Keys \cup {NONE})
JobsOK ==
  /\ job = [n \in Nodes |-> job[n]] /\ stale = [n \in Nodes |-> stale[n]]
  /\ \A n \in Nodes : JobOK(n)

HInv == StoresOK /\ JobsOK /\ requests \in 0..Writes

-----------------------------------------------------------------------------
(* The names that a bucket has on its way.                                 *)

LEMMA NextOnRoute ==
  ASSUME NEW m \in Clients, NEW i \in DOMAIN Route[m[1]], Up[Route[m[1]][i]] # NONE
  PROVE  /\ m[1] \in Fronts /\ i \in Nat \ {0} /\ i + 1 \in DOMAIN Route[m[1]]
         /\ Route[m[1]][i + 1] = Up[Route[m[1]][i]]
         /\ NameAt[m][i + 1] = Remote(Route[m[1]][i], NameAt[m][i])
<1>1. m[1] \in Fronts
  BY DEF Clients
<1>2. /\ i + 1 \in DOMAIN Route[m[1]] /\ Route[m[1]][i + 1] = Up[Route[m[1]][i]]
      /\ Route[m[1]] \in Seq(Nodes)
  BY <1>1, TreeOfNodes
<1>3. i \in Nat \ {0}
  BY <1>2
<1>4. i + 1 # 1 /\ (i + 1) - 1 = i
  BY <1>3
<1>5. NameAt[m][i + 1] = IF i + 1 = 1 THEN m[2]
                         ELSE Prefix[Route[m[1]][(i + 1) - 1]] \o NameAt[m][(i + 1) - 1]
  BY <1>2, NamesOnTheWay
<1> QED BY <1>1, <1>2, <1>3, <1>4, <1>5 DEF Remote

LEMMA OneUp ==
  ASSUME NEW n \in Nodes, Up[n] # NONE
  PROVE  /\ Up[n] \in Nodes
         /\ \A b \in NamesAt[n] : Remote(n, b) \in NamesAt[Up[n]]
         /\ \A x, w : Comes(n, x, w) => Comes(Up[n], Remote(n, x), w)
<1>1. Up[n] \in Nodes
  BY TreeOfNodes
<1>2. \A b \in NamesAt[n] : Remote(n, b) \in NamesAt[Up[n]]
  BY NamesClosed DEF Remote
<1>3. ASSUME NEW x, NEW w, Comes(n, x, w) PROVE Comes(Up[n], Remote(n, x), w)
  <2> PICK m \in Clients : Replica(n, x, m) /\ w[1] = m[1] /\ w[2] = m[2]
    BY <1>3 DEF Comes
  <2> PICK i \in DOMAIN Route[m[1]] : Route[m[1]][i] = n /\ NameAt[m][i] = x
    BY DEF Replica
  <2> QED BY NextOnRoute DEF Comes, Replica
<1> QED BY <1>1, <1>2, <1>3

LEMMA AtHome ==
  ASSUME NEW n \in Fronts, NEW b \in Local[n], NEW i \in 0..Writes
  PROVE  /\ n \in Nodes /\ b \in NamesAt[n] /\ <<n, b>> \in Clients
         /\ Write(<<n, b>>, i) \in AllWrites
         /\ Comes(n, b, Write(<<n, b>>, i))
<1>1. n \in Nodes /\ b \in NamesAt[n] /\ <<n, b>> \in Clients
  BY TreeOfNodes, NamesClosed DEF Clients
<1>2. 1 \in DOMAIN Route[n] /\ Route[n][1] = n
  BY TreeOfNodes
<1>3. NameAt[<<n, b>>][1] = b
  BY <1>1, <1>2, NamesOnTheWay
<1> QED BY <1>1, <1>2, <1>3 DEF Comes, Replica, Write, AllWrites

-----------------------------------------------------------------------------
(* The handlers.                                                           *)

LEMMA EmitKeeps ==
  ASSUME StoresOK, NEW u \in Nodes, NEW e \in Events(u), queue' = Emitted(u, e)
  PROVE  /\ DOMAIN queue' = Nodes /\ queue' = [n \in Nodes |-> queue'[n]]
         /\ \A n \in Nodes : queue'[n] \in Seq(Events(n))
<1>1. CASE Up[u] = NONE
  BY <1>1 DEF StoresOK, StoreOK, Emitted
<1>2. CASE Up[u] # NONE
  <2>1. queue' = [queue EXCEPT ![u] = Append(@, e)]
    BY <1>2 DEF Emitted
  <2>2. Append(queue[u], e) \in Seq(Events(u))
    BY DEF StoresOK, StoreOK
  <2>3. \A n \in Nodes : queue'[n] = IF n = u THEN Append(queue[u], e) ELSE queue[n]
    BY <2>1 DEF StoresOK
  <2>4. DOMAIN queue' = Nodes /\ queue' = [n \in Nodes |-> queue'[n]]
    BY <2>1 DEF StoresOK
  <2> QED BY <2>2, <2>3, <2>4 DEF StoresOK, StoreOK
<1> QED BY <1>1, <1>2

LEMMA PutKeeps ==
  ASSUME StoresOK, NEW u \in Nodes, NEW b \in NamesAt[u], NEW k \in Keys,
         NEW w \in Stored, w # ABSENT => Comes(u, b, w), PutObject(u, b, k, w)
  PROVE  StoresOK'
<1>1. objects' = [objects EXCEPT ![u][<<b, k>>] = w] /\ buckets' = buckets
      /\ queue' = Emitted(u, Event("put", b, k))
  BY DEF PutObject
<1>2. Event("put", b, k) \in Events(u) /\ <<b, k>> \in Objects(u)
  BY DEF Event, Events, Objects
<1>3. /\ DOMAIN objects' = Nodes /\ objects' = [n \in Nodes |-> objects'[n]]
      /\ \A n \in Nodes \ {u} : objects'[n] = objects[n]
      /\ objects'[u] = [objects[u] EXCEPT ![<<b, k>>] = w]
  BY <1>1 DEF StoresOK
<1>4. \A n \in Nodes :
        /\ objects'[n] \in [Objects(n) -> Stored]
        /\ \A o \in Objects(n) : objects'[n][o] # ABSENT => Comes(n, o[1], objects'[n][o])
  <2> TAKE n \in Nodes
  <2>1. CASE n = u
    <3>1. objects[u] \in [Objects(u) -> Stored] /\ w \in Stored
      BY DEF StoresOK, StoreOK, Stored
    <3>2. \A o \in Objects(u) : objects'[u][o] = IF o = <<b, k>> THEN w ELSE objects[u][o]
      BY <1>3, <3>1
    <3>3. objects'[u] \in [Objects(u) -> Stored]
      BY <1>3, <3>1
    <3> QED BY <2>1, <3>2, <3>3 DEF StoresOK, StoreOK
  <2>2. CASE n # u
    BY <1>3, <2>2 DEF StoresOK, StoreOK
  <2> QED BY <2>1, <2>2
<1> QED BY <1>1, <1>2, <1>3, <1>4, EmitKeeps DEF StoresOK, StoreOK

LEMMA DeleteKeeps ==
  ASSUME StoresOK, NEW u \in Nodes, NEW b \in NamesAt[u], NEW k \in Keys,
         DeleteObject(u, b, k)
  PROVE  StoresOK'
<1>1. objects' = [objects EXCEPT ![u][<<b, k>>] = ABSENT] /\ buckets' = buckets
      /\ queue' = Emitted(u, Event("delete", b, k))
  BY DEF DeleteObject
<1>2. Event("delete", b, k) \in Events(u) /\ <<b, k>> \in Objects(u)
  BY DEF Event, Events, Objects
<1>3. /\ DOMAIN objects' = Nodes /\ objects' = [n \in Nodes |-> objects'[n]]
      /\ \A n \in Nodes \ {u} : objects'[n] = objects[n]
      /\ objects'[u] = [objects[u] EXCEPT ![<<b, k>>] = ABSENT]
  BY <1>1 DEF StoresOK
<1>4. \A n \in Nodes :
        /\ objects'[n] \in [Objects(n) -> Stored]
        /\ \A o \in Objects(n) : objects'[n][o] # ABSENT => Comes(n, o[1], objects'[n][o])
  <2> TAKE n \in Nodes
  <2>1. CASE n = u
    <3>1. objects[u] \in [Objects(u) -> Stored] /\ ABSENT \in Stored
      BY DEF StoresOK, StoreOK, Stored
    <3>2. \A o \in Objects(u) : objects'[u][o] = IF o = <<b, k>> THEN ABSENT ELSE objects[u][o]
      BY <1>3, <3>1
    <3>3. objects'[u] \in [Objects(u) -> Stored]
      BY <1>3, <3>1
    <3> QED BY <2>1, <3>2, <3>3 DEF StoresOK, StoreOK
  <2>2. CASE n # u
    BY <1>3, <2>2 DEF StoresOK, StoreOK
  <2> QED BY <2>1, <2>2
<1> QED BY <1>1, <1>2, <1>3, <1>4, EmitKeeps DEF StoresOK, StoreOK

LEMMA BucketKeeps ==
  ASSUME StoresOK, NEW u \in Nodes, NEW b \in NamesAt[u],
         CreateBucket(u, b) \/ DeleteBucket(u, b)
  PROVE  StoresOK'
<1>1. /\ objects' = objects
      /\ \/ Valid(b) /\ buckets' = [buckets EXCEPT ![u] = @ \cup {b}]
         \/ buckets' = [buckets EXCEPT ![u] = @ \ {b}]
  BY DEF CreateBucket, DeleteBucket
<1>2. PICK e \in Events(u) : queue' = Emitted(u, e)
  BY DEF CreateBucket, DeleteBucket, Event, Events
<1>3. /\ DOMAIN buckets' = Nodes /\ buckets' = [n \in Nodes |-> buckets'[n]]
      /\ \A n \in Nodes : buckets'[n] \subseteq {x \in NamesAt[n] : Valid(x)}
  <2>1. PICK c : /\ buckets' = [buckets EXCEPT ![u] = c]
                 /\ c \in {buckets[u] \cup {b}, buckets[u] \ {b}}
                 /\ c = buckets[u] \cup {b} => Valid(b) \/ b \in buckets[u]
    BY <1>1 DEF StoresOK
  <2>2. buckets[u] \subseteq {x \in NamesAt[u] : Valid(x)}
    BY DEF StoresOK, StoreOK
  <2>3. c \subseteq {x \in NamesAt[u] : Valid(x)}
    BY <2>1, <2>2
  <2>4. \A n \in Nodes : buckets'[n] = IF n = u THEN c ELSE buckets[n]
    BY <2>1 DEF StoresOK
  <2> QED BY <2>1, <2>3, <2>4 DEF StoresOK, StoreOK
<1> QED BY <1>1, <1>2, <1>3, EmitKeeps DEF StoresOK, StoreOK

-----------------------------------------------------------------------------
LEMMA InitKeeps == Init => HInv
<1> SUFFICES ASSUME Init PROVE HInv
  OBVIOUS
<1> PICK made \in SUBSET {m \in Clients : \A i \in DOMAIN Route[m[1]] : Valid(NameAt[m][i])} :
      \E kept \in SUBSET (made \X {k \in Keys : Travels(k)}) :
        /\ buckets = [u \in Nodes |-> {x \in NamesAt[u] : \E m \in made : Replica(u, x, m)}]
        /\ objects = [u \in Nodes |-> [o \in Objects(u) |->
             LET own == {m \in made : <<m, o[2]>> \in kept /\ Replica(u, o[1], m)}
             IN IF own = {} THEN ABSENT ELSE Write(CHOOSE m \in own : TRUE, 0)]]
  BY DEF Init
<1>1. PICK kept \in SUBSET (made \X {k \in Keys : Travels(k)}) :
        /\ buckets = [u \in Nodes |-> {x \in NamesAt[u] : \E m \in made : Replica(u, x, m)}]
        /\ objects = [u \in Nodes |-> [o \in Objects(u) |->
             LET own == {m \in made : <<m, o[2]>> \in kept /\ Replica(u, o[1], m)}
             IN IF own = {} THEN ABSENT ELSE Write(CHOOSE m \in own : TRUE, 0)]]
  OBVIOUS
<1>2. /\ queue = [n \in Nodes |-> <<>>] /\ job = [n \in Nodes |-> Idle] /\ requests = 0
      /\ stale = [n \in Nodes |-> {}] /\ Writes \in Nat /\ MaxRetries \in Nat
  BY Counts DEF Init
<1>3. ASSUME NEW u \in Nodes PROVE buckets[u] \subseteq {b \in NamesAt[u] : Valid(b)}
  BY <1>1 DEF Replica
<1>4. ASSUME NEW u \in Nodes, NEW o \in Objects(u)
      PROVE  /\ objects[u][o] \in Stored
             /\ objects[u][o] # ABSENT => Comes(u, o[1], objects[u][o])
  <2> DEFINE own == {m \in made : <<m, o[2]>> \in kept /\ Replica(u, o[1], m)}
  <2>1. objects[u][o] = IF own = {} THEN ABSENT ELSE Write(CHOOSE m \in own : TRUE, 0)
    BY <1>1
  <2>2. CASE own = {}
    BY <2>1, <2>2 DEF Stored
  <2>3. CASE own # {}
    <3>1. PICK m : m \in own /\ objects[u][o] = Write(m, 0)
      BY <2>1, <2>3
    <3>2. m \in Clients /\ Replica(u, o[1], m)
      BY <3>1
    <3>3. 0 \in 0..Writes /\ Write(m, 0)[1] = m[1] /\ Write(m, 0)[2] = m[2]
      BY <1>2 DEF Write
    <3>4. Write(m, 0) \in AllWrites
      BY <3>2, <3>3 DEF AllWrites
    <3> QED BY <3>1, <3>2, <3>3, <3>4 DEF Stored, Comes
  <2> QED BY <2>2, <2>3
<1>5. ASSUME NEW u \in Nodes PROVE objects[u] = [o \in Objects(u) |-> objects[u][o]]
  BY <1>1
<1>6. StoresOK
  <2>1. \A n \in Nodes : queue[n] \in Seq(Events(n))
    BY <1>2
  <2>2. \A u \in Nodes : objects[u] \in [Objects(u) -> Stored]
    BY <1>4, <1>5
  <2> QED BY <1>1, <1>2, <1>3, <1>4, <2>1, <2>2 DEF StoresOK, StoreOK
<1>7. JobsOK
  BY <1>2 DEF JobsOK, JobOK, Idle, Event, Calls, Stored
<1> QED BY <1>2, <1>6, <1>7 DEF HInv

-----------------------------------------------------------------------------
(* The manager.                                                            *)

(* A step of the manager of n that leaves the others alone.                *)
LEMMA OneJob ==
  ASSUME JobsOK, NEW n \in Nodes, NEW j, job' = [job EXCEPT ![n] = j],
         NEW S, stale' = [stale EXCEPT ![n] = S], JobOK(n)'
  PROVE  JobsOK'
<1>1. \A m \in Nodes \ {n} : job'[m] = job[m] /\ stale'[m] = stale[m]
  BY DEF JobsOK
<1>2. \A m \in Nodes \ {n} : JobOK(m)'
  BY <1>1 DEF JobsOK, JobOK
<1>3. job' = [m \in Nodes |-> job'[m]] /\ stale' = [m \in Nodes |-> stale'[m]]
  BY DEF JobsOK
<1> QED BY <1>2, <1>3 DEF JobsOK

LEMMA ToKeeps ==
  ASSUME JobsOK, NEW n \in Nodes, job[n].call # "recv",
         NEW call \in Calls \ {"recv"}, Phase(call, job[n].event.kind), To(n, call)
  PROVE  JobsOK'
<1>1. job' = [job EXCEPT ![n] = [job[n] EXCEPT !.call = call]]
      /\ stale' = [stale EXCEPT ![n] = stale[n]]
  BY DEF To, JobsOK
<1>2. job'[n] = [job[n] EXCEPT !.call = call] /\ stale'[n] = stale[n]
  BY <1>1 DEF JobsOK
<1>3. JobOK(n)'
  BY <1>2 DEF JobsOK, JobOK
<1> QED BY <1>1, <1>3, OneJob

(* What a manager is at is about a bucket or an object of its node.        *)
LEMMA SubjectIsKnown ==
  ASSUME JobsOK, NEW n \in Nodes, job[n].call # "recv"
  PROVE  Subject(n) \in NamesAt[n] \X (Keys \cup {NONE})
BY DEF JobsOK, JobOK, Subject, Events

LEMMA DoneKeeps ==
  ASSUME JobsOK, NEW n \in Nodes, job[n].call # "recv", Done(n)
  PROVE  JobsOK'
<1>1. job' = [job EXCEPT ![n] = Idle] /\ stale' = [stale EXCEPT ![n] = stale[n] \ {Subject(n)}]
  BY DEF Done
<1>2. job'[n] = Idle /\ stale'[n] = stale[n] \ {Subject(n)}
  BY <1>1 DEF JobsOK
<1>3. JobOK(n)'
  BY <1>2, Counts DEF JobsOK, JobOK, Idle, Calls, Stored
<1> QED BY <1>1, <1>3, OneJob

LEMMA RetryKeeps ==
  ASSUME JobsOK, NEW n \in Nodes, job[n].call # "recv", Retry(n)
  PROVE  JobsOK'
<1>0. MaxRetries \in Nat
  BY Counts
<1>1. CASE /\ job[n].attempt < MaxRetries /\ stale' = stale
           /\ job' = [job EXCEPT ![n].call = "begin", ![n].attempt = @ + 1]
  <2> DEFINE j == [job[n] EXCEPT !.call = "begin", !.attempt = job[n].attempt + 1]
  <2>1. job' = [job EXCEPT ![n] = j] /\ stale' = [stale EXCEPT ![n] = stale[n]]
    BY <1>1 DEF JobsOK
  <2>2. job'[n] = j /\ stale'[n] = stale[n]
    BY <2>1 DEF JobsOK
  <2>3. job[n].attempt + 1 \in 0..MaxRetries
    BY <1>0, <1>1 DEF JobsOK, JobOK
  <2>4. JobOK(n)'
    BY <2>2, <2>3 DEF JobsOK, JobOK, Calls, Phase
  <2> HIDE DEF j
  <2> QED BY <2>1, <2>4, OneJob
<1>2. CASE /\ job' = [job EXCEPT ![n] = Idle]
           /\ stale' = [stale EXCEPT ![n] = @ \cup {Subject(n)}]
  <2>1. job'[n] = Idle /\ stale'[n] = stale[n] \cup {Subject(n)}
    BY <1>2 DEF JobsOK
  <2>2. JobOK(n)'
    BY <1>0, <2>1, SubjectIsKnown DEF JobsOK, JobOK, Idle, Calls, Stored
  <2>3. stale' = [stale EXCEPT ![n] = stale[n] \cup {Subject(n)}]
    BY <1>2
  <2> QED BY <1>2, <2>2, <2>3, OneJob
<1> QED BY <1>1, <1>2 DEF Retry

LEMMA FinishKeeps ==
  ASSUME JobsOK, NEW n \in Nodes, job[n].call # "recv", NEW ok, Finish(n, ok)
  PROVE  JobsOK'
BY DoneKeeps, RetryKeeps DEF Finish

LEMMA SettleKeeps ==
  ASSUME JobsOK, NEW n \in Nodes, job[n].call # "recv", NEW ok, Settle(n, ok)
  PROVE  JobsOK'
<1>1. job[n].event.kind = "put" => Phase("put", job[n].event.kind) /\ "put" \in Calls \ {"recv"}
  BY DEF Phase, Calls
<1> QED BY <1>1, ToKeeps, DoneKeeps, RetryKeeps DEF Settle

LEMMA ClientKeeps == ASSUME HInv, NEW n \in Fronts, Client(n) PROVE HInv'
<1>1. /\ requests < Writes /\ requests' = requests + 1 /\ UNCHANGED <<job, stale>>
  BY DEF Client
<1>2. requests' \in 0..Writes
  BY <1>1, Counts DEF HInv
<1>3. PICK b \in Local[n], k \in Keys :
        LET w == Write(<<n, b>>, requests') IN
          \/ SdkPut(n, b, k, w) \/ ConsolePut(n, b, k, w) \/ DeleteObject(n, b, k)
          \/ CreateBucket(n, b) \/ DeleteBucket(n, b)
  BY DEF Client
<1> DEFINE w == Write(<<n, b>>, requests')
<1>4. n \in Nodes /\ b \in NamesAt[n] /\ w \in Stored /\ Comes(n, b, w)
  BY <1>2, AtHome DEF Stored
<1>5. StoredAs(SdkRequest(k)) \in Keys
  BY KeysAreKeys
<1> HIDE DEF w
<1>6. StoresOK'
  <2>1. \/ PutObject(n, b, StoredAs(SdkRequest(k)), w) \/ PutObject(n, b, k, w)
        \/ DeleteObject(n, b, k) \/ CreateBucket(n, b) \/ DeleteBucket(n, b)
    BY <1>3 DEF SdkPut, ConsolePut, w
  <2> QED BY <1>4, <1>5, <2>1, PutKeeps, DeleteKeeps, BucketKeeps DEF HInv
<1>7. JobsOK'
  BY <1>1 DEF HInv, JobsOK, JobOK
<1> QED BY <1>2, <1>6, <1>7 DEF HInv

LEMMA RecvKeeps == ASSUME HInv, NEW n \in Nodes, Recv(n) PROVE HInv'
<1>1. /\ job[n].call = "recv" /\ queue[n] # <<>> /\ stale' = stale
      /\ job' = [job EXCEPT ![n].call = "begin", ![n].event = Head(queue[n])]
      /\ queue' = [queue EXCEPT ![n] = Tail(@)]
      /\ UNCHANGED <<buckets, objects, requests>>
  BY DEF Recv
<1>2. queue[n] \in Seq(Events(n))
  BY DEF HInv, StoresOK, StoreOK
<1>3. Head(queue[n]) \in Events(n) /\ Tail(queue[n]) \in Seq(Events(n))
  BY <1>1, <1>2
<1>4. StoresOK'
  <2>1. \A m \in Nodes : queue'[m] = IF m = n THEN Tail(queue[n]) ELSE queue[m]
    BY <1>1 DEF HInv, StoresOK
  <2>2. DOMAIN queue' = Nodes /\ queue' = [m \in Nodes |-> queue'[m]]
    BY <1>1 DEF HInv, StoresOK
  <2> QED BY <1>1, <1>3, <2>1, <2>2 DEF HInv, StoresOK, StoreOK
<1>5. JobsOK'
  <2> DEFINE j == [job[n] EXCEPT !.call = "begin", !.event = Head(queue[n])]
  <2>1. job' = [job EXCEPT ![n] = j] /\ stale' = [stale EXCEPT ![n] = stale[n]]
    BY <1>1 DEF HInv, JobsOK
  <2>2. job'[n] = j /\ stale'[n] = stale[n]
    BY <2>1 DEF HInv, JobsOK
  <2>3. JobOK(n)'
    BY <1>1, <1>3, <2>2 DEF HInv, JobsOK, JobOK, Calls, Phase
  <2> HIDE DEF j
  <2> QED BY <2>1, <2>3, OneJob DEF HInv
<1> QED BY <1>1, <1>4, <1>5 DEF HInv

LEMMA BeginKeeps == ASSUME HInv, NEW n \in Nodes, Begin(n) PROVE HInv'
<1>1. job[n].call = "begin" /\ UNCHANGED <<buckets, objects, queue, requests>>
  BY DEF Begin, stores
<1>2. job[n].event \in Events(n)
  BY <1>1 DEF HInv, JobsOK, JobOK
<1>3. JobsOK'
  <2>1. CASE job[n].event.kind = "put" /\ objects[n][Subject(n)] # ABSENT /\ stale' = stale
             /\ job' = [job EXCEPT ![n].call = "head", ![n].held = objects[n][Subject(n)]]
    <3> DEFINE o == Subject(n)
    <3> DEFINE j == [job[n] EXCEPT !.call = "head", !.held = objects[n][o]]
    <3>1. job' = [job EXCEPT ![n] = j] /\ stale' = [stale EXCEPT ![n] = stale[n]]
      BY <2>1 DEF HInv, JobsOK
    <3>2. job'[n] = j /\ stale'[n] = stale[n]
      BY <3>1 DEF HInv, JobsOK
    <3>3. o \in Objects(n) /\ o[1] = job[n].event.bucket
      BY <1>2, <2>1 DEF Events, Objects, Subject
    <3>4. objects[n][o] \in Stored /\ Comes(n, job[n].event.bucket, objects[n][o])
      BY <2>1, <3>3 DEF HInv, StoresOK, StoreOK
    <3> HIDE DEF o
    <3>5. JobOK(n)'
      BY <1>1, <1>2, <2>1, <3>2, <3>4 DEF HInv, JobsOK, JobOK, Calls, Phase
    <3> HIDE DEF j
    <3> QED BY <3>1, <3>5, OneJob DEF HInv
  <2>2. CASE Done(n)
    BY <1>1, <2>2, DoneKeeps DEF HInv
  <2>3. CASE job[n].event.kind = "create_bucket" /\ To(n, "head")
    BY <1>1, <2>3, ToKeeps DEF HInv, Calls, Phase
  <2>4. CASE job[n].event.kind \in {"delete", "delete_bucket"} /\ To(n, job[n].event.kind)
    BY <1>1, <2>4, ToKeeps DEF HInv, Calls, Phase
  <2> QED BY <2>1, <2>2, <2>3, <2>4 DEF Begin
<1> QED BY <1>1, <1>3 DEF HInv, StoresOK, StoreOK

-----------------------------------------------------------------------------
(* The calls to the node above.                                            *)

LEMMA CallsKeep ==
  ASSUME HInv, NEW n \in Replicating,
         \/ HeadBucket(n) \/ EnsureBucket(n) \/ PushObject(n) \/ PushDelete(n)
         \/ PushDeleteBucket(n)
  PROVE  HInv'
<1> DEFINE e == job[n].event
<1> DEFINE u == Up[n]
<1> DEFINE b == Remote(n, e.bucket)
<1>1. n \in Nodes /\ Up[n] # NONE
  BY DEF Replicating
<1>2. requests' = requests
  BY DEF HeadBucket, EnsureBucket, PushObject, PushDelete, PushDeleteBucket
<1>3. job[n].call # "recv" /\ e \in Events(n) /\ Phase(job[n].call, e.kind)
  BY <1>1 DEF HInv, JobsOK, JobOK, HeadBucket, EnsureBucket, PushObject, PushDelete,
     PushDeleteBucket
<1>4. u \in Nodes /\ e.bucket \in NamesAt[n] /\ b \in NamesAt[u]
  BY <1>1, <1>3, OneUp DEF Events
<1>5. UNCHANGED stores => StoresOK'
  BY DEF stores, HInv, StoresOK, StoreOK
<1>6. CASE HeadBucket(n)
  <2>1. job[n].call = "head" /\ UNCHANGED stores
    BY <1>6 DEF HeadBucket
  <2>2. \/ (\E ok \in BOOLEAN : Settle(n, ok)) \/ To(n, "create_bucket") \/ Retry(n)
    BY <1>6 DEF HeadBucket
  <2>3. Phase("create_bucket", e.kind) /\ "create_bucket" \in Calls \ {"recv"}
    BY <1>3, <2>1 DEF Phase, Calls
  <2>4. JobsOK'
    BY <1>1, <1>3, <2>2, <2>3, SettleKeeps, ToKeeps, RetryKeeps DEF HInv
  <2> QED BY <1>2, <1>5, <2>1, <2>4 DEF HInv
<1>7. CASE EnsureBucket(n)
  <2>1. \E ok \in BOOLEAN : Settle(n, ok)
    BY <1>7 DEF EnsureBucket, Heard
  <2>2. CreateBucket(u, b) \/ UNCHANGED stores
    BY <1>7 DEF EnsureBucket
  <2>3. JobsOK'
    BY <1>1, <1>3, <2>1, SettleKeeps DEF HInv
  <2>4. StoresOK'
    BY <1>4, <1>5, <2>2, BucketKeeps DEF HInv
  <2> QED BY <1>2, <2>3, <2>4 DEF HInv
<1>8. CASE PushObject(n)
  <2> DEFINE q == SyncRequest(e.key)
  <2>1. \E ok \in BOOLEAN : Finish(n, ok)
    BY <1>8 DEF PushObject, Heard
  <2>2. PutObject(u, b, StoredAs(q), job[n].held) \/ UNCHANGED stores
    BY <1>8 DEF PushObject
  <2>3. e.kind = "put"
    BY <1>3, <1>8 DEF PushObject, Phase
  <2>4. StoredAs(q) \in Keys
    BY <1>3, <2>3, KeysAreKeys DEF Events
  <2>5. job[n].held \in Stored /\ (job[n].held # ABSENT => Comes(u, b, job[n].held))
    BY <1>1, OneUp DEF HInv, JobsOK, JobOK
  <2>6. JobsOK'
    BY <1>1, <1>3, <2>1, FinishKeeps DEF HInv
  <2> HIDE DEF q
  <2>7. StoresOK'
    BY <1>4, <1>5, <2>2, <2>4, <2>5, PutKeeps DEF HInv
  <2> QED BY <1>2, <2>6, <2>7 DEF HInv
<1>9. CASE PushDelete(n)
  <2> DEFINE q == SyncRequest(e.key)
  <2>1. \E ok \in BOOLEAN : Finish(n, ok)
    BY <1>9 DEF PushDelete, Heard
  <2>2. DeleteObject(u, b, StoredAs(q)) \/ UNCHANGED stores
    BY <1>9 DEF PushDelete
  <2>3. e.kind = "delete"
    BY <1>3, <1>9 DEF PushDelete, Phase
  <2>4. StoredAs(q) \in Keys
    BY <1>3, <2>3, KeysAreKeys DEF Events
  <2>5. JobsOK'
    BY <1>1, <1>3, <2>1, FinishKeeps DEF HInv
  <2> HIDE DEF q
  <2>6. StoresOK'
    BY <1>4, <1>5, <2>2, <2>4, DeleteKeeps DEF HInv
  <2> QED BY <1>2, <2>5, <2>6 DEF HInv
<1>10. CASE PushDeleteBucket(n)
  <2>1. \E ok \in BOOLEAN : Finish(n, ok)
    BY <1>10 DEF PushDeleteBucket, Heard
  <2>2. DeleteBucket(u, b) \/ UNCHANGED stores
    BY <1>10 DEF PushDeleteBucket
  <2>3. JobsOK'
    BY <1>1, <1>3, <2>1, FinishKeeps DEF HInv
  <2>4. StoresOK'
    BY <1>4, <1>5, <2>2, BucketKeeps DEF HInv
  <2> QED BY <1>2, <2>3, <2>4 DEF HInv
<1> QED BY <1>6, <1>7, <1>8, <1>9, <1>10

LEMMA StepKeeps == HInv /\ [Next]_vars => HInv'
<1> SUFFICES ASSUME HInv, [Next]_vars PROVE HInv'
  OBVIOUS
<1>1. CASE UNCHANGED vars
  BY <1>1 DEF vars, stores, HInv, StoresOK, StoreOK, JobsOK, JobOK
<1>2. CASE \E n \in Fronts : Client(n)
  BY <1>2, ClientKeeps
<1>3. CASE \E n \in Replicating : Manager(n)
  <2> PICK n \in Replicating : Manager(n)
    BY <1>3
  <2>1. n \in Nodes
    BY DEF Replicating
  <2> QED BY <2>1, RecvKeeps, BeginKeeps, CallsKeep DEF Manager
<1> QED BY <1>1, <1>2, <1>3 DEF Next

LEMMA HierarchyInvariant == Spec => []HInv
<1> QED BY InitKeeps, StepKeeps, PTL DEF Spec

(* Every node of the tree, its channel and its manager keep their types:   *)
(* no event names a bucket or a key that the node cannot have.             *)
THEOREM HierarchyTypeCorrect == Spec => []HierarchyTypeOK
<1>1. HInv => HierarchyTypeOK
  BY DEF HInv, StoresOK, StoreOK, JobsOK, JobOK, HierarchyTypeOK, Stored
<1> QED BY <1>1, HierarchyInvariant, PTL

(* README.md: the prefix "prevents name collisions across instances".  If  *)
(* the names are kept apart, so are the bytes: whatever is retried, lost   *)
(* or given up, under any key, no bucket of one instance receives an       *)
(* object of another one (sync/mod.rs, remote_bucket and process_event).   *)
THEOREM IsolationCorrect ==
  ASSUME Separate
  PROVE  Spec => []Isolated
<1>1. HInv => Isolated
  <2> SUFFICES ASSUME HInv, NEW n \in Fronts, NEW b \in Local[n], NEW k \in Keys,
                      NEW i \in DOMAIN Route[n],
                      objects[Route[n][i]][<<NameAt[<<n, b>>][i], k>>] # ABSENT
               PROVE  LET w == objects[Route[n][i]][<<NameAt[<<n, b>>][i], k>>]
                      IN w[1] = n /\ w[2] = b
    BY DEF Isolated
  <2> DEFINE u == Route[n][i]
  <2> DEFINE x == NameAt[<<n, b>>][i]
  <2> DEFINE w == objects[u][<<x, k>>]
  <2>1. <<n, b>> \in Clients
    BY DEF Clients
  <2>2. u \in Nodes
    BY TreeOfNodes
  <2>3. x \in NamesAt[u]
    BY <2>1, NamesOnTheWay
  <2>4. Comes(u, x, w)
    BY <2>2, <2>3 DEF HInv, StoresOK, StoreOK, Objects
  <2>5. PICK m \in Clients : Replica(u, x, m) /\ w[1] = m[1] /\ w[2] = m[2]
    BY <2>4 DEF Comes
  <2>6. m = <<n, b>>
    BY <2>1, <2>5 DEF Separate, Replica
  <2> QED BY <2>5, <2>6
<1> QED BY <1>1, HierarchyInvariant, PTL

-----------------------------------------------------------------------------
(* Routes.                                                                 *)

Less == {p \in Nat \X Nat : p[1] < p[2]}

LEMMA LeastOf ==
  ASSUME NEW T, T \subseteq Nat, T # {}
  PROVE  \E x \in T : \A y \in T : x <= y
<1>1. IsWellFoundedOn(Less, Nat)
  BY NatLessThanWellFounded, Zenon DEF OpToRel, Less
<1>2. \E x \in T : \A y \in T : ~(<<y, x>> \in Less)
  BY <1>1, WFMin, Zenon
<1>3. PICK x \in T : \A y \in T : ~(<<y, x>> \in Less)
  BY <1>2
<1>4. \A y \in T : ~(y < x)
  BY <1>3 DEF Less
<1> QED BY <1>4

(* No node is passed twice: from there on the route would repeat itself,   *)
(* and never end.                                                          *)
LEMMA PassedOnce ==
  ASSUME NEW n \in Fronts, NEW i \in DOMAIN Route[n], NEW j \in DOMAIN Route[n],
         Route[n][i] = Route[n][j]
  PROVE  i = j
<1> DEFINE r == Route[n]
<1>1. r \in Seq(Nodes) /\ DOMAIN r = 1..Len(r) /\ Len(r) \in Nat
  BY TreeOfNodes
<1>2. \A p \in 1..Len(r) :
        IF Up[r[p]] = NONE THEN p = Len(r) ELSE p + 1 \in 1..Len(r) /\ r[p + 1] = Up[r[p]]
  BY <1>1, TreeOfNodes
<1> HIDE DEF r
<1>3. ASSUME NEW p \in 1..Len(r), NEW q \in 1..Len(r), r[p] = r[q], p < q PROVE FALSE
  <2> DEFINE T == {t \in Nat : q + t \in 1..Len(r) /\ r[p + t] = r[q + t] }
  <2> DEFINE F == {t \in Nat : q + t \in 1..Len(r) /\ t \notin T}
  <2>1. p \in Nat /\ q \in Nat /\ Len(r) \in Nat
    BY <1>1
  <2>2. F = {}
    <3> SUFFICES ASSUME F # {} PROVE FALSE
      OBVIOUS
    <3>1. PICK t \in F : \A s \in F : t <= s
      BY LeastOf
    <3>2. t # 0 /\ t \in Nat /\ q + t \in 1..Len(r)
      <4>1. p + 0 = p /\ q + 0 = q /\ 0 \in Nat
        BY <2>1
      <4>2. 0 \notin F
        BY <1>3, <4>1
      <4> QED BY <3>1, <4>2
    <3>3. t - 1 \in Nat /\ t - 1 \notin F /\ q + (t - 1) \in 1..Len(r)
      <4>1. t - 1 \in Nat /\ ~(t <= t - 1) /\ q + (t - 1) \in 1..Len(r)
        BY <1>3, <2>1, <3>2
      <4> HIDE DEF F
      <4> QED BY <3>1, <4>1
    <3>4. r[p + (t - 1)] = r[q + (t - 1)]
      BY <3>3
    <3>5. p + (t - 1) \in 1..Len(r) /\ p + (t - 1) # Len(r) /\ q + (t - 1) # Len(r)
      BY <1>3, <2>1, <3>2
    <3>6. (p + (t - 1)) + 1 = p + t /\ (q + (t - 1)) + 1 = q + t
      BY <2>1, <3>2
    <3>7. r[p + t] = Up[r[p + (t - 1)]] /\ r[q + t] = Up[r[q + (t - 1)]]
      BY <1>2, <3>3, <3>5, <3>6
    <3> QED BY <3>1, <3>2, <3>4, <3>7
  <2>3. Len(r) - q \in Nat /\ q + (Len(r) - q) = Len(r) /\ Len(r) \in 1..Len(r)
    BY <1>3, <2>1
  <2>4. r[p + (Len(r) - q)] = r[Len(r)]
    BY <2>2, <2>3
  <2>5. Up[r[Len(r)]] = NONE
    <3>1. Len(r) + 1 \notin 1..Len(r)
      BY <2>1
    <3> QED BY <1>2, <2>3, <3>1
  <2>6. p + (Len(r) - q) \in 1..Len(r) /\ p + (Len(r) - q) # Len(r)
    BY <1>3, <2>1
  <2> QED BY <1>2, <2>4, <2>5, <2>6
<1>4. i \in 1..Len(r) /\ j \in 1..Len(r) /\ r[i] = r[j]
  BY <1>1 DEF r
<1> QED BY <1>1, <1>3, <1>4


(* The buckets that clients can make appear at a node.                     *)
Known(n, x) == \E m \in Clients : Replica(n, x, m)

LEMMA KnownUp ==
  ASSUME NEW n \in Replicating, NEW x, Known(n, x)
  PROVE  Known(Up[n], Remote(n, x))
<1> PICK m \in Clients : Replica(n, x, m)
  BY DEF Known
<1> PICK i \in DOMAIN Route[m[1]] : Route[m[1]][i] = n /\ NameAt[m][i] = x
  BY DEF Replica
<1>1. i + 1 \in DOMAIN Route[m[1]] /\ Route[m[1]][i + 1] = Up[n] /\ NameAt[m][i + 1] = Remote(n, x)
  BY NextOnRoute DEF Replicating
<1> QED BY <1>1 DEF Known, Replica

(* Under the name that a bucket has one node up, only its own replica is   *)
(* found there.                                                            *)
LEMMA OwnReplica ==
  ASSUME Separate, NEW n \in Replicating, NEW x, Known(n, x)
  PROVE  \A m \in Clients : Replica(Up[n], Remote(n, x), m) <=> Replica(n, x, m)
<1> PICK m0 \in Clients : Replica(n, x, m0)
  BY DEF Known
<1>1. ASSUME NEW m \in Clients, Replica(n, x, m) PROVE Replica(Up[n], Remote(n, x), m)
  <2> PICK i \in DOMAIN Route[m[1]] : Route[m[1]][i] = n /\ NameAt[m][i] = x
    BY <1>1 DEF Replica
  <2> QED BY NextOnRoute DEF Replica, Replicating
<1>2. ASSUME NEW m \in Clients, Replica(Up[n], Remote(n, x), m) PROVE Replica(n, x, m)
  <2>1. Replica(Up[n], Remote(n, x), m0)
    BY <1>1
  <2>2. m = m0
    BY <1>2, <2>1 DEF Replica, Separate
  <2> QED BY <2>2
<1> QED BY <1>1, <1>2

LEMMA NamesAreOwn ==
  ASSUME Separate, NEW n \in Replicating, NEW x, Known(n, x)
  PROVE  /\ Up[n] # n
         /\ \A b : <<Up[n], b>> \in Clients => b # Remote(n, x)
         /\ \A p \in Replicating : \A y :
              Known(p, y) /\ Up[p] = Up[n] /\ Remote(p, y) = Remote(n, x) => p = n /\ y = x
<1>1. ASSUME NEW m \in Clients, Replica(n, x, m)
      PROVE  \E i \in Nat \ {0} :
               /\ {i, i + 1} \subseteq DOMAIN Route[m[1]] /\ m[1] \in Fronts
               /\ Route[m[1]][i] = n /\ NameAt[m][i] = x /\ Route[m[1]][i + 1] = Up[n]
  <2> PICK i \in DOMAIN Route[m[1]] : Route[m[1]][i] = n /\ NameAt[m][i] = x
    BY <1>1 DEF Replica
  <2> QED BY NextOnRoute DEF Replicating
<1>2. PICK m0 \in Clients : Replica(n, x, m0)
  BY DEF Known
<1>3. Up[n] # n
  <2>1. PICK i \in Nat \ {0} :
          /\ {i, i + 1} \subseteq DOMAIN Route[m0[1]] /\ m0[1] \in Fronts
          /\ Route[m0[1]][i] = n /\ Route[m0[1]][i + 1] = Up[n]
    BY <1>1, <1>2
  <2>2. i # i + 1
    BY <2>1
  <2> QED BY <2>1, <2>2, PassedOnce
<1>4. ASSUME NEW b, <<Up[n], b>> \in Clients, b = Remote(n, x) PROVE FALSE
  <2> DEFINE m == <<Up[n], b>>
  <2>1. m[1] = Up[n] /\ m[2] = b /\ m[1] \in Fronts
    BY <1>4 DEF Clients
  <2>2. 1 \in DOMAIN Route[m[1]] /\ Route[m[1]][1] = Up[n]
    BY <2>1, TreeOfNodes
  <2>3. NameAt[m][1] = b
    BY <1>4, <2>1, <2>2, NamesOnTheWay
  <2>4. Replica(Up[n], Remote(n, x), m)
    BY <1>4, <2>2, <2>3 DEF Replica
  <2>5. Replica(n, x, m)
    BY <1>4, <2>4, OwnReplica
  <2>6. PICK i \in Nat \ {0} : i + 1 \in DOMAIN Route[m[1]] /\ Route[m[1]][i + 1] = Up[n]
    BY <1>1, <1>4, <2>5
  <2>7. i + 1 = 1
    BY <2>1, <2>2, <2>6, PassedOnce
  <2> QED BY <2>6, <2>7
<1>5. ASSUME NEW p \in Replicating, NEW y, Known(p, y), Up[p] = Up[n],
             Remote(p, y) = Remote(n, x)
      PROVE  p = n /\ y = x
  <2>1. PICK m \in Clients : Replica(p, y, m)
    BY <1>5 DEF Known
  <2>2. PICK j \in DOMAIN Route[m[1]] : Route[m[1]][j] = p /\ NameAt[m][j] = y
    BY <2>1 DEF Replica
  <2>3. /\ j \in Nat \ {0} /\ j + 1 \in DOMAIN Route[m[1]] /\ Route[m[1]][j + 1] = Up[n]
        /\ NameAt[m][j + 1] = Remote(n, x)
    BY <1>5, <2>2, NextOnRoute DEF Replicating
  <2>4. Replica(n, x, m)
    BY <2>3, OwnReplica DEF Replica
  <2>5. PICK i \in Nat \ {0} :
          /\ {i, i + 1} \subseteq DOMAIN Route[m[1]] /\ m[1] \in Fronts
          /\ Route[m[1]][i] = n /\ NameAt[m][i] = x /\ Route[m[1]][i + 1] = Up[n]
    BY <1>1, <2>4
  <2>6. i + 1 = j + 1
    BY <2>3, <2>5, PassedOnce
  <2>7. i = j
    BY <2>3, <2>5, <2>6
  <2> QED BY <2>2, <2>5, <2>7
<1> QED BY <1>3, <1>4, <1>5

-----------------------------------------------------------------------------
(* A node and the one above, about one object.                             *)

IsAbout(e, o) == e.bucket = o[1] /\ e.key = o[2]
About(q, o) == {i \in 1..Len(q) : IsAbout(q[i], o)}
At(j, o) == j.call # "recv" /\ IsAbout(j.event, o)
Carrying == {"head", "create_bucket", "put"}

(* The last event about an object says whether there is one; a put in the  *)
(* manager's hands, if no event is behind it, carries the bytes there are; *)
(* and with neither, the replica is the same, or was given up.             *)
HopOf(q, j, s, here, there, o) ==
  /\ \A i \in About(q, o) :
       (\A l \in About(q, o) : l <= i) => (q[i].kind = "put" <=> here # ABSENT)
  /\ About(q, o) = {} /\ At(j, o) =>
       /\ j.event.kind = "put" <=> here # ABSENT
       /\ j.call \in Carrying => j.held = here
  /\ About(q, o) # {} \/ At(j, o) \/ o \in s \/ there = here

LEMMA HopTold ==
  ASSUME NEW S, NEW q \in Seq(S), NEW e \in S, NEW j, NEW s, NEW here, NEW there, NEW o,
         IsAbout(e, o), e.kind = "put" <=> here # ABSENT
  PROVE  HopOf(Append(q, e), j, s, here, there, o)
<1> DEFINE q2 == Append(q, e)
<1>1. /\ Len(q) \in Nat /\ Len(q2) = Len(q) + 1 /\ q2[Len(q) + 1] = e
  OBVIOUS
<1> HIDE DEF q2
<1>2. Len(q) + 1 \in About(q2, o)
  BY <1>1 DEF About
<1>3. ASSUME NEW i \in About(q2, o), \A l \in About(q2, o) : l <= i PROVE i = Len(q) + 1
  BY <1>1, <1>2, <1>3 DEF About
<1>4. HopOf(q2, j, s, here, there, o)
  BY <1>1, <1>2, <1>3 DEF HopOf
<1> QED BY <1>4 DEF q2

LEMMA HopPassed ==
  ASSUME NEW S, NEW q \in Seq(S), NEW e \in S, NEW j, NEW s, NEW here, NEW there, NEW o,
         ~IsAbout(e, o), HopOf(q, j, s, here, there, o)
  PROVE  HopOf(Append(q, e), j, s, here, there, o)
<1> DEFINE q2 == Append(q, e)
<1>1. /\ Len(q) \in Nat /\ Len(q2) = Len(q) + 1 /\ q2[Len(q) + 1] = e
      /\ \A i \in 1..Len(q) : q2[i] = q[i]
  OBVIOUS
<1> HIDE DEF q2
<1>2. About(q2, o) = About(q, o)
  BY <1>1 DEF About
<1>3. \A i \in About(q, o) : q2[i] = q[i]
  BY <1>1 DEF About
<1>4. HopOf(q2, j, s, here, there, o)
  BY <1>2, <1>3 DEF HopOf
<1> QED BY <1>4 DEF q2

LEMMA HopTaken ==
  ASSUME NEW S, NEW q \in Seq(S), q # <<>>, NEW j, NEW j2, NEW s, NEW here, NEW there, NEW o,
         j.call = "recv", j2.call = "begin", j2.event = Head(q),
         HopOf(q, j, s, here, there, o)
  PROVE  HopOf(Tail(q), j2, s, here, there, o)
<1> DEFINE q2 == Tail(q)
<1>1. /\ Len(q) \in Nat \ {0} /\ Len(q2) = Len(q) - 1 /\ j2.event = q[1]
      /\ \A i \in 1..Len(q2) : q2[i] = q[i + 1]
  BY HeadTailProperties
<1> HIDE DEF q2
<1>2. \A i \in 1..Len(q2) : i \in About(q2, o) <=> i + 1 \in About(q, o)
  BY <1>1 DEF About
<1>3. \A i \in About(q, o) : i = 1 \/ i - 1 \in About(q2, o)
  <2> TAKE i \in About(q, o)
  <2>1. i \in 1..Len(q)
    BY DEF About
  <2>2. i # 1 => i - 1 \in 1..Len(q2) /\ (i - 1) + 1 = i
    BY <1>1, <2>1
  <2> QED BY <1>2, <2>2
<1>4. At(j2, o) <=> 1 \in About(q, o)
  BY <1>1 DEF At, About
<1>5. ASSUME NEW i \in About(q2, o), \A l \in About(q2, o) : l <= i
      PROVE  q2[i].kind = "put" <=> here # ABSENT
  <2>1. i \in 1..Len(q2) /\ i + 1 \in About(q, o)
    BY <1>2 DEF About
  <2>2. ASSUME NEW l \in About(q, o) PROVE l <= i + 1
    <3>1. l \in 1..Len(q)
      BY DEF About
    <3> QED BY <1>1, <1>3, <1>5, <2>1, <3>1
  <2> QED BY <1>1, <2>1, <2>2 DEF HopOf
<1>6. ASSUME About(q2, o) = {}, At(j2, o) PROVE j2.event.kind = "put" <=> here # ABSENT
  <2>1. 1 \in About(q, o) /\ \A l \in About(q, o) : l <= 1
    BY <1>3, <1>4, <1>6
  <2> QED BY <1>1, <2>1 DEF HopOf
<1>7. ASSUME About(q2, o) = {}, ~At(j2, o) PROVE o \in s \/ there = here
  <2>1. About(q, o) = {}
    BY <1>3, <1>4, <1>7
  <2> QED BY <2>1 DEF HopOf, At
<1>8. HopOf(q2, j2, s, here, there, o)
  BY <1>5, <1>6, <1>7 DEF HopOf, Carrying
<1> QED BY <1>8 DEF q2

(* The buckets and the events of a node are those of its clients and of    *)
(* the clients below; its objects are in its buckets.                      *)
Kept(n) ==
  /\ \A b \in buckets[n] : Known(n, b)
  /\ \A o \in Objects(n) : objects[n][o] # ABSENT => o[1] \in buckets[n]
  /\ \A i \in 1..Len(queue[n]) : Known(n, queue[n][i].bucket)
AtWork(n) ==
  /\ job[n].call # "recv" => Known(n, job[n].event.bucket)
  /\ job[n].call \in Carrying /\ job[n].event.kind = "put" => job[n].held # ABSENT

Here(n, o) == objects[n][o]
There(n, o) == objects[Up[n]][<<Remote(n, o[1]), o[2]>>]
Hop(n, o) == HopOf(queue[n], job[n], stale[n], Here(n, o), There(n, o), o)

(* The keys that EndToEnd is about.                                        *)
Unmistakable(k) == Travels(k) /\ \A j \in Keys \ {k} : StoredAs(SyncRequest(j)) # k
Travelling(n) == {o \in Objects(n) : Known(n, o[1]) /\ Unmistakable(o[2])}

HopInv ==
  /\ HInv
  /\ \A n \in Nodes : Kept(n) /\ AtWork(n)
  /\ \A n \in Replicating : \A o \in Travelling(n) : Hop(n, o)

(* What a handler of v does: at most one bucket changes, and the channel   *)
(* is told of the object that does.                                        *)
Touches(v, b) ==
  /\ \A n \in Nodes \ {v} : objects'[n] = objects[n] /\ queue'[n] = queue[n]
  /\ \A o \in Objects(v) : o[1] # b => objects'[v][o] = objects[v][o]
  /\ Up[v] = NONE => queue'[v] = queue[v]
  /\ Up[v] # NONE =>
       \E e \in Events(v) :
         /\ queue'[v] = Append(queue[v], e) /\ e.bucket = b
         /\ \A o \in Objects(v) :
              IF IsAbout(e, o) THEN e.kind = "put" <=> objects'[v][o] # ABSENT
              ELSE objects'[v][o] = objects[v][o]

LEMMA Emitting ==
  ASSUME StoresOK, NEW v \in Nodes, NEW e \in Events(v), queue' = Emitted(v, e),
         Known(v, e.bucket), \A n \in Nodes : Kept(n)
  PROVE  /\ \A n \in Nodes \ {v} : queue'[n] = queue[n]
         /\ queue'[v] = IF Up[v] = NONE THEN queue[v] ELSE Append(queue[v], e)
         /\ \A i \in 1..Len(queue'[v]) : Known(v, queue'[v][i].bucket)
<1>1. /\ \A n \in Nodes \ {v} : queue'[n] = queue[n]
      /\ queue'[v] = IF Up[v] = NONE THEN queue[v] ELSE Append(queue[v], e)
  BY DEF Emitted, StoresOK
<1>2. queue[v] \in Seq(Events(v))
  BY DEF StoresOK, StoreOK
<1>3. ASSUME NEW i \in 1..Len(queue'[v]) PROVE Known(v, queue'[v][i].bucket)
  <2>1. CASE i \in 1..Len(queue[v])
    <3>1. queue'[v][i] = queue[v][i]
      BY <1>1, <1>2, <2>1
    <3> QED BY <2>1, <3>1 DEF Kept
  <2>2. CASE i \notin 1..Len(queue[v])
    <3>1. queue'[v][i] = e
      BY <1>1, <1>2, <1>3, <2>2
    <3> QED BY <3>1
  <2> QED BY <2>1, <2>2
<1> QED BY <1>1, <1>3

LEMMA ObjectOperation ==
  ASSUME StoresOK, \A n \in Nodes : Kept(n), NEW v \in Nodes, NEW b \in NamesAt[v],
         NEW k \in Keys, (\E w \in AllWrites : PutObject(v, b, k, w)) \/ DeleteObject(v, b, k)
  PROVE  Touches(v, b) /\ \A n \in Nodes : Kept(n)'
<1>1. PICK kind \in {"put", "delete"}, c \in Stored :
        /\ objects' = [objects EXCEPT ![v][<<b, k>>] = c] /\ buckets' = buckets
        /\ queue' = Emitted(v, Event(kind, b, k)) /\ (kind = "put" <=> c # ABSENT)
  BY NotAWrite DEF PutObject, DeleteObject, Stored
<1>2. b \in buckets[v] /\ Known(v, b)
  BY DEF PutObject, DeleteObject, Kept
<1> DEFINE e == Event(kind, b, k)
<1>3. /\ e \in Events(v) /\ <<b, k>> \in Objects(v) /\ e.bucket = b /\ e.kind = kind
      /\ \A o \in Objects(v) : IsAbout(e, o) <=> o = <<b, k>>
  BY DEF Event, Events, Objects, IsAbout
<1>4. /\ \A n \in Nodes \ {v} : objects'[n] = objects[n]
      /\ \A o \in Objects(v) : objects'[v][o] = IF o = <<b, k>> THEN c ELSE objects[v][o]
  BY <1>1, <1>3 DEF StoresOK, StoreOK
<1> HIDE DEF e
<1>5. /\ \A n \in Nodes \ {v} : queue'[n] = queue[n]
      /\ queue'[v] = IF Up[v] = NONE THEN queue[v] ELSE Append(queue[v], e)
      /\ \A i \in 1..Len(queue'[v]) : Known(v, queue'[v][i].bucket)
  BY <1>1, <1>2, <1>3, Emitting DEF e
<1>6. Touches(v, b)
  BY <1>1, <1>3, <1>4, <1>5 DEF Touches
<1>7. \A n \in Nodes : Kept(n)'
  <2>1. \A o \in Objects(v) : objects'[v][o] # ABSENT => o[1] \in buckets'[v]
    BY <1>1, <1>2, <1>4 DEF Kept
  <2>2. Kept(v)'
    BY <1>1, <1>5, <2>1 DEF Kept
  <2>3. \A n \in Nodes \ {v} : Kept(n)'
    BY <1>1, <1>4, <1>5 DEF Kept
  <2> QED BY <2>2, <2>3
<1> QED BY <1>6, <1>7

LEMMA BucketOperation ==
  ASSUME StoresOK, \A n \in Nodes : Kept(n), NEW v \in Nodes, NEW b \in NamesAt[v],
         Known(v, b), CreateBucket(v, b) \/ DeleteBucket(v, b)
  PROVE  Touches(v, b) /\ \A n \in Nodes : Kept(n)'
<1>1. PICK e \in Events(v) :
        /\ objects' = objects /\ queue' = Emitted(v, e) /\ e.bucket = b /\ e.key = NONE
  BY DEF CreateBucket, DeleteBucket, Event, Events
<1>2. \A o \in Objects(v) : ~IsAbout(e, o)
  BY <1>1, KeysAreKeys DEF Objects, IsAbout
<1>3. /\ \A n \in Nodes \ {v} : buckets'[n] = buckets[n]
      /\ \A x \in buckets'[v] : x \in buckets[v] \/ x = b
      /\ \A o \in Objects(v) : objects[v][o] # ABSENT => o[1] \in buckets'[v]
  <2>1. CASE CreateBucket(v, b)
    BY <2>1 DEF CreateBucket, StoresOK, Kept
  <2>2. CASE DeleteBucket(v, b)
    <3>1. buckets' = [buckets EXCEPT ![v] = @ \ {b}] /\ \A k \in Keys : objects[v][<<b, k>>] = ABSENT
      BY <2>2 DEF DeleteBucket, Empty
    <3>2. \A o \in Objects(v) : o[1] = b => objects[v][o] = ABSENT
      BY <3>1 DEF Objects
    <3> QED BY <3>1, <3>2 DEF StoresOK, Kept
  <2> QED BY <2>1, <2>2
<1>4. /\ \A n \in Nodes \ {v} : queue'[n] = queue[n]
      /\ queue'[v] = IF Up[v] = NONE THEN queue[v] ELSE Append(queue[v], e)
      /\ \A i \in 1..Len(queue'[v]) : Known(v, queue'[v][i].bucket)
  BY <1>1, Emitting
<1>5. Touches(v, b)
  BY <1>1, <1>2, <1>4 DEF Touches
<1>6. \A n \in Nodes : Kept(n)'
  BY <1>1, <1>3, <1>4 DEF Kept
<1> QED BY <1>5, <1>6

(* The hops that such a change leaves as they were: its own bucket's event *)
(* is in the channel, and nobody else's replica is touched.                *)
LEMMA HopAround ==
  ASSUME Separate, HInv, NEW v \in Nodes, NEW b, Touches(v, b),
         NEW n \in Replicating, NEW o \in Travelling(n), Hop(n, o),
         job'[n] = job[n], stale'[n] = stale[n], Up[n] = v => b # Remote(n, o[1])
  PROVE  Hop(n, o)'
<1>1. n \in Nodes /\ Up[n] \in Nodes /\ Up[n] # NONE /\ Up[n] # n
  BY NamesAreOwn, OneUp DEF Travelling, Replicating
<1>2. o \in Objects(n) /\ o[1] \in NamesAt[n] /\ o[2] \in Keys
  BY DEF Travelling, Objects
<1>3. There(n, o)' = There(n, o)
  <2>1. <<Remote(n, o[1]), o[2]>> \in Objects(Up[n])
    BY <1>1, <1>2, OneUp DEF Objects
  <2> QED BY <1>1, <2>1 DEF Touches, There
<1>4. CASE n # v
  BY <1>1, <1>3, <1>4 DEF Touches, Hop, Here
<1>5. CASE n = v
  <2>1. PICK e \in Events(n) :
          /\ queue'[n] = Append(queue[n], e)
          /\ IF IsAbout(e, o) THEN e.kind = "put" <=> objects'[n][o] # ABSENT
             ELSE objects'[n][o] = objects[n][o]
    BY <1>1, <1>2, <1>5 DEF Touches
  <2>2. queue[n] \in Seq(Events(n))
    BY <1>1 DEF HInv, StoresOK, StoreOK
  <2>3. CASE IsAbout(e, o)
    BY <1>3, <2>1, <2>2, <2>3, HopTold DEF Hop, Here
  <2>4. CASE ~IsAbout(e, o)
    BY <1>3, <2>1, <2>2, <2>4, HopPassed DEF Hop, Here
  <2> QED BY <2>3, <2>4
<1> QED BY <1>4, <1>5

-----------------------------------------------------------------------------
(* A manager that answers for an object, while nothing is written at its   *)
(* own node.                                                               *)

Still(n, o) ==
  /\ queue'[n] = queue[n] /\ Here(n, o)' = Here(n, o)
  /\ ~IsAbout(job[n].event, o) => There(n, o)' = There(n, o)

LEMMA HopTo ==
  ASSUME HInv, NEW n \in Nodes, NEW o \in Objects(n), Hop(n, o), Still(n, o),
         job[n].call # "recv", NEW c \in Calls \ {"recv"}, To(n, c),
         IsAbout(job[n].event, o) /\ c \in Carrying => job[n].call \in Carrying
  PROVE  Hop(n, o)'
<1>1. /\ job'[n] = [job[n] EXCEPT !.call = c] /\ stale'[n] = stale[n]
      /\ DOMAIN job[n] = {"call", "event", "attempt", "held"}
  BY DEF To, HInv, JobsOK, JobOK
<1>2. job'[n].call = c /\ job'[n].event = job[n].event /\ job'[n].held = job[n].held
  BY <1>1
<1> QED BY <1>1, <1>2 DEF Hop, HopOf, At, Still

LEMMA HopDone ==
  ASSUME HInv, NEW n \in Nodes, NEW o \in Objects(n), Hop(n, o), Still(n, o),
         job[n].call # "recv", Done(n),
         IsAbout(job[n].event, o) /\ About(queue[n], o) = {} => There(n, o)' = Here(n, o)
  PROVE  Hop(n, o)'
<1>1. job'[n].call = "recv" /\ stale'[n] = stale[n] \ {Subject(n)}
  BY DEF Done, Idle, HInv, JobsOK
<1>2. o = Subject(n) <=> IsAbout(job[n].event, o)
  BY DEF Subject, IsAbout, Objects
<1> QED BY <1>1, <1>2 DEF Hop, HopOf, At, Still

LEMMA HopRetry ==
  ASSUME HInv, NEW n \in Nodes, NEW o \in Objects(n), Hop(n, o), Still(n, o),
         job[n].call # "recv", Retry(n)
  PROVE  Hop(n, o)'
<1>1. CASE /\ job' = [job EXCEPT ![n].call = "begin", ![n].attempt = @ + 1]
           /\ UNCHANGED stale
  <2>1. job'[n].call = "begin" /\ job'[n].event = job[n].event /\ stale'[n] = stale[n]
    BY <1>1 DEF HInv, JobsOK, JobOK
  <2> QED BY <2>1 DEF Hop, HopOf, At, Still, Carrying
<1>2. CASE /\ job' = [job EXCEPT ![n] = Idle]
           /\ stale' = [stale EXCEPT ![n] = @ \cup {Subject(n)}]
  <2>1. job'[n].call = "recv" /\ stale'[n] = stale[n] \cup {Subject(n)}
    BY <1>2 DEF Idle, HInv, JobsOK
  <2>2. o = Subject(n) <=> IsAbout(job[n].event, o)
    BY DEF Subject, IsAbout, Objects
  <2> QED BY <2>1, <2>2 DEF Hop, HopOf, At, Still
<1> QED BY <1>1, <1>2 DEF Retry

LEMMA HopFinish ==
  ASSUME HInv, NEW n \in Nodes, NEW o \in Objects(n), Hop(n, o), Still(n, o),
         job[n].call # "recv", NEW ok \in BOOLEAN, Finish(n, ok),
         ok /\ IsAbout(job[n].event, o) /\ About(queue[n], o) = {}
           => There(n, o)' = Here(n, o)
  PROVE  Hop(n, o)'
BY HopDone, HopRetry DEF Finish

LEMMA HopSettle ==
  ASSUME HInv, NEW n \in Nodes, NEW o \in Objects(n), Hop(n, o), Still(n, o),
         job[n].call \in {"head", "create_bucket"}, NEW ok \in BOOLEAN, Settle(n, ok)
  PROVE  Hop(n, o)'
<1>1. job[n].call # "recv" /\ job[n].call \in Carrying /\ "put" \in Calls \ {"recv"}
  BY DEF Carrying, Calls
<1>2. job[n].event.kind # "put" => ~IsAbout(job[n].event, o)
  <2>1. job[n].event \in Events(n) /\ Phase(job[n].call, job[n].event.kind)
    BY DEF HInv, JobsOK, JobOK
  <2> QED BY <2>1, KeysAreKeys DEF Phase, Events, IsAbout, Objects
<1> QED BY <1>1, <1>2, HopTo, HopDone, HopRetry DEF Settle

(* A manager that only looks at the stores.                                *)
LEMMA StillThere ==
  ASSUME NEW n \in Nodes, NEW o \in Objects(n), UNCHANGED <<objects, queue>>
  PROVE  Still(n, o)
BY DEF Still, Here, There

-----------------------------------------------------------------------------
(* The steps.                                                              *)

(* The managers of the other nodes.                                        *)
LEMMA OthersAtWork ==
  ASSUME NEW n \in Nodes, \A p \in Nodes : AtWork(p), AtWork(n)',
         \A p \in Nodes \ {n} : job'[p] = job[p]
  PROVE  \A p \in Nodes : AtWork(p)'
BY DEF AtWork

LEMMA HopClient ==
  ASSUME Separate, HopInv, NEW n \in Fronts, Client(n)
  PROVE  HopInv'
<1>1. HInv /\ HInv' /\ UNCHANGED <<job, stale>> /\ requests' \in 0..Writes
  <2>1. HInv' /\ UNCHANGED <<job, stale>>
    BY ClientKeeps DEF HopInv, Client
  <2> QED BY <2>1 DEF HopInv, HInv
<1>2. PICK b \in Local[n], k \in Keys :
        LET w == Write(<<n, b>>, requests') IN
          \/ SdkPut(n, b, k, w) \/ ConsolePut(n, b, k, w) \/ DeleteObject(n, b, k)
          \/ CreateBucket(n, b) \/ DeleteBucket(n, b)
  BY DEF Client
<1> DEFINE w == Write(<<n, b>>, requests')
<1>3. n \in Nodes /\ b \in NamesAt[n] /\ <<n, b>> \in Clients /\ w \in AllWrites
  BY <1>1, AtHome
<1>4. Known(n, b)
  <2>1. Comes(n, b, w)
    BY <1>1, AtHome
  <2> QED BY <2>1 DEF Comes, Known
<1>5. StoredAs(SdkRequest(k)) \in Keys
  BY KeysAreKeys
<1> HIDE DEF w
<1>6. Touches(n, b) /\ \A p \in Nodes : Kept(p)'
  <2>1. \/ PutObject(n, b, StoredAs(SdkRequest(k)), w) \/ PutObject(n, b, k, w)
        \/ DeleteObject(n, b, k) \/ CreateBucket(n, b) \/ DeleteBucket(n, b)
    BY <1>2 DEF SdkPut, ConsolePut, w
  <2> QED BY <1>1, <1>3, <1>4, <1>5, <2>1, ObjectOperation, BucketOperation DEF HopInv, HInv
<1>7. ASSUME NEW p \in Replicating, NEW o \in Travelling(p) PROVE Hop(p, o)'
  <2>1. Up[p] = n => b # Remote(p, o[1])
    BY <1>3, NamesAreOwn DEF Travelling
  <2> QED BY <1>1, <1>3, <1>6, <2>1, HopAround DEF HopInv
<1> QED BY <1>1, <1>6, <1>7 DEF HopInv, AtWork, Travelling

LEMMA HopRecv ==
  ASSUME HopInv, NEW n \in Replicating, Recv(n)
  PROVE  HopInv'
<1>1. n \in Nodes /\ HInv /\ HInv'
  BY RecvKeeps DEF HopInv, Replicating
<1>2. /\ job[n].call = "recv" /\ queue[n] # <<>> /\ UNCHANGED <<buckets, objects, stale>>
      /\ job'[n].call = "begin" /\ job'[n].event = Head(queue[n]) /\ queue'[n] = Tail(queue[n])
      /\ \A p \in Nodes \ {n} : job'[p] = job[p] /\ queue'[p] = queue[p]
  <2>1. /\ job[n].call = "recv" /\ queue[n] # <<>> /\ UNCHANGED <<buckets, objects, stale>>
        /\ job' = [job EXCEPT ![n].call = "begin", ![n].event = Head(queue[n])]
        /\ queue' = [queue EXCEPT ![n] = Tail(@)]
    BY DEF Recv
  <2>2. DOMAIN job = Nodes /\ DOMAIN queue = Nodes
    BY <1>1 DEF HInv, StoresOK, JobsOK
  <2>3. DOMAIN job[n] = {"call", "event", "attempt", "held"}
    BY <1>1 DEF HInv, JobsOK, JobOK
  <2>4. job'[n] = [job[n] EXCEPT !.call = "begin", !.event = Head(queue[n])]
    BY <1>1, <2>1, <2>2
  <2>5. job'[n].call = "begin" /\ job'[n].event = Head(queue[n])
    BY <2>3, <2>4
  <2> QED BY <1>1, <2>1, <2>2, <2>5
<1>3. queue[n] \in Seq(Events(n))
  BY <1>1 DEF HInv, StoresOK, StoreOK
<1>4. /\ Len(queue[n]) \in Nat \ {0} /\ Len(queue'[n]) = Len(queue[n]) - 1
      /\ job'[n].event = queue[n][1]
      /\ \A i \in 1..Len(queue'[n]) : queue'[n][i] = queue[n][i + 1]
  BY <1>2, <1>3, HeadTailProperties
<1>5. \A p \in Nodes : Kept(p)'
  <2>1. \A i \in 1..Len(queue[n]) : Known(n, queue[n][i].bucket)
    BY <1>1 DEF HopInv, Kept
  <2>2. \A i \in 1..Len(queue'[n]) : i + 1 \in 1..Len(queue[n])
    BY <1>4
  <2>3. \A i \in 1..Len(queue'[n]) : Known(n, queue'[n][i].bucket)
    BY <1>4, <2>1, <2>2
  <2>4. Kept(n)'
    BY <1>1, <1>2, <2>3 DEF HopInv, Kept
  <2> QED BY <1>2, <2>4 DEF HopInv, Kept
<1>6. \A p \in Nodes : AtWork(p)'
  <2>1. Known(n, queue[n][1].bucket)
    BY <1>1, <1>4 DEF HopInv, Kept
  <2>2. AtWork(n)'
    BY <1>2, <1>4, <2>1 DEF AtWork, Carrying
  <2> QED BY <1>1, <1>2, <2>2, OthersAtWork DEF HopInv
<1>7. ASSUME NEW p \in Replicating, NEW o \in Travelling(p) PROVE Hop(p, o)'
  <2>1. Hop(p, o) /\ p \in Nodes
    BY DEF HopInv, Replicating
  <2>2. CASE p = n
    BY <1>2, <1>3, <2>1, <2>2, HopTaken DEF Hop, Here, There
  <2>3. CASE p # n
    BY <1>2, <2>1, <2>3 DEF Hop, Here, There
  <2> QED BY <2>2, <2>3
<1> QED BY <1>1, <1>5, <1>6, <1>7 DEF HopInv, Travelling

LEMMA Worked ==
  ASSUME HInv, NEW n \in Nodes, \A p \in Nodes : AtWork(p), job[n].call # "recv",
         \/ Done(n) \/ Retry(n)
         \/ \E c \in Calls \ {"recv"} :
              /\ To(n, c)
              /\ c \in Carrying /\ job[n].event.kind = "put" => job[n].call \in Carrying
  PROVE  /\ \A p \in Nodes \ {n} : job'[p] = job[p] /\ stale'[p] = stale[p]
         /\ \A p \in Nodes : AtWork(p)'
<1>0. /\ DOMAIN job = Nodes /\ DOMAIN stale = Nodes
      /\ DOMAIN job[n] = {"call", "event", "attempt", "held"}
  BY DEF HInv, JobsOK, JobOK
<1>1. \A p \in Nodes \ {n} : job'[p] = job[p] /\ stale'[p] = stale[p]
  BY <1>0 DEF Done, Retry, To
<1>2. CASE Done(n)
  <2>1. job'[n].call = "recv"
    BY <1>0, <1>2 DEF Done, Idle
  <2> QED BY <1>1, <2>1, OthersAtWork DEF AtWork, Carrying
<1>3. CASE Retry(n)
  <2>1. job'[n].call = "recv" \/ (job'[n].call = "begin" /\ job'[n].event = job[n].event)
    <3>1. \/ job' = [job EXCEPT ![n].call = "begin", ![n].attempt = @ + 1]
          \/ job' = [job EXCEPT ![n] = Idle]
      BY <1>3 DEF Retry
    <3>2. CASE job' = [job EXCEPT ![n].call = "begin", ![n].attempt = @ + 1]
      <4>1. job'[n].call = "begin" /\ job'[n].event = job[n].event
        BY <3>2 DEF HInv, JobsOK, JobOK
      <4> QED BY <4>1
    <3> QED BY <1>0, <3>1, <3>2 DEF Idle
  <2> QED BY <1>1, <2>1, OthersAtWork DEF AtWork, Carrying
<1>4. ASSUME NEW c \in Calls \ {"recv"}, To(n, c),
             c \in Carrying /\ job[n].event.kind = "put" => job[n].call \in Carrying
      PROVE  \A p \in Nodes : AtWork(p)'
  <2>1. job'[n].call = c /\ job'[n].event = job[n].event /\ job'[n].held = job[n].held
    BY <1>0, <1>4 DEF To
  <2> QED BY <1>1, <1>4, <2>1, OthersAtWork DEF AtWork
<1> QED BY <1>1, <1>2, <1>3, <1>4

LEMMA HopBegin ==
  ASSUME HopInv, NEW n \in Replicating, Begin(n)
  PROVE  HopInv'
<1>1. n \in Nodes /\ HInv /\ HInv' /\ job[n].call = "begin"
      /\ UNCHANGED <<buckets, objects, queue>>
  BY BeginKeeps DEF HopInv, Replicating, Begin, stores
<1>2. job[n].event \in Events(n) /\ "head" \in Calls \ {"recv"}
  BY <1>1 DEF HInv, JobsOK, JobOK, Calls
<1>3. \A p \in Nodes : Kept(p)'
  BY <1>1 DEF HopInv, Kept
<1>4. ASSUME \A p \in Nodes \ {n} : job'[p] = job[p] /\ stale'[p] = stale[p],
             \A o \in Travelling(n) : Hop(n, o)'
      PROVE  \A p \in Replicating : \A o \in Travelling(p) : Hop(p, o)'
  <2> TAKE p \in Replicating
  <2> TAKE o \in Travelling(p)
  <2>1. CASE p # n
    BY <1>1, <1>4, <2>1 DEF HopInv, Hop, Here, There, Replicating
  <2> QED BY <1>4, <2>1
<1>5. \A o \in Travelling(n) : Hop(n, o) /\ o \in Objects(n) /\ Still(n, o)
  BY <1>1, StillThere DEF HopInv, Travelling
<1>6. CASE job[n].event.kind = "put" /\ Done(n) /\ objects[n][Subject(n)] = ABSENT
  <2>1. ASSUME NEW o \in Travelling(n), IsAbout(job[n].event, o), About(queue[n], o) = {}
        PROVE  FALSE
    <3>1. Here(n, o) # ABSENT
      BY <1>1, <1>5, <1>6, <2>1 DEF Hop, HopOf, At
    <3>2. o = Subject(n)
      BY <1>5, <2>1 DEF Subject, IsAbout, Objects
    <3> QED BY <1>6, <3>1, <3>2 DEF Here
  <2>2. \A o \in Travelling(n) : Hop(n, o)'
    BY <1>1, <1>5, <1>6, <2>1, HopDone
  <2> QED BY <1>1, <1>3, <1>4, <1>6, <2>2, Worked DEF HopInv, Travelling
<1>7. CASE /\ job[n].event.kind = "put" /\ objects[n][Subject(n)] # ABSENT /\ UNCHANGED stale
           /\ job' = [job EXCEPT ![n].call = "head", ![n].held = objects[n][Subject(n)]]
  <2>1. DOMAIN job = Nodes /\ DOMAIN job[n] = {"call", "event", "attempt", "held"}
    BY <1>1 DEF HInv, JobsOK, JobOK
  <2>2. /\ job'[n] = [job[n] EXCEPT !.call = "head", !.held = objects[n][Subject(n)]]
        /\ \A p \in Nodes \ {n} : job'[p] = job[p]
    BY <1>1, <1>7, <2>1
  <2>3. /\ job'[n].call = "head" /\ job'[n].event = job[n].event
        /\ job'[n].held = objects[n][Subject(n)]
    BY <2>1, <2>2
  <2>4. AtWork(n)'
    BY <1>1, <1>7, <2>3 DEF HopInv, AtWork
  <2>5. ASSUME NEW o \in Travelling(n) PROVE Hop(n, o)'
    <3>1. IsAbout(job[n].event, o) => Subject(n) = o
      BY <1>5 DEF Subject, IsAbout, Objects
    <3> QED BY <1>1, <1>5, <1>7, <2>3, <3>1 DEF Hop, HopOf, At, Here, There
  <2> QED BY <1>1, <1>3, <1>4, <1>7, <2>2, <2>4, <2>5, OthersAtWork DEF HopInv, Travelling
<1>8. CASE job[n].event.kind = "create_bucket" /\ To(n, "head")
  <2>1. \A o \in Travelling(n) : ~IsAbout(job[n].event, o)
    BY <1>2, <1>5, <1>8, KeysAreKeys DEF Events, IsAbout, Objects
  <2>2. \A o \in Travelling(n) : Hop(n, o)'
    BY <1>1, <1>2, <1>5, <1>8, <2>1, HopTo
  <2> QED BY <1>1, <1>2, <1>3, <1>4, <1>8, <2>2, Worked DEF HopInv, Travelling
<1>9. CASE job[n].event.kind \in {"delete", "delete_bucket"} /\ To(n, job[n].event.kind)
  <2>1. job[n].event.kind \in Calls \ {"recv"} /\ job[n].event.kind \notin Carrying
    BY <1>9 DEF Calls, Carrying
  <2>2. \A o \in Travelling(n) : Hop(n, o)'
    BY <1>1, <1>5, <1>9, <2>1, HopTo
  <2> QED BY <1>1, <1>3, <1>4, <1>9, <2>1, <2>2, Worked DEF HopInv, Travelling
<1> QED BY <1>6, <1>7, <1>8, <1>9 DEF Begin

(* A call to the node above that changes something there under this name.  *)
LEMMA Untouched ==
  ASSUME Separate, NEW n \in Replicating, NEW b, Touches(Up[n], b), NEW o \in Travelling(n)
  PROVE  /\ queue'[n] = queue[n] /\ Here(n, o)' = Here(n, o)
         /\ b # Remote(n, o[1]) => There(n, o)' = There(n, o)
<1>1. n \in Nodes /\ Up[n] \in Nodes /\ Up[n] # n
  BY NamesAreOwn, OneUp DEF Travelling, Replicating
<1>2. <<Remote(n, o[1]), o[2]>> \in Objects(Up[n])
  BY OneUp DEF Travelling, Objects, Replicating
<1> QED BY <1>1, <1>2 DEF Touches, Here, There

LEMMA Pushed ==
  ASSUME Separate, HInv, NEW n \in Replicating, NEW c, Touches(Up[n], Remote(n, job[n].event.bucket)),
         Known(n, job[n].event.bucket), job[n].event.key \in Keys,
         objects' = [objects EXCEPT ![Up[n]][<<Remote(n, job[n].event.bucket),
                                        StoredAs(SyncRequest(job[n].event.key))>>] = c],
         NEW o \in Travelling(n)
  PROVE  Still(n, o) /\ (IsAbout(job[n].event, o) => There(n, o)' = c)
<1> DEFINE e == job[n].event
<1> DEFINE there == <<Remote(n, o[1]), o[2]>>
<1> DEFINE put == <<Remote(n, e.bucket), StoredAs(SyncRequest(e.key))>>
<1>1. Up[n] \in Nodes /\ there \in Objects(Up[n]) /\ o \in Objects(n)
  BY OneUp DEF Travelling, Objects, Replicating
<1>2. Unmistakable(o[2]) /\ Known(n, o[1])
  BY DEF Travelling
<1>3. There(n, o)' = IF there = put THEN c ELSE There(n, o)
  BY <1>1 DEF There, HInv, StoresOK, StoreOK
<1>4. IsAbout(e, o) => there = put
  BY <1>2 DEF IsAbout, Unmistakable, Travels
<1>5. ASSUME there = put PROVE IsAbout(e, o)
  <2>1. e.bucket = o[1]
    BY <1>2, <1>5, NamesAreOwn
  <2>2. e.key = o[2]
    BY <1>2, <1>5 DEF Unmistakable
  <2> QED BY <2>1, <2>2 DEF IsAbout
<1>6. queue'[n] = queue[n] /\ Here(n, o)' = Here(n, o)
  BY Untouched
<1> QED BY <1>3, <1>4, <1>5, <1>6 DEF Still

(* What a call of the manager of n leaves of the others: it changes one    *)
(* bucket of the node above, or nothing.                                   *)
LEMMA HopOthers ==
  ASSUME Separate, HopInv, NEW n \in Replicating, job[n].call # "recv",
         Touches(Up[n], Remote(n, job[n].event.bucket)) \/ UNCHANGED stores,
         \A p \in Nodes \ {n} : job'[p] = job[p] /\ stale'[p] = stale[p]
  PROVE  \A p \in Replicating \ {n} : \A o \in Travelling(p) : Hop(p, o)'
<1> TAKE p \in Replicating \ {n}
<1> TAKE o \in Travelling(p)
<1>1. n \in Nodes /\ Up[n] \in Nodes /\ p \in Nodes /\ Hop(p, o) /\ HInv
  BY OneUp DEF HopInv, Replicating
<1>2. CASE UNCHANGED stores
  BY <1>1, <1>2 DEF Hop, Here, There, stores
<1>3. CASE Touches(Up[n], Remote(n, job[n].event.bucket))
  <2>1. Known(n, job[n].event.bucket) /\ Known(p, o[1])
    BY <1>1 DEF HopInv, AtWork, Travelling
  <2>2. Up[p] = Up[n] => Remote(n, job[n].event.bucket) # Remote(p, o[1])
    BY <2>1, NamesAreOwn
  <2> QED BY <1>1, <1>3, <2>2, HopAround
<1> QED BY <1>2, <1>3

LEMMA HopCall ==
  ASSUME Separate, HopInv, NEW n \in Replicating,
         \/ HeadBucket(n) \/ EnsureBucket(n) \/ PushObject(n) \/ PushDelete(n)
         \/ PushDeleteBucket(n)
  PROVE  HopInv'
<1> DEFINE e == job[n].event
<1> DEFINE u == Up[n]
<1> DEFINE b == Remote(n, e.bucket)
<1>1. n \in Nodes /\ HInv /\ HInv' /\ u # NONE
  BY CallsKeep DEF HopInv, Replicating
<1>2. job[n].call # "recv" /\ e \in Events(n) /\ Phase(job[n].call, e.kind)
  BY <1>1 DEF HInv, JobsOK, JobOK, HeadBucket, EnsureBucket, PushObject, PushDelete,
     PushDeleteBucket
<1>3. Known(n, e.bucket)
  BY <1>1, <1>2 DEF HopInv, AtWork
<1>4. u \in Nodes /\ e.bucket \in NamesAt[n] /\ b \in NamesAt[u] /\ Known(u, b)
  BY <1>1, <1>2, <1>3, OneUp, KnownUp DEF Events
<1>5. \A o \in Travelling(n) : o \in Objects(n) /\ Hop(n, o)
  BY DEF HopInv, Travelling
<1>6. ASSUME UNCHANGED stores PROVE \A p \in Nodes : Kept(p)'
  BY <1>6 DEF HopInv, Kept, stores
<1>7. ASSUME \A o \in Travelling(n) : Hop(n, o)', \A p \in Nodes : Kept(p)',
             \A p \in Nodes : AtWork(p)',
             Touches(u, b) \/ UNCHANGED stores,
             \A p \in Nodes \ {n} : job'[p] = job[p] /\ stale'[p] = stale[p]
      PROVE  HopInv'
  <2>1. \A p \in Replicating \ {n} : \A o \in Travelling(p) : Hop(p, o)'
    BY <1>2, <1>7, HopOthers
  <2>2. \A p \in Replicating : \A o \in Travelling(p)' : Hop(p, o)'
    BY <1>7, <2>1 DEF Travelling
  <2> QED BY <1>1, <1>7, <2>2 DEF HopInv
<1>8. UNCHANGED stores => \A o \in Travelling(n) : Still(n, o)
  BY <1>1, <1>5, StillThere DEF stores
<1>9. job[n].call \in {"head", "create_bucket"} => job[n].call \in Carrying
  BY DEF Carrying
<1>10. CASE HeadBucket(n)
  <2>1. job[n].call = "head" /\ UNCHANGED stores
    BY <1>10 DEF HeadBucket
  <2>2. (\E ok \in BOOLEAN : Settle(n, ok)) \/ To(n, "create_bucket") \/ Retry(n)
    BY <1>10 DEF HeadBucket
  <2>3. {"put", "create_bucket"} \subseteq Calls \ {"recv"}
    BY DEF Calls
  <2>4. \A o \in Travelling(n) : Hop(n, o)'
    BY <1>1, <1>2, <1>5, <1>8, <1>9, <2>1, <2>2, <2>3, HopSettle, HopTo, HopRetry
  <2>5. Done(n) \/ Retry(n) \/ To(n, "put") \/ To(n, "create_bucket")
    BY <2>2 DEF Settle
  <2> QED BY <1>1, <1>2, <1>6, <1>7, <1>9, <2>1, <2>3, <2>4, <2>5, Worked DEF HopInv
<1>11. CASE EnsureBucket(n)
  <2>1. PICK ok \in BOOLEAN : Settle(n, ok)
    BY <1>11 DEF EnsureBucket, Heard
  <2>2. job[n].call = "create_bucket" /\ (CreateBucket(u, b) \/ UNCHANGED stores)
    BY <1>11 DEF EnsureBucket
  <2>3. "put" \in Calls \ {"recv"}
    BY DEF Calls
  <2>4. (Touches(u, b) \/ UNCHANGED stores) /\ \A p \in Nodes : Kept(p)'
    BY <1>1, <1>4, <1>6, <2>2, BucketOperation DEF HopInv, HInv
  <2>5. ASSUME NEW o \in Travelling(n) PROVE Hop(n, o)'
    <3>1. Still(n, o)
      <4>1. CASE CreateBucket(u, b)
        <5>1. There(n, o)' = There(n, o) /\ Touches(u, b)
          BY <1>1, <1>4, <4>1, BucketOperation DEF CreateBucket, There, HopInv, HInv
        <5> QED BY <5>1, Untouched DEF Still
      <4> QED BY <1>8, <2>2, <4>1
    <3> QED BY <1>1, <1>5, <2>1, <2>2, <3>1, HopSettle
  <2>6. Done(n) \/ Retry(n) \/ To(n, "put")
    BY <2>1 DEF Settle
  <2> QED BY <1>1, <1>2, <1>7, <1>9, <2>2, <2>3, <2>4, <2>5, <2>6, Worked DEF HopInv
<1>12. ASSUME Finish(n, TRUE) \/ Finish(n, FALSE)
       PROVE  /\ \A p \in Nodes \ {n} : job'[p] = job[p] /\ stale'[p] = stale[p]
              /\ \A p \in Nodes : AtWork(p)'
  BY <1>1, <1>2, <1>12, Worked DEF Finish, HopInv
<1>13. ASSUME Finish(n, FALSE), UNCHANGED stores PROVE HopInv'
  <2>1. \A o \in Travelling(n) : Hop(n, o)'
    BY <1>1, <1>2, <1>5, <1>8, <1>13, HopFinish
  <2> QED BY <1>6, <1>7, <1>12, <1>13, <2>1
<1>14. CASE PushObject(n)
  <2> DEFINE k == StoredAs(SyncRequest(e.key))
  <2>1. job[n].call = "put" /\ e.kind = "put" /\ e.key \in Keys /\ k \in Keys
    BY <1>2, <1>14, KeysAreKeys DEF PushObject, Phase, Events
  <2>2. CASE PutObject(u, b, k, job[n].held) /\ \E heard \in Heard : Finish(n, heard)
    <3>1. PICK heard \in BOOLEAN : Finish(n, heard)
      BY <2>2 DEF Heard
    <3>2. job[n].held \in AllWrites
      BY <1>1, <2>1 DEF HInv, JobsOK, JobOK, Stored, HopInv, AtWork, Carrying
    <3>3. Touches(u, b) /\ \A p \in Nodes : Kept(p)'
      <4> HIDE DEF k
      <4> QED BY <1>1, <1>4, <2>1, <2>2, <3>2, ObjectOperation DEF HopInv, HInv
    <3>4. ASSUME NEW o \in Travelling(n) PROVE Hop(n, o)'
      <4>1. Still(n, o) /\ (IsAbout(e, o) => There(n, o)' = job[n].held)
        BY <1>1, <1>3, <2>1, <2>2, <3>3, Pushed DEF PutObject
      <4>2. IsAbout(e, o) /\ About(queue[n], o) = {} => job[n].held = Here(n, o)
        BY <1>5, <2>1 DEF Hop, HopOf, At, Carrying
      <4> QED BY <1>1, <1>2, <1>5, <3>1, <4>1, <4>2, HopFinish
    <3> QED BY <1>7, <1>12, <3>1, <3>3, <3>4
  <2> QED BY <1>13, <1>14, <2>2 DEF PushObject
<1>15. CASE PushDelete(n)
  <2> DEFINE k == StoredAs(SyncRequest(e.key))
  <2>1. job[n].call = "delete" /\ e.kind = "delete" /\ e.key \in Keys /\ k \in Keys
    BY <1>2, <1>15, KeysAreKeys DEF PushDelete, Phase, Events
  <2>2. \A o \in Travelling(n) : IsAbout(e, o) /\ About(queue[n], o) = {} => Here(n, o) = ABSENT
    BY <1>5, <2>1 DEF Hop, HopOf, At
  <2>3. CASE DeleteObject(u, b, k) /\ \E heard \in Heard : Finish(n, heard)
    <3>1. PICK heard \in BOOLEAN : Finish(n, heard)
      BY <2>3 DEF Heard
    <3>2. Touches(u, b) /\ \A p \in Nodes : Kept(p)'
      <4>1. DeleteObject(u, b, k)
        BY <2>3
      <4> HIDE DEF k
      <4> QED BY <1>1, <1>4, <2>1, <4>1, ObjectOperation DEF HopInv, HInv
    <3>3. ASSUME NEW o \in Travelling(n) PROVE Hop(n, o)'
      <4>1. Still(n, o) /\ (IsAbout(e, o) => There(n, o)' = ABSENT)
        BY <1>1, <1>3, <2>1, <2>3, <3>2, Pushed DEF DeleteObject
      <4> QED BY <1>1, <1>2, <1>5, <2>2, <3>1, <4>1, HopFinish
    <3> QED BY <1>7, <1>12, <3>1, <3>2, <3>3
  <2>4. CASE b \notin buckets[u] /\ UNCHANGED stores /\ \E heard \in Heard : Finish(n, heard)
    <3>1. PICK heard \in BOOLEAN : Finish(n, heard)
      BY <2>4 DEF Heard
    <3>2. ASSUME NEW o \in Travelling(n), IsAbout(e, o) PROVE There(n, o)' = ABSENT
      <4>1. <<b, o[2]>> \in Objects(u) /\ b = Remote(n, o[1])
        BY <1>4, <3>2 DEF Travelling, Objects, IsAbout
      <4> QED BY <1>4, <2>4, <4>1 DEF HopInv, Kept, There, stores
    <3>3. \A o \in Travelling(n) : Hop(n, o)'
      BY <1>1, <1>2, <1>5, <1>8, <2>2, <2>4, <3>1, <3>2, HopFinish
    <3> QED BY <1>6, <1>7, <1>12, <2>4, <3>1, <3>3
  <2> QED BY <1>13, <1>15, <2>3, <2>4 DEF PushDelete
<1>16. CASE PushDeleteBucket(n)
  <2>1. e.kind = "delete_bucket"
    BY <1>2, <1>16 DEF PushDeleteBucket, Phase
  <2>2. \A o \in Travelling(n) : ~IsAbout(e, o)
    BY <1>2, <1>5, <2>1, KeysAreKeys DEF Events, IsAbout, Objects
  <2>3. PICK ok \in BOOLEAN : Finish(n, ok)
    BY <1>16 DEF PushDeleteBucket, Heard
  <2>4. DeleteBucket(u, b) \/ UNCHANGED stores
    BY <1>16 DEF PushDeleteBucket
  <2>5. (Touches(u, b) \/ UNCHANGED stores) /\ \A p \in Nodes : Kept(p)'
    BY <1>1, <1>4, <1>6, <2>4, BucketOperation DEF HopInv, HInv
  <2>6. ASSUME NEW o \in Travelling(n) PROVE Hop(n, o)'
    <3>1. Still(n, o)
      <4>1. CASE DeleteBucket(u, b)
        <5>1. There(n, o)' = There(n, o) /\ Touches(u, b)
          BY <1>1, <1>4, <4>1, BucketOperation DEF DeleteBucket, There, HopInv, HInv
        <5> QED BY <5>1, Untouched DEF Still
      <4> QED BY <1>8, <2>4, <4>1
    <3> QED BY <1>1, <1>2, <1>5, <2>2, <2>3, <3>1, HopFinish
  <2> QED BY <1>7, <1>12, <2>3, <2>5, <2>6
<1> QED BY <1>10, <1>11, <1>14, <1>15, <1>16

LEMMA HopInit == ASSUME Separate, Init PROVE HopInv
<1>1. PICK made \in SUBSET {m \in Clients : \A i \in DOMAIN Route[m[1]] : Valid(NameAt[m][i])} :
      \E kept \in SUBSET (made \X {k \in Keys : Travels(k)}) :
        /\ buckets = [u \in Nodes |-> {x \in NamesAt[u] : \E m \in made : Replica(u, x, m)}]
        /\ objects = [u \in Nodes |-> [o \in Objects(u) |->
             LET own == {m \in made : <<m, o[2]>> \in kept /\ Replica(u, o[1], m)}
             IN IF own = {} THEN ABSENT ELSE Write(CHOOSE m \in own : TRUE, 0)]]
  BY DEF Init
<1>2. PICK kept \in SUBSET (made \X {k \in Keys : Travels(k)}) :
        /\ buckets = [u \in Nodes |-> {x \in NamesAt[u] : \E m \in made : Replica(u, x, m)}]
        /\ objects = [u \in Nodes |-> [o \in Objects(u) |->
             LET own == {m \in made : <<m, o[2]>> \in kept /\ Replica(u, o[1], m)}
             IN IF own = {} THEN ABSENT ELSE Write(CHOOSE m \in own : TRUE, 0)]]
  BY <1>1
<1>3. /\ HInv /\ \A n \in Nodes : queue[n] = <<>> /\ job[n] = Idle
  BY InitKeeps DEF Init
<1> DEFINE Own(u, o) == {m \in made : <<m, o[2]>> \in kept /\ Replica(u, o[1], m)}
<1>4. ASSUME NEW u \in Nodes, NEW o \in Objects(u)
      PROVE  objects[u][o] = IF Own(u, o) = {} THEN ABSENT
                             ELSE Write(CHOOSE m \in Own(u, o) : TRUE, 0)
  BY <1>2
<1>5. ASSUME NEW n \in Nodes PROVE Kept(n) /\ AtWork(n)
  <2>1. \A b \in buckets[n] : Known(n, b)
    BY <1>2 DEF Known
  <2>2. ASSUME NEW o \in Objects(n), objects[n][o] # ABSENT PROVE o[1] \in buckets[n]
    <3>1. o[1] \in NamesAt[n]
      BY DEF Objects
    <3>2. Own(n, o) # {}
      BY <1>4, <2>2
    <3> QED BY <1>2, <3>1, <3>2
  <2> QED BY <1>3, <2>1, <2>2 DEF Kept, AtWork, Idle, Carrying
<1>6. ASSUME NEW n \in Replicating, NEW o \in Travelling(n) PROVE Hop(n, o)
  <2> DEFINE above == <<Remote(n, o[1]), o[2]>>
  <2>1. /\ n \in Nodes /\ Up[n] \in Nodes /\ o \in Objects(n) /\ Known(n, o[1])
        /\ above \in Objects(Up[n])
    BY OneUp DEF Travelling, Objects, Replicating
  <2>2. Own(Up[n], above) = Own(n, o)
    BY <2>1, OwnReplica
  <2>3. There(n, o) = Here(n, o)
    <3> HIDE DEF Own, above
    <3>1. objects[Up[n]][above] = objects[n][o]
      BY <1>4, <2>1, <2>2
    <3> QED BY <3>1 DEF There, Here, above
  <2>4. About(queue[n], o) = {} /\ ~At(job[n], o)
    BY <1>3, <2>1 DEF About, At, Idle
  <2> QED BY <2>3, <2>4 DEF Hop, HopOf
<1> QED BY <1>3, <1>5, <1>6 DEF HopInv

LEMMA HopStep == ASSUME Separate, HopInv, [Next]_vars PROVE HopInv'
<1>1. CASE UNCHANGED vars
  BY <1>1, StepKeeps DEF vars, stores, HopInv, Kept, AtWork, Travelling, Hop, Here, There
<1>2. CASE \E n \in Fronts : Client(n)
  BY <1>2, HopClient
<1>3. CASE \E n \in Replicating : Manager(n)
  <2> PICK n \in Replicating : Manager(n)
    BY <1>3
  <2> QED BY HopRecv, HopBegin, HopCall DEF Manager
<1> QED BY <1>1, <1>2, <1>3 DEF Next

(* README.md: "one-way push replication to an upstream MiniMinio", any     *)
(* number of times over.  Where nothing about an object waits below a node *)
(* and nothing was given up, that node holds what the first one holds: the *)
(* events of sync/mod.rs, pushed in order and read again at every attempt, *)
(* carry an object up the whole tree.                                      *)
THEOREM EndToEndCorrect ==
  ASSUME Separate
  PROVE  Spec => []EndToEnd
<1>1. HopInv => EndToEnd
  <2> SUFFICES ASSUME HopInv, NEW n \in Fronts, NEW b \in Local[n], NEW k \in Keys,
                      NEW i \in DOMAIN Route[n], Unmistakable(k), Arrived(n, b, k, i)
               PROVE  Same(n, b, k, i)
    BY DEF EndToEnd, Unmistakable
  <2> DEFINE m == <<n, b>>
  <2> DEFINE Stray == {j \in 1..i : ~Same(n, b, k, j)}
  <2>1. /\ m \in Clients /\ m[1] = n /\ Route[n] \in Seq(Nodes) /\ DOMAIN Route[n] = 1..Len(Route[n])
        /\ Len(Route[n]) \in Nat /\ Route[n][1] = n
    BY TreeOfNodes DEF Clients
  <2>2. i \in Nat \ {0} /\ 1..i \subseteq DOMAIN Route[n] /\ 1 \in 1..i
    BY <2>1
  <2>3. Same(n, b, k, 1)
    <3>1. NameAt[m][1] = b
      BY <2>1, <2>2, NamesOnTheWay
    <3> QED BY <2>1, <3>1 DEF Same
  <2>4. Stray = {}
    <3> SUFFICES ASSUME Stray # {} PROVE FALSE
      OBVIOUS
    <3>1. PICK j \in Stray : \A l \in Stray : j <= l
      <4>1. Stray \subseteq Nat
        BY <2>2
      <4> HIDE DEF Stray
      <4> QED BY <4>1, LeastOf
    <3>2. j \in 1..i /\ j # 1 /\ ~Same(n, b, k, j)
      BY <2>3, <3>1
    <3> DEFINE h == j - 1
    <3>3. h \in 1..(i - 1) /\ h \in 1..i /\ h + 1 = j /\ ~(j <= h)
      BY <2>2, <3>2
    <3>4. Same(n, b, k, h)
      BY <3>1, <3>3
    <3> DEFINE p == Route[n][h]
    <3> DEFINE o == <<NameAt[m][h], k>>
    <3>5. h \in DOMAIN Route[n] /\ j \in DOMAIN Route[n] /\ p \in Nodes /\ h # Len(Route[n])
      BY <2>1, <2>2, <3>2, <3>3
    <3>6. Up[p] # NONE
      BY <3>5, TreeOfNodes
    <3>7. Route[n][j] = Up[p] /\ NameAt[m][j] = Remote(p, NameAt[m][h])
      <4>1. h \in DOMAIN Route[m[1]] /\ Route[m[1]][h] = p /\ Route[m[1]][j] = Route[n][j]
        BY <2>1, <3>5
      <4> HIDE DEF m, h, p
      <4>2. Route[m[1]][h + 1] = Up[p] /\ NameAt[m][h + 1] = Remote(p, NameAt[m][h])
        BY <2>1, <3>6, <4>1, NextOnRoute
      <4> QED BY <3>3, <4>1, <4>2
    <3>8. NameAt[m][h] \in NamesAt[p] /\ Known(p, NameAt[m][h])
      BY <2>1, <3>5, NamesOnTheWay DEF Known, Replica
    <3>9. p \in Replicating /\ o \in Travelling(p)
      BY <3>5, <3>6, <3>8 DEF Replicating, Travelling, Objects
    <3>10. Quiet(p) /\ o \notin stale[p]
      BY <3>3 DEF Arrived
    <3>11. About(queue[p], o) = {} /\ ~At(job[p], o)
      BY <3>10 DEF Quiet, About, At
    <3>12. There(p, o) = Here(p, o)
      BY <3>9, <3>10, <3>11 DEF HopInv, Hop, HopOf
    <3>13. There(p, o) = objects[Route[n][j]][<<NameAt[m][j], k>>]
           /\ Here(p, o) = objects[Route[n][h]][<<NameAt[m][h], k>>]
      BY <3>7 DEF There, Here
    <3> QED BY <3>2, <3>4, <3>12, <3>13 DEF Same
  <2> QED BY <2>2, <2>4
<1>2. Init => HopInv
  BY HopInit
<1>3. HopInv /\ [Next]_vars => HopInv'
  BY HopStep
<1> QED BY <1>1, <1>2, <1>3, PTL DEF Spec

-----------------------------------------------------------------------------
(* When no call fails.                                                     *)

(* Objects that nothing at the node above refuses: their keys arrive under *)
(* their own names, and their bucket can be made there.                    *)
Sure(n) == {o \in Travelling(n) : Valid(Remote(n, o[1]))}

(* Nothing about them was given up; and what is pushed finds its bucket.   *)
GoesUp(n) ==
  /\ Sure(n) \cap stale[n] = {}
  /\ LET b == Remote(n, job[n].event.bucket)
     IN job[n].call = "put" /\ Valid(b) => b \in buckets[Up[n]]
SureInv == HopInv /\ \A n \in Replicating : GoesUp(n)

(* The buckets of v, but for b, stay.                                      *)
OnlyBucket(v, b) ==
  \A n \in Nodes : \A x \in buckets[n] : x \in buckets'[n] \/ (n = v /\ x = b)

LEMMA BucketChanges ==
  ASSUME StoresOK, NEW v \in Nodes, NEW b,
         \/ UNCHANGED buckets \/ CreateBucket(v, b) \/ DeleteBucket(v, b)
  PROVE  OnlyBucket(v, b)
BY DEF CreateBucket, DeleteBucket, OnlyBucket, StoresOK

(* A manager whose step this is not still finds its bucket.                *)
LEMMA StillGoesUp ==
  ASSUME HopInv, NEW p \in Replicating, GoesUp(p), job'[p] = job[p], stale'[p] = stale[p],
         NEW v \in Nodes, NEW b, OnlyBucket(v, b),
         job[p].call # "recv" /\ Up[p] = v => b # Remote(p, job[p].event.bucket)
  PROVE  GoesUp(p)'
<1>1. Up[p] \in Nodes
  BY OneUp DEF Replicating
<1> QED BY <1>1 DEF GoesUp, OnlyBucket, Sure, Travelling

LEMMA SureClient ==
  ASSUME Separate, SureInv, NEW n \in Fronts, Client(n)
  PROVE  \A p \in Replicating : GoesUp(p)'
<1> TAKE p \in Replicating
<1>1. UNCHANGED <<job, stale>> /\ n \in Nodes /\ HInv /\ p \in Nodes
  BY TreeOfNodes DEF Client, SureInv, HopInv, Replicating
<1>2. PICK b \in Local[n] : UNCHANGED buckets \/ CreateBucket(n, b) \/ DeleteBucket(n, b)
  BY DEF Client, SdkPut, ConsolePut, PutObject, DeleteObject
<1>3. OnlyBucket(n, b)
  BY <1>1, <1>2, BucketChanges DEF HInv
<1>4. job[p].call # "recv" /\ Up[p] = n => b # Remote(p, job[p].event.bucket)
  <2>1. <<n, b>> \in Clients
    BY DEF Clients
  <2>2. job[p].call # "recv" => Known(p, job[p].event.bucket)
    BY <1>1 DEF SureInv, HopInv, AtWork
  <2> QED BY <2>1, <2>2, NamesAreOwn
<1> QED BY <1>1, <1>3, <1>4, StillGoesUp DEF SureInv

(* A manager that gives up nothing that is sure to go through.             *)
LEMMA SureGoes ==
  ASSUME SureInv, NEW n \in Replicating, job[n].call # "recv",
         \/ Done(n) \/ (\E c \in Calls : To(n, c) /\ c # "put")
         \/ Retry(n) /\ Subject(n) \notin Sure(n)
  PROVE  GoesUp(n)'
<1>1. n \in Nodes /\ HInv
  BY DEF SureInv, HopInv, Replicating
<1>2. /\ job = [p \in Nodes |-> job[p]] /\ stale = [p \in Nodes |-> stale[p]]
      /\ DOMAIN job[n] = {"call", "event", "attempt", "held"}
  BY <1>1 DEF HInv, JobsOK, JobOK
<1>3. job'[n].call # "put"
  BY <1>1, <1>2 DEF Done, To, Retry, Idle
<1>4. stale'[n] \subseteq stale[n] \cup {Subject(n)}
      /\ (Subject(n) \in Sure(n) => stale'[n] \subseteq stale[n])
  BY <1>1, <1>2 DEF Done, To, Retry
<1> QED BY <1>3, <1>4 DEF GoesUp, SureInv, Sure, Travelling

LEMMA SureCall ==
  ASSUME Separate, Failures = {}, SureInv, NEW n \in Replicating,
         \/ HeadBucket(n) \/ EnsureBucket(n) \/ PushObject(n) \/ PushDelete(n)
         \/ PushDeleteBucket(n)
  PROVE  GoesUp(n)'
<1> DEFINE e == job[n].event
<1> DEFINE u == Up[n]
<1> DEFINE b == Remote(n, e.bucket)
<1>1. /\ n \in Nodes /\ HInv /\ GoesUp(n) /\ Up[n] \in Nodes
      /\ job = [p \in Nodes |-> job[p]] /\ stale = [p \in Nodes |-> stale[p]]
      /\ DOMAIN job[n] = {"call", "event", "attempt", "held"}
  BY OneUp DEF SureInv, HopInv, Replicating, HInv, JobsOK, JobOK
<1>2. job[n].call # "recv" /\ e \in Events(n) /\ Phase(job[n].call, e.kind)
  BY <1>1 DEF HInv, JobsOK, JobOK, HeadBucket, EnsureBucket, PushObject, PushDelete,
     PushDeleteBucket
<1>3. ASSUME Subject(n) \in Sure(n)
      PROVE  e.key \in Keys /\ Valid(b) /\ Verified(SyncRequest(e.key))
  BY <1>3 DEF Sure, Travelling, Objects, Subject, Unmistakable, Travels
<1>4. Heard = {TRUE} /\ ~Unsent
  BY DEF Heard, Unsent
<1>5. ASSUME e.kind # "put", ~(Subject(n) \in Sure(n)) \/ ~Retry(n),
             \E ok \in BOOLEAN : Settle(n, ok)
      PROVE  GoesUp(n)'
  BY <1>2, <1>5, SureGoes DEF Settle
<1>6. ASSUME e.kind = "put", \E ok \in BOOLEAN : Settle(n, ok), Valid(b) => b \in buckets'[u]
      PROVE  GoesUp(n)'
  <2>1. To(n, "put")
    BY <1>6 DEF Settle
  <2>2. job'[n].event = job[n].event /\ stale'[n] = stale[n]
    BY <1>1, <2>1 DEF To
  <2> QED BY <1>1, <1>6, <2>2 DEF GoesUp, Sure, Travelling
<1>7. e.kind \in {"create_bucket", "delete_bucket"} => Subject(n) \notin Sure(n)
  BY <1>2, KeysAreKeys DEF Events, Sure, Travelling, Objects, Subject
<1>8. CASE HeadBucket(n)
  <2>1. /\ job[n].call = "head" /\ e.kind \in {"put", "create_bucket"} /\ UNCHANGED stores
    BY <1>2, <1>8 DEF HeadBucket, Phase
  <2>2. (b \in buckets[u] /\ Settle(n, TRUE)) \/ To(n, "create_bucket")
    BY <1>8 DEF HeadBucket
  <2>3. CASE To(n, "create_bucket")
    BY <1>2, <2>3, SureGoes DEF Calls
  <2>4. CASE b \in buckets[u] /\ Settle(n, TRUE)
    BY <1>5, <1>6, <1>7, <2>1, <2>4 DEF stores
  <2> QED BY <2>2, <2>3, <2>4
<1>9. CASE EnsureBucket(n)
  <2>1. /\ job[n].call = "create_bucket" /\ e.kind \in {"put", "create_bucket"}
        /\ \E ok \in BOOLEAN : Settle(n, ok)
    BY <1>2, <1>4, <1>9 DEF EnsureBucket, Phase
  <2>2. Valid(b) => b \in buckets'[u]
    <3>1. \/ CreateBucket(u, b) \/ (b \in buckets[u] /\ UNCHANGED stores) \/ ~Valid(b)
      BY <1>4, <1>9 DEF EnsureBucket
    <3> QED BY <1>1, <3>1 DEF CreateBucket, stores, HInv, StoresOK
  <2> QED BY <1>5, <1>6, <1>7, <2>1, <2>2
<1>10. ASSUME Finish(n, TRUE) \/ (Finish(n, FALSE) /\ Subject(n) \notin Sure(n))
       PROVE  GoesUp(n)'
  BY <1>2, <1>10, SureGoes DEF Finish
<1>11. CASE PushObject(n)
  <2>1. Finish(n, TRUE)
        \/ (Finish(n, FALSE) /\ (~Verified(SyncRequest(e.key)) \/ b \notin buckets[u]))
    BY <1>4, <1>11 DEF PushObject
  <2>2. job[n].call = "put"
    BY <1>11 DEF PushObject
  <2> QED BY <1>1, <1>3, <1>10, <2>1, <2>2 DEF GoesUp
<1>12. CASE PushDelete(n)
  <2>1. Finish(n, TRUE) \/ (Finish(n, FALSE) /\ ~Verified(SyncRequest(e.key)))
    BY <1>4, <1>12 DEF PushDelete
  <2> QED BY <1>3, <1>10, <2>1
<1>13. CASE PushDeleteBucket(n)
  <2>1. Finish(n, TRUE)
    BY <1>4, <1>13 DEF PushDeleteBucket
  <2> QED BY <1>10, <2>1
<1> QED BY <1>8, <1>9, <1>11, <1>12, <1>13

LEMMA SureManager ==
  ASSUME Separate, Failures = {}, SureInv, NEW n \in Replicating, Manager(n)
  PROVE  \A p \in Replicating : GoesUp(p)'
<1> DEFINE b == Remote(n, job[n].event.bucket)
<1>1. /\ n \in Nodes /\ HInv /\ HopInv /\ Up[n] \in Nodes
      /\ job = [p \in Nodes |-> job[p]] /\ stale = [p \in Nodes |-> stale[p]]
      /\ DOMAIN job[n] = {"call", "event", "attempt", "held"}
  BY OneUp DEF SureInv, HopInv, Replicating, HInv, JobsOK, JobOK
<1>2. GoesUp(n)'
  <2>1. CASE Recv(n)
    <3>1. job'[n] = [job[n] EXCEPT !.call = "begin", !.event = Head(queue[n])]
          /\ UNCHANGED <<buckets, stale>>
      BY <1>1, <2>1 DEF Recv
    <3>2. job'[n].call = "begin"
      BY <1>1, <3>1
    <3> QED BY <3>1, <3>2 DEF SureInv, GoesUp, Sure, Travelling
  <2>2. CASE Begin(n)
    <3>1. CASE /\ UNCHANGED stale
               /\ job' = [job EXCEPT ![n].call = "head", ![n].held = objects[n][Subject(n)]]
      <4>1. job'[n].call = "head"
        BY <1>1, <3>1
      <4> QED BY <3>1, <4>1 DEF SureInv, GoesUp, Sure, Travelling
    <3>2. CASE Done(n) \/ \E c \in Calls : To(n, c) /\ c # "put"
      <4>1. job[n].call # "recv"
        BY <2>2 DEF Begin
      <4> QED BY <3>2, <4>1, SureGoes
    <3> QED BY <2>2, <3>1, <3>2 DEF Begin, Calls
  <2> QED BY <2>1, <2>2, SureCall DEF Manager
<1>3. ASSUME NEW p \in Replicating, p # n PROVE GoesUp(p)'
  <2>1. p \in Nodes /\ GoesUp(p) /\ job'[p] = job[p] /\ stale'[p] = stale[p]
    BY <1>1, <1>3 DEF SureInv, Replicating, Manager, Recv, Begin, HeadBucket, EnsureBucket,
       PushObject, PushDelete, PushDeleteBucket, To, Done, Retry, Settle, Finish
  <2>2. job[n].call = "recv" => UNCHANGED buckets
    BY DEF Manager, Recv, Begin, HeadBucket, EnsureBucket, PushObject, PushDelete,
       PushDeleteBucket
  <2>3. UNCHANGED buckets \/ CreateBucket(Up[n], b) \/ DeleteBucket(Up[n], b)
    BY DEF Manager, Recv, Begin, HeadBucket, EnsureBucket, PushObject, PushDelete,
       PushDeleteBucket, PutObject, DeleteObject, stores
  <2>4. OnlyBucket(Up[n], b)
    BY <1>1, <2>3, BucketChanges DEF HInv
  <2>5. CASE UNCHANGED buckets
    BY <2>1, <2>5 DEF GoesUp, Sure, Travelling
  <2>6. CASE job[n].call # "recv"
    <3>1. Known(n, job[n].event.bucket)
      BY <1>1, <2>6 DEF HopInv, AtWork
    <3>2. job[p].call # "recv" => Known(p, job[p].event.bucket)
      BY <1>1, <2>1 DEF HopInv, AtWork
    <3>3. job[p].call # "recv" /\ Up[p] = Up[n] => b # Remote(p, job[p].event.bucket)
      BY <1>3, <3>1, <3>2, NamesAreOwn
    <3> QED BY <1>1, <2>1, <2>4, <3>3, StillGoesUp
  <2> QED BY <2>2, <2>5, <2>6
<1> QED BY <1>2, <1>3

LEMMA SureInitial == ASSUME Separate, Init PROVE SureInv
<1>1. \A n \in Replicating : stale[n] = {} /\ job[n].call = "recv"
  BY DEF Init, Idle, Replicating
<1> QED BY <1>1, HopInit DEF SureInv, GoesUp

LEMMA SureStep == ASSUME Separate, Failures = {}, SureInv, [Next]_vars PROVE SureInv'
<1>1. HopInv'
  BY HopStep DEF SureInv
<1>2. CASE UNCHANGED vars
  BY <1>1, <1>2 DEF vars, stores, SureInv, GoesUp, Sure, Travelling
<1>3. CASE \E n \in Fronts : Client(n)
  BY <1>1, <1>3, SureClient DEF SureInv
<1>4. CASE \E n \in Replicating : Manager(n)
  BY <1>1, <1>4, SureManager DEF SureInv
<1> QED BY <1>2, <1>3, <1>4 DEF Next

(* What README.md's "one-way push replication" comes to when no call fails.*)
(* An object whose key arrives under its own name, and no other key does,  *)
(* in a bucket whose name is nowhere too long, is the same at every node   *)
(* of its route once the channels below are empty, whatever happens to the *)
(* keys and the buckets that are refused.                                  *)
GoodNames(m, i) == \A j \in 1..i : Valid(NameAt[m][j])
Replicates ==
  \A n \in Fronts : \A b \in Local[n], k \in Keys, i \in DOMAIN Route[n] :
    /\ Unmistakable(k) /\ GoodNames(<<n, b>>, i)
    /\ \A j \in 1..(i - 1) : Quiet(Route[n][j])
    => Same(n, b, k, i)

THEOREM ReplicationCorrect ==
  ASSUME Separate, Failures = {}
  PROVE  Spec => []Replicates
<1>1. SureInv /\ EndToEnd => Replicates
  <2> SUFFICES ASSUME SureInv, EndToEnd, NEW n \in Fronts, NEW b \in Local[n], NEW k \in Keys,
                      NEW i \in DOMAIN Route[n], Unmistakable(k), GoodNames(<<n, b>>, i),
                      \A j \in 1..(i - 1) : Quiet(Route[n][j])
               PROVE  Same(n, b, k, i)
    BY DEF Replicates
  <2> DEFINE m == <<n, b>>
  <2>1. /\ m \in Clients /\ m[1] = n /\ Route[n] \in Seq(Nodes)
        /\ DOMAIN Route[n] = 1..Len(Route[n]) /\ Len(Route[n]) \in Nat
    BY TreeOfNodes DEF Clients
  <2>2. ASSUME NEW j \in 1..(i - 1)
        PROVE  <<NameAt[m][j], k>> \notin stale[Route[n][j]]
    <3>1. j \in DOMAIN Route[n] /\ j + 1 \in 1..i /\ j # Len(Route[n])
      BY <2>1, <2>2
    <3>2. Up[Route[n][j]] # NONE /\ Route[n][j] \in Nodes
      BY <2>1, <3>1, TreeOfNodes
    <3>3. j \in DOMAIN Route[m[1]] /\ Route[m[1]][j] = Route[n][j]
      BY <2>1, <3>1
    <3>4. NameAt[m][j + 1] = Remote(Route[n][j], NameAt[m][j])
      <4> HIDE DEF m
      <4> QED BY <2>1, <3>2, <3>3, NextOnRoute
    <3>5. Known(Route[n][j], NameAt[m][j]) /\ NameAt[m][j] \in NamesAt[Route[n][j]]
      BY <2>1, <3>3, NamesOnTheWay DEF Known, Replica
    <3>6. Route[n][j] \in Replicating /\ <<NameAt[m][j], k>> \in Sure(Route[n][j])
      BY <3>1, <3>2, <3>4, <3>5 DEF Replicating, Sure, Travelling, Objects, GoodNames
    <3> QED BY <3>6 DEF SureInv, GoesUp
  <2>3. Arrived(n, b, k, i)
    BY <2>2 DEF Arrived
  <2> QED BY <2>3 DEF EndToEnd, Unmistakable
<1>2. Init => SureInv
  BY SureInitial
<1>3. SureInv /\ [Next]_vars => SureInv'
  BY SureStep
<1> QED BY <1>1, <1>2, <1>3, EndToEndCorrect, PTL DEF Spec

(* README.md says it of every object: so it is if all keys and all names   *)
(* are such.                                                               *)
THEOREM EveryKeyCorrect ==
  ASSUME Separate, Failures = {}, \A k \in Keys : Unmistakable(k),
         \A m \in Clients : \A i \in DOMAIN Route[m[1]] : Valid(NameAt[m][i])
  PROVE  Spec => []EveryKeyReplicates
<1>1. Replicates => EveryKeyReplicates
  <2> SUFFICES ASSUME NEW n \in Fronts, NEW b \in Local[n], NEW i \in DOMAIN Route[n]
               PROVE  GoodNames(<<n, b>>, i)
    BY DEF Replicates, EveryKeyReplicates
  <2>1. 1..i \subseteq DOMAIN Route[n]
    BY TreeOfNodes
  <2>2. <<n, b>> \in Clients
    BY DEF Clients
  <2> QED BY <2>1, <2>2 DEF GoodNames
<1> QED BY <1>1, ReplicationCorrect, PTL
=============================================================================
