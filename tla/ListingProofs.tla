---------------------------- MODULE ListingProofs ----------------------------
(***************************************************************************)
(* Proofs about Listing: however many objects others store and delete,     *)
(* whatever the keys, prefixes and pages, a client that follows the tokens *)
(* gets no key twice or out of order, and misses none that was there all   *)
(* the time, has no component that starts with a dot, and lies in a        *)
(* directory that could be read.                                           *)
(***************************************************************************)
EXTENDS Listing, WellFoundedInduction, TLAPS

(* Between two requests there is no page.                                  *)
PageOpen == phase # "scan" => objects = <<>> /\ common_prefixes = {}

(* The loop goes up from the token: what it has put on the page lies       *)
(* between the token and what it has still to look at.                     *)
Upwards ==
  /\ phase = "scan" => found \subseteq Matching /\ \A k \in found : start < k
  /\ \A i \in 1..Len(objects) : start < objects[i]
  /\ \A i, j \in 1..Len(objects) : i < j => objects[i] < objects[j]
  /\ phase = "scan" => \A i \in 1..Len(objects), k \in found : objects[i] < k
  /\ phase # "done" => \A k \in listed : k <= start

(* A key that the client has, or will have with this page.                 *)
Accounted(k) ==
  IF Group[k] = NONE THEN k \in listed \cup Range(objects)
                     ELSE Group[k] \in covered \cup common_prefixes

(* No lasting key that is not hidden is lost between the walk, the loop and*)
(* the pages, but for those behind the token whose directory this walk     *)
(* could not read.                                                         *)
Kept ==
  \A k \in (lasting \cap Matching) \ Hidden :
    /\ phase = "ask" => (k <= start => Accounted(k))
    /\ phase = "walk" => /\ k <= start => Accounted(k)
                         /\ k \in unread \cup unreadable \cup found
    /\ phase = "scan" => k \in found \/ Accounted(k) \/ (k \in unreadable /\ start < k)
    /\ phase = "done" => Accounted(k)

IInv == ListingTypeOK /\ PageOpen /\ Upwards /\ Kept

-----------------------------------------------------------------------------
(* A set of numbers has a least one.                                       *)
LEMMA Smallest ==
  ASSUME NEW S \in SUBSET Nat, S # {}
  PROVE  Min(S) \in S /\ \A y \in S : Min(S) <= y
<1>1. PICK Less : /\ IsWellFoundedOn(Less, Nat)
                  /\ \A x, y \in Nat : y < x => <<y, x>> \in Less
  <2>1. \A x, y \in Nat : y < x => <<y, x>> \in OpToRel(<, Nat)
    BY DEF OpToRel
  <2> QED BY <2>1, NatLessThanWellFounded, Zenon
<1>2. PICK x \in S : \A y \in S : ~(<<y, x>> \in Less)
  BY <1>1, WFMin
<1>3. \A y \in S : x <= y
  <2> TAKE y \in S
  <2>1. x \in Nat /\ y \in Nat /\ ~(<<y, x>> \in Less)
    BY <1>2
  <2>2. ~(y < x)
    BY <1>1, <2>1
  <2> QED BY <2>1, <2>2
<1> QED BY <1>3 DEF Min

(* What a page holds.                                                      *)
LEMMA OnPage ==
  ASSUME ListingTypeOK
  PROVE  /\ Len(objects) \in Nat /\ DOMAIN objects = 1..Len(objects)
         /\ \A i \in 1..Len(objects) : objects[i] \in Matching
         /\ Range(objects) = {objects[i] : i \in 1..Len(objects)}
         /\ Range(objects) \subseteq Matching
<1>1. /\ Len(objects) \in Nat /\ DOMAIN objects = 1..Len(objects)
      /\ \A i \in 1..Len(objects) : objects[i] \in Matching
  BY DEF ListingTypeOK
<1> QED BY <1>1 DEF Range

LEMMA RangeOfAppend ==
  ASSUME NEW s \in Seq(Matching), NEW k \in Matching
  PROVE  Range(s) \subseteq Range(Append(s, k)) /\ k \in Range(Append(s, k))
<1> DEFINE t == Append(s, k)
<1>1. /\ Len(s) \in Nat /\ DOMAIN s = 1..Len(s) /\ DOMAIN t = 1..(Len(s) + 1)
      /\ \A i \in 1..Len(s) : t[i] = s[i]
      /\ t[Len(s) + 1] = k
  OBVIOUS
<1>2. Len(s) + 1 \in DOMAIN t /\ \A i \in DOMAIN s : i \in DOMAIN t
  BY <1>1
<1> QED BY <1>1, <1>2 DEF Range

LEMMA RangeOfEmpty == Range(<<>>) = {}
BY DEF Range

LEMMA ListingInit == Init => IInv
<1> SUFFICES ASSUME Init PROVE IInv
  OBVIOUS
<1>1. objects = <<>> /\ Len(objects) = 0
  BY DEF Init
<1>2. objects \in Seq(Matching)
  BY <1>1
<1>3. ListingTypeOK
  BY <1>1, <1>2, Bounds DEF Init, ListingTypeOK
<1>4. PageOpen /\ Upwards
  BY <1>1 DEF Init, PageOpen, Upwards
<1>5. Kept
  BY ListedKeys DEF Init, Kept
<1> QED BY <1>3, <1>4, <1>5 DEF IInv

LEMMA ChangeKeeps ==
  ASSUME IInv, NEW k \in Keys, Change(k)
  PROVE  IInv'
<1>1. ListingTypeOK'
  BY Bounds DEF IInv, ListingTypeOK, Change, page, client
<1>2. PageOpen' /\ Upwards'
  BY DEF IInv, PageOpen, Upwards, Change, page, client
<1>3. Kept'
  BY DEF IInv, Kept, Accounted, Change, page, client
<1> QED BY <1>1, <1>2, <1>3 DEF IInv

LEMMA RequestKeeps == ASSUME IInv, Request PROVE IInv'
<1>1. ListingTypeOK'
  BY DEF IInv, ListingTypeOK, Request, client
<1>2. PageOpen' /\ Upwards'
  BY DEF IInv, PageOpen, Upwards, Request, client
<1>3. Kept'
  BY DEF IInv, ListingTypeOK, Kept, Accounted, Request, client
<1> QED BY <1>1, <1>2, <1>3 DEF IInv

(* An entry that is there all the time is found when the walk comes to it. *)
LEMMA VisitKeeps == ASSUME IInv, NEW k \in Keys, Visit(k) PROVE IInv'
<1>1. ListingTypeOK'
  BY DEF IInv, ListingTypeOK, Visit, client
<1>2. PageOpen' /\ Upwards'
  BY DEF IInv, PageOpen, Upwards, Visit, client
<1>3. Kept'
  BY DEF IInv, ListingTypeOK, Kept, Accounted, Visit, client
<1> QED BY <1>1, <1>2, <1>3 DEF IInv

(* What a failing read passes over is remembered.                          *)
LEMMA ReadFailsKeeps == ASSUME IInv, ReadFails PROVE IInv'
<1>1. ListingTypeOK'
  BY DEF IInv, ListingTypeOK, ReadFails, client
<1>2. PageOpen' /\ Upwards'
  BY DEF IInv, PageOpen, Upwards, ReadFails, client
<1>3. unread \cup unreadable \cup found \subseteq unread' \cup unreadable' \cup found'
  BY DEF ReadFails
<1>4. Kept'
  BY <1>3 DEF IInv, Kept, Accounted, ReadFails, client
<1> QED BY <1>1, <1>2, <1>4 DEF IInv

(* Only what the client has already is left out of the loop.               *)
LEMMA FilterKeeps == ASSUME IInv, Filter PROVE IInv'
<1>1. ListingTypeOK'
  BY DEF IInv, ListingTypeOK, Filter, AfterToken, client
<1>2. objects = <<>> /\ common_prefixes = {} /\ Len(objects) = 0
  BY DEF IInv, PageOpen, Filter
<1>3. PageOpen' /\ Upwards'
  BY <1>2 DEF IInv, PageOpen, Upwards, Filter, AfterToken, client
<1>4. Kept'
  <2> SUFFICES ASSUME NEW k \in (lasting \cap Matching) \ Hidden
               PROVE  k \in found' \/ Accounted(k)' \/ (k \in unreadable /\ start < k)
    BY DEF Filter, Kept, client
  <2>1. k \in unreadable \cup found /\ (k <= start => Accounted(k))
    BY DEF IInv, Kept, Filter
  <2>0. Keys \subseteq Nat /\ Matching \subseteq Keys
    BY ListedKeys
  <2>2. k \in Nat /\ start \in Nat
    BY <2>0 DEF IInv, ListingTypeOK
  <2>3. Accounted(k) => Accounted(k)'
    BY DEF Accounted, Filter, client
  <2> QED BY <2>1, <2>2, <2>3 DEF Filter, AfterToken
<1> QED BY <1>1, <1>3, <1>4 DEF IInv

(* The loop takes the least of what it has, and drops only what is gone.   *)
LEMMA LookKeeps == ASSUME IInv, Look PROVE IInv'
<1> DEFINE k == Min(found)
<1>1. /\ phase = "scan" /\ found \subseteq Matching /\ found # {}
      /\ UNCHANGED <<stored, changes, phase, unread, unreadable, client, lasting>>
  BY DEF IInv, Upwards, Look, Ended
<1>2. found \subseteq Nat /\ Matching \subseteq Nat /\ start \in Nat
  BY <1>1, ListedKeys DEF IInv, ListingTypeOK
<1>3. k \in found /\ \A y \in found : k <= y
  BY <1>1, <1>2, Smallest
<1>4. /\ found' = found \ {k}
      /\ \/ /\ Group[k] # NONE /\ common_prefixes' = common_prefixes \cup {Group[k]}
            /\ objects' = objects
         \/ /\ Group[k] = NONE /\ common_prefixes' = common_prefixes /\ k \notin stored
            /\ objects' = objects
         \/ /\ Group[k] = NONE /\ common_prefixes' = common_prefixes /\ k \in stored
            /\ objects' = Append(objects, k)
  BY DEF Look
<1>5. objects \in Seq(Matching) /\ Len(objects) <= MaxKeys /\ Len(objects) \in Nat
  BY OnPage DEF IInv, ListingTypeOK
<1> HIDE DEF k
<1>6. Group[k] = NONE => Len(objects) < MaxKeys
  <2>1. ~Ended
    BY DEF Look
  <2> QED BY <2>1, <1>1, <1>5, Bounds DEF Ended, Full, k
<1>7. objects' = Append(objects, k) =>
        /\ objects' \in Seq(Matching) /\ Len(objects') = Len(objects) + 1
        /\ \A i \in 1..Len(objects) : objects'[i] = objects[i]
        /\ objects'[Len(objects) + 1] = k
  BY <1>1, <1>3, <1>5
<1>8. ListingTypeOK'
  <2>1. objects' \in Seq(Matching) /\ Len(objects') <= MaxKeys
    BY <1>4, <1>5, <1>6, <1>7, Bounds
  <2>2. common_prefixes' \in SUBSET {Group[x] : x \in Matching}
    BY <1>1, <1>3, <1>4 DEF IInv, ListingTypeOK
  <2> QED BY <1>1, <1>4, <2>1, <2>2 DEF IInv, ListingTypeOK, client
<1>9. PageOpen'
  BY <1>1 DEF PageOpen
<1>10. Upwards'
  <2>1. CASE objects' = objects
    BY <1>1, <1>4, <2>1 DEF IInv, Upwards, client
  <2>2. CASE objects' = Append(objects, k)
    <3>1. /\ \A i \in 1..Len(objects) : start < objects[i] /\ objects[i] < k
          /\ \A i, j \in 1..Len(objects) : i < j => objects[i] < objects[j]
          /\ start < k /\ (\A x \in found \ {k} : start < x /\ k < x)
      BY <1>1, <1>2, <1>3 DEF IInv, Upwards
    <3>2. \A i \in 1..(Len(objects) + 1) : i \in 1..Len(objects) \/ i = Len(objects) + 1
      BY <1>5
    <3>3. \A i \in 1..Len(objects'), x \in found' : start < objects'[i] /\ objects'[i] < x
      BY <1>1, <1>2, <1>3, <1>4, <1>7, <2>2, <3>1, <3>2 DEF IInv, Upwards
    <3>4. \A i \in 1..Len(objects') : start < objects'[i]
      BY <1>7, <2>2, <3>1, <3>2
    <3>5. \A i, j \in 1..Len(objects') : i < j => objects'[i] < objects'[j]
      BY <1>5, <1>7, <2>2, <3>1, <3>2
    <3> QED BY <1>1, <1>4, <3>3, <3>4, <3>5 DEF IInv, Upwards, client
  <2> QED BY <1>4, <2>1, <2>2
<1>11. Kept'
  <2> SUFFICES ASSUME NEW x \in (lasting \cap Matching) \ Hidden
               PROVE  x \in found' \/ Accounted(x)' \/ (x \in unreadable /\ start < x)
    BY <1>1 DEF Kept, client
  <2>1. x \in found \/ Accounted(x) \/ (x \in unreadable /\ start < x)
    BY <1>1 DEF IInv, Kept
  <2>2. Range(objects) \subseteq Range(objects')
    BY <1>1, <1>3, <1>4, <1>5, RangeOfAppend
  <2>3. Accounted(x) => Accounted(x)'
    BY <1>1, <1>4, <2>2 DEF Accounted, client
  <2>4. CASE x = k /\ Group[k] = NONE
    <3>1. k \in stored
      BY <2>4 DEF IInv, ListingTypeOK
    <3>2. objects' = Append(objects, k)
      BY <1>4, <2>4, <3>1
    <3>3. k \in Range(objects')
      BY <1>1, <1>3, <1>5, <3>2, RangeOfAppend
    <3> QED BY <2>4, <3>3 DEF Accounted
  <2>5. CASE x = k /\ Group[k] # NONE
    BY <1>4, <2>5 DEF Accounted
  <2> QED BY <1>4, <2>1, <2>3, <2>4, <2>5
<1> QED BY <1>8, <1>9, <1>10, <1>11 DEF IInv

(* The token is the last object of the page: what is left lies behind it,  *)
(* and what was unreadable before it no longer counts.                     *)
LEMMA AnswerKeeps == ASSUME IInv, Answer PROVE IInv'
<1>1. /\ phase = "scan" /\ Ended /\ listed' = listed \cup Range(objects)
      /\ covered' = covered \cup common_prefixes
      /\ objects' = <<>> /\ common_prefixes' = {}
      /\ found' = {} /\ unreadable' = {} /\ lasting' \subseteq lasting
      /\ \A x \in lasting' : x \in unreadable /\ start < x => Full /\ ~(x <= Token)
      /\ UNCHANGED <<stored, changes, unread>>
  BY DEF Answer, AfterToken
<1>2. found \subseteq Matching /\ Matching \subseteq Nat /\ start \in Nat
  BY <1>1, ListedKeys DEF IInv, ListingTypeOK, Upwards
<1>3. objects' \in Seq(Matching) /\ Len(objects') = 0 /\ Range(objects') = {}
  BY <1>1, RangeOfEmpty
<1>4. Range(objects) = {objects[i] : i \in 1..Len(objects)} /\ Range(objects) \subseteq Matching
  BY OnPage DEF IInv
<1>5. \A x \in (lasting \cap Matching) \ Hidden :
        x \in found \/ Accounted(x) \/ (x \in unreadable /\ start < x)
  BY <1>1 DEF IInv, Kept
<1>6. \A x : Accounted(x) => Accounted(x)'
  BY <1>1 DEF Accounted
<1>9. objects' \in Seq(Matching) /\ Len(objects') <= MaxKeys
  BY <1>3, Bounds
<1>10. listed' \subseteq Matching
       /\ {common_prefixes', covered'} \subseteq SUBSET {Group[x] : x \in Matching}
  BY <1>1, <1>4 DEF IInv, ListingTypeOK
<1>7. CASE Full
  <2>1. phase' = "ask" /\ start' = Last(objects)
    BY <1>7 DEF Answer, Token
  <2>2. Len(objects) \in Nat \ {0}
    BY <1>7, OnPage, Bounds DEF IInv, Full
  <2>3. /\ start' = objects[Len(objects)] /\ start' \in Matching
        /\ start < start'
    BY <2>1, <2>2, OnPage DEF IInv, Last, Upwards
  <2>4. \A x \in found : start' < x
    BY <1>1, <2>2, <2>3 DEF IInv, Upwards
  <2>5. \A x \in Range(objects) : x <= start'
    <3> SUFFICES ASSUME NEW i \in 1..Len(objects) PROVE objects[i] <= start'
      BY <1>4
    <3>1. objects[i] \in Nat /\ start' \in Nat
      BY <1>2, <1>4, <2>3
    <3>2. i < Len(objects) => objects[i] < start'
      BY <2>2, <2>3 DEF IInv, Upwards
    <3>3. i < Len(objects) \/ i = Len(objects)
      BY <2>2
    <3> QED BY <2>3, <3>1, <3>2, <3>3
  <2>6. \A x \in listed : x <= start'
    <3> SUFFICES ASSUME NEW x \in listed PROVE x <= start'
      OBVIOUS
    <3>1. x \in Nat /\ start' \in Nat
      BY <1>2, <2>3 DEF IInv, ListingTypeOK
    <3>2. x <= start
      BY <1>1 DEF IInv, Upwards
    <3> QED BY <1>2, <2>3, <3>1, <3>2
  <2>7. ListingTypeOK'
    BY <1>1, <1>9, <1>10, <2>1, <2>3, ListedKeys DEF IInv, ListingTypeOK
  <2>8. PageOpen' /\ Upwards'
    BY <1>1, <1>3, <2>1, <2>5, <2>6 DEF PageOpen, Upwards
  <2>9. Kept'
    <3> SUFFICES ASSUME NEW x \in (lasting' \cap Matching) \ Hidden, x <= start'
                 PROVE  Accounted(x)'
      BY <2>1 DEF Kept
    <3>1. x \in Nat /\ start' \in Nat
      BY <1>2, <2>3
    <3>2. x \notin found
      BY <2>4, <3>1
    <3>3. ~(x \in unreadable /\ start < x)
      BY <1>1, <2>1 DEF Token
    <3> QED BY <1>1, <1>5, <1>6, <3>2, <3>3
  <2> QED BY <2>7, <2>8, <2>9 DEF IInv
<1>8. CASE ~Full
  <2>1. phase' = "done" /\ start' = start
    BY <1>8 DEF Answer
  <2>0. found = {}
    BY <1>1, <1>8 DEF Ended
  <2>2. ListingTypeOK'
    BY <1>1, <1>9, <1>10, <2>1 DEF IInv, ListingTypeOK
  <2>3. PageOpen' /\ Upwards'
    BY <1>1, <1>3, <2>1 DEF PageOpen, Upwards
  <2>4. Kept'
    <3> SUFFICES ASSUME NEW x \in (lasting' \cap Matching) \ Hidden
                 PROVE  Accounted(x)'
      BY <2>1 DEF Kept
    <3>1. x \notin found /\ ~(x \in unreadable /\ start < x)
      BY <1>1, <1>8, <2>0
    <3> QED BY <1>1, <1>5, <1>6, <3>1
  <2> QED BY <2>2, <2>3, <2>4 DEF IInv
<1> QED BY <1>7, <1>8

LEMMA StepKeeps == IInv /\ [Next]_vars => IInv'
<1> SUFFICES ASSUME IInv, [Next]_vars PROVE IInv'
  OBVIOUS
<1>1. CASE UNCHANGED vars
  BY <1>1 DEF IInv, ListingTypeOK, PageOpen, Upwards, Kept, Accounted, vars, page, client
<1> QED BY <1>1, ChangeKeeps, RequestKeeps, VisitKeeps, ReadFailsKeeps, FilterKeeps, LookKeeps,
        AnswerKeeps DEF Next, Server

LEMMA Invariant == Spec => []IInv
BY StepKeeps, ListingInit, PTL DEF Spec

-----------------------------------------------------------------------------
(* Pages never hold more than was asked for, nor keys that do not match.   *)
THEOREM ListingTypeCorrect == Spec => []ListingTypeOK
<1>1. IInv => ListingTypeOK
  BY DEF IInv
<1> QED BY <1>1, Invariant, PTL

(* No key comes twice or out of order over all the pages.                  *)
THEOREM OrderCorrect == Spec => []ListedInOrder
<1>1. IInv => ListedInOrder
  <2> SUFFICES ASSUME IInv PROVE ListedInOrder
    OBVIOUS
  <2>1. Len(objects) \in Nat /\ DOMAIN objects = 1..Len(objects)
    BY OnPage DEF IInv
  <2>2. \A i \in 1..(Len(objects) - 1) : objects[i] < objects[i + 1]
    <3>1. \A i \in 1..(Len(objects) - 1) : i \in 1..Len(objects) /\ i + 1 \in 1..Len(objects)
                                           /\ i < i + 1
      BY <2>1
    <3> QED BY <3>1 DEF IInv, Upwards
  <2>3. \A i \in DOMAIN objects, k \in listed : k < objects[i]
    <3>1. listed \subseteq Nat /\ start \in Nat
      <4>1. Keys \subseteq Nat /\ Matching \subseteq Keys
        BY ListedKeys
      <4>2. listed \subseteq Matching /\ start \in Keys \cup {0}
        BY DEF IInv, ListingTypeOK
      <4> QED BY <4>1, <4>2
    <3>3. \A i \in 1..Len(objects) : objects[i] \in Nat
      BY OnPage, ListedKeys DEF IInv
    <3>0. \A i \in 1..Len(objects) : start < objects[i]
      BY DEF IInv, Upwards
    <3>2. phase = "done" => Len(objects) = 0
      BY DEF IInv, PageOpen
    <3> QED BY <2>1, <3>0, <3>1, <3>2, <3>3 DEF IInv, Upwards
  <2> QED BY <2>2, <2>3 DEF ListedInOrder
<1> QED BY <1>1, Invariant, PTL

(* Whatever was there all the time, is not hidden, and was not passed over *)
(* by a failing read is listed when the pages have ended.                  *)
THEOREM NothingMissedCorrect == Spec => []NothingMissed
<1>1. IInv => NothingMissed
  BY RangeOfEmpty DEF IInv, PageOpen, Kept, Accounted, NothingMissed
<1> QED BY <1>1, Invariant, PTL

(* Every page that says there is more moves the client on: the safety half *)
(* of ListingEnds.  A token lies behind every earlier one and matches, so  *)
(* there are no more pages than keys, whatever the writers do.             *)
THEOREM TokenCorrect == Spec => TokenMovesOn
<1>1. ASSUME IInv, [Next]_vars, phase = "scan", phase' = "ask"
      PROVE  start' > start /\ start' \in Matching
  <2>1. Answer
    BY <1>1 DEF Next, Server, Change, Request, Visit, ReadFails, Filter, Look, vars
  <2>2. Full /\ start' = Last(objects)
    BY <1>1, <2>1 DEF Answer, Token
  <2>3. Len(objects) \in Nat \ {0} /\ Len(objects) \in 1..Len(objects)
    BY <1>1, <2>2, OnPage, Bounds DEF IInv, Full
  <2>4. start' = objects[Len(objects)]
    BY <2>2, <2>3 DEF Last
  <2>5. start < start' /\ start' \in Matching
    BY <1>1, <2>3, <2>4, OnPage DEF IInv, Upwards
  <2>6. start \in Nat /\ start' \in Nat
    BY <1>1, <2>5, ListedKeys DEF IInv, ListingTypeOK
  <2> QED BY <2>5, <2>6
<1>2. IInv /\ [Next]_vars
        => [phase = "scan" /\ phase' = "ask" => start' > start /\ start' \in Matching]_vars
  BY <1>1
<1> QED BY <1>2, Invariant, PTL DEF Spec, TokenMovesOn
=============================================================================
