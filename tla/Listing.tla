------------------------------- MODULE Listing -------------------------------
(***************************************************************************)
(* list_objects (storage/mod.rs) as a client uses it that follows the      *)
(* continuation tokens (s3/bucket.rs), while writers store and delete      *)
(* objects.  Keys are numbered in the order in which strings sort; those   *)
(* with a common prefix are neighbours.                                    *)
(***************************************************************************)
EXTENDS Naturals, FiniteSetsExt, SequencesExt

CONSTANTS
  Keys,      \* a set of positive numbers
  Matching,  \* the keys that start with the prefix asked for
  Hidden,    \* keys with a component that starts with a dot
  Folders,   \* for each directory, the set of keys below it
  Group,     \* [Keys -> the common prefix a key is rolled up into, or NONE]
  MaxKeys,   \* max-keys of the request
  Changes,   \* how many objects the writers store or delete
  NONE

ASSUME ListedKeys == Keys \subseteq Nat \ {0} /\ Matching \subseteq Keys /\ Hidden \subseteq Keys
                   /\ Folders \subseteq SUBSET Keys
ASSUME Groups == \A i, j, k \in Keys :
                   i < j /\ j < k /\ Group[i] = Group[k] /\ Group[i] # NONE
                     => Group[j] = Group[i]
ASSUME Bounds == MaxKeys \in Nat \ {0} /\ Changes \in Nat

VARIABLES
  stored,    \* the objects that exist
  changes,   \* how many were stored or deleted since the start
  phase,     \* "ask", "walk", "scan" or "done"
  start,     \* the continuation token, 0 if there is none
  unread,    \* keys whose directory entry the walk has not come to
  unreadable,\* keys that this walk has passed over since a read failed
  found,     \* all_keys, and later those the loop has still to look at
  objects, common_prefixes,  \* the page
  listed, covered,           \* what the client has got so far
  lasting    \* history: objects stored all the time since the first request,
             \* without those whose page could not be made of the whole bucket

page == <<unread, unreadable, found, objects, common_prefixes>>
client == <<start, listed, covered>>
vars == <<stored, changes, phase, page, client, lasting>>

Init ==
  /\ stored \in SUBSET Keys
  /\ lasting = stored
  /\ changes = 0 /\ phase = "ask" /\ start = 0
  /\ unread = {} /\ unreadable = {} /\ found = {} /\ objects = <<>> /\ common_prefixes = {}
  /\ listed = {} /\ covered = {}

(* A put, or a delete, of another client.                                  *)
Change(k) ==
  /\ changes < Changes /\ phase # "done"
  /\ changes' = changes + 1
  /\ stored' = IF k \in stored THEN stored \ {k} ELSE stored \cup {k}
  /\ lasting' = lasting \ {k}
  /\ UNCHANGED <<phase, page, client>>

Request ==
  /\ phase = "ask"
  /\ unread' = Keys
  /\ phase' = "walk"
  /\ UNCHANGED <<stored, changes, unreadable, found, objects, common_prefixes, client,
                 lasting>>

(* walk_dir reads directories entry by entry, in any order, and passes     *)
(* over every entry whose name starts with a dot, at any depth.            *)
Visit(k) ==
  /\ phase = "walk" /\ k \in unread
  /\ unread' = unread \ {k}
  /\ found' = found \cup (({k} \cap stored) \ Hidden)
  /\ UNCHANGED <<stored, changes, phase, unreadable, objects, common_prefixes, client,
                 lasting>>

(* read_dir or next_entry fails: what is left of that directory is passed  *)
(* over and nobody is told.                                                *)
ReadFails ==
  /\ phase = "walk"
  /\ \E D \in Folders :
        /\ D \cap unread # {}
        /\ unread' = unread \ D
        /\ unreadable' = unreadable \cup (D \cap unread)
  /\ UNCHANGED <<stored, changes, phase, found, objects, common_prefixes, client, lasting>>

(* Mutant: the token itself is listed again.                               *)
FromToken(keys) == {k \in keys : k >= start}

AfterToken(keys) == {k \in keys : k > start}

(* Sorted, filtered by the prefix, from the start position on.             *)
Filter ==
  /\ phase = "walk" /\ unread = {}
  /\ found' = AfterToken(found \cap Matching)
  /\ phase' = "scan"
  /\ UNCHANGED <<stored, changes, unread, unreadable, objects, common_prefixes, client, lasting>>

(* Mutant: the page is full one object late.                               *)
FullLate == Len(objects) > MaxKeys

Full == Len(objects) >= MaxKeys
Ended == found # {} => Group[Min(found)] = NONE /\ Full

(* One turn of the loop.  A key whose metadata and file have gone since the*)
(* walk is left out.                                                       *)
Look ==
  /\ phase = "scan" /\ ~Ended
  /\ LET k == Min(found) IN
       /\ found' = found \ {k}
       /\ \/ /\ Group[k] # NONE
             /\ common_prefixes' = common_prefixes \cup {Group[k]}
             /\ UNCHANGED objects
          \/ /\ Group[k] = NONE
             /\ objects' = IF k \in stored THEN Append(objects, k) ELSE objects
             /\ UNCHANGED common_prefixes
  /\ UNCHANGED <<stored, changes, phase, unread, unreadable, client, lasting>>

(* Mutant: the token is the key that comes next.                           *)
NextKey == IF found = {} THEN Last(objects) ELSE Min(found)

Token == Last(objects)

(* Mutant: the client is not told where the page ended.                    *)
AnswerWithoutToken ==
  /\ phase = "scan" /\ Ended
  /\ listed' = listed \cup Range(objects)
  /\ covered' = covered \cup common_prefixes
  /\ phase' = IF Full THEN "ask" ELSE "done"
  /\ unreadable' = {} /\ found' = {} /\ objects' = <<>> /\ common_prefixes' = {}
  /\ UNCHANGED <<stored, changes, start, unread, lasting>>

(* The answer; the client asks again while it says IsTruncated.            *)
Answer ==
  /\ phase = "scan" /\ Ended
  /\ listed' = listed \cup Range(objects)
  /\ covered' = covered \cup common_prefixes
  /\ IF Full THEN start' = Token /\ phase' = "ask" ELSE phase' = "done" /\ UNCHANGED start
  /\ unreadable' = {} /\ found' = {} /\ objects' = <<>> /\ common_prefixes' = {}
  /\ lasting' = lasting \ {k \in AfterToken(unreadable) : Full => k <= Token}
  /\ UNCHANGED <<stored, changes, unread>>

Server == Request \/ Filter \/ Look \/ Answer \/ \E k \in Keys : Visit(k)
Next == Server \/ ReadFails \/ \E k \in Keys : Change(k)

(* A client that goes on asking, and a handler that the runtime polls.     *)
Spec == Init /\ [][Next]_vars /\ WF_vars(Server)

-----------------------------------------------------------------------------
ListingTypeOK ==
  /\ stored \subseteq Keys /\ lasting \subseteq stored
  /\ unread \subseteq Keys /\ unreadable \subseteq Keys /\ found \subseteq Keys
  /\ changes \in 0..Changes
  /\ phase \in {"ask", "walk", "scan", "done"}
  /\ start \in Keys \cup {0}
  /\ objects \in Seq(Matching) /\ Len(objects) <= MaxKeys
  /\ listed \subseteq Matching
  /\ {common_prefixes, covered} \subseteq SUBSET {Group[k] : k \in Matching}

(* Over all pages, the client gets every key at most once, in order,       *)
(* whatever is stored and deleted between and during the requests.         *)
ListedInOrder ==
  /\ \A i \in 1..(Len(objects) - 1) : objects[i] < objects[i + 1]
  /\ \A i \in DOMAIN objects, k \in listed : k < objects[i]

(* When the last page has come, an object that was there all the time has  *)
(* been listed, or its common prefix has, unless a component of its key    *)
(* starts with a dot, or a read failed in the very walk that the page it   *)
(* belongs on was made from: nothing a writer does, and no failure while   *)
(* another page is made, hides it.                                         *)
NothingMissed ==
  phase = "done" =>
    \A k \in (lasting \cap Matching) \ Hidden :
      IF Group[k] = NONE THEN k \in listed ELSE Group[k] \in covered

(* An answer that says IsTruncated has a token behind the one it was asked  *)
(* with, whatever was stored and deleted since: no client goes in circles. *)
TokenMovesOn ==
  [][ phase = "scan" /\ phase' = "ask" => start' > start /\ start' \in Matching ]_vars

(* The pages come to an end, as a client that counts on IsTruncated needs: *)
(* a page that says so moves the token on.                                 *)
ListingEnds == <>(phase = "done")
=============================================================================
