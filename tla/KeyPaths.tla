------------------------------ MODULE KeyPaths ------------------------------
(***************************************************************************)
(* How an object key travels from a client to a store: percent-encoding in *)
(* the URL, the canonical URI that both sides sign (auth.rs, client.rs)    *)
(* and the decoding of the path (object.rs).  Of the bytes of a key only   *)
(* what the encodings tell apart is kept: which kinds of bytes its name    *)
(* has, how often it has been percent-encoded, and what is before a "?".   *)
(***************************************************************************)
EXTENDS Naturals

CONSTANTS
  Names,     \* names before any encoding
  Reserved,  \* those with a byte that uri_encode escapes, such as "+" or " "
  Escaped,   \* those with a byte that the URL type escapes too, such as " "
  Queried,   \* those with "?" and what passes for a query, such as "a?b=c"
  Before     \* [Queried -> the key that is left of the "?"]

ASSUME NameKinds == Escaped \cup Queried \subseteq Reserved /\ Reserved \subseteq Names

AllKeys == [name : Names, level : Nat]

(* A name that needs no encoding has only one form.                        *)
WellFormedKey(k) == k \in AllKeys /\ (k.name \notin Reserved => k.level = 0)

ASSUME Queries ==
  /\ Before \in [Queried -> AllKeys]
  /\ \A n \in Queried : WellFormedKey(Before[n]) /\ Before[n].name \notin Queried

(* uri_encode escapes "%" too: what is encoded already is encoded again.   *)
Encode(k) == IF k.name \in Reserved THEN [k EXCEPT !.level = k.level + 1] ELSE k
Decode(k) == IF k.level > 0 THEN [k EXCEPT !.level = k.level - 1] ELSE k

(* The URL parser of the HTTP client leaves "%" and what is allowed in a   *)
(* path alone.                                                             *)
InUrl(k) == IF k.name \in Escaped /\ k.level = 0 THEN Encode(k) ELSE k

(* signed_request takes what follows a "?" for the query, as the URL type  *)
(* does; verify_request comes to the same query, and put_object and        *)
(* delete_object ignore it.                                                *)
BeforeQuery(k) == IF k.name \in Queried /\ k.level = 0 THEN Before[k.name] ELSE k

(* A request on a key: the path of its URL, and the canonical URI signed.  *)
SyncRequest(k) ==
  [path |-> InUrl(BeforeQuery(k)), canonical |-> Encode(BeforeQuery(k))]
SdkRequest(k) == [path |-> Encode(k), canonical |-> Encode(k)]

(* verify_request and verify_presigned encode the path as it came in.      *)
Verified(q) == q.canonical = Encode(q.path)

(* The router decodes the path, and normalize_key does so again.           *)
StoredAs(q) == Decode(Decode(q.path))

(* A key that an upstream stores under the same name.                      *)
Travels(k) == Verified(SyncRequest(k)) /\ StoredAs(SyncRequest(k)) = k
=============================================================================
