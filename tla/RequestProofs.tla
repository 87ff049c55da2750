---------------------------- MODULE RequestProofs ----------------------------
(***************************************************************************)
(* What single requests do, for every key and every number: which keys     *)
(* keep their name on the way upstream, and which bytes a range answers.   *)
(***************************************************************************)
EXTENDS KeyPaths, Ranges, TLAPS

(* A key is signed as the upstream verifies it, and stored there under its *)
(* own name, just when it holds no percent-encoding, no byte that the URL  *)
(* type encodes and no query (sync/client.rs, signed_request; auth.rs,     *)
(* verify_request; s3/object.rs, normalize_key).                           *)
THEOREM TravelsExactly ==
  ASSUME NEW k \in AllKeys, WellFormedKey(k)
  PROVE  Travels(k) <=> k.level = 0 /\ k.name \notin Escaped \cup Queried
<1> USE DEF AllKeys
<1>1. k = [name |-> k.name, level |-> k.level] /\ k.level \in Nat
  OBVIOUS
<1>2. CASE k.name \in Queried /\ k.level = 0
  <2> DEFINE c == Before[k.name]
  <2>1. c \in AllKeys /\ c.name \notin Queried
    BY <1>2, Queries
  <2>2. \A j \in AllKeys : /\ Encode(j) \in AllKeys /\ Encode(j).name = j.name
                           /\ Decode(j) \in AllKeys /\ Decode(j).name = j.name
    BY DEF Encode, Decode
  <2>3. SyncRequest(k).path = InUrl(c)
    BY <1>2 DEF SyncRequest, BeforeQuery
  <2>4. InUrl(c) \in AllKeys /\ InUrl(c).name = c.name
    BY <2>1, <2>2 DEF InUrl
  <2>5. StoredAs(SyncRequest(k)).name = c.name
    BY <2>2, <2>3, <2>4 DEF StoredAs
  <2> QED BY <1>2, <2>1, <2>5 DEF Travels
<1>3. CASE ~(k.name \in Queried /\ k.level = 0) /\ k.name \notin Reserved
  <2>1. k.level = 0 /\ k.name \notin Escaped \cup Queried
    BY <1>3, NameKinds DEF WellFormedKey
  <2>2. SyncRequest(k) = [path |-> k, canonical |-> k]
    BY <1>3, <2>1 DEF SyncRequest, BeforeQuery, InUrl, Encode
  <2> QED BY <1>3, <2>1, <2>2 DEF Travels, Verified, StoredAs, Encode, Decode
<1>4. CASE ~(k.name \in Queried /\ k.level = 0) /\ k.name \in Reserved
  <2>1. \A j \in AllKeys : j.name = k.name => Encode(j) = [j EXCEPT !.level = j.level + 1]
    BY <1>4 DEF Encode
  <2>2. BeforeQuery(k) = k
    BY <1>4 DEF BeforeQuery
  <2>3. CASE k.name \in Escaped /\ k.level = 0
    <3>1. SyncRequest(k) = [path |-> Encode(k), canonical |-> Encode(k)]
      BY <2>2, <2>3 DEF SyncRequest, InUrl
    <3>2. Encode(k) = [name |-> k.name, level |-> 1]
      BY <1>1, <2>1, <2>3
    <3>3. Encode(Encode(k)) = [name |-> k.name, level |-> 2]
      BY <2>1, <3>2
    <3>4. ~Verified(SyncRequest(k))
      <4>1. Encode(k).level = 1 /\ Encode(Encode(k)).level = 2
        BY <3>2, <3>3
      <4> QED BY <3>1, <4>1 DEF Verified
    <3> QED BY <2>3, <3>4 DEF Travels
  <2>4. CASE ~(k.name \in Escaped /\ k.level = 0)
    <3>1. SyncRequest(k) = [path |-> k, canonical |-> Encode(k)]
      BY <2>2, <2>4 DEF SyncRequest, InUrl
    <3>2. Verified(SyncRequest(k)) /\ StoredAs(SyncRequest(k)) = Decode(Decode(k))
      BY <3>1 DEF Verified, StoredAs
    <3>3. k.level = 0 => Decode(Decode(k)) = k
      BY DEF Decode
    <3>4. k.level > 0 => Decode(Decode(k)).level < k.level
      BY <1>1 DEF Decode
    <3> QED BY <1>1, <1>4, <2>4, <3>2, <3>3, <3>4 DEF Travels
  <2> QED BY <2>3, <2>4
<1> QED BY <1>2, <1>3, <1>4

-----------------------------------------------------------------------------
(* The one range that a header stands for is sliced.                       *)
LEMMA OneRange ==
  ASSUME NEW a, NEW b, NEW h, NEW total, ParseRange(h, total) = Some(a, b)
  PROVE  GetObject(h, total) =
           IF SlicePanics(a, b, total) THEN [status |-> "panic", bytes |-> {}]
           ELSE [status |-> "partial", bytes |-> Slice(a, b)]
<1>1. Some(a, b) # None /\ Only(Some(a, b)) = <<a, b>>
  BY DEF Some, None, Only
<1> QED BY <1>1 DEF GetObject

(* The handler never panics on an object that is not empty, and answers    *)
(* exactly the bytes asked for (s3/object.rs, parse_range and get_object). *)
THEOREM RangesCorrect == RangesExact
<1> SUFFICES ASSUME NEW h \in Headers, NEW total \in Numbers, total # 0
             PROVE  RangeIsExact(h, total)
  BY DEF RangesExact
<1>1. Word \in Nat /\ total \in Nat /\ 0 < total /\ total < Word
  BY WordIsNat DEF Numbers
<1>2. Decremented(total) = total - 1
  BY <1>1 DEF Decremented
<1>3. CASE h.form = "suffix"
  <2> DEFINE start == SaturatingSub(total, h.n)
  <2>1. h.n \in Nat
    BY <1>3, WordIsNat DEF Headers, Numbers
  <2>2. start \in Nat /\ start <= total /\ \A i \in Nat : total - i <= h.n <=> start <= i
    BY <1>1, <2>1 DEF SaturatingSub
  <2>3. ~SlicePanics(start, total - 1, total)
    BY <1>1, <2>2 DEF SlicePanics
  <2>4. ParseRange(h, total) = Some(start, total - 1)
    BY <1>2, <1>3 DEF ParseRange
  <2>5. Slice(start, total - 1) = Wanted(h, total)
    BY <1>1, <1>3, <2>2 DEF Slice, Wanted
  <2> QED BY <1>3, <2>3, <2>4, <2>5, OneRange DEF RangeIsExact
<1>4. CASE h.form = "from"
  <2>1. h.first \in Nat
    BY <1>4, WordIsNat DEF Headers, Numbers
  <2>2. CASE h.first < total
    <3>1. ParseRange(h, total) = Some(h.first, total - 1)
      BY <1>2, <1>4, <2>2 DEF ParseRange
    <3>2. ~SlicePanics(h.first, total - 1, total)
      BY <1>1, <2>1, <2>2 DEF SlicePanics
    <3>3. Slice(h.first, total - 1) = Wanted(h, total) /\ h.first \in Wanted(h, total)
      BY <1>1, <1>4, <2>1, <2>2 DEF Slice, Wanted
    <3> QED BY <3>1, <3>2, <3>3, OneRange DEF RangeIsExact
  <2>3. CASE ~(h.first < total)
    <3>1. ParseRange(h, total) = None
      BY <1>4, <2>3 DEF ParseRange
    <3>2. Wanted(h, total) = {}
      BY <1>1, <1>4, <2>1, <2>3 DEF Wanted
    <3> QED BY <1>4, <3>1, <3>2 DEF RangeIsExact, GetObject
  <2> QED BY <2>2, <2>3
<1>5. CASE h.form = "between"
  <2> DEFINE end == Cut(h.last, total)
  <2>1. h.first \in Nat /\ h.last \in Nat
    BY <1>5, WordIsNat DEF Headers, Numbers
  <2>2. end \in Nat /\ end < total /\ \A i \in 0..(total - 1) : i <= end <=> i <= h.last
    BY <1>1, <1>2, <2>1 DEF Cut
  <2> HIDE DEF end
  <2>3. CASE h.first <= end
    <3>1. ParseRange(h, total) = Some(h.first, end)
      BY <1>5, <2>3 DEF ParseRange, end
    <3>2. ~SlicePanics(h.first, end, total)
      BY <1>1, <2>1, <2>2, <2>3 DEF SlicePanics
    <3>3. Slice(h.first, end) = Wanted(h, total) /\ h.first \in Wanted(h, total)
      BY <1>1, <1>5, <2>1, <2>2, <2>3 DEF Slice, Wanted
    <3> QED BY <3>1, <3>2, <3>3, OneRange DEF RangeIsExact
  <2>4. CASE ~(h.first <= end)
    <3>1. ParseRange(h, total) = None
      BY <1>5, <2>4 DEF ParseRange, end
    <3>2. Wanted(h, total) = {}
      BY <1>1, <1>5, <2>1, <2>2, <2>4 DEF Wanted
    <3> QED BY <1>5, <3>1, <3>2 DEF RangeIsExact, GetObject
  <2> QED BY <2>3, <2>4
<1>6. CASE h.form = "other"
  <2>1. ParseRange(h, total) = None /\ Wanted(h, total) = {}
    BY <1>6 DEF ParseRange, Wanted
  <2> QED BY <1>6, <2>1 DEF RangeIsExact, GetObject
<1> QED BY <1>3, <1>4, <1>5, <1>6 DEF Headers

(* total - 1 of an empty object is the largest number, past every slice:   *)
(* a suffix, or any range from first to last, ends the handler in a panic. *)
THEOREM EmptyCorrect == EmptyPanics
<1> SUFFICES ASSUME NEW h \in Headers
             PROVE  GetObject(h, 0).status =
                      IF h.form = "suffix" \/ (h.form = "between" /\ h.first <= h.last)
                      THEN "panic" ELSE "ok"
  BY DEF EmptyPanics
<1>1. Word \in Nat /\ Word > 0 /\ Decremented(0) = Word - 1
  BY WordIsNat DEF Decremented
<1>2. CASE h.form = "suffix"
  <2>1. ParseRange(h, 0) = Some(SaturatingSub(0, h.n), Word - 1)
    BY <1>1, <1>2 DEF ParseRange
  <2>2. SlicePanics(SaturatingSub(0, h.n), Word - 1, 0)
    BY DEF SlicePanics
  <2> QED BY <1>2, <2>1, <2>2, OneRange
<1>3. CASE h.form = "from"
  <2>1. ParseRange(h, 0) = None
    BY <1>3, WordIsNat DEF ParseRange, Headers, Numbers
  <2> QED BY <1>3, <2>1 DEF GetObject
<1>4. CASE h.form = "between"
  <2>1. h.first \in Nat /\ h.last \in 0..(Word - 1)
    BY <1>4, WordIsNat DEF Headers, Numbers
  <2>2. Cut(h.last, 0) = h.last
    BY <1>1, <2>1 DEF Cut
  <2>3. CASE h.first <= h.last
    <3>1. ParseRange(h, 0) = Some(h.first, h.last)
      BY <1>4, <2>2, <2>3 DEF ParseRange
    <3>2. SlicePanics(h.first, h.last, 0)
      BY <1>1, <2>1 DEF SlicePanics
    <3> QED BY <1>4, <2>3, <3>1, <3>2, OneRange
  <2>4. CASE ~(h.first <= h.last)
    <3>1. ParseRange(h, 0) = None
      BY <1>4, <2>2, <2>4 DEF ParseRange
    <3> QED BY <1>4, <2>4, <3>1 DEF GetObject
  <2> QED BY <2>3, <2>4
<1>5. CASE h.form = "other"
  <2>1. ParseRange(h, 0) = None
    BY <1>5 DEF ParseRange
  <2> QED BY <1>5, <2>1 DEF GetObject
<1> QED BY <1>2, <1>3, <1>4, <1>5 DEF Headers
=============================================================================
