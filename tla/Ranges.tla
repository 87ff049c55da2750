-------------------------------- MODULE Ranges --------------------------------
(***************************************************************************)
(* GET with a Range header (s3/object.rs, parse_range and get_object):     *)
(* which bytes of an object of `total` bytes are answered.  Numbers are    *)
(* u64 and wrap, as they do in a release build.                            *)
(***************************************************************************)
EXTENDS Integers

CONSTANT Word  \* 2^64

ASSUME WordIsNat == Word \in Nat \ {0}

Numbers == 0..(Word - 1)

(* bytes=-n, bytes=first-, bytes=first-last, and what does not parse.      *)
Headers ==
  [form : {"suffix"}, n : Numbers] \cup [form : {"from"}, first : Numbers]
    \cup [form : {"between"}, first : Numbers, last : Numbers] \cup [form : {"other"}]

(* n - 1, which wraps.                                                     *)
Decremented(n) == IF n = 0 THEN Word - 1 ELSE n - 1
SaturatingSub(m, n) == IF m < n THEN 0 ELSE m - n
Some(start, end) == {<<start, end>>}
None == {}
Only(range) == CHOOSE r \in range : TRUE

Cut(last, total) == IF last < Decremented(total) THEN last ELSE Decremented(total)

ParseRange(h, total) ==
  CASE h.form = "suffix" -> Some(SaturatingSub(total, h.n), Decremented(total))
    [] h.form = "from" /\ h.first < total -> Some(h.first, Decremented(total))
    [] h.form = "between" /\ h.first <= Cut(h.last, total) ->
         Some(h.first, Cut(h.last, total))
    [] OTHER -> None

(* data[start..=end]                                                       *)
SlicePanics(start, end, total) == end = Word - 1 \/ start > end + 1 \/ end + 1 > total
Slice(start, end) == start..end

(* The answer: its status (none if the handler panics), and which bytes.   *)
GetObject(h, total) ==
  IF ParseRange(h, total) = None THEN [status |-> "ok", bytes |-> 0..(total - 1)]
  ELSE LET r == Only(ParseRange(h, total))
       IN IF SlicePanics(r[1], r[2], total) THEN [status |-> "panic", bytes |-> {}]
          ELSE [status |-> "partial", bytes |-> Slice(r[1], r[2])]

-----------------------------------------------------------------------------
(* The bytes that a header asks for, said without arithmetic on the ends.  *)
Wanted(h, total) ==
  {i \in 0..(total - 1) : \/ h.form = "suffix" /\ total - i <= h.n
                          \/ h.form = "from" /\ h.first <= i
                          \/ h.form = "between" /\ h.first <= i /\ i <= h.last}

(* README.md: "Range: bytes=start-end -- Partial object download".  Of an  *)
(* object that is not empty exactly the bytes asked for are answered, and  *)
(* all of it when there are none such or the header does not parse (only   *)
(* bytes=-0 gets a part without bytes).                                    *)
RangeIsExact(h, total) ==
  GetObject(h, total) =
    IF Wanted(h, total) # {} \/ h.form = "suffix"
    THEN [status |-> "partial", bytes |-> Wanted(h, total)]
    ELSE [status |-> "ok", bytes |-> 0..(total - 1)]

RangesExact == \A h \in Headers : \A total \in Numbers \ {0} : RangeIsExact(h, total)

(* On an empty object total - 1 wraps: the handler panics for every suffix *)
(* and every first-last that is a range (Cargo.toml: panic = "abort", so   *)
(* the process ends), and answers the empty object otherwise.              *)
EmptyPanics ==
  \A h \in Headers :
    GetObject(h, 0).status =
      IF h.form = "suffix" \/ (h.form = "between" /\ h.first <= h.last) THEN "panic" ELSE "ok"
=============================================================================
