--------------------------- MODULE MultipartProofs ---------------------------
(***************************************************************************)
(* Proofs about Multipart, for any uploads, parts and tasks, with every    *)
(* interleaving and every fault: its types, that an aborted upload stays   *)
(* gone, that a completion assembles the parts that were answered, and     *)
(* that an object stays what its last completion answered.                 *)
(***************************************************************************)
EXTENDS Multipart, FiniteSetTheorems, SequenceTheorems, TLAPS

Contents == Block \cup Keys \cup {NONE, ABSENT}
Docs == {ABSENT, EMPTY, MANGLED} \cup [of : Seq(Block)]
Places == Names \cup {TOP, PARTS}

FilesOK(u) ==
  /\ file[u][INFO] \in {Target[u], ABSENT, EMPTY, MANGLED}
  /\ file[u][TYPE] \in {NONE, ABSENT, EMPTY, MANGLED}
  /\ \A n \in Numbers : {file[u][Part(n)], file[u][PartInfo(n)]} \subseteq Block \cup {ABSENT}
Housed(u) == \A e \in Within(u) \ {TOP} : In(e) \in staging[u]

StoreOK ==
  /\ staging \in [Uploads -> SUBSET {TOP, PARTS}]
  /\ file \in [Uploads -> [Names -> Contents]]
  /\ \A u \in Uploads : FilesOK(u)
  /\ object \in [Keys -> Seq(Block) \cup {ABSENT}]
  /\ meta \in [Keys -> Docs]
TasksOK ==
  /\ pc \in [Tasks -> PCs]
  /\ req \in [Tasks -> Asks \cup {NoAsk}]
  /\ reply \in [Tasks -> [code : Codes, blocks : Seq(Block)]]
  /\ cursor \in [Tasks -> 1..(Cardinality(Numbers) + 1)]
  /\ held \in [Tasks -> Seq(Block)]
  /\ todo \in [Tasks -> SUBSET Places]
RestOK ==
  /\ unlinked \subseteq Tasks /\ born \subseteq Uploads
  /\ pool \in [Tasks -> {"clear", "afloat", "failed"}]
  /\ events \in Seq(Keys)
  /\ acked \in [Uploads \X Numbers -> Values \cup {NONE, MANGLED}]
  /\ promised \in [Tasks -> Seq(Values \cup {NONE, MANGLED})]
  /\ settled \in [Keys -> {NONE, ABSENT, MANGLED} \cup Seq(Block)]
TypeInv == StoreOK /\ TasksOK /\ RestOK

(* Which request is at which step, and how far it has come.                *)
Assembly == {"check_part", "read_part", "append", "open_meta", "write_meta", "emit"}
Program(r) ==
  LET q == req[r]
      n == Len(q.parts)
  IN
  /\ pc[r] = "idle" => cursor[r] = 1 /\ held[r] = <<>> /\ q = NoAsk
  /\ pc[r] # "idle" => q \in Asks
  /\ InFlight(r) \/ pc[r] = "idle" => reply[r].code = ""
  /\ pc[r] = "mk_staging" => q.kind = "create" /\ cursor[r] = 1
  /\ pc[r] \in {"open", "write"} => q.kind \in {"create", "upload"} /\ cursor[r] \in {1, 2}
  /\ pc[r] = "read_info" => q.kind \in {"complete", "reap"}
  /\ pc[r] \in {"open_object"} \cup Assembly => q.kind = "complete"
  /\ pc[r] = "rm" => q.kind \in {"complete", "abort", "reap"}
  /\ pc[r] \in {"read_info", "open_object"} => cursor[r] = 1 /\ held[r] = <<>>
  /\ pc[r] \in {"check_part", "read_part"} => Len(held[r]) = cursor[r] - 1
  /\ pc[r] = "append" => Len(held[r]) = cursor[r]
  /\ pc[r] = "check_part" => cursor[r] <= n + 1
  /\ pc[r] \in {"read_part", "append"} => cursor[r] <= n
  /\ pc[r] \in {"open_meta", "write_meta", "emit"} \/ (pc[r] = "rm" /\ q.kind = "complete")
       => Len(held[r]) = n

(* An id is begun once, and only then asked about; what a write goes to is *)
(* there, unless it was removed under it.                                  *)
Begun(r) ==
  LET q == req[r] IN
  /\ q.kind \in {"upload", "complete", "abort"} => q.upload \in born
  /\ pc[r] = "mk_staging" => q.upload \notin born
  /\ q.kind = "create" => \A s \in Tasks : s # r /\ req[s].kind = "create"
                                              => req[s].upload # q.upload
(* Only a completion has a block in the pool: it is at its parts still, or *)
(* it was refused or cut short.                                            *)
Looping == {"check_part", "read_part", "append"}
Pooled(r) ==
  pool[r] # "clear" =>
    /\ req[r].kind = "complete" /\ pc[r] # "idle"
    /\ 2 <= cursor[r] /\ cursor[r] - 1 <= Len(held[r])
    /\ pc[r] \in Looping \/ CutShort(r)
Opened(r) ==
  /\ Pooled(r)
  /\ pc[r] = "write" /\ r \notin unlinked => file[req[r].upload][FileOf(r)] # ABSENT
  /\ r \in unlinked => pc[r] = "write"
  /\ Writing(r) => object[KeyOf(r)] \in Seq(Block)

(* Uploads of a part, and what was answered about it.                      *)
Uploading(r, u, n) ==
  InFlight(r) /\ req[r].kind = "upload" /\ req[r].upload = u /\ req[r].number = n
Stored(u, n) == file[u][Part(n)]
PartOK(u, n) ==
  /\ acked[<<u, n>>] = NONE => \A r, s \in Tasks : Uploading(r, u, n) /\ Uploading(s, u, n) => r = s
  /\ acked[<<u, n>>] \in Values => /\ \A r \in Tasks : ~Uploading(r, u, n)
                               /\ Stored(u, n) \in {acked[<<u, n>>], ABSENT}
  /\ acked[<<u, n>>] = NONE =>
       \A r \in Tasks : Uploading(r, u, n) =>
         /\ pc[r] = "write" /\ cursor[r] = 1 =>
              Stored(u, n) \in (IF r \in unlinked THEN {ABSENT} ELSE {EMPTY})
         /\ cursor[r] = 2 => Stored(u, n) \in {req[r].body, ABSENT}

(* What a completion has read, and what it is still to read.               *)
Promise(r) ==
  req[r].kind = "complete" =>
    /\ InFlight(r) \/ reply[r].code = "Ok" => DOMAIN promised[r] = DOMAIN req[r].parts
    /\ \A i \in DOMAIN promised[r] :
         promised[r][i] \in Values =>
           /\ i <= Len(held[r]) => held[r][i] = promised[r][i]
           /\ InFlight(r) => /\ \A s \in Tasks : ~Uploading(s, req[r].upload, req[r].parts[i])
                             /\ Stored(req[r].upload, req[r].parts[i]) \in {promised[r][i], ABSENT}
    /\ reply[r].code = "Ok" => pc[r] = "done" /\ Len(held[r]) = Len(req[r].parts)
                               /\ reply[r].blocks = held[r]

(* The object that a completion writes alone.                              *)
Product(r) ==
  LET k == KeyOf(r) IN
  Writing(r) /\ settled[k] = NONE =>
    /\ pc[r] \in Looping => /\ pool[r] = "clear" => object[k] = Handed(r)
                            /\ pool[r] = "afloat" => object[k] = Front(Handed(r))
    /\ pc[r] \in {"open_meta", "write_meta", "rm", "emit"} => object[k] = held[r]
    /\ pc[r] = "write_meta" => meta[k] = EMPTY
    /\ pc[r] \in {"rm", "emit"} => meta[k] = Describes(held[r])
Solitary(k) ==
  /\ settled[k] = NONE =>
       \A r, s \in Tasks : Writing(r) /\ Writing(s) /\ KeyOf(r) = k /\ KeyOf(s) = k => r = s
  /\ settled[k] \notin {NONE, MANGLED} => \A r \in Tasks : ~(Writing(r) /\ KeyOf(r) = k)

(* What is known of an object: who writes it, and what it holds.           *)
Answered(k) ==
  settled[k] \notin {NONE, MANGLED} =>
    /\ object[k] = settled[k]
    /\ meta[k] = IF settled[k] = ABSENT THEN ABSENT ELSE Describes(settled[k])
Whole(k) == Solitary(k) /\ Answered(k) /\ \A r \in Tasks : KeyOf(r) = k => Product(r)

IInv ==
  /\ TypeInv
  /\ \A u \in Uploads : Housed(u)
  /\ \A r \in Tasks : Program(r) /\ Begun(r) /\ Opened(r) /\ Promise(r)
  /\ \A u \in Uploads, n \in Numbers : PartOK(u, n)
  /\ \A k \in Keys : Whole(k)
  /\ AbortedIsGone

-----------------------------------------------------------------------------
(* What a request asks for.                                                *)
LEMMA AskTypes ==
  ASSUME NEW q \in Asks
  PROVE  /\ q.upload \in Uploads /\ q.kind \in {"create", "abort", "reap", "upload", "complete"}
         /\ q.kind # "complete" => q.parts = <<>>
         /\ q.kind = "upload" => q.number \in Numbers /\ q.body \in Values
         /\ q.kind = "complete" => q.parts \in Lists
  BY DEF Asks, Ask

LEMMA ListTypes ==
  ASSUME NEW l \in Lists
  PROVE  /\ l \in Seq(Numbers) /\ Len(l) \in Nat /\ DOMAIN l = 1..Len(l)
         /\ 1 <= Len(l) /\ Len(l) <= Cardinality(Numbers)
<1>1. Cardinality(Numbers) \in Nat
  BY PartNumbers, FS_CardinalityType
<1>2. PICK n \in 1..Cardinality(Numbers) : l \in [1..n -> Numbers]
  BY DEF Lists
<1>3. l \in Seq(Numbers) /\ n \in Nat
  BY <1>1, <1>2, SeqDef
<1>4. Len(l) = n
  BY <1>2, <1>3, LenProperties
<1> QED BY <1>1, <1>2, <1>3, <1>4

(* The file a task is about to write, and what it writes there.            *)
LEMMA FileTypes ==
  ASSUME NEW r \in Tasks, Program(r), pc[r] \in {"open", "write"}
  PROVE  /\ req[r].upload \in Uploads /\ FileOf(r) \in Names
         /\ req[r].kind \in {"create", "upload"} /\ cursor[r] \in {1, 2}
         /\ req[r].kind = "create" => FileOf(r) = IF cursor[r] = 1 THEN INFO ELSE TYPE
         /\ req[r].kind = "upload" =>
              /\ req[r].number \in Numbers /\ req[r].body \in Values
              /\ FileOf(r) = IF cursor[r] = 1 THEN Part(req[r].number)
                                              ELSE PartInfo(req[r].number)
         /\ FileOf(r) = INFO => Bytes(r) = KeyOf(r)
         /\ FileOf(r) = TYPE => Bytes(r) = NONE
         /\ FileOf(r) \notin {INFO, TYPE} => Bytes(r) = req[r].body
<1>1. req[r] \in Asks /\ req[r].kind \in {"create", "upload"} /\ cursor[r] \in {1, 2}
  BY DEF Program
<1>2. /\ req[r].upload \in Uploads
      /\ req[r].kind = "upload" => req[r].number \in Numbers /\ req[r].body \in Values
  BY <1>1, AskTypes
<1>3. req[r].kind = "create" => FileOf(r) = IF cursor[r] = 1 THEN INFO ELSE TYPE
  BY <1>1 DEF FileOf, Staged
<1>4. req[r].kind = "upload" =>
        FileOf(r) = IF cursor[r] = 1 THEN Part(req[r].number) ELSE PartInfo(req[r].number)
  BY <1>1 DEF FileOf, Staged
<1>5. FileOf(r) \in Names
  BY <1>1, <1>2, <1>3, <1>4 DEF Names, Part, PartInfo
<1>6. INFO # TYPE
  BY DEF INFO, TYPE
<1>7. /\ FileOf(r) = INFO => Bytes(r) = KeyOf(r)
      /\ FileOf(r) = TYPE => Bytes(r) = NONE
      /\ FileOf(r) \notin {INFO, TYPE} => Bytes(r) = req[r].body
  BY <1>6 DEF Bytes
<1> QED BY <1>1, <1>2, <1>3, <1>4, <1>5, <1>7

(* Names of files are apart.                                               *)
LEMMA NamesApart ==
  /\ INFO # TYPE /\ INFO \in Names /\ TYPE \in Names /\ TOP \notin Names /\ PARTS \notin Names
  /\ TOP # PARTS /\ In(PARTS) = TOP
  /\ \A n \in Numbers : /\ Part(n) \in Names /\ PartInfo(n) \in Names
                        /\ Part(n) \notin {INFO, TYPE} /\ PartInfo(n) \notin {INFO, TYPE}
                        /\ \A m \in Numbers : /\ Part(n) # PartInfo(m)
                                              /\ Part(n) = Part(m) => n = m
                                              /\ PartInfo(n) = PartInfo(m) => n = m
  /\ \A e \in Names : In(e) \in {TOP, PARTS}
  /\ \A e \in Names : e \in {INFO, TYPE} \/ \E n \in Numbers : e \in {Part(n), PartInfo(n)}
  BY DEF INFO, TYPE, TOP, PARTS, Names, Part, PartInfo, In

(* What a write leaves has the type of what is written.                    *)
LEMMA WriteTypes ==
  ASSUME NEW r \in Tasks, Program(r), pc[r] = "write", StoreOK,
         NEW c \in Mixed(Bytes(r), file[req[r].upload][FileOf(r)])
  PROVE  LET u == req[r].upload
             f == [file EXCEPT ![u][FileOf(r)] = c]
         IN /\ c \in {Bytes(r), MANGLED} /\ c # ABSENT
            /\ f \in [Uploads -> [Names -> Contents]]
            /\ f[u] = [file[u] EXCEPT ![FileOf(r)] = c]
            /\ \A v \in Uploads : v # u => f[v] = file[v]
<1> DEFINE u == req[r].upload
<1>1. c \in {Bytes(r), MANGLED}
  BY DEF Mixed
<1>2. /\ u \in Uploads /\ FileOf(r) \in Names /\ KeyOf(r) \in Keys
      /\ Bytes(r) \in Keys \cup Values \cup {NONE}
  BY FileTypes, Targets, NamesApart DEF KeyOf
<1>3. c # ABSENT /\ c \in Contents
  BY <1>1, <1>2, UploadMarkers DEF Contents, Block
<1> QED BY <1>1, <1>2, <1>3 DEF StoreOK

-----------------------------------------------------------------------------
(* Types, and how far each request has come.                               *)

LEMMA AppendTypes ==
  ASSUME NEW S, NEW s \in Seq(S), NEW c \in S
  PROVE  /\ Append(s, c) \in Seq(S) /\ Len(s) \in Nat /\ Len(Append(s, c)) = Len(s) + 1
         /\ Front(Append(s, c)) = s /\ Last(Append(s, c)) = c
         /\ \A i \in 1..Len(s) : Append(s, c)[i] = s[i]
         /\ Append(s, c)[Len(s) + 1] = c
<1>1. /\ Append(s, c) \in Seq(S) /\ Len(s) \in Nat /\ Len(Append(s, c)) = Len(s) + 1
      /\ \A i \in 1..Len(s) : Append(s, c)[i] = s[i]
      /\ Append(s, c)[Len(s) + 1] = c
  OBVIOUS
<1>2. Front(Append(s, c)) \in Seq(S) /\ Len(Front(Append(s, c))) = Len(s)
  BY <1>1 DEF Front
<1>3. \A i \in 1..Len(s) : Front(Append(s, c))[i] = s[i]
  BY <1>1 DEF Front
<1>4. Front(Append(s, c)) = s
  BY <1>1, <1>2, <1>3, SeqEqual
<1> QED BY <1>1, <1>4 DEF Last

(* A sequence that is not empty is its front and its last element.         *)
LEMMA FrontLast ==
  ASSUME NEW S, NEW s \in Seq(S), Len(s) # 0
  PROVE  /\ Front(s) \in Seq(S) /\ Last(s) \in S /\ Append(Front(s), Last(s)) = s
         /\ Len(Front(s)) = Len(s) - 1
<1>1. PICK t \in Seq(S), e \in S : s = Append(t, e)
  BY SequenceEmptyOrAppend, EmptySeq
<1> QED BY <1>1, AppendTypes

(* What a completion has handed over, and what a block leaves in the file. *)
LEMMA HandedIs ==
  ASSUME NEW h \in Seq(Block), NEW c \in Nat
  PROVE  /\ Len(h) = c - 1 => SubSeq(h, 1, c - 1) = h
         /\ Len(h) = c => SubSeq(h, 1, c - 1) = Front(h)
<1>1. ASSUME Len(h) = c - 1 PROVE SubSeq(h, 1, c - 1) = h
  BY <1>1, SubSeqFull
<1>2. ASSUME Len(h) = c PROVE SubSeq(h, 1, c - 1) = Front(h)
  BY <1>2 DEF Front
<1> QED BY <1>1, <1>2

LEMMA AppendedTypes ==
  ASSUME NEW r \in Tasks, TasksOK, Program(r), Pooled(r), pool[r] = "afloat",
         object[KeyOf(r)] \in Seq(Block),
         NEW c \in Appended(Front(Handed(r)), Last(Handed(r)), object[KeyOf(r)])
  PROVE  /\ KeyOf(r) \in Keys /\ c \in Seq(Block)
         /\ object[KeyOf(r)] = Front(Handed(r)) => c = Handed(r)
<1> DEFINE h == Handed(r)
           n == cursor[r] - 1
<1>1. req[r] \in Asks /\ KeyOf(r) \in Keys
  BY AskTypes, Targets DEF Program, Pooled, KeyOf
<1>2. cursor[r] \in Nat /\ 2 <= cursor[r] /\ n <= Len(held[r])
  <2>1. cursor[r] \in 1..(Cardinality(Numbers) + 1) /\ Cardinality(Numbers) \in Nat
    BY PartNumbers, FS_CardinalityType DEF TasksOK
  <2>2. cursor[r] \in Nat
    BY <2>1
  <2> QED BY <2>2 DEF Pooled
<1>3. h \in Seq(Block) /\ Len(h) # 0
  <2>1. held[r] \in Seq(Block)
    BY DEF TasksOK
  <2>2. \A i \in 1..n : held[r][i] \in Block
    BY <1>2, <2>1
  <2>3. SubSeq(held[r], 1, n) \in Seq(Block) /\ Len(SubSeq(held[r], 1, n)) = n
    BY <1>2, <2>2, SubSeqProperties
  <2> QED BY <1>2, <2>3 DEF Handed
<1>4. Append(Front(h), Last(h)) = h
  BY <1>3, FrontLast
<1>5. c \in {h, object[KeyOf(r)], <<MANGLED>>} /\ (object[KeyOf(r)] = Front(h) => c = h)
  BY <1>4 DEF Appended
<1>6. <<MANGLED>> \in Seq(Block)
  BY DEF Block
<1> QED BY <1>1, <1>3, <1>5, <1>6

(* Steps of a program counter, answers, and writes that stop half way.     *)
LEMMA GoTypes ==
  ASSUME TasksOK, NEW r \in Tasks, NEW p \in PCs, Go(r, p)
  PROVE  pc' \in [Tasks -> PCs] /\ pc'[r] = p /\ \A s \in Tasks : s # r => pc'[s] = pc[s]
  BY DEF TasksOK, Go

LEMMA AnswerTypes ==
  ASSUME TasksOK, NEW r \in Tasks, NEW code \in Codes, NEW blocks \in Seq(Block),
         Answer(r, code, blocks)
  PROVE  /\ pc' \in [Tasks -> PCs] /\ pc'[r] = "done"
         /\ reply' \in [Tasks -> [code : Codes, blocks : Seq(Block)]]
         /\ reply'[r] = [code |-> code, blocks |-> blocks]
         /\ \A s \in Tasks : s # r => pc'[s] = pc[s] /\ reply'[s] = reply[s]
  BY DEF TasksOK, Answer, PCs

LEMMA FailTypes ==
  ASSUME TasksOK, NEW r \in Tasks, NEW code \in Codes, Fail(r, code)
  PROVE  /\ pc' \in [Tasks -> PCs] /\ pc'[r] = "done"
         /\ reply' \in [Tasks -> [code : Codes, blocks : Seq(Block)]]
         /\ reply'[r] = [code |-> code, blocks |-> <<>>]
         /\ \A s \in Tasks : s # r => pc'[s] = pc[s] /\ reply'[s] = reply[s]
<1>1. <<>> \in Seq(Block)
  OBVIOUS
<1> QED BY <1>1, AnswerTypes DEF Fail

LEMMA TornTypes ==
  ASSUME StoreOK, NEW S \in SUBSET Tasks, Torn(S), UNCHANGED staging
  PROVE  /\ StoreOK'
         /\ \A u \in Uploads : \A e \in Names :
              IF \E r \in S : pc[r] = "write" /\ req[r].upload = u /\ FileOf(r) = e
              THEN file'[u][e] = MANGLED ELSE file'[u][e] = file[u][e]
         /\ \A k \in Keys :
              IF \E r \in S : pool[r] = "afloat" /\ KeyOf(r) = k
              THEN object'[k] = <<MANGLED>> ELSE object'[k] = object[k]
         /\ \A k \in Keys :
              IF \E r \in S : pc[r] = "write_meta" /\ KeyOf(r) = k
              THEN meta'[k] = MANGLED ELSE meta'[k] = meta[k]
<1>1. \A u \in Uploads : \A e \in Names :
        IF \E r \in S : pc[r] = "write" /\ req[r].upload = u /\ FileOf(r) = e
        THEN file'[u][e] = MANGLED ELSE file'[u][e] = file[u][e]
  BY DEF Torn
<1>2. \A k \in Keys :
        IF \E r \in S : pool[r] = "afloat" /\ KeyOf(r) = k
        THEN object'[k] = <<MANGLED>> ELSE object'[k] = object[k]
  BY DEF Torn
<1>3. \A k \in Keys :
        IF \E r \in S : pc[r] = "write_meta" /\ KeyOf(r) = k
        THEN meta'[k] = MANGLED ELSE meta'[k] = meta[k]
  BY DEF Torn
<1>4. MANGLED \in Contents /\ MANGLED \in Block /\ MANGLED \in Docs /\ <<MANGLED>> \in Seq(Block)
  BY DEF Contents, Block, Docs
<1>5. file' \in [Uploads -> [Names -> Contents]]
  BY <1>1, <1>4 DEF StoreOK, Torn
<1>6. object' \in [Keys -> Seq(Block) \cup {ABSENT}]
  BY <1>2, <1>4 DEF StoreOK, Torn
<1>7. meta' \in [Keys -> Docs]
  BY <1>3, <1>4 DEF StoreOK, Torn
<1>8. ASSUME NEW u \in Uploads PROVE FilesOK(u)'
  <2>1. FilesOK(u) /\ \A e \in Names : file'[u][e] \in {file[u][e], MANGLED}
    BY <1>1 DEF StoreOK
  <2> QED BY <1>4, <2>1, NamesApart DEF FilesOK
<1> QED BY <1>1, <1>2, <1>3, <1>5, <1>6, <1>7, <1>8 DEF StoreOK

(* A file that is opened, written or removed.                              *)
LEMMA FileTypesStep ==
  ASSUME StoreOK, NEW u \in Uploads, NEW e \in Names, NEW c \in Contents,
         file' = [file EXCEPT ![u][e] = c], UNCHANGED <<staging, object, meta>>,
         \/ c \in {ABSENT, EMPTY, MANGLED}
         \/ e = INFO /\ c = Target[u]
         \/ e = TYPE /\ c = NONE
         \/ e \notin {INFO, TYPE} /\ c \in Block
  PROVE  /\ StoreOK' /\ file'[u][e] = c
         /\ \A v \in Uploads : \A f \in Names : v # u \/ f # e => file'[v][f] = file[v][f]
<1>1. /\ file' \in [Uploads -> [Names -> Contents]]
      /\ file'[u] = [file[u] EXCEPT ![e] = c]
      /\ \A v \in Uploads : v # u => file'[v] = file[v]
  BY DEF StoreOK
<1>2. file[u] \in [Names -> Contents]
  BY DEF StoreOK
<1>3. file'[u][e] = c /\ \A f \in Names : f # e => file'[u][f] = file[u][f]
  BY <1>1, <1>2
<1>4. ASSUME NEW v \in Uploads PROVE FilesOK(v)'
  <2>1. CASE v # u
    BY <1>1, <2>1 DEF StoreOK, FilesOK
  <2>2. CASE v = u
    <3>1. FilesOK(u)
      BY DEF StoreOK
    <3>2. \A f \in Names : file'[u][f] = file[u][f] \/ (f = e /\ file'[u][f] = c)
      BY <1>3
    <3>3. /\ file'[u][INFO] \in {Target[u], ABSENT, EMPTY, MANGLED}
          /\ file'[u][TYPE] \in {NONE, ABSENT, EMPTY, MANGLED}
      BY <3>1, <3>2, NamesApart DEF FilesOK
    <3>4. ASSUME NEW n \in Numbers
          PROVE  {file'[u][Part(n)], file'[u][PartInfo(n)]} \subseteq Block \cup {ABSENT}
      BY <3>1, <3>2, NamesApart DEF FilesOK, Block
    <3> QED BY <2>2, <3>3, <3>4 DEF FilesOK
  <2> QED BY <2>1, <2>2
<1> QED BY <1>1, <1>3, <1>4 DEF StoreOK

LEMMA StoreSame ==
  ASSUME StoreOK, UNCHANGED fs
  PROVE  StoreOK'
  BY DEF fs, StoreOK, FilesOK

(* Who has answered, or is gone, is at an end.                             *)
LEMMA CutShortEnds ==
  ASSUME TypeInv, NEW r \in Tasks, Program(r), CutShort(r)
  PROVE  pc[r] \in {"done", "lost"}
  BY DEF CutShort, Program, InFlight, TypeInv, TasksOK, PCs

(* Only at its parts does a request in flight have a block in the pool.    *)
LEMMA PoolClear ==
  ASSUME TypeInv, NEW r \in Tasks, Program(r), Opened(r), pc[r] \notin Looping \cup {"done", "lost"}
  PROVE  pool[r] = "clear"
  BY CutShortEnds DEF Opened, Pooled

(* Who writes an object: a completion that is at it, or has a block afloat. *)
Busy(r) ==
  /\ pc[r] \in {"check_part", "read_part", "append", "open_meta", "write_meta", "rm", "emit"}
  /\ req[r].kind = "complete"
LEMMA WritingIs == ASSUME NEW r \in Tasks PROVE Writing(r) <=> pool[r] = "afloat" \/ Busy(r)
  BY DEF Writing, Busy

LEMMA WriterKey ==
  ASSUME NEW r \in Tasks, Program(r), Opened(r), Writing(r)
  PROVE  /\ req[r] \in Asks /\ req[r].kind = "complete" /\ pc[r] # "idle"
         /\ req[r].upload \in Uploads /\ KeyOf(r) \in Keys
<1>1. req[r].kind = "complete" /\ pc[r] # "idle"
  BY DEF Writing, Opened, Pooled
<1>2. req[r] \in Asks
  BY <1>1 DEF Program
<1> QED BY <1>1, <1>2, AskTypes, Targets DEF KeyOf

(* A block reaches the file, or does not: nothing but the object changes.  *)
Lands(r) == Land(r) \/ LandFails(r)
LEMMA LandMoves ==
  ASSUME TypeInv, NEW r \in Tasks, Program(r), Opened(r), Lands(r)
  PROVE  /\ UNCHANGED <<staging, file, meta, pc, req, reply, cursor, held, todo, unlinked, born,
                         events, acked, promised, settled>>
         /\ pool[r] = "afloat" /\ Writing(r) /\ KeyOf(r) \in Keys
         /\ \/ /\ pool' = [pool EXCEPT ![r] = "clear"]
               /\ object[KeyOf(r)] = Front(Handed(r)) => object'[KeyOf(r)] = Handed(r)
            \/ pool' = [pool EXCEPT ![r] = "failed"]
         /\ pool'[r] # "afloat" /\ \A x \in Tasks : x # r => pool'[x] = pool[x]
         /\ object' \in [Keys -> Seq(Block) \cup {ABSENT}] /\ object'[KeyOf(r)] \in Seq(Block)
         /\ \A k \in Keys : k # KeyOf(r) => object'[k] = object[k]
<1> USE DEF TypeInv
<1>0. pool'[r] # "afloat" /\ \A x \in Tasks : x # r => pool'[x] = pool[x]
  BY DEF Lands, Land, LandFails, RestOK
<1>1. pool[r] = "afloat" /\ Writing(r) /\ KeyOf(r) \in Keys /\ object[KeyOf(r)] \in Seq(Block)
  <2>1. pool[r] = "afloat" /\ Writing(r)
    BY DEF Lands, Land, LandFails, Writing
  <2> QED BY <2>1, WriterKey DEF Opened
<1>2. CASE Land(r)
  <2>1. PICK c \in Appended(Front(Handed(r)), Last(Handed(r)), object[KeyOf(r)]) :
          object' = [object EXCEPT ![KeyOf(r)] = c]
    BY <1>2 DEF Land
  <2>2. c \in Seq(Block) /\ (object[KeyOf(r)] = Front(Handed(r)) => c = Handed(r))
    BY <1>1, <2>1, AppendedTypes DEF Opened
  <2>3. /\ object' \in [Keys -> Seq(Block) \cup {ABSENT}] /\ object'[KeyOf(r)] = c
        /\ \A k \in Keys : k # KeyOf(r) => object'[k] = object[k]
    BY <1>1, <2>1, <2>2 DEF StoreOK
  <2>4. /\ UNCHANGED <<staging, file, meta, pc, req, reply, cursor, held, todo, unlinked, born,
                         events, acked, promised, settled>>
        /\ pool' = [pool EXCEPT ![r] = "clear"]
    BY <1>2 DEF Land, ghosts
  <2> QED BY <1>0, <1>1, <2>2, <2>3, <2>4
<1>3. CASE LandFails(r)
  <2>1. /\ UNCHANGED <<staging, pc, req, reply, cursor, held, todo, unlinked, born, events, acked,
                         promised, settled>>
        /\ pool' = [pool EXCEPT ![r] = "failed"]
    BY <1>3 DEF LandFails, ghosts
  <2>2. CASE UNCHANGED <<file, object, meta>>
    BY <1>0, <1>1, <2>1, <2>2 DEF StoreOK
  <2>3. CASE Torn({r})
    <3>1. pc[r] \notin {"write", "write_meta"}
      BY <1>1, CutShortEnds DEF Opened, Pooled, Looping
    <3>2. /\ StoreOK'
          /\ \A u \in Uploads : \A e \in Names : file'[u][e] = file[u][e]
          /\ \A k \in Keys : object'[k] = IF KeyOf(r) = k THEN <<MANGLED>> ELSE object[k]
          /\ \A k \in Keys : meta'[k] = meta[k]
      BY <1>1, <2>1, <2>3, <3>1, TornTypes
    <3>3. UNCHANGED file
      <4>1. file \in [Uploads -> [Names -> Contents]] /\ file' \in [Uploads -> [Names -> Contents]]
        BY <3>2 DEF StoreOK
      <4>2. ASSUME NEW u \in Uploads PROVE file'[u] = file[u]
        <5>1. file[u] \in [Names -> Contents] /\ file'[u] \in [Names -> Contents]
          BY <4>1
        <5> QED BY <3>2, <5>1
      <4> QED BY <4>1, <4>2
    <3>4. UNCHANGED meta
      <4>1. meta \in [Keys -> Docs] /\ meta' \in [Keys -> Docs]
        BY <3>2 DEF StoreOK
      <4> QED BY <3>2, <4>1
    <3>5. <<MANGLED>> \in Seq(Block)
      BY DEF Block
    <3>6. object' \in [Keys -> Seq(Block) \cup {ABSENT}]
      BY <3>2 DEF StoreOK
    <3> QED BY <1>0, <1>1, <2>1, <3>2, <3>3, <3>4, <3>5, <3>6
  <2> QED BY <1>3, <2>2, <2>3 DEF LandFails
<1> QED BY <1>2, <1>3 DEF Lands

LEMMA StoreStep ==
  ASSUME TypeInv, \A x \in Tasks : Program(x) /\ Opened(x), Next
  PROVE  StoreOK'
<1> USE DEF TypeInv
<1>1. CASE Crash
  <2>1. PICK S \in SUBSET {r \in Tasks \ unlinked : \/ pc[r] \in {"write", "write_meta"}
                                                  \/ pool[r] = "afloat"} :
          Torn(S)
    BY <1>1 DEF Crash
  <2>2. S \in SUBSET Tasks /\ UNCHANGED staging
    BY <1>1, <2>1 DEF Crash
  <2> QED BY <2>1, <2>2, TornTypes
<1>2. ASSUME NEW r \in Tasks, WriteError(r) PROVE StoreOK'
  <2>1. CASE UNCHANGED <<file, object, meta>>
    BY <1>2, <2>1, StoreSame DEF WriteError, fs
  <2>2. CASE Torn({r})
    BY <1>2, <2>2, TornTypes DEF WriteError
  <2> QED BY <1>2, <2>1, <2>2 DEF WriteError
<1>3. ASSUME NEW r \in Tasks, MakeStaging(r) PROVE StoreOK'
  BY <1>3 DEF MakeStaging, StoreOK, FilesOK
<1>4. ASSUME NEW r \in Tasks, Open(r) PROVE StoreOK'
  <2>1. req[r].upload \in Uploads /\ FileOf(r) \in Names
    BY <1>4, FileTypes DEF Open
  <2>2. CASE file' = [file EXCEPT ![req[r].upload][FileOf(r)] = EMPTY]
    <3>1. EMPTY \in Contents
      BY DEF Contents, Block
    <3>2. UNCHANGED <<staging, object, meta>>
      BY <1>4 DEF Open
    <3> HIDE DEF TypeInv
    <3> QED BY <2>1, <2>2, <3>1, <3>2, FileTypesStep DEF TypeInv
  <2>3. CASE UNCHANGED file
    BY <1>4, <2>3, StoreSame DEF Open, fs
  <2> QED BY <1>4, <2>2, <2>3 DEF Open
<1>5. ASSUME NEW r \in Tasks, Write(r) PROVE StoreOK'
  <2> DEFINE u == req[r].upload
  <2>0. UNCHANGED <<staging, object, meta>> /\ pc[r] = "write"
    BY <1>5 DEF Write
  <2>1. CASE UNCHANGED file
    BY <2>0, <2>1, StoreSame DEF fs
  <2>2. CASE \E c \in Mixed(Bytes(r), file[u][FileOf(r)]) :
               file' = [file EXCEPT ![u][FileOf(r)] = c]
    <3>1. PICK c \in Mixed(Bytes(r), file[u][FileOf(r)]) :
               file' = [file EXCEPT ![u][FileOf(r)] = c]
      BY <2>2
    <3>2. /\ u \in Uploads /\ FileOf(r) \in Names /\ KeyOf(r) = Target[u]
          /\ c \in {Bytes(r), MANGLED}
      BY <2>0, FileTypes DEF KeyOf, Mixed
    <3>3. FileOf(r) \notin {INFO, TYPE} => Bytes(r) \in Values
      BY <2>0, FileTypes, NamesApart
    <3>4. c \in Contents
      BY <2>0, <3>2, <3>3, FileTypes, Targets DEF Contents, Block
    <3>5. \/ c = MANGLED
          \/ FileOf(r) = INFO /\ c = Target[u]
          \/ FileOf(r) = TYPE /\ c = NONE
          \/ FileOf(r) \notin {INFO, TYPE} /\ c \in Block
      BY <2>0, <3>2, <3>3, FileTypes DEF Block
    <3> QED BY <2>0, <3>1, <3>2, <3>4, <3>5, FileTypesStep
  <2> QED BY <1>5, <2>1, <2>2 DEF Write
<1>6. ASSUME NEW r \in Tasks, OpenObject(r) PROVE StoreOK'
  BY <1>6, EmptySeq DEF OpenObject, StoreOK, FilesOK, Stored
<1>7. ASSUME NEW r \in Tasks, Lands(r) PROVE StoreOK'
  BY <1>7, LandMoves DEF StoreOK, FilesOK
<1>8. ASSUME NEW r \in Tasks, OpenMeta(r) PROVE StoreOK'
  BY <1>8 DEF OpenMeta, StoreOK, FilesOK, Docs
<1>9. ASSUME NEW r \in Tasks, WriteMeta(r) PROVE StoreOK'
  <2>1. PICK c \in Mixed(Describes(held[r]), meta[KeyOf(r)]) : meta' = [meta EXCEPT ![KeyOf(r)] = c]
    BY <1>9 DEF WriteMeta
  <2>2. held[r] \in Seq(Block)
    BY DEF TasksOK
  <2>3. c \in Docs
    BY <2>1, <2>2 DEF Mixed, Describes, Docs
  <2> QED BY <1>9, <2>1, <2>3 DEF WriteMeta, StoreOK, FilesOK
<1>10. ASSUME NEW r \in Tasks, RemoveEntry(r) PROVE StoreOK'
  <2> DEFINE u == req[r].upload
  <2>1. u \in Uploads
    BY <1>10, AskTypes DEF RemoveEntry, Program
  <2>2. CASE staging' = [staging EXCEPT ![u] = @ \ {PARTS}] /\ UNCHANGED file
    BY <1>10, <2>1, <2>2 DEF RemoveEntry, StoreOK, FilesOK
  <2>3. CASE \E e \in Names : file' = [file EXCEPT ![u][e] = ABSENT] /\ UNCHANGED staging
    <3>1. ABSENT \in Contents /\ UNCHANGED <<object, meta>>
      BY <1>10 DEF Contents, RemoveEntry
    <3> QED BY <2>1, <2>3, <3>1, FileTypesStep
  <2> QED BY <1>10, <2>2, <2>3 DEF RemoveEntry
<1>11. ASSUME NEW r \in Tasks, RemoveTop(r) PROVE StoreOK'
  BY <1>11 DEF RemoveTop, StoreOK, FilesOK
<1>12. ASSUME NEW r \in Tasks,
              \/ Start(r) \/ Abandon(r) \/ ReadInfo(r) \/ CheckPart(r) \/ ReadPart(r)
              \/ AppendBlock(r) \/ Emit(r) \/ NoticeEntry(r)
       PROVE  StoreOK'
  <2>1. UNCHANGED fs
    BY <1>12 DEF Start, Abandon, ReadInfo, CheckPart, ReadPart, AppendBlock, Emit, NoticeEntry, fs
  <2> QED BY <2>1, StoreSame
<1> QED
  BY <1>1, <1>2, <1>3, <1>4, <1>5, <1>6, <1>7, <1>8, <1>9, <1>10, <1>11, <1>12
  DEF Next, Step, Lands

LEMMA WithinTypes ==
  ASSUME StoreOK, NEW u \in Uploads
  PROVE  Within(u) \subseteq Places
  BY DEF StoreOK, Within, Places

LEMMA ProgramSame ==
  ASSUME NEW x \in Tasks, Program(x), UNCHANGED <<req[x], cursor[x], held[x], reply[x], pc[x]>>
  PROVE  Program(x)'
  BY DEF Program, InFlight

LEMMA AskPart ==
  ASSUME NEW r \in Tasks, req[r] \in Asks, req[r].kind = "complete"
  PROVE  /\ Len(req[r].parts) \in Nat /\ Len(req[r].parts) <= Cardinality(Numbers)
         /\ DOMAIN req[r].parts = 1..Len(req[r].parts)
         /\ \A i \in 1..Len(req[r].parts) : req[r].parts[i] \in Numbers
<1>1. req[r].parts \in Lists
  BY AskTypes
<1>2. req[r].parts \in Seq(Numbers)
  BY <1>1, ListTypes
<1> QED BY <1>1, <1>2, ListTypes

LEMMA SomeParts == Cardinality(Numbers) \in Nat /\ Cardinality(Numbers) >= 1
  BY PartNumbers, FS_CardinalityType, FS_EmptySet

LEMMA TasksStep ==
  ASSUME TypeInv, \A x \in Tasks : Program(x) /\ Opened(x), Next
  PROVE  TasksOK' /\ \A x \in Tasks : Program(x)'
<1> USE DEF TypeInv
<1>0. /\ \A r \in Tasks : pc[r] # "idle" => req[r] \in Asks
      /\ \A r \in Tasks : cursor[r] \in Nat /\ cursor[r] >= 1
      /\ \A r \in Tasks : held[r] \in Seq(Block) /\ Len(held[r]) \in Nat
      /\ \A r \in Tasks : req[r] \in Asks /\ req[r].kind = "complete" =>
           /\ Len(req[r].parts) \in Nat /\ Len(req[r].parts) <= Cardinality(Numbers)
           /\ \A i \in Nat : i >= 1 /\ i <= Len(req[r].parts) => req[r].parts[i] \in Numbers
  <2>1. \A r \in Tasks : pc[r] # "idle" => req[r] \in Asks
    BY DEF Program
  <2>2. \A r \in Tasks : cursor[r] \in Nat /\ cursor[r] >= 1
    <3>1. \A r \in Tasks : cursor[r] \in 1..(Cardinality(Numbers) + 1)
      BY DEF TasksOK
    <3> QED BY <3>1, SomeParts
  <2>3. \A r \in Tasks : held[r] \in Seq(Block)
    BY DEF TasksOK
  <2>4. \A r \in Tasks : Len(held[r]) \in Nat
    BY <2>3
  <2>5. ASSUME NEW r \in Tasks, req[r] \in Asks, req[r].kind = "complete"
        PROVE  /\ Len(req[r].parts) \in Nat /\ Len(req[r].parts) <= Cardinality(Numbers)
               /\ \A i \in Nat : i >= 1 /\ i <= Len(req[r].parts) => req[r].parts[i] \in Numbers
    BY <2>5, AskPart
  <2> QED BY <2>1, <2>2, <2>3, <2>4, <2>5
<1>1. CASE Crash
  <2>1. pc' = [r \in Tasks |-> IF InFlight(r) THEN "lost" ELSE pc[r]]
    BY <1>1 DEF Crash
  <2>2. UNCHANGED <<req, reply, cursor, held, todo>>
    BY <1>1 DEF Crash
  <2>3. TasksOK'
    BY <2>1, <2>2 DEF TasksOK, PCs
  <2>4. ASSUME NEW x \in Tasks PROVE Program(x)'
    <3>1. CASE pc'[x] = pc[x]
      BY <2>2, <3>1, ProgramSame
    <3>2. CASE pc'[x] # pc[x]
      <4>1. pc'[x] = "lost" /\ pc[x] # "idle"
        BY <2>1, <3>2 DEF InFlight
      <4> QED BY <2>2, <4>1, <1>0 DEF Program, InFlight, Assembly
    <3> QED BY <3>1, <3>2
  <2> QED BY <2>3, <2>4
<1>2. ASSUME NEW r \in Tasks, WriteError(r) PROVE TasksOK' /\ \A x \in Tasks : Program(x)'
  <2>1. UNCHANGED <<req, cursor, held, todo>> /\ pc[r] # "idle"
    BY <1>2 DEF WriteError
  <2>2. \E code \in {"Ok", "InternalError"} : Fail(r, code)
    BY <1>2 DEF WriteError, GiveUp, Fail
  <2>3. PICK code \in {"Ok", "InternalError"} : Fail(r, code)
    BY <2>2
  <2>4. code \in Codes
    BY DEF Codes
  <2>5. /\ TasksOK' /\ pc'[r] = "done"
        /\ \A s \in Tasks : s # r => pc'[s] = pc[s] /\ reply'[s] = reply[s]
    BY <2>1, <2>3, <2>4, FailTypes DEF TasksOK
  <2>6. Program(r)'
    BY <2>1, <2>5, <1>0 DEF Program, InFlight, Assembly
  <2> QED BY <2>1, <2>5, <2>6, ProgramSame
<1>3. ASSUME NEW r \in Tasks, Abandon(r) PROVE TasksOK' /\ \A x \in Tasks : Program(x)'
  <2>1. /\ UNCHANGED <<req, reply, cursor, held, todo>> /\ pc[r] # "idle" /\ Go(r, "lost")
    BY <1>3 DEF Abandon, InFlight
  <2>2. "lost" \in PCs
    BY DEF PCs
  <2>3. /\ TasksOK' /\ pc'[r] = "lost" /\ \A s \in Tasks : s # r => pc'[s] = pc[s]
    BY <2>1, <2>2, GoTypes DEF TasksOK
  <2>4. Program(r)'
    BY <2>1, <2>3, <1>0 DEF Program, InFlight, Assembly
  <2> QED BY <2>1, <2>3, <2>4, ProgramSame
<1>4. ASSUME NEW r \in Tasks, Start(r) PROVE TasksOK' /\ \A x \in Tasks : Program(x)'
  <2>1. PICK q \in Asks :
          /\ req' = [req EXCEPT ![r] = q]
          /\ \/ Fail(r, "NoSuchUpload") /\ UNCHANGED todo
             \/ /\ Go(r, Entry(q.kind)) /\ UNCHANGED reply
                /\ todo' = [todo EXCEPT ![r] = IF q.kind = "abort" THEN Within(q.upload) ELSE {}]
    BY <1>4 DEF Start
  <2>2. /\ UNCHANGED <<cursor, held>> /\ cursor[r] = 1 /\ held[r] = <<>> /\ pc[r] = "idle"
        /\ reply[r].code = ""
    BY <1>4 DEF Start, Program
  <2>3. /\ req' \in [Tasks -> Asks \cup {NoAsk}] /\ req'[r] = q
        /\ \A s \in Tasks : s # r => req'[s] = req[s]
    BY <2>1 DEF TasksOK
  <2>4. /\ Entry(q.kind) \in {"mk_staging", "open", "rm", "read_info"}
        /\ Entry(q.kind) = "mk_staging" => q.kind = "create"
        /\ Entry(q.kind) = "open" => q.kind = "upload"
        /\ Entry(q.kind) = "rm" => q.kind = "abort"
        /\ Entry(q.kind) = "read_info" => q.kind \in {"complete", "reap"}
    BY <2>1, AskTypes DEF Entry
  <2>5. Within(q.upload) \subseteq Places
    BY <2>1, AskTypes, WithinTypes
  <2>6. CASE Fail(r, "NoSuchUpload") /\ UNCHANGED todo
    <3>1. "NoSuchUpload" \in Codes
      BY DEF Codes
    <3>2. /\ TasksOK' /\ pc'[r] = "done"
          /\ \A s \in Tasks : s # r => pc'[s] = pc[s] /\ reply'[s] = reply[s]
      BY <2>2, <2>3, <2>6, <3>1, FailTypes DEF TasksOK
    <3>3. Program(r)'
      BY <2>1, <2>3, <3>2 DEF Program, InFlight, Assembly
    <3> QED BY <2>2, <2>3, <3>2, <3>3, ProgramSame
  <2>7. CASE /\ Go(r, Entry(q.kind)) /\ UNCHANGED reply
             /\ todo' = [todo EXCEPT ![r] = IF q.kind = "abort" THEN Within(q.upload) ELSE {}]
    <3>1. Entry(q.kind) \in PCs
      BY <2>4 DEF PCs
    <3>2. /\ pc' \in [Tasks -> PCs] /\ pc'[r] = Entry(q.kind)
          /\ \A s \in Tasks : s # r => pc'[s] = pc[s]
      BY <2>7, <3>1, GoTypes
    <3>3. TasksOK'
      BY <2>2, <2>3, <2>5, <2>7, <3>2 DEF TasksOK
    <3>4. Program(r)'
      <4>1. pc'[r] \notin {"idle", "write", "append", "check_part", "read_part", "open_object",
                           "open_meta", "write_meta", "emit"}
        BY <2>4, <3>2
      <4>2. cursor'[r] = 1 /\ held'[r] = <<>> /\ reply'[r].code = ""
        BY <2>2, <2>7
      <4> QED BY <2>1, <2>3, <2>4, <3>2, <4>1, <4>2 DEF Program, Assembly
    <3> QED BY <2>2, <2>3, <2>7, <3>2, <3>3, <3>4, ProgramSame
  <2> QED BY <2>1, <2>6, <2>7
<1>5. ASSUME NEW r \in Tasks, MakeStaging(r) PROVE TasksOK' /\ \A x \in Tasks : Program(x)'
  <2>1. UNCHANGED <<req, reply, cursor, held, todo>> /\ Go(r, "open") /\ pc[r] = "mk_staging"
    BY <1>5 DEF MakeStaging
  <2>2. /\ TasksOK' /\ pc'[r] = "open" /\ \A s \in Tasks : s # r => pc'[s] = pc[s]
    BY <2>1, GoTypes DEF TasksOK, PCs
  <2>3. Program(r)'
    BY <2>1, <2>2 DEF Program, InFlight, Assembly
  <2> QED BY <2>1, <2>2, <2>3, ProgramSame
<1>6. ASSUME NEW r \in Tasks, Open(r) PROVE TasksOK' /\ \A x \in Tasks : Program(x)'
  <2>1. UNCHANGED <<req, cursor, held, todo>> /\ pc[r] = "open"
    BY <1>6 DEF Open
  <2>2. CASE Go(r, "write") /\ UNCHANGED reply
    <3>1. /\ TasksOK' /\ pc'[r] = "write" /\ \A s \in Tasks : s # r => pc'[s] = pc[s]
      BY <2>1, <2>2, GoTypes DEF TasksOK, PCs
    <3>2. Program(r)'
      BY <2>1, <2>2, <3>1 DEF Program, InFlight, Assembly
    <3> QED BY <2>1, <2>2, <3>1, <3>2, ProgramSame
  <2>3. CASE \E code \in {"Ok", "InternalError"} : Fail(r, code)
    <3>1. PICK code \in {"Ok", "InternalError"} : Fail(r, code)
      BY <2>3
    <3>2. code \in Codes
      BY DEF Codes
    <3>3. /\ TasksOK' /\ pc'[r] = "done"
          /\ \A s \in Tasks : s # r => pc'[s] = pc[s] /\ reply'[s] = reply[s]
      BY <2>1, <3>1, <3>2, FailTypes DEF TasksOK
    <3>4. Program(r)'
      BY <2>1, <3>3, <1>0 DEF Program, InFlight, Assembly
    <3> QED BY <2>1, <3>3, <3>4, ProgramSame
  <2> QED BY <1>6, <2>2, <2>3 DEF Open, GiveUp, Fail
<1>7. ASSUME NEW r \in Tasks, Write(r) PROVE TasksOK' /\ \A x \in Tasks : Program(x)'
  <2>1. UNCHANGED <<req, held, todo>> /\ pc[r] = "write"
    BY <1>7 DEF Write
  <2>2. CASE cursor' = [cursor EXCEPT ![r] = 2] /\ Go(r, "open") /\ UNCHANGED reply
    <3>1. /\ pc' \in [Tasks -> PCs] /\ pc'[r] = "open" /\ \A s \in Tasks : s # r => pc'[s] = pc[s]
      BY <2>2, GoTypes DEF PCs
    <3>2. cursor'[r] = 2 /\ cursor' \in [Tasks -> 1..(Cardinality(Numbers) + 1)]
      BY <2>2, SomeParts DEF TasksOK
    <3>3. \A s \in Tasks : s # r => cursor'[s] = cursor[s]
      BY <2>2 DEF TasksOK
    <3>4. TasksOK'
      BY <2>1, <2>2, <3>1, <3>2 DEF TasksOK
    <3>5. Program(r)'
      BY <2>1, <2>2, <3>1, <3>2 DEF Program, InFlight, Assembly
    <3> QED BY <2>1, <2>2, <3>1, <3>3, <3>4, <3>5, ProgramSame
  <2>3. CASE UNCHANGED cursor /\ Answer(r, "Ok", <<>>)
    <3>1. /\ TasksOK' /\ pc'[r] = "done"
          /\ \A s \in Tasks : s # r => pc'[s] = pc[s] /\ reply'[s] = reply[s]
      BY <2>1, <2>3, FailTypes DEF TasksOK, Codes, Fail
    <3>2. Program(r)'
      BY <2>1, <2>3, <3>1, <1>0 DEF Program, InFlight, Assembly
    <3> QED BY <2>1, <2>3, <3>1, <3>2, ProgramSame
  <2> QED BY <1>7, <2>2, <2>3 DEF Write
<1>8. ASSUME NEW r \in Tasks, ReadInfo(r) PROVE TasksOK' /\ \A x \in Tasks : Program(x)'
  <2>1. /\ UNCHANGED <<req, cursor, held>> /\ pc[r] = "read_info"
        /\ req[r] \in Asks /\ cursor[r] = 1 /\ held[r] = <<>> /\ reply[r].code = ""
    BY <1>8, <1>0 DEF ReadInfo, Program, InFlight
  <2>2. Within(req[r].upload) \subseteq Places
    BY <2>1, AskTypes, WithinTypes
  <2>3. CASE \E p \in {"rm", "open_object"} :
               /\ Go(r, p) /\ UNCHANGED reply
               /\ p = "rm" => /\ req[r].kind = "reap"
                              /\ todo' = [todo EXCEPT ![r] = Within(req[r].upload)]
               /\ p # "rm" => req[r].kind = "complete" /\ UNCHANGED todo
    <3>1. PICK p \in {"rm", "open_object"} :
               /\ Go(r, p) /\ UNCHANGED reply
               /\ p = "rm" => /\ req[r].kind = "reap"
                              /\ todo' = [todo EXCEPT ![r] = Within(req[r].upload)]
               /\ p # "rm" => req[r].kind = "complete" /\ UNCHANGED todo
      BY <2>3
    <3>2. p \in PCs
      BY DEF PCs
    <3>3. /\ TasksOK' /\ pc'[r] = p /\ \A s \in Tasks : s # r => pc'[s] = pc[s]
      BY <2>1, <2>2, <3>1, <3>2, GoTypes DEF TasksOK
    <3>4. Program(r)'
      BY <2>1, <3>1, <3>3 DEF Program, InFlight, Assembly
    <3> QED BY <2>1, <3>1, <3>3, <3>4, ProgramSame
  <2>4. CASE UNCHANGED todo /\ \E code \in {"Ok", "InvalidPartOrder", "InternalError"} : Fail(r, code)
    <3>1. PICK code \in {"Ok", "InvalidPartOrder", "InternalError"} : Fail(r, code)
      BY <2>4
    <3>2. code \in Codes
      BY DEF Codes
    <3>3. /\ TasksOK' /\ pc'[r] = "done"
          /\ \A s \in Tasks : s # r => pc'[s] = pc[s] /\ reply'[s] = reply[s]
      BY <2>1, <2>4, <3>1, <3>2, FailTypes DEF TasksOK
    <3>4. Program(r)'
      BY <2>1, <3>3 DEF Program, InFlight, Assembly
    <3> QED BY <2>1, <3>3, <3>4, ProgramSame
  <2> QED BY <1>8, <2>3, <2>4 DEF ReadInfo
<1>9. ASSUME NEW r \in Tasks, OpenObject(r) PROVE TasksOK' /\ \A x \in Tasks : Program(x)'
  <2>1. /\ UNCHANGED <<req, reply, cursor, held, todo>> /\ Go(r, "check_part")
        /\ pc[r] = "open_object" /\ req[r] \in Asks
    BY <1>9, <1>0 DEF OpenObject
  <2>2. /\ TasksOK' /\ pc'[r] = "check_part" /\ \A s \in Tasks : s # r => pc'[s] = pc[s]
    BY <2>1, GoTypes DEF TasksOK, PCs
  <2>3. /\ req[r].kind = "complete" /\ cursor[r] = 1 /\ Len(held[r]) = 0 /\ reply[r].code = ""
    BY <2>1, EmptySeq DEF Program, InFlight
  <2>4. Program(r)'
    <3>1. Len(req[r].parts) \in Nat
      BY <2>1, <2>3, <1>0
    <3>2. cursor[r] = 1 /\ Len(held[r]) = 0
      BY <2>3
    <3>3. cursor[r] <= Len(req[r].parts) + 1 /\ Len(held[r]) = cursor[r] - 1
      BY <3>1, <3>2
    <3> QED BY <2>1, <2>2, <2>3, <3>3 DEF Program, InFlight, Assembly
  <2> QED BY <2>1, <2>2, <2>4, ProgramSame
<1>10. ASSUME NEW r \in Tasks, CheckPart(r) PROVE TasksOK' /\ \A x \in Tasks : Program(x)'
  <2>1. /\ UNCHANGED <<req, cursor, held, todo>> /\ pc[r] = "check_part" /\ req[r] \in Asks
        /\ req[r].kind = "complete" /\ Len(held[r]) = cursor[r] - 1
        /\ cursor[r] <= Len(req[r].parts) + 1 /\ reply[r].code = ""
    BY <1>10, <1>0 DEF CheckPart, Program, InFlight, Assembly
  <2>2. Len(req[r].parts) \in Nat
    BY <2>1, AskPart
  <2>3. CASE cursor[r] > Len(req[r].parts) /\ Go(r, "open_meta") /\ UNCHANGED reply
    <3>1. /\ TasksOK' /\ pc'[r] = "open_meta" /\ \A s \in Tasks : s # r => pc'[s] = pc[s]
      BY <2>1, <2>3, GoTypes DEF TasksOK, PCs
    <3>2. Len(held[r]) = Len(req[r].parts)
      <4>1. cursor[r] \in Nat /\ Len(held[r]) \in Nat
        BY <1>0
      <4>2. /\ Len(held[r]) = cursor[r] - 1 /\ cursor[r] <= Len(req[r].parts) + 1
            /\ cursor[r] > Len(req[r].parts)
        BY <2>1, <2>3
      <4> QED BY <2>2, <4>1, <4>2
    <3>3. Program(r)'
      BY <2>1, <2>3, <3>1, <3>2 DEF Program, InFlight, Assembly
    <3> QED BY <2>1, <2>3, <3>1, <3>3, ProgramSame
  <2>4. CASE cursor[r] <= Len(req[r].parts) /\ Go(r, "read_part") /\ UNCHANGED reply
    <3>1. /\ TasksOK' /\ pc'[r] = "read_part" /\ \A s \in Tasks : s # r => pc'[s] = pc[s]
      BY <2>1, <2>4, GoTypes DEF TasksOK, PCs
    <3>3. Program(r)'
      BY <2>1, <2>4, <3>1 DEF Program, InFlight, Assembly
    <3> QED BY <2>1, <2>4, <3>1, <3>3, ProgramSame
  <2>5. CASE \E code \in {"InvalidPart", "InternalError"} : Fail(r, code)
    <3>0. PICK code \in {"InvalidPart", "InternalError"} : Fail(r, code)
      BY <2>5
    <3>1. /\ TasksOK' /\ pc'[r] = "done"
          /\ \A s \in Tasks : s # r => pc'[s] = pc[s] /\ reply'[s] = reply[s]
      BY <2>1, <3>0, FailTypes DEF TasksOK, Codes
    <3>2. Program(r)'
      BY <2>1, <3>1 DEF Program, InFlight, Assembly
    <3> QED BY <2>1, <3>1, <3>2, ProgramSame
  <2> QED BY <1>10, <2>3, <2>4, <2>5 DEF CheckPart, Settle
<1>11. ASSUME NEW r \in Tasks, ReadPart(r) PROVE TasksOK' /\ \A x \in Tasks : Program(x)'
  <2>1. /\ UNCHANGED <<req, cursor, todo>> /\ pc[r] = "read_part" /\ req[r] \in Asks
        /\ req[r].kind = "complete" /\ Len(held[r]) = cursor[r] - 1
        /\ cursor[r] <= Len(req[r].parts) /\ reply[r].code = ""
    BY <1>11, <1>0 DEF ReadPart, Program, InFlight, Assembly
  <2>2. req[r].upload \in Uploads /\ req[r].parts[cursor[r]] \in Numbers
    BY <2>1, <1>0, AskTypes
  <2>3. file[req[r].upload][PartHere(r)] \in Block \cup {ABSENT}
    BY <2>2 DEF StoreOK, FilesOK, PartHere
  <2>4. CASE /\ Go(r, "append") /\ UNCHANGED reply
             /\ \E c \in Block : held' = [held EXCEPT ![r] = Append(@, c)]
    <3>1. PICK c \in Block : held' = [held EXCEPT ![r] = Append(@, c)]
      BY <2>4
    <3>2. Append(held[r], c) \in Seq(Block) /\ Len(Append(held[r], c)) = Len(held[r]) + 1
      BY <1>0, AppendTypes
    <3>3. /\ held' \in [Tasks -> Seq(Block)] /\ held'[r] = Append(held[r], c)
          /\ \A s \in Tasks : s # r => held'[s] = held[s]
      BY <3>1, <3>2 DEF TasksOK
    <3>4. /\ TasksOK' /\ pc'[r] = "append" /\ \A s \in Tasks : s # r => pc'[s] = pc[s]
      BY <2>1, <2>4, <3>3, GoTypes DEF TasksOK, PCs
    <3>5. Len(held'[r]) = cursor[r]
      <4>1. cursor[r] \in Nat /\ Len(held[r]) = cursor[r] - 1
        BY <2>1, <1>0
      <4>2. Len(held'[r]) = Len(held[r]) + 1
        BY <3>2, <3>3
      <4> QED BY <4>1, <4>2
    <3>6. Program(r)'
      BY <2>1, <2>4, <3>4, <3>5 DEF Program, InFlight, Assembly
    <3> QED BY <2>1, <2>4, <3>3, <3>4, <3>6, ProgramSame
  <2>5. CASE Fail(r, "InternalError") /\ UNCHANGED held
    <3>1. /\ TasksOK' /\ pc'[r] = "done"
          /\ \A s \in Tasks : s # r => pc'[s] = pc[s] /\ reply'[s] = reply[s]
      BY <2>1, <2>5, FailTypes DEF TasksOK, Codes
    <3>2. Program(r)'
      BY <2>1, <3>1 DEF Program, InFlight, Assembly
    <3> QED BY <2>1, <2>5, <3>1, <3>2, ProgramSame
  <2>6. MANGLED \in Block
    BY DEF Block
  <2> QED BY <1>11, <2>3, <2>4, <2>5, <2>6 DEF ReadPart
<1>12. ASSUME NEW r \in Tasks, AppendBlock(r) PROVE TasksOK' /\ \A x \in Tasks : Program(x)'
  <2>1. /\ UNCHANGED <<req, held, todo>> /\ pc[r] = "append" /\ req[r] \in Asks
        /\ req[r].kind = "complete" /\ Len(held[r]) = cursor[r]
        /\ cursor[r] <= Len(req[r].parts) /\ reply[r].code = ""
    BY <1>12, <1>0 DEF AppendBlock, Program, InFlight, Assembly
  <2>2. /\ cursor[r] \in Nat /\ cursor[r] >= 1 /\ Len(req[r].parts) \in Nat
        /\ Len(req[r].parts) <= Cardinality(Numbers) /\ Cardinality(Numbers) \in Nat
    BY <2>1, <1>0, SomeParts
  <2>3. CASE /\ cursor' = [cursor EXCEPT ![r] = cursor[r] + 1]
             /\ Go(r, "check_part") /\ UNCHANGED reply
    <3>1. cursor[r] + 1 \in 1..(Cardinality(Numbers) + 1)
      <4>1. cursor[r] <= Len(req[r].parts)
        BY <2>1
      <4> QED BY <2>2, <4>1
    <3>2. /\ cursor'[r] = cursor[r] + 1 /\ \A s \in Tasks : s # r => cursor'[s] = cursor[s]
          /\ cursor' \in [Tasks -> 1..(Cardinality(Numbers) + 1)]
      BY <2>3, <3>1 DEF TasksOK
    <3>3. /\ TasksOK' /\ pc'[r] = "check_part" /\ \A s \in Tasks : s # r => pc'[s] = pc[s]
      BY <2>1, <2>3, <3>2, GoTypes DEF TasksOK, PCs
    <3>4. cursor'[r] <= Len(req[r].parts) + 1 /\ Len(held[r]) = cursor'[r] - 1
      <4>1. cursor[r] <= Len(req[r].parts) /\ Len(held[r]) = cursor[r] /\ cursor'[r] = cursor[r] + 1
        BY <2>1, <3>2
      <4> QED BY <2>2, <4>1
    <3>5. Program(r)'
      BY <2>1, <2>3, <3>3, <3>4 DEF Program, InFlight, Assembly
    <3> QED BY <2>1, <2>3, <3>2, <3>3, <3>5, ProgramSame
  <2>4. CASE Fail(r, "InternalError") /\ UNCHANGED cursor
    <3>1. /\ TasksOK' /\ pc'[r] = "done"
          /\ \A s \in Tasks : s # r => pc'[s] = pc[s] /\ reply'[s] = reply[s]
      BY <2>1, <2>4, FailTypes DEF TasksOK, Codes
    <3>2. Program(r)'
      BY <2>1, <2>4, <3>1 DEF Program, InFlight, Assembly
    <3> QED BY <2>1, <2>4, <3>1, <3>2, ProgramSame
  <2> QED BY <1>12, <2>3, <2>4 DEF AppendBlock, Settle
<1>13. ASSUME NEW r \in Tasks, OpenMeta(r) \/ WriteMeta(r)
       PROVE  TasksOK' /\ \A x \in Tasks : Program(x)'
  <2>1. /\ UNCHANGED <<req, reply, held, cursor>> /\ pc[r] \in {"open_meta", "write_meta"}
        /\ req[r] \in Asks /\ req[r].kind = "complete" /\ Len(held[r]) = Len(req[r].parts)
        /\ reply[r].code = "" /\ Go(r, IF pc[r] = "open_meta" THEN "write_meta" ELSE "rm")
        /\ UNCHANGED todo \/ todo' = [todo EXCEPT ![r] = Within(req[r].upload)]
    BY <1>13, <1>0 DEF OpenMeta, WriteMeta, Program, InFlight, Assembly
  <2>2. Within(req[r].upload) \subseteq Places
    BY <2>1, AskTypes, WithinTypes
  <2>3. todo' \in [Tasks -> SUBSET Places]
    BY <2>1, <2>2 DEF TasksOK
  <2>4. /\ TasksOK' /\ pc'[r] \in {"write_meta", "rm"} /\ \A s \in Tasks : s # r => pc'[s] = pc[s]
    BY <2>1, <2>3, GoTypes DEF TasksOK, PCs
  <2>5. Program(r)'
    BY <2>1, <2>4 DEF Program, InFlight, Assembly
  <2> QED BY <2>1, <2>4, <2>5, ProgramSame
<1>14. ASSUME NEW r \in Tasks, Emit(r) PROVE TasksOK' /\ \A x \in Tasks : Program(x)'
  <2>1. /\ UNCHANGED <<req, cursor, held, todo>> /\ pc[r] = "emit" /\ req[r] \in Asks
        /\ Answer(r, "Ok", held[r])
    BY <1>14, <1>0 DEF Emit
  <2>2. /\ TasksOK' /\ pc'[r] = "done"
        /\ \A s \in Tasks : s # r => pc'[s] = pc[s] /\ reply'[s] = reply[s]
    BY <2>1, <1>0, AnswerTypes DEF TasksOK, Codes
  <2>3. Program(r)'
    BY <2>1, <2>2 DEF Program, InFlight, Assembly
  <2> QED BY <2>1, <2>2, <2>3, ProgramSame
<1>15. ASSUME NEW r \in Tasks, NoticeEntry(r) \/ RemoveEntry(r)
       PROVE  TasksOK' /\ \A x \in Tasks : Program(x)'
  <2>1. UNCHANGED <<pc, req, reply, cursor, held>> /\ pc[r] = "rm"
    BY <1>15 DEF NoticeEntry, RemoveEntry
  <2>2. Within(req[r].upload) \subseteq Places /\ todo[r] \subseteq Places
    BY <2>1, <1>0, AskTypes, WithinTypes DEF TasksOK
  <2>3. \E t \in SUBSET Places : todo' = [todo EXCEPT ![r] = t]
    <3>1. CASE NoticeEntry(r)
      <4>1. PICK e \in Within(req[r].upload) : todo' = [todo EXCEPT ![r] = todo[r] \cup {e}]
        BY <3>1 DEF NoticeEntry
      <4> QED BY <2>2, <4>1
    <3>2. CASE RemoveEntry(r)
      <4>1. PICK e : todo' = [todo EXCEPT ![r] = todo[r] \ {e}]
        BY <3>2 DEF RemoveEntry
      <4> QED BY <2>2, <4>1
    <3> QED BY <1>15, <3>1, <3>2
  <2>4. TasksOK'
    BY <2>1, <2>3 DEF TasksOK
  <2> QED BY <2>1, <2>4, ProgramSame
<1>16. ASSUME NEW r \in Tasks, RemoveTop(r) PROVE TasksOK' /\ \A x \in Tasks : Program(x)'
  <2>1. /\ UNCHANGED <<req, cursor, held>> /\ pc[r] = "rm" /\ req[r] \in Asks
        /\ todo' = [todo EXCEPT ![r] = {}]
        /\ req[r].kind \in {"complete", "abort", "reap"}
        /\ req[r].kind = "complete" => Len(held[r]) = Len(req[r].parts)
        /\ reply[r].code = ""
    BY <1>16, <1>0 DEF RemoveTop, Program, InFlight
  <2>2. \/ Go(r, "emit") /\ UNCHANGED reply /\ req[r].kind = "complete"
        \/ \E code \in {"Ok", "InternalError"} : Fail(r, code)
    BY <1>16, <2>1 DEF RemoveTop, Removed
  <2>3. todo' \in [Tasks -> SUBSET Places]
    BY <2>1 DEF TasksOK
  <2>4. CASE Go(r, "emit") /\ UNCHANGED reply /\ req[r].kind = "complete"
    <3>1. /\ TasksOK' /\ pc'[r] = "emit" /\ \A s \in Tasks : s # r => pc'[s] = pc[s]
      BY <2>1, <2>3, <2>4, GoTypes DEF TasksOK, PCs
    <3>2. Program(r)'
      BY <2>1, <2>4, <3>1 DEF Program, InFlight, Assembly
    <3> QED BY <2>1, <2>4, <3>1, <3>2, ProgramSame
  <2>5. CASE \E code \in {"Ok", "InternalError"} : Fail(r, code)
    <3>1. PICK code \in {"Ok", "InternalError"} : Fail(r, code)
      BY <2>5
    <3>2. code \in Codes
      BY DEF Codes
    <3>3. /\ TasksOK' /\ pc'[r] = "done"
          /\ \A s \in Tasks : s # r => pc'[s] = pc[s] /\ reply'[s] = reply[s]
      BY <2>1, <2>3, <3>1, <3>2, FailTypes DEF TasksOK
    <3>4. Program(r)'
      BY <2>1, <3>3 DEF Program, InFlight, Assembly
    <3> QED BY <2>1, <3>3, <3>4, ProgramSame
  <2> QED BY <2>2, <2>4, <2>5
<1>17. ASSUME NEW r \in Tasks, Lands(r) PROVE TasksOK' /\ \A x \in Tasks : Program(x)'
  <2>1. UNCHANGED <<pc, req, reply, cursor, held, todo>>
    BY <1>17, LandMoves
  <2> QED BY <2>1, ProgramSame DEF TasksOK
<1> QED
  BY <1>1, <1>2, <1>3, <1>4, <1>5, <1>6, <1>7, <1>8, <1>9, <1>10, <1>11, <1>12, <1>13, <1>14,
     <1>15, <1>16, <1>17
  DEF Next, Step, Lands

LEMMA RestStep ==
  ASSUME TypeInv, \A x \in Tasks : Program(x) /\ Opened(x), Next
  PROVE  RestOK'
<1> USE DEF TypeInv
<1>0. \A r \in Tasks : /\ pc[r] # "idle" => req[r] \in Asks /\ req[r].upload \in Uploads
                                                            /\ KeyOf(r) \in Keys
                       /\ held[r] \in Seq(Block)
  BY AskTypes, Targets DEF Program, KeyOf, TasksOK
<1>9. pool' \in [Tasks -> {"clear", "afloat", "failed"}]
  <2>1. \/ UNCHANGED pool \/ pool' = [x \in Tasks |-> "clear"]
        \/ \E x \in Tasks, p \in {"clear", "afloat", "failed"} : pool' = [pool EXCEPT ![x] = p]
    BY DEF Next, Step, Crash, Start, WriteError, Abandon, MakeStaging, Open, Write, ReadInfo,
           OpenObject, CheckPart, ReadPart, AppendBlock, OpenMeta, WriteMeta, Emit, NoticeEntry,
           RemoveEntry, RemoveTop, Land, LandFails
  <2> QED BY <2>1 DEF RestOK
<1>1. CASE Crash
  BY <1>1, <1>9 DEF Crash, RestOK, ghosts
<1>2. ASSUME NEW r \in Tasks,
             \/ WriteError(r) \/ Abandon(r) \/ MakeStaging(r) \/ Open(r) \/ ReadInfo(r)
             \/ CheckPart(r) \/ ReadPart(r) \/ AppendBlock(r) \/ OpenMeta(r) \/ WriteMeta(r)
             \/ NoticeEntry(r) \/ RemoveTop(r)
      PROVE  RestOK'
  <2>1. UNCHANGED <<born, events, ghosts>> /\ unlinked' \subseteq Tasks
    BY <1>2 DEF WriteError, Abandon, MakeStaging, Open, ReadInfo, CheckPart, ReadPart,
                AppendBlock, OpenMeta, WriteMeta, NoticeEntry, RemoveTop, RestOK
  <2> QED BY <1>9, <2>1 DEF RestOK, ghosts
<1>3. ASSUME NEW r \in Tasks, Write(r) PROVE RestOK'
  <2>1. /\ UNCHANGED <<events, promised, settled>> /\ pc[r] = "write"
        /\ born' = born \cup {req[r].upload} /\ unlinked' = unlinked \ {r}
        /\ \/ UNCHANGED acked
           \/ /\ req[r].kind = "upload"
              /\ acked' = [acked EXCEPT ![<<req[r].upload, req[r].number>>] = req[r].body]
    BY <1>3 DEF Write
  <2>2. req[r].upload \in Uploads
    BY <2>1, <1>0
  <2>3. acked' \in [Uploads \X Numbers -> Values \cup {NONE, MANGLED}]
    <3>1. CASE UNCHANGED acked
      BY <3>1 DEF RestOK
    <3>2. CASE req[r].kind = "upload"
      <4>1. req[r].body \in Values /\ req[r].number \in Numbers
        BY <2>1, <3>2, <1>0, AskTypes
      <4> QED BY <2>1, <2>2, <4>1 DEF RestOK
    <3> QED BY <2>1, <3>1, <3>2
  <2> QED BY <1>9, <2>1, <2>2, <2>3 DEF RestOK
<1>4. ASSUME NEW r \in Tasks, OpenObject(r) PROVE RestOK'
  BY <1>9, <1>4 DEF OpenObject, RestOK
<1>5. ASSUME NEW r \in Tasks, Emit(r) PROVE RestOK'
  <2>1. /\ UNCHANGED <<unlinked, born, acked, promised>> /\ events' = Append(events, KeyOf(r))
        /\ settled' = [settled EXCEPT ![KeyOf(r)] = IF @ = NONE THEN held[r] ELSE @]
        /\ KeyOf(r) \in Keys /\ held[r] \in Seq(Block)
    BY <1>5, <1>0 DEF Emit
  <2>2. events' \in Seq(Keys)
    BY <2>1, AppendTypes DEF RestOK
  <2> QED BY <1>9, <2>1, <2>2 DEF RestOK
<1>6. ASSUME NEW r \in Tasks, RemoveEntry(r) PROVE RestOK'
  <2>1. UNCHANGED <<born, events, ghosts>> /\ unlinked' \subseteq Tasks
    BY <1>6 DEF RemoveEntry, RestOK
  <2> QED BY <1>9, <2>1 DEF RestOK, ghosts
<1>7. ASSUME NEW r \in Tasks, Start(r) PROVE RestOK'
  <2>1. PICK q \in Asks :
          \/ UNCHANGED <<acked, promised>>
          \/ /\ \/ UNCHANGED acked
                \/ /\ q.kind = "upload"
                   /\ \E c \in {NONE, MANGLED} : acked' = [acked EXCEPT ![<<q.upload, q.number>>] = c]
             /\ promised' = [s \in Tasks |->
                     IF s = r THEN [i \in DOMAIN q.parts |-> acked[<<q.upload, q.parts[i]>>]]
                     ELSE [i \in DOMAIN promised[s] |->
                             IF /\ InFlight(s) /\ q.kind = "upload"
                                /\ <<req[s].upload, req[s].parts[i]>> = <<q.upload, q.number>>
                             THEN NONE ELSE promised[s][i]]]
    <3>1. PICK q \in Asks :
            IF TOP \notin staging[q.upload] /\ q.kind # "create"
            THEN UNCHANGED <<acked, promised>>
            ELSE /\ acked' = IF q.kind # "upload" THEN acked
                      ELSE [acked EXCEPT ![<<q.upload, q.number>>] =
                             IF {s \in Tasks : InFlight(s) /\ req[s].kind = "upload"
                                   /\ <<req[s].upload, req[s].number>> = <<q.upload, q.number>>} = {}
                             THEN NONE ELSE MANGLED]
                 /\ promised' = [s \in Tasks |->
                     IF s = r THEN [i \in DOMAIN q.parts |-> acked[<<q.upload, q.parts[i]>>]]
                     ELSE [i \in DOMAIN promised[s] |->
                             IF /\ InFlight(s) /\ q.kind = "upload"
                                /\ <<req[s].upload, req[s].parts[i]>> = <<q.upload, q.number>>
                             THEN NONE ELSE promised[s][i]]]
      BY <1>7 DEF Start
    <3> QED BY <3>1
  <2>2. UNCHANGED <<unlinked, born, events, settled>>
    BY <1>7 DEF Start
  <2>3. acked' \in [Uploads \X Numbers -> Values \cup {NONE, MANGLED}]
    <3>1. q.kind = "upload" => q.upload \in Uploads /\ q.number \in Numbers
      BY AskTypes
    <3> QED BY <2>1, <3>1 DEF RestOK
  <2>4. promised' \in [Tasks -> Seq(Values \cup {NONE, MANGLED})]
    <3>1. CASE UNCHANGED promised
      BY <3>1 DEF RestOK
    <3>2. CASE promised' = [s \in Tasks |->
                     IF s = r THEN [i \in DOMAIN q.parts |-> acked[<<q.upload, q.parts[i]>>]]
                     ELSE [i \in DOMAIN promised[s] |->
                             IF /\ InFlight(s) /\ q.kind = "upload"
                                /\ <<req[s].upload, req[s].parts[i]>> = <<q.upload, q.number>>
                             THEN NONE ELSE promised[s][i]]]
      <4>1. q.upload \in Uploads /\ q.parts \in Seq(Numbers)
        BY AskTypes, ListTypes, EmptySeq
      <4>2. promised'[r] \in Seq(Values \cup {NONE, MANGLED})
        <5>1. promised'[r] = [i \in 1..Len(q.parts) |-> acked[<<q.upload, q.parts[i]>>]]
          BY <3>2, <4>1
        <5>2. \A i \in 1..Len(q.parts) : acked[<<q.upload, q.parts[i]>>] \in Values \cup {NONE, MANGLED}
          BY <4>1 DEF RestOK
        <5>3. Len(q.parts) \in Nat
          BY <4>1
        <5> QED BY <5>1, <5>2, <5>3, SeqDef
      <4>3. ASSUME NEW s \in Tasks, s # r PROVE promised'[s] \in Seq(Values \cup {NONE, MANGLED})
        <5>1. promised[s] \in Seq(Values \cup {NONE, MANGLED})
          BY DEF RestOK
        <5>2. /\ Len(promised[s]) \in Nat /\ DOMAIN promised[s] = 1..Len(promised[s])
              /\ \A i \in 1..Len(promised[s]) : promised[s][i] \in Values \cup {NONE, MANGLED}
          BY <5>1
        <5>3. promised'[s] = [i \in 1..Len(promised[s]) |->
                             IF /\ InFlight(s) /\ q.kind = "upload"
                                /\ <<req[s].upload, req[s].parts[i]>> = <<q.upload, q.number>>
                             THEN NONE ELSE promised[s][i]]
          BY <3>2, <4>3, <5>2
        <5>4. promised'[s] \in [1..Len(promised[s]) -> Values \cup {NONE, MANGLED}]
          BY <5>2, <5>3
        <5> QED BY <5>2, <5>4, SeqDef
      <4> QED BY <3>2, <4>2, <4>3
    <3> QED BY <2>1, <3>1, <3>2
  <2> QED BY <1>9, <2>2, <2>3, <2>4 DEF RestOK
<1>8. ASSUME NEW r \in Tasks, Lands(r) PROVE RestOK'
  BY <1>9, <1>8, LandMoves DEF RestOK
<1> QED
  BY <1>1, <1>2, <1>3, <1>4, <1>5, <1>6, <1>7, <1>8 DEF Next, Step, Lands

-----------------------------------------------------------------------------
(* What is in a staging directory, and whether it may come back.           *)

(* An id is begun once and asked about only afterwards.                    *)
LEMMA BegunStep ==
  ASSUME TypeInv, \A x \in Tasks : Program(x) /\ Opened(x) /\ Begun(x), Next
  PROVE  \A x \in Tasks : Begun(x)'
<1> USE DEF TypeInv
<1>1. ASSUME NEW r \in Tasks, Start(r) PROVE \A x \in Tasks : Begun(x)'
  <2>1. PICK q \in Asks :
          /\ q.kind = "create" => /\ q.upload \notin born
                                  /\ \A s \in Tasks : req[s].kind = "create" => req[s].upload # q.upload
          /\ q.kind \in {"upload", "complete", "abort"} => q.upload \in born
          /\ req' = [req EXCEPT ![r] = q]
          /\ Fail(r, "NoSuchUpload") \/ Go(r, Entry(q.kind))
    BY <1>1 DEF Start
  <2>2. UNCHANGED born
    BY <1>1 DEF Start
  <2>3. /\ req'[r] = q /\ \A s \in Tasks : s # r => req'[s] = req[s]
        /\ \A s \in Tasks : s # r => pc'[s] = pc[s]
        /\ pc'[r] = "mk_staging" => q.kind = "create"
    BY <2>1 DEF TasksOK, Fail, Answer, Go, Entry
  <2> QED BY <2>1, <2>2, <2>3 DEF Begun
<1>2. ASSUME NEW r \in Tasks, Write(r) PROVE \A x \in Tasks : Begun(x)'
  <2>1. /\ UNCHANGED req /\ born' = born \cup {req[r].upload} /\ pc[r] = "write"
        /\ \/ Go(r, "open") \/ Answer(r, "Ok", <<>>)
    BY <1>2 DEF Write
  <2>2. \A s \in Tasks : pc'[s] # "mk_staging" \/ (s # r /\ pc'[s] = pc[s])
    BY <2>1 DEF TasksOK, Answer, Go
  <2>3. req[r].kind \in {"create", "upload"}
    BY <2>1 DEF Program
  <2>4. ASSUME NEW x \in Tasks, pc'[x] = "mk_staging" PROVE req[x].upload \notin born'
    <3>1. x # r /\ pc[x] = "mk_staging" /\ req[x].kind = "create" /\ req[x].upload \notin born
      BY <2>2, <2>4 DEF Program, Begun
    <3>2. CASE req[r].kind = "upload"
      BY <2>1, <3>1, <3>2 DEF Begun
    <3>3. CASE req[r].kind = "create"
      BY <2>1, <3>1, <3>3 DEF Begun
    <3> QED BY <2>3, <3>2, <3>3
  <2> QED BY <2>1, <2>4 DEF Begun
<1>3. ASSUME UNCHANGED <<req, born>>, \A s \in Tasks : pc'[s] = "mk_staging" => pc[s] = "mk_staging"
      PROVE  \A x \in Tasks : Begun(x)'
  BY <1>3 DEF Begun
<1>4. CASE Crash
  BY <1>3, <1>4 DEF Crash
<1>5. ASSUME NEW r \in Tasks,
             \/ WriteError(r) \/ Abandon(r) \/ MakeStaging(r) \/ Open(r) \/ ReadInfo(r)
             \/ OpenObject(r) \/ CheckPart(r) \/ ReadPart(r) \/ AppendBlock(r) \/ OpenMeta(r)
             \/ WriteMeta(r) \/ Emit(r) \/ NoticeEntry(r) \/ RemoveEntry(r) \/ RemoveTop(r)
      PROVE  \A x \in Tasks : Begun(x)'
  <2>1. UNCHANGED <<req, born>>
    BY <1>5 DEF WriteError, Abandon, MakeStaging, Open, ReadInfo, OpenObject, CheckPart, ReadPart,
                AppendBlock, OpenMeta, WriteMeta, Emit, NoticeEntry, RemoveEntry, RemoveTop
  <2>2. \/ UNCHANGED pc
        \/ \E p \in PCs \ {"mk_staging"} : Go(r, p)
    BY <1>5 DEF WriteError, Abandon, MakeStaging, Open, ReadInfo, OpenObject, CheckPart, ReadPart,
                AppendBlock, OpenMeta, WriteMeta, Emit, NoticeEntry, RemoveEntry, RemoveTop,
                Removed, GiveUp, Settle, Fail, Answer, Go, PCs
  <2>3. \A s \in Tasks : pc'[s] = "mk_staging" => pc[s] = "mk_staging"
    BY <2>2 DEF TasksOK, Go
  <2> QED BY <1>3, <2>1, <2>3
<1>6. ASSUME NEW r \in Tasks, Lands(r) PROVE \A x \in Tasks : Begun(x)'
  BY <1>3, <1>6, LandMoves
<1> QED
  BY <1>1, <1>2, <1>4, <1>5, <1>6 DEF Next, Step, Lands

(* A task's step changes nothing of another task but what it was promised. *)
Acts(r) == Start(r) \/ Step(r) \/ WriteError(r) \/ Abandon(r)
LEMMA Frame ==
  ASSUME TypeInv, NEW r \in Tasks, Acts(r)
  PROVE  /\ \A x \in Tasks : x # r =>
              UNCHANGED <<pc[x], req[x], cursor[x], held[x], reply[x], pool[x]>>
         /\ ~AppendBlock(r) => UNCHANGED pool
         /\ ~Start(r) => UNCHANGED <<req, promised>>
<1> USE DEF TypeInv, TasksOK, Go, Fail, Answer
<1>1. CASE Start(r)
  BY <1>1 DEF Start
<1>2. CASE MakeStaging(r) \/ Open(r) \/ Write(r)
  BY <1>2 DEF MakeStaging, Open, Write, GiveUp, ghosts
<1>3. CASE ReadInfo(r) \/ OpenObject(r) \/ CheckPart(r)
  BY <1>3 DEF ReadInfo, OpenObject, CheckPart, Settle, ghosts
<1>4. CASE ReadPart(r)
  <2>1. UNCHANGED held \/ \E c : held' = [held EXCEPT ![r] = Append(@, c)]
    BY <1>4 DEF ReadPart
  <2>2. \A x \in Tasks : x # r => held'[x] = held[x]
    BY <2>1
  <2> QED BY <1>4, <2>2 DEF ReadPart, ghosts
<1>5. CASE OpenMeta(r) \/ WriteMeta(r) \/ Emit(r)
  BY <1>5 DEF OpenMeta, WriteMeta, Emit, ghosts
<1>6. CASE NoticeEntry(r) \/ RemoveEntry(r)
  BY <1>6 DEF NoticeEntry, RemoveEntry, ghosts
<1>7. CASE RemoveTop(r)
  BY <1>7 DEF RemoveTop, Removed, ghosts
<1>8. CASE WriteError(r) \/ Abandon(r)
  BY <1>8 DEF WriteError, Abandon, GiveUp, ghosts
<1>9. CASE AppendBlock(r)
  <2>1. /\ UNCHANGED <<req, held, promised>>
        /\ \/ Go(r, "check_part") /\ UNCHANGED reply
           \/ Fail(r, "InternalError")
    BY <1>9 DEF AppendBlock, Settle, ghosts
  <2>2. \/ UNCHANGED <<pool, cursor>>
        \/ /\ pool' = [pool EXCEPT ![r] = "afloat"]
           /\ cursor' = [cursor EXCEPT ![r] = cursor[r] + 1]
    BY <1>9 DEF AppendBlock
  <2>3. \A x \in Tasks : x # r => UNCHANGED <<pool[x], cursor[x]>>
    BY <2>2 DEF RestOK
  <2>4. \A x \in Tasks : x # r => UNCHANGED <<pc[x], reply[x]>>
    BY <2>1
  <2> QED BY <1>9, <2>1, <2>3, <2>4
<1> QED BY <1>1, <1>2, <1>3, <1>4, <1>5, <1>6, <1>7, <1>8, <1>9 DEF Acts, Step

LEMMA HousedStep ==
  ASSUME TypeInv, \A x \in Tasks : Program(x) /\ Opened(x), \A u \in Uploads : Housed(u), Next
  PROVE  \A u \in Uploads : Housed(u)'
<1> USE DEF TypeInv
<1>1. ASSUME NEW u \in Uploads, staging'[u] = staging[u],
             \A e \in Names : file'[u][e] # ABSENT => file[u][e] # ABSENT \/ In(e) \in staging[u]
      PROVE  Housed(u)'
  BY <1>1, NamesApart DEF Housed, Within
<1>2. ASSUME NEW S \in SUBSET (Tasks \ unlinked), Torn(S), UNCHANGED staging
      PROVE  \A u \in Uploads : Housed(u)'
  <2>1. ASSUME NEW u \in Uploads, NEW e \in Names, file'[u][e] # ABSENT PROVE file[u][e] # ABSENT
    <3>1. IF \E r \in S : pc[r] = "write" /\ req[r].upload = u /\ FileOf(r) = e
          THEN file'[u][e] = MANGLED ELSE file'[u][e] = file[u][e]
      BY <1>2, TornTypes
    <3> QED BY <2>1, <3>1 DEF Opened
  <2> QED BY <1>1, <1>2, <2>1
<1>3. CASE Crash
  BY <1>2, <1>3 DEF Crash
<1>4. ASSUME NEW r \in Tasks, WriteError(r) PROVE \A u \in Uploads : Housed(u)'
  <2>1. CASE UNCHANGED file
    BY <1>1, <1>4, <2>1 DEF WriteError
  <2>2. CASE r \notin unlinked /\ Torn({r})
    BY <1>2, <1>4, <2>2 DEF WriteError
  <2> QED BY <1>4, <2>1, <2>2 DEF WriteError
<1>5. ASSUME NEW r \in Tasks, MakeStaging(r) PROVE \A u \in Uploads : Housed(u)'
  <2>1. /\ UNCHANGED file /\ \A u \in Uploads : staging'[u] = staging[u] \/ staging'[u] = {TOP, PARTS}
    BY <1>5 DEF MakeStaging, StoreOK
  <2>2. ASSUME NEW u \in Uploads PROVE Housed(u)'
    <3>1. CASE staging'[u] = staging[u]
      BY <1>1, <2>1, <3>1
    <3>2. CASE staging'[u] = {TOP, PARTS}
      BY <3>2, NamesApart DEF Housed, Within
    <3> QED BY <2>1, <3>1, <3>2
  <2> QED BY <2>2
<1>6. ASSUME NEW r \in Tasks, Open(r) \/ Write(r) PROVE \A u \in Uploads : Housed(u)'
  <2>1. /\ UNCHANGED staging /\ req[r].upload \in Uploads /\ FileOf(r) \in Names
        /\ \/ UNCHANGED file
           \/ /\ \E c : file' = [file EXCEPT ![req[r].upload][FileOf(r)] = c]
              /\ \/ In(FileOf(r)) \in staging[req[r].upload]
                 \/ file[req[r].upload][FileOf(r)] # ABSENT
    BY <1>6, FileTypes DEF Open, Write, Opened
  <2>2. \A u \in Uploads, e \in Names :
          file'[u][e] # ABSENT => file[u][e] # ABSENT \/ In(e) \in staging[u]
    <3> SUFFICES ASSUME NEW u \in Uploads, NEW e \in Names
                 PROVE  file'[u][e] # ABSENT => file[u][e] # ABSENT \/ In(e) \in staging[u]
      OBVIOUS
    <3>1. file'[u][e] = file[u][e] \/ (u = req[r].upload /\ e = FileOf(r))
      <4>1. CASE UNCHANGED file
        BY <4>1
      <4>2. CASE \E c : file' = [file EXCEPT ![req[r].upload][FileOf(r)] = c]
        <5>1. PICK c : file' = [file EXCEPT ![req[r].upload][FileOf(r)] = c]
          BY <4>2
        <5>2. file \in [Uploads -> [Names -> Contents]]
          BY DEF StoreOK
        <5>3. file'[u] = IF u = req[r].upload THEN [file[u] EXCEPT ![FileOf(r)] = c] ELSE file[u]
          BY <2>1, <5>1, <5>2
        <5> QED BY <5>2, <5>3
      <4> QED BY <2>1, <4>1, <4>2
    <3> QED BY <2>1, <3>1
  <2> QED BY <1>1, <2>1, <2>2
<1>7. ASSUME NEW r \in Tasks, RemoveEntry(r) PROVE \A u \in Uploads : Housed(u)'
  <2>0. PICK v \in Uploads : v = req[r].upload
    BY <1>7, AskTypes DEF RemoveEntry, Program
  <2>1. CASE Inside(v, PARTS) = {} /\ staging' = [staging EXCEPT ![v] = @ \ {PARTS}] /\ UNCHANGED file
    <3>1. \A u \in Uploads : u # v => staging'[u] = staging[u]
      BY <2>1 DEF StoreOK
    <3>2. staging'[v] = staging[v] \ {PARTS}
      BY <2>0, <2>1 DEF StoreOK
    <3>3. \A e \in Within(v) \ {TOP} : In(e) # PARTS
      BY <2>1 DEF Inside
    <3>4. Within(v)' \subseteq Within(v)
      BY <2>1, <3>2 DEF Within
    <3>5. Housed(v)'
      BY <2>0, <3>2, <3>3, <3>4 DEF Housed
    <3> QED BY <1>1, <2>1, <3>1, <3>5
  <2>2. CASE UNCHANGED staging /\ \E e \in Names : file' = [file EXCEPT ![v][e] = ABSENT]
    <3>1. \A u \in Uploads, e \in Names : file'[u][e] # ABSENT => file[u][e] # ABSENT
      BY <2>0, <2>2 DEF StoreOK
    <3> QED BY <1>1, <2>2, <3>1
  <2> QED BY <1>7, <2>0, <2>1, <2>2 DEF RemoveEntry
<1>8. ASSUME NEW r \in Tasks, RemoveTop(r) PROVE \A u \in Uploads : Housed(u)'
  <2>a. PICK v \in Uploads : v = req[r].upload
    BY <1>8, AskTypes DEF RemoveTop, Program
  <2>0. v \in Uploads /\ UNCHANGED file
    BY <1>8 DEF RemoveTop
  <2>1. CASE Within(v) = {TOP} /\ staging' = [staging EXCEPT ![v] = {}]
    <3>1. \A u \in Uploads : u # v => staging'[u] = staging[u]
      BY <2>1 DEF StoreOK
    <3>2. staging'[v] = {}
      BY <2>0, <2>1 DEF StoreOK
    <3>3. \A e \in Names : file[v][e] = ABSENT
      BY <2>1, NamesApart DEF Within
    <3>4. Within(v)' = {}
      BY <2>0, <3>2, <3>3 DEF Within
    <3>5. Housed(v)'
      BY <3>4 DEF Housed
    <3> QED BY <1>1, <2>0, <3>1, <3>5
  <2>2. CASE UNCHANGED staging
    BY <1>1, <2>0, <2>2
  <2> QED BY <1>8, <2>a, <2>1, <2>2 DEF RemoveTop
<1>9. ASSUME NEW r \in Tasks,
             \/ Start(r) \/ Abandon(r) \/ ReadInfo(r) \/ OpenObject(r) \/ CheckPart(r) \/ ReadPart(r)
             \/ AppendBlock(r) \/ OpenMeta(r) \/ WriteMeta(r) \/ Emit(r) \/ NoticeEntry(r)
      PROVE  \A u \in Uploads : Housed(u)'
  <2>1. UNCHANGED <<staging, file>>
    BY <1>9 DEF Start, Abandon, ReadInfo, OpenObject, CheckPart, ReadPart, AppendBlock, OpenMeta,
                WriteMeta, Emit, NoticeEntry, fs
  <2> QED BY <1>1, <2>1
<1>10. ASSUME NEW r \in Tasks, Lands(r) PROVE \A u \in Uploads : Housed(u)'
  BY <1>1, <1>10, LandMoves
<1> QED BY <1>3, <1>4, <1>5, <1>6, <1>7, <1>8, <1>9, <1>10 DEF Next, Step, Lands

(* How a task comes to write.                                              *)
LEMMA Moves ==
  ASSUME TypeInv, NEW r \in Tasks, Program(r), Acts(r)
  PROVE  /\ pc'[r] = "write" => Open(r)
         /\ Busy(r)' => OpenObject(r) \/ Busy(r)
         /\ Writing(r)' => OpenObject(r) \/ Writing(r)
         /\ InFlight(r)' => InFlight(r) \/ Start(r)
<1> USE DEF TypeInv, TasksOK, Go, Fail, Answer, Busy, InFlight
<1> SUFFICES /\ pc'[r] = "write" => Open(r)
             /\ Busy(r)' => OpenObject(r) \/ Busy(r)
             /\ InFlight(r)' => InFlight(r) \/ Start(r)
  <2>1. pool'[r] = "afloat" => pool[r] = "afloat" \/ Busy(r)
    <3>1. AppendBlock(r) => Busy(r)
      BY DEF AppendBlock, Program, Assembly
    <3>2. ~AppendBlock(r) => UNCHANGED pool
      BY Frame
    <3> QED BY <3>1, <3>2
  <2>2. Writing(r)' <=> pool'[r] = "afloat" \/ Busy(r)'
    BY DEF Writing
  <2> QED BY <2>1, <2>2, WritingIs
<1>1. CASE Start(r)
  <2>1. PICK q \in Asks : /\ req' = [req EXCEPT ![r] = q]
                          /\ Fail(r, "NoSuchUpload") \/ Go(r, Entry(q.kind))
    BY <1>1 DEF Start
  <2>2. req'[r] = q /\ (pc'[r] = "done" \/ pc'[r] = Entry(q.kind))
    BY <2>1
  <2> QED BY <1>1, <2>2 DEF Entry
<1>2. CASE MakeStaging(r) \/ Open(r) \/ Write(r)
  BY <1>2 DEF MakeStaging, Open, Write, GiveUp, Program
<1>3. CASE ReadInfo(r)
  BY <1>3 DEF ReadInfo, Program
<1>4. CASE OpenObject(r) \/ CheckPart(r)
  BY <1>4 DEF OpenObject, CheckPart, Settle, Program, Assembly
<1>5. CASE ReadPart(r)
  <2>1. pc[r] = "read_part" /\ UNCHANGED req /\ (Go(r, "append") \/ Fail(r, "InternalError"))
    BY <1>5 DEF ReadPart
  <2> QED BY <2>1 DEF Program, Assembly
<1>6. CASE AppendBlock(r)
  <2>1. pc[r] = "append" /\ UNCHANGED req /\ (Go(r, "check_part") \/ Fail(r, "InternalError"))
    BY <1>6 DEF AppendBlock, Settle
  <2> QED BY <2>1 DEF Program, Assembly
<1>7. CASE OpenMeta(r) \/ WriteMeta(r)
  <2>1. pc[r] \in {"open_meta", "write_meta"} /\ UNCHANGED req /\ (Go(r, "write_meta") \/ Go(r, "rm"))
    BY <1>7 DEF OpenMeta, WriteMeta
  <2> QED BY <2>1 DEF Program, Assembly
<1>8. CASE Emit(r)
  BY <1>8 DEF Emit
<1>9. CASE NoticeEntry(r) \/ RemoveEntry(r)
  <2>1. pc[r] = "rm" /\ UNCHANGED <<pc, req>>
    BY <1>9 DEF NoticeEntry, RemoveEntry
  <2> QED BY <2>1
<1>10. CASE RemoveTop(r)
  <2>1. pc[r] = "rm" /\ UNCHANGED req /\ pc'[r] \in {"emit", "done"}
    BY <1>10 DEF RemoveTop, Removed
  <2> QED BY <2>1
<1>11. CASE WriteError(r) \/ Abandon(r)
  BY <1>11 DEF WriteError, Abandon, GiveUp
<1> QED BY <1>1, <1>2, <1>3, <1>4, <1>5, <1>6, <1>7, <1>8, <1>9, <1>10, <1>11 DEF Acts, Step

(* Whoever acts and writes an object is at it still.                       *)
LEMMA CutShortStays ==
  ASSUME TypeInv, NEW r \in Tasks, Program(r), CutShort(r)
  PROVE  ~Acts(r)
<1>1. pc[r] \in {"done", "lost"}
  BY CutShortEnds
<1> QED BY <1>1 DEF Acts, Step, Start, MakeStaging, Open, Write, ReadInfo, OpenObject, CheckPart,
     ReadPart, AppendBlock, OpenMeta, WriteMeta, Emit, NoticeEntry, RemoveEntry, RemoveTop,
     WriteError, Abandon, InFlight

LEMMA WriterActs ==
  ASSUME TypeInv, NEW r \in Tasks, Program(r), Opened(r), Acts(r), Writing(r)
  PROVE  Busy(r) /\ ~Start(r) /\ ~OpenObject(r)
<1>1. Busy(r)
  BY CutShortStays DEF Writing, Busy, Opened, Pooled, Looping
<1> QED BY <1>1 DEF Busy, Start, OpenObject

(* A block stays with its completion, however that goes on.                *)
LEMMA PooledStep ==
  ASSUME TypeInv, \A x \in Tasks : Program(x) /\ Program(x)' /\ Opened(x), Next, NEW x \in Tasks
  PROVE  Pooled(x)'
<1> USE DEF TypeInv
<1>1. CASE Crash
  BY <1>1 DEF Crash, Pooled
<1>2. ASSUME UNCHANGED <<pc[x], req[x], cursor[x], held[x], reply[x]>>,
             pool'[x] = pool[x] \/ pool[x] # "clear"
      PROVE  Pooled(x)'
  BY <1>2 DEF Opened, Pooled, CutShort
<1>3. ASSUME NEW r \in Tasks, Lands(r) PROVE Pooled(x)'
  <2>1. pool'[x] = pool[x] \/ pool[x] # "clear"
    BY <1>3, LandMoves
  <2> QED BY <1>2, <1>3, <2>1, LandMoves
<1>4. ASSUME NEW r \in Tasks, Acts(r), x # r PROVE Pooled(x)'
  BY <1>2, <1>4, Frame
<1>5. ASSUME Acts(x) PROVE Pooled(x)'
  <2>0. cursor[x] \in Nat /\ cursor[x] >= 1
    <3>1. cursor[x] \in 1..(Cardinality(Numbers) + 1)
      BY DEF TasksOK
    <3> QED BY <3>1, SomeParts
  <2>1. CASE pool[x] = "clear" /\ ~AppendBlock(x)
    BY <1>5, <2>1, Frame DEF Pooled
  <2>2. CASE AppendBlock(x)
    <3>1. /\ UNCHANGED <<req, held>> /\ pc[x] = "append" /\ req[x].kind = "complete"
          /\ Len(held[x]) = cursor[x]
      BY <2>2 DEF AppendBlock, Program, Assembly
    <3>2. CASE pool[x] = "clear"
      <4>1. pc'[x] = "check_part" /\ cursor'[x] = cursor[x] + 1
        BY <2>2, <3>2 DEF AppendBlock, Settle, Go, TasksOK
      <4> QED BY <2>0, <3>1, <4>1 DEF Pooled, Looping
    <3>3. CASE pool[x] # "clear"
      <4>1. UNCHANGED cursor /\ pc'[x] = "done" /\ reply'[x].code = "InternalError"
        BY <2>2, <3>3 DEF AppendBlock, Settle, Fail, Answer, TasksOK
      <4> QED BY <3>1, <3>3, <4>1 DEF Opened, Pooled, CutShort
    <3> QED BY <3>2, <3>3
  <2>3. CASE pool[x] # "clear" /\ ~AppendBlock(x)
    <3>1. /\ pc[x] \in Looping /\ req[x].kind = "complete" /\ 2 <= cursor[x]
          /\ cursor[x] - 1 <= Len(held[x])
      BY <1>5, <2>3, CutShortStays DEF Opened, Pooled
    <3>2. CheckPart(x) \/ ReadPart(x) \/ Abandon(x)
      BY <1>5, <2>3, <3>1 DEF Looping, Acts, Step, Start, MakeStaging, Open, Write, ReadInfo,
           OpenObject, OpenMeta, WriteMeta, Emit, NoticeEntry, RemoveEntry, RemoveTop, WriteError
    <3>3. UNCHANGED <<req, cursor>>
      BY <3>2 DEF CheckPart, ReadPart, Abandon
    <3>4. cursor[x] - 1 <= Len(held'[x])
      <4>1. CASE UNCHANGED held
        BY <3>1, <4>1
      <4>2. CASE \E c : held' = [held EXCEPT ![x] = Append(@, c)]
        <5>1. PICK c : held' = [held EXCEPT ![x] = Append(held[x], c)]
          BY <4>2
        <5>2. held[x] \in Seq(Block) /\ held'[x] = Append(held[x], c)
          BY <5>1 DEF TasksOK
        <5>3. Len(held[x]) \in Nat /\ Len(held'[x]) = Len(held[x]) + 1
          BY <5>2
        <5> QED BY <2>0, <3>1, <5>3
      <4> QED BY <3>2, <4>1, <4>2 DEF CheckPart, ReadPart, Abandon
    <3>5. pc'[x] \in Looping \/ CutShort(x)'
      <4>1. CASE CheckPart(x)
        <5>1. /\ pool[x] \in {"afloat", "failed"}
              /\ Settle(x, "open_meta") \/ Fail(x, "InvalidPart") \/ Go(x, "read_part")
          BY <2>3, <4>1 DEF CheckPart, RestOK
        <5>2. \E code \in {"InvalidPart", "InternalError"} : Fail(x, code) \/ Go(x, "read_part")
          BY <5>1 DEF Settle
        <5> QED BY <3>1, <3>3, <5>2 DEF Go, Fail, Answer, TasksOK, Looping, CutShort
      <4>2. CASE ReadPart(x)
        <5>1. Go(x, "append") \/ Fail(x, "InternalError")
          BY <4>2 DEF ReadPart
        <5> QED BY <3>1, <3>3, <5>1 DEF Go, Fail, Answer, TasksOK, Looping, CutShort
      <4>3. CASE Abandon(x)
        BY <3>1, <4>3 DEF Abandon, Go, TasksOK, CutShort
      <4> QED BY <3>2, <4>1, <4>2, <4>3
    <3>6. pc'[x] # "idle"
      BY <3>5, CutShortEnds DEF Looping, CutShort, Program
    <3> QED BY <3>1, <3>3, <3>4, <3>5, <3>6 DEF Pooled
  <2> QED BY <2>1, <2>2, <2>3
<1> QED BY <1>1, <1>3, <1>4, <1>5 DEF Next, Acts, Lands

(* What a task writes to is there, unless it was removed meanwhile.        *)
LEMMA OpenedStep ==
  ASSUME TypeInv, TypeInv', \A x \in Tasks : Program(x) /\ Program(x)' /\ Opened(x), Next
  PROVE  \A x \in Tasks : Opened(x)'
<1> USE DEF TypeInv
<1> DEFINE There(x) == pc[x] = "write" /\ x \notin unlinked => file[req[x].upload][FileOf(x)] # ABSENT
           Bytewise(x) == Writing(x) => object[KeyOf(x)] \in Seq(Block)
<1>0. ABSENT \notin {EMPTY, MANGLED}
  BY UploadMarkers
<1>1. ASSUME NEW x \in Tasks, UNCHANGED <<pc[x], req[x], cursor[x]>>, x \in unlinked' <=> x \in unlinked,
             pc[x] = "write" /\ x \notin unlinked /\ file[req[x].upload][FileOf(x)] # ABSENT
               => file'[req[x].upload][FileOf(x)] # ABSENT
      PROVE  There(x)'
  BY <1>1 DEF Opened, FileOf
<1>2. ASSUME NEW x \in Tasks, UNCHANGED <<pc[x], req[x]>>, pool'[x] = "afloat" => pool[x] = "afloat",
             Writing(x) => object'[KeyOf(x)] \in Seq(Block) \/ object'[KeyOf(x)] = object[KeyOf(x)]
      PROVE  Bytewise(x)'
  BY <1>2 DEF Opened, Writing, KeyOf
<1>3. ASSUME NEW S \in SUBSET (Tasks \ unlinked), Torn(S), UNCHANGED staging
      PROVE  /\ \A u \in Uploads, e \in Names : file[u][e] # ABSENT => file'[u][e] # ABSENT
             /\ \A k \in Keys : object[k] \in Seq(Block) => object'[k] \in Seq(Block)
  <2>1. <<MANGLED>> \in Seq(Block)
    BY DEF Block
  <2>2. ASSUME NEW u \in Uploads, NEW e \in Names PROVE file'[u][e] \in {file[u][e], MANGLED}
    BY <1>3, TornTypes
  <2>3. ASSUME NEW k \in Keys PROVE object'[k] \in {object[k], <<MANGLED>>}
    BY <1>3, TornTypes
  <2> QED BY <2>1, <2>2, <2>3, <1>0
<1>4. \A x \in Tasks : pc[x] # "idle" => KeyOf(x) \in Keys /\ req[x].upload \in Uploads
  BY AskTypes, Targets DEF Program, KeyOf
<1>5. \A x \in Tasks : pc[x] = "write" => FileOf(x) \in Names /\ req[x].upload \in Uploads
  BY FileTypes
<1>6. \A x \in Tasks : Writing(x) => KeyOf(x) \in Keys
  BY WriterKey
<1>7. CASE Crash
  <2>1. unlinked' = {} /\ \A x \in Tasks : pc'[x] # "write" /\ ~Writing(x)'
    BY <1>7 DEF Crash, InFlight, Writing
  <2> QED BY <2>1, PooledStep DEF Opened
<1>8. ASSUME NEW r \in Tasks, Acts(r), ~RemoveEntry(r) PROVE \A x \in Tasks : There(x)'
  <2>1. \A x \in Tasks : x # r => UNCHANGED <<pc[x], req[x], cursor[x]>>
    BY <1>8, Frame
  <2>2. unlinked' \in {unlinked, unlinked \ {r}}
    BY <1>8 DEF Acts, Step, Start, WriteError, Abandon, MakeStaging, Open, Write, ReadInfo,
                OpenObject, CheckPart, ReadPart, AppendBlock, OpenMeta, WriteMeta, Emit,
                NoticeEntry, RemoveTop
  <2>3. ASSUME NEW u \in Uploads, NEW e \in Names PROVE file[u][e] # ABSENT => file'[u][e] # ABSENT
    <3>1. CASE WriteError(r)
      BY <1>3, <3>1 DEF WriteError
    <3>2. CASE Write(r)
      <4>1. CASE UNCHANGED file
        BY <4>1
      <4>2. CASE \E c \in Mixed(Bytes(r), file[req[r].upload][FileOf(r)]) :
                   file' = [file EXCEPT ![req[r].upload][FileOf(r)] = c]
        <5>1. PICK c \in Mixed(Bytes(r), file[req[r].upload][FileOf(r)]) :
                   file' = [file EXCEPT ![req[r].upload][FileOf(r)] = c]
          BY <4>2
        <5>2. /\ c # ABSENT
              /\ file'[req[r].upload] = [file[req[r].upload] EXCEPT ![FileOf(r)] = c]
              /\ \A v \in Uploads : v # req[r].upload => file'[v] = file[v]
          BY <3>2, <5>1, WriteTypes DEF Write
        <5> QED BY <5>2 DEF StoreOK
      <4> QED BY <3>2, <4>1, <4>2 DEF Write
    <3>3. CASE Open(r)
      <4>1. /\ req[r].upload \in Uploads /\ FileOf(r) \in Names
            /\ \/ UNCHANGED file \/ file' = [file EXCEPT ![req[r].upload][FileOf(r)] = EMPTY]
        BY <3>3, FileTypes DEF Open
      <4>2. file' = [file EXCEPT ![req[r].upload][FileOf(r)] = EMPTY] =>
              file'[u] = IF u = req[r].upload THEN [file[u] EXCEPT ![FileOf(r)] = EMPTY] ELSE file[u]
        BY <4>1 DEF StoreOK
      <4> QED BY <4>1, <4>2, <1>0 DEF StoreOK
    <3>4. CASE ~WriteError(r) /\ ~Write(r) /\ ~Open(r)
      <4>1. UNCHANGED file
        BY <1>8, <3>4 DEF Acts, Step, Start, Abandon, MakeStaging, ReadInfo,
                OpenObject, CheckPart, ReadPart, AppendBlock, OpenMeta, WriteMeta, Emit,
                NoticeEntry, RemoveTop, fs
      <4> QED BY <4>1
    <3> QED BY <3>1, <3>2, <3>3, <3>4
  <2>4. ASSUME NEW x \in Tasks, x # r PROVE There(x)'
    BY <1>1, <1>5, <2>1, <2>2, <2>3, <2>4
  <2>5. There(r)'
    <3>1. CASE Open(r)
      <4>1. CASE file' = [file EXCEPT ![req[r].upload][FileOf(r)] = EMPTY]
        <5>1. req[r].upload \in Uploads /\ FileOf(r) \in Names /\ UNCHANGED <<req, cursor>>
          BY <3>1, FileTypes DEF Open
        <5>2. file'[req[r].upload][FileOf(r)] = EMPTY
          BY <4>1, <5>1 DEF StoreOK
        <5>3. FileOf(r)' = FileOf(r)
          BY <5>1 DEF FileOf
        <5> QED BY <5>1, <5>2, <5>3, <1>0
      <4>2. CASE pc'[r] # "write"
        BY <4>2
      <4> QED BY <3>1, <4>1, <4>2 DEF Open, GiveUp, Fail, Answer, TasksOK
    <3>2. CASE ~Open(r)
      <4>1. pc'[r] # "write"
        BY <1>8, <3>2, Moves
      <4> QED BY <4>1
    <3> QED BY <3>1, <3>2
  <2> QED BY <2>4, <2>5
<1>9. ASSUME NEW r \in Tasks, RemoveEntry(r) PROVE \A x \in Tasks : There(x)'
  <2>1. PICK v \in Uploads : v = req[r].upload
    BY <1>9, <1>4 DEF RemoveEntry
  <2>2. UNCHANGED <<pc, req, cursor>>
    BY <1>9 DEF RemoveEntry
  <2>3. CASE UNCHANGED <<file, unlinked>>
    BY <1>1, <2>2, <2>3
  <2>4. CASE \E e \in Names :
               /\ file' = [file EXCEPT ![v][e] = ABSENT]
               /\ unlinked' = unlinked \cup
                    {s \in Tasks : pc[s] = "write" /\ req[s].upload = v /\ FileOf(s) = e}
    <3>1. PICK e \in Names :
               /\ file' = [file EXCEPT ![v][e] = ABSENT]
               /\ unlinked' = unlinked \cup
                    {s \in Tasks : pc[s] = "write" /\ req[s].upload = v /\ FileOf(s) = e}
      BY <2>4
    <3>2. \A u \in Uploads, f \in Names : u # v \/ f # e => file'[u][f] = file[u][f]
      BY <3>1 DEF StoreOK
    <3>3. \A x \in Tasks : FileOf(x)' = FileOf(x)
      BY <2>2 DEF FileOf
    <3>4. ASSUME NEW x \in Tasks, pc[x] = "write", x \notin unlinked'
          PROVE  file'[req[x].upload][FileOf(x)] # ABSENT
      <4>1. req[x].upload # v \/ FileOf(x) # e
        BY <3>1, <3>4
      <4>2. file[req[x].upload][FileOf(x)] # ABSENT
        BY <3>1, <3>4 DEF Opened
      <4> QED BY <3>2, <3>4, <4>1, <4>2, <1>5
    <3> QED BY <2>2, <3>3, <3>4
  <2> QED BY <1>9, <2>1, <2>3, <2>4 DEF RemoveEntry
<1>10. ASSUME NEW r \in Tasks, Acts(r) PROVE \A x \in Tasks : Bytewise(x)'
  <2>1. \A x \in Tasks : x # r => UNCHANGED <<pc[x], req[x], pool[x]>>
    BY <1>10, Frame
  <2>2. \A k \in Keys : object[k] \in Seq(Block) => object'[k] \in Seq(Block)
    <3>1. CASE WriteError(r)
      BY <1>3, <3>1 DEF WriteError
    <3>2. CASE OpenObject(r)
      BY <3>2, EmptySeq DEF OpenObject, StoreOK
    <3>3. CASE ~WriteError(r) /\ ~OpenObject(r)
      <4>1. UNCHANGED object
        BY <1>10, <3>3 DEF Acts, Step, Start, Abandon, MakeStaging, Open, Write, ReadInfo, CheckPart,
                ReadPart, AppendBlock, OpenMeta, WriteMeta, Emit, NoticeEntry, RemoveEntry, RemoveTop,
                fs
      <4> QED BY <4>1
    <3> QED BY <3>1, <3>2, <3>3
  <2>3. ASSUME NEW x \in Tasks, x # r PROVE Bytewise(x)'
    BY <1>2, <1>6, <2>1, <2>2, <2>3 DEF Opened
  <2>4. Bytewise(r)'
    <3>1. CASE OpenObject(r)
      <4>1. object'[KeyOf(r)] = <<>> /\ KeyOf(r)' = KeyOf(r)
        BY <3>1, <1>4 DEF OpenObject, StoreOK, KeyOf
      <4> QED BY <4>1, EmptySeq
    <3>2. CASE ~OpenObject(r)
      <4>1. Writing(r)' => Writing(r)
        BY <1>10, <3>2, Moves
      <4>2. UNCHANGED req \/ ~Writing(r)'
        <5>1. CASE Start(r)
          <6>1. pool'[r] = "clear"
            BY <5>1, PoolClear DEF Start, Looping
          <6>2. pc'[r] = "done" \/ \E q \in Asks : pc'[r] = Entry(q.kind) /\ req'[r] = q
            BY <5>1 DEF Start, Fail, Answer, Go, TasksOK
          <6> QED BY <6>1, <6>2 DEF Entry, Writing
        <5>2. CASE ~Start(r)
          BY <1>10, <5>2, Frame
        <5> QED BY <5>1, <5>2
      <4>3. UNCHANGED req => KeyOf(r)' = KeyOf(r)
        BY DEF KeyOf
      <4> QED BY <2>2, <4>1, <4>2, <4>3, <1>6 DEF Opened
    <3> QED BY <3>1, <3>2
  <2> QED BY <2>3, <2>4
<1>12. ASSUME NEW r \in Tasks, Acts(r) PROVE \A x \in Tasks : x \in unlinked' => pc'[x] = "write"
  <2>1. CASE RemoveEntry(r)
    BY <2>1 DEF RemoveEntry, Opened
  <2>2. CASE Write(r) \/ WriteError(r)
    <3>1. unlinked' = unlinked \ {r} /\ \A x \in Tasks : x # r => pc'[x] = pc[x]
      BY <1>12, <2>2, Frame DEF Write, WriteError
    <3> QED BY <3>1 DEF Opened
  <2>3. CASE ~RemoveEntry(r) /\ ~Write(r) /\ ~WriteError(r)
    <3>1. /\ UNCHANGED unlinked /\ pc[r] # "write" /\ \A x \in Tasks : x # r => pc'[x] = pc[x]
      BY <1>12, <2>3, Frame DEF Acts, Step, Start, Abandon, MakeStaging, Open, ReadInfo,
                OpenObject, CheckPart, ReadPart, AppendBlock, OpenMeta, WriteMeta, Emit,
                NoticeEntry, RemoveTop
    <3> QED BY <3>1 DEF Opened
  <2> QED BY <2>1, <2>2, <2>3
<1>13. ASSUME NEW r \in Tasks, Lands(r), NEW x \in Tasks
       PROVE  There(x)' /\ Bytewise(x)' /\ (x \in unlinked' => pc'[x] = "write")
  <2>1. There(x)' /\ (x \in unlinked' => pc'[x] = "write")
    <3>1. UNCHANGED <<pc, req, cursor, unlinked, file>>
      BY <1>13, LandMoves
    <3> QED BY <1>1, <3>1 DEF Opened
  <2>2. pool'[x] = "afloat" => pool[x] = "afloat"
    BY <1>13, LandMoves
  <2>3. Writing(x) => object'[KeyOf(x)] \in Seq(Block) \/ object'[KeyOf(x)] = object[KeyOf(x)]
    BY <1>6, <1>13, LandMoves
  <2>4. Bytewise(x)'
    BY <1>2, <1>13, <2>2, <2>3, LandMoves
  <2> QED BY <2>1, <2>4
<1>11. ASSUME NEW x \in Tasks, There(x)', Bytewise(x)', x \in unlinked' => pc'[x] = "write"
       PROVE  Opened(x)'
  BY <1>11, PooledStep DEF Opened
<1> QED BY <1>7, <1>8, <1>9, <1>10, <1>11, <1>12, <1>13 DEF Next, Acts, Step, Lands

(* A staging directory that is gone is not made again: its id is begun, so *)
(* no request makes it, and a file needs its directory or was there before.*)
LEMMA StaysGone ==
  ASSUME TypeInv, \A x \in Tasks : Program(x) /\ Opened(x) /\ Begun(x), Next,
         NEW u \in Uploads, u \in born, Within(u) = {}
  PROVE  Within(u)' = {}
<1> USE DEF TypeInv
<1>1. staging[u] = {} /\ \A e \in Names : file[u][e] = ABSENT
  BY DEF Within
<1>2. SUFFICES staging'[u] = {} /\ \A e \in Names : file'[u][e] = ABSENT
  BY DEF Within
<1>3. ASSUME NEW S \in SUBSET (Tasks \ unlinked), Torn(S), UNCHANGED staging
      PROVE  staging'[u] = {} /\ \A e \in Names : file'[u][e] = ABSENT
  <2>1. ASSUME NEW e \in Names PROVE file'[u][e] = ABSENT
    <3>1. IF \E r \in S : pc[r] = "write" /\ req[r].upload = u /\ FileOf(r) = e
          THEN file'[u][e] = MANGLED ELSE file'[u][e] = file[u][e]
      BY <1>3, TornTypes
    <3> QED BY <1>1, <3>1 DEF Opened
  <2> QED BY <1>1, <1>3, <2>1
<1>4. CASE Crash
  BY <1>3, <1>4 DEF Crash
<1>5. ASSUME NEW r \in Tasks, WriteError(r)
      PROVE  staging'[u] = {} /\ \A e \in Names : file'[u][e] = ABSENT
  <2>1. CASE UNCHANGED file
    BY <1>1, <1>5, <2>1 DEF WriteError
  <2>2. CASE r \notin unlinked /\ Torn({r})
    BY <1>3, <1>5, <2>2 DEF WriteError
  <2> QED BY <1>5, <2>1, <2>2 DEF WriteError
<1>6. ASSUME NEW r \in Tasks, MakeStaging(r)
      PROVE  staging'[u] = {} /\ \A e \in Names : file'[u][e] = ABSENT
  <2>1. req[r].upload # u
    BY <1>6 DEF MakeStaging, Begun
  <2> QED BY <1>1, <1>6, <2>1 DEF MakeStaging, StoreOK
<1>7. ASSUME NEW r \in Tasks, Open(r) \/ Write(r)
      PROVE  staging'[u] = {} /\ \A e \in Names : file'[u][e] = ABSENT
  <2>1. /\ UNCHANGED staging /\ req[r].upload \in Uploads /\ FileOf(r) \in Names
        /\ \/ UNCHANGED file
           \/ /\ \E c : file' = [file EXCEPT ![req[r].upload][FileOf(r)] = c]
              /\ \/ In(FileOf(r)) \in staging[req[r].upload]
                 \/ file[req[r].upload][FileOf(r)] # ABSENT
    BY <1>7, FileTypes DEF Open, Write, Opened
  <2>2. CASE UNCHANGED file
    BY <1>1, <2>1, <2>2
  <2>3. CASE req[r].upload # u /\ \E c : file' = [file EXCEPT ![req[r].upload][FileOf(r)] = c]
    <3>1. file'[u] = file[u]
      BY <2>3 DEF StoreOK
    <3> QED BY <1>1, <2>1, <3>1
  <2> QED BY <1>1, <2>1, <2>2, <2>3
<1>8. ASSUME NEW r \in Tasks, RemoveEntry(r)
      PROVE  staging'[u] = {} /\ \A e \in Names : file'[u][e] = ABSENT
  <2>1. PICK v \in Uploads : v = req[r].upload
    BY <1>8, AskTypes DEF RemoveEntry, Program
  <2>2. CASE staging' = [staging EXCEPT ![v] = @ \ {PARTS}] /\ UNCHANGED file
    BY <1>1, <2>2 DEF StoreOK
  <2>3. CASE UNCHANGED staging /\ \E e \in Names : file' = [file EXCEPT ![v][e] = ABSENT]
    <3>1. \A e \in Names : file'[u][e] \in {file[u][e], ABSENT}
      BY <2>3 DEF StoreOK
    <3> QED BY <1>1, <2>3, <3>1
  <2> QED BY <1>8, <2>1, <2>2, <2>3 DEF RemoveEntry
<1>9. ASSUME NEW r \in Tasks, RemoveTop(r)
      PROVE  staging'[u] = {} /\ \A e \in Names : file'[u][e] = ABSENT
  BY <1>1, <1>9 DEF RemoveTop, StoreOK
<1>10. ASSUME NEW r \in Tasks,
             \/ Start(r) \/ Abandon(r) \/ ReadInfo(r) \/ OpenObject(r) \/ CheckPart(r) \/ ReadPart(r)
             \/ AppendBlock(r) \/ OpenMeta(r) \/ WriteMeta(r) \/ Emit(r) \/ NoticeEntry(r)
       PROVE  staging'[u] = {} /\ \A e \in Names : file'[u][e] = ABSENT
  <2>1. UNCHANGED <<staging, file>>
    BY <1>10 DEF Start, Abandon, ReadInfo, OpenObject, CheckPart, ReadPart, AppendBlock, OpenMeta,
                 WriteMeta, Emit, NoticeEntry, fs
  <2> QED BY <1>1, <2>1
<1>11. ASSUME NEW r \in Tasks, Lands(r)
       PROVE  staging'[u] = {} /\ \A e \in Names : file'[u][e] = ABSENT
  BY <1>1, <1>11, LandMoves
<1> QED BY <1>4, <1>5, <1>6, <1>7, <1>8, <1>9, <1>10, <1>11 DEF Next, Step, Lands

(* Only the removal of the last directory answers an abort with Ok.        *)
LEMMA Answering ==
  ASSUME TypeInv, NEW r \in Tasks, Program(r), Acts(r), reply'[r] # reply[r]
  PROVE  /\ pc'[r] = "done"
         /\ req'[r].kind = "abort" /\ reply'[r].code = "Ok" => Within(req[r].upload)' = {}
         /\ req'[r].kind = "complete" /\ reply'[r].code = "Ok" => Emit(r)
<1> USE DEF TypeInv, TasksOK, Fail, Answer
<1>1. CASE Start(r)
  <2>1. Fail(r, "NoSuchUpload")
    BY <1>1 DEF Start
  <2> QED BY <2>1
<1>2. CASE Open(r) \/ Write(r) \/ WriteError(r)
  <2>1. UNCHANGED req /\ pc'[r] = "done" /\ pc[r] \notin {"idle", "done", "lost", "rm", "emit"}
    BY <1>2 DEF Open, Write, WriteError, GiveUp
  <2>2. reply'[r].code = "Ok" => pc[r] \in {"open", "write"}
    BY <1>2 DEF Open, Write, WriteError, GiveUp
  <2> QED BY <2>1, <2>2 DEF Program
<1>3. CASE ReadInfo(r) \/ CheckPart(r) \/ AppendBlock(r)
  BY <1>3 DEF ReadInfo, CheckPart, AppendBlock, Settle
<1>4. CASE ReadPart(r)
  <2>1. UNCHANGED req /\ (UNCHANGED reply \/ Fail(r, "InternalError"))
    BY <1>4 DEF ReadPart
  <2> QED BY <2>1
<1>5. CASE Emit(r)
  BY <1>5 DEF Emit, Program, Assembly
<1>6. CASE RemoveTop(r)
  <2>1. /\ UNCHANGED req /\ pc[r] = "rm" /\ req[r].kind # "complete" /\ pc'[r] = "done"
    BY <1>6 DEF RemoveTop, Removed
  <2>2. CASE /\ Within(req[r].upload) = {TOP} /\ staging' = [staging EXCEPT ![req[r].upload] = {}]
             /\ UNCHANGED file
    <3>1. PICK u \in Uploads : u = req[r].upload
      BY <2>1, AskTypes DEF Program
    <3>2. staging'[u] = {} /\ \A e \in Names : file'[u][e] = ABSENT
      BY <2>2, <3>1, NamesApart DEF Within, StoreOK
    <3>3. Within(u)' = {}
      BY <3>2 DEF Within
    <3>4. req'[r].upload = u
      BY <2>1, <3>1
    <3>5. Within(req[r].upload)' = {}
      BY <3>3, <3>4 DEF Within
    <3> QED BY <2>1, <3>5
  <2>3. CASE Removed(r, FALSE)
    <3>1. req[r].kind = "abort" => reply'[r].code = "InternalError"
      BY <2>1, <2>3 DEF Removed
    <3> QED BY <2>1, <3>1
  <2> QED BY <1>6, <2>2, <2>3 DEF RemoveTop
<1>7. CASE \/ MakeStaging(r) \/ OpenObject(r) \/ OpenMeta(r) \/ WriteMeta(r)
           \/ NoticeEntry(r) \/ RemoveEntry(r) \/ Abandon(r)
  BY <1>7 DEF MakeStaging, OpenObject, OpenMeta, WriteMeta, NoticeEntry, RemoveEntry,
              Abandon
<1> QED BY <1>1, <1>2, <1>3, <1>4, <1>5, <1>6, <1>7 DEF Acts, Step

LEMMA GoneStep ==
  ASSUME TypeInv, \A x \in Tasks : Program(x) /\ Opened(x) /\ Begun(x), Next, AbortedIsGone
  PROVE  AbortedIsGone'
<1> SUFFICES ASSUME NEW x \in Tasks, req'[x].kind = "abort", reply'[x].code = "Ok"
             PROVE  Within(req[x].upload)' = {}
  BY DEF AbortedIsGone
<1>1. CASE UNCHANGED <<req[x], reply[x]>>
  <2>1. /\ req[x].upload \in born /\ Within(req[x].upload) = {} /\ pc[x] # "idle"
    BY <1>1 DEF AbortedIsGone, Begun, Program, NoAsk
  <2>2. PICK u \in Uploads : u = req[x].upload
    BY <2>1, AskTypes DEF Program
  <2>3. Within(u)' = {}
    BY <2>1, <2>2, StaysGone
  <2>4. req'[x].upload = u
    BY <1>1, <2>2
  <2> QED BY <2>3, <2>4 DEF Within
<1>2. CASE ~UNCHANGED <<req[x], reply[x]>>
  <2>1. ~Crash
    BY <1>2 DEF Crash
  <2>2. Acts(x)
    <3>1. \A r \in Tasks : ~Lands(r)
      BY <1>2, LandMoves DEF AbortedIsGone
    <3> QED BY <1>2, <2>1, <3>1, Frame DEF Next, Acts, Lands
  <2>3. CASE reply'[x] # reply[x]
    BY <2>2, <2>3, Answering
  <2>4. CASE reply'[x] = reply[x]
    <3>1. Start(x)
      BY <1>2, <2>2, <2>4, Frame
    <3>2. reply[x].code = ""
      BY <3>1 DEF Start, Program
    <3> QED BY <2>4, <3>2
  <2> QED BY <2>3, <2>4
<1> QED BY <1>1, <1>2

-----------------------------------------------------------------------------
(* The parts of an upload, and what a completion reads of them.            *)

(* Who is at a part's file is uploading that part.                         *)
LEMMA AtPart ==
  ASSUME NEW r \in Tasks, Program(r), pc[r] \in {"open", "write"}, NEW n \in Numbers,
         FileOf(r) = Part(n)
  PROVE  Uploading(r, req[r].upload, n) /\ cursor[r] = 1
<1>1. /\ req[r].kind \in {"create", "upload"} /\ cursor[r] \in {1, 2}
      /\ req[r].kind = "create" => FileOf(r) \in {INFO, TYPE}
      /\ req[r].kind = "upload" => /\ req[r].number \in Numbers
                                   /\ FileOf(r) = IF cursor[r] = 1 THEN Part(req[r].number)
                                                  ELSE PartInfo(req[r].number)
  BY FileTypes
<1> QED BY <1>1, NamesApart DEF Uploading, InFlight

(* Only uploads of it change what is stored of a part, or a removal.       *)
LEMMA StoredMoves ==
  ASSUME TypeInv, \A x \in Tasks : Program(x) /\ Opened(x), Next,
         NEW u \in Uploads, NEW n \in Numbers, \A s \in Tasks : ~Uploading(s, u, n)
  PROVE  Stored(u, n)' \in {Stored(u, n), ABSENT}
<1> USE DEF TypeInv
<1>0. Part(n) \in Names
  BY NamesApart
<1>1. ASSUME NEW S \in SUBSET Tasks, Torn(S), UNCHANGED staging PROVE Stored(u, n)' = Stored(u, n)
  <2>1. IF \E r \in S : pc[r] = "write" /\ req[r].upload = u /\ FileOf(r) = Part(n)
        THEN file'[u][Part(n)] = MANGLED ELSE file'[u][Part(n)] = file[u][Part(n)]
    BY <1>0, <1>1, TornTypes
  <2>2. ~\E r \in S : pc[r] = "write" /\ req[r].upload = u /\ FileOf(r) = Part(n)
    BY AtPart
  <2> QED BY <2>1, <2>2 DEF Stored, Part
<1>2. CASE Crash
  BY <1>1, <1>2 DEF Crash
<1>3. ASSUME NEW r \in Tasks, WriteError(r) PROVE Stored(u, n)' = Stored(u, n)
  BY <1>1, <1>3 DEF WriteError, Stored
<1>4. ASSUME NEW r \in Tasks, Open(r) \/ Write(r) PROVE Stored(u, n)' = Stored(u, n)
  <2>1. pc[r] \in {"open", "write"} /\ FileOf(r) \in Names /\ req[r].upload \in Uploads
    BY <1>4, FileTypes DEF Open, Write
  <2>2. req[r].upload # u \/ FileOf(r) # Part(n)
    BY <2>1, AtPart
  <2>3. UNCHANGED file \/ \E c : file' = [file EXCEPT ![req[r].upload][FileOf(r)] = c]
    BY <1>4 DEF Open, Write
  <2>4. file'[u][Part(n)] = file[u][Part(n)]
    <3>1. CASE UNCHANGED file
      BY <3>1
    <3>2. CASE \E c : file' = [file EXCEPT ![req[r].upload][FileOf(r)] = c]
      <4>1. PICK c : file' = [file EXCEPT ![req[r].upload][FileOf(r)] = c]
        BY <3>2
      <4>2. file \in [Uploads -> [Names -> Contents]]
        BY DEF StoreOK
      <4>3. file'[u] = IF u = req[r].upload THEN [file[u] EXCEPT ![FileOf(r)] = c] ELSE file[u]
        BY <2>1, <4>1, <4>2
      <4> QED BY <1>0, <2>2, <4>2, <4>3
    <3> QED BY <2>3, <3>1, <3>2
  <2> QED BY <2>4 DEF Stored, Part
<1>5. ASSUME NEW r \in Tasks, RemoveEntry(r) PROVE Stored(u, n)' \in {Stored(u, n), ABSENT}
  <2>1. UNCHANGED file \/ \E e \in Names : file' = [file EXCEPT ![req[r].upload][e] = ABSENT]
    BY <1>5 DEF RemoveEntry
  <2>2. file'[u][Part(n)] \in {file[u][Part(n)], ABSENT}
    <3>1. CASE UNCHANGED file
      BY <3>1
    <3>2. CASE \E e \in Names : file' = [file EXCEPT ![req[r].upload][e] = ABSENT]
      <4>1. PICK e \in Names : file' = [file EXCEPT ![req[r].upload][e] = ABSENT]
        BY <3>2
      <4>2. file \in [Uploads -> [Names -> Contents]]
        BY DEF StoreOK
      <4>3. file'[u] = IF u = req[r].upload THEN [file[u] EXCEPT ![e] = ABSENT] ELSE file[u]
        BY <4>1, <4>2
      <4> QED BY <1>0, <4>2, <4>3
    <3> QED BY <2>1, <3>1, <3>2
  <2> QED BY <2>2 DEF Stored, Part
<1>6. ASSUME NEW r \in Tasks,
             \/ Start(r) \/ Abandon(r) \/ MakeStaging(r) \/ ReadInfo(r) \/ OpenObject(r)
             \/ CheckPart(r) \/ ReadPart(r) \/ AppendBlock(r) \/ OpenMeta(r) \/ WriteMeta(r)
             \/ Emit(r) \/ NoticeEntry(r) \/ RemoveTop(r)
      PROVE  Stored(u, n)' = Stored(u, n)
  <2>1. UNCHANGED file
    BY <1>6 DEF Start, Abandon, MakeStaging, ReadInfo, OpenObject, CheckPart, ReadPart, AppendBlock,
                OpenMeta, WriteMeta, Emit, NoticeEntry, RemoveTop, fs
  <2> QED BY <2>1 DEF Stored
<1>7. ASSUME NEW r \in Tasks, Lands(r) PROVE Stored(u, n)' = Stored(u, n)
  <2>1. UNCHANGED file
    BY <1>7, LandMoves
  <2> QED BY <2>1 DEF Stored, Part
<1> QED BY <1>2, <1>3, <1>4, <1>5, <1>6, <1>7 DEF Next, Step, Lands

(* Nothing happens to a part.                                              *)
LEMMA PartSame ==
  ASSUME NEW u \in Uploads, NEW n \in Numbers, PartOK(u, n),
         acked'[<<u, n>>] = acked[<<u, n>>], Stored(u, n)' = Stored(u, n),
         \A s \in Tasks : Uploading(s, u, n)' =>
           /\ Uploading(s, u, n) /\ UNCHANGED <<req[s], cursor[s]>>
           /\ pc'[s] = "write" /\ cursor[s] = 1 => pc[s] = "write"
           /\ s \in unlinked' <=> s \in unlinked
  PROVE  PartOK(u, n)'
  BY DEF PartOK

(* What an upload of a part does to the others.                            *)
LEMMA OtherUploads ==
  ASSUME TypeInv, NEW r \in Tasks, Program(r), Acts(r), NEW u \in Uploads, NEW n \in Numbers
  PROVE  /\ \A s \in Tasks : s # r => (Uploading(s, u, n)' <=> Uploading(s, u, n))
         /\ ~Start(r) /\ Uploading(r, u, n)' => Uploading(r, u, n)
<1>1. ASSUME NEW s \in Tasks, s # r PROVE Uploading(s, u, n)' <=> Uploading(s, u, n)
  BY <1>1, Frame DEF Uploading, InFlight
<1>2. ASSUME ~Start(r), Uploading(r, u, n)' PROVE Uploading(r, u, n)
  BY <1>2, Frame, Moves DEF Uploading
<1> QED BY <1>1, <1>2

LEMMA PartStart ==
  ASSUME TypeInv, NEW r \in Tasks, \A x \in Tasks : Program(x), Start(r),
         NEW u \in Uploads, NEW n \in Numbers, PartOK(u, n)
  PROVE  PartOK(u, n)'
<1> USE DEF TypeInv
<1>1. PICK q \in Asks :
        /\ req' = [req EXCEPT ![r] = q]
        /\ \/ Fail(r, "NoSuchUpload") /\ UNCHANGED acked
           \/ /\ Go(r, Entry(q.kind))
              /\ acked' = IF q.kind # "upload" THEN acked
                      ELSE [acked EXCEPT ![<<q.upload, q.number>>] =
                             IF {s \in Tasks : InFlight(s) /\ req[s].kind = "upload"
                                   /\ <<req[s].upload, req[s].number>> = <<q.upload, q.number>>} = {}
                             THEN NONE ELSE MANGLED]
  BY DEF Start
<1>2. UNCHANGED <<file, cursor, unlinked>> /\ pc[r] = "idle" /\ cursor[r] = 1
  BY DEF Start, fs, Program
<1>3. Stored(u, n)' = Stored(u, n)
  BY <1>2 DEF Stored
<1>4. /\ \A s \in Tasks : s # r => /\ Uploading(s, u, n)' <=> Uploading(s, u, n)
                                   /\ UNCHANGED <<pc[s], req[s], cursor[s]>>
  BY OtherUploads, Frame DEF Acts
<1>5. ~Uploading(r, u, n)
  BY <1>2 DEF Uploading, InFlight
<1>6. req'[r] = q /\ pc'[r] \in {"done", Entry(q.kind)}
  BY <1>1 DEF TasksOK, Fail, Answer, Go
<1>7. CASE q.kind = "upload" /\ q.upload = u /\ q.number = n /\ pc'[r] # "done"
  <2>1. /\ pc'[r] = "open"
        /\ acked' = [acked EXCEPT ![<<u, n>>] =
                       IF {s \in Tasks : Uploading(s, u, n)} = {} THEN NONE ELSE MANGLED]
    <3>1. acked' = [acked EXCEPT ![<<q.upload, q.number>>] =
                       IF {s \in Tasks : InFlight(s) /\ req[s].kind = "upload"
                             /\ <<req[s].upload, req[s].number>> = <<q.upload, q.number>>} = {}
                       THEN NONE ELSE MANGLED]
      BY <1>1, <1>7 DEF Fail, Answer, TasksOK
    <3>2. {s \in Tasks : InFlight(s) /\ req[s].kind = "upload"
             /\ <<req[s].upload, req[s].number>> = <<q.upload, q.number>>}
            = {s \in Tasks : Uploading(s, u, n)}
      BY <1>7 DEF Uploading
    <3> QED BY <1>6, <1>7, <3>1, <3>2 DEF Entry
  <2>2. CASE {s \in Tasks : Uploading(s, u, n)} = {}
    <3>1. acked'[<<u, n>>] = NONE /\ \A s \in Tasks : Uploading(s, u, n)' => s = r
      BY <1>4, <2>1, <2>2 DEF RestOK
    <3> QED BY <1>2, <2>1, <3>1, UploadMarkers DEF PartOK
  <2>3. CASE {s \in Tasks : Uploading(s, u, n)} # {}
    <3>1. acked'[<<u, n>>] = MANGLED
      BY <2>1, <2>3 DEF RestOK
    <3> QED BY <3>1, UploadMarkers DEF PartOK
  <2> QED BY <2>2, <2>3
<1>8. CASE ~(q.kind = "upload" /\ q.upload = u /\ q.number = n /\ pc'[r] # "done")
  <2>1. acked'[<<u, n>>] = acked[<<u, n>>]
    <3>1. CASE UNCHANGED acked
      BY <3>1
    <3>2. CASE Go(r, Entry(q.kind)) /\ q.kind = "upload"
      <4>1. pc'[r] # "done"
        BY <3>2 DEF Go, Entry, TasksOK
      <4>2. <<q.upload, q.number>> # <<u, n>>
        BY <1>8, <3>2, <4>1
      <4> QED BY <1>1, <3>2, <4>2 DEF RestOK
    <3> QED BY <1>1, <3>1, <3>2
  <2>2. ~Uploading(r, u, n)'
    BY <1>6, <1>8 DEF Uploading, InFlight
  <2> QED BY <1>2, <1>3, <1>4, <2>1, <2>2, PartSame
<1> QED BY <1>7, <1>8

LEMMA PartFile ==
  ASSUME TypeInv, NEW r \in Tasks, Program(r), Opened(r), Open(r) \/ Write(r),
         NEW u \in Uploads, NEW n \in Numbers, PartOK(u, n)
  PROVE  PartOK(u, n)'
<1> USE DEF TypeInv
<1>1. /\ pc[r] \in {"open", "write"} /\ FileOf(r) \in Names /\ req[r].upload \in Uploads
      /\ req[r].kind = "upload" => /\ req[r].number \in Numbers /\ req[r].body \in Values
                                   /\ cursor[r] = 1 => FileOf(r) = Part(req[r].number)
                                   /\ FileOf(r) \notin {INFO, TYPE} => Bytes(r) = req[r].body
      /\ cursor[r] \in {1, 2}
  BY FileTypes DEF Open, Write
<1>2. /\ \A s \in Tasks : s # r => /\ Uploading(s, u, n)' <=> Uploading(s, u, n)
                                   /\ UNCHANGED <<pc[s], req[s], cursor[s]>>
                                   /\ s \in unlinked' <=> s \in unlinked
      /\ Uploading(r, u, n)' => Uploading(r, u, n)
      /\ UNCHANGED req
  <2>1. Acts(r) /\ ~Start(r)
    BY DEF Acts, Step, Open, Write, Start
  <2>2. \A s \in Tasks : s # r => (s \in unlinked' <=> s \in unlinked)
    BY DEF Open, Write
  <2> QED BY <2>1, <2>2, OtherUploads, Frame
<1>3. Part(n) \in Names /\ Part(n)' = Part(n)
  BY NamesApart DEF Part
<1>4. CASE FileOf(r) = Part(n) /\ req[r].upload = u
  <2>1. Uploading(r, u, n) /\ cursor[r] = 1 /\ Bytes(r) = req[r].body /\ req[r].kind = "upload"
    BY <1>1, <1>4, AtPart, NamesApart DEF Uploading
  <2>2. acked[<<u, n>>] \notin Values /\ UNCHANGED acked
    BY <2>1 DEF PartOK, Open, Write, ghosts
  <2>3. CASE acked[<<u, n>>] # NONE
    BY <2>2, <2>3 DEF PartOK
  <2>4. CASE acked[<<u, n>>] = NONE
    <3>1. \A s \in Tasks : Uploading(s, u, n)' => s = r
      BY <1>2, <2>1, <2>4 DEF PartOK
    <3>2. CASE Open(r)
      <4>1. r \notin unlinked' /\ cursor'[r] = 1
        BY <2>1, <3>2 DEF Open, Opened
      <4>2. Stored(u, n)' = EMPTY \/ pc'[r] # "write"
        <5>1. CASE file' = [file EXCEPT ![u][Part(n)] = EMPTY]
          BY <1>3, <5>1 DEF Stored, StoreOK
        <5>2. CASE GiveUp(r)
          BY <5>2 DEF GiveUp, Fail, Answer, TasksOK
        <5> QED BY <1>4, <3>2, <5>1, <5>2 DEF Open
      <4> QED BY <2>2, <2>4, <3>1, <4>1, <4>2 DEF PartOK
    <3>3. CASE Write(r)
      <4>1. pc[r] = "write" /\ pc'[r] = "open" /\ UNCHANGED req
        BY <2>1, <3>3 DEF Write, Go, TasksOK
      <4>2. Stored(u, n) \in (IF r \in unlinked THEN {ABSENT} ELSE {EMPTY})
        BY <2>1, <2>4, <4>1 DEF PartOK
      <4>3. CASE r \in unlinked
        <5>1. Stored(u, n)' = ABSENT
          BY <3>3, <4>2, <4>3 DEF Write, Stored, Part
        <5> QED BY <2>2, <2>4, <3>1, <4>1, <5>1 DEF PartOK
      <4>4. CASE r \notin unlinked
        <5>1. PICK c \in Mixed(Bytes(r), file[u][Part(n)]) : file' = [file EXCEPT ![u][Part(n)] = c]
          BY <1>4, <3>3, <4>4 DEF Write
        <5>2. c = req[r].body
          BY <2>1, <4>2, <4>4, <5>1 DEF Mixed, Stored
        <5>3. Stored(u, n)' = req[r].body
          BY <1>3, <5>1, <5>2 DEF Stored, StoreOK
        <5> QED BY <2>2, <2>4, <3>1, <4>1, <5>3 DEF PartOK
      <4> QED BY <4>3, <4>4
    <3> QED BY <3>2, <3>3
  <2> QED BY <2>3, <2>4
<1>5. CASE FileOf(r) # Part(n) \/ req[r].upload # u
  <2>1. Stored(u, n)' = Stored(u, n)
    <3>1. UNCHANGED file \/ \E c : file' = [file EXCEPT ![req[r].upload][FileOf(r)] = c]
      BY DEF Open, Write
    <3>2. file'[u][Part(n)] = file[u][Part(n)]
      <4>1. CASE UNCHANGED file
        BY <4>1
      <4>2. CASE \E c : file' = [file EXCEPT ![req[r].upload][FileOf(r)] = c]
        <5>1. PICK c : file' = [file EXCEPT ![req[r].upload][FileOf(r)] = c]
          BY <4>2
        <5>2. file \in [Uploads -> [Names -> Contents]]
          BY DEF StoreOK
        <5>3. file'[u] = IF u = req[r].upload THEN [file[u] EXCEPT ![FileOf(r)] = c] ELSE file[u]
          BY <1>1, <5>1, <5>2
        <5> QED BY <1>3, <1>5, <5>2, <5>3
      <4> QED BY <3>1, <4>1, <4>2
    <3> QED BY <1>3, <3>2 DEF Stored
  <2>2. CASE Uploading(r, u, n)
    <3>1. cursor[r] = 2
      BY <1>1, <1>5, <2>2 DEF Uploading
    <3>2. CASE acked[<<u, n>>] = NONE
      <4>1. Stored(u, n) \in {req[r].body, ABSENT} /\ req[r].body \in Values
        BY <1>1, <2>2, <3>1, <3>2 DEF PartOK, Uploading
      <4>2. \A s \in Tasks : Uploading(s, u, n)' => s = r
        BY <1>2, <2>2, <3>2 DEF PartOK
      <4>3. CASE Open(r)
        <5>1. UNCHANGED <<acked, cursor, req>>
          BY <4>3 DEF Open, ghosts
        <5> QED BY <2>1, <3>1, <3>2, <4>1, <4>2, <5>1, UploadMarkers DEF PartOK
      <4>4. CASE Write(r)
        <5>1. pc'[r] = "done"
          BY <3>1, <4>4 DEF Write, Answer, TasksOK
        <5>2. acked' = [acked EXCEPT ![<<u, n>>] = req[r].body]
          BY <2>2, <3>1, <3>2, <4>4 DEF Write, Uploading
        <5>3. acked'[<<u, n>>] = req[r].body
          BY <5>2 DEF RestOK
        <5>4. \A s \in Tasks : ~Uploading(s, u, n)'
          BY <4>2, <5>1 DEF Uploading, InFlight
        <5> QED BY <2>1, <4>1, <5>3, <5>4, UploadMarkers DEF PartOK
      <4> QED BY <4>3, <4>4
    <3>3. CASE acked[<<u, n>>] # NONE
      <4>1. acked[<<u, n>>] \notin Values
        BY <2>2 DEF PartOK
      <4>2. UNCHANGED acked
        BY <2>2, <3>3 DEF Open, Write, Uploading, ghosts
      <4> QED BY <3>3, <4>1, <4>2 DEF PartOK
    <3> QED BY <3>2, <3>3
  <2>3. CASE ~Uploading(r, u, n)
    <3>1. acked'[<<u, n>>] = acked[<<u, n>>]
      <4>1. \/ UNCHANGED acked
            \/ /\ req[r].kind = "upload" /\ <<req[r].upload, req[r].number>> # <<u, n>>
               /\ acked' = [acked EXCEPT ![<<req[r].upload, req[r].number>>] = req[r].body]
        BY <1>1, <2>3 DEF Open, Write, Uploading, InFlight, ghosts
      <4> QED BY <4>1 DEF RestOK
    <3> QED BY <1>2, <2>1, <2>3, <3>1, PartSame
  <2> QED BY <2>2, <2>3
<1> QED BY <1>4, <1>5

LEMMA PartRemove ==
  ASSUME TypeInv, \A x \in Tasks : Program(x) /\ Opened(x), NEW r \in Tasks, RemoveEntry(r),
         NEW u \in Uploads, NEW n \in Numbers, PartOK(u, n)
  PROVE  PartOK(u, n)'
<1> USE DEF TypeInv
<1>1. PICK v \in Uploads : v = req[r].upload
  BY AskTypes DEF RemoveEntry, Program
<1>2. UNCHANGED <<pc, req, cursor, acked>>
  BY DEF RemoveEntry, ghosts
<1>3. Part(n) \in Names /\ Part(n)' = Part(n)
  BY NamesApart DEF Part
<1>4. \A s \in Tasks : Uploading(s, u, n)' <=> Uploading(s, u, n)
  BY <1>2 DEF Uploading, InFlight
<1>5. ASSUME NEW s \in Tasks, Uploading(s, u, n), pc[s] = "write", cursor[s] = 1
      PROVE  FileOf(s) = Part(n) /\ req[s].upload = u
  BY <1>5, FileTypes DEF Uploading
<1>6. CASE UNCHANGED <<file, unlinked>>
  <2>1. Stored(u, n)' = Stored(u, n)
    BY <1>3, <1>6 DEF Stored
  <2> QED BY <1>2, <1>4, <1>6, <2>1, PartSame
<1>7. CASE \E e \in Names :
             /\ file' = [file EXCEPT ![v][e] = ABSENT]
             /\ unlinked' = unlinked \cup
                  {s \in Tasks : pc[s] = "write" /\ req[s].upload = v /\ FileOf(s) = e}
  <2>1. PICK e \in Names :
             /\ file' = [file EXCEPT ![v][e] = ABSENT]
             /\ unlinked' = unlinked \cup
                  {s \in Tasks : pc[s] = "write" /\ req[s].upload = v /\ FileOf(s) = e}
    BY <1>7
  <2>2. file \in [Uploads -> [Names -> Contents]]
    BY DEF StoreOK
  <2>3. file'[u] = IF u = v THEN [file[u] EXCEPT ![e] = ABSENT] ELSE file[u]
    BY <2>1, <2>2
  <2>4. CASE u = v /\ e = Part(n)
    <3>1. Stored(u, n)' = ABSENT
      BY <1>3, <2>2, <2>3, <2>4 DEF Stored
    <3>2. ASSUME NEW s \in Tasks, Uploading(s, u, n), pc[s] = "write", cursor[s] = 1
          PROVE  s \in unlinked'
      BY <1>5, <2>1, <2>4, <3>2
    <3> QED BY <1>2, <1>4, <3>1, <3>2 DEF PartOK
  <2>5. CASE ~(u = v /\ e = Part(n))
    <3>1. Stored(u, n)' = Stored(u, n)
      BY <1>3, <2>2, <2>3, <2>5 DEF Stored
    <3>2. ASSUME NEW s \in Tasks, Uploading(s, u, n), pc[s] = "write", cursor[s] = 1
          PROVE  s \in unlinked' <=> s \in unlinked
      BY <1>5, <2>1, <2>5, <3>2
    <3> QED BY <1>2, <1>4, <3>1, <3>2 DEF PartOK
  <2> QED BY <2>4, <2>5
<1> QED BY <1>1, <1>6, <1>7 DEF RemoveEntry

LEMMA PartStep ==
  ASSUME TypeInv, \A x \in Tasks : Program(x) /\ Opened(x), Next,
         NEW u \in Uploads, NEW n \in Numbers, PartOK(u, n)
  PROVE  PartOK(u, n)'
<1> USE DEF TypeInv
<1>1. CASE Crash
  <2>1. (\A s \in Tasks : ~Uploading(s, u, n)') /\ UNCHANGED acked
    BY <1>1 DEF Crash, Uploading, InFlight, ghosts
  <2>2. acked[<<u, n>>] \in Values => Stored(u, n)' \in {Stored(u, n), ABSENT}
    BY StoredMoves DEF PartOK
  <2> QED BY <2>1, <2>2 DEF PartOK
<1>2. ASSUME NEW r \in Tasks, WriteError(r) PROVE PartOK(u, n)'
  <2>1. /\ \A s \in Tasks : s # r => /\ Uploading(s, u, n)' <=> Uploading(s, u, n)
                                     /\ UNCHANGED <<pc[s], req[s], cursor[s]>>
                                     /\ s \in unlinked' <=> s \in unlinked
        /\ ~Uploading(r, u, n)' /\ UNCHANGED acked
    <3>1. Acts(r) /\ unlinked' = unlinked \ {r} /\ UNCHANGED acked /\ pc'[r] = "done"
      BY <1>2 DEF Acts, WriteError, GiveUp, Fail, Answer, TasksOK, ghosts
    <3>2. \A s \in Tasks : s # r => UNCHANGED <<pc[s], req[s], cursor[s]>>
      BY <3>1, Frame
    <3> QED BY <3>1, <3>2, OtherUploads DEF Uploading, InFlight
  <2>2. CASE Uploading(r, u, n)
    <3>1. acked[<<u, n>>] \notin Values
      BY <2>2 DEF PartOK
    <3>2. acked[<<u, n>>] = NONE => \A s \in Tasks : ~Uploading(s, u, n)'
      BY <2>1, <2>2 DEF PartOK
    <3> QED BY <2>1, <3>1, <3>2 DEF PartOK
  <2>3. CASE ~Uploading(r, u, n)
    <3>1. Stored(u, n)' = Stored(u, n)
      <4>1. CASE UNCHANGED file
        BY <4>1 DEF Stored, Part
      <4>2. CASE Torn({r})
        <5>1. ~(pc[r] = "write" /\ req[r].upload = u /\ FileOf(r) = Part(n))
          BY <2>3, AtPart
        <5>2. Part(n) \in Names /\ UNCHANGED staging
          BY <1>2, NamesApart DEF WriteError
        <5>3. IF \E s \in {r} : pc[s] = "write" /\ req[s].upload = u /\ FileOf(s) = Part(n)
              THEN file'[u][Part(n)] = MANGLED ELSE file'[u][Part(n)] = file[u][Part(n)]
          BY <4>2, <5>2, TornTypes
        <5> QED BY <5>1, <5>3 DEF Stored, Part
      <4> QED BY <1>2, <4>1, <4>2 DEF WriteError
    <3> QED BY <2>1, <3>1, PartSame
  <2> QED BY <2>2, <2>3
<1>3. ASSUME NEW r \in Tasks, Start(r) PROVE PartOK(u, n)'
  BY <1>3, PartStart
<1>4. ASSUME NEW r \in Tasks, Open(r) \/ Write(r) PROVE PartOK(u, n)'
  BY <1>4, PartFile
<1>5. ASSUME NEW r \in Tasks, RemoveEntry(r) PROVE PartOK(u, n)'
  BY <1>5, PartRemove
<1>6. ASSUME NEW r \in Tasks,
             \/ Abandon(r) \/ MakeStaging(r) \/ ReadInfo(r) \/ OpenObject(r)
             \/ CheckPart(r) \/ ReadPart(r) \/ AppendBlock(r) \/ OpenMeta(r) \/ WriteMeta(r)
             \/ Emit(r) \/ NoticeEntry(r) \/ RemoveTop(r)
      PROVE  PartOK(u, n)'
  <2>1. UNCHANGED <<file, acked, unlinked>>
    BY <1>6 DEF Abandon, MakeStaging, ReadInfo, OpenObject, CheckPart, ReadPart, AppendBlock,
                OpenMeta, WriteMeta, Emit, NoticeEntry, RemoveTop, fs, ghosts
  <2>2. Acts(r) /\ ~Start(r)
    <3>1. pc[r] # "idle"
      BY <1>6 DEF Abandon, MakeStaging, ReadInfo, OpenObject, CheckPart, ReadPart, AppendBlock,
                OpenMeta, WriteMeta, Emit, NoticeEntry, RemoveTop, InFlight
    <3> QED BY <1>6, <3>1 DEF Acts, Step, Start
  <2>3. \A s \in Tasks : s # r => /\ Uploading(s, u, n)' <=> Uploading(s, u, n)
                                  /\ UNCHANGED <<pc[s], req[s], cursor[s]>>
    BY <2>2, OtherUploads, Frame
  <2>4. ~Uploading(r, u, n)'
    <3>1. CASE Abandon(r)
      BY <3>1 DEF Abandon, Go, Uploading, InFlight, TasksOK
    <3>2. CASE MakeStaging(r)
      BY <3>2 DEF MakeStaging, Program, Uploading
    <3>3. CASE ~Abandon(r) /\ ~MakeStaging(r)
      <4>1. pc[r] \in {"read_info", "open_object", "rm"} \cup Assembly
        BY <1>6, <3>3 DEF ReadInfo, OpenObject, CheckPart, ReadPart, AppendBlock,
                OpenMeta, WriteMeta, Emit, NoticeEntry, RemoveTop, Assembly
      <4>2. req[r].kind # "upload" /\ UNCHANGED req
        BY <2>2, <4>1, Frame DEF Program
      <4> QED BY <4>2 DEF Uploading
    <3> QED BY <3>1, <3>2, <3>3
  <2>5. Stored(u, n)' = Stored(u, n)
    BY <2>1 DEF Stored, Part
  <2> QED BY <2>1, <2>3, <2>4, <2>5, PartSame
<1>7. ASSUME NEW r \in Tasks, Lands(r) PROVE PartOK(u, n)'
  <2>1. UNCHANGED <<file, acked, pc, req, cursor, unlinked>>
    BY <1>7, LandMoves
  <2>2. Stored(u, n)' = Stored(u, n)
    BY <2>1 DEF Stored, Part
  <2>3. \A s \in Tasks : Uploading(s, u, n)' => Uploading(s, u, n)
    BY <2>1 DEF Uploading, InFlight
  <2> QED BY <2>1, <2>2, <2>3, PartSame
<1> QED BY <1>1, <1>2, <1>3, <1>4, <1>5, <1>6, <1>7 DEF Next, Step, Lands

(* Whoever acts is in flight or begins.                                    *)
LEMMA Active ==
  ASSUME NEW r \in Tasks, Acts(r)
  PROVE  /\ ~Start(r) => InFlight(r)
         /\ Start(r) => pc[r] = "idle"
<1>1. CASE Start(r)
  BY <1>1 DEF Start
<1>2. CASE ~Start(r)
  <2>1. pc[r] \notin {"idle", "done", "lost"}
    BY <1>2 DEF Acts, Step, WriteError, Abandon, InFlight, MakeStaging, Open, Write, ReadInfo,
                OpenObject, CheckPart, ReadPart, AppendBlock, OpenMeta, WriteMeta, Emit, NoticeEntry,
                RemoveEntry, RemoveTop
  <2>2. pc[r] # "idle"
    BY <2>1
  <2> QED BY <1>2, <2>1, <2>2 DEF InFlight
<1> QED BY <1>1, <1>2

(* A promise is kept by whatever does not upload the part.                 *)
LEMMA PromiseKept ==
  ASSUME TypeInv, \A s \in Tasks : Program(s) /\ Opened(s), Next,
         NEW x \in Tasks, Promise(x), UNCHANGED <<pc[x], req[x], held[x], reply[x]>>,
         DOMAIN promised'[x] = DOMAIN promised[x],
         \A i \in DOMAIN promised[x] :
           promised'[x][i] \in Values =>
             /\ promised'[x][i] = promised[x][i]
             /\ InFlight(x) => \A s \in Tasks : ~Uploading(s, req[x].upload, req[x].parts[i])'
  PROVE  Promise(x)'
<1> SUFFICES ASSUME req[x].kind = "complete" PROVE Promise(x)'
  BY DEF Promise
<1>1. ASSUME NEW i \in DOMAIN promised'[x], promised'[x][i] \in Values, InFlight(x)
      PROVE  Stored(req[x].upload, req[x].parts[i])' \in {promised'[x][i], ABSENT}
  <2>1. req[x] \in Asks /\ req[x].upload \in Uploads
    BY <1>1, AskTypes DEF Program, InFlight
  <2>2. i \in DOMAIN req[x].parts /\ promised'[x][i] = promised[x][i]
    BY <1>1 DEF Promise
  <2>3. req[x].parts[i] \in Numbers
    BY <2>1, <2>2, AskPart
  <2>4. PICK u \in Uploads, n \in Numbers : u = req[x].upload /\ n = req[x].parts[i]
    BY <2>1, <2>3
  <2>5. /\ \A s \in Tasks : ~Uploading(s, u, n)
        /\ Stored(u, n) \in {promised[x][i], ABSENT}
    BY <1>1, <2>2, <2>4 DEF Promise
  <2>6. Stored(u, n)' \in {promised[x][i], ABSENT}
    BY <2>5, StoredMoves
  <2>7. req'[x].upload = u /\ req'[x].parts[i] = n
    BY <2>4
  <2> QED BY <2>2, <2>6, <2>7 DEF Stored
<1>2. ASSUME NEW i \in DOMAIN promised'[x], promised'[x][i] \in Values, InFlight(x)'
      PROVE  /\ \A s \in Tasks : ~Uploading(s, req[x].upload, req[x].parts[i])'
             /\ Stored(req[x].upload, req[x].parts[i])' \in {promised'[x][i], ABSENT}
  BY <1>1, <1>2 DEF InFlight
<1>3. ASSUME NEW i \in DOMAIN promised'[x], promised'[x][i] \in Values, i <= Len(held'[x])
      PROVE  held'[x][i] = promised'[x][i]
  BY <1>3 DEF Promise
<1>4. /\ (InFlight(x) \/ reply[x].code = "Ok")' => DOMAIN promised'[x] = DOMAIN req'[x].parts
      /\ reply'[x].code = "Ok" => pc'[x] = "done" /\ Len(held'[x]) = Len(req'[x].parts)
                                  /\ reply'[x].blocks = held'[x]
  BY DEF Promise, InFlight
<1> QED BY <1>2, <1>3, <1>4 DEF Promise

(* Another request is asked about or begins.                               *)
LEMMA PromiseOther ==
  ASSUME TypeInv, \A s \in Tasks : Program(s) /\ Opened(s), Next,
         NEW r \in Tasks, Acts(r), NEW x \in Tasks, x # r, Promise(x)
  PROVE  Promise(x)'
<1> USE DEF TypeInv
<1>1. UNCHANGED <<pc[x], req[x], held[x], reply[x]>>
  BY Frame
<1>2. CASE req[x].kind # "complete"
  BY <1>1, <1>2 DEF Promise
<1>3. CASE req[x].kind = "complete" /\ ~Start(r)
  <2>1. UNCHANGED promised
    BY <1>3, Frame
  <2>2. ASSUME NEW i \in DOMAIN promised[x], promised[x][i] \in Values, InFlight(x), NEW s \in Tasks
        PROVE  ~Uploading(s, req[x].upload, req[x].parts[i])'
    <3>1. req[x] \in Asks /\ req[x].upload \in Uploads
      BY <2>2, AskTypes DEF Program, InFlight
    <3>2. req[x].parts[i] \in Numbers
      BY <1>3, <2>2, <3>1, AskPart DEF Promise
    <3>3. PICK u \in Uploads, n \in Numbers : u = req[x].upload /\ n = req[x].parts[i]
      BY <3>1, <3>2
    <3>4. ~Uploading(s, u, n)
      BY <1>3, <2>2, <3>3 DEF Promise
    <3>5. ~Uploading(s, u, n)'
      BY <1>3, <3>4, OtherUploads
    <3>6. req'[x].upload = u /\ req'[x].parts[i] = n
      BY <1>1, <3>3
    <3> QED BY <3>5, <3>6 DEF Uploading
  <2> QED BY <1>1, <2>1, <2>2, PromiseKept
<1>4. CASE req[x].kind = "complete" /\ Start(r)
  <2>1. PICK q \in Asks :
          /\ req' = [req EXCEPT ![r] = q]
          /\ \/ Fail(r, "NoSuchUpload") /\ UNCHANGED promised
             \/ /\ Go(r, Entry(q.kind))
                /\ promised' = [s \in Tasks |->
                     IF s = r THEN [i \in DOMAIN q.parts |-> acked[<<q.upload, q.parts[i]>>]]
                     ELSE [i \in DOMAIN promised[s] |->
                             IF /\ InFlight(s) /\ q.kind = "upload"
                                /\ <<req[s].upload, req[s].parts[i]>> = <<q.upload, q.number>>
                             THEN NONE ELSE promised[s][i]]]
    BY <1>4 DEF Start
  <2>2. DOMAIN promised'[x] = DOMAIN promised[x]
    BY <2>1
  <2>3. req'[r] = q
    BY <2>1 DEF TasksOK
  <2>4. ASSUME NEW i \in DOMAIN promised[x], promised'[x][i] \in Values
        PROVE  /\ promised'[x][i] = promised[x][i]
               /\ ~(/\ InFlight(x) /\ q.kind = "upload" /\ pc'[r] # "done"
                    /\ <<req[x].upload, req[x].parts[i]>> = <<q.upload, q.number>>)
    <3>1. CASE Fail(r, "NoSuchUpload") /\ UNCHANGED promised
      BY <3>1 DEF Fail, Answer, TasksOK
    <3>2. CASE promised' = [s \in Tasks |->
                     IF s = r THEN [j \in DOMAIN q.parts |-> acked[<<q.upload, q.parts[j]>>]]
                     ELSE [j \in DOMAIN promised[s] |->
                             IF /\ InFlight(s) /\ q.kind = "upload"
                                /\ <<req[s].upload, req[s].parts[j]>> = <<q.upload, q.number>>
                             THEN NONE ELSE promised[s][j]]]
      <4>1. promised'[x][i] = IF /\ InFlight(x) /\ q.kind = "upload"
                                 /\ <<req[x].upload, req[x].parts[i]>> = <<q.upload, q.number>>
                              THEN NONE ELSE promised[x][i]
        BY <3>2
      <4> QED BY <2>4, <4>1, UploadMarkers
    <3> QED BY <2>1, <3>1, <3>2
  <2>5. ASSUME NEW i \in DOMAIN promised[x], promised'[x][i] \in Values, InFlight(x), NEW s \in Tasks
        PROVE  ~Uploading(s, req[x].upload, req[x].parts[i])'
    <3>1. req[x] \in Asks /\ req[x].upload \in Uploads
      BY <2>5, AskTypes DEF Program, InFlight
    <3>2. req[x].parts[i] \in Numbers
      BY <1>4, <2>5, <3>1, AskPart DEF Promise
    <3>3. PICK u \in Uploads, n \in Numbers : u = req[x].upload /\ n = req[x].parts[i]
      BY <3>1, <3>2
    <3>4. ~Uploading(s, u, n)
      BY <1>4, <2>4, <2>5, <3>3 DEF Promise
    <3>5. ~Uploading(s, u, n)'
      <4>1. CASE s # r
        BY <3>4, <4>1, OtherUploads
      <4>2. CASE s = r
        BY <2>3, <2>4, <2>5, <3>3, <4>2 DEF Uploading, InFlight
      <4> QED BY <4>1, <4>2
    <3>6. req'[x].upload = u /\ req'[x].parts[i] = n
      BY <1>1, <3>3
    <3> QED BY <3>5, <3>6 DEF Uploading
  <2> QED BY <1>1, <2>2, <2>4, <2>5, PromiseKept
<1> QED BY <1>2, <1>3, <1>4

(* A completion begins.                                                    *)
LEMMA PromiseStart ==
  ASSUME TypeInv, TypeInv', \A s \in Tasks : Program(s), NEW x \in Tasks, Start(x),
         \A u \in Uploads, n \in Numbers : PartOK(u, n)
  PROVE  Promise(x)'
<1> USE DEF TypeInv
<1>1. PICK q \in Asks :
          /\ req' = [req EXCEPT ![x] = q]
          /\ \/ Fail(x, "NoSuchUpload") /\ UNCHANGED promised
             \/ /\ Go(x, Entry(q.kind)) /\ UNCHANGED reply
                /\ promised'[x] = [i \in DOMAIN q.parts |-> acked[<<q.upload, q.parts[i]>>]]
  BY DEF Start
<1>2. UNCHANGED <<file, held>> /\ held[x] = <<>> /\ reply[x].code = "" /\ req'[x] = q
  BY <1>1 DEF Start, Program, fs, TasksOK
<1>3. CASE q.kind # "complete"
  BY <1>2, <1>3 DEF Promise
<1>4. CASE q.kind = "complete" /\ Fail(x, "NoSuchUpload") /\ UNCHANGED promised
  <2>1. pc'[x] = "done" /\ reply'[x].code = "NoSuchUpload"
    BY <1>4 DEF Fail, Answer, TasksOK
  <2>2. ASSUME NEW i \in DOMAIN promised'[x] PROVE ~(i <= Len(held'[x]))
    <3>1. promised'[x] \in Seq(Values \cup {NONE, MANGLED})
      BY DEF RestOK
    <3>2. i \in 1..Len(promised'[x]) /\ Len(promised'[x]) \in Nat
      BY <2>2, <3>1
    <3>3. Len(held'[x]) = 0
      BY <1>2
    <3> QED BY <3>2, <3>3
  <2> QED BY <2>1, <2>2 DEF Promise, InFlight
<1>5. CASE /\ q.kind = "complete" /\ Go(x, Entry(q.kind)) /\ UNCHANGED reply
           /\ promised'[x] = [i \in DOMAIN q.parts |-> acked[<<q.upload, q.parts[i]>>]]
  <2>1. q.upload \in Uploads /\ q.parts \in Lists
    BY <1>5, AskTypes
  <2>2. /\ q.parts \in Seq(Numbers) /\ DOMAIN q.parts = 1..Len(q.parts) /\ Len(q.parts) \in Nat
        /\ DOMAIN promised'[x] = DOMAIN q.parts
    BY <1>5, <2>1, ListTypes
  <2>3. ASSUME NEW i \in DOMAIN promised'[x], promised'[x][i] \in Values
        PROVE  /\ ~(i <= Len(held'[x]))
               /\ \A s \in Tasks : ~Uploading(s, q.upload, q.parts[i])'
               /\ Stored(q.upload, q.parts[i])' \in {promised'[x][i], ABSENT}
    <3>1. i \in 1..Len(q.parts) /\ q.parts[i] \in Numbers
      BY <2>2, <2>3
    <3>2. Len(held'[x]) = 0
      BY <1>2
    <3>3. PICK u \in Uploads, n \in Numbers : u = q.upload /\ n = q.parts[i]
      BY <2>1, <3>1
    <3>4. promised'[x][i] = acked[<<u, n>>]
      BY <1>5, <2>2, <3>1, <3>3
    <3>5. (\A s \in Tasks : ~Uploading(s, u, n)) /\ Stored(u, n) \in {promised'[x][i], ABSENT}
      BY <2>3, <3>4 DEF PartOK
    <3>6. Stored(u, n)' = Stored(u, n)
      BY <1>2 DEF Stored, Part
    <3>7. ASSUME NEW s \in Tasks PROVE ~Uploading(s, u, n)'
      <4>1. CASE s # x
        BY <3>5, <4>1, OtherUploads DEF Acts
      <4>2. CASE s = x
        BY <1>2, <1>5, <4>2 DEF Uploading
      <4> QED BY <4>1, <4>2
    <3> QED BY <3>1, <3>2, <3>3, <3>5, <3>6, <3>7
  <2>4. \A i \in DOMAIN promised'[x] : promised'[x][i] \in Values =>
          /\ i <= Len(held'[x]) => held'[x][i] = promised'[x][i]
          /\ \A s \in Tasks : ~Uploading(s, req[x].upload, req[x].parts[i])'
          /\ Stored(req[x].upload, req[x].parts[i])' \in {promised'[x][i], ABSENT}
    BY <1>2, <2>3 DEF Uploading, Stored, InFlight, Part
  <2>5. reply'[x].code = "" /\ DOMAIN promised'[x] = DOMAIN req'[x].parts
    BY <1>2, <1>5, <2>2
  <2> QED BY <2>4, <2>5 DEF Promise
<1> QED BY <1>1, <1>3, <1>4, <1>5

(* A completion reads, of a part that nobody uploads, what it was promised.*)
LEMMA ReadsPromised ==
  ASSUME TypeInv, \A s \in Tasks : Program(s) /\ Opened(s), NEW x \in Tasks, ReadPart(x), Promise(x)
  PROVE  \/ held'[x] = held[x] /\ pc'[x] = "done"
         \/ pc'[x] = "append" /\ \E c \in Block :
              /\ held'[x] = Append(held[x], c)
              /\ promised[x][Len(held[x]) + 1] \in Values => c = promised[x][Len(held[x]) + 1]
<1> USE DEF TypeInv
<1> DEFINE i == cursor[x]
           u == req[x].upload
           n == req[x].parts[i]
           torn == {MANGLED : s \in {y \in Tasks \ unlinked : /\ pc[y] = "write"
                                                              /\ req[y].upload = u
                                                              /\ FileOf(y) = PartHere(x)}}
<1>1. /\ pc[x] = "read_part" /\ req[x] \in Asks /\ req[x].kind = "complete" /\ u \in Uploads
      /\ i <= Len(req[x].parts) /\ Len(held[x]) = i - 1 /\ i \in Nat /\ i >= 1
  <2>1. pc[x] = "read_part"
    BY DEF ReadPart
  <2>2. /\ req[x] \in Asks /\ req[x].kind = "complete" /\ i <= Len(req[x].parts)
        /\ Len(held[x]) = i - 1
    BY <2>1 DEF Program, Assembly
  <2>3. i \in Nat /\ i >= 1
    BY SomeParts DEF TasksOK
  <2> QED BY <2>1, <2>2, <2>3, AskTypes
<1>2. i \in DOMAIN req[x].parts /\ n \in Numbers /\ PartHere(x) = Part(n)
  BY <1>1, AskPart DEF PartHere
<1>3. \/ Fail(x, "InternalError") /\ UNCHANGED held
      \/ /\ Go(x, "append") /\ file[u][PartHere(x)] # ABSENT
         /\ \E c \in {file[u][PartHere(x)]} \cup torn : held' = [held EXCEPT ![x] = Append(@, c)]
  BY DEF ReadPart
<1>4. CASE Fail(x, "InternalError") /\ UNCHANGED held
  BY <1>4, FailTypes DEF Codes
<1>5. ASSUME NEW c \in {file[u][PartHere(x)]} \cup torn, held' = [held EXCEPT ![x] = Append(@, c)],
             file[u][PartHere(x)] # ABSENT, Go(x, "append")
      PROVE  /\ c \in Block /\ held'[x] = Append(held[x], c)
             /\ promised[x][Len(held[x]) + 1] \in Values => c = promised[x][Len(held[x]) + 1]
  <2>1. c \in Block
    <3>1. file[u][Part(n)] \in Block
      BY <1>1, <1>2, <1>5 DEF StoreOK, FilesOK
    <3>2. MANGLED \in Block
      BY DEF Block
    <3> QED BY <1>2, <1>5, <3>1, <3>2
  <2>2. held'[x] = Append(held[x], c)
    BY <1>5 DEF TasksOK
  <2>3. ASSUME promised[x][i] \in Values PROVE c = promised[x][i]
    <3>1. i \in DOMAIN promised[x] /\ InFlight(x)
      BY <1>1, <1>2 DEF Promise, InFlight
    <3>2. /\ \A s \in Tasks : ~Uploading(s, u, n)
          /\ Stored(u, n) \in {promised[x][i], ABSENT}
      BY <1>1, <2>3, <3>1 DEF Promise
    <3>3. torn = {}
      BY <1>2, <3>2, AtPart DEF InFlight
    <3> QED BY <1>2, <1>5, <3>2, <3>3 DEF Stored
  <2>4. Len(held[x]) + 1 = i
    BY <1>1
  <2> QED BY <2>1, <2>2, <2>3, <2>4
<1>6. Go(x, "append") => pc'[x] = "append"
  BY GoTypes DEF PCs
<1> QED BY <1>3, <1>4, <1>5, <1>6

(* A completion goes on.                                                   *)
LEMMA PromiseSelf ==
  ASSUME TypeInv, \A s \in Tasks : Program(s) /\ Opened(s), Next,
         NEW x \in Tasks, Acts(x), ~Start(x), Promise(x)
  PROVE  Promise(x)'
<1> USE DEF TypeInv
<1>1. UNCHANGED <<req, promised>> /\ InFlight(x)
  BY Frame, Active
<1>2. CASE req[x].kind # "complete"
  BY <1>1, <1>2 DEF Promise
<1>3. CASE req[x].kind = "complete"
  <2>1. req[x] \in Asks /\ req[x].upload \in Uploads /\ reply[x].code = ""
    BY <1>1, AskTypes DEF Program, InFlight
  <2>2. DOMAIN promised[x] = DOMAIN req[x].parts
    BY <1>1, <1>3 DEF Promise
  <2>3. ASSUME NEW i \in DOMAIN promised[x], promised[x][i] \in Values
        PROVE  /\ \A s \in Tasks : ~Uploading(s, req[x].upload, req[x].parts[i])'
               /\ Stored(req[x].upload, req[x].parts[i])' \in {promised[x][i], ABSENT}
    <3>1. req[x].parts[i] \in Numbers
      BY <1>3, <2>1, <2>2, <2>3, AskPart
    <3>2. PICK u \in Uploads, n \in Numbers : u = req[x].upload /\ n = req[x].parts[i]
      BY <2>1, <3>1
    <3>3. (\A s \in Tasks : ~Uploading(s, u, n)) /\ Stored(u, n) \in {promised[x][i], ABSENT}
      BY <1>1, <1>3, <2>3, <3>2 DEF Promise
    <3>4. \A s \in Tasks : ~Uploading(s, u, n)'
      BY <1>1, <3>3, OtherUploads
    <3>5. Stored(u, n)' \in {promised[x][i], ABSENT}
      BY <3>3, StoredMoves
    <3>6. req'[x].upload = u /\ req'[x].parts[i] = n
      BY <1>1, <3>2
    <3> QED BY <3>4, <3>5, <3>6 DEF Uploading, Stored
  <2>4. ASSUME NEW i \in DOMAIN promised[x], promised[x][i] \in Values, i <= Len(held'[x])
        PROVE  held'[x][i] = promised[x][i]
    <3>1. CASE held'[x] = held[x]
      BY <1>3, <2>4, <3>1 DEF Promise
    <3>2. CASE held'[x] # held[x]
      <4>1. ReadPart(x)
        BY <3>2 DEF Acts, Step, Start, WriteError, Abandon, MakeStaging, Open, Write, ReadInfo,
                    OpenObject, CheckPart, AppendBlock, OpenMeta, WriteMeta, Emit, NoticeEntry,
                    RemoveEntry, RemoveTop
      <4>2. PICK c \in Block :
              /\ held'[x] = Append(held[x], c)
              /\ promised[x][Len(held[x]) + 1] \in Values => c = promised[x][Len(held[x]) + 1]
        BY <3>2, <4>1, ReadsPromised
      <4>3. held[x] \in Seq(Block) /\ i \in Nat /\ i >= 1
        <5>1. i \in 1..Len(req[x].parts)
          BY <1>3, <2>1, <2>2, AskPart
        <5> QED BY <5>1 DEF TasksOK
      <4>4. /\ Len(held[x]) \in Nat /\ Len(Append(held[x], c)) = Len(held[x]) + 1
            /\ \A j \in 1..Len(held[x]) : Append(held[x], c)[j] = held[x][j]
            /\ Append(held[x], c)[Len(held[x]) + 1] = c
        BY <4>3, AppendTypes
      <4>5. CASE i <= Len(held[x])
        BY <1>3, <2>4, <4>2, <4>3, <4>4, <4>5 DEF Promise
      <4>6. CASE i = Len(held[x]) + 1
        BY <2>4, <4>2, <4>4, <4>6
      <4> QED BY <2>4, <4>2, <4>3, <4>4, <4>5, <4>6
    <3> QED BY <3>1, <3>2
  <2>5. reply'[x].code = "Ok" => pc'[x] = "done" /\ Len(held'[x]) = Len(req'[x].parts)
                                 /\ reply'[x].blocks = held'[x]
    <3>1. SUFFICES ASSUME reply'[x].code = "Ok"
                   PROVE  pc'[x] = "done" /\ Len(held'[x]) = Len(req'[x].parts)
                          /\ reply'[x].blocks = held'[x]
      OBVIOUS
    <3>2. Emit(x)
      BY <1>1, <1>3, <2>1, <3>1, Answering
    <3>3. pc[x] = "emit" /\ UNCHANGED <<req, held>> /\ Answer(x, "Ok", held[x])
      BY <3>2 DEF Emit
    <3>4. Len(held[x]) = Len(req[x].parts)
      BY <3>3 DEF Program
    <3> QED BY <3>3, <3>4 DEF Answer, TasksOK
  <2> QED BY <1>1, <1>3, <2>2, <2>3, <2>4, <2>5 DEF Promise
<1> QED BY <1>2, <1>3

LEMMA PromiseStep ==
  ASSUME TypeInv, TypeInv', \A s \in Tasks : Program(s) /\ Opened(s), Next,
         \A u \in Uploads, n \in Numbers : PartOK(u, n), NEW x \in Tasks, Promise(x)
  PROVE  Promise(x)'
<1>1. CASE Crash
  <2>0. UNCHANGED <<req, reply, held, promised>>
    BY <1>1 DEF Crash, ghosts
  <2>1. ~InFlight(x)'
    BY <1>1 DEF Crash, InFlight
  <2>2. pc[x] = "done" => pc'[x] = "done"
    BY <1>1 DEF Crash, InFlight
  <2> QED BY <2>0, <2>1, <2>2 DEF Promise
<1>2. CASE \E r \in Tasks : Acts(r)
  <2>1. PICK r \in Tasks : Acts(r)
    BY <1>2
  <2>2. CASE x # r
    BY <2>1, <2>2, PromiseOther
  <2>3. CASE x = r /\ Start(x)
    BY <2>3, PromiseStart
  <2>4. CASE x = r /\ ~Start(x)
    BY <2>1, <2>4, PromiseSelf
  <2> QED BY <2>2, <2>3, <2>4
<1>3. ASSUME NEW r \in Tasks, Lands(r) PROVE Promise(x)'
  <2>1. UNCHANGED <<pc, req, held, reply, promised>>
    BY <1>3, LandMoves
  <2>2. CASE req[x].kind # "complete"
    BY <2>1, <2>2 DEF Promise
  <2>3. CASE req[x].kind = "complete"
    <3>1. ASSUME NEW i \in DOMAIN promised[x], promised[x][i] \in Values, InFlight(x), NEW s \in Tasks
          PROVE  ~Uploading(s, req[x].upload, req[x].parts[i])'
      BY <2>1, <2>3, <3>1 DEF Promise, Uploading, InFlight
    <3> QED BY <2>1, <3>1, PromiseKept
  <2> QED BY <2>2, <2>3
<1> QED BY <1>1, <1>2, <1>3 DEF Next, Acts, Lands

(* An object changes only under the completions that write it.             *)
LEMMA ObjectMoves ==
  ASSUME TypeInv, NEW r \in Tasks, Program(r), Acts(r), NEW k \in Keys,
         ~(KeyOf(r) = k /\ (OpenObject(r) \/ Writing(r)))
  PROVE  UNCHANGED <<object[k], meta[k], settled[k]>>
<1> USE DEF TypeInv, StoreOK, RestOK, Writing
<1>1. CASE \/ Start(r) \/ MakeStaging(r) \/ Open(r) \/ Write(r) \/ ReadInfo(r) \/ CheckPart(r)
           \/ ReadPart(r) \/ AppendBlock(r) \/ NoticeEntry(r) \/ RemoveEntry(r) \/ RemoveTop(r) \/ Abandon(r)
  BY <1>1 DEF Start, MakeStaging, Open, Write, ReadInfo, CheckPart, ReadPart,
              AppendBlock, NoticeEntry, RemoveEntry, RemoveTop, Abandon, fs, ghosts
<1>2. CASE OpenObject(r)
  BY <1>2 DEF OpenObject
<1>3. CASE OpenMeta(r)
  BY <1>3 DEF OpenMeta, Program, Assembly, ghosts
<1>4. CASE WriteMeta(r)
  <2>1. KeyOf(r) # k /\ UNCHANGED <<object, settled>>
    BY <1>4 DEF WriteMeta, Program, Assembly, ghosts
  <2>2. PICK c \in Mixed(Describes(held[r]), meta[KeyOf(r)]) : meta' = [meta EXCEPT ![KeyOf(r)] = c]
    BY <1>4 DEF WriteMeta
  <2> QED BY <2>1, <2>2
<1>5. CASE Emit(r)
  BY <1>5 DEF Emit, Program, Assembly, fs
<1>6. CASE WriteError(r)
  <2>1. settled'[k] = settled[k] /\ UNCHANGED staging
    BY <1>6 DEF WriteError, ghosts
  <2>2. CASE UNCHANGED <<file, object, meta>>
    BY <2>1, <2>2
  <2>3. CASE Torn({r})
    <3>1. /\ IF \E s \in {r} : pool[s] = "afloat" /\ KeyOf(s) = k
             THEN object'[k] = <<MANGLED>> ELSE object'[k] = object[k]
          /\ IF \E s \in {r} : pc[s] = "write_meta" /\ KeyOf(s) = k
             THEN meta'[k] = MANGLED ELSE meta'[k] = meta[k]
      BY <2>1, <2>3, TornTypes
    <3>2. ~((pool[r] = "afloat" \/ pc[r] = "write_meta") /\ KeyOf(r) = k)
      BY DEF Program, Assembly
    <3> QED BY <2>1, <3>1, <3>2
  <2> QED BY <1>6, <2>2, <2>3 DEF WriteError
<1> QED BY <1>1, <1>2, <1>3, <1>4, <1>5, <1>6 DEF Acts, Step

(* The tasks that write an object, before and after a step.                *)
LEMMA Writers ==
  ASSUME TypeInv, NEW r \in Tasks, Program(r), Opened(r), Acts(r)
  PROVE  /\ \A s \in Tasks : s # r => /\ Writing(s)' <=> Writing(s)
                                      /\ KeyOf(s)' = KeyOf(s)
         /\ Writing(r)' => KeyOf(r)' = KeyOf(r)
<1>1. \A s \in Tasks : s # r => UNCHANGED <<pc[s], req[s], pool[s]>>
  BY Frame
<1>2. ASSUME Writing(r)' PROVE KeyOf(r)' = KeyOf(r)
  <2>1. ~Start(r)
    BY <1>2, Moves, WriterActs DEF Start, OpenObject
  <2>2. UNCHANGED req
    BY <2>1, Frame
  <2> QED BY <2>2 DEF KeyOf
<1> QED BY <1>1, <1>2 DEF Writing, KeyOf

(* Where the head of the loop leads.                                       *)
LEMMA CheckPartGoes ==
  ASSUME pc \in [Tasks -> PCs], NEW r \in Tasks, CheckPart(r)
  PROVE  \/ pc'[r] \in {"read_part", "done"}
         \/ pc'[r] = "open_meta" /\ pool[r] \notin {"afloat", "failed"}
<1>1. \/ Go(r, "read_part")
      \/ Fail(r, "InvalidPart") \/ Fail(r, "InternalError")
      \/ Go(r, "open_meta") /\ pool[r] \notin {"afloat", "failed"}
  BY DEF CheckPart, Settle
<1>2. CASE Go(r, "read_part")
  BY <1>2 DEF Go
<1>3. CASE Fail(r, "InvalidPart") \/ Fail(r, "InternalError")
  BY <1>3 DEF Fail, Answer
<1>4. CASE Go(r, "open_meta") /\ pool[r] \notin {"afloat", "failed"}
  BY <1>4 DEF Go
<1> QED BY <1>1, <1>2, <1>3, <1>4

(* The step of the completion that writes an object alone.                 *)
LEMMA ProductSelf ==
  ASSUME TypeInv, \A s \in Tasks : Program(s) /\ Opened(s), NEW r \in Tasks, Acts(r),
         Promise(r), Product(r), Writing(r), Writing(r)', settled[KeyOf(r)] = NONE
  PROVE  Product(r)'
<1> USE DEF TypeInv, StoreOK, TasksOK
<1>1. /\ KeyOf(r) \in Keys /\ KeyOf(r)' = KeyOf(r) /\ Busy(r) /\ ~Start(r) /\ ~OpenObject(r)
      /\ held[r] \in Seq(Block) /\ cursor[r] \in Nat
  <2>1. cursor[r] \in 1..(Cardinality(Numbers) + 1)
    OBVIOUS
  <2> QED BY <2>1, SomeParts, WriterKey, WriterActs, Writers
<1>2. PICK k \in Keys : k = KeyOf(r) /\ k = KeyOf(r)'
  BY <1>1
<1>3. /\ pc[r] \in Looping => /\ pool[r] = "clear" => object[k] = Handed(r)
                              /\ pool[r] = "afloat" => object[k] = Front(Handed(r))
      /\ pc[r] \in {"open_meta", "write_meta", "rm", "emit"} => object[k] = held[r]
      /\ pc[r] = "write_meta" => meta[k] = EMPTY
      /\ pc[r] \in {"rm", "emit"} => meta[k] = Describes(held[r])
  BY <1>2 DEF Product
<1>4. /\ pc[r] \in {"check_part", "read_part"} => Handed(r) = held[r]
      /\ pc[r] = "append" => Handed(r) = Front(held[r])
  BY <1>1, HandedIs DEF Handed, Program
<1> SUFFICES /\ pc'[r] \in Looping => /\ pool'[r] = "clear" => object'[k] = Handed(r)'
                                      /\ pool'[r] = "afloat" => object'[k] = Front(Handed(r)')
             /\ pc'[r] \in {"open_meta", "write_meta", "rm", "emit"} => object'[k] = held'[r]
             /\ pc'[r] = "write_meta" => meta'[k] = EMPTY
             /\ pc'[r] \in {"rm", "emit"} => meta'[k] = Describes(held'[r])
  BY <1>2 DEF Product
<1> USE <1>2
<1>5. CASE CheckPart(r)
  <2>0. pc \in [Tasks -> PCs]
    OBVIOUS
  <2>1. pc[r] = "check_part" /\ UNCHANGED <<object, meta, pool, held, cursor>> /\ Handed(r)' = Handed(r)
    BY <1>5 DEF CheckPart, Handed, fs
  <2>2. \/ pc'[r] \in {"read_part", "done"}
        \/ pc'[r] = "open_meta" /\ pool[r] \notin {"afloat", "failed"}
    BY ONLY <2>0, <1>5, r \in Tasks, CheckPartGoes
  <2>3. pool[r] \in {"clear", "afloat", "failed"}
    BY DEF RestOK
  <2> QED BY <1>3, <1>4, <2>1, <2>2, <2>3 DEF Looping
<1>6. CASE ReadPart(r)
  <2>1. pc[r] = "read_part" /\ UNCHANGED <<object, meta, pool, cursor>> /\ Len(held[r]) = cursor[r] - 1
    BY <1>6 DEF ReadPart, Program, fs
  <2>2. CASE pc'[r] = "done"
    BY <2>2 DEF Looping
  <2>3. CASE pc'[r] = "append" /\ \E c \in Block : held'[r] = Append(held[r], c)
    <3>1. PICK c \in Block : held'[r] = Append(held[r], c)
      BY <2>3
    <3>2. Front(held'[r]) = held[r] /\ held'[r] \in Seq(Block) /\ Len(held'[r]) = Len(held[r]) + 1
      BY <1>1, <3>1, AppendTypes
    <3>3. Len(held'[r]) = cursor'[r] /\ cursor'[r] \in Nat
      BY <1>1, <2>1, <3>2
    <3>4. SubSeq(held'[r], 1, cursor'[r] - 1) = Front(held'[r])
      BY <3>2, <3>3, HandedIs
    <3>5. Handed(r)' = Handed(r)
      BY <1>4, <2>1, <3>2, <3>4 DEF Handed
    <3> QED BY <1>3, <2>1, <2>3, <3>5 DEF Looping
  <2> QED BY <1>6, <2>2, <2>3, ReadsPromised
<1>7. CASE AppendBlock(r)
  <2>1. pc[r] = "append" /\ UNCHANGED <<object, meta, held>> /\ Len(held[r]) = cursor[r]
    BY <1>7 DEF AppendBlock, Program, fs
  <2>2. CASE pool[r] = "clear"
    <3>1. pc'[r] = "check_part" /\ pool'[r] = "afloat" /\ cursor'[r] = cursor[r] + 1
      BY <1>7, <2>2 DEF AppendBlock, Settle, Go, RestOK
    <3>2. SubSeq(held[r], 1, cursor'[r] - 1) = held[r]
      <4>1. cursor'[r] \in Nat /\ Len(held[r]) = cursor'[r] - 1
        BY <1>1, <2>1, <3>1
      <4> QED BY <1>1, <4>1, HandedIs
    <3>3. Handed(r)' = held[r]
      BY <2>1, <3>2 DEF Handed
    <3> QED BY <1>3, <1>4, <2>1, <2>2, <3>1, <3>3 DEF Looping
  <2>3. CASE pool[r] # "clear"
    <3>1. pc'[r] = "done"
      BY <1>7, <2>3 DEF AppendBlock, Settle, Fail, Answer
    <3> QED BY <3>1 DEF Looping
  <2> QED BY <2>2, <2>3
<1>8. CASE OpenMeta(r)
  <2>1. /\ pc[r] = "open_meta" /\ pc'[r] = "write_meta" /\ UNCHANGED <<object, held>>
        /\ meta'[k] = EMPTY
    BY <1>8 DEF OpenMeta, Go
  <2> QED BY <1>3, <2>1 DEF Looping
<1>9. CASE WriteMeta(r)
  <2>1. PICK c \in Mixed(Describes(held[r]), meta[KeyOf(r)]) : meta' = [meta EXCEPT ![KeyOf(r)] = c]
    BY <1>9 DEF WriteMeta
  <2>2. pc[r] = "write_meta" /\ UNCHANGED <<object, held>> /\ pc'[r] = "rm"
    BY <1>9 DEF WriteMeta, Go
  <2>3. c = Describes(held[r])
    BY <1>3, <2>1, <2>2 DEF Mixed
  <2> QED BY <1>3, <2>1, <2>2, <2>3 DEF Looping
<1>10. CASE NoticeEntry(r) \/ RemoveEntry(r)
  <2>1. pc[r] = "rm" /\ UNCHANGED <<pc, object, meta, held>>
    BY <1>10 DEF NoticeEntry, RemoveEntry, fs
  <2> QED BY <1>3, <2>1 DEF Looping
<1>11. CASE RemoveTop(r)
  <2>1. pc[r] = "rm" /\ UNCHANGED <<object, meta, held>> /\ pc'[r] \in {"emit", "done"}
    BY <1>11 DEF RemoveTop, Removed, Go, Fail, Answer
  <2> QED BY <1>3, <2>1 DEF Looping
<1>12. CASE WriteError(r) \/ Abandon(r) \/ Emit(r)
  <2>1. pc'[r] \in {"done", "lost"}
    BY <1>12 DEF WriteError, Abandon, Emit, GiveUp, Go, Fail, Answer
  <2> QED BY <2>1 DEF Looping
<1>13. CASE MakeStaging(r) \/ Open(r) \/ Write(r) \/ ReadInfo(r)
  BY <1>1, <1>13 DEF MakeStaging, Open, Write, ReadInfo, Busy
<1> QED BY <1>1, <1>5, <1>6, <1>7, <1>8, <1>9, <1>10, <1>11, <1>12, <1>13 DEF Acts, Step

(* A step of another task, or for another object.                          *)
LEMMA WholeOther ==
  ASSUME TypeInv, NEW r \in Tasks, Program(r), Opened(r), Acts(r), NEW k \in Keys, Whole(k),
         ~(KeyOf(r) = k /\ (OpenObject(r) \/ Writing(r)))
  PROVE  Whole(k)'
<1>1. UNCHANGED <<object[k], meta[k], settled[k]>>
  BY ObjectMoves
<1>2. \A s \in Tasks : Writing(s)' /\ KeyOf(s)' = k =>
        Writing(s) /\ KeyOf(s) = k /\ UNCHANGED <<pc[s], req[s], held[s], cursor[s], pool[s]>>
  <2>1. ASSUME NEW s \in Tasks, Writing(s)', KeyOf(s)' = k, s # r
        PROVE  Writing(s) /\ KeyOf(s) = k /\ UNCHANGED <<pc[s], req[s], held[s], cursor[s], pool[s]>>
    BY <2>1, Writers, Frame
  <2>2. ~(Writing(r)' /\ KeyOf(r)' = k)
    BY Moves, Writers
  <2> QED BY <2>1, <2>2
<1>3. Solitary(k)'
  BY <1>1, <1>2 DEF Whole, Solitary
<1>4. Answered(k)'
  BY <1>1 DEF Whole, Answered
<1>5. ASSUME NEW s \in Tasks, KeyOf(s)' = k PROVE Product(s)'
  <2>1. SUFFICES ASSUME Writing(s)', settled'[k] = NONE PROVE Product(s)'
    BY <1>5 DEF Product
  <2>2. Product(s) /\ Writing(s) /\ KeyOf(s) = k /\ UNCHANGED <<pc[s], req[s], held[s], cursor[s], pool[s]>>
    BY <1>2, <1>5, <2>1 DEF Whole
  <2> QED BY <1>1, <1>5, <2>1, <2>2 DEF Product, Handed
<1> QED BY <1>3, <1>4, <1>5 DEF Whole

(* A completion opens the object: it writes it alone, or with others.      *)
LEMMA WholeOpen ==
  ASSUME TypeInv, NEW r \in Tasks, Program(r), Opened(r), OpenObject(r), NEW k \in Keys, KeyOf(r) = k
  PROVE  Whole(k)'
<1> USE DEF TypeInv, StoreOK, TasksOK, RestOK
<1>1. /\ pc[r] = "open_object" /\ UNCHANGED <<req, held>> /\ held[r] = <<>> /\ pc'[r] = "check_part"
      /\ object'[k] = <<>>
      /\ settled'[k] = IF \E s \in Tasks : Writing(s) /\ KeyOf(s) = k THEN MANGLED ELSE NONE
  BY DEF OpenObject, Go, Program
<1>0. pool'[r] = "clear" /\ Handed(r)' = <<>>
  <2>1. pool[r] = "clear"
    BY <1>1, PoolClear DEF Looping
  <2>2. UNCHANGED <<pool, held, cursor>> /\ cursor[r] = 1
    BY DEF OpenObject, Program
  <2>3. SubSeq(held[r], 1, cursor[r] - 1) = <<>>
    BY <2>2, SubSeqEmpty
  <2> QED BY <2>1, <2>2, <2>3 DEF Handed
<1>2. \A s \in Tasks : KeyOf(s)' = KeyOf(s)
  BY <1>1 DEF KeyOf
<1>3. \A s \in Tasks : s # r => (Writing(s)' <=> Writing(s))
  BY Writers DEF Acts, Step
<1>4. settled'[k] = NONE => \A s \in Tasks : KeyOf(s) = k /\ Writing(s)' => s = r
  BY <1>1, <1>3, UploadMarkers
<1>5. settled'[k] \in {NONE, MANGLED}
  BY <1>1
<1>6. Solitary(k)'
  BY <1>2, <1>4, <1>5 DEF Solitary
<1>7. Answered(k)'
  BY <1>5 DEF Answered
<1>8. ASSUME NEW s \in Tasks, KeyOf(s)' = k PROVE Product(s)'
  <2>1. SUFFICES ASSUME Writing(s)', settled'[k] = NONE PROVE Product(s)'
    BY <1>8 DEF Product
  <2>2. s = r
    BY <1>2, <1>4, <1>8, <2>1
  <2> QED BY <1>0, <1>1, <1>8, <2>2 DEF Product
<1> QED BY <1>6, <1>7, <1>8 DEF Whole

(* A completion writes the object, or answers.                             *)
LEMMA WholeWriter ==
  ASSUME TypeInv, \A s \in Tasks : Program(s) /\ Opened(s), NEW r \in Tasks, Acts(r), Promise(r),
         NEW k \in Keys, Whole(k), KeyOf(r) = k, Writing(r)
  PROVE  Whole(k)'
<1> USE DEF TypeInv, StoreOK, TasksOK, RestOK
<1>1. ~Start(r) /\ ~OpenObject(r)
  BY WriterActs
<1>2. UNCHANGED req /\ \A s \in Tasks : KeyOf(s)' = KeyOf(s)
  BY <1>1, Frame DEF KeyOf
<1>3. \A s \in Tasks : Writing(s)' => Writing(s)
  BY <1>1, Moves, Writers
<1>4. settled[k] \in {NONE, MANGLED}
  BY DEF Whole, Solitary
<1>5. settled[k] = NONE => \A s \in Tasks : Writing(s) /\ KeyOf(s) = k => s = r
  BY DEF Whole, Solitary
<1>6. CASE ~Emit(r)
  <2>1. settled'[k] = settled[k]
    BY <1>1, <1>6 DEF Acts, Step, WriteError, Abandon, MakeStaging, Open, Write, ReadInfo,
                      CheckPart, ReadPart, AppendBlock, OpenMeta, WriteMeta, NoticeEntry,
                      RemoveEntry, RemoveTop, ghosts
  <2>2. Solitary(k)' /\ Answered(k)'
    BY <1>2, <1>3, <1>4, <1>5, <2>1 DEF Solitary, Answered
  <2>3. ASSUME NEW s \in Tasks, KeyOf(s)' = k PROVE Product(s)'
    <3>1. SUFFICES ASSUME Writing(s)', settled'[k] = NONE PROVE Product(s)'
      BY <2>3 DEF Product
    <3>2. s = r /\ settled[KeyOf(r)] = NONE
      BY <1>2, <1>3, <1>5, <2>1, <2>3, <3>1
    <3> QED BY <3>1, <3>2, ProductSelf DEF Whole
  <2> QED BY <2>2, <2>3 DEF Whole
<1>7. CASE Emit(r)
  <2>0. pool'[r] = "clear"
    BY <1>7, PoolClear DEF Emit, Looping
  <2>1. /\ pc[r] = "emit" /\ UNCHANGED <<object, meta>> /\ ~Writing(r)'
        /\ settled'[k] = IF settled[k] = NONE THEN held[r] ELSE settled[k]
    BY <1>7, <2>0 DEF Emit, Answer, Writing, fs
  <2>2. CASE settled[k] = NONE
    <3>1. object[k] = held[r] /\ meta[k] = Describes(held[r])
      BY <2>1, <2>2 DEF Whole, Product
    <3>2. held[r] # ABSENT
      BY UploadMarkers DEF Block
    <3>3. \A s \in Tasks : ~(Writing(s)' /\ KeyOf(s)' = k)
      BY <1>2, <1>3, <1>5, <2>1, <2>2
    <3>4. Answered(k)'
      BY <2>1, <2>2, <3>1, <3>2 DEF Answered
    <3> QED BY <3>3, <3>4 DEF Whole, Solitary, Product
  <2>3. CASE settled[k] # NONE
    <3>1. settled'[k] = MANGLED /\ MANGLED # NONE
      BY <1>4, <2>1, <2>3, UploadMarkers
    <3> QED BY <3>1 DEF Whole, Solitary, Answered, Product
  <2> QED BY <2>2, <2>3
<1> QED BY <1>6, <1>7

(* A block of a completion reaches the object.                             *)
LEMMA WholeLand ==
  ASSUME TypeInv, \A s \in Tasks : Program(s) /\ Opened(s), NEW r \in Tasks, Lands(r),
         NEW k \in Keys, Whole(k)
  PROVE  Whole(k)'
<1>1. /\ UNCHANGED <<meta, pc, req, cursor, held, settled>> /\ Writing(r)
      /\ KeyOf(r) # k => object'[k] = object[k]
  BY LandMoves
<1>2. \A s \in Tasks : KeyOf(s)' = KeyOf(s) /\ Handed(s)' = Handed(s)
  BY <1>1 DEF KeyOf, Handed
<1>3. \A s \in Tasks : s # r => pool'[s] = pool[s]
  BY LandMoves
<1>4. \A s \in Tasks : Writing(s)' => Writing(s)
  BY <1>1, <1>3 DEF Writing
<1>5. Solitary(k)'
  BY <1>1, <1>2, <1>4 DEF Whole, Solitary
<1>6. Answered(k)'
  BY <1>1 DEF Whole, Solitary, Answered
<1>7. ASSUME NEW s \in Tasks, KeyOf(s)' = k PROVE Product(s)'
  <2>1. SUFFICES ASSUME Writing(s)', settled'[k] = NONE PROVE Product(s)'
    BY <1>7 DEF Product
  <2>2. Writing(s) /\ KeyOf(s) = k /\ settled[k] = NONE /\ Product(s)
    BY <1>1, <1>2, <1>4, <1>7, <2>1 DEF Whole
  <2>3. CASE s # r
    <3>1. KeyOf(r) # k
      BY <1>1, <2>2, <2>3 DEF Whole, Solitary
    <3> QED BY <1>1, <1>2, <1>3, <1>7, <2>2, <2>3, <3>1 DEF Product
  <2>4. CASE s = r
    <3>1. Busy(r) /\ pool[r] = "afloat"
      BY <1>1, <2>1, <2>4, LandMoves DEF Writing, Busy
    <3>2. pc[r] \in Looping
      BY <3>1, CutShortEnds DEF Busy, Opened, Pooled
    <3>3. object[k] = Front(Handed(r))
      BY <2>2, <2>4, <3>1, <3>2 DEF Product
    <3>4. \/ pool'[r] = "clear" /\ object'[k] = Handed(r)
          \/ pool'[r] = "failed"
      <4>1. r \in DOMAIN pool /\ object[KeyOf(r)] = Front(Handed(r)) /\ KeyOf(r) = k
        BY <2>2, <2>4, <3>3 DEF TypeInv, RestOK
      <4>2. \/ pool' = [pool EXCEPT ![r] = "clear"] /\ object'[KeyOf(r)] = Handed(r)
            \/ pool' = [pool EXCEPT ![r] = "failed"]
        BY <4>1, LandMoves
      <4> QED BY <4>1, <4>2
    <3> QED BY <1>1, <1>2, <1>7, <2>4, <3>2, <3>4 DEF Product, Looping
  <2> QED BY <2>3, <2>4
<1> QED BY <1>5, <1>6, <1>7 DEF Whole

LEMMA WholeStep ==
  ASSUME TypeInv, \A s \in Tasks : Program(s) /\ Opened(s) /\ Promise(s), Next,
         NEW k \in Keys, Whole(k)
  PROVE  Whole(k)'
<1>1. CASE Crash
  <2>1. PICK S \in SUBSET {s \in Tasks \ unlinked : \/ pc[s] \in {"write", "write_meta"}
                                                  \/ pool[s] = "afloat"} :
          Torn(S)
    BY <1>1 DEF Crash
  <2>2. /\ IF \E s \in S : pool[s] = "afloat" /\ KeyOf(s) = k
           THEN object'[k] = <<MANGLED>> ELSE object'[k] = object[k]
        /\ IF \E s \in S : pc[s] = "write_meta" /\ KeyOf(s) = k
           THEN meta'[k] = MANGLED ELSE meta'[k] = meta[k]
    BY <1>1, <2>1, TornTypes DEF TypeInv, Crash
  <2>3. settled' = settled /\ \A s \in Tasks : ~Writing(s)'
    BY <1>1 DEF Crash, ghosts, Writing, InFlight
  <2>4. \A s \in Tasks : pool[s] = "afloat" \/ pc[s] = "write_meta" => Writing(s)
    BY DEF Program, Writing, Assembly
  <2>5. ASSUME settled[k] \notin {NONE, MANGLED} PROVE UNCHANGED <<object[k], meta[k]>>
    BY <2>2, <2>4, <2>5 DEF Whole, Solitary
  <2> QED BY <2>3, <2>5 DEF Whole, Solitary, Answered, Product
<1>2. CASE \E r \in Tasks : Acts(r)
  <2>1. PICK r \in Tasks : Acts(r)
    BY <1>2
  <2>2. CASE KeyOf(r) = k /\ OpenObject(r)
    BY <2>2, WholeOpen
  <2>3. CASE KeyOf(r) = k /\ Writing(r)
    BY <2>1, <2>3, WholeWriter
  <2>4. CASE ~(KeyOf(r) = k /\ (OpenObject(r) \/ Writing(r)))
    BY <2>1, <2>4, WholeOther
  <2> QED BY <2>2, <2>3, <2>4
<1>3. ASSUME NEW r \in Tasks, Lands(r) PROVE Whole(k)'
  BY <1>3, WholeLand
<1> QED BY <1>1, <1>2, <1>3 DEF Next, Acts, Lands

(* No request has begun; what is stored was answered.                      *)
LEMMA InitInv == Init => IInv
<1> SUFFICES ASSUME Init PROVE IInv
  OBVIOUS
<1>1. /\ \A r \in Tasks : /\ pc[r] = "idle" /\ req[r] = NoAsk /\ reply[r].code = ""
                          /\ cursor[r] = 1 /\ held[r] = <<>> /\ promised[r] = <<>>
      /\ unlinked = {} /\ TasksOK
      /\ pool \in [Tasks -> {"clear", "afloat", "failed"}] /\ \A r \in Tasks : pool[r] = "clear"
  <2>1. 1 \in 1..(Cardinality(Numbers) + 1)
    BY SomeParts
  <2>2. /\ pc = [r \in Tasks |-> "idle"] /\ req = [r \in Tasks |-> NoAsk]
        /\ reply = [r \in Tasks |-> [code |-> "", blocks |-> <<>>]]
        /\ cursor = [r \in Tasks |-> 1] /\ held = [r \in Tasks |-> <<>>]
        /\ todo = [r \in Tasks |-> {}] /\ unlinked = {} /\ promised = [r \in Tasks |-> <<>>]
        /\ pool = [r \in Tasks |-> "clear"]
    BY DEF Init
  <2>3. <<>> \in Seq(Block) /\ "idle" \in PCs /\ "" \in Codes
    BY DEF PCs, Codes
  <2>4. /\ pc \in [Tasks -> PCs] /\ req \in [Tasks -> Asks \cup {NoAsk}]
        /\ held \in [Tasks -> Seq(Block)] /\ todo \in [Tasks -> SUBSET Places]
    BY <2>2, <2>3
  <2>5. reply \in [Tasks -> [code : Codes, blocks : Seq(Block)]]
    BY <2>2, <2>3
  <2>6. cursor \in [Tasks -> 1..(Cardinality(Numbers) + 1)]
    BY <2>1, <2>2
  <2>7. TasksOK
    BY <2>4, <2>5, <2>6 DEF TasksOK
  <2> QED BY <2>2, <2>7
<1>2. /\ staging \in [Uploads -> SUBSET {TOP, PARTS}] /\ file \in [Uploads -> [Names -> Contents]]
      /\ born \subseteq Uploads /\ acked \in [Uploads \X Numbers -> Values \cup {NONE, MANGLED}]
      /\ \A u \in Uploads : FilesOK(u) /\ Housed(u)
      /\ \A u \in Uploads, n \in Numbers : acked[<<u, n>>] \in Values => Stored(u, n) = acked[<<u, n>>]
  <2>1. PICK B \in SUBSET Uploads, p \in [Uploads \X Numbers -> Values \cup {ABSENT}] :
          /\ \A u \in Uploads \ B, n \in Numbers : p[<<u, n>>] = ABSENT
          /\ born = B
          /\ staging = [u \in Uploads |-> IF u \in B THEN {TOP, PARTS} ELSE {}]
          /\ file = [u \in Uploads |-> [e \in Names |->
                       IF u \notin B THEN ABSENT
                       ELSE CASE e = INFO -> Target[u]
                              [] e = TYPE -> NONE
                              [] OTHER -> p[<<u, e[2]>>]]]
          /\ acked = [x \in Uploads \X Numbers |-> IF p[x] = ABSENT THEN NONE ELSE p[x]]
    BY DEF Init
  <2>2. ASSUME NEW u \in Uploads, NEW e \in Names
        PROVE  /\ u \notin B => file[u][e] = ABSENT
               /\ u \in B => /\ e = INFO => file[u][e] = Target[u]
                             /\ e = TYPE => file[u][e] = NONE
                             /\ e \notin {INFO, TYPE} => file[u][e] = p[<<u, e[2]>>]
    <3>1. file[u][e] = IF u \notin B THEN ABSENT
                      ELSE CASE e = INFO -> Target[u]
                             [] e = TYPE -> NONE
                             [] OTHER -> p[<<u, e[2]>>]
      BY <2>1
    <3>2. INFO # TYPE
      BY NamesApart
    <3>3. CASE u \notin B
      BY <3>1, <3>3
    <3>4. CASE u \in B
      BY <3>1, <3>2, <3>4
    <3> QED BY <3>3, <3>4
  <2>3. ASSUME NEW u \in Uploads, NEW n \in Numbers
        PROVE  /\ file[u][Part(n)] = p[<<u, n>>] /\ file[u][PartInfo(n)] = p[<<u, n>>]
               /\ p[<<u, n>>] \in Values \cup {ABSENT}
               /\ acked[<<u, n>>] = IF p[<<u, n>>] = ABSENT THEN NONE ELSE p[<<u, n>>]
    <3>1. /\ Part(n) \in Names \ {INFO, TYPE} /\ PartInfo(n) \in Names \ {INFO, TYPE}
          /\ Part(n)[2] = n /\ PartInfo(n)[2] = n
      BY NamesApart DEF Part, PartInfo
    <3>2. p[<<u, n>>] \in Values \cup {ABSENT}
      BY <2>1
    <3>3. acked[<<u, n>>] = IF p[<<u, n>>] = ABSENT THEN NONE ELSE p[<<u, n>>]
      BY <2>1
    <3>4. CASE u \in B
      BY <2>2, <3>1, <3>2, <3>3, <3>4
    <3>5. CASE u \notin B
      <4>1. p[<<u, n>>] = ABSENT
        BY <2>1, <3>5
      <4> QED BY <2>2, <3>1, <3>3, <3>5, <4>1
    <3> QED BY <3>4, <3>5
  <2>4. ASSUME NEW u \in Uploads PROVE FilesOK(u)
    <3>1. file[u][INFO] \in {Target[u], ABSENT} /\ file[u][TYPE] \in {NONE, ABSENT}
      BY <2>2, NamesApart
    <3> QED BY <2>3, <3>1 DEF FilesOK, Block
  <2>5. ASSUME NEW u \in Uploads, NEW e \in Names PROVE file[u][e] \in Contents
    <3>1. Target[u] \in Keys
      BY Targets
    <3>2. file[u][INFO] \in {Target[u], ABSENT} /\ file[u][TYPE] \in {NONE, ABSENT}
      BY <2>2, NamesApart
    <3>3. \A n \in Numbers : {file[u][Part(n)], file[u][PartInfo(n)]} \subseteq Values \cup {ABSENT}
      BY <2>3
    <3>4. e \in {INFO, TYPE} \/ \E n \in Numbers : e \in {Part(n), PartInfo(n)}
      BY NamesApart
    <3> QED BY <3>1, <3>2, <3>3, <3>4 DEF Contents, Block
  <2>6. file \in [Uploads -> [Names -> Contents]]
    <3>1. file = [u \in Uploads |-> [e \in Names |-> file[u][e]]]
      BY <2>1
    <3> QED BY <2>5, <3>1
  <2>7. ASSUME NEW u \in Uploads PROVE Housed(u)
    <3>1. CASE u \in B
      <4>1. staging[u] = {TOP, PARTS}
        BY <2>1, <3>1
      <4> QED BY <4>1, NamesApart DEF Housed, Within
    <3>2. CASE u \notin B
      <4>1. staging[u] = {}
        BY <2>1, <3>2
      <4> QED BY <2>2, <3>2, <4>1 DEF Housed, Within
    <3> QED BY <3>1, <3>2
  <2>8. staging \in [Uploads -> SUBSET {TOP, PARTS}] /\ born \subseteq Uploads
    BY <2>1
  <2>9. acked \in [Uploads \X Numbers -> Values \cup {NONE, MANGLED}]
    BY <2>1
  <2>10. ASSUME NEW u \in Uploads, NEW n \in Numbers, acked[<<u, n>>] \in Values
         PROVE  Stored(u, n) = acked[<<u, n>>]
    BY <2>3, <2>10, UploadMarkers DEF Stored
  <2> QED BY <2>4, <2>6, <2>7, <2>8, <2>9, <2>10
<1>3. /\ object \in [Keys -> Seq(Block) \cup {ABSENT}] /\ meta \in [Keys -> Docs]
      /\ settled \in [Keys -> {NONE, ABSENT, MANGLED} \cup Seq(Block)]
      /\ \A k \in Keys : Answered(k)
  <2>1. PICK o \in [Keys -> {<<v>> : v \in Values} \cup {ABSENT}] :
          /\ object = o
          /\ meta = [k \in Keys |-> IF o[k] = ABSENT THEN ABSENT ELSE Describes(o[k])]
          /\ settled = o
    BY DEF Init
  <2>2. \A v \in Values : <<v>> \in Seq(Block)
    BY DEF Block
  <2>3. ASSUME NEW k \in Keys
        PROVE  o[k] \in Seq(Block) \cup {ABSENT} /\ meta[k] \in Docs /\ Answered(k)
    <3>1. o[k] \in Seq(Block) \cup {ABSENT}
      BY <2>1, <2>2
    <3> QED BY <2>1, <3>1 DEF Docs, Describes, Answered
  <2> QED BY <2>1, <2>3
<1>4. TypeInv
  <2>1. events \in Seq(Keys) /\ promised \in [Tasks -> Seq(Values \cup {NONE, MANGLED})]
    <3>1. events = <<>> /\ promised = [r \in Tasks |-> <<>>]
      BY DEF Init
    <3>2. <<>> \in Seq(Keys) /\ <<>> \in Seq(Values \cup {NONE, MANGLED})
      OBVIOUS
    <3> QED BY <3>1, <3>2
  <2> QED BY <1>1, <1>2, <1>3, <2>1 DEF TypeInv, StoreOK, RestOK
<1>5. \A r \in Tasks : ~InFlight(r) /\ ~Writing(r)
  BY <1>1 DEF InFlight, Writing
<1>6. \A r \in Tasks : Program(r) /\ Begun(r) /\ Opened(r) /\ Promise(r)
  <2> SUFFICES ASSUME NEW r \in Tasks PROVE Program(r) /\ Begun(r) /\ Opened(r) /\ Promise(r)
    OBVIOUS
  <2>0. pc[r] = "idle" /\ req[r] = NoAsk
    BY <1>1
  <2>1. pc[r] = "idle" /\ req[r].kind = "reap"
    BY <2>0 DEF NoAsk
  <2>2. Program(r)
    BY <1>1, <2>1 DEF Program, Assembly
  <2>3. Begun(r) /\ Promise(r)
    BY <2>1 DEF Begun, Promise
  <2>4. Opened(r)
    BY <1>1, <1>5, <2>1 DEF Opened, Pooled
  <2> QED BY <2>2, <2>3, <2>4
<1>7. \A u \in Uploads, n \in Numbers : PartOK(u, n)
  BY <1>2, <1>5 DEF PartOK, Uploading
<1>8. \A k \in Keys : Whole(k)
  BY <1>3, <1>5 DEF Whole, Solitary, Product
<1>9. AbortedIsGone
  BY <1>1 DEF AbortedIsGone, NoAsk
<1> QED BY <1>2, <1>4, <1>6, <1>7, <1>8, <1>9 DEF IInv

(* Every step keeps the invariant.                                         *)
LEMMA StepInv == IInv /\ [Next]_vars => IInv'
<1>1. ASSUME IInv, Next PROVE IInv'
  <2>1. StoreOK' /\ TasksOK' /\ RestOK' /\ \A x \in Tasks : Program(x)'
    BY <1>1, StoreStep, TasksStep, RestStep DEF IInv
  <2>2. TypeInv'
    BY <2>1 DEF TypeInv
  <2>3. \A u \in Uploads : Housed(u)'
    BY <1>1, HousedStep DEF IInv
  <2>4. \A x \in Tasks : Begun(x)'
    BY <1>1, BegunStep DEF IInv
  <2>5. \A x \in Tasks : Opened(x)'
    BY <1>1, <2>1, <2>2, OpenedStep DEF IInv
  <2>6. \A u \in Uploads, n \in Numbers : PartOK(u, n)'
    BY <1>1, PartStep DEF IInv
  <2>7. \A x \in Tasks : Promise(x)'
    BY <1>1, <2>2, PromiseStep DEF IInv
  <2>8. \A k \in Keys : Whole(k)'
    BY <1>1, WholeStep DEF IInv
  <2>9. AbortedIsGone'
    BY <1>1, GoneStep DEF IInv
  <2> QED BY <2>1, <2>2, <2>3, <2>4, <2>5, <2>6, <2>7, <2>8, <2>9 DEF IInv
<1>2. ASSUME IInv, UNCHANGED vars PROVE IInv'
  <2>1. TypeInv' /\ \A u \in Uploads : Housed(u)'
    BY <1>2 DEF IInv, TypeInv, StoreOK, TasksOK, RestOK, FilesOK, Housed, Within, vars, fs, ghosts
  <2>2. \A r \in Tasks : Program(r)' /\ Begun(r)' /\ Opened(r)' /\ Promise(r)'
    <3> SUFFICES ASSUME NEW r \in Tasks PROVE Program(r)' /\ Begun(r)' /\ Opened(r)' /\ Promise(r)'
      OBVIOUS
    <3>1. Program(r) /\ Begun(r) /\ Opened(r) /\ Promise(r)
      BY <1>2 DEF IInv
    <3>2. Program(r)'
      BY <1>2, <3>1, ProgramSame DEF vars
    <3>3. Begun(r)'
      BY <1>2, <3>1 DEF Begun, vars
    <3>4. Opened(r)'
      BY <1>2, <3>1 DEF Opened, Pooled, CutShort, Writing, KeyOf, FileOf, vars, fs
    <3>5. Promise(r)'
      BY <1>2, <3>1 DEF Promise, InFlight, Uploading, Stored, vars, fs, ghosts
    <3> QED BY <3>2, <3>3, <3>4, <3>5
  <2>3. \A u \in Uploads, n \in Numbers : PartOK(u, n)'
    <3> SUFFICES ASSUME NEW u \in Uploads, NEW n \in Numbers PROVE PartOK(u, n)'
      OBVIOUS
    <3>1. PartOK(u, n)
      BY <1>2 DEF IInv
    <3>2. UNCHANGED <<file, pc, req, cursor, unlinked, acked>>
      BY <1>2 DEF vars, fs, ghosts
    <3>3. \A s \in Tasks : Uploading(s, u, n)' => Uploading(s, u, n)
      BY <3>2 DEF Uploading, InFlight
    <3>4. Stored(u, n)' = Stored(u, n)
      BY <3>2 DEF Stored, Part
    <3> QED BY <3>1, <3>2, <3>3, <3>4, PartSame
  <2>4. \A k \in Keys : Whole(k)'
    BY <1>2 DEF IInv, Whole, Solitary, Answered, Product, Writing, KeyOf, Handed, vars, fs, ghosts
  <2>5. AbortedIsGone'
    BY <1>2 DEF IInv, AbortedIsGone, Within, vars, fs
  <2> QED BY <2>1, <2>2, <2>3, <2>4, <2>5 DEF IInv
<1> QED BY <1>1, <1>2

LEMMA Invariant == Spec => []IInv
<1>1. Init => IInv
  BY InitInv
<1>2. IInv /\ [Next]_vars => IInv'
  BY StepInv
<1> QED BY <1>1, <1>2, PTL DEF Spec

-----------------------------------------------------------------------------
(* Every variable keeps its type, and what a staging directory holds, it   *)
(* holds in a directory that is there.                                     *)
THEOREM MultipartTypeCorrect == Spec => []MultipartTypeOK
<1>1. IInv => MultipartTypeOK
  <2> SUFFICES ASSUME IInv PROVE MultipartTypeOK
    OBVIOUS
  <2>1. ASSUME NEW u \in Uploads
        PROVE  /\ DOMAIN file[u] = Names
               /\ file[u][INFO] \in {Target[u], ABSENT, EMPTY, MANGLED}
               /\ file[u][TYPE] \in {NONE, ABSENT, EMPTY, MANGLED}
               /\ \A n \in Numbers :
                    {file[u][Part(n)], file[u][PartInfo(n)]} \subseteq Block \cup {ABSENT}
               /\ \A e \in Within(u) \ {TOP} : In(e) \in staging[u]
    BY DEF IInv, TypeInv, StoreOK, FilesOK, Housed
  <2>2. ASSUME NEW k \in Keys
        PROVE  /\ object[k] = ABSENT \/ object[k] \in Seq(Block)
               /\ \/ meta[k] \in {ABSENT, EMPTY, MANGLED}
                  \/ DOMAIN meta[k] = {"of"} /\ meta[k].of \in Seq(Block)
               /\ settled[k] \in {NONE, ABSENT, MANGLED} \/ settled[k] \in Seq(Block)
    <3>1. /\ object[k] \in Seq(Block) \cup {ABSENT} /\ meta[k] \in Docs
          /\ settled[k] \in {NONE, ABSENT, MANGLED} \cup Seq(Block)
      BY DEF IInv, TypeInv, StoreOK, RestOK
    <3>2. \A d \in [of : Seq(Block)] : DOMAIN d = {"of"} /\ d.of \in Seq(Block)
      OBVIOUS
    <3> QED BY <3>1, <3>2 DEF Docs
  <2>3. \A r \in Tasks : reply[r].code \in Codes /\ reply[r].blocks \in Seq(Block)
    BY DEF IInv, TypeInv, TasksOK
  <2> QED BY <2>1, <2>2, <2>3 DEF MultipartTypeOK, IInv, TypeInv, StoreOK, TasksOK, RestOK, Places
<1> QED BY <1>1, Invariant, PTL

(* complete_multipart_upload answers Ok only with exactly the parts it was *)
(* asked for, each with the bytes last answered Ok, whatever aborts, the   *)
(* reaper and other completions remove under it.                           *)
THEOREM AssembledCorrect == Spec => []Assembled
<1>1. IInv => Assembled
  <2> SUFFICES ASSUME IInv, NEW r \in Tasks, req[r].kind = "complete", reply[r].code = "Ok"
               PROVE  /\ Len(reply[r].blocks) = Len(req[r].parts)
                      /\ \A i \in DOMAIN promised[r] :
                           promised[r][i] \in Values => reply[r].blocks[i] = promised[r][i]
    BY DEF Assembled
  <2>1. /\ pc[r] = "done" /\ Len(held[r]) = Len(req[r].parts) /\ reply[r].blocks = held[r]
        /\ DOMAIN promised[r] = DOMAIN req[r].parts
        /\ \A i \in DOMAIN promised[r] :
             promised[r][i] \in Values /\ i <= Len(held[r]) => held[r][i] = promised[r][i]
    BY DEF IInv, Promise
  <2>2. req[r] \in Asks
    BY <2>1 DEF IInv, Program
  <2>3. DOMAIN req[r].parts = 1..Len(req[r].parts) /\ Len(req[r].parts) \in Nat
    BY <2>2, AskPart
  <2> QED BY <2>1, <2>3
<1> QED BY <1>1, Invariant, PTL

(* An object that a completion wrote alone stays what that completion      *)
(* answered, with the metadata that describes it, until another opens it.  *)
THEOREM AnsweredObjectCorrect == Spec => []AnsweredObjectStays
<1>1. IInv => AnsweredObjectStays
  BY DEF IInv, Whole, Answered, AnsweredObjectStays
<1> QED BY <1>1, Invariant, PTL

(* Of an upload whose abort was answered Ok, nothing is staged again: not  *)
(* by a part that was on its way, and not by a late create.                *)
THEOREM AbortedCorrect == Spec => []AbortedIsGone
<1>1. IInv => AbortedIsGone
  BY DEF IInv
<1> QED BY <1>1, Invariant, PTL

-----------------------------------------------------------------------------
(* What a completion that did not get to its end leaves behind.            *)

Concerned(r, k) == (Writing(r) \/ CutShort(r)) /\ KeyOf(r) = k
Founded(k) == settled[k] = NONE => \E r \in Tasks : Concerned(r, k)

(* A completion that opened the object ends by answering Ok, or is one     *)
(* that was refused or cut short.                                          *)
LEMMA WriterEnds ==
  ASSUME TypeInv, NEW r \in Tasks, Program(r), Opened(r), Acts(r), Writing(r), ~Emit(r)
  PROVE  (Writing(r) \/ CutShort(r))' /\ KeyOf(r)' = KeyOf(r)
<1>0. Busy(r)
  BY WriterActs
<1> SUFFICES (Busy(r) \/ CutShort(r))' /\ KeyOf(r)' = KeyOf(r)
  BY DEF Writing, Busy
<1> USE DEF TypeInv, TasksOK, Go, Fail, Answer, Busy, CutShort
<1>1. ~Start(r) /\ ~OpenObject(r) /\ req[r].kind = "complete"
  BY <1>0 DEF Start, OpenObject
<1>2. UNCHANGED req
  BY <1>1, Frame
<1>3. KeyOf(r)' = KeyOf(r) /\ req'[r].kind = "complete"
  BY <1>1, <1>2 DEF KeyOf
<1>4. ~(MakeStaging(r) \/ Open(r) \/ Write(r) \/ ReadInfo(r))
  BY <1>0 DEF MakeStaging, Open, Write, ReadInfo
<1>5. CASE CheckPart(r)
  BY <1>3, <1>5 DEF CheckPart, Settle
<1>6. CASE ReadPart(r)
  <2>1. Go(r, "append") \/ Fail(r, "InternalError")
    BY <1>6 DEF ReadPart
  <2> QED BY <1>3, <2>1
<1>7. CASE AppendBlock(r) \/ OpenMeta(r) \/ WriteMeta(r)
  <2>1. \/ Go(r, "check_part") \/ Go(r, "write_meta") \/ Go(r, "rm")
        \/ Fail(r, "InternalError")
    BY <1>7 DEF AppendBlock, Settle, OpenMeta, WriteMeta
  <2> QED BY <1>3, <2>1
<1>8. CASE NoticeEntry(r) \/ RemoveEntry(r)
  BY <1>0, <1>3, <1>8 DEF NoticeEntry, RemoveEntry
<1>9. CASE RemoveTop(r)
  <2>1. Go(r, "emit")
    BY <1>1, <1>9 DEF RemoveTop, Removed
  <2> QED BY <1>3, <2>1
<1>10. CASE WriteError(r)
  <2>1. pc[r] \notin {"open", "write"}
    BY <1>0
  <2>2. Fail(r, "InternalError")
    BY <2>1, <1>10 DEF WriteError
  <2> QED BY <1>3, <2>2
<1>11. CASE Abandon(r)
  BY <1>3, <1>11 DEF Abandon
<1> QED BY <1>1, <1>4, <1>5, <1>6, <1>7, <1>8, <1>9, <1>10, <1>11 DEF Acts, Step

LEMMA FoundedStep ==
  ASSUME TypeInv, \A s \in Tasks : Program(s) /\ Opened(s), [Next]_vars, NEW k \in Keys, Founded(k)
  PROVE  Founded(k)'
<1>1. CASE UNCHANGED vars
  BY <1>1 DEF vars, Founded, Concerned, Writing, CutShort, KeyOf, ghosts
<1>2. CASE Crash
  <2>1. UNCHANGED <<req, reply, settled>>
        /\ \A r \in Tasks : pc'[r] = IF InFlight(r) THEN "lost" ELSE pc[r]
    BY <1>2 DEF Crash, ghosts
  <2>2. \A r \in Tasks : Writing(r) => InFlight(r) \/ CutShort(r)
    BY DEF Writing, InFlight, Opened, Pooled, Looping
  <2>3. \A r \in Tasks : Concerned(r, k) => Concerned(r, k)'
    <3> TAKE r \in Tasks
    <3>1. CutShort(r) => CutShort(r)'
      BY <2>1 DEF CutShort
    <3>2. Writing(r) => CutShort(r)'
      BY <2>1, <2>2, <3>1, WriterKey DEF CutShort
    <3> QED BY <2>1, <3>1, <3>2 DEF Concerned, KeyOf
  <2> QED BY <2>1, <2>3 DEF Founded
<1>3. CASE \E r \in Tasks : Acts(r)
  <2> PICK r \in Tasks : Acts(r)
    BY <1>3
  <2>1. CASE KeyOf(r) = k /\ OpenObject(r)
    <3>1. pc'[r] = "check_part" /\ UNCHANGED req /\ req[r].kind = "complete"
      BY <2>1 DEF OpenObject, Go, TypeInv, TasksOK, Program
    <3>2. Concerned(r, k)'
      BY <2>1, <3>1 DEF Concerned, Writing, KeyOf
    <3> QED BY <3>2 DEF Founded
  <2>2. CASE settled[k] # NONE /\ ~(KeyOf(r) = k /\ OpenObject(r))
    <3>1. settled'[k] = settled[k]
      <4>1. CASE KeyOf(r) = k /\ Writing(r)
        <5>1. ~Start(r) /\ ~OpenObject(r)
          BY <4>1, WriterActs
        <5>2. CASE Emit(r)
          BY <2>2, <4>1, <5>2 DEF Emit, TypeInv, RestOK
        <5> QED BY <5>1, <5>2 DEF Acts, Step, WriteError, Abandon, MakeStaging, Open, Write,
             ReadInfo, CheckPart, ReadPart, AppendBlock, OpenMeta, WriteMeta, NoticeEntry,
             RemoveEntry, RemoveTop, ghosts
      <4> QED BY <2>2, <4>1, ObjectMoves
    <3> QED BY <2>2, <3>1 DEF Founded
  <2>3. CASE settled[k] = NONE
    <3> PICK s \in Tasks : Concerned(s, k)
      BY <2>3 DEF Founded
    <3>1. CASE s # r
      <4>1. UNCHANGED <<pc[s], req[s], reply[s]>>
        BY <3>1, Frame
      <4>0. pool'[s] = pool[s]
        BY <3>1, Frame
      <4>2. Concerned(s, k)'
        BY <4>0, <4>1 DEF Concerned, Writing, CutShort, KeyOf
      <4> QED BY <4>2 DEF Founded
    <3>2. CASE s = r /\ Emit(r)
      <4>1. settled'[k] = held[r] /\ held[r] \in Seq(Block)
        BY <2>3, <3>2 DEF Concerned, Emit, TypeInv, TasksOK, RestOK
      <4> QED BY <4>1, UploadMarkers DEF Founded, Block
    <3>3. CASE s = r /\ ~Emit(r)
      <4>1. Writing(r)
        BY <3>3, CutShortStays DEF Concerned
      <4> QED BY <3>3, <4>1, WriterEnds DEF Founded, Concerned
    <3> QED BY <3>1, <3>2, <3>3
  <2> QED BY <2>1, <2>2, <2>3
<1>4. CASE \E r \in Tasks : Lands(r)
  <2> PICK r \in Tasks : Lands(r)
    BY <1>4
  <2>1. UNCHANGED <<pc, req, reply, settled>> /\ \A s \in Tasks : s # r => pool'[s] = pool[s]
    BY LandMoves
  <2>2. \A s \in Tasks : Concerned(s, k) => Concerned(s, k)'
    <3> TAKE s \in Tasks
    <3>1. CutShort(s)' <=> CutShort(s)
      BY <2>1 DEF CutShort
    <3>2. Writing(s) => Writing(s)' \/ CutShort(s)
      BY <2>1, WriterKey DEF Writing, Opened, Pooled, Looping
    <3> QED BY <2>1, <3>1, <3>2 DEF Concerned, KeyOf
  <2> QED BY <2>1, <2>2 DEF Founded
<1> QED BY <1>1, <1>2, <1>3, <1>4 DEF Next, Acts, Lands

LEMMA FoundedInit == Init => \A k \in Keys : Founded(k)
<1> SUFFICES ASSUME Init, NEW k \in Keys PROVE settled[k] # NONE
  BY DEF Founded
<1>1. settled[k] \in {<<v>> : v \in Values} \cup {ABSENT}
  BY DEF Init
<1>2. \A v \in Values : <<v>> \in Seq(Values \cup {EMPTY, MANGLED})
  OBVIOUS
<1> QED BY <1>1, <1>2, UploadMarkers

(* README.md promises "md5-N" ETags of the objects that multipart uploads  *)
(* make; what breaks the promise is a completion that was refused or cut   *)
(* short after it had truncated the object, or two that overlapped, and    *)
(* nothing else: neither an abort, nor the reaper, nor an upload of a part. *)
THEOREM DamageCorrect == Spec => []DamageExplained
<1>1. IInv /\ (\A k \in Keys : Founded(k)) => DamageExplained
  <2> SUFFICES ASSUME IInv, NEW k \in Keys, Founded(k), settled[k] # MANGLED, object[k] # ABSENT,
                      meta[k] # Describes(object[k])
               PROVE  \E r \in Tasks : Concerned(r, k)
    BY DEF DamageExplained, Concerned
  <2>1. Answered(k)
    BY DEF IInv, Whole
  <2>2. settled[k] = NONE
    BY <2>1 DEF Answered
  <2> QED BY <2>2 DEF Founded
<1>2. IInv /\ (\A k \in Keys : Founded(k)) /\ [Next]_vars => (\A k \in Keys : Founded(k))'
  BY FoundedStep DEF IInv
<1> QED BY <1>1, <1>2, Invariant, FoundedInit, PTL DEF Spec

(* Where no completion was refused or cut short and no two overlapped, the *)
(* promise holds.                                                          *)
Unspoilt ==
  /\ \A k \in Keys : settled[k] # MANGLED
  /\ \A r \in Tasks : ~CutShort(r)

THEOREM CompletedETagCorrect == Spec => [](Unspoilt => ETagOfCompleted)
<1>1. IInv /\ DamageExplained => (Unspoilt => ETagOfCompleted)
  <2> SUFFICES ASSUME IInv, DamageExplained, Unspoilt, \A r \in Tasks : ~InFlight(r),
                      NEW k \in Keys, object[k] # ABSENT, meta[k] # ABSENT
               PROVE  meta[k] = Describes(object[k])
    BY DEF ETagOfCompleted
  <2>1. \A r \in Tasks : ~Writing(r)
    BY DEF Writing, InFlight, IInv, Opened, Pooled, Looping, Unspoilt
  <2> QED BY <2>1 DEF Unspoilt, DamageExplained
<1> QED BY <1>1, Invariant, DamageCorrect, PTL
=============================================================================
