---------------------------- MODULE PlayerProofs ----------------------------
(***************************************************************************)
(* Proofs about the standalone player.  Player: every stream, whatever the *)
(* plugin answers and however its transfer goes, is handed over in order,  *)
(* and is not used after it was freed.  PlayerBrowser: the counts of the   *)
(* objects it shares with the plugin are right, and so are the identifiers *)
(* it hands out.  XtBin: a click on an Xt plugin's widget is heard.        *)
(* PlayerMain: a plugin gets the attributes that the command line gives.   *)
(* PlayerPlugins: the plugin for an object is the first place's that has   *)
(* one.                                                                    *)
(***************************************************************************)
EXTENDS Player, PlayerPlugins, PlayerMain, PlayerBrowser, XtBin, DataFacts

-----------------------------------------------------------------------------
(* The inductive invariant.                                                  *)

AsFile == {"NP_ASFILE", "NP_ASFILEONLY"}
Ended == {"NPP_DestroyStream", "NPP_URLNotify"}
Buffer == [from : Nat, size : Nat \ {0}, offset : Nat]

StreamInstance ==
    [memory : {"free", "live", "freed"}, app : Apps \cup {NoApp}, notify : BOOLEAN,
     uri : {"file", "http", "javascript"}, stype : stypes,
     status : SUBSET {"ACTIVE", "ERROR", "FINISH", "DESTROY"},
     open : {"none", "pending", "run", "failed"}, curl : {"none", "fd", "timer", "done", "read"},
     commit : BOOLEAN, buffers : Seq(Buffer), read : Nat, offset : Nat, temp : Seq(Int),
     seen : {"nothing", "refused", "NPP_NewStream", "NPP_Write"} \cup Ended,
     got : Seq(Nat), file : Seq(Int), refusals : Nat, balks : SUBSET {"short", "unwanted"}]

\* The buffers hold what was read and not yet handed over, without a gap; only
\* the first is handed over in part.
Chain(bs, read) ==
    /\ \A i \in 1..Len(bs) :
        /\ bs[i].offset < bs[i].size
        /\ i > 1 => bs[i].offset = 0 /\ bs[i].from = bs[i - 1].from + bs[i - 1].size
    /\ bs # <<>> => bs[Len(bs)].from + bs[Len(bs)].size = read

\* The bytes before the first that a buffer still holds.
Handed(bs, read) == IF bs = <<>> THEN read ELSE bs[1].from + bs[1].offset

UpTo(n) == [i \in 1..n |-> i]

\* What the plugin, and the temporary file, have of a stream.
Delivery(st) ==
    LET n == Handed(st.buffers, st.read)
    IN  /\ st.got = UpTo(Len(st.got))
        /\ stream_use_npp_write(st) => Len(st.got) = n
        /\ st.temp # NoTemp /\ st.balks = {} => st.temp = UpTo(n)
        /\ st.temp # NoTemp => "ACTIVE" \in st.status /\ st.stype \in AsFile
        /\ "ACTIVE" \notin st.status => n = 0 /\ st.got = <<>> /\ st.stype = "NP_NORMAL"

\* A stream that has been opened is in no callback, and a stream that was told
\* to end is gone.
LiveOk(st) ==
    /\ Chain(st.buffers, st.read)
    /\ Delivery(st)
    /\ st.curl # "none" \/ st.commit = TRUE \/ st.buffers # <<>> \/ st.read # 0 => st.open = "run"
    /\ "DESTROY" \notin st.status /\ st.seen \notin Ended /\ st.file = NoTemp

\* A transfer has read what it may, and nothing of a script.
ReadOk(st) ==
    /\ st.curl # "done"
    /\ st.read <= IF st.curl = "read" THEN MaxBytes + 1 ELSE MaxBytes
    /\ st.uri = "javascript" /\ st.curl # "read" => st.read = 0

\* DeliveredInOrder and NoDanglingStream of one stream.
Delivered(st) ==
    /\ st.got = UpTo(Len(st.got))
    /\ (/\ st.seen \in Ended
        /\ NPReason(st) = "NPRES_DONE"
        /\ "unwanted" \notin st.balks
        /\ stream_use_npp_write(st)) => Len(st.got) = st.read
    /\ st.file # NoTemp /\ st.balks = {} => st.file = UpTo(st.read)

GoneOk(st) ==
    /\ Delivered(st)
    /\ st.commit = FALSE /\ st.open # "pending" /\ st.curl = "none" /\ st.buffers = <<>>
    /\ st.read <= MaxBytes + 1

StreamOk(st) ==
    /\ st \in StreamInstance
    /\ st.memory = "free" => st = FreeStream
    /\ st.memory = "live" => LiveOk(st) /\ ReadOk(st)
    /\ st.memory = "freed" => GoneOk(st)

StreamsInvariant ==
    /\ stream \in [Streams -> StreamInstance]
    /\ \A s \in Streams : StreamOk(stream[s])
-----------------------------------------------------------------------------
(* Buffers and bytes.                                                        *)

LEMMA HandedType ==
    ASSUME NEW bs \in Seq(Buffer), NEW r \in Nat
    PROVE  Handed(bs, r) \in Nat
<1>1. CASE bs = <<>>
  BY <1>1 DEF Handed
<1>2. CASE bs # <<>>
  <2>1. bs[1] \in Buffer
    BY <1>2
  <2> QED
    BY <1>2, <2>1 DEF Handed, Buffer
<1> QED
  BY <1>1, <1>2

\* on_stream_read_cb: a buffer more at the end.
LEMMA ChainAppend ==
    ASSUME NEW bs \in Seq(Buffer), NEW r \in Nat, NEW n \in Nat \ {0}, Chain(bs, r)
    PROVE  LET cs == Append(bs, stream_buffer_new(r, n))
           IN  /\ cs \in Seq(Buffer) /\ cs # <<>>
               /\ Chain(cs, r + n) /\ Handed(cs, r + n) = Handed(bs, r)
<1> DEFINE b == stream_buffer_new(r, n)
           cs == Append(bs, b)
<1>1. b \in Buffer /\ b.from = r /\ b.size = n /\ b.offset = 0
  BY DEF stream_buffer_new, Buffer
<1> HIDE DEF b
<1>2. /\ cs \in Seq(Buffer) /\ Len(cs) = Len(bs) + 1 /\ cs # <<>> /\ Len(bs) \in Nat
      /\ \A i \in 1..Len(bs) : cs[i] = bs[i]
      /\ cs[Len(bs) + 1] = b
  BY <1>1, AppendProps
<1> HIDE DEF cs
<1>3. ASSUME NEW i \in 1..Len(cs)
      PROVE  /\ cs[i].offset < cs[i].size
             /\ i > 1 => cs[i].offset = 0 /\ cs[i].from = cs[i - 1].from + cs[i - 1].size
  <2>1. CASE i <= Len(bs)
    <3>1. cs[i] = bs[i] /\ i \in 1..Len(bs)
      BY <1>2, <2>1
    <3>2. i > 1 => cs[i - 1] = bs[i - 1]
      BY <1>2, <2>1
    <3> QED
      BY <3>1, <3>2 DEF Chain
  <2>2. CASE i = Len(bs) + 1
    <3>1. cs[i] = b
      BY <1>2, <2>2
    <3>2. ASSUME i > 1 PROVE r = cs[i - 1].from + cs[i - 1].size
      <4>1. bs # <<>> /\ i - 1 = Len(bs) /\ i - 1 \in 1..Len(bs)
        BY <1>2, <2>2, <3>2
      <4>2. cs[i - 1] = bs[Len(bs)]
        BY <1>2, <4>1
      <4> QED
        BY <4>1, <4>2 DEF Chain
    <3> QED
      BY <1>1, <3>1, <3>2
  <2> QED
    BY <1>2, <2>1, <2>2
<1>4. Chain(cs, r + n)
  BY <1>1, <1>2, <1>3 DEF Chain
<1>5. Handed(cs, r + n) = Handed(bs, r)
  <2>1. CASE bs = <<>>
    BY <1>1, <1>2, <2>1 DEF Handed
  <2>2. CASE bs # <<>>
    <3>1. cs[1] = bs[1]
      BY <1>2, <2>2
    <3> QED
      BY <1>2, <2>2, <3>1 DEF Handed
  <2> QED
    BY <2>1, <2>2
<1> QED
  BY <1>2, <1>4, <1>5 DEF cs, b

\* The first buffer is used up.
LEMMA ChainTail ==
    ASSUME NEW bs \in Seq(Buffer), NEW r \in Nat, Chain(bs, r), bs # <<>>
    PROVE  /\ Tail(bs) \in Seq(Buffer) /\ Chain(Tail(bs), r)
           /\ Handed(Tail(bs), r) = bs[1].from + bs[1].size
<1> DEFINE cs == Tail(bs)
<1>0. cs \in Seq(Buffer) /\ Len(cs) = Len(bs) - 1 /\ \A i \in 1..Len(cs) : cs[i] = bs[i + 1]
  BY TailProps
<1>a. Len(bs) \in Nat /\ Len(bs) > 0
  OBVIOUS
<1>1. /\ cs \in Seq(Buffer) /\ Len(cs) = Len(bs) - 1 /\ Len(bs) \in Nat /\ Len(bs) > 0
      /\ \A i \in 1..Len(cs) : cs[i] = bs[i + 1]
  BY <1>0, <1>a
<1>2. cs = <<>> <=> Len(cs) = 0
  BY SMTT(30), <1>1
<1> HIDE DEF cs
<1>3. ASSUME NEW i \in 1..Len(cs)
      PROVE  /\ cs[i].offset < cs[i].size
             /\ i > 1 => cs[i].offset = 0 /\ cs[i].from = cs[i - 1].from + cs[i - 1].size
  <2>1. cs[i] = bs[i + 1] /\ i + 1 \in 1..Len(bs) /\ i + 1 > 1 /\ (i + 1) - 1 = i
    BY <1>1
  <2>2. i > 1 => cs[i - 1] = bs[i]
    BY <1>1
  <2>3. bs[i + 1].offset < bs[i + 1].size /\ bs[i + 1].offset = 0 /\ bs[i + 1].from = bs[i].from + bs[i].size
    BY <2>1 DEF Chain
  <2> QED
    BY <2>1, <2>2, <2>3
<1>4. cs # <<>> => cs[Len(cs)].from + cs[Len(cs)].size = r
  <2> SUFFICES ASSUME cs # <<>> PROVE cs[Len(cs)].from + cs[Len(cs)].size = r
    OBVIOUS
  <2>1. cs[Len(cs)] = bs[Len(bs)]
    BY <1>1, <1>2
  <2> QED
    BY <2>1 DEF Chain
<1>5. Handed(cs, r) = bs[1].from + bs[1].size
  <2>1. CASE cs = <<>>
    <3>1. Len(bs) = 1
      BY <1>1, <1>2, <2>1
    <3> QED
      BY <2>1, <3>1 DEF Handed, Chain
  <2>2. CASE cs # <<>>
    <3>1. cs[1] = bs[2] /\ 2 \in 1..Len(bs)
      BY <1>1, <1>2, <2>2
    <3>2. bs[2].offset = 0 /\ bs[2].from = bs[1].from + bs[1].size
      BY <3>1 DEF Chain
    <3>3. bs[1] \in Buffer
      BY <1>1
    <3> QED
      BY <2>2, <3>1, <3>2, <3>3 DEF Handed, Buffer
  <2> QED
    BY <2>1, <2>2
<1> QED
  BY <1>1, <1>3, <1>4, <1>5 DEF Chain, cs

\* Some of the first buffer is taken.
LEMMA ChainAdvance ==
    ASSUME NEW bs \in Seq(Buffer), NEW r \in Nat, Chain(bs, r), bs # <<>>,
           NEW k \in Nat, bs[1].offset + k < bs[1].size
    PROVE  LET cs == [bs EXCEPT ![1].offset = @ + k]
           IN  /\ cs \in Seq(Buffer) /\ cs # <<>> /\ Chain(cs, r)
               /\ Handed(cs, r) = Handed(bs, r) + k
<1> DEFINE b == [bs[1] EXCEPT !.offset = bs[1].offset + k]
           cs == [bs EXCEPT ![1] = b]
<1>1. bs[1] \in Buffer /\ Len(bs) \in Nat /\ Len(bs) > 0
  OBVIOUS
<1>2. b \in Buffer /\ b.from = bs[1].from /\ b.size = bs[1].size /\ b.offset = bs[1].offset + k
  <2>1. ASSUME NEW x \in Buffer, NEW o \in Nat
        PROVE  LET y == [x EXCEPT !.offset = o]
               IN  y \in Buffer /\ y.from = x.from /\ y.size = x.size /\ y.offset = o
    BY DEF Buffer
  <2>2. bs[1].offset + k \in Nat
    BY <1>1 DEF Buffer
  <2> QED
    BY <1>1, <2>1, <2>2
<1>6. cs = [bs EXCEPT ![1].offset = @ + k]
  OBVIOUS
<1> HIDE DEF b
<1>3. /\ cs \in Seq(Buffer) /\ Len(cs) = Len(bs) /\ cs[1] = b /\ cs # <<>>
      /\ \A i \in 1..Len(bs) : i # 1 => cs[i] = bs[i]
  BY <1>1, <1>2
<1> HIDE DEF cs
<1>4. ASSUME NEW i \in 1..Len(cs)
      PROVE  /\ cs[i].offset < cs[i].size /\ cs[i].from = bs[i].from /\ cs[i].size = bs[i].size
             /\ i > 1 => cs[i].offset = 0
  BY <1>2, <1>3 DEF Chain
<1>5. ASSUME NEW i \in 1..Len(cs), i > 1
      PROVE  cs[i].from = cs[i - 1].from + cs[i - 1].size
  <2>1. i - 1 \in 1..Len(cs) /\ i \in 1..Len(bs)
    BY <1>1, <1>3, <1>5
  <2> QED
    BY <1>4, <1>5, <2>1 DEF Chain
<1>7. Chain(cs, r)
  <2>1. Len(cs) \in 1..Len(cs)
    BY <1>1, <1>3
  <2>2. cs[Len(cs)].from + cs[Len(cs)].size = r
    BY <1>3, <1>4, <2>1 DEF Chain
  <2> QED
    BY <1>4, <1>5, <2>2 DEF Chain
<1>8. Handed(cs, r) = Handed(bs, r) + k
  <2>1. Handed(cs, r) = b.from + b.offset /\ Handed(bs, r) = bs[1].from + bs[1].offset
    BY <1>3 DEF Handed
  <2>2. bs[1].from \in Nat /\ bs[1].offset \in Nat
    BY <1>1 DEF Buffer
  <2> QED
    BY <1>2, <2>1, <2>2
<1> QED
  BY <1>3, <1>6, <1>7, <1>8

LEMMA UpToAppend ==
    ASSUME NEW m \in Nat, NEW n \in Nat
    PROVE  /\ UpTo(m) \in Seq(Nat) /\ Len(UpTo(m)) = m
           /\ UpTo(m) \o [i \in 1..n |-> m + i] = UpTo(m + n)
           /\ [i \in 1..n |-> m + i] \in Seq(Nat)
<1>1. UpTo(m) \in Seq(Nat) /\ Len(UpTo(m)) = m
  BY DEF UpTo
<1>2. [i \in 1..n |-> m + i] \in Seq(Nat) /\ Len([i \in 1..n |-> m + i]) = n
  OBVIOUS
<1>3. UpTo(m) \o [i \in 1..n |-> m + i] = UpTo(m + n)
  BY <1>1, <1>2 DEF UpTo
<1> QED
  BY <1>1, <1>2, <1>3

-----------------------------------------------------------------------------
(* The members of a StreamInstance.                                          *)

LEMMA FieldTypes ==
    ASSUME NEW st \in StreamInstance
    PROVE  /\ st.buffers \in Seq(Buffer) /\ st.read \in Nat /\ st.offset \in Nat
           /\ st.temp \in Seq(Int) /\ st.got \in Seq(Nat) /\ st.refusals \in Nat
           /\ st.status \in SUBSET {"ACTIVE", "ERROR", "FINISH", "DESTROY"}
           /\ st.stype \in stypes /\ st.commit \in BOOLEAN
  BY DEF StreamInstance

\* All but the members that carry bytes.
SameBytes(t, st) ==
    /\ t.buffers = st.buffers /\ t.read = st.read /\ t.got = st.got /\ t.temp = st.temp

SamePlugin(t, st) ==
    /\ t.stype = st.stype /\ t.uri = st.uri /\ t.file = st.file /\ t.seen = st.seen
    /\ t.balks = st.balks /\ t.app = st.app

WithRead(st, b, m) == [[st EXCEPT !.buffers = b, !.read = m] EXCEPT !.commit = TRUE]
LEMMA SetRead ==
    ASSUME NEW st \in StreamInstance, NEW b \in Seq(Buffer), NEW m \in Nat
    PROVE  LET t == WithRead(st, b, m)
           IN  /\ t \in StreamInstance /\ SamePlugin(t, st)
               /\ t.buffers = b /\ t.read = m /\ t.commit = TRUE
               /\ t.got = st.got /\ t.temp = st.temp /\ t.status = st.status
               /\ t.memory = st.memory /\ t.open = st.open /\ t.curl = st.curl
  BY DEF StreamInstance, SamePlugin, WithRead

LEMMA SetCurl ==
    ASSUME NEW st \in StreamInstance, NEW c \in {"none", "fd", "timer", "done", "read"}
    PROVE  LET t == [st EXCEPT !.curl = c]
           IN  /\ t \in StreamInstance /\ SamePlugin(t, st) /\ SameBytes(t, st)
               /\ t.curl = c /\ t.status = st.status /\ t.commit = st.commit
               /\ t.memory = st.memory /\ t.open = st.open
  BY ZenonT(60) DEF StreamInstance, SamePlugin, SameBytes

LEMMA SetStatus ==
    ASSUME NEW st \in StreamInstance, NEW f \in SUBSET {"ACTIVE", "ERROR", "FINISH", "DESTROY"}
    PROVE  LET t == [st EXCEPT !.status = f]
           IN  /\ t \in StreamInstance /\ SamePlugin(t, st) /\ SameBytes(t, st)
               /\ t.curl = st.curl /\ t.status = f /\ t.commit = st.commit
               /\ t.memory = st.memory /\ t.open = st.open
  BY ZenonT(60) DEF StreamInstance, SamePlugin, SameBytes

LEMMA SetCommit ==
    ASSUME NEW st \in StreamInstance, NEW c \in BOOLEAN
    PROVE  LET t == [st EXCEPT !.commit = c]
           IN  /\ t \in StreamInstance /\ SamePlugin(t, st) /\ SameBytes(t, st)
               /\ t.curl = st.curl /\ t.status = st.status /\ t.commit = c
               /\ t.memory = st.memory /\ t.open = st.open
  BY ZenonT(60) DEF StreamInstance, SamePlugin, SameBytes

LEMMA SetOpen ==
    ASSUME NEW st \in StreamInstance, NEW o \in {"none", "pending", "run", "failed"}
    PROVE  LET t == [st EXCEPT !.open = o]
           IN  /\ t \in StreamInstance /\ SamePlugin(t, st) /\ SameBytes(t, st)
               /\ t.curl = st.curl /\ t.status = st.status /\ t.commit = st.commit
               /\ t.memory = st.memory /\ t.open = o
  BY ZenonT(60) DEF StreamInstance, SamePlugin, SameBytes

\* Delivery reads nothing but these.
LEMMA SameDelivery ==
    ASSUME NEW st, NEW t, Delivery(st),
           t.got = st.got, t.temp = st.temp, t.stype = st.stype, t.uri = st.uri, t.balks = st.balks,
           "ACTIVE" \in t.status <=> "ACTIVE" \in st.status,
           Handed(t.buffers, t.read) = Handed(st.buffers, st.read)
    PROVE  Delivery(t)
  BY DEF Delivery, stream_use_npp_write, uri_type_from_url

-----------------------------------------------------------------------------
(* glibcurl and the transfers.                                               *)

\* on_stream_read_cb
LEMMA ReadStep ==
    ASSUME NEW st \in StreamInstance, LiveOk(st), st.open = "run", NEW n \in Nat \ {0}
    PROVE  LET t == on_stream_read_cb(st, n)
           IN  /\ t \in StreamInstance /\ LiveOk(t) /\ t.buffers # <<>>
               /\ t.read = st.read + n /\ t.curl = st.curl /\ t.uri = st.uri
               /\ t.memory = st.memory /\ t.open = "run" /\ t.status = st.status
<1> DEFINE b == Append(st.buffers, stream_buffer_new(st.read, n))
           m == st.read + n
           t == on_stream_read_cb(st, n)
<1>1. /\ st.buffers \in Seq(Buffer) /\ st.read \in Nat /\ m \in Nat
  BY FieldTypes
<1>2. b \in Seq(Buffer) /\ b # <<>> /\ Chain(b, m) /\ Handed(b, m) = Handed(st.buffers, st.read)
  BY <1>1, ChainAppend DEF LiveOk
<1>3. t = WithRead(st, b, m)
  BY DEF on_stream_read_cb, stream_commit, WithRead
<1> HIDE DEF b, t
<1>4. /\ t \in StreamInstance /\ SamePlugin(t, st)
      /\ t.buffers = b /\ t.read = m /\ t.commit = TRUE
      /\ t.got = st.got /\ t.temp = st.temp /\ t.status = st.status
      /\ t.memory = st.memory /\ t.open = st.open /\ t.curl = st.curl
  <2> HIDE DEF m
  <2>1. b \in Seq(Buffer) /\ m \in Nat
    BY <1>1, <1>2
  <2> DEFINE u == WithRead(st, b, m)
  <2>2. /\ u \in StreamInstance /\ SamePlugin(u, st)
        /\ u.buffers = b /\ u.read = m /\ u.commit = TRUE
        /\ u.got = st.got /\ u.temp = st.temp /\ u.status = st.status
        /\ u.memory = st.memory /\ u.open = st.open /\ u.curl = st.curl
    BY ZenonT(60), <2>1, SetRead
  <2>3. t = u
    BY <1>3
  <2> HIDE DEF u
  <2> QED
    BY <2>2, <2>3
<1>5. Delivery(t)
  <2>1. Delivery(st)
    BY DEF LiveOk
  <2> QED
    BY <1>2, <1>4, <2>1, SameDelivery DEF SamePlugin
<1>6. LiveOk(t)
  BY <1>2, <1>4, <1>5 DEF LiveOk, SamePlugin
<1> QED
  BY <1>2, <1>4, <1>6 DEF t, SamePlugin

\* A state of the transfer, and flags, mean nothing to the rest.
WithCurl(st, c) == [st EXCEPT !.curl = c]
LEMMA LiveCurl ==
    ASSUME NEW st \in StreamInstance, LiveOk(st), st.open = "run",
           NEW c \in {"none", "fd", "timer", "done", "read"}
    PROVE  LET t == WithCurl(st, c)
           IN  /\ t \in StreamInstance /\ LiveOk(t) /\ t.curl = c /\ t.read = st.read
               /\ t.uri = st.uri /\ t.memory = st.memory /\ t.open = "run"
               /\ t.buffers = st.buffers /\ t.status = st.status
<1> DEFINE t == WithCurl(st, c)
<1>1. /\ t \in StreamInstance /\ SamePlugin(t, st) /\ SameBytes(t, st)
      /\ t.curl = c /\ t.status = st.status /\ t.commit = st.commit
      /\ t.memory = st.memory /\ t.open = st.open
  BY SetCurl DEF WithCurl
<1> HIDE DEF t
<1>2. Delivery(t)
  <2>1. Delivery(st)
    BY DEF LiveOk
  <2> QED
    BY <1>1, <2>1, SameDelivery DEF SamePlugin, SameBytes
<1> QED
  BY <1>1, <1>2 DEF LiveOk, SamePlugin, SameBytes, t

LEMMA LiveFlags ==
    ASSUME NEW st \in StreamInstance, LiveOk(st), st.open = "run",
           NEW f \in SUBSET {"ERROR", "FINISH"}
    PROVE  LET t == [st EXCEPT !.status = @ \cup f]
           IN  /\ t \in StreamInstance /\ LiveOk(t) /\ t.curl = st.curl /\ t.read = st.read
               /\ t.uri = st.uri /\ t.memory = st.memory /\ t.open = "run"
               /\ t.buffers = st.buffers
<1> DEFINE g == st.status \cup f
           t == [st EXCEPT !.status = g]
<1>0. g \in SUBSET {"ACTIVE", "ERROR", "FINISH", "DESTROY"}
  BY FieldTypes
<1>3. ("ACTIVE" \in g <=> "ACTIVE" \in st.status) /\ "DESTROY" \notin g
  BY DEF LiveOk
<1>4. t = [st EXCEPT !.status = @ \cup f]
  OBVIOUS
<1> HIDE DEF g
<1>1. /\ t \in StreamInstance /\ SamePlugin(t, st) /\ SameBytes(t, st)
      /\ t.curl = st.curl /\ t.status = g /\ t.commit = st.commit
      /\ t.memory = st.memory /\ t.open = st.open
  BY <1>0, SetStatus
<1> HIDE DEF t
<1>2. Delivery(t)
  <2>1. Delivery(st)
    BY DEF LiveOk
  <2> QED
    BY <1>1, <1>3, <2>1, SameDelivery DEF SamePlugin, SameBytes
<1>5. LiveOk(t)
  BY <1>1, <1>2, <1>3 DEF LiveOk, SamePlugin, SameBytes
<1> QED
  BY <1>1, <1>4, <1>5 DEF SamePlugin, SameBytes

LEMMA LiveCommit ==
    ASSUME NEW st \in StreamInstance, LiveOk(st), NEW c \in BOOLEAN, c = TRUE => st.open = "run"
    PROVE  LET t == [st EXCEPT !.commit = c]
           IN  /\ t \in StreamInstance /\ LiveOk(t) /\ t.curl = st.curl /\ t.read = st.read
               /\ t.uri = st.uri /\ t.memory = st.memory /\ t.open = st.open
               /\ t.buffers = st.buffers /\ t.status = st.status
<1> DEFINE t == [st EXCEPT !.commit = c]
<1>1. /\ t \in StreamInstance /\ SamePlugin(t, st) /\ SameBytes(t, st)
      /\ t.curl = st.curl /\ t.status = st.status /\ t.commit = c
      /\ t.memory = st.memory /\ t.open = st.open
  BY SetCommit
<1> HIDE DEF t
<1>2. Delivery(t)
  <2>1. Delivery(st)
    BY DEF LiveOk
  <2> QED
    BY <1>1, <2>1, SameDelivery DEF SamePlugin, SameBytes
<1> QED
  BY <1>1, <1>2 DEF LiveOk, SamePlugin, SameBytes, t

\* One transfer in curl_multi_perform().
LEMMA PerformStep ==
    ASSUME NEW st \in StreamInstance, LiveOk(st), ReadOk(st), st.curl \in {"fd", "timer"},
           NEW p \in Progress, CanPerform(st, p)
    PROVE  LET t == Perform(st, p)
           IN  /\ t \in StreamInstance /\ LiveOk(t) /\ t.curl = p.then /\ t.memory = st.memory
               /\ t.open = "run" /\ t.uri = st.uri
               /\ t.read <= MaxBytes /\ (t.uri = "javascript" => t.read = 0)
<1> DEFINE u == IF p.n = 0 THEN st ELSE on_stream_read_cb(st, p.n)
           t == WithCurl(u, p.then)
<1>1. p.n \in Nat /\ p.then \in {"none", "fd", "timer", "done", "read"}
  BY PlayerAssumption DEF Progress
<1>2. st.open = "run" /\ st.read \in Nat /\ st.read <= MaxBytes /\ MaxBytes \in Nat
  BY FieldTypes, PlayerAssumption DEF LiveOk, ReadOk
<1>3. st.uri = "javascript" => st.read = 0 /\ p.n = 0
  BY <1>1 DEF ReadOk, CanPerform
<1>4. st.read + p.n <= MaxBytes
  BY <1>1, <1>2, <1>3 DEF CanPerform
<1>5. /\ u \in StreamInstance /\ LiveOk(u) /\ u.memory = st.memory /\ u.open = "run"
      /\ u.uri = st.uri /\ u.read = st.read + p.n
  <2>1. CASE p.n = 0
    BY <1>2, <2>1
  <2>2. CASE p.n # 0
    <3>1. p.n \in Nat \ {0}
      BY <1>1, <2>2
    <3> QED
      BY <1>2, <2>2, <3>1, ReadStep
  <2> QED
    BY <2>1, <2>2
<1>6. Perform(st, p) = t
  BY DEF Perform, WithCurl
<1> HIDE DEF u
<1>7. /\ t \in StreamInstance /\ LiveOk(t) /\ t.curl = p.then /\ t.memory = u.memory
      /\ t.open = "run" /\ t.uri = u.uri /\ t.read = u.read
  BY <1>1, <1>5, LiveCurl
<1> HIDE DEF t
<1> QED
  BY <1>3, <1>4, <1>5, <1>6, <1>7

\* on_stream_close_cb
LEMMA CloseStep ==
    ASSUME NEW st \in StreamInstance, LiveOk(st), st.memory = "live", st.open = "run",
           st.read <= MaxBytes, st.uri = "javascript" => st.read = 0, NEW understood \in BOOLEAN
    PROVE  StreamOk(on_stream_close_cb(st, understood))
<1> DEFINE ask == "ACTIVE" \notin st.status /\ st.uri = "javascript" /\ understood
           js == IF ask THEN on_stream_read_cb(st, 1) ELSE st
           lost == "ACTIVE" \notin js.status /\ js.buffers = <<>>
           e == IF lost THEN [js EXCEPT !.status = @ \cup {"ERROR"}] ELSE js
           c == WithCurl(e, "read")
           f == [c EXCEPT !.status = @ \cup {"FINISH"}]
           t == [f EXCEPT !.commit = TRUE]
<1>1. on_stream_close_cb(st, understood) = t
  BY DEF on_stream_close_cb, stream_schedule_destroy, stream_commit, WithCurl
<1>2. st.read \in Nat /\ MaxBytes \in Nat
  BY FieldTypes, PlayerAssumption
<1>3. /\ js \in StreamInstance /\ LiveOk(js) /\ js.memory = "live" /\ js.open = "run"
      /\ js.read <= MaxBytes + 1
  <2>1. CASE ask
    BY <1>2, <2>1, ReadStep
  <2>2. CASE ~ask
    BY <1>2, <2>2
  <2> QED
    BY <2>1, <2>2
<1> HIDE DEF js
<1>4. /\ e \in StreamInstance /\ LiveOk(e) /\ e.memory = "live" /\ e.open = "run"
      /\ e.read <= MaxBytes + 1
  <2>1. CASE lost
    BY <1>3, <2>1, LiveFlags
  <2>2. CASE ~lost
    BY <1>3, <2>2
  <2> QED
    BY <2>1, <2>2
<1> HIDE DEF e
<1>5. /\ c \in StreamInstance /\ LiveOk(c) /\ c.memory = "live" /\ c.open = "run"
      /\ c.read <= MaxBytes + 1 /\ c.curl = "read"
  BY <1>4, LiveCurl
<1> HIDE DEF c
<1>6. /\ f \in StreamInstance /\ LiveOk(f) /\ f.memory = "live" /\ f.open = "run"
      /\ f.read <= MaxBytes + 1 /\ f.curl = "read"
  BY <1>5, LiveFlags
<1> HIDE DEF f
<1>7. /\ t \in StreamInstance /\ LiveOk(t) /\ t.memory = "live"
      /\ t.read <= MaxBytes + 1 /\ t.curl = "read"
  BY <1>6, LiveCommit
<1> HIDE DEF t
<1> QED
  BY <1>1, <1>7 DEF StreamOk, ReadOk

\* dispatch, for each stream.
LEMMA DispatchStep ==
    ASSUME StreamsInvariant, dispatch
    PROVE  StreamsInvariant'
<1>1. PICK now \in [Transfers -> Progress], understood \in BOOLEAN :
          LET done == {s \in Transfers : now[s].then = "done"}
          IN /\ \A s \in Transfers : CanPerform(stream[s], now[s])
             /\ stream' = [s \in Streams |->
                    IF s \notin Transfers THEN stream[s]
                    ELSE IF s \in done THEN on_stream_close_cb(Perform(stream[s], now[s]), understood)
                    ELSE Perform(stream[s], now[s])]
  BY DEF dispatch
<1>2. ASSUME NEW s \in Streams PROVE StreamOk(stream'[s]) /\ stream'[s] \in StreamInstance
  <2>0. StreamOk(stream[s]) /\ stream[s] \in StreamInstance
    BY DEF StreamsInvariant
  <2>1. CASE s \notin Transfers
    BY <1>1, <2>0, <2>1
  <2>2. CASE s \in Transfers
    <3> DEFINE p == now[s]
               t == Perform(stream[s], p)
    <3>1. p \in Progress /\ p.then \in {"fd", "timer", "done"} /\ CanPerform(stream[s], p)
      BY <1>1, <2>2 DEF Progress
    <3>2. /\ stream[s].memory = "live" /\ stream[s].curl \in {"fd", "timer"}
          /\ LiveOk(stream[s]) /\ ReadOk(stream[s])
      BY <2>0, <2>2 DEF Transfers, Live, StreamOk
    <3>5. stream'[s] = IF p.then = "done" THEN on_stream_close_cb(t, understood) ELSE t
      BY <1>1, <2>2
    <3> HIDE DEF p
    <3>3. /\ t \in StreamInstance /\ LiveOk(t) /\ t.curl = p.then /\ t.memory = "live"
          /\ t.open = "run"
          /\ t.read <= MaxBytes /\ (t.uri = "javascript" => t.read = 0)
      BY <2>0, <3>1, <3>2, PerformStep
    <3> HIDE DEF t
    <3>4. CASE p.then = "done"
      BY <3>3, <3>4, <3>5, CloseStep DEF StreamOk
    <3>6. CASE p.then # "done"
      BY <3>1, <3>3, <3>5, <3>6, PlayerAssumption DEF StreamOk, ReadOk
    <3> QED
      BY <3>4, <3>6
  <2> QED
    BY <2>1, <2>2
<1>3. stream' = [s \in Streams |-> stream'[s]]
  BY <1>1
<1> QED
  BY <1>2, <1>3 DEF StreamsInvariant

-----------------------------------------------------------------------------
(* Opening and offering a stream.                                            *)

LEMMA FreeFields ==
    /\ FreeStream \in StreamInstance /\ FreeStream.memory = "free"
    /\ FreeStream.status = {} /\ FreeStream.open = "none" /\ FreeStream.curl = "none"
    /\ FreeStream.commit = FALSE /\ FreeStream.buffers = <<>> /\ FreeStream.read = 0
    /\ FreeStream.temp = NoTemp /\ FreeStream.seen = "nothing" /\ FreeStream.got = <<>>
    /\ FreeStream.file = NoTemp /\ FreeStream.balks = {}
  BY DEF FreeStream, StreamInstance, NoTemp, stypes

LEMMA NoBytes == UpTo(0) = <<>> /\ <<>> = UpTo(Len(<<>>)) /\ Len(<<>>) = 0
  BY DEF UpTo

\* stream_new
LEMMA NewStep ==
    ASSUME StreamsInvariant, NEW a \in Apps, NEW s \in Streams, NEW notify \in BOOLEAN,
           NEW uri \in Uris, NEW accepts \in BOOLEAN, NEW stype \in stypes,
           stream_new(a, s, notify, uri, accepts, stype)
    PROVE  StreamsInvariant'
<1> DEFINE x == [FreeStream EXCEPT !.memory = "freed", !.app = a, !.seen = "refused"]
           k == IF notify THEN "NP_NORMAL" ELSE stype
           f == IF notify THEN {} ELSE {"ACTIVE"}
           q == IF notify THEN "nothing" ELSE "NPP_NewStream"
           y == [FreeStream EXCEPT
                    !.memory = "live", !.app = a, !.notify = notify, !.uri = uri,
                    !.stype = k, !.status = f, !.seen = q, !.open = "pending"]
<1>1. stream' = [stream EXCEPT ![s] = IF ~notify /\ ~accepts THEN x ELSE y]
  BY DEF stream_new
<1>2. StreamOk(x)
  <2>1. /\ x \in StreamInstance /\ x.memory = "freed" /\ x.seen = "refused"
        /\ x.commit = FALSE /\ x.open = "none" /\ x.curl = "none" /\ x.buffers = <<>> /\ x.read = 0
        /\ x.got = <<>> /\ x.file = NoTemp
    BY FreeFields DEF StreamInstance, Ended
  <2> HIDE DEF x
  <2>2. x.got = UpTo(Len(x.got))
    BY <2>1, NoBytes
  <2> QED
    BY <2>1, <2>2, PlayerAssumption DEF StreamOk, GoneOk, Delivered, Ended
<1>3. StreamOk(y)
  <2>1. /\ k \in stypes /\ f \in SUBSET {"ACTIVE", "ERROR", "FINISH", "DESTROY"}
        /\ q \in {"nothing", "NPP_NewStream"} /\ uri \in {"file", "http", "javascript"}
        /\ "DESTROY" \notin f /\ ("ACTIVE" \notin f => k = "NP_NORMAL")
    BY PlayerAssumption DEF stypes
  <2> HIDE DEF k, f, q
  <2>2. /\ y \in StreamInstance /\ y.memory = "live" /\ y.seen = q /\ y.stype = k /\ y.status = f
        /\ y.commit = FALSE /\ y.open = "pending" /\ y.curl = "none" /\ y.buffers = <<>> /\ y.read = 0
        /\ y.got = <<>> /\ y.file = NoTemp /\ y.temp = NoTemp
    BY ZenonT(60), <2>1, FreeFields DEF StreamInstance
  <2> HIDE DEF y
  <2>3. /\ y.got = UpTo(Len(y.got)) /\ Len(y.got) = 0
    BY <2>2, NoBytes
  <2>4. Handed(y.buffers, y.read) = 0 /\ Chain(y.buffers, y.read)
    BY <2>2 DEF Handed, Chain
  <2>5. Delivery(y)
    BY <2>1, <2>2, <2>3, <2>4 DEF Delivery
  <2>6. LiveOk(y)
    BY <2>1, <2>2, <2>4, <2>5 DEF LiveOk, Ended
  <2> QED
    BY <2>2, <2>6, PlayerAssumption DEF StreamOk, ReadOk
<1> HIDE DEF x, y
<1>4. StreamOk(x) /\ x \in StreamInstance /\ StreamOk(y) /\ y \in StreamInstance
  BY <1>2, <1>3 DEF StreamOk
<1> QED
  BY <1>1, <1>4 DEF StreamsInvariant

\* on_stream_open_cb
LEMMA OpenStep ==
    ASSUME StreamsInvariant, NEW s \in Streams, on_stream_open_cb(s)
    PROVE  StreamsInvariant'
<1> DEFINE st == stream[s]
           tempFile == st.stype \in AsFile /\ uri_type_from_url(st.uri) # "file"
           m == IF tempFile THEN <<>> ELSE st.temp
           x == [st EXCEPT !.open = "failed"]
           y == [st EXCEPT !.open = "run", !.curl = "timer", !.temp = m]
<1>1. st.memory = "live" /\ st.open = "pending" /\ stream \in [Streams -> StreamInstance]
  BY DEF on_stream_open_cb, Live, StreamsInvariant
<1>2. StreamOk(st) /\ st \in StreamInstance /\ LiveOk(st) /\ ReadOk(st)
  BY <1>1 DEF StreamsInvariant, StreamOk
<1>3. /\ st.curl = "none" /\ st.commit = FALSE /\ st.buffers = <<>> /\ st.read = 0
  BY <1>1, <1>2, FieldTypes DEF LiveOk
<1>4. stream' = [stream EXCEPT ![s] = x] \/ stream' = [stream EXCEPT ![s] = y]
  <2>1. CASE stream' = [stream EXCEPT ![s].open = "failed"]
    BY <2>1
  <2>2. CASE stream' = [stream EXCEPT ![s].open = "run", ![s].curl = "timer",
                                      ![s].temp = IF tempFile THEN <<>> ELSE @]
    BY <1>1, <2>2
  <2> QED
    BY <2>1, <2>2 DEF on_stream_open_cb, AsFile
<1>5. StreamOk(x) /\ x \in StreamInstance
  <2>1. /\ x \in StreamInstance /\ SamePlugin(x, st) /\ SameBytes(x, st)
        /\ x.curl = st.curl /\ x.status = st.status /\ x.commit = st.commit
        /\ x.memory = st.memory /\ x.open = "failed"
    BY <1>2, SetOpen
  <2> HIDE DEF x, st
  <2>2. Delivery(x)
    <3>1. Delivery(st)
      BY <1>2 DEF LiveOk
    <3> QED
      BY <2>1, <3>1, SameDelivery DEF SamePlugin, SameBytes
  <2> QED
    BY <1>1, <1>2, <1>3, <2>1, <2>2 DEF StreamOk, LiveOk, ReadOk, SamePlugin, SameBytes
<1>6. StreamOk(y) /\ y \in StreamInstance
  <2>1. m \in Seq(Int)
    BY <1>2, FieldTypes
  <2>2. m # NoTemp => (tempFile /\ m = <<>>) \/ st.temp # NoTemp
    OBVIOUS
  <2>3. Delivery(st) /\ Chain(st.buffers, st.read) /\ st.file = NoTemp
    BY <1>2 DEF LiveOk
  <2>5. m = <<>> \/ m = st.temp
    OBVIOUS
  <2>a. st.stype \in AsFile => "ACTIVE" \in st.status
    BY <2>3 DEF Delivery, AsFile
  <2>6. m # NoTemp => "ACTIVE" \in st.status /\ st.stype \in AsFile
    BY <2>2, <2>3, <2>a DEF Delivery
  <2> HIDE DEF m, st
  <2>4. /\ y \in StreamInstance /\ SamePlugin(y, st)
        /\ y.buffers = st.buffers /\ y.read = st.read /\ y.got = st.got /\ y.temp = m
        /\ y.curl = "timer" /\ y.status = st.status /\ y.commit = st.commit
        /\ y.memory = st.memory /\ y.open = "run"
    BY <1>2, <2>1 DEF StreamInstance, SamePlugin
  <2> HIDE DEF y
  <2>7. Handed(y.buffers, y.read) = 0 /\ Handed(st.buffers, st.read) = 0
    BY <1>3, <2>4 DEF Handed
  <2>8. y.temp # NoTemp /\ y.balks = {} => y.temp = UpTo(0)
    BY <2>3, <2>4, <2>5, <2>7, NoBytes DEF Delivery, SamePlugin
  <2>9. Delivery(y)
    BY <2>3, <2>4, <2>6, <2>7, <2>8
       DEF Delivery, SamePlugin, stream_use_npp_write, uri_type_from_url
  <2>10. LiveOk(y)
    BY <1>2, <2>3, <2>4, <2>9 DEF LiveOk, SamePlugin
  <2> QED
    BY <1>1, <1>2, <1>3, <2>4, <2>10, PlayerAssumption DEF StreamOk, ReadOk, SamePlugin
<1> HIDE DEF x, y
<1> QED
  BY <1>1, <1>4, <1>5, <1>6 DEF StreamsInvariant

-----------------------------------------------------------------------------
(* on_stream_commit_cb.                                                      *)

Gone(st, b, m) == [st EXCEPT !.memory = "freed", !.curl = "none", !.buffers = b, !.temp = m]
LEMMA SetGone ==
    ASSUME NEW st \in StreamInstance, NEW b \in Seq(Buffer), NEW m \in Seq(Int)
    PROVE  LET t == Gone(st, b, m)
           IN  /\ t \in StreamInstance /\ t.memory = "freed" /\ t.curl = "none" /\ t.buffers = b
               /\ t.open = st.open /\ t.commit = st.commit /\ t.read = st.read /\ t.got = st.got
               /\ t.status = st.status /\ t.balks = st.balks /\ t.stype = st.stype
               /\ t.uri = st.uri /\ t.file = st.file
<1> DEFINE t == Gone(st, b, m)
<1>1. t \in StreamInstance
  BY DEF StreamInstance, Gone
<1>2. /\ t.memory = "freed" /\ t.curl = "none" /\ t.buffers = b
      /\ t.open = st.open /\ t.commit = st.commit /\ t.read = st.read /\ t.got = st.got
  BY DEF StreamInstance, Gone
<1>3. /\ t.status = st.status /\ t.balks = st.balks /\ t.stype = st.stype
      /\ t.uri = st.uri /\ t.file = st.file
  BY DEF StreamInstance, Gone
<1> QED
  BY <1>1, <1>2, <1>3

\* What stream_destroy makes of a stream that was told to end.
LEMMA DestroyShape ==
    ASSUME NEW st \in StreamInstance, "DESTROY" \in st.status
    PROVE  LET t == stream_destroy(st)
           IN  /\ t \in StreamInstance /\ t.memory = "freed" /\ t.curl = "none"
               /\ t.buffers = <<>> /\ t.open = st.open /\ t.commit = st.commit
               /\ t.read = st.read /\ t.got = st.got /\ t.status = st.status
               /\ t.balks = st.balks /\ t.stype = st.stype /\ t.uri = st.uri
               /\ t.file = st.file \/ t.file = st.temp
<1> DEFINE asFile == st.stype \in {"NP_ASFILE", "NP_ASFILEONLY"}
           given == IF asFile THEN g_NPP_StreamAsFile(st) ELSE st
           closed == g_NPP_DestroyStream(given)
           u == IF st.notify THEN g_NPP_URLNotify(closed) ELSE closed
           Kin(x) == /\ x \in StreamInstance
                     /\ x.open = st.open /\ x.commit = st.commit
                     /\ x.read = st.read /\ x.got = st.got /\ x.status = st.status
                     /\ x.balks = st.balks /\ x.stype = st.stype /\ x.uri = st.uri
                     /\ x.file = st.file \/ x.file = st.temp
<1>1. stream_destroy(st) = [u EXCEPT !.memory = "freed", !.curl = "none", !.buffers = <<>>,
                                     !.temp = NoTemp]
  BY DEF stream_destroy
<1>2. Kin(given)
  <2>1. ASSUME NEW f \in Seq(Int), f = st.file \/ f = st.temp
        PROVE  Kin([st EXCEPT !.file = f])
    BY <2>1 DEF StreamInstance
  <2>2. st.temp \in Seq(Int)
    BY FieldTypes
  <2>3. Kin(st) /\ Kin([st EXCEPT !.file = st.temp])
    BY <2>1, <2>2
  <2>4. given = st \/ given = [st EXCEPT !.file = st.temp]
    BY DEF g_NPP_StreamAsFile
  <2> HIDE DEF Kin, given
  <2> QED
    BY <2>3, <2>4
<1>3. ASSUME NEW x, Kin(x), NEW q \in Ended
      PROVE  Kin([x EXCEPT !.seen = q])
  BY <1>3 DEF StreamInstance
<1> HIDE DEF Kin, given
<1>4. Kin(closed)
  BY <1>2, <1>3 DEF g_NPP_DestroyStream, Ended
<1> HIDE DEF closed
<1>5. Kin(u)
  BY <1>3, <1>4 DEF g_NPP_URLNotify, Ended
<1> HIDE DEF u
<1>6. <<>> \in Seq(Buffer) /\ NoTemp \in Seq(Int)
  BY DEF NoTemp
<1>7. ASSUME NEW b \in Seq(Buffer), NEW m \in Seq(Int)
      PROVE  LET t == Gone(u, b, m)
             IN  Kin(t) /\ t.memory = "freed" /\ t.curl = "none" /\ t.buffers = b
  <2> DEFINE t == Gone(u, b, m)
  <2>1. u \in StreamInstance
    BY <1>5 DEF Kin
  <2>2. /\ t \in StreamInstance /\ t.memory = "freed" /\ t.curl = "none" /\ t.buffers = b
        /\ t.open = u.open /\ t.commit = u.commit /\ t.read = u.read /\ t.got = u.got
        /\ t.status = u.status /\ t.balks = u.balks /\ t.stype = u.stype /\ t.uri = u.uri
        /\ t.file = u.file
    BY <2>1, SetGone
  <2> HIDE DEF t
  <2>3. Kin(t)
    BY <1>5, <2>2 DEF Kin
  <2> QED
    BY <2>2, <2>3 DEF t
<1> DEFINE t == Gone(u, <<>>, NoTemp)
<1>8. Kin(t) /\ t.memory = "freed" /\ t.curl = "none" /\ t.buffers = <<>>
  BY <1>6, <1>7
<1> HIDE DEF t
<1>9. stream_destroy(st) = t
  BY <1>1 DEF t, Gone
<1> QED
  BY <1>8, <1>9 DEF Kin

\* A stream in the middle of on_stream_commit_cb, which may have been told to end.
CommitOk(st) ==
    /\ st.memory = "live" /\ st.open = "run" /\ ReadOk(st)
    /\ Chain(st.buffers, st.read) /\ Delivery(st)
    /\ st.seen \notin Ended /\ st.file = NoTemp

\* The end of on_stream_commit_cb.
LEMMA SettleStep ==
    ASSUME NEW st \in StreamInstance, CommitOk(st),
           "DESTROY" \in st.status =>
               st.balks # {} /\ ("ERROR" \in st.status \/ "unwanted" \in st.balks)
    PROVE  StreamOk(Settle(st)) /\ Settle(st) \in StreamInstance
<1> DEFINE ends == st.buffers = <<>> /\ "FINISH" \in st.status
           f == IF ends THEN st.status \cup {"DESTROY"} ELSE st.status
           t == [st EXCEPT !.status = f]
           more == t.buffers # <<>>
           u == [t EXCEPT !.commit = FALSE]
           v == [t EXCEPT !.commit = more]
<1>1. Settle(st) = IF "DESTROY" \in t.status THEN stream_destroy(u) ELSE v
  <2>1. (IF ends THEN [st EXCEPT !.status = @ \cup {"DESTROY"}] ELSE st) = t
    BY DEF StreamInstance
  <2> QED
    BY <2>1 DEF Settle
<1>2. f \in SUBSET {"ACTIVE", "ERROR", "FINISH", "DESTROY"} /\ st.read \in Nat
  BY FieldTypes
<1>3. /\ "ACTIVE" \in f <=> "ACTIVE" \in st.status
      /\ "ERROR" \in f <=> "ERROR" \in st.status
      /\ "DESTROY" \in f => ends \/ "DESTROY" \in st.status
  OBVIOUS
<1>0. /\ st.memory = "live" /\ st.open = "run" /\ ReadOk(st)
      /\ Chain(st.buffers, st.read) /\ Delivery(st)
      /\ st.seen \notin Ended /\ st.file = NoTemp
  BY DEF CommitOk
<1> HIDE DEF f
<1>4. /\ t \in StreamInstance /\ SamePlugin(t, st) /\ SameBytes(t, st)
      /\ t.curl = st.curl /\ t.status = f /\ t.commit = st.commit
      /\ t.memory = st.memory /\ t.open = st.open
  BY <1>2, SetStatus
<1> HIDE DEF t
<1>5. Delivery(t)
  BY <1>0, <1>3, <1>4, SameDelivery DEF SamePlugin, SameBytes
<1>6. more \in BOOLEAN
  OBVIOUS
<1> HIDE DEF more
<1>7. /\ u \in StreamInstance /\ SamePlugin(u, t) /\ SameBytes(u, t)
      /\ u.curl = t.curl /\ u.status = t.status /\ u.commit = FALSE
      /\ u.memory = t.memory /\ u.open = t.open
  BY <1>4, SetCommit
<1>8. /\ v \in StreamInstance /\ SamePlugin(v, t) /\ SameBytes(v, t)
      /\ v.curl = t.curl /\ v.status = t.status /\ v.commit = more
      /\ v.memory = t.memory /\ v.open = t.open
  BY <1>4, <1>6, SetCommit
<1> HIDE DEF u, v
<1>9. CASE "DESTROY" \notin f
  <2>1. Delivery(v)
    BY <1>5, <1>8, SameDelivery DEF SamePlugin, SameBytes
  <2>2. LiveOk(v)
    BY <1>0, <1>4, <1>8, <1>9, <2>1 DEF LiveOk, SamePlugin, SameBytes
  <2>3. ReadOk(v) /\ v.memory = "live"
    BY <1>0, <1>4, <1>8 DEF ReadOk, SamePlugin, SameBytes
  <2> QED
    BY <1>1, <1>4, <1>8, <1>9, <2>2, <2>3 DEF StreamOk
<1>10. CASE "DESTROY" \in f
  <2> DEFINE z == stream_destroy(u)
  <2>1. /\ z \in StreamInstance /\ z.memory = "freed" /\ z.curl = "none"
        /\ z.buffers = <<>> /\ z.open = u.open /\ z.commit = u.commit
        /\ z.read = u.read /\ z.got = u.got /\ z.status = u.status
        /\ z.balks = u.balks /\ z.stype = u.stype /\ z.uri = u.uri
        /\ z.file = u.file \/ z.file = u.temp
    BY <1>4, <1>7, <1>10, DestroyShape
  <2>2. Settle(st) = z
    BY <1>1, <1>4, <1>10
  <2> HIDE DEF z
  <2>3. /\ z.read = st.read /\ z.got = st.got /\ z.balks = st.balks
        /\ z.stype = st.stype /\ z.uri = st.uri /\ z.status = f
        /\ z.file = NoTemp \/ z.file = st.temp
        /\ z.commit = FALSE /\ z.open = "run"
    BY <1>0, <1>4, <1>7, <2>1 DEF SamePlugin, SameBytes
  <2>4. z.got = UpTo(Len(z.got))
    BY <1>0, <2>3 DEF Delivery
  <2>5. \/ Handed(st.buffers, st.read) = st.read
        \/ st.balks # {} /\ ("ERROR" \in z.status \/ "unwanted" \in z.balks)
    BY <1>3, <1>10, <2>3 DEF Handed
  <2>6. ASSUME NPReason(z) = "NPRES_DONE", "unwanted" \notin z.balks, stream_use_npp_write(z)
        PROVE  Len(z.got) = z.read
    <3>1. "ERROR" \notin z.status
      BY <2>6 DEF NPReason
    <3>2. stream_use_npp_write(st)
      BY <2>3, <2>6 DEF stream_use_npp_write
    <3> QED
      BY <1>0, <2>3, <2>5, <2>6, <3>1, <3>2 DEF Delivery
  <2>7. z.file # NoTemp /\ z.balks = {} => z.file = UpTo(z.read)
    BY <1>0, <2>3, <2>5 DEF Delivery
  <2>8. Delivered(z)
    BY <2>4, <2>6, <2>7 DEF Delivered
  <2>9. z.read <= MaxBytes + 1
    BY <1>0, <1>2, <2>3, PlayerAssumption DEF ReadOk
  <2> QED
    BY <2>1, <2>2, <2>3, <2>8, <2>9 DEF StreamOk, GoneOk
<1> QED
  BY <1>9, <1>10

\* The plugin is offered the stream.
Activated(st, k, q) ==
    [st EXCEPT !.stype = k, !.seen = q, !.status = @ \cup {"ACTIVE"}]

LEMMA ActivateStep ==
    ASSUME NEW st \in StreamInstance, st.memory = "live", st.open = "run", LiveOk(st), ReadOk(st),
           NEW stype \in stypes
    PROVE  LET active == "ACTIVE" \in st.status
               t == Activated(st, IF active THEN st.stype ELSE stype,
                                  IF active THEN st.seen ELSE "NPP_NewStream")
           IN  /\ t \in StreamInstance /\ CommitOk(t) /\ "ACTIVE" \in t.status
               /\ "DESTROY" \notin t.status /\ t.buffers = st.buffers
<1> DEFINE active == "ACTIVE" \in st.status
           k == IF active THEN st.stype ELSE stype
           q == IF active THEN st.seen ELSE "NPP_NewStream"
           f == st.status \cup {"ACTIVE"}
           t == Activated(st, k, q)
<1>1. /\ k \in stypes /\ q \in {"nothing", "refused", "NPP_NewStream", "NPP_Write"}
      /\ f \in SUBSET {"ACTIVE", "ERROR", "FINISH", "DESTROY"}
      /\ "ACTIVE" \in f /\ "DESTROY" \notin f
  BY DEF LiveOk, StreamInstance, Ended
<1>2. active => k = st.stype
  OBVIOUS
<1> HIDE DEF active, k, q, f
<1>3. /\ t \in StreamInstance /\ SameBytes(t, st) /\ t.stype = k /\ t.seen = q /\ t.status = f
      /\ t.uri = st.uri /\ t.file = st.file /\ t.balks = st.balks
      /\ t.memory = st.memory /\ t.open = st.open /\ t.curl = st.curl
  BY ZenonT(60), <1>1 DEF StreamInstance, SameBytes, Activated, f, Ended
<1> HIDE DEF t
<1>4. Delivery(t)
  <2>1. Delivery(st)
    BY DEF LiveOk
  <2>2. CASE active
    BY <1>1, <1>2, <1>3, <2>1, <2>2, SameDelivery DEF SameBytes, active
  <2>3. CASE ~active
    <3>1. Handed(st.buffers, st.read) = 0 /\ st.got = <<>> /\ st.temp = NoTemp
      BY <2>1, <2>3 DEF Delivery, active
    <3> QED
      BY <1>1, <1>3, <3>1, NoBytes DEF Delivery, SameBytes
  <2> QED
    BY <2>2, <2>3
<1>5. CommitOk(t)
  BY <1>1, <1>3, <1>4 DEF CommitOk, LiveOk, ReadOk, SameBytes, Ended
<1> QED
  BY <1>1, <1>3, <1>5 DEF SameBytes, t, k, q, active

\* Members that say how the plugin answered.
WithAnswer(st, f, r, x) == [st EXCEPT !.status = f, !.refusals = r, !.balks = x]

LEMMA AnswerStep ==
    ASSUME NEW st \in StreamInstance, CommitOk(st),
           NEW f \in SUBSET {"ACTIVE", "ERROR", "FINISH", "DESTROY"}, NEW r \in Nat,
           NEW x \in SUBSET {"short", "unwanted"},
           "ACTIVE" \in f <=> "ACTIVE" \in st.status, st.balks \subseteq x
    PROVE  LET t == WithAnswer(st, f, r, x)
           IN  t \in StreamInstance /\ CommitOk(t) /\ t.status = f /\ t.balks = x
<1> DEFINE t == WithAnswer(st, f, r, x)
<1>1. /\ t \in StreamInstance /\ SameBytes(t, st) /\ t.stype = st.stype /\ t.seen = st.seen
      /\ t.status = f /\ t.balks = x /\ t.uri = st.uri /\ t.file = st.file
      /\ t.memory = st.memory /\ t.open = st.open /\ t.curl = st.curl
  BY DEF StreamInstance, SameBytes, WithAnswer
<1> HIDE DEF t
<1>2. Delivery(t)
  <2>1. Delivery(st)
    BY DEF CommitOk
  <2> QED
    BY <1>1, <2>1 DEF Delivery, SameBytes, stream_use_npp_write, uri_type_from_url
<1>3. CommitOk(t)
  BY <1>1, <1>2 DEF CommitOk, ReadOk, SameBytes
<1> QED
  BY <1>1, <1>3 DEF t

\* stream_write: the temporary file may get len bytes, the plugin takes some.
Written(st, m, g, q, x) == [st EXCEPT !.temp = m, !.got = g, !.seen = q, !.balks = x]

LEMMA SetWritten ==
    ASSUME NEW st \in StreamInstance, NEW m \in Seq(Int), NEW g \in Seq(Nat),
           NEW q \in {"nothing", "refused", "NPP_NewStream", "NPP_Write"} \cup Ended,
           NEW x \in SUBSET {"short", "unwanted"}
    PROVE  LET t == Written(st, m, g, q, x)
           IN  /\ t \in StreamInstance /\ t.temp = m /\ t.got = g /\ t.seen = q /\ t.balks = x
               /\ t.buffers = st.buffers /\ t.read = st.read /\ t.stype = st.stype
               /\ t.uri = st.uri /\ t.file = st.file /\ t.status = st.status
               /\ t.memory = st.memory /\ t.open = st.open /\ t.curl = st.curl
<1> DEFINE t == Written(st, m, g, q, x)
<1>1. t \in StreamInstance
  BY DEF StreamInstance, Written
<1>2. /\ t.temp = m /\ t.got = g /\ t.seen = q /\ t.balks = x
      /\ t.buffers = st.buffers /\ t.read = st.read /\ t.stype = st.stype
      /\ t.uri = st.uri /\ t.file = st.file /\ t.status = st.status
      /\ t.memory = st.memory /\ t.open = st.open /\ t.curl = st.curl
  BY DEF StreamInstance, Written
<1> QED
  BY <1>1, <1>2

ToFile(st) == st.stype \in {"NP_ASFILE", "NP_ASFILEONLY"} /\ st.temp # NoTemp
TakesSome(st, taken) == stream_use_npp_write(st) /\ taken > 0

LEMMA WriteShape ==
    ASSUME NEW st \in StreamInstance, NEW b \in Buffer, NEW len \in Nat, NEW taken \in Int
    PROVE  LET t == stream_write(st, b, len, taken)
           IN  /\ t \in StreamInstance
               /\ t.temp = IF ToFile(st) THEN st.temp \o Bytes(b, len) ELSE st.temp
               /\ t.got = IF TakesSome(st, taken) THEN st.got \o Bytes(b, taken) ELSE st.got
               /\ t.seen \in {st.seen, "NPP_Write"}
               /\ t.balks = IF taken < len THEN st.balks \cup {"short"} ELSE st.balks
               /\ t.buffers = st.buffers /\ t.read = st.read /\ t.stype = st.stype
               /\ t.uri = st.uri /\ t.file = st.file /\ t.status = st.status
               /\ t.memory = st.memory /\ t.open = st.open /\ t.curl = st.curl
<1> DEFINE m == IF ToFile(st) THEN st.temp \o Bytes(b, len) ELSE st.temp
           g == IF TakesSome(st, taken) THEN st.got \o Bytes(b, taken) ELSE st.got
           q == IF stream_use_npp_write(st) THEN "NPP_Write" ELSE st.seen
           x == IF taken < len THEN st.balks \cup {"short"} ELSE st.balks
<1>0. ASSUME NEW n \in Nat PROVE Bytes(b, n) \in Seq(Nat) /\ Bytes(b, n) \in Seq(Int)
  <2>1. b.from + b.offset \in Nat
    BY DEF Buffer
  <2> QED
    BY <2>1 DEF Bytes
<1>1. m \in Seq(Int)
  <2>1. st.temp \in Seq(Int) /\ Bytes(b, len) \in Seq(Int)
    BY <1>0, FieldTypes
  <2> QED
    BY <2>1, ConcatProperties
<1>2. g \in Seq(Nat)
  <2>1. CASE TakesSome(st, taken)
    <3>1. taken \in Nat
      BY <2>1 DEF TakesSome
    <3>2. st.got \in Seq(Nat) /\ Bytes(b, taken) \in Seq(Nat)
      BY <1>0, <3>1, FieldTypes
    <3> QED
      BY <2>1, <3>2, ConcatProperties
  <2>2. CASE ~TakesSome(st, taken)
    BY <2>2, FieldTypes
  <2> QED
    BY <2>1, <2>2
<1>3. q \in {"nothing", "refused", "NPP_NewStream", "NPP_Write"} \cup Ended
  BY DEF StreamInstance
<1>a. q \in {st.seen, "NPP_Write"}
  OBVIOUS
<1>b. x \in SUBSET {"short", "unwanted"}
  BY DEF StreamInstance
<1>4. stream_write(st, b, len, taken) = Written(st, m, g, q, x)
  BY DEF stream_write, Written, ToFile, TakesSome
<1> HIDE DEF m, g, q, x
<1> DEFINE t == Written(st, m, g, q, x)
<1>5. /\ t \in StreamInstance /\ t.temp = m /\ t.got = g /\ t.seen = q /\ t.balks = x
      /\ t.buffers = st.buffers /\ t.read = st.read /\ t.stype = st.stype
      /\ t.uri = st.uri /\ t.file = st.file /\ t.status = st.status
      /\ t.memory = st.memory /\ t.open = st.open /\ t.curl = st.curl
  <2> SUFFICES ASSUME NEW v, v = Written(st, m, g, q, x)
               PROVE  /\ v \in StreamInstance /\ v.temp = m /\ v.got = g /\ v.seen = q /\ v.balks = x
                      /\ v.buffers = st.buffers /\ v.read = st.read /\ v.stype = st.stype
                      /\ v.uri = st.uri /\ v.file = st.file /\ v.status = st.status
                      /\ v.memory = st.memory /\ v.open = st.open /\ v.curl = st.curl
    OBVIOUS
  <2> QED
    BY <1>1, <1>2, <1>3, <1>b, SetWritten
<1> HIDE DEF t
<1>6. stream_write(st, b, len, taken) = t
  BY <1>4 DEF t
<1> QED
  BY <1>a, <1>5, <1>6 DEF m, g, x

LEMMA SameTempDelivery ==
    ASSUME NEW st, NEW t, Delivery(st), t.got = st.got, t.stype = st.stype, t.status = st.status,
           t.buffers = st.buffers, t.read = st.read, t.balks # {},
           t.temp # NoTemp => st.temp # NoTemp,
           stream_use_npp_write(t) <=> stream_use_npp_write(st)
    PROVE  Delivery(t)
  BY DEF Delivery

\* A write of which the plugin takes nothing.
LEMMA NothingTaken ==
    ASSUME NEW st \in StreamInstance, CommitOk(st), NEW b \in Buffer, NEW len \in Nat \ {0},
           NEW taken \in Int, taken <= 0
    PROVE  LET t == stream_write(st, b, len, taken)
           IN  t \in StreamInstance /\ CommitOk(t) /\ t.balks # {} /\ t.status = st.status
<1> DEFINE t == stream_write(st, b, len, taken)
<1>1. ~TakesSome(st, taken) /\ taken < len
  BY DEF TakesSome
<1>2. /\ t \in StreamInstance
      /\ t.temp # NoTemp => st.temp # NoTemp
      /\ t.got = st.got /\ t.seen \in {st.seen, "NPP_Write"} /\ t.balks # {}
      /\ t.buffers = st.buffers /\ t.read = st.read /\ t.stype = st.stype
      /\ t.uri = st.uri /\ t.file = st.file /\ t.status = st.status
      /\ t.memory = st.memory /\ t.open = st.open /\ t.curl = st.curl
  <2>1. /\ t \in StreamInstance
        /\ t.temp = IF ToFile(st) THEN st.temp \o Bytes(b, len) ELSE st.temp
        /\ t.got = IF TakesSome(st, taken) THEN st.got \o Bytes(b, taken) ELSE st.got
        /\ t.seen \in {st.seen, "NPP_Write"}
        /\ t.balks = IF taken < len THEN st.balks \cup {"short"} ELSE st.balks
        /\ t.buffers = st.buffers /\ t.read = st.read /\ t.stype = st.stype
        /\ t.uri = st.uri /\ t.file = st.file /\ t.status = st.status
        /\ t.memory = st.memory /\ t.open = st.open /\ t.curl = st.curl
    BY ZenonT(60), WriteShape
  <2> HIDE DEF t
  <2>2. t.temp # NoTemp => st.temp # NoTemp
    BY <2>1 DEF ToFile
  <2>3. t.got = st.got /\ t.balks # {}
    BY <1>1, <2>1
  <2> QED
    BY <2>1, <2>2, <2>3
<1> HIDE DEF t
<1>3. Delivery(t)
  <2>1. Delivery(st)
    BY DEF CommitOk
  <2>2. stream_use_npp_write(t) <=> stream_use_npp_write(st)
    BY <1>2 DEF stream_use_npp_write
  <2> QED
    BY <1>2, <2>1, <2>2, SameTempDelivery
<1>4. CommitOk(t)
  BY <1>2, <1>3 DEF CommitOk, ReadOk, Ended
<1> QED
  BY <1>2, <1>4 DEF t

\* Consume, of a stream whose buffers and offset change.
WithBuffers(st, b, n) == [st EXCEPT !.buffers = b, !.offset = n]

LEMMA SetBuffers ==
    ASSUME NEW st \in StreamInstance, NEW b \in Seq(Buffer), NEW n \in Nat
    PROVE  LET t == WithBuffers(st, b, n)
           IN  /\ t \in StreamInstance /\ SamePlugin(t, st) /\ t.buffers = b
               /\ t.read = st.read /\ t.got = st.got /\ t.temp = st.temp
               /\ t.curl = st.curl /\ t.status = st.status
               /\ t.memory = st.memory /\ t.open = st.open
  BY DEF StreamInstance, SamePlugin, WithBuffers

LEMMA ConsumeShape ==
    ASSUME NEW st \in StreamInstance, Chain(st.buffers, st.read), st.buffers # <<>>,
           NEW k \in Nat \ {0}, k <= st.buffers[1].size - st.buffers[1].offset
    PROVE  LET t == Consume(st, k)
           IN  /\ t \in StreamInstance /\ SamePlugin(t, st) /\ Chain(t.buffers, t.read)
               /\ Handed(t.buffers, t.read) = Handed(st.buffers, st.read) + k
               /\ t.read = st.read /\ t.got = st.got /\ t.temp = st.temp
               /\ t.curl = st.curl /\ t.status = st.status
               /\ t.memory = st.memory /\ t.open = st.open
<1> DEFINE bs == st.buffers
           b == bs[1]
           last == b.offset + k >= b.size
           cs == IF last THEN Tail(bs) ELSE [bs EXCEPT ![1].offset = @ + k]
           n == IF last THEN st.offset + k ELSE st.offset
           t == WithBuffers(st, cs, n)
<1>1. bs \in Seq(Buffer) /\ st.read \in Nat /\ st.offset \in Nat /\ b \in Buffer /\ Head(bs) = b
  <2>1. bs \in Seq(Buffer) /\ st.read \in Nat /\ st.offset \in Nat
    BY FieldTypes
  <2> QED
    BY <2>1
<1>2. b.offset \in Nat /\ b.size \in Nat /\ b.from \in Nat /\ b.offset + k <= b.size
  BY SMTT(30), <1>1 DEF Buffer
<1>3. Handed(bs, st.read) = b.from + b.offset
  BY DEF Handed
<1>4. /\ cs \in Seq(Buffer) /\ Chain(cs, st.read)
      /\ Handed(cs, st.read) = Handed(bs, st.read) + k
  <2>1. CASE last
    <3>1. b.offset + k = b.size /\ cs = Tail(bs)
      BY SMTT(30), <1>2, <2>1
    <3>2. Tail(bs) \in Seq(Buffer) /\ Chain(Tail(bs), st.read) /\ Handed(Tail(bs), st.read) = b.from + b.size
      BY <1>1, ChainTail
    <3> QED
      BY <1>2, <1>3, <3>1, <3>2
  <2>2. CASE ~last
    <3> DEFINE d == [bs EXCEPT ![1].offset = @ + k]
    <3>1. bs[1].offset + k < bs[1].size /\ k \in Nat /\ cs = d
      BY <1>2, <2>2
    <3>2. d \in Seq(Buffer) /\ Chain(d, st.read) /\ Handed(d, st.read) = Handed(bs, st.read) + k
      BY ZenonT(60), <1>1, <3>1, ChainAdvance
    <3> HIDE DEF d
    <3> QED
      BY <3>1, <3>2
  <2> QED
    BY <2>1, <2>2
<1>5. n \in Nat
  BY <1>1
<1>6. Consume(st, k) = t
  <2>1. Consume(st, k) = IF last THEN [st EXCEPT !.buffers = Tail(@), !.offset = @ + k]
                         ELSE [st EXCEPT !.buffers[1].offset = @ + k]
    BY <1>1 DEF Consume
  <2>2. CASE last
    BY <2>1, <2>2 DEF WithBuffers
  <2>3. CASE ~last
    BY ZenonT(60), <2>1, <2>3 DEF WithBuffers, StreamInstance
  <2> QED
    BY <2>2, <2>3
<1> HIDE DEF cs, n
<1>7. /\ t \in StreamInstance /\ SamePlugin(t, st) /\ t.buffers = cs
      /\ t.read = st.read /\ t.got = st.got /\ t.temp = st.temp
      /\ t.curl = st.curl /\ t.status = st.status
      /\ t.memory = st.memory /\ t.open = st.open
  BY <1>4, <1>5, SetBuffers
<1> HIDE DEF t
<1> QED
  BY <1>4, <1>6, <1>7

\* A write of which the plugin takes something.
LEMMA SomeTaken ==
    ASSUME NEW st \in StreamInstance, CommitOk(st), "ACTIVE" \in st.status, st.buffers # <<>>,
           NEW len \in Nat \ {0}, NEW taken \in Nat \ {0}, taken <= len,
           ~stream_use_npp_write(st) => taken = len,
           len <= st.buffers[1].size - st.buffers[1].offset
    PROVE  LET t == Consume(stream_write(st, Head(st.buffers), len, taken), taken)
           IN  t \in StreamInstance /\ CommitOk(t) /\ t.status = st.status
<1> DEFINE b == Head(st.buffers)
           w == stream_write(st, b, len, taken)
           t == Consume(w, taken)
           n == Handed(st.buffers, st.read)
           m == Handed(t.buffers, t.read)
<1>1. st.buffers \in Seq(Buffer) /\ st.read \in Nat /\ st.temp \in Seq(Int) /\ st.got \in Seq(Nat)
  BY FieldTypes
<1>2. b \in Buffer /\ b = st.buffers[1] /\ n = b.from + b.offset /\ b.size \in Nat /\ b.offset \in Nat
  <2>1. b \in Buffer /\ b = st.buffers[1]
    BY <1>1
  <2>2. n = b.from + b.offset
    BY <2>1 DEF Handed
  <2> HIDE DEF b
  <2>3. b.size \in Nat /\ b.offset \in Nat
    BY <2>1 DEF Buffer
  <2> QED
    BY <2>1, <2>2, <2>3
<1>3. n \in Nat
  BY <1>1, HandedType
<1>0. /\ st.memory = "live" /\ st.open = "run" /\ ReadOk(st)
      /\ Chain(st.buffers, st.read) /\ Delivery(st)
      /\ st.seen \notin Ended /\ st.file = NoTemp
  BY DEF CommitOk
<1>4. \A k \in Nat : Bytes(b, k) = [i \in 1..k |-> n + i]
  BY <1>2 DEF Bytes
<1> HIDE DEF b, n
<1>5. /\ w \in StreamInstance
      /\ w.temp = IF ToFile(st) THEN st.temp \o Bytes(b, len) ELSE st.temp
      /\ w.got = IF TakesSome(st, taken) THEN st.got \o Bytes(b, taken) ELSE st.got
      /\ w.seen \in {st.seen, "NPP_Write"}
      /\ w.balks = IF taken < len THEN st.balks \cup {"short"} ELSE st.balks
      /\ w.buffers = st.buffers /\ w.read = st.read /\ w.stype = st.stype
      /\ w.uri = st.uri /\ w.file = st.file /\ w.status = st.status
      /\ w.memory = st.memory /\ w.open = st.open /\ w.curl = st.curl
  <2>1. b \in Buffer /\ len \in Nat /\ taken \in Int
    BY <1>2
  <2> QED
    BY ZenonT(60), <2>1, WriteShape
<1> HIDE DEF w
<1>6. /\ t \in StreamInstance /\ SamePlugin(t, w) /\ Chain(t.buffers, t.read)
      /\ Handed(t.buffers, t.read) = Handed(w.buffers, w.read) + taken
      /\ t.read = w.read /\ t.got = w.got /\ t.temp = w.temp
      /\ t.curl = w.curl /\ t.status = w.status
      /\ t.memory = w.memory /\ t.open = w.open
  <2>1. taken <= w.buffers[1].size - w.buffers[1].offset
    BY <1>2, <1>5
  <2>2. Chain(w.buffers, w.read) /\ w.buffers # <<>>
    BY <1>0, <1>5
  <2> QED
    BY <1>5, <2>1, <2>2, ConsumeShape
<1>7. m = n + taken
  BY <1>5, <1>6 DEF n
<1> HIDE DEF t, m
<1>8. TakesSome(st, taken) <=> stream_use_npp_write(st)
  BY DEF TakesSome
<1>9. stream_use_npp_write(t) <=> stream_use_npp_write(st)
  BY <1>5, <1>6 DEF stream_use_npp_write, SamePlugin
<1>10. t.got = UpTo(Len(t.got)) /\ (stream_use_npp_write(t) => Len(t.got) = m)
  <2>1. CASE stream_use_npp_write(st)
    <3>1. st.got = UpTo(n)
      BY <1>0, <2>1 DEF Delivery, n
    <3>2. t.got = UpTo(n) \o Bytes(b, taken)
      BY <1>5, <1>6, <1>8, <2>1, <3>1
    <3>3. t.got = UpTo(m)
      BY <1>3, <1>4, <1>7, <3>2, UpToAppend
    <3>4. Len(UpTo(m)) = m
      BY <1>3, <1>7, UpToAppend
    <3> QED
      BY <3>3, <3>4
  <2>2. CASE ~stream_use_npp_write(st)
    BY <1>0, <1>5, <1>6, <1>8, <1>9, <2>2 DEF Delivery
  <2> QED
    BY <2>1, <2>2
<1>11. t.temp # NoTemp /\ t.balks = {} => t.temp = UpTo(m)
  <2> SUFFICES ASSUME t.temp # NoTemp, t.balks = {} PROVE t.temp = UpTo(m)
    OBVIOUS
  <2>a. w.balks = {}
    BY <1>6 DEF SamePlugin
  <2>b. w.balks = IF taken < len THEN st.balks \cup {"short"} ELSE st.balks
    BY <1>5
  <2>1. taken = len /\ st.balks = {}
    BY <2>a, <2>b
  <2>2. st.temp # NoTemp
    BY <1>5, <1>6 DEF ToFile
  <2>3. ToFile(st) /\ st.temp = UpTo(n)
    BY <1>0, <2>1, <2>2 DEF Delivery, ToFile, AsFile, n
  <2>4. t.temp = UpTo(n) \o Bytes(b, taken)
    BY <1>5, <1>6, <2>1, <2>3
  <2> QED
    BY <1>3, <1>4, <1>7, <2>4, UpToAppend
<1>12. t.temp # NoTemp => t.stype \in AsFile
  BY <1>0, <1>5, <1>6 DEF ToFile, Delivery, SamePlugin
<1>13. Delivery(t)
  BY <1>5, <1>6, <1>10, <1>11, <1>12 DEF Delivery, m
<1>14. CommitOk(t)
  BY <1>0, <1>5, <1>6, <1>13 DEF CommitOk, ReadOk, SamePlugin, Ended
<1> QED
  BY <1>5, <1>6, <1>14 DEF t, w, b

LEMMA UpdateStep ==
    ASSUME StreamsInvariant, NEW s \in Streams, NEW t \in StreamInstance, StreamOk(t),
           stream' = [stream EXCEPT ![s] = t]
    PROVE  StreamsInvariant'
  BY DEF StreamsInvariant

\* A stream that may end its callback so.
MaySettle(u) ==
    /\ u \in StreamInstance /\ CommitOk(u)
    /\ "DESTROY" \in u.status =>
           u.balks # {} /\ ("ERROR" \in u.status \/ "unwanted" \in u.balks)

\* What HandOver makes of a stream, by the plugin's answers.
Outcome(st, ready, len, taken) ==
    LET w == stream_write(st, Head(st.buffers), len, taken)
    IN  IF ready < 0 THEN [st EXCEPT !.status = @ \cup {"DESTROY"}, !.balks = @ \cup {"unwanted"}]
        ELSE IF ready = 0 THEN [st EXCEPT !.refusals = @ + 1]
        ELSE IF taken < 0 THEN [w EXCEPT !.status = @ \cup {"ERROR", "DESTROY"}]
        ELSE IF taken = 0 THEN [w EXCEPT !.refusals = @ + 1]
        ELSE Consume(w, taken)

LEMMA OutcomeStep ==
    ASSUME NEW st \in StreamInstance, CommitOk(st), "ACTIVE" \in st.status,
           "DESTROY" \notin st.status, st.buffers # <<>>,
           NEW ready \in Int, NEW len, NEW taken \in Int,
           ready > 0 => /\ len \in Nat \ {0}
                        /\ len <= st.buffers[1].size - st.buffers[1].offset
                        /\ IF stream_use_npp_write(st) THEN taken <= len ELSE taken = len
    PROVE  MaySettle(Outcome(st, ready, len, taken))
<1> DEFINE b == Head(st.buffers)
           w == stream_write(st, b, len, taken)
<1>1. b \in Buffer
  <2>1. st.buffers \in Seq(Buffer)
    BY FieldTypes
  <2> QED
    BY <2>1
<1>2. st.status \in SUBSET {"ACTIVE", "ERROR", "FINISH", "DESTROY"} /\ st.refusals \in Nat
      /\ st.balks \in SUBSET {"short", "unwanted"}
  BY DEF StreamInstance
<1> HIDE DEF b
<1>3. CASE ready < 0
  <2> DEFINE f == st.status \cup {"DESTROY"}
             x == st.balks \cup {"unwanted"}
             r == st.refusals
             u == WithAnswer(st, f, r, x)
  <2>1. /\ f \in SUBSET {"ACTIVE", "ERROR", "FINISH", "DESTROY"} /\ r \in Nat
        /\ x \in SUBSET {"short", "unwanted"}
        /\ ("ACTIVE" \in f <=> "ACTIVE" \in st.status) /\ st.balks \subseteq x
        /\ "unwanted" \in x
    BY <1>2
  <2>2. Outcome(st, ready, len, taken) = u
    <3>1. Outcome(st, ready, len, taken) =
              [st EXCEPT !.status = @ \cup {"DESTROY"}, !.balks = @ \cup {"unwanted"}]
      BY <1>3 DEF Outcome
    <3> QED
      BY ZenonT(60), <3>1 DEF WithAnswer, StreamInstance
  <2> HIDE DEF f, x, r
  <2>3. u \in StreamInstance /\ CommitOk(u) /\ u.status = f /\ u.balks = x
    BY <2>1, AnswerStep
  <2> HIDE DEF u
  <2> QED
    BY <2>1, <2>2, <2>3 DEF MaySettle
<1>4. CASE ready = 0
  <2> DEFINE f == st.status
             x == st.balks
             r == st.refusals + 1
             u == WithAnswer(st, f, r, x)
  <2>1. /\ f \in SUBSET {"ACTIVE", "ERROR", "FINISH", "DESTROY"} /\ r \in Nat
        /\ x \in SUBSET {"short", "unwanted"}
        /\ ("ACTIVE" \in f <=> "ACTIVE" \in st.status) /\ st.balks \subseteq x
        /\ "DESTROY" \notin f
    BY <1>2
  <2>2. Outcome(st, ready, len, taken) = u
    <3>1. Outcome(st, ready, len, taken) = [st EXCEPT !.refusals = @ + 1]
      BY <1>4 DEF Outcome
    <3> QED
      BY ZenonT(60), <3>1 DEF WithAnswer, StreamInstance
  <2> HIDE DEF f, x, r
  <2>3. u \in StreamInstance /\ CommitOk(u) /\ u.status = f /\ u.balks = x
    BY <2>1, AnswerStep
  <2> HIDE DEF u
  <2> QED
    BY <2>1, <2>2, <2>3 DEF MaySettle
<1>5. CASE ready > 0 /\ taken <= 0
  <2>1. w \in StreamInstance /\ CommitOk(w) /\ w.balks # {} /\ w.status = st.status
    BY <1>1, <1>5, NothingTaken
  <2> HIDE DEF w
  <2>2. w.refusals \in Nat /\ w.balks \in SUBSET {"short", "unwanted"}
    BY <2>1 DEF StreamInstance
  <2>3. CASE taken < 0
    <3> DEFINE f == w.status \cup {"ERROR", "DESTROY"}
               x == w.balks
               r == w.refusals
               u == WithAnswer(w, f, r, x)
    <3>1. /\ f \in SUBSET {"ACTIVE", "ERROR", "FINISH", "DESTROY"} /\ r \in Nat
          /\ x \in SUBSET {"short", "unwanted"}
          /\ ("ACTIVE" \in f <=> "ACTIVE" \in w.status) /\ w.balks \subseteq x
          /\ "ERROR" \in f /\ x # {}
      BY <1>2, <2>1, <2>2
    <3>2. Outcome(st, ready, len, taken) = u
      <4>1. Outcome(st, ready, len, taken) = [w EXCEPT !.status = @ \cup {"ERROR", "DESTROY"}]
        BY <1>5, <2>3 DEF Outcome, w, b
      <4> QED
        BY ZenonT(60), <2>1, <4>1 DEF WithAnswer, StreamInstance
    <3> HIDE DEF f, x, r
    <3>3. u \in StreamInstance /\ CommitOk(u) /\ u.status = f /\ u.balks = x
      BY <2>1, <3>1, AnswerStep
    <3> HIDE DEF u
    <3> QED
      BY <3>1, <3>2, <3>3 DEF MaySettle
  <2>4. CASE taken = 0
    <3> DEFINE f == w.status
               x == w.balks
               r == w.refusals + 1
               u == WithAnswer(w, f, r, x)
    <3>1. /\ f \in SUBSET {"ACTIVE", "ERROR", "FINISH", "DESTROY"} /\ r \in Nat
          /\ x \in SUBSET {"short", "unwanted"}
          /\ ("ACTIVE" \in f <=> "ACTIVE" \in w.status) /\ w.balks \subseteq x
          /\ "DESTROY" \notin f
      BY <1>2, <2>1, <2>2
    <3>2. Outcome(st, ready, len, taken) = u
      <4>1. Outcome(st, ready, len, taken) = [w EXCEPT !.refusals = @ + 1]
        BY <1>5, <2>4 DEF Outcome, w, b
      <4> QED
        BY ZenonT(60), <2>1, <4>1 DEF WithAnswer, StreamInstance
    <3> HIDE DEF f, x, r
    <3>3. u \in StreamInstance /\ CommitOk(u) /\ u.status = f /\ u.balks = x
      BY <2>1, <3>1, AnswerStep
    <3> HIDE DEF u
    <3> QED
      BY <3>1, <3>2, <3>3 DEF MaySettle
  <2> QED
    BY <1>5, <2>3, <2>4
<1>6. CASE ready > 0 /\ taken > 0
  <2> DEFINE u == Consume(w, taken)
  <2>1. /\ len \in Nat \ {0} /\ taken \in Nat \ {0} /\ taken <= len
        /\ ~stream_use_npp_write(st) => taken = len
        /\ len <= st.buffers[1].size - st.buffers[1].offset
    BY <1>6
  <2>2. u \in StreamInstance /\ CommitOk(u) /\ u.status = st.status
    BY <2>1, SomeTaken DEF b
  <2>3. Outcome(st, ready, len, taken) = u
    BY <1>6 DEF Outcome, b
  <2> HIDE DEF u
  <2> QED
    BY <2>2, <2>3 DEF MaySettle
<1> QED
  BY <1>3, <1>4, <1>5, <1>6

\* A buffer is handed over.
LEMMA HandOverStep ==
    ASSUME StreamsInvariant, NEW s \in Streams, Live(s), stream[s].commit = TRUE,
           stream[s].buffers # <<>>, NEW stype \in stypes, NEW answer \in -1..MaxPiece,
           NEW taken \in Int, HandOver(s, stype, answer, taken)
    PROVE  StreamsInvariant'
<1> DEFINE old == stream[s]
           k == IF "ACTIVE" \in old.status THEN old.stype ELSE stype
           q == IF "ACTIVE" \in old.status THEN old.seen ELSE "NPP_NewStream"
           st == [stream[s] EXCEPT
                     !.stype  = IF "ACTIVE" \in stream[s].status THEN @ ELSE stype,
                     !.seen   = IF "ACTIVE" \in stream[s].status THEN @ ELSE "NPP_NewStream",
                     !.status = @ \cup {"ACTIVE"}]
           b == Head(st.buffers)
           rest == b.size - b.offset
           ready == stream_write_ready(st, answer)
           len == IF ready < rest THEN ready ELSE rest
           t == Outcome(st, ready, len, taken)
<1>1. /\ old \in StreamInstance /\ old.memory = "live" /\ LiveOk(old) /\ ReadOk(old) /\ old.open = "run"
  BY DEF StreamsInvariant, StreamOk, Live, LiveOk
<1>2. st = Activated(old, k, q)
  BY <1>1 DEF Activated, StreamInstance
<1>3. ready > 0 => IF stream_use_npp_write(st) THEN taken <= len ELSE taken = len
  BY DEF HandOver
<1>4. stream' = [stream EXCEPT ![s] = Settle(t)]
  BY DEF HandOver, Outcome
<1> HIDE DEF st
<1>5. st \in StreamInstance /\ CommitOk(st) /\ "ACTIVE" \in st.status /\ "DESTROY" \notin st.status
      /\ st.buffers = old.buffers
  BY <1>1, <1>2, ActivateStep
<1> HIDE DEF old
<1>6. st.buffers # <<>> /\ st.buffers \in Seq(Buffer) /\ Chain(st.buffers, st.read)
  BY <1>5, FieldTypes DEF CommitOk, old
<1>7. b = st.buffers[1] /\ rest \in Nat \ {0}
  <2>1. b \in Buffer /\ b = st.buffers[1]
    BY <1>6
  <2>2. st.buffers[1].offset < st.buffers[1].size
    BY <1>6 DEF Chain
  <2> HIDE DEF b
  <2>3. b.size \in Nat /\ b.offset \in Nat /\ b.offset < b.size
    BY <2>1, <2>2 DEF Buffer
  <2> QED
    BY <2>1, <2>3
<1>8. ready \in Int
  BY PlayerAssumption DEF stream_write_ready, g_NPP_WriteReady
<1> HIDE DEF ready
<1>9. ready > 0 => len \in Nat \ {0} /\ len <= st.buffers[1].size - st.buffers[1].offset
  BY <1>7, <1>8
<1> HIDE DEF len
<1>10. MaySettle(t)
  BY <1>3, <1>5, <1>6, <1>8, <1>9, OutcomeStep
<1> HIDE DEF t
<1>11. StreamOk(Settle(t)) /\ Settle(t) \in StreamInstance
  BY <1>10, SettleStep DEF MaySettle
<1> QED
  BY <1>4, <1>11, UpdateStep

\* on_stream_commit_cb
LEMMA CommitStep ==
    ASSUME StreamsInvariant, NEW s \in Streams, on_stream_commit_cb(s)
    PROVE  StreamsInvariant'
<1> DEFINE st == stream[s]
<1>1. Live(s) /\ stream[s].commit = TRUE
  <2>1. stream[s].commit \in BOOLEAN
    BY FieldTypes DEF StreamsInvariant
  <2> QED
    BY <2>1 DEF on_stream_commit_cb
<1>2. /\ st \in StreamInstance /\ st.memory = "live" /\ LiveOk(st) /\ ReadOk(st) /\ st.open = "run"
  BY <1>1 DEF StreamsInvariant, StreamOk, Live, LiveOk
<1>3. CASE stream' = [stream EXCEPT ![s] = Settle(@)]
  <2>1. stream' = [stream EXCEPT ![s] = Settle(st)]
    BY <1>3
  <2>2. CommitOk(st) /\ "DESTROY" \notin st.status
    BY <1>2 DEF CommitOk, LiveOk
  <2> HIDE DEF st
  <2>3. StreamOk(Settle(st)) /\ Settle(st) \in StreamInstance
    BY <1>2, <2>2, SettleStep
  <2> QED
    BY <2>1, <2>3, UpdateStep
<1>4. CASE OfferRefused(s)
  <2> DEFINE c == [st EXCEPT !.commit = FALSE]
             t == [c EXCEPT !.seen = "refused"]
  <2>1. stream' = [stream EXCEPT ![s] = t]
    BY ZenonT(60), <1>2, <1>4 DEF OfferRefused, StreamInstance, StreamsInvariant
  <2> HIDE DEF st
  <2>2. /\ c \in StreamInstance /\ LiveOk(c) /\ c.curl = st.curl /\ c.read = st.read
        /\ c.uri = st.uri /\ c.memory = st.memory
    BY <1>2, LiveCommit
  <2> HIDE DEF c
  <2>3. /\ t \in StreamInstance /\ SameBytes(t, c) /\ t.stype = c.stype /\ t.uri = c.uri
        /\ t.file = c.file /\ t.balks = c.balks /\ t.seen = "refused" /\ t.status = c.status
        /\ t.curl = c.curl /\ t.commit = c.commit /\ t.memory = c.memory /\ t.open = c.open
    BY <2>2 DEF StreamInstance, SameBytes
  <2> HIDE DEF t
  <2>4. Delivery(t)
    <3>1. Delivery(c)
      BY <2>2 DEF LiveOk
    <3> QED
      BY <2>3, <3>1, SameDelivery DEF SameBytes
  <2>5. LiveOk(t) /\ ReadOk(t) /\ t.memory = "live"
    BY <1>2, <2>2, <2>3, <2>4 DEF LiveOk, ReadOk, SameBytes, Ended
  <2>6. StreamOk(t)
    BY <2>3, <2>5 DEF StreamOk
  <2> QED
    BY <2>1, <2>3, <2>6, UpdateStep
<1>5. ASSUME NEW stype \in stypes, NEW answer \in -1..MaxPiece, NEW taken \in Int,
             stream[s].buffers # <<>>, HandOver(s, stype, answer, taken)
      PROVE  StreamsInvariant'
  BY <1>1, <1>5, HandOverStep
<1>6. \/ stream' = [stream EXCEPT ![s] = Settle(@)]
      \/ OfferRefused(s)
      \/ /\ stream[s].buffers # <<>>
         /\ \E stype \in stypes, answer \in -1..MaxPiece : \E taken \in Int :
                HandOver(s, stype, answer, taken)
  <2>1. st.stype \in stypes
    BY <1>2, FieldTypes
  <2>2. \A answer \in -1..MaxPiece : -1..answer \subseteq Int /\ {0} \subseteq Int
    OBVIOUS
  <2>3. ASSUME NEW stype \in IF "ACTIVE" \in stream[s].status THEN {stream[s].stype} ELSE stypes
        PROVE  stype \in stypes
    BY <2>1
  <2>4. ASSUME NEW answer \in -1..MaxPiece, NEW taken \in IF answer <= 0 THEN {0} ELSE -1..answer
        PROVE  taken \in Int
    OBVIOUS
  <2> QED
    BY <2>3, <2>4 DEF on_stream_commit_cb
<1> QED
  BY <1>3, <1>4, <1>5, <1>6

-----------------------------------------------------------------------------
(* The theorems.                                                             *)

LEMMA StreamsInit == Init => StreamsInvariant
<1> SUFFICES ASSUME Init PROVE StreamsInvariant
  OBVIOUS
<1>1. stream = [s \in Streams |-> FreeStream]
  BY DEF Init
<1>2. StreamOk(FreeStream)
  BY FreeFields DEF StreamOk
<1> QED
  BY <1>1, <1>2, FreeFields DEF StreamsInvariant

LEMMA StreamsStep ==
    ASSUME StreamsInvariant, [Next]_vars
    PROVE  StreamsInvariant'
<1>1. ASSUME NEW a \in Apps, player_app_run(a) PROVE StreamsInvariant'
  <2>1. CASE UNCHANGED stream
    BY <2>1 DEF StreamsInvariant
  <2>2. ASSUME NEW s \in Streams, NEW uri \in Uris, NEW accepts \in BOOLEAN,
               NEW stype \in stypes, stream_new(a, s, FALSE, uri, accepts, stype)
        PROVE  StreamsInvariant'
    BY <2>2, NewStep
  <2>3. \/ UNCHANGED stream
        \/ \E s \in Streams, uri \in Uris, accepts \in BOOLEAN, stype \in stypes :
               stream_new(a, s, FALSE, uri, accepts, stype)
    BY <1>1 DEF player_app_run
  <2> QED
    BY <2>1, <2>2, <2>3
<1>2. ASSUME NEW a \in Apps, g_NPN_GetURLNotify(a) PROVE StreamsInvariant'
  <2>1. PICK s \in Streams, notify \in BOOLEAN, uri \in Uris, accepts \in BOOLEAN, stype \in stypes :
            stream_new(a, s, notify, uri, accepts, stype)
    BY <1>2 DEF g_NPN_GetURLNotify
  <2> QED
    BY <2>1, NewStep
<1>3. ASSUME NEW a \in Apps, on_configure_event_cb(a) PROVE StreamsInvariant'
  BY <1>3 DEF on_configure_event_cb, StreamsInvariant
<1>4. ASSUME NEW s \in Streams, on_stream_open_cb(s) PROVE StreamsInvariant'
  BY <1>4, OpenStep
<1>5. ASSUME NEW s \in Streams, on_stream_commit_cb(s) PROVE StreamsInvariant'
  BY <1>5, CommitStep
<1>6. CASE dispatch
  BY <1>6, DispatchStep
<1>7. CASE on_window_destroy_cb
  BY <1>7 DEF on_window_destroy_cb, StreamsInvariant
<1>8. ASSUME NEW key, NEW control, on_key_press_event_cb(key, control) PROVE StreamsInvariant'
  BY <1>7, <1>8 DEF on_key_press_event_cb
<1>9. CASE player_app_quit
  BY <1>9 DEF player_app_quit, StreamsInvariant
<1>10. CASE UNCHANGED vars
  BY <1>10 DEF vars, StreamsInvariant
<1> QED
  BY <1>1, <1>2, <1>3, <1>4, <1>5, <1>6, <1>7, <1>8, <1>9, <1>10 DEF Next

\* Whatever the plugin answers, and however its transfer goes, a stream of the
\* player stays sound: its buffers follow one another without a gap or an
\* overlap and end where the transfer stands, the plugin has exactly what they
\* no longer hold, and a stream without callbacks is the only one that is freed
\* (on_stream_read_cb, stream_write, on_stream_commit_cb).
THEOREM StreamsAreSound == Spec => []StreamsInvariant
<1>1. StreamsInvariant /\ [Next]_vars => StreamsInvariant'
  BY StreamsStep
<1> QED
  BY <1>1, StreamsInit, PTL DEF Spec

\* A freed stream is not the data of an idle callback that is still to run, nor
\* of a transfer that libcurl still drives (stream_destroy, on_stream_commit_cb).
THEOREM StreamsNeverDangle == Spec => []NoDanglingStream
<1>1. StreamsInvariant => NoDanglingStream
  BY DEF StreamsInvariant, StreamOk, GoneOk, NoDanglingStream
<1> QED
  BY <1>1, StreamsAreSound, PTL

LEMMA SoundDelivered ==
    ASSUME NEW st \in StreamInstance, StreamOk(st)
    PROVE  Delivered(st)
<1>1. CASE st.memory = "free"
  <2>1. st = FreeStream
    BY <1>1 DEF StreamOk
  <2>2. st.got = <<>> /\ st.seen = "nothing" /\ st.file = NoTemp
    BY <2>1, FreeFields
  <2>3. st.got = UpTo(Len(st.got))
    BY <2>2, NoBytes
  <2> QED
    BY <2>2, <2>3 DEF Delivered, Ended
<1>2. CASE st.memory = "live"
  <2>1. LiveOk(st)
    BY <1>2 DEF StreamOk
  <2>2. Delivery(st) /\ st.seen \notin Ended /\ st.file = NoTemp
    BY <2>1 DEF LiveOk
  <2>3. st.got = UpTo(Len(st.got))
    BY <2>2 DEF Delivery
  <2> QED
    BY <2>2, <2>3 DEF Delivered
<1>3. CASE st.memory = "freed"
  BY <1>3 DEF StreamOk, GoneOk
<1>4. st.memory \in {"free", "live", "freed"}
  BY DEF StreamInstance
<1> QED
  BY <1>1, <1>2, <1>3, <1>4

\* The plugin gets the bytes of a stream in their order, each once; NPRES_DONE
\* follows the last byte that was read; and the file it is given holds the
\* stream (on_stream_commit_cb, stream_write, stream_destroy).
THEOREM BytesInOrder == Spec => []DeliveredInOrder
<1>1. ASSUME StreamsInvariant PROVE DeliveredInOrder
  <2>1. ASSUME NEW s \in Streams PROVE Delivered(stream[s])
    <3>1. stream[s] \in StreamInstance /\ StreamOk(stream[s])
      BY <1>1 DEF StreamsInvariant
    <3> QED
      BY <3>1, SoundDelivered
  <2> QED
    BY <2>1 DEF DeliveredInOrder, Delivered, UpTo, Ended
<1> QED
  BY <1>1, StreamsAreSound, PTL

\* The main loop runs as long as a window is still to be closed.
LoopInvariant ==
    /\ main \in {"loop", "cleanup", "exited", "aborted"}
    /\ g_n_plugins \in 0..Cardinality(Apps)
    /\ main = "loop" => g_n_plugins >= 1
    /\ plugin \in [Apps -> {"none", "init_failed", "initialized", "new_failed",
                            "created", "running", "freed"}]
    /\ callPerform \in -1..Cardinality(Streams)

LEMMA Sizes ==
    /\ Cardinality(Apps) \in Nat \ {0}
    /\ \A T \in SUBSET Streams : Cardinality(T) \in 0..Cardinality(Streams)
<1>1. Cardinality(Apps) \in Nat /\ Cardinality(Streams) \in Nat
  BY PlayerAssumption, FS_CardinalityType
<1>2. Cardinality(Apps) # 0
  BY PlayerAssumption, FS_EmptySet
<1>3. ASSUME NEW T \in SUBSET Streams PROVE Cardinality(T) \in 0..Cardinality(Streams)
  <2>1. IsFiniteSet(Streams) /\ T \subseteq Streams
    BY PlayerAssumption
  <2>2. IsFiniteSet(T) /\ Cardinality(T) <= Cardinality(Streams)
    BY <2>1, FS_Subset
  <2>3. Cardinality(T) \in Nat
    BY <2>2, FS_CardinalityType
  <2> QED
    BY <1>1, <2>2, <2>3
<1> QED
  BY <1>1, <1>2, <1>3

LEMMA LoopStep ==
    ASSUME LoopInvariant, [Next]_vars
    PROVE  LoopInvariant'
<1>1. ASSUME NEW a \in Apps, player_app_run(a) PROVE LoopInvariant'
  <2>1. ASSUME NEW r \in {"init_failed", "initialized", "new_failed", "created", "running"},
               NEW quits, Start(a, r, quits)
        PROVE  LoopInvariant'
    BY <1>1, <2>1 DEF player_app_run, Start, LoopInvariant
  <2>2. CASE main' = "aborted" /\ UNCHANGED <<g_n_plugins, plugin, callPerform>>
    BY <2>2 DEF LoopInvariant
  <2>3. \/ main' = "aborted" /\ UNCHANGED <<g_n_plugins, plugin, callPerform>>
        \/ \E r \in {"init_failed", "initialized", "new_failed", "created", "running"} :
           \E quits \in BOOLEAN : Start(a, r, quits)
    BY <1>1 DEF player_app_run
  <2> QED
    BY <2>1, <2>2, <2>3
<1>2. ASSUME NEW a \in Apps, g_NPN_GetURLNotify(a) PROVE LoopInvariant'
  BY <1>2 DEF g_NPN_GetURLNotify, LoopInvariant
<1>3. ASSUME NEW a \in Apps, on_configure_event_cb(a) PROVE LoopInvariant'
  BY <1>3 DEF on_configure_event_cb, LoopInvariant
<1>4. ASSUME NEW s \in Streams, on_stream_open_cb(s) PROVE LoopInvariant'
  <2>1. main' = main /\ g_n_plugins' = g_n_plugins /\ plugin' = plugin
    BY <1>4 DEF on_stream_open_cb
  <2>2. callPerform' \in {callPerform, -1}
    BY <1>4 DEF on_stream_open_cb, glibcurl_add
  <2>3. Cardinality(Streams) \in Nat
    BY PlayerAssumption, FS_CardinalityType
  <2> QED
    BY <2>1, <2>2, <2>3 DEF LoopInvariant
<1>5. ASSUME NEW s \in Streams, on_stream_commit_cb(s) PROVE LoopInvariant'
  BY <1>5 DEF on_stream_commit_cb, LoopInvariant
<1>6. CASE dispatch
  <2>1. main' = main /\ g_n_plugins' = g_n_plugins /\ plugin' = plugin
    BY <1>6 DEF dispatch
  <2>2. \E T \in SUBSET Streams : callPerform' = Cardinality(T)
    BY <1>6 DEF dispatch, Transfers
  <2>3. callPerform' \in 0..Cardinality(Streams)
    BY <2>2, Sizes
  <2>4. Cardinality(Streams) \in Nat
    BY PlayerAssumption, FS_CardinalityType
  <2> QED
    BY <2>1, <2>3, <2>4 DEF LoopInvariant
<1>7. CASE on_window_destroy_cb
  BY <1>7, Sizes DEF on_window_destroy_cb, LoopInvariant
<1>8. ASSUME NEW key, NEW control, on_key_press_event_cb(key, control) PROVE LoopInvariant'
  BY <1>7, <1>8 DEF on_key_press_event_cb
<1>9. CASE player_app_quit
  BY <1>9 DEF player_app_quit, player_app_destroy, plugin_stop, plugin_destroy, g_NPP_Destroy,
              g_NP_Shutdown, LoopInvariant
<1>10. CASE UNCHANGED vars
  BY <1>10 DEF vars, LoopInvariant
<1> QED
  BY <1>1, <1>2, <1>3, <1>4, <1>5, <1>6, <1>7, <1>8, <1>9, <1>10 DEF Next

LEMMA SoundType ==
    ASSUME NEW st \in StreamInstance, StreamOk(st)
    PROVE  /\ st.memory \in {"free", "live", "freed"}
           /\ st.status \subseteq {"ACTIVE", "ERROR", "FINISH", "DESTROY"}
           /\ st.curl \in {"none", "fd", "timer", "read"}
           /\ st.read \in 0..(MaxBytes + 1)
           /\ \A i \in 1..Len(st.buffers) : st.buffers[i].offset < st.buffers[i].size
<1>1. /\ st.memory \in {"free", "live", "freed"} /\ st.read \in Nat
      /\ st.status \subseteq {"ACTIVE", "ERROR", "FINISH", "DESTROY"}
      /\ st.curl \in {"none", "fd", "timer", "done", "read"}
  BY DEF StreamInstance
<1>2. CASE st.memory = "free"
  <2>1. st.curl = "none" /\ st.read = 0 /\ st.buffers = <<>>
    BY <1>2, FreeFields DEF StreamOk
  <2> QED
    BY <1>1, <2>1, PlayerAssumption
<1>3. CASE st.memory = "live"
  <2>1. Chain(st.buffers, st.read) /\ ReadOk(st)
    BY <1>3 DEF StreamOk, LiveOk
  <2>2. st.curl # "done" /\ st.read <= MaxBytes + 1
    BY <1>1, <2>1, PlayerAssumption DEF ReadOk
  <2>3. \A i \in 1..Len(st.buffers) : st.buffers[i].offset < st.buffers[i].size
    BY <2>1 DEF Chain
  <2> QED
    BY <1>1, <2>2, <2>3, PlayerAssumption
<1>4. CASE st.memory = "freed"
  <2>1. st.curl = "none" /\ st.read <= MaxBytes + 1 /\ st.buffers = <<>>
    BY <1>4 DEF StreamOk, GoneOk
  <2> QED
    BY <1>1, <2>1, PlayerAssumption
<1> QED
  BY <1>1, <1>2, <1>3, <1>4

\* The type invariant: no more windows are closed than were opened while the
\* main loop runs, and no transfer is left with a message nobody reads
\* (on_window_destroy_cb, glibcurl_remove, dispatch).
THEOREM PlayerIsTyped == Spec => []TypeOK
<1>1. Init => LoopInvariant
  <2> SUFFICES ASSUME Init PROVE LoopInvariant
    OBVIOUS
  <2>2. Cardinality(Streams) \in Nat
    BY PlayerAssumption, FS_CardinalityType
  <2> QED
    BY <2>2, Sizes DEF Init, glibcurl_init, LoopInvariant
<1>2. LoopInvariant /\ [Next]_vars => LoopInvariant'
  BY LoopStep
<1>3. ASSUME LoopInvariant, StreamsInvariant PROVE TypeOK
  <2>1. ASSUME NEW s \in Streams
        PROVE  /\ stream[s].memory \in {"free", "live", "freed"}
               /\ stream[s].status \subseteq {"ACTIVE", "ERROR", "FINISH", "DESTROY"}
               /\ stream[s].curl \in {"none", "fd", "timer", "read"}
               /\ stream[s].read \in 0..(MaxBytes + 1)
               /\ \A i \in 1..Len(stream[s].buffers) :
                     stream[s].buffers[i].offset < stream[s].buffers[i].size
    <3>1. stream[s] \in StreamInstance /\ StreamOk(stream[s])
      BY <1>3 DEF StreamsInvariant
    <3> QED
      BY <3>1, SoundType
  <2> QED
    BY <1>3, <2>1 DEF LoopInvariant, TypeOK
<1> QED
  BY <1>1, <1>2, <1>3, StreamsAreSound, PTL DEF Spec

-----------------------------------------------------------------------------
(***************************************************************************)
(* PlayerBrowser.  References: the count of an object is what the plugin   *)
(* and its variants hold, so that it is freed with the last of them.       *)
(***************************************************************************)

Holding(vs, o) == {v \in Variants : vs[v] = o}

NPObject == [memory : {"none", "live", "freed"}, class : SUBSET UNION Classes, referenceCount : Nat]

BrowserTypes ==
    /\ npobj \in [NPObjects -> NPObject]
    /\ refs \in [NPObjects -> Nat]
    /\ variant \in [Variants -> NPObjects \cup {NULL, AString}]

\* An object n that the plugin holds k references to, and vs the variants
CountOk(n, k, vs, o) ==
    /\ n.referenceCount = k + Cardinality(Holding(vs, o))
    /\ n.memory = "live" <=> n.referenceCount > 0

CountsOk == \A o \in NPObjects : CountOk(npobj[o], refs[o], variant, o)

LEMMA HoldingFinite ==
    ASSUME NEW vs, NEW o
    PROVE  IsFiniteSet(Holding(vs, o)) /\ Cardinality(Holding(vs, o)) \in Nat
<1>1. Holding(vs, o) \subseteq Variants /\ IsFiniteSet(Variants)
  BY PlayerBrowserAssumption DEF Holding
<1>2. IsFiniteSet(Holding(vs, o))
  BY <1>1, FS_Subset
<1> QED
  BY <1>2, FS_CardinalityType

LEMMA HoldingMore ==
    ASSUME NEW vs \in [Variants -> NPObjects \cup {NULL, AString}], NEW v \in Variants, NEW o \in NPObjects,
           vs[v] \notin NPObjects
    PROVE  /\ Cardinality(Holding([vs EXCEPT ![v] = o], o)) = Cardinality(Holding(vs, o)) + 1
           /\ \A q \in NPObjects : q # o => Holding([vs EXCEPT ![v] = o], q) = Holding(vs, q)
<1> DEFINE H == Holding(vs, o)
<1>1. Holding([vs EXCEPT ![v] = o], o) = H \cup {v} /\ v \notin H
  BY DEF Holding
<1>2. IsFiniteSet(H) /\ Cardinality(H) \in Nat
  BY HoldingFinite
<1>3. Cardinality(H \cup {v}) = Cardinality(H) + 1
  BY <1>1, <1>2, FS_AddElement
<1>4. ASSUME NEW q \in NPObjects, q # o PROVE Holding([vs EXCEPT ![v] = o], q) = Holding(vs, q)
  BY <1>4 DEF Holding
<1> QED
  BY <1>1, <1>3, <1>4

LEMMA HoldingLess ==
    ASSUME NEW vs \in [Variants -> NPObjects \cup {NULL, AString}], NEW v \in Variants
    PROVE  /\ \A o \in NPObjects : vs[v] = o =>
                 Cardinality(Holding([vs EXCEPT ![v] = NULL], o)) = Cardinality(Holding(vs, o)) - 1
           /\ \A q \in NPObjects : q # vs[v] => Holding([vs EXCEPT ![v] = NULL], q) = Holding(vs, q)
<1>1. ASSUME NEW o \in NPObjects, vs[v] = o
      PROVE  Cardinality(Holding([vs EXCEPT ![v] = NULL], o)) = Cardinality(Holding(vs, o)) - 1
  <2> DEFINE H == Holding(vs, o)
  <2>1. Holding([vs EXCEPT ![v] = NULL], o) = H \ {v} /\ v \in H
    BY <1>1, PlayerBrowserAssumption DEF Holding
  <2>2. IsFiniteSet(H) /\ Cardinality(H) \in Nat
    BY HoldingFinite
  <2>3. Cardinality(H \ {v}) = Cardinality(H) - 1
    BY <2>1, <2>2, FS_RemoveElement
  <2> QED
    BY <2>1, <2>3
<1>2. ASSUME NEW q \in NPObjects, q # vs[v]
      PROVE  Holding([vs EXCEPT ![v] = NULL], q) = Holding(vs, q)
  BY <1>2, PlayerBrowserAssumption DEF Holding
<1> QED
  BY <1>1, <1>2

\* A reference more to an object that lives
LEMMA RetainedCounts ==
    ASSUME NEW objs \in [NPObjects -> NPObject], NEW o \in NPObjects
    PROVE  /\ Retained(objs, o) \in [NPObjects -> NPObject]
           /\ Retained(objs, o)[o].referenceCount = objs[o].referenceCount + 1
           /\ Retained(objs, o)[o].memory = objs[o].memory
           /\ \A q \in NPObjects : q # o => Retained(objs, o)[q] = objs[q]
  BY DEF Retained, NPObject

LEMMA ReleasedCounts ==
    ASSUME NEW objs \in [NPObjects -> NPObject], NEW o \in NPObjects,
           objs[o].referenceCount > 0, objs[o].memory = "live"
    PROVE  /\ Released(objs, o) \in [NPObjects -> NPObject]
           /\ Released(objs, o)[o].referenceCount = objs[o].referenceCount - 1
           /\ Released(objs, o)[o].memory = "live" <=> Released(objs, o)[o].referenceCount > 0
           /\ \A q \in NPObjects : q # o => Released(objs, o)[q] = objs[q]
<1>0. objs[o] \in NPObject /\ objs[o].referenceCount \in Nat
  BY DEF NPObject
<1>1. CASE objs[o].referenceCount = 1
  <2>1. Released(objs, o) = [objs EXCEPT ![o].referenceCount = 0, ![o].memory = "freed"]
    BY <1>1 DEF Released
  <2> QED
    BY <1>0, <1>1, <2>1 DEF NPObject
<1>2. CASE objs[o].referenceCount # 1
  <2>1. Released(objs, o) = [objs EXCEPT ![o].referenceCount = @ - 1]
    BY <1>2 DEF Released
  <2>2. objs[o].referenceCount - 1 \in Nat /\ objs[o].referenceCount - 1 > 0
    BY <1>0, <1>2
  <2> QED
    BY <1>0, <1>2, <2>1, <2>2 DEF NPObject
<1> QED
  BY <1>1, <1>2

LEMMA CreateObjectStep ==
    ASSUME BrowserTypes, CountsOk, NEW o \in NPObjects, NEW c \in Classes, g_NPN_CreateObject(o, c)
    PROVE  BrowserTypes' /\ CountsOk'
<1>1. variant' = variant /\ npobj[o].memory = "none"
  BY DEF g_NPN_CreateObject
<1>2. CASE UNCHANGED <<npobj, refs>>
  BY <1>1, <1>2 DEF BrowserTypes, CountsOk
<1>3. CASE /\ npobj' = [npobj EXCEPT ![o] = [memory |-> "live", class |-> c, referenceCount |-> 1]]
           /\ refs' = [refs EXCEPT ![o] = 1]
  <2>1. [memory |-> "live", class |-> c, referenceCount |-> 1] \in NPObject
    BY DEF NPObject
  <2>2. BrowserTypes'
    BY <1>1, <1>3, <2>1 DEF BrowserTypes
  <2>3. Cardinality(Holding(variant, o)) = 0
    <3>1. CountOk(npobj[o], refs[o], variant, o) /\ refs[o] \in Nat /\ npobj[o].referenceCount \in Nat
      BY DEF CountsOk, BrowserTypes, NPObject
    <3> QED
      BY <1>1, <3>1, HoldingFinite DEF CountOk
  <2>4. ASSUME NEW q \in NPObjects PROVE CountOk(npobj'[q], refs'[q], variant', q)
    <3>1. CASE q = o
      <4>1. npobj'[q] = [memory |-> "live", class |-> c, referenceCount |-> 1] /\ refs'[q] = 1
        BY <1>3, <3>1 DEF BrowserTypes
      <4> QED
        BY <1>1, <2>3, <3>1, <4>1 DEF CountOk
    <3>2. CASE q # o
      <4>1. npobj'[q] = npobj[q] /\ refs'[q] = refs[q]
        BY <1>3, <3>2 DEF BrowserTypes
      <4> QED
        BY <1>1, <4>1 DEF CountsOk
    <3> QED
      BY <3>1, <3>2
  <2> QED
    BY <2>2, <2>4 DEF CountsOk
<1> QED
  BY <1>2, <1>3 DEF g_NPN_CreateObject

LEMMA RetainObjectStep ==
    ASSUME BrowserTypes, CountsOk, NEW o \in NPObjects, g_NPN_RetainObject(o)
    PROVE  BrowserTypes' /\ CountsOk'
<1> DEFINE n == Retained(npobj, o)
<1>1. /\ npobj' = n /\ refs' = [refs EXCEPT ![o] = @ + 1] /\ variant' = variant
      /\ npobj[o].memory = "live"
  BY DEF g_NPN_RetainObject, Exists
<1>2. npobj \in [NPObjects -> NPObject] /\ refs[o] \in Nat /\ npobj[o].referenceCount \in Nat
  BY DEF BrowserTypes, NPObject
<1>3. /\ n \in [NPObjects -> NPObject] /\ n[o].referenceCount = npobj[o].referenceCount + 1
      /\ n[o].memory = npobj[o].memory /\ \A q \in NPObjects : q # o => n[q] = npobj[q]
  BY <1>2, RetainedCounts
<1> HIDE DEF n
<1>a. refs \in [NPObjects -> Nat] /\ refs[o] + 1 \in Nat
  BY <1>2 DEF BrowserTypes
<1>4. /\ BrowserTypes' /\ refs'[o] = refs[o] + 1 /\ \A q \in NPObjects : q # o => refs'[q] = refs[q]
  BY <1>1, <1>a, <1>3 DEF BrowserTypes
<1>5. ASSUME NEW q \in NPObjects PROVE CountOk(npobj'[q], refs'[q], variant', q)
  <2>0. CountOk(npobj[q], refs[q], variant, q)
    BY DEF CountsOk
  <2>1. CASE q = o
    BY <1>1, <1>2, <1>3, <1>4, <2>0, <2>1, HoldingFinite DEF CountOk
  <2>2. CASE q # o
    BY <1>1, <1>3, <1>4, <2>0, <2>2
  <2> QED
    BY <2>1, <2>2
<1> QED
  BY <1>4, <1>5 DEF CountsOk

LEMMA ReleaseObjectStep ==
    ASSUME BrowserTypes, CountsOk, NEW o \in NPObjects, g_NPN_ReleaseObject(o)
    PROVE  BrowserTypes' /\ CountsOk'
<1> DEFINE n == Released(npobj, o)
<1>1. npobj' = n /\ refs' = [refs EXCEPT ![o] = @ - 1] /\ variant' = variant /\ refs[o] > 0
  BY DEF g_NPN_ReleaseObject
<1>2. npobj \in [NPObjects -> NPObject] /\ refs[o] \in Nat /\ npobj[o].referenceCount \in Nat
  BY DEF BrowserTypes, NPObject
<1>3. npobj[o].referenceCount > 0 /\ npobj[o].memory = "live"
  <2>1. CountOk(npobj[o], refs[o], variant, o)
    BY DEF CountsOk
  <2> QED
    BY <1>1, <1>2, <2>1, HoldingFinite DEF CountOk
<1>4. /\ n \in [NPObjects -> NPObject] /\ n[o].referenceCount = npobj[o].referenceCount - 1
      /\ n[o].memory = "live" <=> n[o].referenceCount > 0
      /\ \A q \in NPObjects : q # o => n[q] = npobj[q]
  BY <1>2, <1>3, ReleasedCounts
<1> HIDE DEF n
<1>5. refs[o] - 1 \in Nat
  BY <1>1, <1>2
<1>6. /\ BrowserTypes' /\ refs'[o] = refs[o] - 1 /\ \A q \in NPObjects : q # o => refs'[q] = refs[q]
  BY <1>1, <1>4, <1>5 DEF BrowserTypes
<1>7. ASSUME NEW q \in NPObjects PROVE CountOk(npobj'[q], refs'[q], variant', q)
  <2>0. CountOk(npobj[q], refs[q], variant, q)
    BY DEF CountsOk
  <2>1. CASE q = o
    BY <1>1, <1>2, <1>4, <1>6, <2>0, <2>1, HoldingFinite DEF CountOk
  <2>2. CASE q # o
    BY <1>1, <1>4, <1>6, <2>0, <2>2
  <2> QED
    BY <2>1, <2>2
<1> QED
  BY <1>6, <1>7 DEF CountsOk

\* A result that is an object has a reference for the variant.
LEMMA CallObjectStep ==
    ASSUME BrowserTypes, CountsOk, NEW f, NEW o \in NPObjects, NEW v \in Variants, g_NPN_CallObject(f, o, v)
    PROVE  BrowserTypes' /\ CountsOk'
<1>1. refs' = refs /\ variant[v] = NULL /\ npobj \in [NPObjects -> NPObject]
      /\ variant \in [Variants -> NPObjects \cup {NULL, AString}]
  BY DEF g_NPN_CallObject, BrowserTypes
<1>2. CASE npobj' = npobj /\ variant' = variant
  BY <1>1, <1>2 DEF BrowserTypes, CountsOk
<1>3. CASE variant' = [variant EXCEPT ![v] = AString] /\ npobj' = npobj
  <2>1. BrowserTypes'
    BY <1>1, <1>3 DEF BrowserTypes
  <2>2. ASSUME NEW q \in NPObjects PROVE CountOk(npobj'[q], refs'[q], variant', q)
    <3>1. Holding(variant', q) = Holding(variant, q)
      BY <1>1, <1>3, PlayerBrowserAssumption DEF Holding
    <3>2. CountOk(npobj[q], refs[q], variant, q)
      BY DEF CountsOk
    <3> QED
      BY <1>1, <1>3, <3>1, <3>2 DEF CountOk
  <2> QED
    BY <2>1, <2>2 DEF CountsOk
<1>4. ASSUME NEW r \in NPObjects, Exists(r), variant' = [variant EXCEPT ![v] = r], npobj' = Retained(npobj, r)
      PROVE  BrowserTypes' /\ CountsOk'
  <2> DEFINE n == Retained(npobj, r)
             vs == [variant EXCEPT ![v] = r]
  <2>1. /\ n \in [NPObjects -> NPObject] /\ n[r].referenceCount = npobj[r].referenceCount + 1
        /\ n[r].memory = npobj[r].memory /\ \A q \in NPObjects : q # r => n[q] = npobj[q]
    BY <1>1, RetainedCounts
  <2>2. /\ Cardinality(Holding(vs, r)) = Cardinality(Holding(variant, r)) + 1
        /\ \A q \in NPObjects : q # r => Holding(vs, q) = Holding(variant, q)
    BY <1>1, PlayerBrowserAssumption, HoldingMore
  <2>3. npobj' = n /\ variant' = vs /\ vs \in [Variants -> NPObjects \cup {NULL, AString}]
    BY <1>1, <1>4
  <2>4. npobj[r].memory = "live" /\ npobj[r].referenceCount \in Nat /\ refs[r] \in Nat
    BY <1>4 DEF Exists, BrowserTypes, NPObject
  <2> HIDE DEF n, vs
  <2>5. BrowserTypes'
    BY <1>1, <2>1, <2>3 DEF BrowserTypes
  <2>6. ASSUME NEW q \in NPObjects PROVE CountOk(npobj'[q], refs'[q], variant', q)
    <3>0. CountOk(npobj[q], refs[q], variant, q)
      BY DEF CountsOk
    <3>1. CASE q = r
      BY <1>1, <2>1, <2>2, <2>3, <2>4, <3>0, <3>1, HoldingFinite DEF CountOk
    <3>2. CASE q # r
      BY <1>1, <2>1, <2>2, <2>3, <3>0, <3>2 DEF CountOk
    <3> QED
      BY <3>1, <3>2
  <2> QED
    BY <2>5, <2>6 DEF CountsOk
<1>5. \/ npobj' = npobj /\ variant' = variant
      \/ variant' = [variant EXCEPT ![v] = AString] /\ npobj' = npobj
      \/ \E r \in NPObjects : Exists(r) /\ variant' = [variant EXCEPT ![v] = r] /\ npobj' = Retained(npobj, r)
  BY Zenon DEF g_NPN_CallObject
<1> QED
  BY <1>2, <1>3, <1>4, <1>5

LEMMA ReleaseVariantStep ==
    ASSUME BrowserTypes, CountsOk, NEW v \in Variants, ReleasesVariant(v)
    PROVE  BrowserTypes' /\ CountsOk'
<1> DEFINE r == variant[v]
           vs == [variant EXCEPT ![v] = NULL]
<1>1. /\ refs' = refs /\ variant' = vs
      /\ npobj' = IF r \in NPObjects THEN Released(npobj, r) ELSE npobj
  BY DEF ReleasesVariant, g_NPN_ReleaseVariantValue, IsObject
<1>2. npobj \in [NPObjects -> NPObject] /\ variant \in [Variants -> NPObjects \cup {NULL, AString}]
      /\ vs \in [Variants -> NPObjects \cup {NULL, AString}]
  BY DEF BrowserTypes
<1>3. /\ \A o \in NPObjects : r = o => Cardinality(Holding(vs, o)) = Cardinality(Holding(variant, o)) - 1
      /\ \A q \in NPObjects : q # r => Holding(vs, q) = Holding(variant, q)
  BY <1>2, HoldingLess
<1>4. ASSUME r \in NPObjects
      PROVE  /\ npobj[r].referenceCount > 0 /\ npobj[r].memory = "live"
             /\ refs[r] \in Nat /\ npobj[r].referenceCount \in Nat
  <2>1. /\ CountOk(npobj[r], refs[r], variant, r) /\ refs[r] \in Nat /\ npobj[r].referenceCount \in Nat
    BY <1>4 DEF CountsOk, BrowserTypes, NPObject
  <2>2. IsFiniteSet(Holding(variant, r)) /\ v \in Holding(variant, r)
    BY HoldingFinite DEF Holding
  <2>3. Cardinality(Holding(variant, r)) # 0 /\ Cardinality(Holding(variant, r)) \in Nat
    BY <2>2, FS_EmptySet, FS_CardinalityType
  <2> QED
    BY <2>1, <2>3 DEF CountOk
<1> HIDE DEF vs
<1>5. CASE r \in NPObjects
  <2> DEFINE n == Released(npobj, r)
  <2>1. /\ n \in [NPObjects -> NPObject] /\ n[r].referenceCount = npobj[r].referenceCount - 1
        /\ n[r].memory = "live" <=> n[r].referenceCount > 0
        /\ \A q \in NPObjects : q # r => n[q] = npobj[q]
    BY <1>2, <1>4, <1>5, ReleasedCounts
  <2>2. npobj' = n
    BY <1>1, <1>5
  <2> HIDE DEF n, r
  <2>3. ASSUME NEW q \in NPObjects PROVE CountOk(npobj'[q], refs'[q], variant', q)
    <3>0. CountOk(npobj[q], refs[q], variant, q)
      BY DEF CountsOk
    <3>1. CASE q = r
      BY <1>1, <1>3, <1>4, <2>1, <2>2, <3>0, <3>1, HoldingFinite DEF CountOk
    <3>2. CASE q # r
      BY <1>1, <1>3, <2>1, <2>2, <3>0, <3>2 DEF CountOk
    <3> QED
      BY <3>1, <3>2
  <2> QED
    BY <1>1, <1>2, <2>1, <2>2, <2>3 DEF CountsOk, BrowserTypes
<1>6. CASE r \notin NPObjects
  <2>1. ASSUME NEW q \in NPObjects PROVE CountOk(npobj'[q], refs'[q], variant', q)
    <3>1. CountOk(npobj[q], refs[q], variant, q) /\ Holding(vs, q) = Holding(variant, q)
      BY <1>3, <1>6 DEF CountsOk
    <3> QED
      BY <1>1, <1>6, <3>1 DEF CountOk
  <2> QED
    BY <1>1, <1>2, <1>6, <2>1 DEF CountsOk, BrowserTypes
<1> QED
  BY <1>5, <1>6

-----------------------------------------------------------------------------
(* Identifiers: a string's quark never changes, and there is room for all.   *)

\* The strings that are interned, each once
QuarksOk(qs) ==
    /\ qs \in Seq(Strings)
    /\ \A i, j \in 1..Len(qs) : qs[i] = qs[j] => i = j

\* What is interned keeps its quark
Extends(new, qs) == Len(qs) <= Len(new) /\ \A i \in 1..Len(qs) : new[i] = qs[i]

Knows(qs, s) == \E i \in 1..Len(qs) : qs[i] = s

LEMMA InternedProps ==
    ASSUME NEW qs, QuarksOk(qs), NEW s \in Strings
    PROVE  QuarksOk(Interned(qs, s)) /\ Extends(Interned(qs, s), qs) /\ Knows(Interned(qs, s), s)
<1>1. qs \in Seq(Strings) /\ Len(qs) \in Nat
  BY DEF QuarksOk
<1>2. CASE Knows(qs, s)
  <2>1. Interned(qs, s) = qs
    BY <1>2 DEF Interned, Knows
  <2> QED
    BY <1>1, <1>2, <2>1 DEF Extends
<1>3. CASE ~Knows(qs, s)
  <2> DEFINE new == Append(qs, s)
  <2>1. Interned(qs, s) = new
    BY <1>3 DEF Interned, Knows
  <2>2. /\ new \in Seq(Strings) /\ Len(new) = Len(qs) + 1 /\ new[Len(qs) + 1] = s
        /\ \A i \in 1..Len(qs) : new[i] = qs[i]
    BY <1>1
  <2> HIDE DEF new
  <2>3. \A i, j \in 1..Len(new) : new[i] = new[j] => i = j
    BY <1>1, <1>3, <2>2 DEF QuarksOk, Knows
  <2> QED
    BY <1>1, <2>1, <2>2, <2>3 DEF QuarksOk, Extends, Knows
<1> QED
  BY <1>2, <1>3

LEMMA KnowsMore ==
    ASSUME NEW qs, NEW new, Len(qs) \in Nat, Len(new) \in Nat, Extends(new, qs), NEW s, Knows(qs, s)
    PROVE  Knows(new, s)
  BY DEF Extends, Knows

LEMMA ExtendsMore ==
    ASSUME NEW a, NEW b, NEW c, Len(a) \in Nat, Len(b) \in Nat, Len(c) \in Nat, Extends(b, a), Extends(c, b)
    PROVE  Extends(c, a)
  BY DEF Extends

\* f is what InternedAll goes through, up to name n.
Internings(f, qs, names, n) ==
    f = [i \in 0..n |-> IF i = 0 THEN qs ELSE Interned(f[i - 1], names[i])]

LEMMA InterningsExist ==
    ASSUME NEW qs, NEW names, NEW n \in Nat
    PROVE  \E f : Internings(f, qs, names, n)
<1> DEFINE T == {m \in Nat : \E f : Internings(f, qs, names, m)}
<1>1. 0 \in T
  <2>1. Internings([i \in 0..0 |-> qs], qs, names, 0)
    BY DEF Internings
  <2> QED
    BY <2>1
<1>2. ASSUME NEW k \in T PROVE k + 1 \in T
  <2>1. PICK f : Internings(f, qs, names, k)
    OBVIOUS
  <2> DEFINE m == k + 1
             h == [i \in 0..m |-> IF i = m THEN Interned(f[k], names[m]) ELSE f[i]]
  <2>2. m \in Nat /\ m # 0 /\ k \in Nat /\ m - 1 = k
    OBVIOUS
  <2>3. ASSUME NEW i \in 0..m
        PROVE  h[i] = IF i = 0 THEN qs ELSE Interned(h[i - 1], names[i])
    <3>1. CASE i = m
      BY <2>2, <3>1
    <3>2. CASE i # m
      <4>1. i \in 0..k
        BY <2>2, <3>2
      <4>2. f[i] = IF i = 0 THEN qs ELSE Interned(f[i - 1], names[i])
        BY <2>1, <4>1 DEF Internings
      <4>3. h[i] = f[i] /\ (i # 0 => h[i - 1] = f[i - 1])
        BY <2>2, <3>2, <4>1
      <4> HIDE DEF h
      <4> QED
        BY <4>2, <4>3
    <3> QED
      BY <3>1, <3>2
  <2>4. DOMAIN h = 0..m
    OBVIOUS
  <2>5. h = [i \in 0..m |-> h[i]]
    OBVIOUS
  <2> HIDE DEF h
  <2>6. Internings(h, qs, names, m)
    BY <2>3, <2>5 DEF Internings
  <2> QED
    BY <2>2, <2>6
<1>3. T \subseteq Nat
  OBVIOUS
<1> HIDE DEF T
<1>4. T = Nat
  BY <1>1, <1>2, <1>3, SetOfAllNumbers
<1> QED
  BY <1>4 DEF T

LEMMA InternedAllProps ==
    ASSUME NEW qs, QuarksOk(qs), NEW names \in Seq(Strings)
    PROVE  /\ QuarksOk(InternedAll(qs, names)) /\ Extends(InternedAll(qs, names), qs)
           /\ \A i \in 1..Len(names) : Knows(InternedAll(qs, names), names[i])
<1> DEFINE n == Len(names)
           f == CHOOSE g : Internings(g, qs, names, n)
           Ok(k) == QuarksOk(f[k]) /\ Extends(f[k], qs) /\ \A i \in 1..k : Knows(f[k], names[i])
           T == {k \in Nat : k <= n => Ok(k)}
<1>1. n \in Nat
  OBVIOUS
<1>2. Internings(f, qs, names, n)
  <2>1. \E g : Internings(g, qs, names, n)
    BY <1>1, InterningsExist
  <2> QED
    BY <2>1, Zenon
<1>3. InternedAll(qs, names) = f[n]
  BY Zenon DEF InternedAll, Internings
<1> HIDE DEF f, n
<1>4. f[0] = qs /\ \A i \in 1..n : f[i] = Interned(f[i - 1], names[i])
  BY <1>1, <1>2 DEF Internings
<1>5. 0 \in T
  <2>1. Len(qs) \in Nat
    BY DEF QuarksOk
  <2> QED
    BY <1>4, <2>1 DEF Extends
<1>6. ASSUME NEW k \in T PROVE k + 1 \in T
  <2> SUFFICES ASSUME k + 1 <= n PROVE Ok(k + 1)
    OBVIOUS
  <2> DEFINE m == k + 1
  <2>1. m \in 1..n /\ m - 1 = k /\ k \in Nat /\ Ok(k) /\ names[m] \in Strings
    BY <1>1 DEF n
  <2>2. f[m] = Interned(f[k], names[m])
    BY <1>4, <2>1
  <2> HIDE DEF m
  <2>3. QuarksOk(f[m]) /\ Extends(f[m], f[k]) /\ Knows(f[m], names[m])
    BY <2>1, <2>2, InternedProps
  <2>4. Len(qs) \in Nat /\ Len(f[k]) \in Nat /\ Len(f[m]) \in Nat
    BY <2>1, <2>3 DEF QuarksOk
  <2>5. Extends(f[m], qs)
    BY <2>1, <2>3, <2>4, ExtendsMore
  <2>6. ASSUME NEW i \in 1..m PROVE Knows(f[m], names[i])
    <3>1. CASE i = m
      BY <2>3, <3>1
    <3>2. CASE i # m
      <4>1. Knows(f[k], names[i])
        BY <2>1, <3>2
      <4> QED
        BY <2>3, <2>4, <4>1, KnowsMore
    <3> QED
      BY <3>1, <3>2
  <2> QED
    BY <2>3, <2>5, <2>6 DEF m
<1>7. T \subseteq Nat
  OBVIOUS
<1> HIDE DEF T
<1>8. T = Nat
  BY <1>5, <1>6, <1>7, SetOfAllNumbers
<1>9. Ok(n)
  BY <1>1, <1>8 DEF T
<1> QED
  BY <1>3, <1>9 DEF n

-----------------------------------------------------------------------------
(* The words of identifiers.                                                 *)

LEMMA Mods ==
    ASSUME NEW m \in Nat \ {0}, NEW n \in Int
    PROVE  /\ n >= 0 /\ n < m => n % m = n
           /\ n < 0 /\ n >= -m => n % m = n + m
           /\ n >= m /\ n < 2 * m => n % m = n - m
  BY SMT

\* An identifier for s, an integer or one of the strings qs
IdOk(s, id, qs) ==
    \/ s \in Strings /\ \E q \in 1..Len(qs) : qs[q] = s /\ id = q * 4 + 2
    \/ s \in Integers31 /\ id = 2 * s + 1 + (IF s < 0 THEN WordSize ELSE 0)

\* Distinct strings are no more than there are.
LEMMA QuarksFit ==
    ASSUME NEW qs, QuarksOk(qs)
    PROVE  Len(qs) \in Nat /\ Len(qs) <= Cardinality(Strings) /\ Cardinality(Strings) \in Nat
<1>0. IsFiniteSet(Strings) /\ Cardinality(Strings) \in Nat
  BY PlayerBrowserAssumption, FS_CardinalityType
<1>1. qs \in Seq(Strings) /\ Len(qs) \in Nat /\ \A i, j \in 1..Len(qs) : qs[i] = qs[j] => i = j
  BY DEF QuarksOk
<1> DEFINE n == Len(qs)
           N == 1..n
<1>2. Cardinality(N) = n
  <2>1. n \in Int /\ 1 \in Int
    BY <1>1
  <2>2. Cardinality(N) = IF 1 > n THEN 0 ELSE n - 1 + 1
    BY <2>1, FS_Interval, Zenon
  <2> QED
    BY <1>1, <2>2
<1>3. qs \in Injection(N, Strings)
  BY <1>1 DEF Injection, IsInjective
<1> HIDE DEF N
<1>4. Cardinality(N) <= Cardinality(Strings)
  BY <1>0, <1>3, FS_Injection
<1> QED
  BY <1>0, <1>1, <1>2, <1>4

LEMMA PackedString ==
    ASSUME NEW qs, QuarksOk(qs), NEW s \in Strings, Knows(qs, s)
    PROVE  IdOk(s, pack_string_identifier(qs, s), qs)
<1> DEFINE q == Quark(qs, s)
<1>1. q \in 1..Len(qs) /\ qs[q] = s
  BY DEF Quark, Knows
<1> HIDE DEF q
<1>2. q \in Nat /\ q <= Cardinality(Strings) /\ Cardinality(Strings) \in Nat
  BY <1>1, QuarksFit
<1>3. WordSize \in Nat /\ Cardinality(Strings) * 4 + 2 < WordSize
  BY PlayerBrowserAssumption
<1>4. q * 4 + 2 \in Int /\ q * 4 + 2 >= 0 /\ q * 4 + 2 < WordSize /\ WordSize \in Nat \ {0}
  BY <1>2, <1>3
<1>5. Word(q * 4 + 2) = q * 4 + 2
  BY <1>4, Mods DEF Word
<1> QED
  BY <1>1, <1>5 DEF pack_string_identifier, IdOk, q

LEMMA PackedInt ==
    ASSUME NEW n \in Integers31, NEW qs
    PROVE  IdOk(n, pack_int_identifier(n), qs)
<1>1. /\ n \in Int /\ WordSize \in Nat \ {0} /\ WordSize % 4 = 0
      /\ -WordSize <= 4 * n /\ 4 * n < WordSize
  <2>1. n \in Int /\ WordSize \in Nat /\ WordSize % 4 = 0 /\ -WordSize <= 4 * n /\ 4 * n < WordSize
    BY PlayerBrowserAssumption
  <2> QED
    BY <2>1
<1>2. CASE n < 0
  <2>0. n >= -WordSize
    BY <1>1, <1>2
  <2>1. Word(n) = n + WordSize
    BY <1>1, <1>2, <2>0, Mods DEF Word
  <2>2. PICK m \in Int : m = (n + WordSize) * 2 + 1
    BY <1>1
  <2>3. m >= WordSize /\ m < 2 * WordSize
    BY <1>1, <1>2, <2>2
  <2>4. Word(m) = m - WordSize
    BY <1>1, <2>3, Mods DEF Word
  <2>5. pack_int_identifier(n) = m - WordSize
    BY <2>1, <2>2, <2>4 DEF pack_int_identifier
  <2>6. m - WordSize = 2 * n + 1 + WordSize
    BY <1>1, <2>2
  <2> QED
    BY <1>2, <2>5, <2>6 DEF IdOk
<1>3. CASE n >= 0
  <2>1. Word(n) = n
    BY <1>1, <1>3, Mods DEF Word
  <2>2. n * 2 + 1 \in Int /\ n * 2 + 1 >= 0 /\ n * 2 + 1 < WordSize
    BY <1>1, <1>3
  <2>3. Word(n * 2 + 1) = n * 2 + 1
    BY <1>1, <2>2, Mods DEF Word
  <2>4. pack_int_identifier(n) = n * 2 + 1
    BY <2>1, <2>3 DEF pack_int_identifier
  <2>5. n * 2 + 1 = 2 * n + 1 + 0 /\ ~(n < 0)
    BY <1>1, <1>3
  <2> QED
    BY <2>4, <2>5 DEF IdOk
<1> QED
  BY <1>1, <1>2, <1>3

\* What an identifier tells
LEMMA Unpacked ==
    ASSUME QuarksOk(quarks), NEW s, NEW id, IdOk(s, id, quarks)
    PROVE  /\ g_NPN_IdentifierIsString(id) <=> s \in Strings
           /\ s = IF s \in Strings THEN g_NPN_UTF8FromIdentifier(id) ELSE g_NPN_IntFromIdentifier(id)
<1>1. ASSUME s \in Strings, NEW q \in 1..Len(quarks), quarks[q] = s, id = q * 4 + 2
      PROVE  g_NPN_IdentifierIsString(id) = TRUE /\ g_NPN_UTF8FromIdentifier(id) = s
  <2>1. q \in Nat
    BY <1>1, QuarksFit
  <2>2. id % 4 = 2 /\ id \div 4 = q
    BY <1>1, <2>1
  <2> QED
    BY <1>1, <2>2 DEF g_NPN_IdentifierIsString, g_NPN_UTF8FromIdentifier, unpack_string_identifier,
                      is_string_identifier
<1>2. ASSUME s \in Integers31, id = 2 * s + 1 + (IF s < 0 THEN WordSize ELSE 0)
      PROVE  /\ s \notin Strings
             /\ g_NPN_IdentifierIsString(id) = FALSE /\ g_NPN_IntFromIdentifier(id) = s
  <2>1. /\ s \in Int /\ WordSize \in Nat \ {0} /\ WordSize % 4 = 0
        /\ -WordSize <= 4 * s /\ 4 * s < WordSize
    <3>1. /\ s \in Int /\ WordSize \in Nat /\ WordSize % 4 = 0 /\ -WordSize <= 4 * s /\ 4 * s < WordSize
      BY <1>2, PlayerBrowserAssumption
    <3> QED
      BY <3>1
  <2>2. PICK k \in Nat : WordSize = 4 * k
    BY <2>1
  <2>3. id \in Int /\ id % 2 = 1 /\ id % 4 # 2
    BY <1>2, <2>1, <2>2
  <2>4. Signed(id) = 2 * s + 1
    <3>1. WordSize \div 2 = 2 * k
      BY <2>2
    <3> QED
      BY <1>2, <2>1, <2>2, <3>1 DEF Signed
  <2>5. (2 * s + 1) \div 2 = s
    BY <2>1
  <2>6. s \notin Strings
    BY <1>2, PlayerBrowserAssumption
  <2> QED
    BY <2>3, <2>4, <2>5, <2>6 DEF g_NPN_IdentifierIsString, g_NPN_IntFromIdentifier, is_string_identifier,
                       unpack_int_identifier, is_int_identifier
<1>3. CASE s \in Strings /\ \E q \in 1..Len(quarks) : quarks[q] = s /\ id = q * 4 + 2
  BY <1>1, <1>3, Zenon
<1>4. CASE s \in Integers31 /\ id = 2 * s + 1 + (IF s < 0 THEN WordSize ELSE 0)
  <2>1. /\ s \notin Strings
        /\ g_NPN_IdentifierIsString(id) = FALSE /\ g_NPN_IntFromIdentifier(id) = s
    BY <1>2, <1>4, Zenon
  <2> QED
    BY <2>1, Zenon
<1> QED
  BY <1>3, <1>4 DEF IdOk

IdsOk == QuarksOk(quarks) /\ \A i \in ids : IdOk(i.for, i.id, quarks)

BrowserInvariant == BrowserTypes /\ CountsOk /\ IdsOk

LEMMA IdStays ==
    ASSUME NEW qs, NEW new, Len(qs) \in Nat, Len(new) \in Nat, Extends(new, qs),
           NEW s, NEW id, IdOk(s, id, qs)
    PROVE  IdOk(s, id, new)
  BY DEF IdOk, Extends

LEMMA StringIdentifiersStep ==
    ASSUME IdsOk, NEW names \in Seq(Strings), g_NPN_GetStringIdentifiers(names)
    PROVE  IdsOk'
<1> DEFINE qs == InternedAll(quarks, names)
<1>1. /\ quarks' = qs
      /\ \A i \in ids' : i \in ids \/ \E n \in 1..Len(names) :
             i = [for |-> names[n], id |-> pack_string_identifier(qs, names[n])]
  BY DEF g_NPN_GetStringIdentifiers
<1>2. /\ QuarksOk(qs) /\ Extends(qs, quarks) /\ \A n \in 1..Len(names) : Knows(qs, names[n])
  BY InternedAllProps DEF IdsOk
<1> HIDE DEF qs
<1>3. Len(quarks) \in Nat /\ Len(qs) \in Nat
  BY <1>2 DEF IdsOk, QuarksOk
<1>4. ASSUME NEW i \in ids' PROVE IdOk(i.for, i.id, qs)
  <2>1. CASE i \in ids
    <3>1. IdOk(i.for, i.id, quarks)
      BY <2>1 DEF IdsOk
    <3> QED
      BY <1>2, <1>3, <3>1, IdStays
  <2>2. ASSUME NEW n \in 1..Len(names), i = [for |-> names[n], id |-> pack_string_identifier(qs, names[n])]
        PROVE  IdOk(i.for, i.id, qs)
    <3>1. names[n] \in Strings /\ Knows(qs, names[n])
      BY <1>2
    <3>2. IdOk(names[n], pack_string_identifier(qs, names[n]), qs)
      BY <1>2, <3>1, PackedString
    <3>3. i.for = names[n] /\ i.id = pack_string_identifier(qs, names[n])
      BY <2>2
    <3> QED
      BY <3>2, <3>3, Zenon
  <2> QED
    BY <1>1, <2>1, <2>2
<1> QED
  BY <1>1, <1>2, <1>4 DEF IdsOk

LEMMA IntIdentifierStep ==
    ASSUME IdsOk, NEW n \in Integers31, g_NPN_GetIntIdentifier(n)
    PROVE  IdsOk'
<1>1. quarks' = quarks /\ ids' = ids \cup {[for |-> n, id |-> pack_int_identifier(n)]}
  BY DEF g_NPN_GetIntIdentifier
<1>2. IdOk(n, pack_int_identifier(n), quarks)
  BY PackedInt
<1>3. ASSUME NEW i \in ids' PROVE IdOk(i.for, i.id, quarks)
  <2>1. CASE i \in ids
    BY <2>1 DEF IdsOk
  <2>2. CASE i = [for |-> n, id |-> pack_int_identifier(n)]
    <3>1. i.for = n /\ i.id = pack_int_identifier(n)
      BY <2>2
    <3> QED
      BY <1>2, <3>1, Zenon
  <2> QED
    BY <1>1, <2>1, <2>2
<1> QED
  BY <1>1, <1>3 DEF IdsOk

LEMMA BrowserStart ==
    ASSUME BrowserInit
    PROVE  BrowserInvariant
<1>1. BrowserTypes
  BY DEF BrowserInit, BrowserTypes, NPObject, NoObject
<1>2. ASSUME NEW o \in NPObjects PROVE CountOk(npobj[o], refs[o], variant, o)
  <2>1. Holding(variant, o) = {}
    BY PlayerBrowserAssumption DEF BrowserInit, Holding
  <2>2. Cardinality(Holding(variant, o)) = 0
    BY <2>1, FS_EmptySet
  <2>3. npobj[o] = NoObject /\ refs[o] = 0
    BY DEF BrowserInit
  <2> QED
    BY <2>2, <2>3 DEF CountOk, NoObject
<1>3. IdsOk
  <2>1. quarks = <<>> /\ ids = {}
    BY DEF BrowserInit
  <2> QED
    BY <2>1 DEF IdsOk, QuarksOk
<1> QED
  BY <1>1, <1>2, <1>3 DEF BrowserInvariant, CountsOk

LEMMA BrowserStep ==
    ASSUME BrowserInvariant, [BrowserNext]_browserVars
    PROVE  BrowserInvariant'
<1>0. BrowserTypes /\ CountsOk /\ IdsOk
  BY DEF BrowserInvariant
<1>1. ASSUME UNCHANGED <<quarks, ids>> PROVE IdsOk'
  BY <1>0, <1>1 DEF IdsOk
<1>2. ASSUME UNCHANGED <<npobj, refs, variant>> PROVE BrowserTypes' /\ CountsOk'
  BY <1>0, <1>2 DEF BrowserTypes, CountsOk
<1>3. ASSUME NEW o \in NPObjects, NEW c \in Classes, g_NPN_CreateObject(o, c) PROVE BrowserInvariant'
  <2>1. UNCHANGED <<quarks, ids>>
    BY <1>3 DEF g_NPN_CreateObject
  <2> QED
    BY <1>0, <1>1, <1>3, <2>1, CreateObjectStep DEF BrowserInvariant
<1>4. ASSUME NEW o \in NPObjects, g_NPN_RetainObject(o) PROVE BrowserInvariant'
  <2>1. UNCHANGED <<quarks, ids>>
    BY <1>4 DEF g_NPN_RetainObject
  <2> QED
    BY <1>0, <1>1, <1>4, <2>1, RetainObjectStep DEF BrowserInvariant
<1>5. ASSUME NEW o \in NPObjects, g_NPN_ReleaseObject(o) PROVE BrowserInvariant'
  <2>1. UNCHANGED <<quarks, ids>>
    BY <1>5 DEF g_NPN_ReleaseObject
  <2> QED
    BY <1>0, <1>1, <1>5, <2>1, ReleaseObjectStep DEF BrowserInvariant
<1>6. ASSUME NEW f, NEW o \in NPObjects, NEW v \in Variants, g_NPN_CallObject(f, o, v)
      PROVE  BrowserInvariant'
  <2>1. UNCHANGED <<quarks, ids>>
    BY <1>6 DEF g_NPN_CallObject
  <2> QED
    BY <1>0, <1>1, <1>6, <2>1, CallObjectStep DEF BrowserInvariant
<1>7. ASSUME NEW v \in Variants, ReleasesVariant(v) PROVE BrowserInvariant'
  <2>1. UNCHANGED <<quarks, ids>>
    BY <1>7 DEF ReleasesVariant
  <2> QED
    BY <1>0, <1>1, <1>7, <2>1, ReleaseVariantStep DEF BrowserInvariant
<1>8. ASSUME NEW n \in 1..Cardinality(Strings), NEW names \in [1..n -> Strings],
             g_NPN_GetStringIdentifiers(names)
      PROVE  BrowserInvariant'
  <2>1. names \in Seq(Strings)
    <3>1. n \in Nat
      BY PlayerBrowserAssumption, FS_CardinalityType
    <3> QED
      BY <3>1
  <2>2. UNCHANGED <<npobj, refs, variant>>
    BY <1>8 DEF g_NPN_GetStringIdentifiers
  <2> QED
    BY <1>0, <1>2, <1>8, <2>1, <2>2, StringIdentifiersStep DEF BrowserInvariant
<1>9. ASSUME NEW n \in Integers31, g_NPN_GetIntIdentifier(n) PROVE BrowserInvariant'
  <2>1. UNCHANGED <<npobj, refs, variant>>
    BY <1>9 DEF g_NPN_GetIntIdentifier
  <2> QED
    BY <1>0, <1>2, <1>9, <2>1, IntIdentifierStep DEF BrowserInvariant
<1>10. CASE \/ \E v \in Variants, empty \in BOOLEAN : g_NPN_Evaluate(v, empty)
            \/ \E i \in ids : Unpacks(i)
            \/ Answers
            \/ UNCHANGED browserVars
  <2>1. UNCHANGED <<npobj, refs, variant, quarks, ids>>
    BY <1>10 DEF g_NPN_Evaluate, Unpacks, Answers, browserVars
  <2> QED
    BY <1>0, <1>1, <1>2, <2>1 DEF BrowserInvariant
<1> QED
  BY <1>3, <1>4, <1>5, <1>6, <1>7, <1>8, <1>9, <1>10 DEF BrowserNext

LEMMA BrowserTracks ==
    ASSUME BrowserInvariant
    PROVE  PlayerKeepsTrack
<1>1. ASSUME NEW o \in NPObjects
      PROVE  /\ npobj[o].referenceCount = refs[o] + Cardinality({v \in Variants : variant[v] = o})
             /\ npobj[o].memory = "live" <=> npobj[o].referenceCount > 0
  BY DEF BrowserInvariant, CountsOk, CountOk, Holding
<1>2. ASSUME NEW i \in ids
      PROVE  /\ g_NPN_IdentifierIsString(i.id) <=> i.for \in Strings
             /\ i.for = IF i.for \in Strings THEN g_NPN_UTF8FromIdentifier(i.id)
                        ELSE g_NPN_IntFromIdentifier(i.id)
  <2>1. QuarksOk(quarks) /\ IdOk(i.for, i.id, quarks)
    BY DEF BrowserInvariant, IdsOk
  <2> QED
    BY <2>1, Unpacked
<1> QED
  BY <1>1, <1>2 DEF PlayerKeepsTrack

\* Whatever the plugin creates, retains, releases and is handed in variants,
\* the player frees no object that the plugin still holds, and keeps none that
\* it does not (g_NPN_ReleaseVariantValue, g_NPN_ReleaseObject); and every
\* identifier tells what it was made for, for words of any size in which the
\* quarks fit (pack_string_identifier, pack_int_identifier).
THEOREM PlayerAlwaysKeepsTrack ==
    BrowserInit /\ [][BrowserNext]_browserVars => []PlayerKeepsTrack
<1>1. BrowserInit => BrowserInvariant
  BY BrowserStart
<1>2. BrowserInvariant /\ [BrowserNext]_browserVars => BrowserInvariant'
  BY BrowserStep
<1>3. BrowserInvariant => PlayerKeepsTrack
  BY BrowserTracks
<1> QED
  BY <1>1, <1>2, <1>3, PTL

-----------------------------------------------------------------------------
(***************************************************************************)
(* XtBin.  The display is hooked in while there is a bin, and whatever     *)
(* widget does not listen yet is below one that an event will announce.    *)
(***************************************************************************)

Nodes == Bins \cup Children
Trees == [Children -> Nodes \cup {NoParent}]

LEMMA AboveProps ==
    ASSUME NEW t \in Trees, NEW w \in Nodes
    PROVE  /\ w \in Above(t, w) /\ Above(t, w) \subseteq Nodes
           /\ \A c \in Above(t, w) \cap Children : t[c] # NoParent => t[c] \in Above(t, w)
<1>1. w \in Above(t, w) /\ Above(t, w) \subseteq Nodes
  BY DEF Above, Nodes
<1>2. ASSUME NEW c \in Above(t, w) \cap Children, t[c] # NoParent PROVE t[c] \in Above(t, w)
  <2>1. t[c] \in Nodes
    BY <1>2 DEF Trees
  <2>2. ASSUME NEW S \in SUBSET Nodes, w \in S, \A k \in S \cap Children : t[k] \in S \cup {NoParent}
        PROVE  t[c] \in S
    <3>1. c \in S
      BY <2>2 DEF Above, Nodes
    <3> QED
      BY <1>2, <2>2, <3>1
  <2> QED
    BY <2>1, <2>2 DEF Above, Nodes
<1> QED
  BY <1>1, <1>2

LEMMA AboveLeast ==
    ASSUME NEW t \in Trees, NEW w \in Nodes, NEW S \in SUBSET Nodes, w \in S,
           \A c \in S \cap Children : t[c] # NoParent => t[c] \in S
    PROVE  Above(t, w) \subseteq S
<1>1. \A c \in S \cap Children : t[c] \in S \cup {NoParent}
  OBVIOUS
<1> QED
  BY <1>1 DEF Above, Nodes

LEMMA AboveAbove ==
    ASSUME NEW t \in Trees, NEW w \in Nodes, NEW a \in Above(t, w)
    PROVE  Above(t, a) \subseteq Above(t, w)
<1>1. a \in Nodes /\ Above(t, w) \in SUBSET Nodes
  BY AboveProps
<1>2. \A c \in Above(t, w) \cap Children : t[c] # NoParent => t[c] \in Above(t, w)
  BY AboveProps
<1> QED
  BY <1>1, <1>2, AboveLeast

\* Only the parents of what is above w count.
LEMMA AboveSame ==
    ASSUME NEW t \in Trees, NEW u \in Trees, NEW w \in Nodes,
           \A c \in Above(t, w) \cap Children : u[c] = t[c]
    PROVE  Above(u, w) = Above(t, w)
<1>1. /\ w \in Above(t, w) /\ Above(t, w) \in SUBSET Nodes
      /\ \A c \in Above(t, w) \cap Children : t[c] # NoParent => t[c] \in Above(t, w)
  BY AboveProps
<1>2. \A c \in Above(t, w) \cap Children : u[c] # NoParent => u[c] \in Above(t, w)
  BY <1>1
<1>3. Above(u, w) \subseteq Above(t, w)
  BY <1>1, <1>2, AboveLeast
<1>4. /\ w \in Above(u, w) /\ Above(u, w) \in SUBSET Nodes
      /\ \A c \in Above(u, w) \cap Children : u[c] # NoParent => u[c] \in Above(u, w)
  BY AboveProps
<1>5. \A c \in Above(u, w) \cap Children : t[c] # NoParent => t[c] \in Above(u, w)
  BY <1>3, <1>4
<1>6. Above(t, w) \subseteq Above(u, w)
  BY <1>4, <1>5, AboveLeast
<1> QED
  BY <1>3, <1>6

\* x gets the parent p.
LEMMA AboveMoved ==
    ASSUME NEW t \in Trees, NEW x \in Children, NEW p \in Nodes, NEW w \in Nodes
    PROVE  /\ [t EXCEPT ![x] = p] \in Trees
           /\ x \notin Above(t, w) => Above([t EXCEPT ![x] = p], w) = Above(t, w)
           /\ x \in Above(t, w) => /\ x \in Above([t EXCEPT ![x] = p], w)
                                   /\ p \in Above([t EXCEPT ![x] = p], w)
                                   /\ Above([t EXCEPT ![x] = p], p) \subseteq Above([t EXCEPT ![x] = p], w)
<1> DEFINE u == [t EXCEPT ![x] = p]
<1>1. u \in Trees /\ u[x] = p /\ \A c \in Children : c # x => u[c] = t[c]
  BY DEF Trees
<1> HIDE DEF u
<1>2. ASSUME x \notin Above(t, w) PROVE Above(u, w) = Above(t, w)
  <2>1. \A c \in Above(t, w) \cap Children : u[c] = t[c]
    BY <1>1, <1>2
  <2> QED
    BY <1>1, <2>1, AboveSame
<1>3. ASSUME x \in Above(t, w) PROVE x \in Above(u, w)
  <2> SUFFICES ASSUME x \notin Above(u, w) PROVE FALSE
    OBVIOUS
  <2>1. \A c \in Above(u, w) \cap Children : t[c] = u[c]
    BY <1>1
  <2>2. Above(t, w) = Above(u, w)
    BY <1>1, <2>1, AboveSame
  <2> QED
    BY <1>3, <2>2
<1>4. ASSUME x \in Above(t, w) PROVE p \in Above(u, w)
  <2>1. x \in Above(u, w)
    BY <1>3, <1>4
  <2>2. p # NoParent
    BY XtBinAssumption DEF Nodes
  <2> QED
    BY <1>1, <2>1, <2>2, AboveProps
<1>5. ASSUME x \in Above(t, w) PROVE Above(u, p) \subseteq Above(u, w)
  <2>1. p \in Above(u, w)
    BY <1>4, <1>5
  <2> QED
    BY <1>1, <2>1, AboveAbove
<1> QED
  BY <1>1, <1>2, <1>3, <1>4, <1>5 DEF u

-----------------------------------------------------------------------------
(* The invariant.                                                            *)

XEvents == [type : {"CreateNotify", "ReparentNotify", "DestroyNotify", "ButtonRelease", "FocusIn",
                    "FocusOut", "XEMBED_FOCUS_IN", "XEMBED_FOCUS_OUT"},
            window : Nodes, child : Nodes]
News == {"CreateNotify", "ReparentNotify"}

LiveBins(bs) == {b \in Bins : bs[b].state = "live"}
WidgetIn(bs, t, w) == IF w \in Bins THEN bs[w].state = "live" ELSE t[w] # NoParent

XtTypes ==
    /\ bin \in [Bins -> [state : {"none", "live", "destroyed"}, xtwindow : BOOLEAN]]
    /\ \A b \in Bins : bin[b].state = "live" <=> bin[b].xtwindow
    /\ tree \in Trees
    /\ \A c \in Children : tree[c] # NoParent => WidgetIn(bin, tree, tree[c])
    /\ xevents \in Seq(XEvents) /\ left \in Nat /\ (left > 0 => xevents # <<>>)

HooksOk ==
    /\ IsFiniteSet(LiveBins(bin)) /\ xt.num_widgets = Cardinality(LiveBins(bin))
    /\ xt \in [is_initialized : BOOLEAN, num_widgets : Nat, hooks : SUBSET Hooks]
    /\ xt.hooks = IF LiveBins(bin) # {} THEN Hooks ELSE {}

\* There is an event in q that brings the listener to a and what is below it.
Announced(q, t, ls, a) ==
    /\ a \in Children /\ t[a] \in ls
    /\ \E i \in 1..Len(q) : q[i].type \in News /\ q[i].child = a /\ q[i].window = t[a]

Heard(q, bs, t, ls, br, w) ==
    WidgetIn(bs, t, w) /\ Above(t, w) \cap br = {} =>
        w \in ls \/ \E a \in Above(t, w) : Announced(q, t, ls, a)

ListensOk == \A w \in Nodes : Heard(xevents, bin, tree, listeners, bereft, w)

XtInvariant == XtTypes /\ HooksOk /\ ListensOk

LEMMA WidgetIs ==
    ASSUME NEW w
    PROVE  IsWidget(w) <=> WidgetIn(bin, tree, w)
  BY DEF IsWidget, WidgetIn

\* All that is above a widget are widgets.
LEMMA AboveWidgets ==
    ASSUME NEW bs, NEW t \in Trees, \A c \in Children : t[c] # NoParent => WidgetIn(bs, t, t[c]),
           NEW w \in Nodes, WidgetIn(bs, t, w)
    PROVE  \A a \in Above(t, w) : WidgetIn(bs, t, a)
<1> DEFINE S == {a \in Nodes : WidgetIn(bs, t, a)}
<1>1. w \in S /\ S \in SUBSET Nodes
  OBVIOUS
<1>2. ASSUME NEW c \in S \cap Children, t[c] # NoParent PROVE t[c] \in S
  BY <1>2 DEF Trees
<1>3. Above(t, w) \subseteq S
  <2> HIDE DEF S
  <2> QED
    BY <1>1, <1>2, AboveLeast
<1> QED
  BY <1>3

\* An event that stays in the queue still announces.
LEMMA StillAnnounced ==
    ASSUME NEW q \in Seq(XEvents), NEW r \in Seq(XEvents), NEW t, NEW u, NEW ls, NEW ms, NEW a,
           Announced(q, t, ls, a), u[a] = t[a], t[a] \in ms,
           \A i \in 1..Len(q) : \E j \in 1..Len(r) : r[j] = q[i]
    PROVE  Announced(r, u, ms, a)
<1>1. PICK i \in 1..Len(q) : q[i].type \in News /\ q[i].child = a /\ q[i].window = t[a]
  BY DEF Announced
<1>2. PICK j \in 1..Len(r) : r[j] = q[i]
  OBVIOUS
<1> QED
  BY <1>1, <1>2 DEF Announced

Keeps(r, q) == \A i \in 1..Len(q) : \E j \in 1..Len(r) : r[j] = q[i]

LEMMA KeepsConcat ==
    ASSUME NEW q \in Seq(XEvents), NEW r \in Seq(XEvents)
    PROVE  /\ q \o r \in Seq(XEvents) /\ Keeps(q \o r, q)
           /\ q # <<>> => q \o r # <<>>
           /\ \A i \in 1..Len(r) : \E j \in 1..Len(q \o r) : (q \o r)[j] = r[i]
<1>1. /\ q \o r \in Seq(XEvents) /\ Len(q \o r) = Len(q) + Len(r) /\ Len(q) \in Nat /\ Len(r) \in Nat
      /\ \A j \in 1..Len(q) + Len(r) : (q \o r)[j] = IF j <= Len(q) THEN q[j] ELSE r[j - Len(q)]
  OBVIOUS
<1>2. ASSUME NEW i \in 1..Len(q) PROVE (q \o r)[i] = q[i] /\ i \in 1..Len(q \o r)
  BY <1>1
<1>3. ASSUME NEW i \in 1..Len(r)
      PROVE  (q \o r)[Len(q) + i] = r[i] /\ Len(q) + i \in 1..Len(q \o r)
  BY <1>1
<1>4. q # <<>> => q \o r # <<>>
  <2> SUFFICES ASSUME q # <<>> PROVE q \o r # <<>>
    OBVIOUS
  <2>1. Len(q) > 0
    BY <1>1
  <2>2. Len(q \o r) > 0
    BY <1>1, <2>1
  <2> QED
    BY <2>2
<1> QED
  BY <1>1, <1>2, <1>3, <1>4 DEF Keeps

LEMMA NotifyProps ==
    ASSUME NEW type \in {"CreateNotify", "ReparentNotify", "DestroyNotify"}, NEW c \in Nodes,
           NEW a \in Nodes, NEW b \in Nodes
    PROVE  /\ Notify(type, c, {a, b}) \in Seq(XEvents)
           /\ \A p \in {a, b} : Selects(p) =>
                 \E i \in 1..Len(Notify(type, c, {a, b})) : Notify(type, c, {a, b})[i] = Event(type, p, c)
<1> DEFINE to == {w \in {a, b} : Selects(w)}
           one == CHOOSE w \in to : TRUE
           two == CHOOSE w \in to \ {one} : TRUE
           n == Notify(type, c, {a, b})
<1>1. ASSUME NEW p \in {a, b} PROVE Event(type, p, c) \in XEvents
  BY DEF Event, XEvents
<1>2. CASE to = {}
  <2>1. n = <<>>
    BY <1>2 DEF Notify
  <2> QED
    BY <1>2, <2>1
<1>3. CASE to # {}
  <2>1. one \in to /\ to \subseteq {a, b}
    BY <1>3
  <2>2. CASE to = {one}
    <3>1. n = <<Event(type, one, c)>>
      BY <1>3, <2>2, Zenon DEF Notify
    <3> HIDE DEF one, n
    <3>2. Event(type, one, c) \in XEvents
      BY <1>1, <2>1
    <3>3. n \in Seq(XEvents) /\ Len(n) = 1 /\ n[1] = Event(type, one, c)
      BY <3>1, <3>2
    <3>4. ASSUME NEW p \in {a, b}, Selects(p) PROVE p = one
      BY <2>2, <3>4
    <3>5. 1 \in 1..Len(n)
      BY <3>3
    <3> QED
      BY <3>3, <3>4, <3>5 DEF n
  <2>3. CASE to # {one}
    <3>1. n = <<Event(type, one, c), Event(type, two, c)>>
      BY <1>3, <2>3, Zenon DEF Notify
    <3>2. two \in to \ {one}
      BY <2>1, <2>3
    <3> HIDE DEF one, two, n
    <3>3. Event(type, one, c) \in XEvents /\ Event(type, two, c) \in XEvents
      BY <1>1, <2>1, <3>2
    <3>4. n \in Seq(XEvents) /\ Len(n) = 2 /\ n[1] = Event(type, one, c) /\ n[2] = Event(type, two, c)
      BY <3>1, <3>3
    <3>5. ASSUME NEW p \in {a, b}, Selects(p) PROVE p = one \/ p = two
      BY <2>1, <3>2, <3>5
    <3>6. 1 \in 1..Len(n) /\ 2 \in 1..Len(n)
      BY <3>4
    <3> QED
      BY <3>4, <3>5, <3>6 DEF n
  <2> QED
    BY <2>2, <2>3
<1> QED
  BY <1>2, <1>3

\* c gets the parent p, and p's listener, if there is one, will hear of it.
LEMMA NewParent ==
    ASSUME XtTypes, ListensOk, NEW c \in Children, NEW p \in Nodes,
           WidgetIn(bin, tree, p), c \notin Above(tree, p),
           NEW q \in Seq(XEvents), Keeps(q, xevents), xevents # <<>> => q # <<>>,
           p \in listeners => \E i \in 1..Len(q) : q[i].type \in News /\ q[i].child = c /\ q[i].window = p,
           tree' = [tree EXCEPT ![c] = p], xevents' = q, UNCHANGED <<bin, listeners, bereft, left>>
    PROVE  XtTypes' /\ ListensOk'
<1> DEFINE u == [tree EXCEPT ![c] = p]
<1>1. /\ tree \in Trees /\ xevents \in Seq(XEvents)
      /\ \A k \in Children : tree[k] # NoParent => WidgetIn(bin, tree, tree[k])
  BY DEF XtTypes
<1>2. /\ u \in Trees /\ u[c] = p /\ \A k \in Children : k # c => u[k] = tree[k]
  BY <1>1 DEF Trees
<1>3. p # c /\ p # NoParent /\ c \notin Bins
  BY <1>1, AboveProps, XtBinAssumption DEF Nodes
<1>4. /\ bin' = bin /\ tree' = u /\ xevents' = q /\ listeners' = listeners /\ bereft' = bereft
      /\ left' = left
  OBVIOUS
<1> HIDE DEF u
<1>5. ASSUME NEW k \in Nodes, WidgetIn(bin, tree, k) PROVE WidgetIn(bin, u, k)
  BY <1>2, <1>3, <1>5 DEF WidgetIn, Nodes
<1>6. XtTypes'
  <2>1. ASSUME NEW k \in Children, u[k] # NoParent PROVE WidgetIn(bin, u, u[k])
    <3>1. u[k] \in Nodes
      BY <1>2, <2>1 DEF Trees
    <3>2. WidgetIn(bin, tree, u[k])
      BY <1>1, <1>2, <2>1
    <3> QED
      BY <1>5, <3>1, <3>2
  <2> QED
    BY <1>2, <1>4, <2>1 DEF XtTypes
<1>7. Above(u, p) = Above(tree, p)
  <2>1. Above([tree EXCEPT ![c] = p], p) = Above(tree, p)
    BY <1>1, AboveMoved
  <2> QED
    BY <2>1 DEF u
<1>8. ASSUME NEW a, a # c, Announced(xevents, tree, listeners, a) PROVE Announced(q, u, listeners, a)
  <2>1. a \in Children /\ tree[a] \in listeners /\ u[a] = tree[a]
    BY <1>2, <1>8 DEF Announced
  <2>2. \A i \in 1..Len(xevents) : \E j \in 1..Len(q) : q[j] = xevents[i]
    BY DEF Keeps
  <2> QED
    BY <1>1, <1>8, <2>1, <2>2, StillAnnounced
<1>9. ASSUME NEW w \in Nodes PROVE Heard(q, bin, u, listeners, bereft, w)
  <2> SUFFICES ASSUME WidgetIn(bin, u, w), Above(u, w) \cap bereft = {}
               PROVE  w \in listeners \/ \E a \in Above(u, w) : Announced(q, u, listeners, a)
    BY DEF Heard
  <2>1. CASE c \notin Above(tree, w)
    <3>1. Above(u, w) = Above(tree, w)
      <4>1. Above([tree EXCEPT ![c] = p], w) = Above(tree, w)
        BY <1>1, <2>1, AboveMoved
      <4> QED
        BY <4>1 DEF u
    <3>2. WidgetIn(bin, tree, w)
      <4>1. w # c
        BY <1>1, <2>1, AboveProps
      <4> QED
        BY <1>2, <4>1 DEF WidgetIn, Nodes
    <3>3. w \in listeners \/ \E a \in Above(tree, w) : Announced(xevents, tree, listeners, a)
      BY <3>1, <3>2 DEF ListensOk, Heard
    <3> QED
      BY <1>8, <2>1, <3>1, <3>3
  <2>2. CASE c \in Above(tree, w)
    <3>1. c \in Above(u, w) /\ p \in Above(u, w) /\ Above(u, p) \subseteq Above(u, w)
      <4>1. /\ c \in Above([tree EXCEPT ![c] = p], w) /\ p \in Above([tree EXCEPT ![c] = p], w)
            /\ Above([tree EXCEPT ![c] = p], p) \subseteq Above([tree EXCEPT ![c] = p], w)
        BY <1>1, <2>2, AboveMoved
      <4> QED
        BY <4>1 DEF u
    <3>2. Above(tree, p) \cap bereft = {}
      BY <1>7, <3>1
    <3>3. p \in listeners \/ \E a \in Above(tree, p) : Announced(xevents, tree, listeners, a)
      BY <3>2 DEF ListensOk, Heard
    <3>4. CASE p \in listeners
      <4>1. Announced(q, u, listeners, c)
        BY <1>2, <3>4 DEF Announced
      <4> QED
        BY <3>1, <4>1
    <3>5. ASSUME NEW a \in Above(tree, p), Announced(xevents, tree, listeners, a)
          PROVE  \E k \in Above(u, w) : Announced(q, u, listeners, k)
      <4>1. a # c /\ a \in Above(u, w)
        BY <1>7, <3>1
      <4>2. Announced(q, u, listeners, a)
        BY <1>8, <3>5, <4>1
      <4> QED
        BY <4>1, <4>2
    <3> QED
      BY <3>3, <3>4, <3>5
  <2> QED
    BY <2>1, <2>2
<1> QED
  BY <1>4, <1>6, <1>9 DEF ListensOk

\* Nothing is above a bin.
LEMMA AboveBin ==
    ASSUME NEW t \in Trees, NEW b \in Bins
    PROVE  Above(t, b) \subseteq {b}
<1> DEFINE S == {b}
<1>1. S \in SUBSET Nodes /\ b \in S /\ S \cap Children = {} /\ b \in Nodes
  BY XtBinAssumption DEF Nodes
<1>2. \A c \in S \cap Children : t[c] # NoParent => t[c] \in S
  BY <1>1
<1> HIDE DEF S
<1>3. Above(t, b) \subseteq S
  BY <1>1, <1>2, AboveLeast
<1> QED
  BY <1>3 DEF S

LEMMA CreateChildStep ==
    ASSUME XtTypes, ListensOk, NEW c \in Children, NEW p \in Nodes, CreateChild(c, p)
    PROVE  XtTypes' /\ ListensOk'
<1> DEFINE n == Notify("CreateNotify", c, {p})
           q == xevents \o n
<1>1. /\ ~IsWidget(c) /\ IsWidget(p) /\ tree' = [tree EXCEPT ![c] = p] /\ xevents' = q
      /\ UNCHANGED <<bin, listeners, bereft, left>>
  BY DEF CreateChild
<1>2. /\ tree \in Trees /\ xevents \in Seq(XEvents) /\ c \in Nodes /\ WidgetIn(bin, tree, p)
      /\ \A k \in Children : tree[k] # NoParent => WidgetIn(bin, tree, tree[k])
  BY <1>1, WidgetIs DEF XtTypes, Nodes
<1>3. c \notin Above(tree, p)
  <2>1. \A a \in Above(tree, p) : WidgetIn(bin, tree, a)
    BY <1>2, AboveWidgets
  <2> QED
    BY <1>1, <2>1, WidgetIs
<1>4. /\ n \in Seq(XEvents)
      /\ Selects(p) => \E i \in 1..Len(n) : n[i] = Event("CreateNotify", p, c)
  <2>1. {p} = {p, p}
    OBVIOUS
  <2>2. /\ Notify("CreateNotify", c, {p, p}) \in Seq(XEvents)
        /\ \A k \in {p, p} : Selects(k) =>
              \E i \in 1..Len(Notify("CreateNotify", c, {p, p})) :
                  Notify("CreateNotify", c, {p, p})[i] = Event("CreateNotify", k, c)
    BY <1>2, NotifyProps
  <2> QED
    BY <2>1, <2>2, Zenon
<1> HIDE DEF n
<1>5. /\ q \in Seq(XEvents) /\ Keeps(q, xevents) /\ (xevents # <<>> => q # <<>>)
      /\ \A i \in 1..Len(n) : \E j \in 1..Len(q) : q[j] = n[i]
  BY <1>2, <1>4, KeepsConcat
<1> HIDE DEF q
<1>6. ASSUME p \in listeners
      PROVE  \E i \in 1..Len(q) : q[i].type \in News /\ q[i].child = c /\ q[i].window = p
  <2>1. Selects(p)
    BY <1>1, <1>6 DEF Selects
  <2>2. PICK i \in 1..Len(n) : n[i] = Event("CreateNotify", p, c)
    BY <1>4, <2>1
  <2>3. PICK j \in 1..Len(q) : q[j] = Event("CreateNotify", p, c)
    BY <1>5, <2>2
  <2> QED
    BY <2>3 DEF Event, News
<1> QED
  BY <1>1, <1>2, <1>3, <1>5, <1>6, NewParent

LEMMA ReparentChildStep ==
    ASSUME XtTypes, ListensOk, NEW c \in Children, NEW p \in Nodes, ReparentChild(c, p)
    PROVE  XtTypes' /\ ListensOk'
<1> DEFINE n == Notify("ReparentNotify", c, {tree[c], p})
           q == xevents \o n
<1>1. /\ IsWidget(c) /\ IsWidget(p) /\ p \notin Subtree(c)
      /\ tree' = [tree EXCEPT ![c] = p] /\ xevents' = q
      /\ UNCHANGED <<bin, listeners, bereft, left>>
  BY DEF ReparentChild
<1>2. /\ tree \in Trees /\ xevents \in Seq(XEvents) /\ c \in Nodes /\ WidgetIn(bin, tree, p)
  BY <1>1, WidgetIs DEF XtTypes, Nodes
<1>3. c \notin Above(tree, p)
  <2>1. CASE p \in Children
    BY <1>1, <2>1 DEF Subtree, Ancestors
  <2>2. CASE p \in Bins
    <3>1. c # p
      BY <2>2, XtBinAssumption
    <3>2. Above(tree, p) \subseteq {p}
      BY <1>2, <2>2, AboveBin
    <3> QED
      BY <3>1, <3>2
  <2> QED
    BY <2>1, <2>2 DEF Nodes
<1>4. /\ n \in Seq(XEvents)
      /\ Selects(p) => \E i \in 1..Len(n) : n[i] = Event("ReparentNotify", p, c)
  <2>1. tree[c] \in Nodes
    <3>1. c \notin Bins
      BY XtBinAssumption
    <3> QED
      BY <1>1, <1>2, <3>1 DEF IsWidget, Trees
  <2>2. /\ Notify("ReparentNotify", c, {tree[c], p}) \in Seq(XEvents)
        /\ \A k \in {tree[c], p} : Selects(k) =>
              \E i \in 1..Len(Notify("ReparentNotify", c, {tree[c], p})) :
                  Notify("ReparentNotify", c, {tree[c], p})[i] = Event("ReparentNotify", k, c)
    BY <1>2, <2>1, NotifyProps
  <2> QED
    BY <2>2
<1> HIDE DEF n
<1>5. /\ q \in Seq(XEvents) /\ Keeps(q, xevents) /\ (xevents # <<>> => q # <<>>)
      /\ \A i \in 1..Len(n) : \E j \in 1..Len(q) : q[j] = n[i]
  BY <1>2, <1>4, KeepsConcat
<1> HIDE DEF q
<1>6. ASSUME p \in listeners
      PROVE  \E i \in 1..Len(q) : q[i].type \in News /\ q[i].child = c /\ q[i].window = p
  <2>1. Selects(p)
    BY <1>1, <1>6 DEF Selects
  <2>2. PICK i \in 1..Len(n) : n[i] = Event("ReparentNotify", p, c)
    BY <1>4, <2>1
  <2>3. PICK j \in 1..Len(q) : q[j] = Event("ReparentNotify", p, c)
    BY <1>5, <2>2
  <2> QED
    BY <2>3 DEF Event, News
<1> QED
  BY <1>1, <1>2, <1>3, <1>5, <1>6, NewParent

\* x and all that is below it goes.
LEMMA SubtreeGoes ==
    ASSUME XtTypes, ListensOk, NEW x \in Nodes, NEW bs, NEW q \in Seq(XEvents), Keeps(q, xevents),
           bs \in [Bins -> [state : {"none", "live", "destroyed"}, xtwindow : BOOLEAN]],
           \A b \in Bins : bs[b].state = "live" <=> bs[b].xtwindow,
           \A b \in Bins : IF b = x THEN bs[b].state # "live" ELSE bs[b] = bin[b],
           xevents # <<>> => q # <<>>, bin' = bs, xevents' = q, left' = left,
           tree' = [k \in Children |-> IF k \in Subtree(x) THEN NoParent ELSE tree[k]],
           listeners' = listeners \ Subtree(x), bereft' = bereft \ Subtree(x)
    PROVE  XtTypes' /\ ListensOk'
<1> DEFINE D == Subtree(x)
           u == [k \in Children |-> IF k \in D THEN NoParent ELSE tree[k]]
<1>1. /\ tree \in Trees /\ xevents \in Seq(XEvents)
      /\ \A k \in Children : tree[k] # NoParent => WidgetIn(bin, tree, tree[k])
  BY DEF XtTypes
<1>2. /\ u \in Trees /\ \A k \in Children : k \in D => u[k] = NoParent
      /\ \A k \in Children : k \notin D => u[k] = tree[k]
  BY <1>1 DEF Trees
<1>3. /\ bin' = bs /\ tree' = u /\ xevents' = q /\ listeners' = listeners \ D /\ bereft' = bereft \ D
      /\ left' = left
  OBVIOUS
<1> HIDE DEF u
<1>4. D \subseteq Children \cup {x} /\ x \in D /\ \A k \in D : x \in Above(tree, k)
  BY <1>1, AboveProps DEF Subtree, Ancestors
<1>5. ASSUME NEW k \in Nodes, NEW a \in Above(tree, k), a \in D PROVE k \in D
  <2>1. Above(tree, a) \subseteq Above(tree, k)
    BY <1>1, <1>5, AboveAbove
  <2>2. x \in Above(tree, k)
    BY <1>4, <1>5, <2>1
  <2>3. k \in Children \cup {x}
    <3>1. CASE k \in Bins
      <4>1. Above(tree, k) \subseteq {k}
        BY <1>1, <3>1, AboveBin
      <4> QED
        BY <2>2, <4>1
    <3> QED
      BY <3>1 DEF Nodes
  <2> QED
    BY <2>2, <2>3 DEF Subtree, Ancestors
<1>6. ASSUME NEW w \in Nodes, WidgetIn(bs, u, w) PROVE w \notin D /\ WidgetIn(bin, tree, w)
  <2>1. CASE w \in Bins
    <3>1. w # x /\ w \notin Children
      BY <1>6, <2>1, XtBinAssumption DEF WidgetIn
    <3> QED
      BY <1>4, <1>6, <2>1, <3>1 DEF WidgetIn
  <2>2. CASE w \in Children
    <3>1. w \notin Bins
      BY <2>2, XtBinAssumption
    <3> QED
      BY <1>2, <1>6, <2>2, <3>1 DEF WidgetIn
  <2> QED
    BY <2>1, <2>2 DEF Nodes
<1>7. ASSUME NEW w \in Nodes, w \notin D, WidgetIn(bin, tree, w) PROVE WidgetIn(bs, u, w)
  <2>1. CASE w \in Bins
    BY <1>4, <1>7, <2>1 DEF WidgetIn
  <2>2. CASE w \notin Bins
    BY <1>2, <1>7, <2>2 DEF WidgetIn, Nodes
  <2> QED
    BY <2>1, <2>2
<1> HIDE DEF D
<1>8. XtTypes'
  <2>1. ASSUME NEW k \in Children, u[k] # NoParent PROVE WidgetIn(bs, u, u[k])
    <3>1. k \notin D /\ u[k] = tree[k] /\ k \in Nodes
      BY <1>2, <2>1 DEF Nodes
    <3>2. tree[k] \in Above(tree, k) /\ tree[k] \in Nodes
      BY <1>1, <2>1, <3>1, AboveProps
    <3>3. tree[k] \notin D
      BY <1>5, <3>1, <3>2
    <3>4. WidgetIn(bin, tree, tree[k])
      BY <1>1, <2>1, <3>1
    <3> QED
      BY <1>7, <3>1, <3>2, <3>3, <3>4
  <2> QED
    BY <1>2, <1>3, <2>1 DEF XtTypes
<1>9. ASSUME NEW w \in Nodes PROVE Heard(q, bs, u, listeners \ D, bereft \ D, w)
  <2> SUFFICES ASSUME WidgetIn(bs, u, w), Above(u, w) \cap (bereft \ D) = {}
               PROVE  w \in listeners \ D \/ \E a \in Above(u, w) : Announced(q, u, listeners \ D, a)
    BY DEF Heard
  <2>1. w \notin D /\ WidgetIn(bin, tree, w)
    BY <1>6
  <2>2. \A a \in Above(tree, w) : a \notin D
    BY <1>5, <2>1
  <2>3. Above(u, w) = Above(tree, w)
    <3>1. \A k \in Above(tree, w) \cap Children : u[k] = tree[k]
      BY <1>2, <2>2
    <3> QED
      BY <1>1, <1>2, <3>1, AboveSame
  <2>4. Above(tree, w) \cap bereft = {}
    BY <2>2, <2>3
  <2>5. w \in listeners \/ \E a \in Above(tree, w) : Announced(xevents, tree, listeners, a)
    BY <2>1, <2>4 DEF ListensOk, Heard
  <2>6. ASSUME NEW a \in Above(tree, w), Announced(xevents, tree, listeners, a)
        PROVE  Announced(q, u, listeners \ D, a)
    <3>1. a \in Children /\ tree[a] \in listeners /\ u[a] = tree[a]
      BY <1>2, <2>2, <2>6 DEF Announced
    <3>2. tree[a] # NoParent
      <4>1. WidgetIn(bin, tree, a) /\ a \notin Bins
        BY <1>1, <2>1, <3>1, AboveWidgets, XtBinAssumption
      <4> QED
        BY <4>1 DEF WidgetIn
    <3>3. tree[a] \in Above(tree, w)
      BY <1>1, <2>6, <3>1, <3>2, AboveProps
    <3>4. tree[a] \in listeners \ D
      BY <2>2, <3>1, <3>3
    <3>5. \A i \in 1..Len(xevents) : \E j \in 1..Len(q) : q[j] = xevents[i]
      BY DEF Keeps
    <3> QED
      BY <1>1, <2>6, <3>1, <3>4, <3>5, StillAnnounced
  <2> QED
    BY <2>1, <2>3, <2>5, <2>6
<1> QED
  BY <1>3, <1>8, <1>9 DEF ListensOk

LEMMA DestroyChildStep ==
    ASSUME XtTypes, ListensOk, NEW c \in Children, DestroyChild(c)
    PROVE  XtTypes' /\ ListensOk'
<1> DEFINE n == Notify("DestroyNotify", c, {tree[c]})
           q == xevents \o n
<1>1. /\ IsWidget(c) /\ xevents' = q /\ UNCHANGED <<bin, left>>
      /\ tree' = [k \in Children |-> IF k \in Subtree(c) THEN NoParent ELSE tree[k]]
      /\ listeners' = listeners \ Subtree(c) /\ bereft' = bereft \ Subtree(c)
  BY DEF DestroyChild
<1>2. /\ tree \in Trees /\ xevents \in Seq(XEvents) /\ c \in Nodes /\ c \notin Bins
      /\ bin \in [Bins -> [state : {"none", "live", "destroyed"}, xtwindow : BOOLEAN]]
      /\ \A b \in Bins : bin[b].state = "live" <=> bin[b].xtwindow
  BY XtBinAssumption DEF XtTypes, Nodes
<1>3. n \in Seq(XEvents)
  <2>1. tree[c] \in Nodes
    BY <1>1, <1>2 DEF IsWidget, Trees
  <2>2. Notify("DestroyNotify", c, {tree[c], tree[c]}) \in Seq(XEvents)
    BY <1>2, <2>1, NotifyProps
  <2>3. {tree[c]} = {tree[c], tree[c]}
    OBVIOUS
  <2> QED
    BY <2>2, <2>3, Zenon
<1> HIDE DEF n
<1>4. q \in Seq(XEvents) /\ Keeps(q, xevents) /\ (xevents # <<>> => q # <<>>)
  BY <1>2, <1>3, KeepsConcat
<1> HIDE DEF q
<1>5. \A b \in Bins : IF b = c THEN bin[b].state # "live" ELSE bin[b] = bin[b]
  BY <1>2
<1>6. left' = left /\ bin' = bin
  BY <1>1
<1> QED
  BY <1>1, <1>2, <1>4, <1>5, <1>6, SubtreeGoes

\* The bins that are there, and the hooks
LEMMA BinGoes ==
    ASSUME XtTypes, HooksOk, NEW b \in Bins, gtk_xtbin_destroy(b)
    PROVE  /\ HooksOk'
           /\ bin' \in [Bins -> [state : {"none", "live", "destroyed"}, xtwindow : BOOLEAN]]
           /\ \A k \in Bins : bin'[k].state = "live" <=> bin'[k].xtwindow
           /\ \A k \in Bins : IF k = b THEN bin'[k].state # "live" ELSE bin'[k] = bin[k]
<1> DEFINE L == LiveBins(bin)
<1>1. /\ bin \in [Bins -> [state : {"none", "live", "destroyed"}, xtwindow : BOOLEAN]]
      /\ \A k \in Bins : bin[k].state = "live" <=> bin[k].xtwindow
  BY DEF XtTypes
<1>2. /\ xt \in [is_initialized : BOOLEAN, num_widgets : Nat, hooks : SUBSET Hooks]
      /\ IsFiniteSet(L) /\ xt.num_widgets = Cardinality(L)
      /\ xt.hooks = IF L # {} THEN Hooks ELSE {}
  BY DEF HooksOk
<1>3. CASE ~bin[b].xtwindow
  <2>1. bin' = bin /\ xt' = xt
    BY <1>3 DEF gtk_xtbin_destroy
  <2> QED
    BY <1>1, <1>3, <2>1 DEF HooksOk
<1>4. CASE bin[b].xtwindow
  <2>1. /\ bin' = [bin EXCEPT ![b] = [NoBin EXCEPT !.state = "destroyed"]]
        /\ xt' = [xt EXCEPT !.num_widgets = @ - 1,
                            !.hooks = IF xt.num_widgets = 1 THEN {} ELSE @]
    BY <1>4 DEF gtk_xtbin_destroy
  <2> DEFINE gone == [NoBin EXCEPT !.state = "destroyed"]
  <2>2. /\ gone \in [state : {"none", "live", "destroyed"}, xtwindow : BOOLEAN]
        /\ gone.state = "destroyed" /\ gone.xtwindow = FALSE
    <3>1. NoBin \in [state : {"none", "live", "destroyed"}, xtwindow : BOOLEAN] /\ NoBin.xtwindow = FALSE
      BY DEF NoBin
    <3> QED
      BY <3>1
  <2>12. bin' = [bin EXCEPT ![b] = gone]
    BY <2>1
  <2> HIDE DEF gone
  <2>3. /\ bin' \in [Bins -> [state : {"none", "live", "destroyed"}, xtwindow : BOOLEAN]]
        /\ bin'[b].state = "destroyed" /\ bin'[b].xtwindow = FALSE
        /\ \A k \in Bins : k # b => bin'[k] = bin[k]
    BY <1>1, <2>12, <2>2
  <2>4. LiveBins(bin') = L \ {b} /\ b \in L
    BY <1>1, <1>4, <2>3 DEF LiveBins
  <2>5. IsFiniteSet(L \ {b}) /\ Cardinality(L \ {b}) = Cardinality(L) - 1 /\ Cardinality(L) \in Nat
    BY <1>2, <2>4, FS_RemoveElement, FS_CardinalityType
  <2> HIDE DEF L
  <2>6. Cardinality(L) - 1 \in Nat /\ (L \ {b} = {} <=> Cardinality(L) = 1)
    <3>1. Cardinality(L \ {b}) \in Nat /\ (Cardinality(L \ {b}) = 0 <=> L \ {b} = {})
      BY <2>5, FS_CardinalityType, FS_EmptySet
    <3> QED
      BY <2>5, <3>1
  <2>7. /\ xt'.num_widgets = Cardinality(L) - 1
        /\ xt'.hooks = IF Cardinality(L) = 1 THEN {} ELSE Hooks
        /\ xt' \in [is_initialized : BOOLEAN, num_widgets : Nat, hooks : SUBSET Hooks]
    BY <1>2, <2>1, <2>4, <2>6
  <2>8. xt'.hooks = IF L \ {b} # {} THEN Hooks ELSE {}
    BY <2>6, <2>7
  <2>9. HooksOk'
    BY <2>4, <2>5, <2>7, <2>8 DEF HooksOk
  <2>10. \A k \in Bins : bin'[k].state = "live" <=> bin'[k].xtwindow
    BY <1>1, <2>3
  <2>11. \A k \in Bins : IF k = b THEN bin'[k].state # "live" ELSE bin'[k] = bin[k]
    BY <2>3
  <2> QED
    BY <2>3, <2>9, <2>10, <2>11
<1> QED
  BY <1>3, <1>4

LEMMA WidgetDestroyStep ==
    ASSUME XtInvariant, NEW b \in Bins, gtk_widget_destroy(b)
    PROVE  XtInvariant'
<1>1. XtTypes /\ HooksOk /\ ListensOk
  BY DEF XtInvariant
<1>2. /\ gtk_xtbin_destroy(b) /\ xevents' = xevents /\ left' = left
      /\ tree' = [k \in Children |-> IF k \in Subtree(b) THEN NoParent ELSE tree[k]]
      /\ listeners' = listeners \ Subtree(b) /\ bereft' = bereft \ Subtree(b)
  BY DEF gtk_widget_destroy, xt_client_destroy
<1>3. /\ HooksOk'
      /\ bin' \in [Bins -> [state : {"none", "live", "destroyed"}, xtwindow : BOOLEAN]]
      /\ \A k \in Bins : bin'[k].state = "live" <=> bin'[k].xtwindow
      /\ \A k \in Bins : IF k = b THEN bin'[k].state # "live" ELSE bin'[k] = bin[k]
  BY <1>1, <1>2, BinGoes
<1>4. xevents \in Seq(XEvents) /\ Keeps(xevents, xevents) /\ b \in Nodes
  BY <1>1 DEF XtTypes, Keeps, Nodes
<1>5. XtTypes' /\ ListensOk'
  <2> DEFINE bs == bin'
  <2>1. /\ bs \in [Bins -> [state : {"none", "live", "destroyed"}, xtwindow : BOOLEAN]]
        /\ \A k \in Bins : bs[k].state = "live" <=> bs[k].xtwindow
        /\ \A k \in Bins : IF k = b THEN bs[k].state # "live" ELSE bs[k] = bin[k]
        /\ bin' = bs
    BY <1>3
  <2> HIDE DEF bs
  <2> QED
    BY <1>1, <1>2, <1>4, <2>1, SubtreeGoes
<1> QED
  BY <1>3, <1>5 DEF XtInvariant

LEMMA XtBinNewStep ==
    ASSUME XtInvariant, NEW b \in Bins, gtk_xtbin_new(b)
    PROVE  XtInvariant'
<1>1. XtTypes /\ HooksOk /\ ListensOk
  BY DEF XtInvariant
<1>2. /\ bin[b].state = "none" /\ tree' = tree /\ bereft' = bereft /\ xevents' = xevents /\ left' = left
  BY DEF gtk_xtbin_new
<1>3. /\ bin \in [Bins -> [state : {"none", "live", "destroyed"}, xtwindow : BOOLEAN]]
      /\ \A k \in Bins : bin[k].state = "live" <=> bin[k].xtwindow
      /\ tree \in Trees /\ xevents \in Seq(XEvents)
      /\ \A c \in Children : tree[c] # NoParent => WidgetIn(bin, tree, tree[c])
  BY <1>1 DEF XtTypes
<1>4. CASE UNCHANGED <<xt, bin, listeners>>
  <2>1. /\ xt' = xt /\ bin' = bin /\ listeners' = listeners
    BY <1>4
  <2> QED
    BY <1>1, <1>2, <2>1 DEF XtInvariant, XtTypes, HooksOk, ListensOk
<1>5. CASE /\ xt' = [xt_client_init EXCEPT !.num_widgets = @ + 1,
                        !.hooks = IF xt.num_widgets = 0 THEN Hooks ELSE @]
           /\ gtk_xtbin_realize(b)
  <2>1. /\ listeners' = listeners \cup {b}
        /\ bin' = [bin EXCEPT ![b] = [state |-> "live", xtwindow |-> TRUE]]
    BY <1>5 DEF gtk_xtbin_realize, xt_client_create
  <2>2. /\ bin' \in [Bins -> [state : {"none", "live", "destroyed"}, xtwindow : BOOLEAN]]
        /\ bin'[b] = [state |-> "live", xtwindow |-> TRUE]
        /\ \A k \in Bins : k # b => bin'[k] = bin[k]
    BY <1>3, <2>1
  <2>3. ASSUME NEW w, WidgetIn(bin, tree, w) PROVE WidgetIn(bin', tree, w)
    BY <2>2, <2>3 DEF WidgetIn
  <2>4. XtTypes'
    <3>1. \A c \in Children : tree[c] # NoParent => WidgetIn(bin', tree, tree[c])
      BY <1>3, <2>3
    <3>2. \A k \in Bins : bin'[k].state = "live" <=> bin'[k].xtwindow
      BY <1>3, <2>2
    <3> QED
      BY <1>1, <1>2, <2>2, <3>1, <3>2 DEF XtTypes
  <2>5. HooksOk'
    <3> DEFINE L == LiveBins(bin)
    <3>1. /\ xt \in [is_initialized : BOOLEAN, num_widgets : Nat, hooks : SUBSET Hooks]
          /\ IsFiniteSet(L) /\ xt.num_widgets = Cardinality(L)
          /\ xt.hooks = IF L # {} THEN Hooks ELSE {}
      BY <1>1 DEF HooksOk
    <3>2. LiveBins(bin') = L \cup {b} /\ b \notin L
      BY <1>2, <2>2 DEF LiveBins
    <3>3. /\ IsFiniteSet(L \cup {b}) /\ Cardinality(L \cup {b}) = Cardinality(L) + 1
          /\ Cardinality(L) \in Nat /\ (Cardinality(L) = 0 <=> L = {})
      BY <3>1, <3>2, FS_AddElement, FS_CardinalityType, FS_EmptySet
    <3> HIDE DEF L
    <3>4. /\ xt'.num_widgets = Cardinality(L) + 1 /\ xt'.hooks = Hooks
          /\ xt' \in [is_initialized : BOOLEAN, num_widgets : Nat, hooks : SUBSET Hooks]
      <4> DEFINE r == xt_client_init
      <4>1. /\ r \in [is_initialized : BOOLEAN, num_widgets : Nat, hooks : SUBSET Hooks]
            /\ r.num_widgets = xt.num_widgets /\ r.hooks = xt.hooks
        BY <3>1 DEF xt_client_init
      <4> HIDE DEF r
      <4>2. xt' = [r EXCEPT !.num_widgets = @ + 1,
                            !.hooks = IF xt.num_widgets = 0 THEN Hooks ELSE @]
        BY <1>5 DEF r
      <4>3. /\ xt'.num_widgets = r.num_widgets + 1
            /\ xt'.hooks = IF xt.num_widgets = 0 THEN Hooks ELSE r.hooks
            /\ xt' \in [is_initialized : BOOLEAN, num_widgets : Nat, hooks : SUBSET Hooks]
        <5>1. r.num_widgets + 1 \in Nat /\ r.hooks \in SUBSET Hooks
          BY <4>1
        <5> QED
          BY <4>1, <4>2, <5>1
      <4> QED
        BY <3>1, <3>3, <4>1, <4>3
    <3> QED
      BY <3>2, <3>3, <3>4 DEF HooksOk
  <2>6. ASSUME NEW w \in Nodes PROVE Heard(xevents, bin', tree, listeners \cup {b}, bereft, w)
    <3> SUFFICES ASSUME WidgetIn(bin', tree, w), Above(tree, w) \cap bereft = {}, w # b
                 PROVE  w \in listeners \cup {b} \/ \E a \in Above(tree, w) :
                            Announced(xevents, tree, listeners \cup {b}, a)
      BY DEF Heard
    <3>1. WidgetIn(bin, tree, w)
      BY <2>2 DEF WidgetIn
    <3>2. w \in listeners \/ \E a \in Above(tree, w) : Announced(xevents, tree, listeners, a)
      BY <1>1, <3>1 DEF ListensOk, Heard
    <3> QED
      BY <3>2 DEF Announced
  <2> QED
    BY <1>2, <2>1, <2>4, <2>5, <2>6 DEF XtInvariant, ListensOk
<1> QED
  BY <1>4, <1>5 DEF gtk_xtbin_new

\* Events that nobody else changes a widget for
LEMMA MoreEvents ==
    ASSUME XtInvariant, xevents' \in Seq(XEvents), Keeps(xevents', xevents),
           left' \in Nat, left' > 0 => xevents' # <<>>,
           UNCHANGED <<xt, bin, tree, listeners, bereft>>
    PROVE  XtInvariant'
<1> DEFINE q == xevents'
<1>1. XtTypes /\ HooksOk /\ ListensOk
  BY DEF XtInvariant
<1>2. /\ xt' = xt /\ bin' = bin /\ tree' = tree /\ listeners' = listeners /\ bereft' = bereft
      /\ xevents' = q /\ q \in Seq(XEvents) /\ xevents \in Seq(XEvents)
      /\ \A i \in 1..Len(xevents) : \E j \in 1..Len(q) : q[j] = xevents[i]
  BY <1>1 DEF XtTypes, Keeps
<1> HIDE DEF q
<1>3. XtTypes'
  BY <1>1, <1>2 DEF XtTypes
<1>4. HooksOk'
  BY <1>1, <1>2 DEF HooksOk
<1>5. ASSUME NEW w \in Nodes PROVE Heard(q, bin, tree, listeners, bereft, w)
  <2> SUFFICES ASSUME WidgetIn(bin, tree, w), Above(tree, w) \cap bereft = {}
               PROVE  w \in listeners \/ \E a \in Above(tree, w) : Announced(q, tree, listeners, a)
    BY DEF Heard
  <2>1. w \in listeners \/ \E a \in Above(tree, w) : Announced(xevents, tree, listeners, a)
    BY <1>1 DEF ListensOk, Heard
  <2>2. ASSUME NEW a, Announced(xevents, tree, listeners, a) PROVE Announced(q, tree, listeners, a)
    <3>1. tree[a] \in listeners /\ tree[a] = tree[a]
      BY <2>2 DEF Announced
    <3> QED
      BY <1>2, <2>2, <3>1, StillAnnounced
  <2> QED
    BY <2>1, <2>2
<1> QED
  BY <1>2, <1>3, <1>4, <1>5 DEF XtInvariant, ListensOk

LEMMA QueueStep ==
    ASSUME XtInvariant, NEW e \in XEvents, xevents' = Append(xevents, e), left' = left,
           UNCHANGED <<xt, bin, tree, listeners, bereft>>
    PROVE  XtInvariant'
<1>1. xevents \in Seq(XEvents) /\ left \in Nat
  BY DEF XtInvariant, XtTypes
<1>2. xevents' \in Seq(XEvents) /\ xevents' # <<>>
  BY <1>1
<1>3. Keeps(xevents', xevents)
  <2>1. ASSUME NEW i \in 1..Len(xevents) PROVE xevents'[i] = xevents[i] /\ i \in 1..Len(xevents')
    BY <1>1
  <2> QED
    BY <2>1 DEF Keeps
<1>4. left' \in Nat
  BY <1>1
<1> QED
  BY <1>2, <1>3, <1>4, MoreEvents

LEMMA ClickStep ==
    ASSUME XtInvariant, NEW w \in Nodes, Click(w)
    PROVE  XtInvariant'
<1>1. PICK t \in Ancestors(w) : xevents' = Append(xevents, Event("ButtonRelease", t, w))
  BY DEF Click
<1>2. t \in Nodes
  BY DEF Ancestors, Above, Nodes
<1>3. Event("ButtonRelease", t, w) \in XEvents
  BY <1>2 DEF Event, XEvents
<1>4. left' = left /\ UNCHANGED <<xt, bin, tree, listeners, bereft>>
  BY DEF Click
<1> QED
  BY <1>1, <1>3, <1>4, QueueStep

LEMMA FocusStep ==
    ASSUME XtInvariant, NEW b \in Bins, FocusLeaves(b) \/ GtkSocket(b)
    PROVE  XtInvariant'
<1>1. left' = left /\ UNCHANGED <<xt, bin, tree, listeners, bereft>>
  BY DEF FocusLeaves, GtkSocket
<1>2. \/ xevents' = xevents
      \/ xevents' = Append(xevents, Event("XEMBED_FOCUS_IN", b, b))
      \/ xevents' = Append(xevents, Event("XEMBED_FOCUS_OUT", b, b))
  BY DEF FocusLeaves, GtkSocket
<1>3. Event("XEMBED_FOCUS_IN", b, b) \in XEvents /\ Event("XEMBED_FOCUS_OUT", b, b) \in XEvents
  BY DEF Event, XEvents, Nodes
<1>4. CASE xevents' = xevents
  <2>1. /\ xevents' \in Seq(XEvents) /\ Keeps(xevents', xevents) /\ left' \in Nat
        /\ (left' > 0 => xevents' # <<>>)
    BY <1>1, <1>4 DEF XtInvariant, XtTypes, Keeps
  <2> QED
    BY <1>1, <2>1, MoreEvents
<1> QED
  BY <1>1, <1>2, <1>3, <1>4, QueueStep

LEMMA SameEvents ==
    ASSUME XtInvariant, xevents' = xevents, left' \in Nat, left' > 0 => xevents # <<>>,
           UNCHANGED <<xt, bin, tree, listeners, bereft>>
    PROVE  XtInvariant'
<1>1. xevents' \in Seq(XEvents) /\ Keeps(xevents', xevents) /\ (left' > 0 => xevents' # <<>>)
  BY DEF XtInvariant, XtTypes, Keeps
<1> QED
  BY <1>1, MoreEvents

LEMMA XtDispatchStep ==
    ASSUME XtInvariant, xt_event_dispatch
    PROVE  XtInvariant'
<1>1. /\ xevents' = xevents /\ xevents # <<>> /\ left' = XTBIN_MAX_EVENTS
      /\ UNCHANGED <<xt, bin, tree, listeners, bereft>>
  BY DEF xt_event_dispatch
<1>2. left' \in Nat
  BY <1>1, XtBinAssumption
<1> QED
  BY <1>1, <1>2, SameEvents

LEMMA XtPollStep ==
    ASSUME XtInvariant, xt_event_polling_timer_callback
    PROVE  XtInvariant'
<1>1. /\ xevents' = xevents /\ xevents # <<>> /\ left' = PollingEvents
      /\ UNCHANGED <<xt, bin, tree, listeners, bereft>>
  BY DEF xt_event_polling_timer_callback
<1>2. left' \in Nat
  BY <1>1, XtBinAssumption
<1> QED
  BY <1>1, <1>2, SameEvents

\* The event tells of the widget a, under its parent.
Announces(e, t, a) == e.type \in News /\ e.child = a /\ e.window = t[a]

\* An event was news of a, or whoever hears of a still will.
LEMMA OneEventLess ==
    ASSUME NEW q \in Seq(XEvents), q # <<>>, NEW r \in Seq(XEvents), NEW t, NEW ls, NEW ms, NEW a,
           Announced(q, t, ls, a), t[a] \in ms, Keeps(r, Tail(q))
    PROVE  Announced(r, t, ms, a) \/ Announces(Head(q), t, a)
<1>1. PICK i \in 1..Len(q) : q[i].type \in News /\ q[i].child = a /\ q[i].window = t[a]
  BY DEF Announced
<1>2. CASE i = 1
  <2>1. Head(q) = q[1]
    OBVIOUS
  <2> QED
    BY <1>1, <1>2, <2>1 DEF Announces
<1>3. CASE i # 1
  <2>1. i - 1 \in 1..Len(Tail(q)) /\ Tail(q)[i - 1] = q[i]
    BY <1>3
  <2>2. PICK j \in 1..Len(r) : r[j] = q[i]
    BY <2>1 DEF Keeps
  <2> QED
    BY <1>1, <2>2 DEF Announced
<1> QED
  BY <1>2, <1>3

LEMMA ProcessEventStep ==
    ASSUME XtInvariant, XtAppProcessEvent
    PROVE  XtInvariant'
<1> DEFINE e == Head(xevents)
<1>1. XtTypes /\ HooksOk /\ ListensOk
  BY DEF XtInvariant
<1>2. /\ left > 0 /\ xt' = xt /\ bin' = bin /\ tree' = tree
      /\ left' = IF xevents' = <<>> THEN 0 ELSE left - 1
      /\ \/ /\ ~IsWidget(e.window) /\ xevents' = Tail(xevents) /\ UNCHANGED <<listeners, bereft>>
         \/ /\ IsWidget(e.window) /\ xt_client_focus_listener(e)
            /\ xevents' = Tail(xevents) \o xt_client_handle_xembed_message(e)
  BY DEF XtAppProcessEvent
<1>3. /\ xevents \in Seq(XEvents) /\ xevents # <<>> /\ left \in Nat /\ tree \in Trees
      /\ \A c \in Children : tree[c] # NoParent => WidgetIn(bin, tree, tree[c])
  BY <1>1, <1>2 DEF XtTypes
<1>4. e \in XEvents /\ Tail(xevents) \in Seq(XEvents)
  BY <1>3
<1> HIDE DEF e
<1>5. xt_client_handle_xembed_message(e) \in Seq(XEvents)
  <2>1. Event("FocusIn", e.window, e.window) \in XEvents /\ Event("FocusOut", e.window, e.window) \in XEvents
    BY <1>4 DEF Event, XEvents
  <2> DEFINE into == Event("FocusIn", e.window, e.window)
             out == Event("FocusOut", e.window, e.window)
  <2>2. \/ xt_client_handle_xembed_message(e) = <<into>>
        \/ xt_client_handle_xembed_message(e) = <<out>>
        \/ xt_client_handle_xembed_message(e) = <<>>
    BY <1>4 DEF xt_client_handle_xembed_message
  <2>3. into \in XEvents /\ out \in XEvents
    BY <2>1
  <2> HIDE DEF into, out
  <2>4. <<into>> \in Seq(XEvents) /\ <<out>> \in Seq(XEvents) /\ <<>> \in Seq(XEvents)
    BY <2>3
  <2> QED
    BY <2>2, <2>4
<1>6. /\ xevents' \in Seq(XEvents) /\ Keeps(xevents', Tail(xevents))
  <2>1. CASE xevents' = Tail(xevents)
    BY <1>4, <2>1 DEF Keeps
  <2>2. CASE xevents' = Tail(xevents) \o xt_client_handle_xembed_message(e)
    BY <1>4, <1>5, <2>2, KeepsConcat
  <2> QED
    BY <1>2, <2>1, <2>2
<1> DEFINE q == xevents'
           ls == listeners'
           br == bereft'
<1>7. q \in Seq(XEvents) /\ \A i \in 1..Len(Tail(xevents)) : \E j \in 1..Len(q) : q[j] = Tail(xevents)[i]
  BY <1>6 DEF Keeps
<1>8. XtTypes'
  <2>1. left' \in Nat /\ (left' > 0 => xevents' # <<>>)
    BY <1>2, <1>3
  <2> QED
    BY <1>1, <1>2, <1>6, <2>1 DEF XtTypes
<1>9. HooksOk'
  BY <1>1, <1>2 DEF HooksOk
<1>10. xevents' = q /\ listeners' = ls /\ bereft' = br
  OBVIOUS
<1>11. \* what the handler does
       /\ bereft \subseteq br
       /\ \A w : w \in listeners /\ w \notin ls => w \in br
       /\ \A a \in Children : e.type \in News /\ e.child = a /\ e.window = tree[a] /\ tree[a] \in listeners
             /\ WidgetIn(bin, tree, a) /\ WidgetIn(bin, tree, tree[a]) => Subtree(a) \subseteq ls
  <2>1. CASE ~IsWidget(e.window) \/ e.window \notin listeners
    <3>1. ls = listeners /\ br = bereft
      BY <1>2, <2>1 DEF xt_client_focus_listener
    <3> QED
      BY <2>1, <3>1, WidgetIs
  <2>2. CASE IsWidget(e.window) /\ e.window \in listeners /\ e.type \in News
    <3>1. /\ br = bereft
          /\ ls = IF IsWidget(e.child) /\ (e.type = "CreateNotify" \/ tree[e.child] = e.window)
                  THEN listeners \cup Subtree(e.child) ELSE listeners
      BY <1>2, <2>2 DEF xt_client_focus_listener, News, xt_add_focus_listener_tree
    <3> QED
      BY <3>1, WidgetIs
  <2>3. CASE IsWidget(e.window) /\ e.window \in listeners /\ e.type \notin News
    <3>1. \/ ls = listeners \ {e.window} /\ br = bereft \cup {e.window}
          \/ ls = listeners /\ br = bereft
      BY <1>2, <2>3 DEF xt_client_focus_listener, News
    <3> QED
      BY <2>3, <3>1
  <2> QED
    BY <2>1, <2>2, <2>3
<1> HIDE DEF q, ls, br
<1>12. ASSUME NEW w \in Nodes PROVE Heard(q, bin, tree, ls, br, w)
  <2> SUFFICES ASSUME WidgetIn(bin, tree, w), Above(tree, w) \cap br = {}
               PROVE  w \in ls \/ \E a \in Above(tree, w) : Announced(q, tree, ls, a)
    BY DEF Heard
  <2>1. w \in Above(tree, w) /\ Above(tree, w) \cap bereft = {}
    BY <1>3, <1>11, AboveProps
  <2>2. w \in listeners \/ \E a \in Above(tree, w) : Announced(xevents, tree, listeners, a)
    BY <1>1, <2>1 DEF ListensOk, Heard
  <2>3. CASE w \in listeners
    BY <1>11, <2>1, <2>3
  <2>4. ASSUME NEW a \in Above(tree, w), Announced(xevents, tree, listeners, a)
        PROVE  w \in ls \/ Announced(q, tree, ls, a)
    <3>1. a \in Children /\ tree[a] \in listeners
      BY <2>4 DEF Announced
    <3>2. WidgetIn(bin, tree, a) /\ tree[a] # NoParent
      <4>1. WidgetIn(bin, tree, a) /\ a \notin Bins
        BY <1>3, <3>1, AboveWidgets, XtBinAssumption
      <4> QED
        BY <4>1 DEF WidgetIn
    <3>3. tree[a] \in Above(tree, w) /\ WidgetIn(bin, tree, tree[a])
      BY <1>3, <3>1, <3>2, AboveProps
    <3>4. tree[a] \in ls
      BY <1>11, <3>1, <3>3
    <3>5. \/ Announced(q, tree, ls, a)
          \/ e.type \in News /\ e.child = a /\ e.window = tree[a]
      <4>1. xevents \in Seq(XEvents) /\ xevents # <<>> /\ q \in Seq(XEvents)
        BY <1>3, <1>7
      <4>2. Keeps(q, Tail(xevents))
        BY <1>6, <1>10
      <4>3. Announced(q, tree, ls, a) \/ Announces(Head(xevents), tree, a)
        BY <2>4, <3>4, <4>1, <4>2, OneEventLess
      <4> QED
        BY <4>3 DEF e, Announces
    <3>6. CASE e.type \in News /\ e.child = a /\ e.window = tree[a]
      <4>1. Subtree(a) \subseteq ls
        BY <1>11, <3>1, <3>2, <3>3, <3>6
      <4>2. w \in Children
        <5>1. CASE w \in Bins
          BY <1>3, <3>1, <5>1, AboveBin, XtBinAssumption
        <5> QED
          BY <5>1 DEF Nodes
      <4> QED
        BY <4>1, <4>2 DEF Subtree, Ancestors
    <3> QED
      BY <3>5, <3>6
  <2> QED
    BY <2>2, <2>3, <2>4
<1> QED
  BY <1>2, <1>8, <1>9, <1>10, <1>12 DEF XtInvariant, ListensOk

LEMMA XtStart ==
    ASSUME XtInit
    PROVE  XtInvariant
<1>1. XtTypes
  BY DEF XtInit, XtTypes, Trees, WidgetIn, NoBin
<1>2. HooksOk
  <2>1. LiveBins(bin) = {}
    BY DEF XtInit, LiveBins, NoBin
  <2>2. IsFiniteSet({}) /\ Cardinality({}) = 0
    BY FS_EmptySet
  <2>3. /\ xt.num_widgets = 0 /\ xt.hooks = {}
        /\ xt \in [is_initialized : BOOLEAN, num_widgets : Nat, hooks : SUBSET Hooks]
    BY DEF XtInit
  <2> QED
    BY <2>1, <2>2, <2>3 DEF HooksOk
<1>3. ASSUME NEW w \in Nodes PROVE ~WidgetIn(bin, tree, w)
  BY DEF XtInit, WidgetIn, NoBin, Nodes
<1>4. ListensOk
  BY <1>3 DEF ListensOk, Heard
<1> QED
  BY <1>1, <1>2, <1>4 DEF XtInvariant

LEMMA ChildStep ==
    ASSUME XtInvariant, NEW c \in Children, NEW p \in Nodes,
           CreateChild(c, p) \/ ReparentChild(c, p) \/ DestroyChild(c)
    PROVE  XtInvariant'
<1>1. XtTypes /\ HooksOk /\ ListensOk
  BY DEF XtInvariant
<1>2. xt' = xt /\ bin' = bin
  BY DEF CreateChild, ReparentChild, DestroyChild
<1>3. HooksOk'
  BY <1>1, <1>2 DEF HooksOk
<1>4. XtTypes' /\ ListensOk'
  BY <1>1, CreateChildStep, ReparentChildStep, DestroyChildStep
<1> QED
  BY <1>3, <1>4 DEF XtInvariant

LEMMA XtUnchanged ==
    ASSUME XtInvariant, UNCHANGED xtVars
    PROVE  XtInvariant'
<1>1. /\ xevents' = xevents /\ left' = left
      /\ UNCHANGED <<xt, bin, tree, listeners, bereft>>
  BY DEF xtVars
<1>2. left' \in Nat /\ (left' > 0 => xevents # <<>>)
  BY <1>1 DEF XtInvariant, XtTypes
<1> QED
  BY <1>1, <1>2, SameEvents

LEMMA XtStep ==
    ASSUME XtInvariant, [XtNext]_xtVars
    PROVE  XtInvariant'
<1>1. CASE \E b \in Bins : \/ gtk_xtbin_new(b) \/ gtk_widget_destroy(b) \/ FocusLeaves(b) \/ GtkSocket(b)
  BY <1>1, XtBinNewStep, WidgetDestroyStep, FocusStep
<1>2. CASE \E c \in Children : \/ \E p \in Bins \cup Children : CreateChild(c, p) \/ ReparentChild(c, p)
                               \/ DestroyChild(c)
  BY <1>2, ChildStep DEF Nodes
<1>3. CASE \E w \in Bins \cup Children : Click(w)
  BY <1>3, ClickStep DEF Nodes
<1>4. CASE xt_event_dispatch \/ xt_event_polling_timer_callback \/ XtAppProcessEvent
  BY <1>4, XtDispatchStep, XtPollStep, ProcessEventStep
<1>5. CASE UNCHANGED xtVars
  BY <1>5, XtUnchanged
<1> QED
  BY <1>1, <1>2, <1>3, <1>4, <1>5 DEF XtNext

LEMMA ClicksHeard ==
    ASSUME XtInvariant
    PROVE  ClicksAreHeard
<1>1. XtTypes /\ HooksOk /\ ListensOk
  BY DEF XtInvariant
<1>2. xt.hooks = IF \E b \in Bins : bin[b].state = "live" THEN Hooks ELSE {}
  <2>1. LiveBins(bin) # {} <=> \E b \in Bins : bin[b].state = "live"
    BY DEF LiveBins
  <2> QED
    BY <1>1, <2>1 DEF HooksOk
<1>3. ASSUME xevents = <<>>, NEW w \in Nodes, IsWidget(w), Ancestors(w) \cap bereft = {}
      PROVE  w \in listeners
  <2>1. w \in listeners \/ \E a \in Above(tree, w) : Announced(xevents, tree, listeners, a)
    BY <1>1, <1>3, WidgetIs DEF ListensOk, Heard, Ancestors
  <2>2. ASSUME NEW a PROVE ~Announced(xevents, tree, listeners, a)
    <3>1. 1..Len(xevents) = {}
      BY <1>3
    <3> QED
      BY <3>1 DEF Announced
  <2> QED
    BY <2>1, <2>2
<1> QED
  BY <1>2, <1>3 DEF ClicksAreHeard, Nodes

\* Once all events are worked off, every widget of an Xt plugin listens that
\* has, with those above it, lost no child, and the display is in the main loop
\* just as long as there is a bin: whatever the plugin builds, moves and
\* destroys and in whatever batches its events are worked off, for any number
\* of bins and widgets and any length of the queue.
THEOREM ClicksAlwaysHeard ==
    XtInit /\ [][XtNext]_xtVars => []ClicksAreHeard
<1>1. XtInit => XtInvariant
  BY XtStart
<1>2. XtInvariant /\ [XtNext]_xtVars => XtInvariant'
  BY XtStep
<1>3. XtInvariant => ClicksAreHeard
  BY ClicksHeard
<1> QED
  BY <1>1, <1>2, <1>3, PTL

-----------------------------------------------------------------------------
(* The command line v, and the descriptors that its first arguments fill.    *)

\* Which arguments are values is decided from the first one on.
OwnRule(v, own, m) ==
    /\ own \subseteq 1 .. m
    /\ \A j \in 1 .. m : j \in own <=> j = 1 \/ ~(j - 1 \in own /\ Takes(v[j - 1]))

LEMMA OwnArguments ==
    ASSUME NEW v, Len(v) \in Nat
    PROVE  OwnRule(v, OwnOf(v), Len(v))
<1> DEFINE T == {m \in Nat : \E own : OwnRule(v, own, m)}
<1>1. 0 \in T
  <2>1. OwnRule(v, {}, 0)
    BY DEF OwnRule
  <2> QED
    BY <2>1
<1>2. ASSUME NEW m \in T PROVE m + 1 \in T
  <2>1. PICK own : OwnRule(v, own, m)
    OBVIOUS
  <2> DEFINE takes == m + 1 = 1 \/ ~(m \in own /\ Takes(v[m]))
             more == IF takes THEN own \cup {m + 1} ELSE own
  <2>2. m \in Nat /\ own \subseteq 1 .. m /\ 1 .. (m + 1) = 1 .. m \cup {m + 1}
    BY <2>1 DEF OwnRule
  <2>3. more \subseteq 1 .. (m + 1) /\ (m + 1 \in more <=> takes)
    BY <2>2
  <2>4. \A j \in 1 .. m : j \in more <=> j \in own
    BY <2>2
  <2> HIDE DEF more
  <2>5. m \in more <=> m \in own
    BY <2>2, <2>4 DEF more
  <2>6. ASSUME NEW j \in 1 .. (m + 1)
        PROVE  j \in more <=> j = 1 \/ ~(j - 1 \in more /\ Takes(v[j - 1]))
    <3>1. CASE j = m + 1
      <4>1. j - 1 = m
        BY <2>2, <3>1
      <4> QED
        BY <2>3, <2>5, <3>1, <4>1
    <3>2. CASE j \in 1 .. m
      <4>1. j \in own <=> j = 1 \/ ~(j - 1 \in own /\ Takes(v[j - 1]))
        BY <2>1, <3>2 DEF OwnRule
      <4>2. j # 1 => j - 1 \in 1 .. m
        BY <2>2, <3>2
      <4> QED
        BY <2>4, <3>2, <4>1, <4>2
    <3> QED
      BY <2>2, <3>1, <3>2
  <2>7. OwnRule(v, more, m + 1)
    BY <2>3, <2>6 DEF OwnRule
  <2> QED
    BY <2>2, <2>7
<1>3. T = Nat
  BY <1>1, <1>2, SetOfAllNumbers
<1>4. \E own : OwnRule(v, own, Len(v))
  BY <1>3
<1> QED
  BY <1>4 DEF OwnOf, OwnRule

\* The sections are counted by the --plugin before them.
Openers(v, j) == {i \in OwnOf(v) : i <= j /\ IsOption(v[i], "--plugin")}
SectionAt(v, j) == Cardinality(Openers(v, j))

LEMMA SectionsGrow ==
    ASSUME NEW v, Len(v) \in Nat, NEW i \in Nat, NEW j \in Nat, j <= i
    PROVE  /\ SectionAt(v, i) \in Nat /\ SectionAt(v, j) \in Nat /\ SectionAt(v, j) <= SectionAt(v, i)
<1>1. OwnOf(v) \subseteq 1 .. Len(v)
  BY OwnArguments DEF OwnRule
<1>2. Openers(v, i) \subseteq 1 .. Len(v) /\ Openers(v, j) \subseteq Openers(v, i)
  BY <1>1 DEF Openers
<1>3. IsFiniteSet(1 .. Len(v))
  BY FS_Interval
<1>4. IsFiniteSet(Openers(v, i))
  BY <1>2, <1>3, FS_Subset
<1> QED
  BY <1>2, <1>4, FS_Subset, FS_CardinalityType DEF SectionAt

LEMMA NextSection ==
    ASSUME NEW v, Len(v) \in Nat, NEW i \in Nat \ {0}
    PROVE  SectionAt(v, i) = IF i \in OwnOf(v) /\ IsOption(v[i], "--plugin") THEN SectionAt(v, i - 1) + 1
                             ELSE SectionAt(v, i - 1)
<1>1. OwnOf(v) \subseteq 1 .. Len(v)
  BY OwnArguments DEF OwnRule
<1>2. IsFiniteSet(Openers(v, i - 1)) /\ i \notin Openers(v, i - 1)
  <2>1. Openers(v, i - 1) \subseteq 1 .. Len(v) /\ IsFiniteSet(1 .. Len(v))
    BY <1>1, FS_Interval DEF Openers
  <2> QED
    BY <1>1, <2>1, FS_Subset DEF Openers
<1>3. CASE i \in OwnOf(v) /\ IsOption(v[i], "--plugin")
  <2>1. Openers(v, i) = Openers(v, i - 1) \cup {i}
    BY <1>1, <1>3 DEF Openers
  <2> QED
    BY <1>2, <1>3, <2>1, FS_AddElement DEF SectionAt
<1>4. CASE ~(i \in OwnOf(v) /\ IsOption(v[i], "--plugin"))
  <2>1. Openers(v, i) = Openers(v, i - 1)
    BY <1>1, <1>4 DEF Openers
  <2> QED
    BY <1>4, <2>1 DEF SectionAt
<1> QED
  BY <1>3, <1>4

\* What reading the argument i passes over.
OwnBefore(v, i) == {k \in OwnOf(v) : k < i}

Passes(v, i, next) ==
    /\ next \in Nat \ {0}
    /\ next <= Len(v) => next \in OwnOf(v)
    /\ OwnBefore(v, next) = OwnBefore(v, i) \cup {i}
    /\ SectionAt(v, next - 1) = SectionAt(v, i)
    /\ \A k \in OwnBefore(v, i) : SectionAt(v, k) \in Nat /\ SectionAt(v, k) <= SectionAt(v, i - 1)

LEMMA NextArgument ==
    ASSUME NEW v, Len(v) \in Nat, NEW i \in OwnOf(v)
    PROVE  Passes(v, i, IF Takes(v[i]) THEN i + 2 ELSE i + 1)
<1> DEFINE next == IF Takes(v[i]) THEN i + 2 ELSE i + 1
<1>1. /\ OwnOf(v) \subseteq 1 .. Len(v)
      /\ \A j \in 1 .. Len(v) : j \in OwnOf(v) <=> j = 1 \/ ~(j - 1 \in OwnOf(v) /\ Takes(v[j - 1]))
  BY OwnArguments DEF OwnRule
<1>2. i \in 1 .. Len(v)
  BY <1>1
<1>3. i + 1 <= Len(v) => (i + 1 \in OwnOf(v) <=> ~Takes(v[i]))
  <2>1. i + 1 - 1 = i /\ i + 1 # 1
    BY <1>2
  <2> QED
    BY <1>1, <1>2, <2>1
<1>4. Takes(v[i]) => i + 1 \notin OwnOf(v)
  BY <1>1, <1>2, <1>3
<1>5. Takes(v[i]) /\ i + 2 <= Len(v) => i + 2 \in OwnOf(v)
  <2>1. i + 2 - 1 = i + 1
    BY <1>2
  <2> QED
    BY <1>1, <1>2, <1>4, <2>1
<1>6. next \in Nat \ {0} /\ (next <= Len(v) => next \in OwnOf(v))
  BY <1>2, <1>3, <1>5
<1>7. OwnBefore(v, next) = OwnBefore(v, i) \cup {i}
  BY <1>1, <1>2, <1>4 DEF OwnBefore
<1>8. SectionAt(v, next - 1) = SectionAt(v, i)
  <2>1. CASE Takes(v[i])
    <3>1. SectionAt(v, i + 1) = SectionAt(v, i)
      <4> DEFINE k == i + 1
      <4>1. k - 1 = i /\ k \in Nat \ {0} /\ k \notin OwnOf(v)
        BY <1>2, <1>4, <2>1
      <4> HIDE DEF k
      <4>2. SectionAt(v, k) = SectionAt(v, k - 1)
        BY <4>1, NextSection
      <4> QED
        BY <4>1, <4>2 DEF k
    <3>2. next - 1 = i + 1
      BY <1>2, <2>1
    <3> QED
      BY <3>1, <3>2
  <2>2. CASE ~Takes(v[i])
    <3>1. next - 1 = i
      BY <1>2, <2>2
    <3> QED
      BY <3>1
  <2> QED
    BY <2>1, <2>2
<1>9. ASSUME NEW k \in OwnBefore(v, i)
      PROVE  SectionAt(v, k) \in Nat /\ SectionAt(v, k) <= SectionAt(v, i - 1)
  <2>1. k \in Nat /\ i - 1 \in Nat /\ k <= i - 1
    BY <1>1, <1>2 DEF OwnBefore
  <2> QED
    BY <2>1, SectionsGrow
<1> QED
  BY <1>6, <1>7, <1>8, <1>9 DEF Passes

-----------------------------------------------------------------------------
(* A descriptor, and the arguments J with a value that have filled it.       *)
NamesOf(v, J) == {strdown(v[j].name) : j \in J}
For(v, J, n) == {j \in J : strdown(v[j].name) = n}
LastIn(v, J) == v[CHOOSE j \in J : \A i \in J : i <= j].value
ValueOf(v, J, n) == IF n = "src" THEN sanitize_url(LastIn(v, For(v, J, n))) ELSE LastIn(v, For(v, J, n))

Describes(v, d, J) ==
    /\ d \in Descriptors
    /\ d.attrs = {<<n, ValueOf(v, J, n)>> : n \in NamesOf(v, J) \ {"width"}}
    /\ d.width = IF "width" \in NamesOf(v, J) THEN LastIn(v, For(v, J, "width")) ELSE DEFAULT_WIDTH

LEMMA LastAdded ==
    ASSUME NEW v, NEW i \in Nat, NEW J, J \subseteq Nat, \A j \in J : j < i
    PROVE  LastIn(v, J \cup {i}) = v[i].value
<1> DEFINE K == J \cup {i}
<1>1. i \in K /\ \A j \in K : j <= i
  OBVIOUS
<1>2. ASSUME NEW k \in K, \A j \in K : j <= k PROVE k = i
  BY <1>1, <1>2
<1>3. (CHOOSE k \in K : \A j \in K : j <= k) = i
  BY <1>1, <1>2
<1> QED
  BY <1>3 DEF LastIn

LEMMA NewDescribesNothing ==
    ASSUME NEW v
    PROVE  Describes(v, plugin_descriptor_new, {})
<1>1. NamesOf(v, {}) = {}
  BY DEF NamesOf
<1> QED
  BY <1>1 DEF Describes, plugin_descriptor_new, Descriptors

LEMMA ModeDescribes ==
    ASSUME NEW v, NEW J, NEW d, Describes(v, d, J), NEW a, Is(a, "bare")
    PROVE  Describes(v, Attribute(d, a), J)
<1>1. d \in Descriptors
  BY DEF Describes
<1>2. Attribute(d, a) \in {d, [d EXCEPT !.mode = "NP_EMBED"], [d EXCEPT !.mode = "NP_FULL"]}
  BY DEF Attribute
<1>3. /\ Attribute(d, a) \in Descriptors
      /\ Attribute(d, a).attrs = d.attrs /\ Attribute(d, a).width = d.width
  BY <1>1, <1>2 DEF Descriptors
<1> QED
  BY <1>3 DEF Describes

LEMMA AttributeDescribes ==
    ASSUME NEW v \in Seq(Arguments), NEW i \in 1 .. Len(v), Is(v[i], "name"),
           NEW J, J \subseteq 1 .. (i - 1), NEW d, Describes(v, d, J)
    PROVE  Describes(v, Attribute(d, v[i]), J \cup {i})
<1> DEFINE m == strdown(v[i].name)
           x == v[i].value
           K == J \cup {i}
           e == Attribute(d, v[i])
<1>0. /\ v[i] \in Named /\ ~Is(v[i], "bare") /\ d \in Descriptors
      /\ d.attrs \in SUBSET Attributes
  BY ArgumentsAssumption DEF Named, Is, Describes, Descriptors
<1>1. NamesOf(v, K) = NamesOf(v, J) \cup {m}
  BY DEF NamesOf
<1>2. \A n : n # m => For(v, K, n) = For(v, J, n)
  BY DEF For
<1>3. For(v, K, m) = For(v, J, m) \cup {i}
  BY DEF For
<1>4. \A n : n # m => ValueOf(v, K, n) = ValueOf(v, J, n)
  BY <1>2 DEF ValueOf
<1>5. LastIn(v, For(v, K, m)) = x
  <2>1. i \in Nat /\ J \subseteq Nat /\ \A j \in J : j < i
    OBVIOUS
  <2>2. For(v, J, m) \subseteq J
    BY DEF For
  <2>3. For(v, J, m) \subseteq Nat /\ \A j \in For(v, J, m) : j < i
    BY <2>1, <2>2
  <2> QED
    BY <1>3, <2>1, <2>3, LastAdded
<1>6. ValueOf(v, K, m) = IF m = "src" THEN sanitize_url(x) ELSE x
  BY <1>5 DEF ValueOf
<1>7. IF m = "width" THEN x \in Widths ELSE AttributeOf(v[i]) \in Attributes
  BY <1>0 DEF Widths, Attributes
<1>8. CASE m = "width"
  <2>1. e = [d EXCEPT !.width = x]
    BY <1>0, <1>8 DEF Attribute
  <2> HIDE DEF e, K
  <2>2. e \in Descriptors /\ e.attrs = d.attrs /\ e.width = x
    BY <1>0, <1>7, <1>8, <2>1 DEF Descriptors
  <2>3. NamesOf(v, K) \ {"width"} = NamesOf(v, J) \ {"width"} /\ "width" \in NamesOf(v, K)
    BY <1>1, <1>8
  <2>4. \A n \in NamesOf(v, J) \ {"width"} : ValueOf(v, K, n) = ValueOf(v, J, n)
    BY <1>4, <1>8
  <2>5. e.attrs = {<<n, ValueOf(v, K, n)>> : n \in NamesOf(v, K) \ {"width"}}
    BY <2>2, <2>3, <2>4 DEF Describes
  <2>6. Describes(v, e, K)
    BY <1>5, <1>8, <2>2, <2>3, <2>5 DEF Describes
  <2> QED
    BY <2>6 DEF e, K
<1>9. CASE m # "width"
  <2> DEFINE y == IF m = "src" THEN sanitize_url(x) ELSE x
  <2>1. e = [d EXCEPT !.attrs = {a \in d.attrs : a[1] # m} \cup {<<m, y>>}]
    BY <1>0, <1>9 DEF Attribute, SetAttribute
  <2>2. <<m, y>> \in Attributes
    BY <1>7, <1>9 DEF AttributeOf
  <2>3. ValueOf(v, K, m) = y
    BY <1>6
  <2> HIDE DEF e, K, y, m
  <2>4. e \in Descriptors /\ e.attrs = {a \in d.attrs : a[1] # m} \cup {<<m, y>>} /\ e.width = d.width
    BY <1>0, <2>1, <2>2 DEF Descriptors
  <2>5. e.attrs = {<<n, ValueOf(v, K, n)>> : n \in NamesOf(v, K) \ {"width"}}
    <3>1. d.attrs = {<<n, ValueOf(v, J, n)>> : n \in NamesOf(v, J) \ {"width"}}
      BY DEF Describes
    <3>2. {a \in d.attrs : a[1] # m} = {<<n, ValueOf(v, J, n)>> : n \in NamesOf(v, J) \ {"width", m}}
      BY <3>1
    <3>3. {<<n, ValueOf(v, J, n)>> : n \in NamesOf(v, J) \ {"width", m}}
            = {<<n, ValueOf(v, K, n)>> : n \in NamesOf(v, J) \ {"width", m}}
      BY <1>4
    <3>4. NamesOf(v, K) \ {"width"} = (NamesOf(v, J) \ {"width", m}) \cup {m}
      BY <1>1, <1>9
    <3>5. {<<n, ValueOf(v, K, n)>> : n \in NamesOf(v, K) \ {"width"}}
            = {<<n, ValueOf(v, K, n)>> : n \in NamesOf(v, J) \ {"width", m}} \cup {<<m, y>>}
      BY <2>3, <3>4
    <3> QED
      BY <2>4, <3>2, <3>3, <3>5
  <2>6. e.width = IF "width" \in NamesOf(v, K) THEN LastIn(v, For(v, K, "width")) ELSE DEFAULT_WIDTH
    BY <1>1, <1>2, <1>9, <2>4 DEF Describes
  <2>7. Describes(v, e, K)
    BY <2>4, <2>5, <2>6 DEF Describes
  <2> QED
    BY <2>7 DEF e, K
<1> QED
  BY <1>8, <1>9


-----------------------------------------------------------------------------
(* The inductive invariant: the descriptors ds and d after the arguments     *)
(* before i.                                                                 *)
Content(v, i) == {j \in OwnBefore(v, i) : IsOption(v[j], "--plugin") \/ ~Is(v[j], "option")}
SectionsIn(v, i) == {SectionAt(v, j) : j \in Content(v, i)}
NamedIn(v, s, i) == {j \in OwnBefore(v, i) : SectionAt(v, j) = s /\ Is(v[j], "name")}

\* The k-th descriptor is for section k - z, where z = 1 if there are
\* attributes before the first --plugin.
Filled(v, i, ds, d, z, last) ==
    /\ SectionsIn(v, i) = (1 - z) .. last
    /\ ds \in Seq(Descriptors)
    /\ \A k \in 1 .. Len(ds) : Describes(v, ds[k], NamedIn(v, k - z, i))
    /\ IF d = NoDesc THEN last + z = 0 /\ ds = <<>>
       ELSE last + z = Len(ds) + 1 /\ Describes(v, d, NamedIn(v, last, i))

ReadUpTo(v, i, ds, d) == \E z \in {0, 1} : Filled(v, i, ds, d, z, SectionAt(v, i - 1))

AllRead(v, ds) ==
    \E z \in {0, 1} :
        /\ SectionsIn(v, Len(v) + 1) = (1 - z) .. (Len(ds) - z)
        /\ ds \in Seq(Descriptors)
        /\ \A k \in 1 .. Len(ds) : Describes(v, ds[k], NamedIn(v, k - z, Len(v) + 1))

\* The window of an app for descriptor d, and the arguments of its NPP_New.
AppOf(d, app) ==
    /\ app \in [width : {d.width} \cup WindowWidths, resized : BOOLEAN, due : BOOLEAN]
    /\ ~app.resized => app.width = d.width
NewOf(d, app, new) ==
    /\ ObjectType(d.attrs) # NoDesc
    /\ \E w \in {d.width} \cup WindowWidths :
          /\ ~app.resized => w = d.width
          /\ new.args = WithType(d.attrs) \cup {<<"width", w>>}

Made(ds) ==
    /\ AllRead(argv, ds)
    /\ DOMAIN started = 1 .. Len(ds) /\ started = [k \in DOMAIN started |-> started[k]]
    /\ DOMAIN apps = 1 .. Len(ds) /\ apps = [k \in DOMAIN apps |-> apps[k]]
    /\ \A k \in 1 .. Len(ds) :
          AppOf(ds[k], apps[k]) /\ (started[k] = NoDesc \/ NewOf(ds[k], apps[k], started[k]))

MainInvariant ==
    /\ argv \in Seq(Arguments)
    /\ argi \in Nat \ {0} /\ (argi <= Len(argv) => argi \in OwnOf(argv))
    /\ player = "arguments" => started = <<>> /\ ReadUpTo(argv, argi, plugin_descs, plugin_desc)
    /\ started = <<>> \/ Made(plugin_descs)

\* The sets after the argument i.
Grown(v, i, next) ==
    LET a == v[i]
        content == IsOption(a, "--plugin") \/ ~Is(a, "option")
        s == SectionAt(v, i)
    IN  /\ SectionsIn(v, next) = SectionsIn(v, i) \cup (IF content THEN {s} ELSE {})
        /\ \A r : NamedIn(v, r, next) = NamedIn(v, r, i) \cup (IF r = s /\ Is(a, "name") THEN {i} ELSE {})
        /\ SectionAt(v, next - 1) = s
        /\ s = SectionAt(v, i - 1) + (IF IsOption(a, "--plugin") THEN 1 ELSE 0)
        /\ SectionAt(v, i - 1) \in Nat
        /\ \A r : NamedIn(v, r, i) \subseteq 1 .. (i - 1)
        /\ \A r : SectionAt(v, i - 1) < r => NamedIn(v, r, i) = {}
        /\ \A r : r \notin SectionsIn(v, i) => NamedIn(v, r, i) = {}

LEMMA SetsGrow ==
    ASSUME NEW v \in Seq(Arguments), NEW i \in OwnOf(v), NEW next, Passes(v, i, next)
    PROVE  Grown(v, i, next)
<1> DEFINE a == v[i]
           s == SectionAt(v, i)
<1>1. Len(v) \in Nat /\ OwnOf(v) \subseteq 1 .. Len(v) /\ i \in 1 .. Len(v) /\ v[i] \in Arguments
  <2>1. OwnOf(v) \subseteq 1 .. Len(v)
    BY OwnArguments DEF OwnRule
  <2> QED
    BY <2>1
<1>2. s = SectionAt(v, i - 1) + (IF IsOption(a, "--plugin") THEN 1 ELSE 0) /\ SectionAt(v, i - 1) \in Nat
  <2>1. i - 1 \in Nat /\ i \in Nat \ {0}
    BY <1>1
  <2>2. SectionAt(v, i - 1) \in Nat
    BY <1>1, <2>1, SectionsGrow
  <2> QED
    BY <1>1, <2>1, <2>2, NextSection
<1>3. /\ SectionsIn(v, next) = SectionsIn(v, i) \cup
            (IF IsOption(a, "--plugin") \/ ~Is(a, "option") THEN {s} ELSE {})
  <2>1. Content(v, next) = Content(v, i) \cup
            (IF IsOption(a, "--plugin") \/ ~Is(a, "option") THEN {i} ELSE {})
    BY DEF Content, Passes
  <2> QED
    BY <2>1 DEF SectionsIn
<1>4. \A r : NamedIn(v, r, next) = NamedIn(v, r, i) \cup (IF r = s /\ Is(a, "name") THEN {i} ELSE {})
  BY DEF NamedIn, Passes
<1>5. \A r : NamedIn(v, r, i) \subseteq 1 .. (i - 1)
  BY <1>1 DEF NamedIn, OwnBefore
<1>6. ASSUME NEW r, SectionAt(v, i - 1) < r PROVE NamedIn(v, r, i) = {}
  <2>1. \A k \in OwnBefore(v, i) : SectionAt(v, k) \in Nat /\ SectionAt(v, k) <= SectionAt(v, i - 1)
    BY DEF Passes
  <2>2. ASSUME NEW k \in NamedIn(v, r, i) PROVE FALSE
    <3>1. k \in OwnBefore(v, i) /\ SectionAt(v, k) = r
      BY DEF NamedIn
    <3> QED
      BY <1>2, <1>6, <2>1, <3>1
  <2> QED
    BY <2>2
<1>7. ASSUME NEW r, r \notin SectionsIn(v, i) PROVE NamedIn(v, r, i) = {}
  <2>1. ASSUME NEW k \in NamedIn(v, r, i) PROVE FALSE
    <3>1. k \in OwnBefore(v, i) /\ SectionAt(v, k) = r /\ Is(v[k], "name")
      BY DEF NamedIn
    <3>2. v[k] \in Arguments
      BY <1>1, <3>1 DEF OwnBefore
    <3>3. ~Is(v[k], "option")
      BY <3>1, <3>2, ArgumentsAssumption DEF Is
    <3> QED
      BY <1>7, <3>1, <3>3 DEF SectionsIn, Content
  <2> QED
    BY <2>1
<1>8. SectionAt(v, next - 1) = s
  BY DEF Passes
<1> QED
  BY <1>2, <1>3, <1>4, <1>5, <1>6, <1>7, <1>8 DEF Grown

\* An option that is not --plugin.
LEMMA OptionRead ==
    ASSUME NEW v \in Seq(Arguments), NEW i \in OwnOf(v), NEW next, Grown(v, i, next),
           NEW ds, NEW d, ReadUpTo(v, i, ds, d), Is(v[i], "option"), ~IsOption(v[i], "--plugin")
    PROVE  ReadUpTo(v, next, ds, d)
<1>1. /\ SectionsIn(v, next) = SectionsIn(v, i) /\ SectionAt(v, next - 1) = SectionAt(v, i - 1)
  BY DEF Grown
<1>2. ~Is(v[i], "name")
  <2>1. v[i] \in Arguments
    BY OwnArguments DEF OwnRule
  <2> QED
    BY <2>1, ArgumentsAssumption DEF Is
<1>3. \A r : NamedIn(v, r, next) = NamedIn(v, r, i)
  BY <1>2 DEF Grown
<1> QED
  BY <1>1, <1>3 DEF ReadUpTo, Filled

\* --plugin: the next descriptor.
LEMMA PluginRead ==
    ASSUME NEW v \in Seq(Arguments), NEW i \in OwnOf(v), NEW next, Grown(v, i, next),
           NEW ds, NEW d, ReadUpTo(v, i, ds, d), IsOption(v[i], "--plugin")
    PROVE  ReadUpTo(v, next, AddDesc(ds, d), plugin_descriptor_new)
<1> DEFINE P == SectionAt(v, i - 1)
           es == AddDesc(ds, d)
<1>1. PICK z \in {0, 1} : Filled(v, i, ds, d, z, P)
  BY DEF ReadUpTo
<1>2. /\ SectionsIn(v, next) = SectionsIn(v, i) \cup {P + 1} /\ SectionAt(v, next - 1) = P + 1
      /\ P \in Nat /\ NamedIn(v, P + 1, i) = {}
  BY DEF Grown
<1>3. \A r : NamedIn(v, r, next) = NamedIn(v, r, i)
  <2>1. v[i] \in Arguments
    BY OwnArguments DEF OwnRule
  <2>2. ~Is(v[i], "name")
    BY <2>1, ArgumentsAssumption DEF Is, IsOption
  <2> QED
    BY <2>2 DEF Grown
<1>4. plugin_descriptor_new # NoDesc
  BY NewDescribesNothing, ArgumentsAssumption DEF Describes
<1>5. Describes(v, plugin_descriptor_new, NamedIn(v, P + 1, next))
  BY <1>2, <1>3, NewDescribesNothing
<1> HIDE DEF P
<1>6. SectionsIn(v, next) = (1 - z) .. (P + 1)
  <2>1. SectionsIn(v, i) = (1 - z) .. P
    BY <1>1 DEF Filled
  <2> QED
    BY <1>2, <2>1
<1>7. CASE d = NoDesc
  <2>1. es = <<>> /\ ds = <<>> /\ P + z = 0
    BY <1>1, <1>7 DEF Filled, AddDesc
  <2> HIDE DEF es
  <2>2. es \in Seq(Descriptors) /\ Len(es) = 0 /\ P + 1 + z = 1
    BY <1>2, <2>1
  <2>3. Filled(v, next, es, plugin_descriptor_new, z, P + 1)
    BY <1>4, <1>5, <1>6, <2>2 DEF Filled
  <2> QED
    BY <1>2, <2>3 DEF ReadUpTo, es
<1>8. CASE d # NoDesc
  <2>1. /\ es = Append(ds, d) /\ ds \in Seq(Descriptors) /\ d \in Descriptors /\ P + z = Len(ds) + 1
        /\ Describes(v, d, NamedIn(v, P, i))
        /\ \A k \in 1 .. Len(ds) : Describes(v, ds[k], NamedIn(v, k - z, i))
    BY <1>1, <1>8 DEF Filled, AddDesc, Describes
  <2> HIDE DEF es
  <2>2. /\ es \in Seq(Descriptors) /\ Len(es) = Len(ds) + 1 /\ es[Len(ds) + 1] = d
        /\ \A k \in 1 .. Len(ds) : es[k] = ds[k]
    BY <2>1, AppendProps
  <2>3. Len(ds) \in Nat /\ Len(ds) + 1 - z = P /\ P + 1 + z = Len(es) + 1
    BY <1>2, <2>1, <2>2
  <2>4. ASSUME NEW k \in 1 .. Len(es) PROVE Describes(v, es[k], NamedIn(v, k - z, next))
    <3>1. CASE k = Len(ds) + 1
      BY <1>3, <2>1, <2>2, <2>3, <3>1
    <3>2. CASE k \in 1 .. Len(ds)
      BY <1>3, <2>1, <2>2, <3>2
    <3> QED
      BY <2>2, <2>3, <3>1, <3>2
  <2>5. Filled(v, next, es, plugin_descriptor_new, z, P + 1)
    BY <1>4, <1>5, <1>6, <2>2, <2>3, <2>4 DEF Filled
  <2> QED
    BY <1>2, <2>5 DEF ReadUpTo, es
<1> QED
  BY <1>7, <1>8

\* An attribute, of the descriptor that is being filled or of a new one.
LEMMA AttributeRead ==
    ASSUME NEW v \in Seq(Arguments), NEW i \in OwnOf(v), NEW next, Grown(v, i, next),
           NEW ds, NEW d, ReadUpTo(v, i, ds, d), ~Is(v[i], "option")
    PROVE  ReadUpTo(v, next, ds, Attribute(IF d = NoDesc THEN plugin_descriptor_new ELSE d, v[i]))
<1> DEFINE P == SectionAt(v, i - 1)
           c == IF d = NoDesc THEN plugin_descriptor_new ELSE d
           e == Attribute(c, v[i])
<1>1. PICK z \in {0, 1} : Filled(v, i, ds, d, z, P)
  BY DEF ReadUpTo
<1>2. ~IsOption(v[i], "--plugin")
  BY DEF IsOption
<1>3. /\ SectionsIn(v, next) = SectionsIn(v, i) \cup {P} /\ SectionAt(v, next - 1) = P /\ P \in Nat
      /\ \A r : NamedIn(v, r, next) = NamedIn(v, r, i) \cup (IF r = P /\ Is(v[i], "name") THEN {i} ELSE {})
      /\ NamedIn(v, P, i) \subseteq 1 .. (i - 1)
  BY <1>2 DEF Grown
<1>4. i \in 1 .. Len(v) /\ v[i] \in Arguments
  BY OwnArguments DEF OwnRule
<1>5. Describes(v, c, NamedIn(v, P, i))
  <2>1. CASE d = NoDesc
    <3>1. SectionsIn(v, i) = (1 - z) .. P /\ P + z = 0
      BY <1>1, <2>1 DEF Filled
    <3>2. P \notin SectionsIn(v, i)
      BY <1>3, <3>1
    <3>3. NamedIn(v, P, i) = {}
      BY <3>2 DEF Grown
    <3> QED
      BY <2>1, <3>3, NewDescribesNothing
  <2>2. CASE d # NoDesc
    BY <1>1, <2>2 DEF Filled
  <2> QED
    BY <2>1, <2>2
<1> HIDE DEF P, c
<1>6. Describes(v, e, NamedIn(v, P, next))
  <2>1. CASE Is(v[i], "bare")
    <3>1. ~Is(v[i], "name")
      BY <1>4, <2>1, ArgumentsAssumption DEF Is
    <3>2. NamedIn(v, P, next) = NamedIn(v, P, i)
      BY <1>3, <3>1
    <3> QED
      BY <1>5, <2>1, <3>2, ModeDescribes
  <2>2. CASE ~Is(v[i], "bare")
    <3>1. Is(v[i], "name")
      BY <1>4, <2>2, ArgumentsAssumption DEF Is
    <3>2. NamedIn(v, P, next) = NamedIn(v, P, i) \cup {i}
      BY <1>3, <3>1
    <3> DEFINE J == NamedIn(v, P, i)
    <3>3. J \subseteq 1 .. (i - 1) /\ Describes(v, c, J)
      BY <1>3, <1>5
    <3> HIDE DEF J
    <3>4. Describes(v, Attribute(c, v[i]), J \cup {i})
      BY <1>4, <3>1, <3>3, AttributeDescribes
    <3> QED
      BY <3>2, <3>4 DEF J
  <2> QED
    BY <2>1, <2>2
<1>7. e # NoDesc
  BY <1>6, ArgumentsAssumption DEF Describes
<1> HIDE DEF e
<1>8. CASE d = NoDesc
  <2>1. ds = <<>> /\ P = 0 /\ SectionsIn(v, i) = {}
    <3>1. ds = <<>> /\ P + z = 0 /\ SectionsIn(v, i) = (1 - z) .. P
      BY <1>1, <1>8 DEF Filled
    <3> QED
      BY <1>3, <3>1
  <2>2. SectionsIn(v, next) = (1 - 1) .. P /\ ds \in Seq(Descriptors) /\ Len(ds) = 0 /\ P + 1 = Len(ds) + 1
    BY <1>3, <2>1
  <2>3. Filled(v, next, ds, e, 1, P)
    BY <1>6, <1>7, <2>2 DEF Filled
  <2> QED
    BY <1>3, <2>3 DEF ReadUpTo, e, c
<1>9. CASE d # NoDesc
  <2>1. /\ ds \in Seq(Descriptors) /\ P + z = Len(ds) + 1 /\ SectionsIn(v, i) = (1 - z) .. P
        /\ \A k \in 1 .. Len(ds) : Describes(v, ds[k], NamedIn(v, k - z, i))
    BY <1>1, <1>9 DEF Filled
  <2>2. Len(ds) \in Nat /\ SectionsIn(v, next) = (1 - z) .. P
    BY <1>3, <2>1
  <2>3. ASSUME NEW k \in 1 .. Len(ds) PROVE NamedIn(v, k - z, next) = NamedIn(v, k - z, i)
    <3>1. k - z # P
      BY <1>3, <2>1, <2>2
    <3> QED
      BY <1>3, <3>1
  <2>4. Filled(v, next, ds, e, z, P)
    BY <1>6, <1>7, <2>1, <2>2, <2>3 DEF Filled
  <2> QED
    BY <1>3, <2>4 DEF ReadUpTo, e, c
<1> QED
  BY <1>8, <1>9

\* The steps of main(), and of the timeouts.
LEMMA ReadArgumentInv ==
    ASSUME MainInvariant, ReadArgument
    PROVE  MainInvariant'
<1> DEFINE a == argv[argi]
<1>1. /\ argv \in Seq(Arguments) /\ argi \in OwnOf(argv) /\ started = <<>>
      /\ ReadUpTo(argv, argi, plugin_descs, plugin_desc) /\ player = "arguments"
  BY DEF MainInvariant, ReadArgument
<1>2. argv' = argv /\ started' = started
  BY <1>1 DEF ReadArgument
<1>3. Passes(argv, argi, argi')
  <2>1. Len(argv) \in Nat
    BY <1>1
  <2>2. argi' = IF Takes(argv[argi]) THEN argi + 2 ELSE argi + 1
    BY DEF ReadArgument
  <2> QED
    BY <1>1, <2>1, <2>2, NextArgument
<1>4. Grown(argv, argi, argi')
  BY <1>1, <1>3, SetsGrow
<1>5. ReadUpTo(argv, argi', plugin_descs', plugin_desc')
  <2>1. CASE Is(a, "option") /\ ~IsOption(a, "--plugin")
    <3>1. plugin_descs' = plugin_descs /\ plugin_desc' = plugin_desc
      BY <2>1 DEF ReadArgument
    <3> QED
      BY <1>1, <1>4, <2>1, <3>1, OptionRead
  <2>2. CASE IsOption(a, "--plugin")
    <3>1. plugin_descs' = AddDesc(plugin_descs, plugin_desc) /\ plugin_desc' = plugin_descriptor_new
      BY <2>2 DEF ReadArgument, IsOption
    <3> QED
      BY <1>1, <1>4, <2>2, <3>1, PluginRead
  <2>3. CASE ~Is(a, "option")
    <3>1. /\ plugin_descs' = plugin_descs
          /\ plugin_desc' = Attribute(IF plugin_desc = NoDesc THEN plugin_descriptor_new ELSE plugin_desc, a)
      BY <2>3 DEF ReadArgument, Current
    <3> QED
      BY <1>1, <1>4, <2>3, <3>1, AttributeRead
  <2> QED
    BY <2>1, <2>2, <2>3
<1>6. argi' \in Nat \ {0} /\ (argi' <= Len(argv) => argi' \in OwnOf(argv))
  BY <1>3 DEF Passes
<1> QED
  BY <1>1, <1>2, <1>5, <1>6 DEF MainInvariant

LEMMA EndOfArgumentsInv ==
    ASSUME MainInvariant, EndOfArguments
    PROVE  MainInvariant'
<1> DEFINE v == argv
           n == Len(argv)
           P == SectionAt(argv, argi - 1)
           es == AddDesc(plugin_descs, plugin_desc)
<1>1. /\ argv \in Seq(Arguments) /\ argi \in Nat /\ n \in Nat /\ n < argi /\ started = <<>>
      /\ ReadUpTo(argv, argi, plugin_descs, plugin_desc)
  <2>1. /\ argv \in Seq(Arguments) /\ argi \in Nat /\ started = <<>>
        /\ ReadUpTo(argv, argi, plugin_descs, plugin_desc) /\ argi > Len(argv)
    BY DEF MainInvariant, EndOfArguments
  <2>2. n \in Nat
    BY <2>1
  <2> QED
    BY <2>1, <2>2
<1>2. /\ argv' = argv /\ argi' = argi /\ plugin_descs' = es /\ player' # "arguments"
      /\ started' = [k \in 1 .. Len(plugin_descs') |-> NoDesc]
      /\ apps' = [k \in 1 .. Len(plugin_descs') |->
                     [width |-> plugin_descs'[k].width, resized |-> FALSE, due |-> TRUE]]
  BY DEF EndOfArguments
<1>3. OwnBefore(v, argi) = OwnBefore(v, n + 1)
  <2>1. OwnOf(v) \subseteq 1 .. n
    BY <1>1, OwnArguments DEF OwnRule
  <2> QED
    BY <1>1, <2>1 DEF OwnBefore
<1>4. SectionsIn(v, argi) = SectionsIn(v, n + 1) /\ \A r : NamedIn(v, r, argi) = NamedIn(v, r, n + 1)
  BY <1>3 DEF SectionsIn, Content, NamedIn
<1>5. PICK z \in {0, 1} : Filled(v, argi, plugin_descs, plugin_desc, z, P)
  BY <1>1 DEF ReadUpTo
<1>6. P \in Nat
  <2>1. argi - 1 \in Nat
    BY <1>1
  <2> QED
    BY <1>1, <2>1, SectionsGrow
<1>7. /\ SectionsIn(v, n + 1) = (1 - z) .. P /\ plugin_descs \in Seq(Descriptors)
      /\ \A k \in 1 .. Len(plugin_descs) : Describes(v, plugin_descs[k], NamedIn(v, k - z, n + 1))
  BY <1>4, <1>5 DEF Filled
<1>8. AllRead(v, es)
  <2> HIDE DEF P, v, n
  <2>1. CASE plugin_desc = NoDesc
    <3>1. es = <<>> /\ P + z = 0
      BY <1>5, <2>1 DEF Filled, AddDesc
    <3> HIDE DEF es
    <3>2. es \in Seq(Descriptors) /\ Len(es) = 0 /\ Len(es) - z = P
      BY <1>6, <3>1
    <3> QED
      BY <1>7, <3>2 DEF AllRead, n, v
  <2>2. CASE plugin_desc # NoDesc
    <3> DEFINE ds == plugin_descs
    <3>1. /\ es = Append(ds, plugin_desc) /\ P + z = Len(ds) + 1
          /\ Describes(v, plugin_desc, NamedIn(v, P, n + 1)) /\ plugin_desc \in Descriptors
      BY <1>4, <1>5, <2>2 DEF Filled, AddDesc, Describes
    <3> HIDE DEF es
    <3>2. /\ es \in Seq(Descriptors) /\ Len(es) = Len(ds) + 1 /\ es[Len(ds) + 1] = plugin_desc
          /\ \A k \in 1 .. Len(ds) : es[k] = ds[k]
      BY <1>7, <3>1, AppendProps
    <3>3. Len(ds) \in Nat /\ Len(es) - z = P /\ Len(ds) + 1 - z = P
      BY <1>6, <1>7, <3>1, <3>2
    <3>4. ASSUME NEW k \in 1 .. Len(es) PROVE Describes(v, es[k], NamedIn(v, k - z, n + 1))
      <4>1. CASE k = Len(ds) + 1
        BY <3>1, <3>2, <3>3, <4>1
      <4>2. CASE k \in 1 .. Len(ds)
        BY <1>7, <3>2, <4>2
      <4> QED
        BY <3>2, <3>3, <4>1, <4>2
    <3> QED
      BY <1>7, <3>2, <3>3, <3>4 DEF AllRead, n, v
  <2> QED
    BY <2>1, <2>2
<1> HIDE DEF es, v, n, P
<1>9. Made(plugin_descs)'
  BY <1>2, <1>8 DEF Made, AppOf, v
<1> QED
  BY <1>1, <1>2, <1>9 DEF MainInvariant

LEMMA DisplayInv ==
    ASSUME MainInvariant, NEW k \in DOMAIN started, NEW width \in WindowWidths, DisplayChanges(k, width)
    PROVE  MainInvariant'
<1>1. /\ player # "arguments" /\ UNCHANGED <<argv, argi, plugin_desc, plugin_descs, player, started>>
      /\ apps' = [apps EXCEPT ![k].width = width, ![k].resized = TRUE]
  BY DEF DisplayChanges, Running
<1> DEFINE ds == plugin_descs
<1>2. Made(ds) /\ k \in 1 .. Len(ds)
  <2>1. started # <<>>
    OBVIOUS
  <2> QED
    BY <2>1 DEF MainInvariant, Made
<1>3. /\ DOMAIN apps' = 1 .. Len(ds) /\ apps' = [j \in DOMAIN apps' |-> apps'[j]]
      /\ \A j \in 1 .. Len(ds) : j # k => apps'[j] = apps[j]
      /\ apps'[k] = [apps[k] EXCEPT !.width = width, !.resized = TRUE]
  BY <1>1, <1>2 DEF Made
<1>4. AppOf(ds[k], apps'[k]) /\ apps'[k].resized
  BY <1>2, <1>3 DEF Made, AppOf
<1>5. ASSUME NEW j \in 1 .. Len(ds)
      PROVE  AppOf(ds[j], apps'[j]) /\ (started[j] = NoDesc \/ NewOf(ds[j], apps'[j], started[j]))
  <2>1. AppOf(ds[j], apps[j]) /\ (started[j] = NoDesc \/ NewOf(ds[j], apps[j], started[j]))
    BY <1>2 DEF Made
  <2>2. CASE j = k
    BY <1>4, <2>1, <2>2 DEF NewOf
  <2>3. CASE j # k
    BY <1>3, <2>1, <2>3
  <2> QED
    BY <2>2, <2>3
<1> HIDE DEF ds
<1>6. Made(ds)'
  BY <1>1, <1>2, <1>3, <1>5 DEF Made, ds
<1> QED
  BY <1>1, <1>6 DEF MainInvariant, ds

LEMMA StartPluginInv ==
    ASSUME MainInvariant, NEW k \in DOMAIN started, StartPlugin(k)
    PROVE  MainInvariant'
<1> DEFINE ds == plugin_descs
           new == [mode |-> ds[k].mode, args |-> WithType(ds[k].attrs) \cup {<<"width", apps[k].width>>}]
<1>1. /\ player # "arguments" /\ player' # "arguments"
      /\ UNCHANGED <<argv, argi, plugin_desc, plugin_descs>>
      /\ apps' = [apps EXCEPT ![k].due = FALSE]
      /\ \/ started' = started
         \/ started' = [started EXCEPT ![k] = new] /\ ObjectType(ds[k].attrs) # NoDesc
  BY DEF StartPlugin, Running, g_NPP_New
<1>2. Made(ds) /\ k \in 1 .. Len(ds)
  <2>1. started # <<>>
    OBVIOUS
  <2> QED
    BY <2>1 DEF MainInvariant, Made
<1>3. /\ DOMAIN apps' = 1 .. Len(ds) /\ apps' = [j \in DOMAIN apps' |-> apps'[j]]
      /\ \A j \in 1 .. Len(ds) : j # k => apps'[j] = apps[j]
      /\ apps'[k] = [apps[k] EXCEPT !.due = FALSE]
  BY <1>1, <1>2 DEF Made
<1>4. AppOf(ds[k], apps[k]) /\ AppOf(ds[k], apps'[k]) /\ apps'[k].resized = apps[k].resized
  BY <1>2, <1>3 DEF Made, AppOf
<1>5. ObjectType(ds[k].attrs) # NoDesc => NewOf(ds[k], apps'[k], new)
  <2>1. /\ apps[k].width \in {ds[k].width} \cup WindowWidths
        /\ ~apps'[k].resized => apps[k].width = ds[k].width
    BY <1>4 DEF AppOf
  <2>2. new.args = WithType(ds[k].attrs) \cup {<<"width", apps[k].width>>}
    OBVIOUS
  <2> HIDE DEF new
  <2> QED
    BY <2>1, <2>2 DEF NewOf
<1> HIDE DEF new
<1>6. /\ DOMAIN started' = 1 .. Len(ds) /\ started' = [j \in DOMAIN started' |-> started'[j]]
      /\ \A j \in 1 .. Len(ds) : j # k => started'[j] = started[j]
      /\ started'[k] = started[k] \/ (started'[k] = new /\ ObjectType(ds[k].attrs) # NoDesc)
  BY <1>1, <1>2 DEF Made
<1>7. ASSUME NEW j \in 1 .. Len(ds)
      PROVE  AppOf(ds[j], apps'[j]) /\ (started'[j] = NoDesc \/ NewOf(ds[j], apps'[j], started'[j]))
  <2>1. AppOf(ds[j], apps[j]) /\ (started[j] = NoDesc \/ NewOf(ds[j], apps[j], started[j]))
    BY <1>2 DEF Made
  <2>2. CASE j = k /\ started'[k] = started[k]
    BY <1>4, <2>1, <2>2 DEF NewOf
  <2>3. CASE j = k /\ started'[k] = new /\ ObjectType(ds[k].attrs) # NoDesc
    BY <1>4, <1>5, <2>3
  <2>4. CASE j # k
    BY <1>3, <1>6, <2>1, <2>4
  <2> QED
    BY <1>6, <2>2, <2>3, <2>4
<1> HIDE DEF ds
<1>8. Made(ds)'
  BY <1>1, <1>2, <1>3, <1>6, <1>7 DEF Made, ds
<1> QED
  BY <1>1, <1>8 DEF MainInvariant, ds

LEMMA MainInitInv == MainInit => MainInvariant
<1> SUFFICES ASSUME MainInit PROVE MainInvariant
  OBVIOUS
<1>1. argv \in Seq(Arguments)
  <2>1. PICK n \in 0 .. MaxArguments : argv \in [1 .. n -> Arguments]
    BY DEF MainInit, Argvs
  <2>2. n \in Nat
    BY <2>1
  <2> QED
    BY <2>1, <2>2
<1>2. argi = 1 /\ player = "arguments" /\ started = <<>> /\ plugin_descs = <<>> /\ plugin_desc = NoDesc
  BY DEF MainInit
<1>3. Len(argv) \in Nat /\ OwnOf(argv) \subseteq 1 .. Len(argv) /\ (1 <= Len(argv) => 1 \in OwnOf(argv))
  BY <1>1, OwnArguments DEF OwnRule
<1>4. OwnBefore(argv, 1) = {} /\ Openers(argv, 0) = {}
  BY <1>3 DEF OwnBefore, Openers
<1>5. SectionAt(argv, 0) = 0 /\ SectionsIn(argv, 1) = {}
  BY <1>4, FS_EmptySet DEF SectionAt, SectionsIn, Content
<1>6. ReadUpTo(argv, 1, <<>>, NoDesc)
  <2>1. (1 - 0) .. 0 = {} /\ 1 - 1 = 0 /\ Len(<<>>) = 0 /\ <<>> \in Seq(Descriptors)
    OBVIOUS
  <2>2. Filled(argv, 1, <<>>, NoDesc, 0, 0)
    BY <1>5, <2>1 DEF Filled
  <2> QED
    BY <1>5, <2>1, <2>2 DEF ReadUpTo
<1> QED
  BY <1>1, <1>2, <1>3, <1>6 DEF MainInvariant

LEMMA MainNextInv ==
    ASSUME MainInvariant, [MainNext]_mainVars
    PROVE  MainInvariant'
<1>1. CASE UNCHANGED mainVars
  BY <1>1 DEF mainVars, MainInvariant, Made
<1>2. CASE EndOfLoop
  <2>1. player' # "arguments" /\ UNCHANGED <<argv, argi, plugin_desc, plugin_descs, apps, started>>
    BY <1>2 DEF EndOfLoop
  <2> QED
    BY <2>1 DEF MainInvariant, Made
<1>3. CASE MainNext /\ ~EndOfLoop
  BY <1>3, ReadArgumentInv, EndOfArgumentsInv, DisplayInv, StartPluginInv DEF MainNext
<1> QED
  BY <1>1, <1>2, <1>3

-----------------------------------------------------------------------------
(* What the invariant shows.                                                 *)

\* The k-th section is number k - z.
Kth(S, k) == CHOOSE s \in S : Cardinality({r \in S : r <= s}) = k

LEMMA KthSection ==
    ASSUME NEW z \in {0, 1}, NEW last \in Int, NEW S, S = (1 - z) .. last, NEW k \in 1 .. (last + z)
    PROVE  Kth(S, k) = k - z
<1>1. ASSUME NEW s \in S PROVE Cardinality({r \in S : r <= s}) = s + z
  <2>1. s \in Int /\ {r \in S : r <= s} = (1 - z) .. s /\ ~(1 - z > s) /\ 1 - z \in Int
    OBVIOUS
  <2> DEFINE first == 1 - z
             upTo == {r \in S : r <= s}
  <2>2. upTo = first .. s /\ ~(first > s) /\ first \in Int /\ s \in Int
    BY <2>1
  <2>3. s - first + 1 = s + z
    BY <2>1
  <2> HIDE DEF first, upTo
  <2>4. Cardinality(first .. s) = s - first + 1
    BY <2>2, FS_Interval
  <2>5. Cardinality(upTo) = s + z
    BY <2>2, <2>3, <2>4
  <2> QED
    BY <2>5 DEF upTo
<1>2. k - z \in S /\ S \subseteq Int
  OBVIOUS
<1>3. \A s \in S : Cardinality({r \in S : r <= s}) = k <=> s = k - z
  BY <1>1, <1>2
<1> QED
  BY <1>2, <1>3 DEF Kth

LEMMA ArgumentsOfNew ==
    ASSUME NEW v, NEW d, NEW J, Describes(v, d, J), ObjectType(d.attrs) # NoDesc
    PROVE  LET N == NamesOf(v, J)
               found == IF "type" \in N THEN ValueOf(v, J, "type") ELSE MimeOfUri(ValueOf(v, J, "src"))
           IN  /\ IF "type" \in N THEN found \in KnownTypes ELSE "src" \in N /\ found # NoDesc
               /\ WithType(d.attrs) = {<<n, ValueOf(v, J, n)>> : n \in N \ {"width"}} \cup {<<"type", found>>}
               /\ d.width = IF "width" \in N THEN ValueOf(v, J, "width") ELSE DEFAULT_WIDTH
<1> DEFINE N == NamesOf(v, J)
           found == IF "type" \in N THEN ValueOf(v, J, "type") ELSE MimeOfUri(ValueOf(v, J, "src"))
<1> DEFINE A == d.attrs
<1>1. A = {<<n, ValueOf(v, J, n)>> : n \in N \ {"width"}}
  BY DEF Describes
<1>2. d.width = IF "width" \in N THEN ValueOf(v, J, "width") ELSE DEFAULT_WIDTH
  BY DEF Describes, ValueOf
<1>a. \A a : a \in A <=> \E m \in N \ {"width"} : a = <<m, ValueOf(v, J, m)>>
  BY <1>1
<1> HIDE DEF A, N
<1>3. ASSUME NEW n, n # "width"
      PROVE  /\ HasAttribute(A, n) <=> n \in N
             /\ n \in N => LookupAttribute(A, n) = ValueOf(v, J, n)
  <2>1. HasAttribute(A, n) <=> n \in N
    <3>1. n \in N => <<n, ValueOf(v, J, n)>> \in A /\ <<n, ValueOf(v, J, n)>>[1] = n
      BY <1>3, <1>a
    <3>2. ASSUME NEW a \in A, a[1] = n PROVE n \in N
      <4>1. PICK m \in N \ {"width"} : a = <<m, ValueOf(v, J, m)>>
        BY <1>a
      <4> QED
        BY <3>2, <4>1
    <3> QED
      BY <3>1, <3>2, Zenon DEF HasAttribute
  <2>2. ASSUME n \in N PROVE LookupAttribute(A, n) = ValueOf(v, J, n)
    <3>1. /\ <<n, ValueOf(v, J, n)>> \in A
          /\ \A a \in A : a[1] = n => a = <<n, ValueOf(v, J, n)>>
      BY <1>3, <1>a, <2>2
    <3>2. (CHOOSE a \in A : a[1] = n) = <<n, ValueOf(v, J, n)>>
      BY <3>1
    <3> QED
      <4>1. LookupAttribute(A, n) = <<n, ValueOf(v, J, n)>>[2]
        BY <3>2, Zenon DEF LookupAttribute
      <4> QED
        BY <4>1
  <2> QED
    BY <2>1, <2>2
<1>4. ObjectType(A) # NoDesc
  BY DEF A
<1>f. found = IF "type" \in N THEN ValueOf(v, J, "type") ELSE MimeOfUri(ValueOf(v, J, "src"))
  OBVIOUS
<1> HIDE DEF found
<1> DEFINE Type == IF "type" \in N THEN found \in KnownTypes ELSE "src" \in N /\ found # NoDesc
<1>5. ASSUME "type" \in N PROVE Type /\ WithType(A) = A \cup {<<"type", found>>}
  <2>1. found = ValueOf(v, J, "type") /\ <<"type", found>> \in A /\ HasAttribute(A, "type")
        /\ LookupAttribute(A, "type") = found
    BY <1>a, <1>3, <1>5, <1>f
  <2>2. found \in KnownTypes
    BY <1>4, <2>1 DEF ObjectType
  <2>3. WithType(A) = A /\ A = A \cup {<<"type", found>>}
    BY <2>1 DEF WithType
  <2> QED
    BY <1>5, <2>2, <2>3
<1>6. ASSUME "type" \notin N PROVE Type /\ WithType(A) = A \cup {<<"type", found>>}
  <2>1. ~HasAttribute(A, "type")
    BY <1>3, <1>6
  <2>2. HasAttribute(A, "src")
    BY <1>4, <2>1 DEF ObjectType
  <2>3. "src" \in N /\ ObjectType(A) = found
    BY <1>3, <1>6, <1>f, <2>1, <2>2 DEF ObjectType
  <2>4. WithType(A) = A \cup {<<"type", found>>}
    BY <2>1, <2>3 DEF WithType
  <2> QED
    BY <1>4, <1>6, <2>3, <2>4
<1> QED
  <2>1. Type /\ WithType(A) = A \cup {<<"type", found>>}
    BY <1>5, <1>6, Zenon
  <2>2. WithType(A) = {<<n, ValueOf(v, J, n)>> : n \in N \ {"width"}} \cup {<<"type", found>>}
    BY <1>1, <2>1, Zenon
  <2> QED
    BY <1>2, <2>1, <2>2, Zenon DEF A, N, found

LEMMA MainInvariantSuffices == MainInvariant => AttributesReachPlugin
<1> SUFFICES ASSUME MainInvariant, NEW k \in DOMAIN started, started[k] # NoDesc
             PROVE  LET s == SectionOf(k)
                        names == {strdown(argv[j].name) :
                                     j \in {i \in Own : Section(i) = s /\ Is(argv[i], "name")}}
                        asked_width == IF "width" \in names THEN GivenValue(s, "width") ELSE DEFAULT_WIDTH
                        found_type == IF "type" \in names THEN GivenValue(s, "type")
                                                          ELSE MimeOfUri(GivenValue(s, "src"))
                    IN  /\ Len(started) = Cardinality(Sections)
                        /\ IF "type" \in names THEN found_type \in KnownTypes
                                               ELSE "src" \in names /\ found_type # NoDesc
                        /\ \E width \in {asked_width} \cup WindowWidths :
                              /\ ~apps[k].resized => width = asked_width
                              /\ started[k].args = {<<n, GivenValue(s, n)>> : n \in names \ {"width"}}
                                                      \cup {<<"type", found_type>>, <<"width", width>>}
  BY DEF AttributesReachPlugin
<1> DEFINE v == argv
           n == Len(argv)
           ds == plugin_descs
           s == SectionOf(k)
           J == NamedIn(v, s, n + 1)
           N == NamesOf(v, J)
           found == IF "type" \in N THEN ValueOf(v, J, "type") ELSE MimeOfUri(ValueOf(v, J, "src"))
           typeAsked == IF "width" \in N THEN ValueOf(v, J, "width") ELSE DEFAULT_WIDTH
<1>0. Made(ds)
  <2>1. started # <<>>
    OBVIOUS
  <2> QED
    BY <2>1 DEF MainInvariant
<1>1. /\ argv \in Seq(Arguments) /\ AllRead(argv, ds) /\ DOMAIN started = 1 .. Len(ds)
      /\ NewOf(ds[k], apps[k], started[k])
  BY <1>0 DEF Made, MainInvariant
<1>2. n \in Nat /\ OwnBefore(v, n + 1) = OwnOf(v)
  <2>1. n \in Nat
    BY <1>1
  <2>2. OwnOf(v) \subseteq 1 .. n
    BY <2>1, OwnArguments DEF OwnRule
  <2> QED
    BY <2>1, <2>2 DEF OwnBefore
<1>3. \A j : Section(j) = SectionAt(v, j)
  BY DEF Section, SectionAt, Openers, Own
<1>4. Sections = SectionsIn(v, n + 1)
  BY <1>2, <1>3 DEF Sections, SectionsIn, Content, Own
<1>5. PICK z \in {0, 1} :
          /\ Sections = (1 - z) .. (Len(ds) - z) /\ ds \in Seq(Descriptors)
          /\ \A i \in 1 .. Len(ds) : Describes(v, ds[i], NamedIn(v, i - z, n + 1))
  BY <1>1, <1>4 DEF AllRead
<1>6. Len(ds) \in Nat /\ Len(ds) - z \in Int /\ k \in 1 .. (Len(ds) - z + z)
  BY <1>1, <1>5
<1>7. SectionOf(k) = k - z
  <2> DEFINE last == Len(ds) - z
  <2>1. last \in Int /\ Sections = (1 - z) .. last /\ k \in 1 .. (last + z)
    BY <1>5, <1>6
  <2> HIDE DEF last
  <2>2. Kth(Sections, k) = k - z
    BY <2>1, KthSection
  <2> QED
    BY <2>2 DEF SectionOf, Kth
<1>8. Describes(v, ds[k], J)
  BY <1>1, <1>5, <1>7
<1>9. {j \in Own : Section(j) = s /\ Is(argv[j], "name")} = J
  BY <1>2, <1>3 DEF NamedIn, Own
<1>10. \A m : Given(s, m) = For(v, J, m)
  BY <1>9 DEF Given, For
<1>11. \A K : LastOf(K) = LastIn(v, K)
  BY DEF LastOf, LastIn
<1>12. Len(started) = Len(ds)
  <2> DEFINE S == {started[j] : j \in DOMAIN started}
  <2>1. started = [j \in DOMAIN started |-> started[j]]
    BY <1>0 DEF Made
  <2>2. started \in [1 .. Len(ds) -> S]
    BY <1>1, <2>1
  <2> HIDE DEF S
  <2> QED
    BY <1>6, <2>2
<1>13. Cardinality(Sections) = Len(ds)
  <2>1. 1 - z \in Int /\ (1 - z > Len(ds) - z <=> Len(ds) = 0)
    BY <1>6
  <2>2. Cardinality((1 - z) .. (Len(ds) - z)) = IF 1 - z > Len(ds) - z THEN 0 ELSE Len(ds) - z - (1 - z) + 1
    BY <1>6, <2>1, FS_Interval
  <2> QED
    BY <1>5, <1>6, <2>1, <2>2
<1> HIDE DEF s
<1>14. \A m : ValueOf(v, J, m) = GivenValue(s, m)
  BY <1>10, <1>11 DEF ValueOf, GivenValue
<1>15. N = {strdown(argv[j].name) : j \in {i \in Own : Section(i) = s /\ Is(argv[i], "name")}}
  BY <1>9 DEF NamesOf
<1> HIDE DEF J, v, ds, n, N, found, typeAsked
<1>16. PICK w \in {ds[k].width} \cup WindowWidths :
          /\ ~apps[k].resized => w = ds[k].width
          /\ started[k].args = WithType(ds[k].attrs) \cup {<<"width", w>>}
  BY <1>1 DEF NewOf
<1>17. /\ IF "type" \in N THEN found \in KnownTypes ELSE "src" \in N /\ found # NoDesc
       /\ WithType(ds[k].attrs) = {<<m, ValueOf(v, J, m)>> : m \in N \ {"width"}} \cup {<<"type", found>>}
       /\ ds[k].width = typeAsked
  <2>1. ObjectType(ds[k].attrs) # NoDesc
    BY <1>1 DEF NewOf
  <2> QED
    BY <1>8, <2>1, ArgumentsOfNew, Zenon DEF N, found, typeAsked
<1>18. /\ w \in {typeAsked} \cup WindowWidths /\ (~apps[k].resized => w = typeAsked)
       /\ started[k].args = {<<m, ValueOf(v, J, m)>> : m \in N \ {"width"}}
                              \cup {<<"type", found>>, <<"width", w>>}
  BY <1>16, <1>17
<1>19. {<<m, ValueOf(v, J, m)>> : m \in N \ {"width"}} = {<<m, GivenValue(s, m)>> : m \in N \ {"width"}}
  BY <1>14
<1>20. /\ found = IF "type" \in N THEN GivenValue(s, "type") ELSE MimeOfUri(GivenValue(s, "src"))
       /\ typeAsked = IF "width" \in N THEN GivenValue(s, "width") ELSE DEFAULT_WIDTH
  BY <1>14 DEF found, typeAsked
<1> QED
  BY <1>12, <1>13, <1>15, <1>17, <1>18, <1>19, <1>20, Zenon DEF s

\* Each plugin that the player starts gets exactly the attributes that its
\* part of the command line gives, with the value given last, and the type it was
\* found by, however long the command line is, whatever its arguments are and
\* whenever windows are resized (main, player_app_run, g_NPP_New).
THEOREM AttributesAlwaysReach == MainInit /\ [][MainNext]_mainVars => []AttributesReachPlugin
<1>1. MainInvariant /\ [MainNext]_mainVars => MainInvariant'
  BY MainNextInv
<1> QED
  BY <1>1, MainInitInv, MainInvariantSuffices, PTL

-----------------------------------------------------------------------------
(* PlayerPlugins.  The lists the player builds back to front: what a         *)
(* function is that is computed step by step.                                *)

StepByStep(f, base, n, G) == f[0] = base /\ \A i \in 1..n : f[i] = G[<<f[i - 1], i>>]

LEMMA StepsExist ==
    ASSUME NEW A, NEW base \in A, NEW n \in Nat, NEW G \in [A \X (1..n) -> A]
    PROVE  \E f \in [0..n -> A] : StepByStep(f, base, n, G)
<1> DEFINE Upto(f, k) == f[0] = base /\ \A i \in 1..k : f[i] = G[<<f[i - 1], i>>]
           T == {k \in Nat : k <= n => \E f \in [0..k -> A] : Upto(f, k)}
<1>1. 0 \in T
  <2> DEFINE f == [i \in 0..0 |-> base]
  <2>1. f \in [0..0 -> A] /\ Upto(f, 0)
    OBVIOUS
  <2> HIDE DEF f
  <2> QED
    BY <2>1
<1>2. ASSUME NEW k \in T PROVE k + 1 \in T
  <2> SUFFICES ASSUME k + 1 <= n PROVE \E f \in [0..(k + 1) -> A] : Upto(f, k + 1)
    OBVIOUS
  <2>1. PICK f \in [0..k -> A] : Upto(f, k)
    OBVIOUS
  <2> DEFINE m == k + 1
             v == G[<<f[k], m>>]
             h == [i \in 0..m |-> IF i = m THEN v ELSE f[i]]
  <2>2. k \in Nat /\ m \in 1..n /\ m - 1 = k /\ k \in 0..k
    OBVIOUS
  <2>3. v \in A
    BY <2>2
  <2> HIDE DEF v
  <2>4. h \in [0..m -> A]
    BY <2>2, <2>3
  <2>5. h[m] = v /\ \A i \in 0..k : h[i] = f[i]
    BY <2>2
  <2> HIDE DEF h
  <2>6. h[0] = base
    BY <2>1, <2>2, <2>5
  <2>7. ASSUME NEW i \in 1..m PROVE h[i] = G[<<h[i - 1], i>>]
    <3>1. CASE i = m
      BY <2>2, <2>5, <3>1 DEF v
    <3>2. CASE i # m
      <4>1. i \in 1..k /\ i \in 0..k /\ i - 1 \in 0..k
        BY <2>2, <3>2
      <4> QED
        BY <2>1, <2>5, <4>1
    <3> QED
      BY <3>1, <3>2
  <2> QED
    BY <2>4, <2>6, <2>7
<1>3. T \subseteq Nat
  OBVIOUS
<1> HIDE DEF T
<1>4. T = Nat
  BY <1>1, <1>2, <1>3, SetOfAllNumbers
<1>5. n \in T
  BY <1>4
<1>6. PICK f \in [0..n -> A] : Upto(f, n)
  BY <1>5 DEF T
<1>7. StepByStep(f, base, n, G)
  BY <1>6 DEF StepByStep
<1> QED
  BY <1>7

LEMMA InFront ==
    ASSUME NEW S, NEW s \in Seq(S), NEW x \in S
    PROVE  /\ <<x>> \o s \in Seq(S)
           /\ Len(<<x>> \o s) = Len(s) + 1 /\ Len(s) \in Nat
           /\ (<<x>> \o s)[1] = x
           /\ \A i \in 1..Len(s) : (<<x>> \o s)[i + 1] = s[i]
           /\ \A i \in 2..(Len(s) + 1) : (<<x>> \o s)[i] = s[i - 1]
<1>1. Len(s) \in Nat /\ <<x>> \in Seq(S) /\ Len(<<x>>) = 1 /\ <<x>>[1] = x
  OBVIOUS
<1> DEFINE one == <<x>>
<1> HIDE DEF one
<1>2. one \in Seq(S) /\ Len(one) = 1 /\ one[1] = x
  BY <1>1 DEF one
<1>3. /\ one \o s \in Seq(S) /\ Len(one \o s) = Len(one) + Len(s)
      /\ \A i \in 1..(Len(one) + Len(s)) :
            (one \o s)[i] = IF i <= Len(one) THEN one[i] ELSE s[i - Len(one)]
  BY <1>2, ConcatProperties
<1>4. (one \o s)[1] = x /\ Len(one \o s) = Len(s) + 1
  BY <1>1, <1>2, <1>3
<1>5. ASSUME NEW i \in 2..(Len(s) + 1) PROVE (one \o s)[i] = s[i - 1]
  BY <1>1, <1>2, <1>3
<1>6. ASSUME NEW i \in 1..Len(s) PROVE (one \o s)[i + 1] = s[i]
  <2>1. i + 1 \in 2..(Len(s) + 1) /\ (i + 1) - 1 = i
    BY <1>1
  <2> QED
    BY <1>5, <2>1
<1> QED
  BY <1>1, <1>3, <1>4, <1>5, <1>6 DEF one

-----------------------------------------------------------------------------
(* The directories: those that exist, the last place looked at first.        *)

PluginDirSet == {PluginDirs[r] : r \in Places}

\* h says of which place each directory is, of the first k places.
RanksOf(dirs, h, exists, k) ==
    /\ h \in [1..Len(dirs) -> 1..k]
    /\ \A i \in 1..Len(dirs) : dirs[i] = PluginDirs[h[i]] /\ dirs[i] \in exists
    /\ \A i, j \in 1..Len(dirs) : i < j => h[j] < h[i]
    /\ \A r \in 1..k : PluginDirs[r] \in exists => \E i \in 1..Len(dirs) : h[i] = r

RankedDirs(dirs, exists, k) ==
    dirs \in Seq(PluginDirSet) /\ \E h : RanksOf(dirs, h, exists, k)

LEMMA OneMoreDir ==
    ASSUME NEW exists, NEW k \in Nat, k + 1 \in Places, NEW dirs, RankedDirs(dirs, exists, k)
    PROVE  RankedDirs(IF PluginDirs[k + 1] \in exists THEN <<PluginDirs[k + 1]>> \o dirs ELSE dirs,
                      exists, k + 1)
<1> DEFINE m == k + 1
           d == PluginDirs[m]
           new == <<d>> \o dirs
<1>1. PICK h : RanksOf(dirs, h, exists, k)
  BY DEF RankedDirs
<1>2. m \in Nat /\ m \in Places /\ k < m /\ dirs \in Seq(PluginDirSet) /\ Len(dirs) \in Nat
  BY DEF RankedDirs
<1>3. d \in PluginDirSet
  BY <1>2 DEF PluginDirSet
<1>4. CASE d \in exists
  <2> HIDE DEF d, m
  <2>1. /\ new \in Seq(PluginDirSet) /\ Len(new) = Len(dirs) + 1 /\ new[1] = d
        /\ \A i \in 2..(Len(dirs) + 1) : new[i] = dirs[i - 1]
    BY <1>2, <1>3, InFront
  <2> DEFINE n == Len(dirs) + 1
             g == [i \in 1..n |-> IF i = 1 THEN m ELSE h[i - 1]]
  <2> HIDE DEF new
  <2>2. /\ \A i \in 1..Len(dirs) : h[i] \in 1..k /\ dirs[i] = PluginDirs[h[i]] /\ dirs[i] \in exists
        /\ \A i, j \in 1..Len(dirs) : i < j => h[j] < h[i]
        /\ \A r \in 1..k : PluginDirs[r] \in exists => \E i \in 1..Len(dirs) : h[i] = r
    BY <1>1 DEF RanksOf
  <2>3. n \in Nat /\ \A i \in 1..n : i # 1 => i - 1 \in 1..Len(dirs) /\ i \in 2..n
    BY <1>2
  <2>4. g[1] = m /\ \A i \in 2..n : g[i] = h[i - 1]
    BY <1>2
  <2>5. m = k + 1 /\ d = PluginDirs[m]
    BY DEF m, d
  <2>6. ASSUME NEW i \in 1..n PROVE g[i] \in 1..m /\ new[i] = PluginDirs[g[i]] /\ new[i] \in exists
    <3>1. CASE i = 1
      BY <1>2, <1>4, <2>1, <2>4, <2>5, <3>1
    <3>2. CASE i # 1
      <4> DEFINE j == i - 1
      <4>1. j \in 1..Len(dirs) /\ g[i] = h[j] /\ new[i] = dirs[j]
        BY <2>1, <2>3, <2>4, <3>2
      <4> HIDE DEF j
      <4>2. h[j] \in 1..k /\ dirs[j] = PluginDirs[h[j]] /\ dirs[j] \in exists
        BY <2>2, <4>1
      <4>3. \A r \in 1..k : r \in 1..m
        BY <1>2, <2>5
      <4> QED
        BY <4>1, <4>2, <4>3
    <3> QED
      BY <3>1, <3>2
  <2>7. g \in [1..n -> 1..m]
    BY <2>6
  <2> HIDE DEF g
  <2>8. ASSUME NEW i \in 1..n, NEW j \in 1..n, i < j PROVE g[j] < g[i]
    <3>1. j \in 2..n /\ j - 1 \in 1..Len(dirs) /\ g[j] = h[j - 1]
      BY <2>3, <2>4, <2>8
    <3>2. CASE i = 1
      BY <1>2, <2>2, <2>4, <2>5, <3>1, <3>2
    <3>3. CASE i # 1
      <4>1. i - 1 \in 1..Len(dirs) /\ g[i] = h[i - 1] /\ i - 1 < j - 1
        BY <2>3, <2>4, <2>8, <3>3
      <4> QED
        BY <2>2, <3>1, <4>1
    <3> QED
      BY <3>2, <3>3
  <2>9. ASSUME NEW r \in 1..m, PluginDirs[r] \in exists PROVE \E i \in 1..n : g[i] = r
    <3>1. CASE r = m
      BY <1>2, <2>4, <3>1
    <3>2. CASE r # m
      <4>1. r \in 1..k
        BY <1>2, <2>5, <3>2
      <4>2. PICK i \in 1..Len(dirs) : h[i] = r
        BY <2>2, <2>9, <4>1
      <4>3. i + 1 \in 2..n /\ i + 1 \in 1..n /\ (i + 1) - 1 = i
        BY <1>2
      <4> QED
        BY <2>4, <4>2, <4>3
    <3> QED
      BY <3>1, <3>2
  <2>10. Len(new) = n
    BY <2>1
  <2> HIDE DEF n
  <2>11. RanksOf(new, g, exists, m)
    BY <2>6, <2>7, <2>8, <2>9, <2>10 DEF RanksOf
  <2>12. RankedDirs(new, exists, m)
    BY <2>1, <2>11 DEF RankedDirs
  <2> QED
    BY <1>4, <2>12 DEF new, d, m
<1>5. CASE d \notin exists
  <2>1. RanksOf(dirs, h, exists, m)
    <3>1. h \in [1..Len(dirs) -> 1..m]
      BY <1>1, <1>2 DEF RanksOf
    <3>2. ASSUME NEW r \in 1..m, PluginDirs[r] \in exists PROVE r \in 1..k
      BY <1>2, <1>5, <3>2
    <3> QED
      BY <1>1, <3>1, <3>2 DEF RanksOf
  <2> QED
    BY <1>2, <1>5, <2>1 DEF RankedDirs
<1> QED
  BY <1>4, <1>5

DirSteps(f, exists, n) ==
    f = [i \in 0..n |->
            IF i = 0 THEN <<>>
            ELSE IF PluginDirs[i] \in exists THEN <<PluginDirs[i]>> \o f[i - 1] ELSE f[i - 1]]

LEMMA DirsAreRanked ==
    ASSUME NEW exists
    PROVE  RankedDirs(get_plugin_dirs(exists), exists, Len(PluginDirs))
<1> DEFINE n == Len(PluginDirs)
           A == Seq(PluginDirSet)
           f == CHOOSE g : DirSteps(g, exists, n)
           T == {k \in Nat : k <= n => RankedDirs(f[k], exists, k)}
           New(s, i) == IF PluginDirs[i] \in exists THEN <<PluginDirs[i]>> \o s ELSE s
<1>1. n \in Nat
  BY PluginsAssumption
<1>2. DirSteps(f, exists, n)
  <2> DEFINE G == [a \in A \X (1..n) |-> New(a[1], a[2])]
  <2>1. ASSUME NEW s \in A, NEW i \in 1..n PROVE New(s, i) \in A
    <3>1. PluginDirs[i] \in PluginDirSet
      BY DEF PluginDirSet, Places
    <3> QED
      BY <3>1, InFront
  <2>2. G \in [A \X (1..n) -> A] /\ \A s \in A, i \in 1..n : G[<<s, i>>] = New(s, i)
    BY <2>1
  <2>3. <<>> \in A
    OBVIOUS
  <2> HIDE DEF G, A, New, n
  <2> DEFINE base == <<>>
  <2> HIDE DEF base
  <2>4. PICK g \in [0..n -> A] : StepByStep(g, base, n, G)
    <3>1. base \in A /\ G \in [A \X (1..n) -> A] /\ n \in Nat
      BY <1>1, <2>2, <2>3 DEF base
    <3> QED
      BY <3>1, StepsExist
  <2>5. ASSUME NEW i \in 0..n
        PROVE  g[i] = IF i = 0 THEN <<>> ELSE New(g[i - 1], i)
    <3>1. CASE i = 0
      BY <2>4, <3>1 DEF base, StepByStep
    <3>2. CASE i # 0
      <4>1. i \in 1..n /\ i - 1 \in 0..n
        BY <1>1, <3>2
      <4> QED
        BY <2>2, <2>4, <3>2, <4>1 DEF StepByStep
    <3> QED
      BY <3>1, <3>2
  <2>6. g = [i \in 0..n |-> IF i = 0 THEN <<>> ELSE New(g[i - 1], i)]
    BY <2>5
  <2>7. DirSteps(g, exists, n)
    BY <2>6 DEF DirSteps, New
  <2> QED
    BY <2>7, Zenon
<1>3. get_plugin_dirs(exists) = f[n]
  BY Zenon DEF get_plugin_dirs, DirSteps
<1> HIDE DEF f, n
<1>4. f[0] = <<>> /\ \A i \in 1..n : f[i] = New(f[i - 1], i)
  <2>1. f = [i \in 0..n |-> IF i = 0 THEN <<>> ELSE New(f[i - 1], i)]
    BY <1>2, Zenon DEF DirSteps
  <2>2. 0 \in 0..n /\ \A i \in 1..n : i \in 0..n /\ i # 0
    BY <1>1
  <2> HIDE DEF New
  <2>3. f[0] = <<>>
    BY <2>1, <2>2, Zenon
  <2>4. ASSUME NEW i \in 1..n PROVE f[i] = New(f[i - 1], i)
    BY <2>1, <2>2, Zenon
  <2> QED
    BY <2>3, <2>4
<1>5. 0 \in T
  <2>1. <<>> \in Seq(PluginDirSet) /\ RanksOf(<<>>, <<>>, exists, 0)
    BY DEF RanksOf
  <2> QED
    BY <1>4, <2>1 DEF RankedDirs
<1>6. ASSUME NEW k \in T PROVE k + 1 \in T
  <2> SUFFICES ASSUME k + 1 <= n PROVE RankedDirs(f[k + 1], exists, k + 1)
    OBVIOUS
  <2> DEFINE m == k + 1
  <2>1. k \in Nat /\ m \in 1..n /\ m - 1 = k /\ RankedDirs(f[k], exists, k)
    BY <1>1
  <2>2. m \in Places
    BY <2>1 DEF Places, n
  <2>3. f[m] = New(f[k], m)
    BY <1>4, <2>1
  <2>4. RankedDirs(New(f[k], m), exists, m)
    BY <2>1, <2>2, OneMoreDir
  <2> QED
    BY <2>3, <2>4
<1>7. T \subseteq Nat
  OBVIOUS
<1> HIDE DEF T
<1>8. T = Nat
  BY <1>5, <1>6, <1>7, SetOfAllNumbers
<1>9. RankedDirs(f[n], exists, n)
  BY <1>1, <1>8 DEF T
<1> QED
  BY <1>3, <1>9 DEF n

-----------------------------------------------------------------------------
(* The plugins: those of the directories looked at, the first place's in     *)
(* front.  A module is known by its place and its number in the directory.   *)

ModuleAt(contents, a) == contents[PluginDirs[a[1]]][a[2]]

\* g says which module each plugin comes from, of those in Done.
SourcesOf(plugins, g, contents, Done) ==
    /\ g \in [1..Len(plugins) -> Done]
    /\ \A i \in 1..Len(plugins) :
          /\ plugins[i].dir = PluginDirs[g[i][1]]
          /\ ModuleAt(contents, g[i]).kind = "plugin"
          /\ plugins[i].desc = ModuleAt(contents, g[i]).desc
    /\ \A i, j \in 1..Len(plugins) : i < j => g[i][1] <= g[j][1]
    /\ \A a \in Done : ModuleAt(contents, a).kind = "plugin" => \E i \in 1..Len(plugins) : g[i] = a

Loaded(plugins, contents, Done) ==
    plugins \in Seq(Plugins) /\ \E g : SourcesOf(plugins, g, contents, Done)

LEMMA OneMoreModule ==
    ASSUME NEW contents, NEW Done, Done \subseteq Places \X Nat,
           NEW plugins, Loaded(plugins, contents, Done),
           NEW a \in Places \X Nat, ModuleAt(contents, a) \in Modules,
           ModuleAt(contents, a).kind # "no_getvalue",
           \A b \in Done : a[1] <= b[1]
    PROVE  Loaded(player_app_load_plugin(plugins, PluginDirs[a[1]], ModuleAt(contents, a)),
                  contents, Done \cup {a})
<1> DEFINE module == ModuleAt(contents, a)
           All == Done \cup {a}
           p == [dir |-> PluginDirs[a[1]], desc |-> module.desc]
           new == <<p>> \o plugins
           n == Len(plugins) + 1
<1>1. PICK g : SourcesOf(plugins, g, contents, Done)
  BY DEF Loaded
<1>2. plugins \in Seq(Plugins) /\ Len(plugins) \in Nat /\ plugins # NONE
  BY PluginsAssumption DEF Loaded
<1>3. /\ module \in Modules /\ module.kind \in {"plugin", "other"} /\ p \in Plugins
      /\ p.dir = PluginDirs[a[1]] /\ p.desc = module.desc /\ a[1] \in Nat
  BY DEF Modules, Plugins, Places
<1>4. player_app_load_plugin(plugins, PluginDirs[a[1]], module) =
        IF module.kind = "plugin" THEN new ELSE plugins
  BY <1>3 DEF player_app_load_plugin, is_npapi_plugin
<1>5. /\ g \in [1..Len(plugins) -> Done]
      /\ \A i \in 1..Len(plugins) :
            /\ plugins[i].dir = PluginDirs[g[i][1]]
            /\ ModuleAt(contents, g[i]).kind = "plugin"
            /\ plugins[i].desc = ModuleAt(contents, g[i]).desc
      /\ \A i, j \in 1..Len(plugins) : i < j => g[i][1] <= g[j][1]
      /\ \A b \in Done : ModuleAt(contents, b).kind = "plugin" => \E i \in 1..Len(plugins) : g[i] = b
  BY <1>1 DEF SourcesOf
<1> HIDE DEF module, p
<1>6. module = ModuleAt(contents, a)
  BY DEF module
<1>7. CASE module.kind = "plugin"
  <2>1. /\ new \in Seq(Plugins) /\ Len(new) = n /\ new[1] = p
        /\ \A i \in 2..n : new[i] = plugins[i - 1]
    BY <1>2, <1>3, InFront
  <2> DEFINE h == [i \in 1..n |-> IF i = 1 THEN a ELSE g[i - 1]]
  <2>2. n \in Nat /\ \A i \in 1..n : i # 1 => i - 1 \in 1..Len(plugins) /\ i \in 2..n
    BY <1>2
  <2>3. h[1] = a /\ \A i \in 2..n : h[i] = g[i - 1]
    BY <1>2
  <2> HIDE DEF new
  <2>4. h \in [1..n -> All]
    BY <1>5, <2>2
  <2> HIDE DEF h, n
  <2>5. ASSUME NEW i \in 1..n
        PROVE  /\ new[i].dir = PluginDirs[h[i][1]]
               /\ ModuleAt(contents, h[i]).kind = "plugin"
               /\ new[i].desc = ModuleAt(contents, h[i]).desc
    <3>1. CASE i = 1
      BY <1>3, <1>6, <1>7, <2>1, <2>3, <3>1
    <3>2. CASE i # 1
      BY <1>5, <2>1, <2>2, <2>3, <3>2
    <3> QED
      BY <3>1, <3>2
  <2>6. ASSUME NEW i \in 1..n, NEW j \in 1..n, i < j PROVE h[i][1] <= h[j][1]
    <3>1. j \in 2..n /\ j - 1 \in 1..Len(plugins) /\ h[j] = g[j - 1] /\ g[j - 1] \in Done
      BY <1>5, <2>2, <2>3, <2>6
    <3>2. CASE i = 1
      BY <2>3, <3>1, <3>2
    <3>3. CASE i # 1
      <4>1. i - 1 \in 1..Len(plugins) /\ h[i] = g[i - 1] /\ i - 1 < j - 1
        BY <2>2, <2>3, <2>6, <3>3
      <4> QED
        BY <1>5, <3>1, <4>1
    <3> QED
      BY <3>2, <3>3
  <2>7. ASSUME NEW b \in All, ModuleAt(contents, b).kind = "plugin" PROVE \E i \in 1..n : h[i] = b
    <3>1. CASE b = a
      <4>1. 1 \in 1..n
        BY <1>2 DEF n
      <4> QED
        BY <2>3, <3>1, <4>1
    <3>2. CASE b # a
      <4>1. b \in Done
        BY <3>2
      <4>2. PICK i \in 1..Len(plugins) : g[i] = b
        BY <1>5, <2>7, <4>1
      <4>3. i + 1 \in 2..n /\ i + 1 \in 1..n /\ (i + 1) - 1 = i
        BY <1>2 DEF n
      <4> QED
        BY <2>3, <4>2, <4>3
    <3> QED
      BY <3>1, <3>2
  <2>8. SourcesOf(new, h, contents, All)
    <3> HIDE DEF All
    <3> QED
      BY <2>1, <2>4, <2>5, <2>6, <2>7 DEF SourcesOf
  <2>9. Loaded(new, contents, All)
    BY <2>1, <2>8 DEF Loaded
  <2> QED
    BY <1>4, <1>7, <2>9 DEF module
<1>8. CASE module.kind # "plugin"
  <2>1. g \in [1..Len(plugins) -> All]
    BY <1>5
  <2>2. \A b \in All : ModuleAt(contents, b).kind = "plugin" => \E i \in 1..Len(plugins) : g[i] = b
    BY <1>5, <1>6, <1>8
  <2>3. SourcesOf(plugins, g, contents, All)
    <3> HIDE DEF All
    <3> QED
      BY <1>5, <2>1, <2>2 DEF SourcesOf
  <2>4. Loaded(plugins, contents, All)
    BY <1>2, <2>3 DEF Loaded
  <2> QED
    BY <1>4, <1>8, <2>4 DEF module
<1> QED
  BY <1>7, <1>8

\* The modules of the place r that are numbered up to n.
ModulesUpto(r, n) == {r} \X (1..n)

ModuleSteps(f, plugins, dir, modules, n) ==
    f = [i \in 0..n |-> IF i = 0 THEN plugins ELSE player_app_load_plugin(f[i - 1], dir, modules[i])]

LEMMA LoadPluginType ==
    ASSUME NEW plugins \in Seq(Plugins), NEW dir \in PluginDirSet, NEW module \in Modules
    PROVE  player_app_load_plugin(plugins, dir, module) \in Seq(Plugins)
<1> DEFINE p == [dir |-> dir, desc |-> module.desc]
           new == <<p>> \o plugins
<1>1. p \in Plugins
  BY DEF Plugins, Modules, PluginDirSet
<1>2. new \in Seq(Plugins)
  <2> HIDE DEF p
  <2> QED
    BY <1>1, InFront
<1>3. player_app_load_plugin(plugins, dir, module) \in {plugins, new}
  BY DEF player_app_load_plugin
<1> HIDE DEF new
<1> QED
  BY <1>2, <1>3

LEMMA ModuleStepsExist ==
    ASSUME NEW plugins \in Seq(Plugins), NEW dir \in PluginDirSet,
           NEW modules \in Seq(Modules)
    PROVE  \E f : ModuleSteps(f, plugins, dir, modules, Len(modules))
<1> DEFINE n == Len(modules)
           A == Seq(Plugins)
           New(s, i) == player_app_load_plugin(s, dir, modules[i])
           G == [a \in A \X (1..n) |-> New(a[1], a[2])]
<1>1. ASSUME NEW s \in A, NEW i \in 1..n PROVE New(s, i) \in A
  <2>1. modules[i] \in Modules
    OBVIOUS
  <2> QED
    BY <2>1, LoadPluginType
<1>2. G \in [A \X (1..n) -> A] /\ \A s \in A, i \in 1..n : G[<<s, i>>] = New(s, i)
  BY <1>1
<1>3. n \in Nat /\ plugins \in A
  OBVIOUS
<1> HIDE DEF n
<1> HIDE DEF G, A, New
<1>4. PICK g \in [0..n -> A] : StepByStep(g, plugins, n, G)
  <2>1. n \in Nat /\ plugins \in A /\ G \in [A \X (1..n) -> A]
    BY <1>2, <1>3
  <2> QED
    BY <2>1, StepsExist, Zenon
<1>5. ASSUME NEW i \in 0..n
      PROVE  g[i] = IF i = 0 THEN plugins ELSE New(g[i - 1], i)
  <2>1. CASE i = 0
    BY <1>4, <2>1 DEF StepByStep
  <2>2. CASE i # 0
    <3>1. i \in 1..n /\ i - 1 \in 0..n
      BY <1>3, <2>2
    <3> QED
      BY <1>2, <1>4, <2>2, <3>1 DEF StepByStep
  <2> QED
    BY <2>1, <2>2
<1>6. g = [i \in 0..n |-> IF i = 0 THEN plugins ELSE New(g[i - 1], i)]
  BY <1>5
<1>7. ModuleSteps(g, plugins, dir, modules, n)
  BY <1>6 DEF ModuleSteps, New
<1> QED
  BY <1>7 DEF n

\* f is what the list is after each of the modules.
ModuleByModule(f, plugins, dir, modules) ==
    /\ player_app_load_plugins(plugins, dir, modules) = f[Len(modules)]
    /\ f[0] = plugins
    /\ \A i \in 1..Len(modules) : f[i] = player_app_load_plugin(f[i - 1], dir, modules[i])

LEMMA LoadPluginsSteps ==
    ASSUME NEW plugins \in Seq(Plugins), NEW dir \in PluginDirSet,
           NEW modules \in Seq(Modules)
    PROVE  \E f : ModuleByModule(f, plugins, dir, modules)
<1> DEFINE n == Len(modules)
           f == CHOOSE g : ModuleSteps(g, plugins, dir, modules, n)
<1>1. n \in Nat
  OBVIOUS
<1>2. ModuleSteps(f, plugins, dir, modules, n)
  BY ModuleStepsExist, Zenon
<1>3. player_app_load_plugins(plugins, dir, modules) = f[n]
  BY Zenon DEF player_app_load_plugins, ModuleSteps
<1> HIDE DEF f, n
<1>4. f = [i \in 0..n |-> IF i = 0 THEN plugins
                          ELSE player_app_load_plugin(f[i - 1], dir, modules[i])]
  BY <1>2, Zenon DEF ModuleSteps
<1>5. 0 \in 0..n /\ \A i \in 1..n : i \in 0..n /\ i # 0
  BY <1>1
<1>6. f[0] = plugins
  BY <1>4, <1>5, Zenon
<1>7. ASSUME NEW i \in 1..n PROVE f[i] = player_app_load_plugin(f[i - 1], dir, modules[i])
  BY <1>4, <1>5, Zenon
<1>8. ModuleByModule(f, plugins, dir, modules)
  BY <1>3, <1>6, <1>7 DEF n, ModuleByModule
<1> QED
  BY <1>8

LEMMA LoadPluginsType ==
    ASSUME NEW plugins \in Seq(Plugins), NEW dir \in PluginDirSet,
           NEW modules \in Seq(Modules)
    PROVE  player_app_load_plugins(plugins, dir, modules) \in Seq(Plugins)
<1> DEFINE n == Len(modules)
           A == Seq(Plugins)
<1>1. PICK f : ModuleByModule(f, plugins, dir, modules)
  BY LoadPluginsSteps
<1> DEFINE T == {k \in Nat : k <= n => f[k] \in A}
<1>2. n \in Nat
  OBVIOUS
<1>3. 0 \in T
  BY <1>1 DEF ModuleByModule
<1>4. ASSUME NEW k \in T PROVE k + 1 \in T
  <2> SUFFICES ASSUME k + 1 <= n PROVE f[k + 1] \in A
    OBVIOUS
  <2> DEFINE m == k + 1
  <2>1. m \in 1..n /\ m - 1 = k /\ f[k] \in A /\ modules[m] \in Modules
    BY <1>2
  <2> HIDE DEF m
  <2>2. f[m] = player_app_load_plugin(f[k], dir, modules[m])
    BY <1>1, <2>1 DEF ModuleByModule
  <2>3. f[m] \in A
    BY <2>1, <2>2, LoadPluginType
  <2> QED
    BY <2>3 DEF m
<1>5. T \subseteq Nat
  OBVIOUS
<1> HIDE DEF T
<1>6. T = Nat
  BY <1>3, <1>4, <1>5, SetOfAllNumbers
<1>7. n \in T
  BY <1>2, <1>6
<1>8. f[n] \in A
  BY <1>7 DEF T
<1> QED
  BY <1>1, <1>8 DEF ModuleByModule

LEMMA OneMorePlace ==
    ASSUME NEW contents, NEW Done, Done \subseteq Places \X Nat,
           NEW plugins, Loaded(plugins, contents, Done),
           NEW r \in Places, \A b \in Done : r <= b[1],
           NEW modules \in Seq(Modules), modules = contents[PluginDirs[r]],
           \A i \in 1..Len(modules) : modules[i].kind # "no_getvalue"
    PROVE  Loaded(player_app_load_plugins(plugins, PluginDirs[r], modules),
                  contents, Done \cup ModulesUpto(r, Len(modules)))
<1> DEFINE n == Len(modules)
           dir == PluginDirs[r]
           Upto(k) == Done \cup ModulesUpto(r, k)
<1>1. n \in Nat /\ plugins \in Seq(Plugins) /\ dir \in PluginDirSet /\ r \in Nat
  BY DEF Loaded, PluginDirSet, Places
<1>2. PICK f : ModuleByModule(f, plugins, dir, modules)
  BY <1>1, LoadPluginsSteps
<1> DEFINE T == {k \in Nat : k <= n => Loaded(f[k], contents, Upto(k))}
<1>3. 0 \in T
  <2>1. Upto(0) = Done
    BY DEF ModulesUpto
  <2> QED
    BY <1>2, <2>1 DEF ModuleByModule
<1>4. ASSUME NEW k \in T PROVE k + 1 \in T
  <2> SUFFICES ASSUME k + 1 <= n PROVE Loaded(f[k + 1], contents, Upto(k + 1))
    OBVIOUS
  <2> DEFINE m == k + 1
             a == <<r, m>>
  <2>1. /\ k \in Nat /\ m \in 1..n /\ m - 1 = k /\ Loaded(f[k], contents, Upto(k))
        /\ modules[m] \in Modules /\ modules[m].kind # "no_getvalue"
    <3>1. k \in Nat /\ k <= n /\ m \in 1..n /\ m - 1 = k
      BY <1>1
    <3>2. Loaded(f[k], contents, Upto(k))
      BY <1>4, <3>1, Zenon
    <3>3. modules[m] \in Modules
      BY <3>1
    <3>4. modules[m].kind # "no_getvalue"
      BY <3>1
    <3> QED
      BY <3>1, <3>2, <3>3, <3>4, Zenon
  <2>2. Upto(m) = Upto(k) \cup {a}
    BY <2>1 DEF ModulesUpto
  <2>3. Upto(k) \subseteq Places \X Nat /\ \A b \in Upto(k) : r <= b[1]
    BY <1>1, <2>1 DEF ModulesUpto
  <2>4. a \in Places \X Nat /\ a[1] = r
    BY <2>1
  <2>5. ModuleAt(contents, a) = modules[m]
    BY DEF ModuleAt
  <2>6. f[m] = player_app_load_plugin(f[k], dir, modules[m])
    BY <1>2, <2>1 DEF ModuleByModule
  <2> DEFINE before == Upto(k)
  <2> HIDE DEF a, before
  <2>7. Loaded(player_app_load_plugin(f[k], PluginDirs[a[1]], ModuleAt(contents, a)),
               contents, before \cup {a})
    BY <2>1, <2>3, <2>4, <2>5, OneMoreModule DEF before
  <2> QED
    BY <2>2, <2>4, <2>5, <2>6, <2>7 DEF before
<1>5. T \subseteq Nat
  OBVIOUS
<1> HIDE DEF T
<1>6. T = Nat
  BY <1>3, <1>4, <1>5, SetOfAllNumbers
<1>7. n \in T /\ n <= n
  BY <1>1, <1>6
<1> HIDE DEF n, Upto
<1>8. Loaded(f[n], contents, Upto(n))
  BY <1>7 DEF T
<1> QED
  BY <1>2, <1>8 DEF n, Upto, ModuleByModule

DirByDir(f, dirs, contents) ==
    /\ f[0] = <<>>
    /\ \A i \in 1..Len(dirs) : f[i] = player_app_load_plugins(f[i - 1], dirs[i], contents[dirs[i]])

DirLoadSteps(f, dirs, contents, n) ==
    f = [i \in 0..n |->
            IF i = 0 THEN <<>> ELSE player_app_load_plugins(f[i - 1], dirs[i], contents[dirs[i]])]

LEMMA DirLoadStepsExist ==
    ASSUME NEW exists, NEW dirs \in Seq(PluginDirSet),
           \A i \in 1..Len(dirs) : dirs[i] \in exists,
           NEW contents \in [exists -> DirContents]
    PROVE  \E f : DirLoadSteps(f, dirs, contents, Len(dirs))
<1> DEFINE n == Len(dirs)
           A == Seq(Plugins)
           New(s, i) == player_app_load_plugins(s, dirs[i], contents[dirs[i]])
           G == [a \in A \X (1..n) |-> New(a[1], a[2])]
           base == <<>>
<1>1. ASSUME NEW s \in A, NEW i \in 1..n PROVE New(s, i) \in A
  <2>1. dirs[i] \in PluginDirSet
    OBVIOUS
  <2>2. contents[dirs[i]] \in Seq(Modules)
    BY PluginsAssumption
  <2> QED
    BY <2>1, <2>2, LoadPluginsType
<1>2. G \in [A \X (1..n) -> A] /\ \A s \in A, i \in 1..n : G[<<s, i>>] = New(s, i)
  BY <1>1
<1>3. n \in Nat /\ base \in A
  OBVIOUS
<1> HIDE DEF n, base
<1> HIDE DEF G, A, New
<1>4. PICK g \in [0..n -> A] : StepByStep(g, base, n, G)
  <2>1. n \in Nat /\ base \in A /\ G \in [A \X (1..n) -> A]
    BY <1>2, <1>3
  <2> QED
    BY <2>1, StepsExist, Zenon
<1>5. ASSUME NEW i \in 0..n
      PROVE  g[i] = IF i = 0 THEN <<>> ELSE New(g[i - 1], i)
  <2>1. CASE i = 0
    BY <1>4, <2>1 DEF base, StepByStep
  <2>2. CASE i # 0
    <3>1. i \in 1..n /\ i - 1 \in 0..n
      BY <1>3, <2>2
    <3> QED
      BY <1>2, <1>4, <2>2, <3>1 DEF StepByStep
  <2> QED
    BY <2>1, <2>2
<1>6. g = [i \in 0..n |-> IF i = 0 THEN <<>> ELSE New(g[i - 1], i)]
  BY <1>5
<1>7. DirLoadSteps(g, dirs, contents, n)
  BY <1>6 DEF DirLoadSteps, New
<1> QED
  BY <1>7 DEF n

LEMMA LoadedSteps ==
    ASSUME NEW exists, NEW contents \in [exists -> DirContents]
    PROVE  \E f : /\ DirByDir(f, get_plugin_dirs(exists), contents)
                  /\ LoadedPlugins(contents) = f[Len(get_plugin_dirs(exists))]
<1> DEFINE dirs == get_plugin_dirs(exists)
           n == Len(dirs)
           f == CHOOSE g : DirLoadSteps(g, dirs, contents, n)
<1>1. dirs \in Seq(PluginDirSet) /\ n \in Nat /\ \A i \in 1..Len(dirs) : dirs[i] \in exists
  <2>1. RankedDirs(dirs, exists, Len(PluginDirs))
    BY DirsAreRanked
  <2> QED
    BY <2>1 DEF RankedDirs, RanksOf
<1>2. LoadedPlugins(contents) = f[n]
  <2>1. DOMAIN contents = exists
    OBVIOUS
  <2> QED
    BY <2>1, Zenon DEF LoadedPlugins, DirLoadSteps
<1> HIDE DEF dirs
<1>3. DirLoadSteps(f, dirs, contents, n)
  <2>1. \E g : DirLoadSteps(g, dirs, contents, n)
    BY <1>1, DirLoadStepsExist
  <2> QED
    BY <2>1, Zenon
<1> HIDE DEF f, n
<1>4. f = [i \in 0..n |->
             IF i = 0 THEN <<>> ELSE player_app_load_plugins(f[i - 1], dirs[i], contents[dirs[i]])]
  BY <1>3, Zenon DEF DirLoadSteps
<1>5. 0 \in 0..n /\ \A i \in 1..n : i \in 0..n /\ i # 0
  BY <1>1
<1>6. f[0] = <<>>
  BY <1>4, <1>5, Zenon
<1>7. ASSUME NEW i \in 1..n PROVE f[i] = player_app_load_plugins(f[i - 1], dirs[i], contents[dirs[i]])
  BY <1>4, <1>5, Zenon
<1>8. DirByDir(f, dirs, contents)
  BY <1>6, <1>7 DEF DirByDir, n
<1> QED
  BY <1>2, <1>8 DEF n, dirs

AllModules(exists, contents) ==
    {a \in Places \X Nat : /\ PluginDirs[a[1]] \in exists
                           /\ a[2] \in 1..Len(contents[PluginDirs[a[1]]])}

LEMMA AllLoaded ==
    ASSUME NEW exists, NEW contents \in [exists -> DirContents],
           CanLoad(contents)
    PROVE  Loaded(LoadedPlugins(contents), contents, AllModules(exists, contents))
<1> DEFINE dirs == get_plugin_dirs(exists)
           n == Len(dirs)
<1>1. PICK f : DirByDir(f, dirs, contents) /\ LoadedPlugins(contents) = f[n]
  BY LoadedSteps
<1>2. RankedDirs(dirs, exists, Len(PluginDirs))
  BY DirsAreRanked
<1>3. PICK h : RanksOf(dirs, h, exists, Len(PluginDirs))
  BY <1>2 DEF RankedDirs
<1> HIDE DEF dirs
<1>4. /\ dirs \in Seq(PluginDirSet) /\ n \in Nat
      /\ h \in [1..n -> Places]
      /\ \A i \in 1..n : dirs[i] = PluginDirs[h[i]] /\ dirs[i] \in exists
      /\ \A i, j \in 1..n : i < j => h[j] < h[i]
      /\ \A r \in Places : PluginDirs[r] \in exists => \E i \in 1..n : h[i] = r
  BY <1>2, <1>3 DEF RankedDirs, RanksOf, Places
<1>5. \A i \in 1..n : contents[dirs[i]] \in Seq(Modules) /\ Len(contents[dirs[i]]) \in Nat
  BY <1>4, PluginsAssumption
<1> HIDE DEF n
<1> DEFINE Part(i) == ModulesUpto(h[i], Len(contents[dirs[i]]))
           Done(k) == UNION {Part(i) : i \in 1..k}
           T == {k \in Nat : k <= n => Loaded(f[k], contents, Done(k))}
<1>6. ASSUME NEW k \in Nat, k <= n
      PROVE  /\ Done(k) \subseteq Places \X Nat
             /\ \A b \in Done(k) : \E i \in 1..k : b[1] = h[i]
  BY <1>4, <1>5, <1>6 DEF ModulesUpto
<1>7. 0 \in T
  <2>1. f[0] = <<>>
    BY <1>1 DEF DirByDir
  <2>2. Done(0) = {}
    OBVIOUS
  <2>3. <<>> \in Seq(Plugins) /\ SourcesOf(<<>>, <<>>, contents, {})
    BY DEF SourcesOf
  <2> QED
    BY <2>1, <2>2, <2>3 DEF Loaded
<1>8. ASSUME NEW k \in T PROVE k + 1 \in T
  <2> SUFFICES ASSUME k + 1 <= n PROVE Loaded(f[k + 1], contents, Done(k + 1))
    OBVIOUS
  <2> DEFINE m == k + 1
             r == h[m]
             modules == contents[dirs[m]]
             before == Done(k)
  <2>1. k \in Nat /\ k <= n /\ m \in 1..n /\ m - 1 = k /\ Loaded(f[k], contents, before)
    BY <1>4
  <2>2. Done(m) = before \cup ModulesUpto(r, Len(modules))
    <3>1. 1..m = (1..k) \cup {m}
      BY <2>1
    <3> QED
      BY <3>1
  <2>3. before \subseteq Places \X Nat /\ \A b \in before : r <= b[1]
    <3>1. before \subseteq Places \X Nat /\ \A b \in before : \E i \in 1..k : b[1] = h[i]
      BY <1>6, <2>1
    <3>2. ASSUME NEW i \in 1..k PROVE r <= h[i]
      <4>1. i \in 1..n /\ i < m
        BY <1>4, <2>1
      <4>2. r < h[i] /\ r \in Places /\ h[i] \in Places
        BY <1>4, <2>1, <4>1
      <4> QED
        BY <4>2 DEF Places
    <3> HIDE DEF before, r
    <3> QED
      BY <3>1, <3>2
  <2>4. /\ r \in Places /\ dirs[m] = PluginDirs[r] /\ dirs[m] \in exists
        /\ modules \in Seq(Modules) /\ modules = contents[PluginDirs[r]]
        /\ \A i \in 1..Len(modules) : modules[i].kind # "no_getvalue"
    <3>1. /\ r \in Places /\ dirs[m] = PluginDirs[r] /\ dirs[m] \in exists
          /\ modules \in Seq(Modules) /\ modules = contents[PluginDirs[r]]
      BY <1>4, <1>5, <2>1
    <3>2. \A i \in 1..Len(modules) : modules[i].kind # "no_getvalue"
      BY <3>1 DEF CanLoad, is_npapi_plugin, plugin_new
    <3> QED
      BY <3>1, <3>2
  <2>5. f[m] = player_app_load_plugins(f[k], dirs[m], modules)
    BY <1>1, <2>1 DEF DirByDir, n
  <2> HIDE DEF before, r, modules
  <2>6. Loaded(player_app_load_plugins(f[k], PluginDirs[r], modules),
               contents, before \cup ModulesUpto(r, Len(modules)))
    BY <2>1, <2>3, <2>4, OneMorePlace
  <2> QED
    BY <2>2, <2>4, <2>5, <2>6
<1>9. T \subseteq Nat
  OBVIOUS
<1> HIDE DEF T
<1>10. T = Nat
  BY <1>7, <1>8, <1>9, SetOfAllNumbers
<1>11. n \in T /\ n <= n
  BY <1>4, <1>10
<1>12. Done(n) = AllModules(exists, contents)
  <2>1. ASSUME NEW a \in Done(n) PROVE a \in AllModules(exists, contents)
    <3>1. PICK i \in 1..n : a \in Part(i)
      OBVIOUS
    <3>2. h[i] \in Places /\ PluginDirs[h[i]] = dirs[i] /\ dirs[i] \in exists /\ Len(contents[dirs[i]]) \in Nat
      BY <1>4, <1>5
    <3> QED
      BY <3>1, <3>2 DEF ModulesUpto, AllModules
  <2>2. ASSUME NEW a \in AllModules(exists, contents) PROVE a \in Done(n)
    <3>1. /\ a \in Places \X Nat /\ PluginDirs[a[1]] \in exists
          /\ a[2] \in 1..Len(contents[PluginDirs[a[1]]])
      BY DEF AllModules
    <3>2. PICK i \in 1..n : h[i] = a[1]
      BY <1>4, <3>1
    <3>3. a \in Part(i)
      BY <1>4, <3>1, <3>2 DEF ModulesUpto
    <3> QED
      BY <3>3
  <2> QED
    BY <2>1, <2>2
<1> HIDE DEF Done
<1>13. Loaded(f[n], contents, Done(n))
  BY <1>11 DEF T
<1> QED
  BY <1>1, <1>12, <1>13

-----------------------------------------------------------------------------
(* The search.                                                               *)

FittingTypes(desc, field, value) ==
    {place \in DOMAIN plugin_get_data_types(desc) :
        plugin_get_data_types(desc)[place][field] = value}

LEMMA FirstPlace ==
    ASSUME NEW P, P \subseteq Nat \X Nat, P # {}
    PROVE  \E a \in P : \A b \in P : Earlier(a, b)
<1> DEFINE X == {a[1] : a \in P}
<1>1. X \subseteq Nat /\ X # {}
  OBVIOUS
<1>2. PICK x \in X : \A z \in X : x <= z
  <2> HIDE DEF X
  <2> QED
    BY <1>1, LeastNumber
<1> DEFINE Y == {a[2] : a \in {b \in P : b[1] = x}}
<1>3. Y \subseteq Nat /\ Y # {}
  OBVIOUS
<1>4. PICK y \in Y : \A z \in Y : y <= z
  <2> HIDE DEF Y
  <2> QED
    BY <1>3, LeastNumber
<1>5. PICK a \in P : a[1] = x /\ a[2] = y
  OBVIOUS
<1>6. ASSUME NEW b \in P PROVE Earlier(a, b)
  <2>1. x \in Nat /\ y \in Nat /\ b[1] \in Nat /\ b[2] \in Nat /\ x <= b[1]
    BY <1>1, <1>2, <1>3
  <2>2. b[1] = x => y <= b[2]
    BY <1>4
  <2> QED
    BY <1>5, <2>1, <2>2 DEF Earlier
<1> QED
  BY <1>6

\* The first of the plugins that fit is i.
FirstToFit(plugins, field, value, i) ==
    /\ i \in 1..Len(plugins) /\ FittingTypes(plugins[i].desc, field, value) # {}
    /\ \A j \in 1..Len(plugins) : FittingTypes(plugins[j].desc, field, value) # {} => i <= j

\* What find_plugin_custom finds.
FindsFirst(found, plugins, field, value) ==
    IF \A i \in 1..Len(plugins) : FittingTypes(plugins[i].desc, field, value) = {}
    THEN found = NONE
    ELSE \E i \in 1..Len(plugins) :
            /\ FirstToFit(plugins, field, value, i)
            /\ found # NONE /\ found.plugin = plugins[i]
            /\ \E j \in 1..Len(plugins[i].desc) : plugins[i].desc[j].mime = found.mime

LEMMA FindProps ==
    ASSUME NEW plugins \in Seq(Plugins), NEW field, NEW value
    PROVE  FindsFirst(find_plugin_custom(plugins, field, value), plugins, field, value)
<1> DEFINE Fits(i) == FittingTypes(plugins[i].desc, field, value)
           Found == {i \in 1..Len(plugins) : Fits(i) # {}}
           first == CHOOSE i \in Found : \A j \in Found : i <= j
           type == CHOOSE a \in Fits(first) : \A b \in Fits(first) : Earlier(a, b)
           mime == plugin_get_data_types(plugins[first].desc)[type].mime
           result == [plugin |-> plugins[first], mime |-> mime]
<1>1. \A desc : DOMAIN plugin_get_data_types(desc) = DataTypes(desc)
  BY DEF plugin_get_data_types
<1>2. find_plugin_custom(plugins, field, value) = IF Found = {} THEN NONE ELSE result
  BY Zenon DEF find_plugin_custom, FittingTypes
<1> HIDE DEF Fits
<1>3. CASE Found = {}
  <2>1. \A i \in 1..Len(plugins) : Fits(i) = {}
    BY <1>3
  <2> QED
    BY <1>2, <1>3, <2>1 DEF FindsFirst, Fits
<1>4. CASE Found # {}
  <2>1. Found \subseteq Nat /\ \A i \in Found : i \in 1..Len(plugins) /\ Fits(i) # {}
    OBVIOUS
  <2> HIDE DEF Found
  <2>2. first \in Found /\ \A j \in Found : first <= j
    <3>1. \E i \in Found : \A j \in Found : i <= j
      BY <1>4, <2>1, LeastNumber
    <3> QED
      BY <3>1, Zenon
  <2> HIDE DEF first
  <2>3. first \in 1..Len(plugins) /\ Fits(first) # {}
    BY <2>1, <2>2
  <2>4. /\ plugins[first] \in Plugins /\ plugins[first].desc \in MimeDescriptions
    <3>1. plugins[first] \in Plugins
      BY <2>3
    <3> QED
      BY <3>1 DEF Plugins
  <2> DEFINE desc == plugins[first].desc
  <2>5. Fits(first) \subseteq DataTypes(desc)
    BY <1>1 DEF Fits, FittingTypes
  <2>6. DataTypes(desc) \subseteq Nat \X Nat
    BY <2>4 DEF DataTypes, MimeDescriptions
  <2>7. type \in Fits(first)
    <3>1. \E a \in Fits(first) : \A b \in Fits(first) : Earlier(a, b)
      BY <2>3, <2>5, <2>6, FirstPlace
    <3> QED
      BY <3>1, Zenon
  <2> HIDE DEF type
  <2>8. type[1] \in 1..Len(desc) /\ mime = desc[type[1]].mime
    BY <2>5, <2>7 DEF DataTypes, plugin_get_data_types
  <2> HIDE DEF mime, desc
  <2>9. result # NONE /\ result.plugin = plugins[first] /\ result.mime = mime
    <3>1. mime \in Types
      <4>1. desc \in MimeDescriptions
        BY <2>4 DEF desc
      <4>2. \A i \in 1..Len(desc) : desc[i].mime \in Types
        <5> DEFINE Entries == [mime : Types, extensions : Seq(Extensions), complete : BOOLEAN]
        <5>1. desc \in Seq(Entries)
          BY <4>1, Zenon DEF MimeDescriptions
        <5>2. \A e \in Entries : e.mime \in Types
          OBVIOUS
        <5> HIDE DEF Entries
        <5>3. \A i \in 1..Len(desc) : desc[i] \in Entries
          BY <5>1
        <5> QED
          BY <5>2, <5>3
      <4> QED
        BY <2>8, <4>2
    <3>2. result \in [plugin : Plugins, mime : Types]
      BY <2>4, <3>1
    <3> HIDE DEF result
    <3>3. result # NONE
      BY <3>2, PluginsAssumption
    <3> QED
      BY <3>3 DEF result
  <2> HIDE DEF result
  <2>10. find_plugin_custom(plugins, field, value) = result
    BY <1>2, <1>4
  <2>11. \A j \in 1..Len(plugins) : Fits(j) # {} => first <= j
    BY <2>2 DEF Found
  <2>12. FirstToFit(plugins, field, value, first)
    BY <2>3, <2>11 DEF FirstToFit, Fits
  <2>13. \E j \in 1..Len(plugins[first].desc) : plugins[first].desc[j].mime = mime
    BY <2>8 DEF desc
  <2>14. ~\A i \in 1..Len(plugins) : FittingTypes(plugins[i].desc, field, value) = {}
    BY <2>3 DEF Fits
  <2> QED
    BY <2>3, <2>9, <2>10, <2>12, <2>13, <2>14 DEF FindsFirst
<1> QED
  BY <1>3, <1>4

\* A module offers a plugin for the type, or for the extension, exactly
\* when find_plugin_custom would take it.
LEMMA OffersFits ==
    ASSUME NEW module \in Modules, module.kind = "plugin", NEW type, NEW extension
    PROVE  /\ type # NONE =>
                 (Offers(module, type, extension) <=> FittingTypes(module.desc, "mime", type) # {})
           /\ type = NONE =>
                 (Offers(module, type, extension) <=>
                    FittingTypes(module.desc, "extension", extension) # {})
<1> DEFINE desc == module.desc
           n == Len(desc)
           m(i) == Len(desc[i].extensions)
<1> HIDE DEF desc
<1>1. \A place : place \in DataTypes(desc) <=>
         \E i \in 1..n : desc[i].complete /\ \E j \in 1..m(i) : place = <<i, j>>
  BY DEF DataTypes
<1>2. \A i \in 1..n : \A j \in 1..m(i) : desc[i].complete =>
         /\ <<i, j>> \in DataTypes(desc)
         /\ plugin_get_data_types(desc)[<<i, j>>].mime = desc[i].mime
         /\ plugin_get_data_types(desc)[<<i, j>>].extension = desc[i].extensions[j]
  <2> SUFFICES ASSUME NEW i \in 1..n, NEW j \in 1..m(i), desc[i].complete
               PROVE  /\ <<i, j>> \in DataTypes(desc)
                      /\ plugin_get_data_types(desc)[<<i, j>>].mime = desc[i].mime
                      /\ plugin_get_data_types(desc)[<<i, j>>].extension = desc[i].extensions[j]
    OBVIOUS
  <2>1. <<i, j>> \in DataTypes(desc)
    BY <1>1
  <2> QED
    BY <2>1 DEF plugin_get_data_types
<1>3. DOMAIN plugin_get_data_types(desc) = DataTypes(desc)
  BY DEF plugin_get_data_types
<1> DEFINE Declared == plugin_get_data_types(desc)
<1>4. FittingTypes(desc, "mime", type) # {} <=>
        \E i \in 1..n : desc[i].complete /\ \E j \in 1..m(i) : desc[i].mime = type
  <2>1. FittingTypes(desc, "mime", type) = {place \in DataTypes(desc) : Declared[place].mime = type}
    BY <1>3, Zenon DEF FittingTypes
  <2> DEFINE F == FittingTypes(desc, "mime", type)
  <2> HIDE DEF F, Declared, m, n
  <2>2. ASSUME F # {}
        PROVE  \E i \in 1..n : desc[i].complete /\ \E j \in 1..m(i) : desc[i].mime = type
    <3>1. PICK place \in F : TRUE
      BY <2>2
    <3>2. place \in DataTypes(desc) /\ Declared[place].mime = type
      BY <2>1 DEF F
    <3>3. PICK i \in 1..n : desc[i].complete /\ \E j \in 1..m(i) : place = <<i, j>>
      BY <1>1, <3>2
    <3>4. PICK j \in 1..m(i) : place = <<i, j>>
      BY <3>3
    <3>5. Declared[place].mime = desc[i].mime /\ Declared[place].extension = desc[i].extensions[j]
      BY <1>2, <3>3, <3>4 DEF Declared
    <3> QED
      BY <3>2, <3>3, <3>5
  <2>3. ASSUME NEW i \in 1..n, desc[i].complete, NEW j \in 1..m(i), desc[i].mime = type
        PROVE  <<i, j>> \in F
    <3>1. <<i, j>> \in DataTypes(desc) /\ Declared[<<i, j>>].mime = type
      BY <1>2, <2>3 DEF Declared
    <3> QED
      BY <2>1, <3>1 DEF F
  <2>4. F # {} <=> \E i \in 1..n : desc[i].complete /\ \E j \in 1..m(i) : desc[i].mime = type
    BY <2>2, <2>3
  <2> QED
    BY <2>4 DEF F
<1>5. FittingTypes(desc, "extension", extension) # {} <=>
        \E i \in 1..n : desc[i].complete /\ \E j \in 1..m(i) : desc[i].extensions[j] = extension
  <2>1. FittingTypes(desc, "extension", extension) =
          {place \in DataTypes(desc) : Declared[place].extension = extension}
    BY <1>3, Zenon DEF FittingTypes
  <2> DEFINE F == FittingTypes(desc, "extension", extension)
  <2> HIDE DEF F, Declared, m, n
  <2>2. ASSUME F # {}
        PROVE  \E i \in 1..n : desc[i].complete /\ \E j \in 1..m(i) : desc[i].extensions[j] = extension
    <3>1. PICK place \in F : TRUE
      BY <2>2
    <3>2. place \in DataTypes(desc) /\ Declared[place].extension = extension
      BY <2>1 DEF F
    <3>3. PICK i \in 1..n : desc[i].complete /\ \E j \in 1..m(i) : place = <<i, j>>
      BY <1>1, <3>2
    <3>4. PICK j \in 1..m(i) : place = <<i, j>>
      BY <3>3
    <3>5. Declared[place].mime = desc[i].mime /\ Declared[place].extension = desc[i].extensions[j]
      BY <1>2, <3>3, <3>4 DEF Declared
    <3> QED
      BY <3>2, <3>3, <3>5
  <2>3. ASSUME NEW i \in 1..n, desc[i].complete, NEW j \in 1..m(i), desc[i].extensions[j] = extension
        PROVE  <<i, j>> \in F
    <3>1. <<i, j>> \in DataTypes(desc) /\ Declared[<<i, j>>].extension = extension
      BY <1>2, <2>3 DEF Declared
    <3> QED
      BY <2>1, <3>1 DEF F
  <2>4. F # {} <=> \E i \in 1..n : desc[i].complete /\ \E j \in 1..m(i) : desc[i].extensions[j] = extension
    BY <2>2, <2>3
  <2> QED
    BY <2>4 DEF F
<1>6. Offers(module, type, extension) <=>
        \E i \in 1..n : desc[i].complete /\ \E j \in 1..m(i) :
            IF type # NONE THEN desc[i].mime = type ELSE desc[i].extensions[j] = extension
  BY DEF Offers, desc
<1>7. CASE type # NONE
  BY <1>4, <1>6, <1>7 DEF desc
<1>8. CASE type = NONE
  BY <1>5, <1>6, <1>8 DEF desc
<1> QED
  BY <1>7, <1>8

LEMMA PreferredFound ==
    ASSUME NEW exists, exists \subseteq PluginDirSet, NEW contents \in [exists -> DirContents],
           NEW type, NEW extension, type # NONE \/ extension # NONE
    PROVE  PreferredPlugin(find_plugin(LoadedPlugins(contents), type, extension), contents, type, extension)
<1> DEFINE found == find_plugin(LoadedPlugins(contents), type, extension)
           Offered(r) == \E i \in 1..Len(contents[PluginDirs[r]]) :
                            Offers(contents[PluginDirs[r]][i], type, extension)
           ranks == {r \in Places : PluginDirs[r] \in exists /\ Offered(r)}
           least == CHOOSE r \in ranks : \A q \in ranks : r <= q
           plugins == LoadedPlugins(contents)
           field == IF type # NONE THEN "mime" ELSE "extension"
           value == IF type # NONE THEN type ELSE extension
           Done == AllModules(exists, contents)
<1> SUFFICES ASSUME CanLoad(contents)
             PROVE  IF ranks = {} THEN found = NONE
                    ELSE /\ found # NONE
                         /\ found.plugin.dir = PluginDirs[least]
                         /\ \E i \in 1..Len(found.plugin.desc) : found.plugin.desc[i].mime = found.mime
  <2>1. DOMAIN contents = exists
    OBVIOUS
  <2> QED
    BY <2>1, Zenon DEF PreferredPlugin
<1>1. Loaded(plugins, contents, Done)
  BY AllLoaded
<1>2. plugins \in Seq(Plugins)
  BY <1>1 DEF Loaded
<1>3. PICK g : SourcesOf(plugins, g, contents, Done)
  BY <1>1 DEF Loaded
<1>4. /\ \A i \in 1..Len(plugins) :
            /\ g[i] \in Done
            /\ plugins[i].dir = PluginDirs[g[i][1]]
            /\ ModuleAt(contents, g[i]).kind = "plugin"
            /\ plugins[i].desc = ModuleAt(contents, g[i]).desc
      /\ \A i, j \in 1..Len(plugins) : i < j => g[i][1] <= g[j][1]
      /\ \A a \in Done : ModuleAt(contents, a).kind = "plugin" => \E i \in 1..Len(plugins) : g[i] = a
  BY <1>3 DEF SourcesOf
<1>5. FindsFirst(find_plugin_custom(plugins, field, value), plugins, field, value)
  BY <1>2, FindProps
<1>6. found = find_plugin_custom(plugins, field, value)
  BY DEF find_plugin
<1>7. ASSUME NEW a \in Done
      PROVE  /\ a[1] \in Places /\ PluginDirs[a[1]] \in exists
             /\ a[2] \in 1..Len(contents[PluginDirs[a[1]]])
             /\ ModuleAt(contents, a) = contents[PluginDirs[a[1]]][a[2]]
             /\ ModuleAt(contents, a) \in Modules
  <2>1. /\ a[1] \in Places /\ PluginDirs[a[1]] \in exists
        /\ a[2] \in 1..Len(contents[PluginDirs[a[1]]])
    BY DEF AllModules
  <2>2. contents[PluginDirs[a[1]]] \in Seq(Modules)
    BY <2>1, PluginsAssumption
  <2> QED
    BY <2>1, <2>2 DEF ModuleAt
<1> DEFINE Fits(desc) == FittingTypes(desc, field, value) # {}
<1>8. ASSUME NEW a \in Done, ModuleAt(contents, a).kind = "plugin"
      PROVE  Offers(ModuleAt(contents, a), type, extension) <=> Fits(ModuleAt(contents, a).desc)
  <2>1. ModuleAt(contents, a) \in Modules
    BY <1>7
  <2>2. CASE type # NONE
    BY <1>8, <2>1, <2>2, OffersFits
  <2>3. CASE type = NONE
    BY <1>8, <2>1, <2>3, OffersFits
  <2> QED
    BY <2>2, <2>3
<1> HIDE DEF found, plugins, field, value, Done
\* Whatever fits is of a place that has something to offer.
<1>9. ASSUME NEW i \in 1..Len(plugins), Fits(plugins[i].desc) PROVE g[i][1] \in ranks
  <2>1. Offers(ModuleAt(contents, g[i]), type, extension)
    BY <1>4, <1>8, <1>9
  <2>2. g[i] \in Done
    BY <1>4
  <2> QED
    BY <1>7, <2>1, <2>2
\* And a place that has something to offer has a plugin that fits.
<1>10. ASSUME NEW r \in ranks PROVE \E i \in 1..Len(plugins) : g[i][1] = r /\ Fits(plugins[i].desc)
  <2>1. r \in Places /\ PluginDirs[r] \in exists
    OBVIOUS
  <2>2. PICK x \in 1..Len(contents[PluginDirs[r]]) :
            Offers(contents[PluginDirs[r]][x], type, extension)
    OBVIOUS
  <2> DEFINE a == <<r, x>>
  <2>3. a[1] = r /\ ModuleAt(contents, a) = contents[PluginDirs[r]][x]
    BY DEF ModuleAt
  <2>4. a \in Done
    BY <2>1, <2>2 DEF Done, AllModules
  <2> HIDE DEF a
  <2>5. ModuleAt(contents, a).kind = "plugin" /\ Fits(ModuleAt(contents, a).desc)
    <3>1. ModuleAt(contents, a).kind = "plugin"
      BY <2>2, <2>3 DEF Offers
    <3> QED
      BY <1>8, <2>2, <2>3, <2>4, <3>1
  <2>6. PICK i \in 1..Len(plugins) : g[i] = a
    BY <1>4, <2>4, <2>5
  <2> QED
    BY <1>4, <2>3, <2>5, <2>6
<1>11. ranks \subseteq Nat
  BY DEF Places
<1> HIDE DEF ranks
<1>12. CASE ranks = {}
  <2>1. \A i \in 1..Len(plugins) : FittingTypes(plugins[i].desc, field, value) = {}
    BY <1>9, <1>12
  <2> QED
    BY <1>5, <1>6, <1>12, <2>1 DEF FindsFirst
<1>13. CASE ranks # {}
  <2>1. least \in ranks /\ \A q \in ranks : least <= q
    <3>1. \E r \in ranks : \A q \in ranks : r <= q
      BY <1>11, <1>13, LeastNumber
    <3> QED
      BY <3>1, Zenon
  <2> HIDE DEF least
  <2>2. PICK k \in 1..Len(plugins) : g[k][1] = least /\ Fits(plugins[k].desc)
    BY <1>10, <2>1
  <2>3. ~\A i \in 1..Len(plugins) : FittingTypes(plugins[i].desc, field, value) = {}
    BY <2>2
  <2>4. PICK i \in 1..Len(plugins) :
            /\ FirstToFit(plugins, field, value, i)
            /\ found # NONE /\ found.plugin = plugins[i]
            /\ \E j \in 1..Len(plugins[i].desc) : plugins[i].desc[j].mime = found.mime
    BY <1>5, <1>6, <2>3 DEF FindsFirst
  <2>5. Fits(plugins[i].desc) /\ i <= k
    BY <2>2, <2>4 DEF FirstToFit
  <2>6. g[i][1] \in ranks /\ least <= g[i][1]
    BY <1>9, <2>1, <2>5
  <2> DEFINE p == g[i][1]
             q == g[k][1]
  <2>7. p \in Nat /\ least \in Nat /\ least <= p /\ q = least /\ (i = k => p = q)
    BY <1>11, <2>1, <2>2, <2>6
  <2>8. i # k => p <= q
    <3>1. i \in 1..Len(plugins) /\ k \in 1..Len(plugins) /\ i <= k
      BY <2>5
    <3>2. i # k => i < k
      BY <1>2, <3>1
    <3> QED
      BY <1>4, <3>2
  <2> HIDE DEF p, q
  <2>9. p = least
    BY <2>7, <2>8
  <2>10. found.plugin.dir = PluginDirs[least]
    BY <1>4, <2>4, <2>9 DEF p
  <2>11. \E j \in 1..Len(found.plugin.desc) : found.plugin.desc[j].mime = found.mime
    BY <2>4
  <2> QED
    BY <1>13, <2>4, <2>10, <2>11
<1> QED
  BY <1>12, <1>13

\* An object with neither attribute finds none.
LEMMA NothingAsked ==
    ASSUME NEW exists, exists \subseteq PluginDirSet, NEW contents \in [exists -> DirContents]
    PROVE  PreferredPlugin(find_plugin(LoadedPlugins(contents), NONE, NONE), contents, NONE, NONE)
<1>1. find_plugin(LoadedPlugins(contents), NONE, NONE) = NONE
  BY DEF find_plugin
<1>2. ASSUME NEW module \in Modules PROVE ~Offers(module, NONE, NONE)
  <2> DEFINE Entries == [mime : Types, extensions : Seq(Extensions), complete : BOOLEAN]
             desc == module.desc
  <2>1. desc \in Seq(Entries)
    BY DEF Modules, MimeDescriptions
  <2>2. \A e \in Entries : e.extensions \in Seq(Extensions)
    OBVIOUS
  <2> HIDE DEF Entries, desc
  <2>3. ASSUME NEW i \in 1..Len(desc), NEW j \in 1..Len(desc[i].extensions)
        PROVE  desc[i].extensions[j] # NONE
    <3>1. desc[i].extensions \in Seq(Extensions)
      BY <2>1, <2>2
    <3>2. desc[i].extensions[j] \in Extensions
      BY <3>1
    <3> QED
      BY <3>2, PluginsAssumption
  <2> QED
    BY <2>3 DEF Offers, desc
<1>3. ASSUME NEW r \in Places, PluginDirs[r] \in exists, NEW i \in 1..Len(contents[PluginDirs[r]])
      PROVE  ~Offers(contents[PluginDirs[r]][i], NONE, NONE)
  <2>1. contents[PluginDirs[r]] \in Seq(Modules)
    BY <1>3, PluginsAssumption
  <2>2. contents[PluginDirs[r]][i] \in Modules
    BY <2>1
  <2> QED
    BY <1>2, <2>2
<1>4. {r \in Places : PluginDirs[r] \in DOMAIN contents /\
          \E i \in 1..Len(contents[PluginDirs[r]]) :
              Offers(contents[PluginDirs[r]][i], NONE, NONE)} = {}
  BY <1>3
<1> QED
  BY <1>1, <1>4, Zenon DEF PreferredPlugin

\* Whatever directories exist and whatever is in them, the plugin the player
\* takes is the first place's that has one for the object, and the MIME type
\* it starts it with is one the plugin declares (get_plugin_dirs,
\* player_app_run, find_plugin_custom).
THEOREM HomePluginsAlwaysFirst == ChoiceInit /\ [][ChoiceNext]_choiceVars => []HomePluginsFirst
<1>1. ChoiceInit => HomePluginsFirst
  BY DEF ChoiceInit, HomePluginsFirst
<1>2. HomePluginsFirst /\ [ChoiceNext]_choiceVars => HomePluginsFirst'
  <2> SUFFICES ASSUME HomePluginsFirst, [ChoiceNext]_choiceVars PROVE HomePluginsFirst'
    OBVIOUS
  <2>1. CASE ChoiceNext
    <3> DEFINE Asks(contents, type, extension) ==
                   /\ asked' = [contents |-> contents, type |-> type, extension |-> extension]
                   /\ CanLoad(contents) =>
                         chosen' = find_plugin(LoadedPlugins(contents), type, extension)
    <3>1. PICK exists \in SUBSET {PluginDirs[r] : r \in Places} :
            \E contents \in [exists -> DirContents] :
              \E type \in Types \cup {NONE}, extension \in Extensions \cup {NONE} :
                Asks(contents, type, extension)
      BY <2>1 DEF ChoiceNext, LookupPlugin
    <3>2. PICK contents \in [exists -> DirContents] :
            \E type \in Types \cup {NONE}, extension \in Extensions \cup {NONE} :
              Asks(contents, type, extension)
      BY <3>1
    <3>3. PICK type \in Types \cup {NONE}, extension \in Extensions \cup {NONE} :
              Asks(contents, type, extension)
      BY <3>2
    <3>4. exists \subseteq PluginDirSet /\ DOMAIN contents = exists
      BY DEF PluginDirSet
    <3> DEFINE found == find_plugin(LoadedPlugins(contents), type, extension)
    <3>5. PreferredPlugin(found, contents, type, extension)
      <4>1. CASE type = NONE /\ extension = NONE
        BY <3>4, <4>1, NothingAsked
      <4>2. CASE type # NONE \/ extension # NONE
        BY <3>4, <4>2, PreferredFound
      <4> QED
        BY <4>1, <4>2
    <3> HIDE DEF found
    <3>6. CanLoad(contents) => chosen' = found
      BY <3>3 DEF found
    <3>7. asked'.contents = contents /\ asked'.type = type /\ asked'.extension = extension
      BY <3>3
    <3>8. PreferredPlugin(chosen', contents, type, extension)
      BY <3>5, <3>6, Zenon DEF PreferredPlugin
    <3> QED
      BY <3>7, <3>8 DEF HomePluginsFirst
  <2>2. CASE UNCHANGED choiceVars
    BY <2>2 DEF choiceVars, HomePluginsFirst
  <2> QED
    BY <2>1, <2>2
<1> QED
  BY <1>1, <1>2, PTL
=============================================================================
