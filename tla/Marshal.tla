------------------------------ MODULE Marshal ------------------------------
(* How the values of a call travel over the connection: the senders and    *)
(* receivers of src/src/rpc.c and the marshalers of the NPAPI types of     *)
(* src/src/npw-rpc.c.                                                      *)
(*                                                                         *)
(* The stream of bytes is a sequence of tokens <<width, value>>: a word of *)
(* 4 bytes, or a single byte.  A receiver that asks for a word where bytes *)
(* are next has lost its place in the stream: "DESYNC".                    *)
(*                                                                         *)
(* A sender takes and gives a writer: the message's buffer, what was       *)
(* written to the socket, and the error.  A receiver takes and gives a     *)
(* reader: what is left to read, the error, the value read last, and the   *)
(* blocks of memory it allocated, as <<part, allocator>>.  After an error  *)
(* both do nothing any more, which is what the early returns amount to.    *)
EXTENDS Integers, Sequences, SequencesExt, TLC

CONSTANTS
  Null,        \* the NULL pointer
  BufSize,     \* bytes of the buffer of a message (BUFSIZ)
  WordSize,    \* the number of values of a 32-bit word in a 64-bit number
  KnownIds     \* ids of instances and streams in the id map of the receiver

ASSUME BufSizeAssumption == BufSize \in Nat /\ BufSize > 4
ASSUME WordSizeAssumption == WordSize \in Nat /\ WordSize > 1
ASSUME KnownIdsAssumption == KnownIds \subseteq Nat \ {0}

NoError == "NO_ERROR"

TypeCode ==
  [CHAR |-> -2000, BOOLEAN |-> -2001, INT32 |-> -2002, UINT32 |-> -2003,
   UINT64 |-> -2004, DOUBLE |-> -2005, STRING |-> -2006, ARRAY |-> -2007]
  @@
  [NPP |-> 1, NP_STREAM |-> 2, NP_BYTE_RANGE |-> 3, NP_SAVED_DATA |-> 4,
   NP_NOTIFY_DATA |-> 5, NP_RECT |-> 6, NP_WINDOW |-> 7, NP_EVENT |-> 8,
   NP_PRINT |-> 9, NP_PRINT_DATA |-> 12, NP_OBJECT |-> 13,
   NP_IDENTIFIER |-> 14, NP_STRING |-> 15, NP_VARIANT |-> 16, NP_UTF8 |-> 17,
   NP_OBJECT_PASS_REF |-> 18, NP_VARIANT_PASS_REF |-> 19,
   NPW_PLUGIN_INSTANCE |-> 20]

Tag ==
  [START |-> -3000, ARGS |-> -3001, END |-> -3002, REPLY |-> -3004, FAILURE |-> -3005]

\* RPC_TYPE_ARRAY is followed by the type of the elements
ElementType ==
  [ARRAY_CHAR |-> "CHAR", ARRAY_UINT32 |-> "UINT32", ARRAY_STRING |-> "STRING",
   ARRAY_NP_IDENTIFIER |-> "NP_IDENTIFIER", ARRAY_NP_VARIANT |-> "NP_VARIANT"]

IsArray(t) == t \in DOMAIN ElementType

----------------------------------------------------------------------------
(* Writers and readers *)

rpc_message_init == [buf |-> <<>>, out |-> <<>>, e |-> NoError]

SendError(w, e) == IF w.e = NoError THEN [w EXCEPT !.e = e] ELSE w

Size(ts) == FoldLeft(LAMBDA n, t : n + t[1], 0, ts)

rpc_message_flush(w) ==
  IF w.e = NoError THEN [w EXCEPT !.out = @ \o w.buf, !.buf = <<>>] ELSE w

\* What does not fit into the buffer goes out behind it, unbuffered.
rpc_message_send_bytes(w, ts) ==
  IF w.e # NoError THEN w
  ELSE IF Size(w.buf) + Size(ts) >= BufSize
  THEN [rpc_message_flush(w) EXCEPT !.out = @ \o ts]
  ELSE [w EXCEPT !.buf = @ \o ts]

Bytes(s) == [i \in 1 .. Len(s) |-> <<1, s[i]>>]

Reader(ts) == [in |-> ts, e |-> NoError, v |-> Null, m |-> {}]

RecvError(r, e) == IF r.e = NoError THEN [r EXCEPT !.e = e] ELSE r

Value(r, v) == IF r.e = NoError THEN [r EXCEPT !.v = v] ELSE r

\* What comes after a step that succeeded
Then(r, Step(_)) == IF r.e = NoError THEN Step(r) ELSE r

Alloc(r, part, allocator) ==
  IF r.e = NoError THEN [r EXCEPT !.m = @ \cup {<<part, allocator>>}] ELSE r

\* Mutant: a short read is taken for the whole.
TakeWhatIsThere(r, n, width) ==
  IF r.e # NoError THEN r
  ELSE [r EXCEPT !.in = SubSeq(@, n + 1, Len(@)),
                 !.v = [i \in 1 .. n |-> IF i <= Len(r.in) THEN r.in[i][2] ELSE 0]]

\* The values of the next n tokens; recv() of no bytes returns 0, which is
\* taken for the end of the stream.
Take(r, n, width) ==
  IF r.e # NoError THEN r
  ELSE IF n = 0 \/ Len(r.in) < n THEN RecvError(r, "CONNECTION_CLOSED")
  ELSE IF \E i \in 1 .. n : r.in[i][1] # width THEN RecvError(r, "DESYNC")
  ELSE [r EXCEPT !.in = SubSeq(@, n + 1, Len(@)),
                 !.v = [i \in 1 .. n |-> r.in[i][2]]]

rpc_message_recv_bytes(r, n) == Take(r, n, 1)

\* Recv reads the field f of the value of r.
Field(r, f, Recv(_)) ==
  Then(Recv(r), LAMBDA q : Value(q, r.v @@ (f :> q.v)))

----------------------------------------------------------------------------
(* The basic types *)

rpc_message_send_char(w, c) == rpc_message_send_bytes(w, << <<1, c>> >>)

rpc_message_recv_char(r) ==
  Then(rpc_message_recv_bytes(r, 1), LAMBDA q : Value(q, q.v[1]))

\* INT32 and UINT32 are the same four bytes.
rpc_message_send_int32(w, n) == rpc_message_send_bytes(w, << <<4, n>> >>)

rpc_message_recv_int32(r) ==
  Then(Take(r, 1, 4), LAMBDA q : Value(q, q.v[1]))

SendWords(w, v, fs) ==
  FoldLeft(LAMBDA x, f : rpc_message_send_int32(x, v[f]), w, fs)

RecvWords(r, fs) ==
  FoldLeft(LAMBDA q, f : Field(q, f, rpc_message_recv_int32), r, fs)

rpc_message_send_uint64(w, n) ==
  rpc_message_send_int32(rpc_message_send_int32(w, n \div WordSize), n % WordSize)

rpc_message_recv_uint64(r) ==
  Then(RecvWords(Value(r, <<>>), <<"hi", "lo">>),
       LAMBDA q : Value(q, q.v.hi * WordSize + q.v.lo))

rpc_message_send_double(w, v) ==
  SendWords(w, v, <<"negative", "exponent", "mantissa0", "mantissa1">>)

rpc_message_recv_double(r) ==
  RecvWords(Value(r, <<>>), <<"negative", "exponent", "mantissa0", "mantissa1">>)

rpc_message_send_string(w, s) ==
  IF s = Null THEN rpc_message_send_int32(w, -1)
  ELSE LET x == rpc_message_send_int32(w, Len(s))
       IN  IF Len(s) > 0 THEN rpc_message_send_bytes(x, Bytes(s)) ELSE x

rpc_message_recv_string(r) ==
  Then(rpc_message_recv_int32(r), LAMBDA q :
         IF q.v = -1 THEN Value(q, Null)
         ELSE IF q.v > 0 THEN rpc_message_recv_bytes(Alloc(q, "string", "malloc"), q.v)
         ELSE Value(Alloc(q, "string", "malloc"), <<>>))

----------------------------------------------------------------------------
(* Instances, streams and what they carry *)

do_send_NPW_PluginInstance(w, p) ==
  rpc_message_send_int32(w, IF p = Null THEN 0 ELSE p)

id_lookup(id) == IF id \in KnownIds THEN id ELSE Null

do_recv_NPW_PluginInstance(r) ==
  Then(rpc_message_recv_int32(r), LAMBDA q : Value(q, id_lookup(q.v)))

\* A stream whose instance data is gone is sent as stream 0.
do_send_NPStream(w, s) ==
  rpc_message_send_int32(w, IF s = Null \/ s.sip = Null THEN 0 ELSE s.sip)

do_recv_NPStream(r) ==
  Then(rpc_message_recv_int32(r), LAMBDA q :
         Value(q, IF id_lookup(q.v) = Null THEN Null ELSE [sip |-> q.v]))

do_send_NPByteRange(w, ranges) ==
  rpc_message_send_int32(
    FoldLeft(LAMBDA x, range :
               SendWords(rpc_message_send_int32(x, 1), range, <<"offset", "length">>),
             w, ranges),
    0)

\* One turn of the loop: the word that says whether a range follows, and it
RecvRange(r) ==
  Then(rpc_message_recv_int32(r), LAMBDA q :
         IF q.v = 0 THEN Value(q, Null)
         ELSE RecvWords(Value(Alloc(q, "range", "malloc"), <<>>), <<"offset", "length">>))

\* The loop ends at the first 0; no list is longer than what is left to read.
do_recv_NPByteRange(r) ==
  LET Turned(q, p) == [r |-> p, end |-> p.e = NoError /\ p.v = Null,
                       list |-> IF p.e = NoError /\ p.v # Null THEN Append(q.list, p.v) ELSE q.list]
      Turn(q, i) == IF q.end \/ q.r.e # NoError THEN q ELSE Turned(q, RecvRange(q.r))
      List(last) == Value(last.r, last.list)
  IN  List(FoldLeft(Turn, [r |-> r, end |-> FALSE, list |-> <<>>],
                    [i \in 1 .. Len(r.in) + 1 |-> i]))

do_send_NPSavedData(w, d) ==
  IF d = Null THEN rpc_message_send_int32(w, 0)
  ELSE rpc_message_send_bytes(rpc_message_send_int32(w, Len(d)), Bytes(d))

do_recv_NPSavedData(r) ==
  Then(rpc_message_recv_int32(r), LAMBDA q :
         IF q.v = 0 THEN Value(q, Null)
         ELSE rpc_message_recv_bytes(
                Alloc(Alloc(q, "saved", "MemAlloc"), "saved.buf", "MemAlloc"), q.v))

do_send_NotifyData(w, p) == rpc_message_send_uint64(w, p)

do_recv_NotifyData(r) == rpc_message_recv_uint64(r)

----------------------------------------------------------------------------
(* Windows *)

do_send_NPRect(w, v) == SendWords(w, v, <<"top", "left", "bottom", "right">>)

do_recv_NPRect(r) ==
  RecvWords(Value(r, <<>>), <<"top", "left", "bottom", "right">>)

do_send_NPSetWindowCallbackStruct(w, ws) ==
  IF ws = Null THEN rpc_message_send_int32(w, 0)
  ELSE SendWords(rpc_message_send_int32(w, 1), ws,
                 <<"type", "visual", "colormap", "depth">>)

do_recv_NPSetWindowCallbackStruct(r) ==
  Then(rpc_message_recv_int32(r), LAMBDA q :
         IF q.v = 0 THEN Value(q, Null)
         ELSE Alloc(RecvWords(Value(q, <<>>), <<"type", "visual", "colormap", "depth">>),
                    "ws_info", "malloc"))

do_send_NPWindowData(w, v) ==
  LET a == SendWords(w, v, <<"window", "x", "y", "width", "height">>)
      b == rpc_message_send_int32(do_send_NPRect(a, v.clipRect), v.type)
  IN  do_send_NPSetWindowCallbackStruct(b, v.ws_info)

do_recv_NPWindowData(r) ==
  LET a == RecvWords(Value(r, <<>>), <<"window", "x", "y", "width", "height">>)
      b == RecvWords(Field(a, "clipRect", do_recv_NPRect), <<"type">>)
  IN  Field(b, "ws_info", do_recv_NPSetWindowCallbackStruct)

do_send_NPWindow(w, v) ==
  IF v = Null THEN rpc_message_send_int32(w, 0)
  ELSE do_send_NPWindowData(rpc_message_send_int32(w, 1), v)

do_recv_NPWindow(r) ==
  Then(rpc_message_recv_int32(r), LAMBDA q :
         IF q.v = 0 THEN Value(q, Null)
         ELSE do_recv_NPWindowData(Alloc(q, "window", "malloc")))

----------------------------------------------------------------------------
(* Events.  The names are those of X.h. *)

EventCode ==
  [KeyPress |-> 2, KeyRelease |-> 3, ButtonPress |-> 4, ButtonRelease |-> 5,
   MotionNotify |-> 6, EnterNotify |-> 7, LeaveNotify |-> 8, FocusIn |-> 9,
   FocusOut |-> 10, GraphicsExpose |-> 13]

is_valid_NPEvent_type(type) == \E k \in DOMAIN EventCode : EventCode[k] = type

EventIs(type, kinds) == \E k \in kinds : EventCode[k] = type

do_send_XAnyEvent(w, v) == SendWords(w, v, <<"serial", "send_event", "window">>)

do_send_XGraphicsExposeEvent(w, v) ==
  SendWords(do_send_XAnyEvent(w, v), v, <<"x", "y", "width", "height">>)

do_send_XFocusChangeEvent(w, v) == w

do_send_XCrossingEvent(w, v) ==
  SendWords(do_send_XAnyEvent(w, v), v,
            <<"root", "subwindow", "time", "x", "y", "x_root", "y_root", "mode",
              "detail", "same_screen", "focus", "state">>)

do_send_XMotionEvent(w, v) ==
  LET a == SendWords(do_send_XAnyEvent(w, v), v,
                     <<"root", "subwindow", "time", "x", "y", "x_root", "y_root", "state">>)
  IN  SendWords(rpc_message_send_char(a, v.is_hint), v, <<"same_screen">>)

do_send_XButtonEvent(w, v) ==
  SendWords(do_send_XAnyEvent(w, v), v,
            <<"root", "subwindow", "time", "x", "y", "x_root", "y_root", "state",
              "button", "same_screen">>)

do_send_XKeyEvent(w, v) ==
  SendWords(do_send_XAnyEvent(w, v), v,
            <<"root", "subwindow", "time", "x", "y", "x_root", "y_root", "state",
              "keycode", "same_screen">>)

SendEventData(w, v) ==
  CASE EventIs(v.type, {"GraphicsExpose"}) -> do_send_XGraphicsExposeEvent(w, v)
    [] EventIs(v.type, {"FocusIn", "FocusOut"}) -> do_send_XFocusChangeEvent(w, v)
    [] EventIs(v.type, {"EnterNotify", "LeaveNotify"}) -> do_send_XCrossingEvent(w, v)
    [] EventIs(v.type, {"MotionNotify"}) -> do_send_XMotionEvent(w, v)
    [] EventIs(v.type, {"ButtonPress", "ButtonRelease"}) -> do_send_XButtonEvent(w, v)
    [] EventIs(v.type, {"KeyPress", "KeyRelease"}) -> do_send_XKeyEvent(w, v)

do_send_NPEvent(w, v) ==
  IF v = Null \/ ~is_valid_NPEvent_type(v.type) THEN SendError(w, "ARGUMENT_INVALID")
  ELSE SendEventData(rpc_message_send_int32(w, v.type), v)

do_recv_XAnyEvent(r) == RecvWords(r, <<"serial", "send_event", "window">>)

do_recv_XGraphicsExposeEvent(r) ==
  RecvWords(do_recv_XAnyEvent(r), <<"x", "y", "width", "height">>)

do_recv_XFocusChangeEvent(r) == r

do_recv_XCrossingEvent(r) ==
  RecvWords(do_recv_XAnyEvent(r),
            <<"root", "subwindow", "time", "x", "y", "x_root", "y_root", "mode",
              "detail", "same_screen", "focus", "state">>)

\* Mutant: is_hint is read as an int.
do_recv_XMotionEventOfInts(r) ==
  RecvWords(do_recv_XAnyEvent(r),
            <<"root", "subwindow", "time", "x", "y", "x_root", "y_root", "state", "is_hint",
              "same_screen">>)

do_recv_XMotionEvent(r) ==
  LET a == RecvWords(do_recv_XAnyEvent(r),
                     <<"root", "subwindow", "time", "x", "y", "x_root", "y_root", "state">>)
  IN  RecvWords(Field(a, "is_hint", rpc_message_recv_char), <<"same_screen">>)

do_recv_XButtonEvent(r) ==
  RecvWords(do_recv_XAnyEvent(r),
            <<"root", "subwindow", "time", "x", "y", "x_root", "y_root", "state",
              "button", "same_screen">>)

do_recv_XKeyEvent(r) ==
  RecvWords(do_recv_XAnyEvent(r),
            <<"root", "subwindow", "time", "x", "y", "x_root", "y_root", "state",
              "keycode", "same_screen">>)

RecvEventData(q) ==
  CASE EventIs(q.v.type, {"GraphicsExpose"}) -> do_recv_XGraphicsExposeEvent(q)
    [] EventIs(q.v.type, {"FocusIn", "FocusOut"}) -> do_recv_XFocusChangeEvent(q)
    [] EventIs(q.v.type, {"EnterNotify", "LeaveNotify"}) -> do_recv_XCrossingEvent(q)
    [] EventIs(q.v.type, {"MotionNotify"}) -> do_recv_XMotionEvent(q)
    [] EventIs(q.v.type, {"ButtonPress", "ButtonRelease"}) -> do_recv_XButtonEvent(q)
    [] EventIs(q.v.type, {"KeyPress", "KeyRelease"}) -> do_recv_XKeyEvent(q)
    [] OTHER -> RecvError(q, "GENERIC")

do_recv_NPEvent(r) == Then(RecvWords(Value(r, <<>>), <<"type">>), RecvEventData)

----------------------------------------------------------------------------
(* Printing *)

NP_EMBED == 1
NP_FULL == 2

do_send_NPFullPrint(w, v) == SendWords(w, v, <<"pluginPrinted", "printOne">>)

do_recv_NPFullPrint(r) == RecvWords(Value(r, <<>>), <<"pluginPrinted", "printOne">>)

do_send_NPEmbedPrint(w, v) == do_send_NPWindowData(w, v.window)

do_recv_NPEmbedPrint(r) == Field(Value(r, <<>>), "window", do_recv_NPWindowData)

do_send_NPPrint(w, v) ==
  LET x == rpc_message_send_int32(w, v.mode) IN
  CASE v.mode = NP_FULL  -> do_send_NPFullPrint(x, v.print)
    [] v.mode = NP_EMBED -> do_send_NPEmbedPrint(x, v.print)
    [] OTHER -> SendError(x, "GENERIC")

do_recv_NPPrint(r) ==
  Then(RecvWords(Value(r, <<>>), <<"mode">>), LAMBDA q :
         CASE q.v.mode = NP_FULL  -> Field(q, "print", do_recv_NPFullPrint)
           [] q.v.mode = NP_EMBED -> Field(q, "print", do_recv_NPEmbedPrint)
           [] OTHER -> RecvError(q, "GENERIC"))

do_send_NPPrintData(w, d) ==
  rpc_message_send_bytes(rpc_message_send_int32(w, Len(d)), Bytes(d))

do_recv_NPPrintData(r) ==
  Then(rpc_message_recv_int32(r), LAMBDA q : rpc_message_recv_bytes(q, q.v))

----------------------------------------------------------------------------
(* Scriptable objects, identifiers, strings and variants.  What the        *)
(* marshalers do to stubs, proxies and references is module NPObjects; an  *)
(* object here is [proxy, id, plugin, last]: whether the end at hand has a *)
(* proxy of it, its id, its owner, and whether the reference passed is the *)
(* last one.                                                               *)

ObjectCode == [NPOBJECT_NULL |-> 0, SENDER_OWNED |-> 1, RECEIVER_OWNED |-> 2]

do_send_NPObject_helper(w, o, pass_ref) ==
  LET type == IF o = Null THEN ObjectCode.NPOBJECT_NULL
              ELSE IF o.proxy THEN ObjectCode.RECEIVER_OWNED ELSE ObjectCode.SENDER_OWNED
      a == rpc_message_send_int32(w, type)
      b == do_send_NPW_PluginInstance(a, IF o = Null \/ o.proxy THEN Null ELSE o.plugin)
      c == rpc_message_send_int32(b, IF o = Null THEN 0 ELSE o.id)
  IN  IF ~pass_ref THEN c
      ELSE rpc_message_send_int32(c, IF o # Null /\ o.proxy /\ o.last THEN 1 ELSE 0)

do_recv_NPObject_helper(r, pass_ref) ==
  LET a == RecvWords(Value(r, <<>>), <<"type">>)
      b == RecvWords(Field(a, "plugin", do_recv_NPW_PluginInstance), <<"id">>)
      Object(q, sent) ==
        IF q.v.type = ObjectCode.NPOBJECT_NULL THEN Value(q, Null)
        ELSE IF \/ q.v.type \notin {ObjectCode[k] : k \in DOMAIN ObjectCode}
                \/ sent /\ pass_ref /\ q.v.release_stub # 0
        THEN RecvError(q, "GENERIC")
        ELSE Alloc(Value(q, [proxy |-> sent, id |-> q.v.id, plugin |-> q.v.plugin]),
                   "object", "reference")
  IN  Then(RecvWords(b, IF pass_ref THEN <<"release_stub">> ELSE <<>>),
           LAMBDA q : Object(q, q.v.type = ObjectCode.SENDER_OWNED))

do_send_NPIdentifier(w, i) == rpc_message_send_int32(w, IF i = Null THEN 0 ELSE i)

do_recv_NPIdentifier(r) ==
  Then(rpc_message_recv_int32(r), LAMBDA q : IF q.v = 0 THEN Value(q, Null) ELSE q)

\* A string with its terminating NUL; NULL cannot be sent.
do_send_NPUTF8(w, s) ==
  IF s = Null THEN SendError(w, "ARGUMENT_INVALID")
  ELSE rpc_message_send_bytes(rpc_message_send_int32(w, Len(s) + 1), Bytes(Append(s, 0)))

do_recv_NPUTF8(r) ==
  Then(Then(rpc_message_recv_int32(r), LAMBDA q :
              rpc_message_recv_bytes(Alloc(q, "utf8", "MemAlloc"), q.v)),
       LAMBDA p : Value(p, SubSeq(p.v, 1, Len(p.v) - 1)))

do_send_NPString(w, s) ==
  LET x == rpc_message_send_int32(w, s.length)
  IN  IF s.length > 0 /\ s.chars # Null THEN rpc_message_send_bytes(x, Bytes(s.chars)) ELSE x

do_recv_NPString(r) ==
  LET Chars(a, n) == IF n > 0 THEN rpc_message_recv_bytes(a, n) ELSE Value(a, <<>>)
  IN  Then(rpc_message_recv_int32(r), LAMBDA q :
             Then(Chars(Alloc(q, "chars", "MemAlloc"), q.v), LAMBDA p :
                    Value(p, [length |-> q.v, chars |-> p.v])))

VariantCode ==
  [Void |-> 0, NullType |-> 1, Bool |-> 2, Int32 |-> 3, Double |-> 4, String |-> 5, Object |-> 6]

do_send_NPVariant_helper(w, v, pass_ref) ==
  LET x == rpc_message_send_int32(w, v.type) IN
  CASE v.type \in {VariantCode.Void, VariantCode.NullType} -> x
    [] v.type \in {VariantCode.Bool, VariantCode.Int32} -> rpc_message_send_int32(x, v.value)
    [] v.type = VariantCode.Double -> rpc_message_send_double(x, v.value)
    [] v.type = VariantCode.String -> do_send_NPString(x, v.value)
    [] v.type = VariantCode.Object -> do_send_NPObject_helper(x, v.value, pass_ref)

do_recv_NPVariant_helper(r, pass_ref) ==
  LET RecvObject(p) == do_recv_NPObject_helper(p, pass_ref)
  IN  Then(RecvWords(Value(r, <<>>), <<"type">>), LAMBDA q :
             CASE q.v.type \in {VariantCode.Bool, VariantCode.Int32} -> RecvWords(q, <<"value">>)
               [] q.v.type = VariantCode.Double -> Field(q, "value", rpc_message_recv_double)
               [] q.v.type = VariantCode.String -> Field(q, "value", do_recv_NPString)
               [] q.v.type = VariantCode.Object -> Field(q, "value", RecvObject)
               [] OTHER -> q)

----------------------------------------------------------------------------
(* Messages: the marshaler of each type, arrays, lists of arguments *)

Send(w, t, v) ==
  CASE t = "CHAR" -> rpc_message_send_char(w, v)
    [] t \in {"BOOLEAN", "INT32", "UINT32"} -> rpc_message_send_int32(w, v)
    [] t = "UINT64" -> rpc_message_send_uint64(w, v)
    [] t = "DOUBLE" -> rpc_message_send_double(w, v)
    [] t = "STRING" -> rpc_message_send_string(w, v)
    [] t \in {"NPP", "NPW_PLUGIN_INSTANCE"} -> do_send_NPW_PluginInstance(w, v)
    [] t = "NP_STREAM" -> do_send_NPStream(w, v)
    [] t = "NP_BYTE_RANGE" -> do_send_NPByteRange(w, v)
    [] t = "NP_SAVED_DATA" -> do_send_NPSavedData(w, v)
    [] t = "NP_NOTIFY_DATA" -> do_send_NotifyData(w, v)
    [] t = "NP_RECT" -> do_send_NPRect(w, v)
    [] t = "NP_WINDOW" -> do_send_NPWindow(w, v)
    [] t = "NP_EVENT" -> do_send_NPEvent(w, v)
    [] t = "NP_PRINT" -> do_send_NPPrint(w, v)
    [] t = "NP_PRINT_DATA" -> do_send_NPPrintData(w, v)
    [] t = "NP_OBJECT" -> do_send_NPObject_helper(w, v, FALSE)
    [] t = "NP_OBJECT_PASS_REF" -> do_send_NPObject_helper(w, v, TRUE)
    [] t = "NP_IDENTIFIER" -> do_send_NPIdentifier(w, v)
    [] t = "NP_UTF8" -> do_send_NPUTF8(w, v)
    [] t = "NP_STRING" -> do_send_NPString(w, v)
    [] t = "NP_VARIANT" -> do_send_NPVariant_helper(w, v, FALSE)
    [] t = "NP_VARIANT_PASS_REF" -> do_send_NPVariant_helper(w, v, TRUE)

Recv(r, t) ==
  CASE t = "CHAR" -> rpc_message_recv_char(r)
    [] t \in {"BOOLEAN", "INT32", "UINT32"} -> rpc_message_recv_int32(r)
    [] t = "UINT64" -> rpc_message_recv_uint64(r)
    [] t = "DOUBLE" -> rpc_message_recv_double(r)
    [] t = "STRING" -> rpc_message_recv_string(r)
    [] t \in {"NPP", "NPW_PLUGIN_INSTANCE"} -> do_recv_NPW_PluginInstance(r)
    [] t = "NP_STREAM" -> do_recv_NPStream(r)
    [] t = "NP_BYTE_RANGE" -> do_recv_NPByteRange(r)
    [] t = "NP_SAVED_DATA" -> do_recv_NPSavedData(r)
    [] t = "NP_NOTIFY_DATA" -> do_recv_NotifyData(r)
    [] t = "NP_RECT" -> do_recv_NPRect(r)
    [] t = "NP_WINDOW" -> do_recv_NPWindow(r)
    [] t = "NP_EVENT" -> do_recv_NPEvent(r)
    [] t = "NP_PRINT" -> do_recv_NPPrint(r)
    [] t = "NP_PRINT_DATA" -> do_recv_NPPrintData(r)
    [] t = "NP_OBJECT" -> do_recv_NPObject_helper(r, FALSE)
    [] t = "NP_OBJECT_PASS_REF" -> do_recv_NPObject_helper(r, TRUE)
    [] t = "NP_IDENTIFIER" -> do_recv_NPIdentifier(r)
    [] t = "NP_UTF8" -> do_recv_NPUTF8(r)
    [] t = "NP_STRING" -> do_recv_NPString(r)
    [] t = "NP_VARIANT" -> do_recv_NPVariant_helper(r, FALSE)
    [] t = "NP_VARIANT_PASS_REF" -> do_recv_NPVariant_helper(r, TRUE)

\* An array is [size, p]; it is valid if it has elements and is not NULL.
SendArray(w, t, a) ==
  LET valid == a.size > 0 /\ a.p # Null
      x == rpc_message_send_char(SendWords(w, [type |-> TypeCode[t], size |-> a.size],
                                           <<"type", "size">>),
                                 IF valid THEN 1 ELSE 0)
  IN  IF ~valid THEN x
      ELSE IF t = "CHAR" THEN rpc_message_send_bytes(x, Bytes(a.p))
      ELSE FoldLeft(LAMBDA y, v : Send(y, t, v), x, a.p)

\* The type of the elements is the sender's.
RecvElements(r, t, size) ==
  IF t = "CHAR" THEN rpc_message_recv_bytes(r, size)
  ELSE FoldLeft(LAMBDA q, i : Field(q, i, LAMBDA p : Recv(p, t)), r, [i \in 1 .. size |-> i])

RecvArray(r) ==
  LET h == RecvWords(Value(r, <<>>), <<"type", "size">>)
      Elements(q) ==
        RecvElements(Value(Alloc(q, "array", "malloc"), <<>>),
                     CHOOSE k \in DOMAIN TypeCode : TypeCode[k] = q.v.type, q.v.size)
  IN  Then(Field(h, "valid", rpc_message_recv_char), LAMBDA q :
             IF q.v.valid = 0 THEN Value(q, [size |-> q.v.size, p |-> Null])
             ELSE IF \A k \in DOMAIN TypeCode : TypeCode[k] # q.v.type
             THEN RecvError(q, "ARGUMENT_UNKNOWN")
             ELSE Then(Elements(q), LAMBDA p : Value(p, [size |-> q.v.size, p |-> p.v])))

SendArg(w, t, v) ==
  IF IsArray(t)
  THEN SendArray(rpc_message_send_int32(w, TypeCode.ARRAY), ElementType[t], v)
  ELSE Send(rpc_message_send_int32(w, TypeCode[t]), t, v)

rpc_message_send_args(w, ts, vs) ==
  IF ts = <<>> THEN w
  ELSE rpc_message_send_int32(
         FoldLeft(LAMBDA x, i : SendArg(x, ts[i], vs[i]),
                  rpc_message_send_int32(w, Tag.ARGS), [i \in 1 .. Len(ts) |-> i]),
         Tag.END)

\* Reads the tag and fails if it is another one
Expect(r, tag, error) ==
  Then(rpc_message_recv_int32(r), LAMBDA q :
         IF q.v # tag THEN RecvError(q, error) ELSE Value(q, r.v))

\* Reads argument i; its blocks are known by the number of the argument.
RecvArg(r, t, i) ==
  LET Argument(q) == IF IsArray(t) THEN RecvArray(q) ELSE Recv(q, t)
      Appended(q, a) == [Value(a, Append(q.v, a.v)) EXCEPT
                           !.m = q.m \cup {<<i, b[1], b[2]>> : b \in a.m}]
  IN  Then(Expect(r, IF IsArray(t) THEN TypeCode.ARRAY ELSE TypeCode[t], "ARGUMENT_MISMATCH"),
           LAMBDA q : Appended(q, Argument([q EXCEPT !.m = {}])))

rpc_message_recv_args(r, ts) ==
  IF ts = <<>> THEN Value(r, <<>>)
  ELSE Expect(FoldLeft(LAMBDA q, i : RecvArg(q, ts[i], i),
                       Expect(Value(r, <<>>), Tag.ARGS, "TRUNCATED"),
                       [i \in 1 .. Len(ts) |-> i]),
              Tag.END, "TRUNCATED")
============================================================================
