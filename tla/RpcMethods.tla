----------------------------- MODULE RpcMethods -----------------------------
(* One remote call of the NPAPI after the other, from the function that the *)
(* plugin or the browser calls to the handler at the other end and back:    *)
(* rpc_method_invoke, rpc_method_get_args, rpc_method_send_reply and        *)
(* rpc_method_wait_for_reply of src/src/rpc.c with the arguments and        *)
(* results of each method.  The peer may die while it writes: then only a   *)
(* part of the message arrives.  How calls nest is module RpcSync.          *)
EXTENDS NpnCalls, NppCalls

CONSTANTS
  Flavours,        \* kinds of values that are tried for an argument or result
  Sample(_, _),    \* Sample(t, f): the value of type t of flavour f
  FileSizes        \* bytes a plugin may print

VARIABLES
  pc,      \* how far the call has come
  call,    \* [name, vs]: the caller and its arguments
  wire,    \* what was sent and has not been read
  rd,      \* what the end at hand has read
  reply,   \* the results that the handler sent; Null if it failed the RPC
  out,     \* what the caller returns
  cut      \* whether the connection was lost

vars == <<pc, call, wire, rd, reply, out, cut>>

Callers == ViewerCallers @@ WrapperCallers

CallerOf(n) == Callers[n]

\* Each end serves the methods of its table.
rpc_lookup_callback(n) ==
  IF n \in DOMAIN ViewerCallers
  THEN wrapper_vtable[CallerOf(n).method]
  ELSE viewer_vtable[CallerOf(n).method]

----------------------------------------------------------------------------
(* The arguments *)

Samples(ts, f) == [i \in DOMAIN ts |-> Sample(ts[i], f)]

\* The data of an NPPrintData of so many bytes
PrintData(size) == [i \in 1 .. size |-> i]

Inputs(n, f) ==
  LET c == CallerOf(n)
      vs == Samples(c.args, f)
  IN  IF n = "NPN_PrintData"
      THEN UNION {{[vs EXCEPT ![2] = PrintData(PrintChunks(size)[i])] :
                     i \in DOMAIN PrintChunks(size)} : size \in FileSizes}
      ELSE IF c.variables # {} THEN {[vs EXCEPT ![2] = x] : x \in c.variables}
      ELSE {vs}

\* The early returns whose conditions hold; the first is taken.
Refusals(xs, vs, able) == SelectSeq(xs, LAMBDA x : Taken(x, vs, able))

----------------------------------------------------------------------------
(* rpc.c *)

SendTags(w, tags) == FoldLeft(rpc_message_send_int32, w, tags)

_rpc_method_invoke_valist(c, vs) ==
  LET w == rpc_message_flush(
             SendTags(rpc_message_init, <<Tag.START, MethodId(c.method), Tag.END>>))
  IN  rpc_message_flush(rpc_message_send_args(w, c.args, vs))

\* The start tag is read by _rpc_dispatch_until.
_rpc_dispatch_1(r, c) ==
  LET q == Expect(r, Tag.START, "MESSAGE_TYPE_INVALID")
      p == Expect(q, MethodId(c.method), "MESSAGE_HANDLER_INVALID")
  IN  Expect(p, Tag.END, "MESSAGE_TYPE_INVALID")

_rpc_method_get_args_valist(r, h) == rpc_message_recv_args(r, h.args)

_rpc_method_send_reply_valist(ts, vs) ==
  LET w == rpc_message_send_args(SendTags(rpc_message_init, <<Tag.REPLY>>), ts, vs)
  IN  rpc_message_flush(SendTags(w, <<Tag.END>>))

_rpc_method_wait_for_reply_valist(r, ts) ==
  Expect(rpc_message_recv_args(Expect(r, Tag.REPLY, "MESSAGE_TYPE_INVALID"), ts),
         Tag.END, "MESSAGE_TYPE_INVALID")

----------------------------------------------------------------------------
(* Conversions of the results by the caller *)

\* The length of the user's name is used for the password, too.
AuthenticationInfo(vs) ==
  <<vs[1], NPW_ReallocData(vs[2].p, vs[2].size), NPW_ReallocData(vs[3].p, vs[2].size)>>

\* The string is copied without the NUL at its end.
SitesWithData(vs) ==
  [i \in 1 .. vs[1].size |-> NPW_ReallocData(Append(vs[1].p[i], 0), Len(vs[1].p[i]))]

Returned(n, vs) ==
  CASE n = "NPN_GetAuthenticationInfo" -> AuthenticationInfo(vs)
    [] n = "NPP_GetSitesWithData" -> SitesWithData(vs)
    [] OTHER -> vs

----------------------------------------------------------------------------
Init ==
  /\ pc = "idle"
  /\ call = [name |-> "none", vs |-> <<>>]
  /\ wire = <<>>
  /\ rd = Reader(<<>>)
  /\ reply = <<>>
  /\ out = Null
  /\ cut = FALSE

\* The first early return whose condition holds
Refused(n, vs, able) ==
  /\ Refusals(CallerOf(n).refusals, vs, able) # <<>>
  /\ pc' = "refused"
  /\ out' = Refusals(CallerOf(n).refusals, vs, able)[1].ret
  /\ UNCHANGED <<wire, cut>>

\* A message that cannot be marshalled is an error of the connection: what was
\* flushed of it is on the wire.
Sent(n, w) ==
  /\ wire' = w.out
  /\ cut' = (w.e # NoError)
  /\ out' = IF w.e = NoError THEN Null ELSE CallerOf(n).unsent
  /\ pc' = IF w.e = NoError THEN "called" ELSE "unsent"

\* An early return, or the call is sent.
Invoke(n, f) ==
  /\ pc = "idle"
  /\ \E vs \in Inputs(n, f), able \in BOOLEAN :
       /\ call' = [name |-> n, vs |-> vs]
       /\ \/ Refused(n, vs, able)
          \/ /\ Refusals(CallerOf(n).refusals, vs, able) = <<>>
             /\ Sent(n, _rpc_method_invoke_valist(CallerOf(n), vs))
  /\ UNCHANGED <<rd, reply>>

\* The sender dies after it has written k words or bytes of its message.
Die(k) ==
  /\ pc \in {"called", "replied"}
  /\ ~cut
  /\ k < Len(wire)
  /\ wire' = SubSeq(wire, 1, k)
  /\ cut' = TRUE
  /\ UNCHANGED <<pc, call, rd, reply, out>>

\* The handler is found and reads its arguments.
GetArgs ==
  /\ pc = "called"
  /\ rd' = _rpc_method_get_args_valist(_rpc_dispatch_1(Reader(wire), CallerOf(call.name)),
                                       rpc_lookup_callback(call.name))
  /\ wire' = rd'.in
  /\ pc' = "handling"
  /\ UNCHANGED <<call, reply, out, cut>>

\* A handler without its arguments returns the error and does not reply.
GiveUp ==
  /\ pc = "handling"
  /\ rd.e # NoError
  /\ cut' = TRUE
  /\ wire' = <<>>
  /\ pc' = "replied"
  /\ UNCHANGED <<call, rd, reply, out>>

\* Whether the handler fails the RPC instead of replying
Fails == Refusals(rpc_lookup_callback(call.name).failures, rd.v, TRUE) # <<>>

\* The results of a handler h that returned early with these refusals, or
\* else of the function that it called
Results(h, ts, refused, f) ==
  [i \in DOMAIN ts |->
     IF refused = <<>> THEN Sample(ts[i], f)
     ELSE IF i = 1 THEN refused[1].ret
     ELSE IF h.undefined THEN Sample(ts[i], f) ELSE Initial(ts[i])]

\* The handler returns early, or calls the function of the browser or the
\* plugin, whose results are of flavour f.
Reply(f) ==
  /\ pc = "handling"
  /\ rd.e = NoError
  /\ ~cut
  /\ ~Fails
  /\ \E able \in BOOLEAN, h \in {rpc_lookup_callback(call.name)} :
       \E ts \in {ResultTypes(h, rd.v)} :
         /\ reply' = Results(h, ts, Refusals(h.refusals, rd.v, able), f)
         /\ \E w \in {_rpc_method_send_reply_valist(ts, reply')} :
              /\ wire' = w.out
              /\ cut' = (w.e # NoError)
  /\ pc' = "replied"
  /\ UNCHANGED <<call, rd, out>>

\* A handler that fails sends MESSAGE_FAILURE and an error code.
Fail ==
  /\ pc = "handling"
  /\ rd.e = NoError
  /\ ~cut
  /\ Fails
  /\ wire' = << <<4, Tag.FAILURE>>, <<4, -1000>> >>
  /\ reply' = Null
  /\ pc' = "replied"
  /\ UNCHANGED <<call, rd, out, cut>>

WaitForReply ==
  /\ pc = "replied"
  /\ rd' = _rpc_method_wait_for_reply_valist(Reader(wire),
                                            ResultTypes(CallerOf(call.name), call.vs))
  /\ wire' = rd'.in
  /\ out' = IF rd'.e = NoError THEN Returned(call.name, rd'.v) ELSE CallerOf(call.name).fail
  /\ pc' = "returned"
  /\ UNCHANGED <<call, reply, cut>>

\* The next call, on a connection that may be a new one
NextCall ==
  /\ pc \in {"refused", "unsent", "returned"}
  /\ pc' = "idle"
  /\ call' = [name |-> "none", vs |-> <<>>]
  /\ wire' = <<>>
  /\ rd' = Reader(<<>>)
  /\ reply' = <<>>
  /\ out' = Null
  /\ cut' = FALSE

Next ==
  \/ \E n \in DOMAIN Callers, f \in Flavours : Invoke(n, f)
  \/ \E k \in 0 .. Len(wire) : Die(k)
  \/ GetArgs
  \/ GiveUp
  \/ \E f \in Flavours : Reply(f)
  \/ Fail
  \/ WaitForReply
  \/ NextCall

Spec == Init /\ [][Next]_vars

----------------------------------------------------------------------------
(* What a value is at the other end *)

Known(id) == IF id \in KnownIds THEN id ELSE Null

\* The owner of an object travels with it only from the end that has it.
ReceivedObject(o) ==
  IF o = Null THEN Null
  ELSE [proxy |-> ~o.proxy, id |-> o.id,
        plugin |-> IF o.proxy THEN Null ELSE Known(o.plugin)]

ReceivedVariant(v) ==
  IF v.type = VariantCode.Object THEN [v EXCEPT !.value = ReceivedObject(@)] ELSE v

ReceivedValue(t, v) ==
  CASE t = "NPW_PLUGIN_INSTANCE" -> Known(v)
    [] t = "NP_STREAM" -> IF v = Null \/ Known(v.sip) = Null THEN Null ELSE v
    [] t = "NP_SAVED_DATA" -> IF v = <<>> THEN Null ELSE v
    [] t = "NP_EVENT" -> IF EventIs(v.type, {"FocusIn", "FocusOut"}) THEN [type |-> v.type] ELSE v
    [] t \in {"NP_OBJECT", "NP_OBJECT_PASS_REF"} -> ReceivedObject(v)
    [] t \in {"NP_VARIANT", "NP_VARIANT_PASS_REF"} -> ReceivedVariant(v)
    [] OTHER -> v

Received(t, v) ==
  IF ~IsArray(t) THEN ReceivedValue(t, v)
  ELSE [size |-> v.size,
        p |-> IF v.size = 0 \/ v.p = Null THEN Null
              ELSE [i \in 1 .. v.size |-> ReceivedValue(ElementType[t], v.p[i])]]

AllReceived(ts, vs) == [i \in DOMAIN ts |-> Received(ts[i], vs[i])]

\* handle_NPP_Print's last piece of a file whose size is a multiple of a piece's
IsEmptyPiece == call.name = "NPN_PrintData" /\ call.vs[2] = <<>>

\* On an intact connection a handler has read every argument of its call as
\* the caller passed it, and the caller every result of the reply as the
\* handler passed it, whatever the types and sizes, and nothing of the stream
\* is left over for the next message: the lists of types at the two ends,
\* written by hand in two files, and the sender and the receiver of every type
\* agree (rpc_message_send_args, rpc_message_recv_args).  A handler may fail
\* the RPC instead.  Printed data without a byte, and nothing else, is received
\* as the end of a connection that is in order.
MessagesArrive ==
  LET arrived(types, vs) == rd.e = NoError /\ rd.in = <<>> /\ rd.v = AllReceived(types, vs)
  IN  ~cut =>
        /\ pc = "handling" =>
             IF IsEmptyPiece THEN rd.e = "CONNECTION_CLOSED"
             ELSE arrived(rpc_lookup_callback(call.name).args, call.vs)
        /\ pc = "returned" /\ reply # Null =>
             arrived(ResultTypes(CallerOf(call.name), call.vs), reply)

\* Wherever the stream breaks off when the sender dies, the receiver finds the
\* connection closed: it never takes a part of a message for a whole one, and
\* never reads one thing for another (rpc_message_recv_bytes).  The reply of a
\* handler that failed the RPC is an error, too, broken off or not.
BreakIsNoticed ==
  /\ pc = "handling" /\ cut => rd.e = "CONNECTION_CLOSED"
  /\ pc = "returned" /\ cut /\ reply # Null => rd.e = "CONNECTION_CLOSED"
  /\ pc = "returned" /\ reply = Null => rd.e \in {"CONNECTION_CLOSED", "MESSAGE_TYPE_INVALID"}

\* Every block and every reference that the receivers of a call's arguments
\* and results have allocated for a message that came whole is freed by the handler or the caller, with the
\* function that fits its allocator, or has a new owner.
NothingLeaks ==
  rd.e = NoError =>
    /\ pc = "handling" => rd.m \subseteq rpc_lookup_callback(call.name).disposed
    /\ pc = "returned" => rd.m \subseteq CallerOf(call.name).disposed

\* A copy that a caller makes of a result for its own caller is the whole
\* result: the bytes of the name and the password, the strings with the NUL at
\* their end (NPW_ReallocData).
CopiesAreWhole ==
  pc = "returned" /\ rd.e = NoError =>
    /\ call.name = "NPN_GetAuthenticationInfo" => \A i \in {2, 3} : out[i] = rd.v[i].p
    /\ call.name = "NPP_GetSitesWithData" =>
         \A i \in DOMAIN out : out[i] = Append(rd.v[1].p[i], 0)
============================================================================
