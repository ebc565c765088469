------------------------------ MODULE RpcSync ------------------------------
(***************************************************************************)
(* The RPC connection between the wrapper (the browser's process, the      *)
(* CLIENT end) and the viewer (the plugin's process, the SERVER end), and  *)
(* the SYNC / SYNC_ACK / SYNC_END handshake by which the viewer asks for   *)
(* permission before it runs an iteration of its own event loop (rpc.c).   *)
(*                                                                         *)
(* Each process is one thread.  What it is doing is its call stack: the    *)
(* frames of rpc.c that are open, innermost last.  A frame that waits in   *)
(* _rpc_dispatch_until() accepts one tag and serves nested calls until     *)
(* that tag arrives.  A message is whole on the wire, except for a call    *)
(* whose sender died between the header and the arguments.                 *)
(***************************************************************************)
EXTENDS Integers, SequencesExt

CONSTANTS
    Methods,    \* the remote methods, and ...
    NoMethod,   \* ... the value a frame or a message without a method has
    MaxDepth,   \* bound: no new call is made from a stack of this many frames
    Faults      \* which of "crash", "timeout", "handler_error" may happen

ASSUME ConstantsAssumption ==
    /\ NoMethod \notin Methods
    /\ MaxDepth \in Nat
    /\ Faults \subseteq {"crash", "timeout", "handler_error"}

VARIABLES
    alive,              \* the processes that exist
    status,             \* connection->status of each end
    stack,              \* the open frames of each end
    chan,               \* the bytes sent to each end and not yet read
    dispatch_depth, invoke_depth, handle_depth,   \* connection-> counters
    pending_sync_depth, \* connection->pending_sync_depth, wrapper
    is_sync,            \* connection->is_sync, viewer
    g_is_running,       \* the viewer's main loop has not been told to stop
    sources,            \* the wrapper's GSources that are attached
    plugin_killed       \* the wrapper's error callback has run

depths == <<dispatch_depth, invoke_depth, handle_depth>>
vars == <<alive, status, stack, chan, depths, pending_sync_depth, is_sync,
          g_is_running, sources, plugin_killed>>

Peer == {"wrapper", "viewer"}
Other(p) == IF p = "wrapper" THEN "viewer" ELSE "wrapper"

(***************************************************************************)
(* Messages and frames.  "HEADER" is a MESSAGE_START whose arguments never *)
(* follow.                                                                 *)
(***************************************************************************)
Tags == {"SYNC", "SYNC_ACK", "SYNC_END", "START", "REPLY", "FAILURE", "HEADER"}
Message == [tag : Tags, method : Methods \cup {NoMethod}]
Msg(t) == [tag |-> t, method |-> NoMethod]
Call(m) == [tag |-> "START", method |-> m]
Reply(m) == [tag |-> "REPLY", method |-> m]

\* The frames that wait in _rpc_dispatch_until(), with the tag they expect.
Awaits == [invoke        |-> "REPLY",     \* rpc_method_wait_for_reply
           dispatch_sync |-> "SYNC_END",  \* _rpc_dispatch_sync from g_rpc_source
           pending_sync  |-> "SYNC_END",  \* _rpc_dispatch_sync from g_rpc_sync_source
           rpc_sync      |-> "SYNC_ACK"]  \* rpc_sync
Waiting == DOMAIN Awaits
\* The frames that run code of the browser or of the plugin.
Serving == {"handle",       \* a method callback, in _rpc_dispatch_1
            "main_loop"}    \* g_main_context_dispatch in the viewer
Frame == [kind : Waiting \cup Serving, method : Methods \cup {NoMethod}]
Fr(k) == [kind |-> k, method |-> NoMethod]

TypeOK ==
    /\ alive \in [Peer -> BOOLEAN]
    /\ status \in [Peer -> {"ACTIVE", "CLOSED", "BROKEN"}]
    /\ stack \in [Peer -> Seq(Frame)]
    /\ chan \in [Peer -> Seq(Message)]
    /\ dispatch_depth \in [Peer -> Int]
    /\ invoke_depth \in [Peer -> Int]
    /\ handle_depth \in [Peer -> Int]
    /\ pending_sync_depth \in Int
    /\ is_sync \in BOOLEAN
    /\ g_is_running \in BOOLEAN
    /\ sources \subseteq {"g_rpc_source", "g_rpc_sync_source"}
    /\ plugin_killed \in BOOLEAN

(***************************************************************************)
(* Who is executing.  plugin_exit() blocks the wrapper until the viewer is *)
(* gone; a waiting frame executes nothing but what it is sent; the viewer  *)
(* with an empty stack is in poll().                                       *)
(***************************************************************************)
Up(p) == alive[p] /\ ~(p = "wrapper" /\ plugin_killed /\ alive["viewer"])
Blocked(p) == stack[p] # <<>> /\ Last(stack[p]).kind \in Waiting
Running(p) ==
    /\ Up(p)
    /\ IF stack[p] = <<>> THEN p = "wrapper" ELSE Last(stack[p]).kind \in Serving

\* The g_rpc_source is on the wrapper's stack: GLib does not dispatch a source
\* again from inside its own dispatch.
RpcSourceInCall ==
    \E i \in DOMAIN stack["wrapper"] :
        LET s == stack["wrapper"]
        IN  \/ s[i].kind = "dispatch_sync"
            \/ s[i].kind = "handle" /\ (i = 1 \/ s[i - 1].kind = "handle")

\* p may poll its socket: the viewer's main loop, or any event loop of the
\* browser, the ones a handler runs while it works included.
Polling(p) ==
    /\ Up(p)
    /\ IF p = "viewer" THEN stack[p] = <<>> /\ g_is_running
       ELSE Running(p) /\ "g_rpc_source" \in sources /\ ~RpcSourceInCall

\* rpc_method_invoke_possible
InvokePossible(p) ==
    status[p] = "ACTIVE" /\ dispatch_depth[p] = handle_depth[p]

Send(p, msg) == chan' = [chan EXCEPT ![Other(p)] = Append(@, msg)]
Receive(p) == chan' = [chan EXCEPT ![p] = Tail(@)]
Exchange(p, msg) ==
    chan' = [chan EXCEPT ![p] = Tail(@), ![Other(p)] = Append(@, msg)]
Push(p, frame) == stack' = [stack EXCEPT ![p] = Append(@, frame)]
Pop(p) == stack' = [stack EXCEPT ![p] = Front(@)]

\* What rpc_error() makes of the connection, and the error callback it calls:
\* plugin_kill_cb in the wrapper, rpc_error_callback_cb in the viewer.
SetStatus(p, e) == status' = [status EXCEPT ![p] = IF @ = "ACTIVE" THEN e ELSE @]

\* Mutant: the viewer's error callback forgets to stop its main loop.
RpcErrorKeepsViewer(p, e) ==
    /\ SetStatus(p, e)
    /\ plugin_killed' = (plugin_killed \/ p = "wrapper")
    /\ sources' = IF p = "wrapper" THEN {} ELSE sources
    /\ UNCHANGED g_is_running

RpcError(p, e) ==
    /\ SetStatus(p, e)
    /\ plugin_killed' = (plugin_killed \/ p = "wrapper")
    /\ sources' = IF p = "wrapper" THEN {} ELSE sources
    /\ g_is_running' = (g_is_running /\ p # "viewer")

\* The source a synchronising frame of the wrapper was dispatched from.
SourceOf(kind) ==
    IF kind = "dispatch_sync" THEN "g_rpc_source" ELSE "g_rpc_sync_source"

\* The frame on top of the stack s of p gets error e from _rpc_dispatch_until()
\* or, when no frame waits there, rpc_dispatch() gets it.  A failed rpc_sync()
\* does not keep the viewer from dispatching its event loop.  A failed
\* _rpc_dispatch_sync() returns e without rpc_error(); its GSource is removed
\* when e is CONNECTION_CLOSED.  The flag "raised" says that a function further
\* down has called rpc_error() for e already.
Fail(p, s, e, raised) ==
    LET kind == IF s = <<>> THEN "handle" ELSE Last(s).kind
        sync == kind \in {"dispatch_sync", "pending_sync"}
    IN  /\ stack' = [stack EXCEPT ![p] =
                IF kind = "rpc_sync" THEN Append(Front(s), Fr("main_loop"))
                ELSE IF kind \in Waiting THEN Front(s) ELSE s]
        /\ invoke_depth' = [invoke_depth EXCEPT ![p] = IF kind = "invoke" THEN @ - 1 ELSE @]
        /\ IF sync /\ ~raised
           THEN /\ sources' = IF e = "CLOSED" THEN sources \ {SourceOf(kind)} ELSE sources
                /\ UNCHANGED <<status, plugin_killed, g_is_running>>
           ELSE RpcError(p, e)

\* What a read or a write gets from a socket whose other end is gone: end of
\* file, ECONNRESET or EPIPE, depending on what the other end left unread.
DeadErrors == {"CLOSED", "BROKEN"}

-----------------------------------------------------------------------------
(***************************************************************************)
(* Code of the browser or of the plugin calls the other side.              *)
(***************************************************************************)
\* rpc_method_invoke, up to the wait in rpc_method_wait_for_reply.
Invoke(p, m) ==
    /\ Running(p)
    /\ InvokePossible(p)
    /\ Len(stack[p]) < MaxDepth
    /\ alive[Other(p)]
    /\ Send(p, Call(m))
    /\ invoke_depth' = [invoke_depth EXCEPT ![p] = @ + 1]
    /\ Push(p, [kind |-> "invoke", method |-> m])
    /\ UNCHANGED <<alive, status, dispatch_depth, handle_depth, pending_sync_depth,
                   is_sync, g_is_running, sources, plugin_killed>>

\* The same when the call cannot be sent: the caller gives up, and nothing
\* takes the increment of invoke_depth back.
InvokeFails(p) ==
    /\ Running(p)
    /\ InvokePossible(p)
    /\ ~alive[Other(p)]
    /\ invoke_depth' = [invoke_depth EXCEPT ![p] = @ + 1]
    /\ \E e \in DeadErrors : RpcError(p, e)
    /\ UNCHANGED <<alive, stack, chan, dispatch_depth, handle_depth,
                   pending_sync_depth, is_sync>>

\* A method callback ends with rpc_method_send_reply.
SendReply(p) ==
    /\ Up(p)
    /\ stack[p] # <<>> /\ Last(stack[p]).kind = "handle"
    /\ status[p] # "CLOSED"
    /\ alive[Other(p)]
    /\ Send(p, Reply(Last(stack[p]).method))
    /\ handle_depth' = [handle_depth EXCEPT ![p] = @ - 1]
    /\ dispatch_depth' = [dispatch_depth EXCEPT ![p] = @ - 1]
    /\ Pop(p)
    /\ UNCHANGED <<alive, status, invoke_depth, pending_sync_depth, is_sync,
                   g_is_running, sources, plugin_killed>>

\* The reply cannot be sent: the callback returns the error to
\* _rpc_dispatch_1, whose own MESSAGE_FAILURE cannot be sent either.  On a
\* CLOSED connection rpc_method_send_reply leaves handle_depth alone.
SendReplyFails(p) ==
    /\ Up(p)
    /\ stack[p] # <<>> /\ Last(stack[p]).kind = "handle"
    /\ status[p] = "CLOSED" \/ ~alive[Other(p)]
    /\ handle_depth' = [handle_depth EXCEPT ![p] = IF status[p] = "CLOSED" THEN @ ELSE @ - 1]
    /\ dispatch_depth' = [dispatch_depth EXCEPT ![p] = @ - 1]
    /\ \E e \in DeadErrors : Fail(p, Front(stack[p]), e, status[p] # "CLOSED")
    /\ UNCHANGED <<alive, chan, pending_sync_depth, is_sync>>

\* A method callback returns RPC_ERROR_GENERIC or RPC_ERROR_NO_MEMORY instead of
\* replying (handle_NPN_PrintData, handle_NPP_NewStream): _rpc_dispatch_1 sends
\* MESSAGE_FAILURE, and the wait under the callback fails as well.
HandlerFails(p) ==
    /\ "handler_error" \in Faults
    /\ Up(p)
    /\ stack[p] # <<>> /\ Last(stack[p]).kind = "handle"
    /\ \/ /\ alive[Other(p)]
          /\ Send(p, Msg("FAILURE"))
          /\ Fail(p, Front(stack[p]), "BROKEN", FALSE)
       \/ /\ ~alive[Other(p)]
          /\ \E e \in DeadErrors : Fail(p, Front(stack[p]), e, FALSE)
          /\ UNCHANGED chan
    /\ dispatch_depth' = [dispatch_depth EXCEPT ![p] = @ - 1]
    /\ UNCHANGED <<alive, handle_depth, pending_sync_depth, is_sync>>

-----------------------------------------------------------------------------
(***************************************************************************)
(* A message is read: by the frame that waits on top of the stack          *)
(* (_rpc_dispatch_until), or by rpc_dispatch from an event loop.           *)
(***************************************************************************)
Reading(p) == Up(p) /\ (Blocked(p) \/ Polling(p))
HeadIs(p, t) == chan[p] # <<>> /\ Head(chan[p]).tag = t
AwaitedTag(p) == Awaits[Last(stack[p]).kind]

\* Mutant: a frame that waits for its own tag serves no nested call.
DispatchCallInLoopOnly(p) ==
    /\ Polling(p)
    /\ HeadIs(p, "START")
    /\ status[p] # "CLOSED"
    /\ Receive(p)
    /\ dispatch_depth' = [dispatch_depth EXCEPT ![p] = @ + 1]
    /\ handle_depth' = [handle_depth EXCEPT ![p] = @ + 1]
    /\ Push(p, [kind |-> "handle", method |-> Head(chan[p]).method])
    /\ UNCHANGED <<alive, status, invoke_depth, pending_sync_depth, is_sync,
                   g_is_running, sources, plugin_killed>>

\* MESSAGE_START with its arguments: _rpc_dispatch calls the method callback,
\* which starts with rpc_method_get_args.
DispatchCall(p) ==
    /\ Reading(p)
    /\ HeadIs(p, "START")
    /\ status[p] # "CLOSED"
    /\ Receive(p)
    /\ dispatch_depth' = [dispatch_depth EXCEPT ![p] = @ + 1]
    /\ handle_depth' = [handle_depth EXCEPT ![p] = @ + 1]
    /\ Push(p, [kind |-> "handle", method |-> Head(chan[p]).method])
    /\ UNCHANGED <<alive, status, invoke_depth, pending_sync_depth, is_sync,
                   g_is_running, sources, plugin_killed>>

\* The arguments are not there, or the connection is CLOSED and
\* rpc_method_get_args refuses to look: the callback returns at once.
DispatchTruncated(p) ==
    /\ Reading(p)
    /\ HeadIs(p, "HEADER") \/ (HeadIs(p, "START") /\ status[p] = "CLOSED")
    /\ Receive(p)
    /\ handle_depth' = [handle_depth EXCEPT ![p] = IF status[p] = "CLOSED" THEN @ ELSE @ + 1]
    /\ \E e \in DeadErrors : Fail(p, stack[p], e, status[p] # "CLOSED")
    /\ UNCHANGED <<alive, dispatch_depth, pending_sync_depth, is_sync>>

\* MESSAGE_REPLY ends rpc_method_wait_for_reply.
ReceiveReply(p) ==
    /\ Up(p)
    /\ Blocked(p) /\ AwaitedTag(p) = "REPLY"
    /\ HeadIs(p, "REPLY")
    /\ Receive(p)
    /\ invoke_depth' = [invoke_depth EXCEPT ![p] = @ - 1]
    /\ Pop(p)
    /\ UNCHANGED <<alive, status, dispatch_depth, handle_depth, pending_sync_depth,
                   is_sync, g_is_running, sources, plugin_killed>>

\* MESSAGE_SYNC_ACK ends rpc_sync: the viewer dispatches its event loop.
ReceiveSyncAck ==
    LET p == "viewer"
    IN  /\ Up(p)
        /\ Blocked(p) /\ AwaitedTag(p) = "SYNC_ACK"
        /\ HeadIs(p, "SYNC_ACK")
        /\ Receive(p)
        /\ is_sync' = TRUE
        /\ stack' = [stack EXCEPT ![p] = Append(Front(@), Fr("main_loop"))]
        /\ UNCHANGED <<alive, status, depths, pending_sync_depth, g_is_running,
                       sources, plugin_killed>>

\* MESSAGE_SYNC_END ends _rpc_dispatch_sync: back to the browser.
ReceiveSyncEnd ==
    LET p == "wrapper"
    IN  /\ Up(p)
        /\ Blocked(p) /\ AwaitedTag(p) = "SYNC_END"
        /\ HeadIs(p, "SYNC_END")
        /\ Receive(p)
        /\ Pop(p)
        /\ UNCHANGED <<alive, status, depths, pending_sync_depth, is_sync,
                       g_is_running, sources, plugin_killed>>

\* Mutant: the SYNC is answered in the middle of the call.
DeferSyncAnswers ==
    LET p == "wrapper"
    IN  /\ Up(p) /\ Blocked(p)
        /\ HeadIs(p, "SYNC")
        /\ Exchange(p, Msg("SYNC_ACK"))
        /\ UNCHANGED <<alive, status, stack, depths, pending_sync_depth, is_sync,
                       g_is_running, sources, plugin_killed>>

\* Mutant: the depth noted is that of the calls served, 0 under a first call.
DeferSyncAtHandleDepth ==
    LET p == "wrapper"
    IN  /\ Up(p) /\ Blocked(p)
        /\ HeadIs(p, "SYNC") /\ pending_sync_depth = 0
        /\ Receive(p)
        /\ pending_sync_depth' = handle_depth[p]
        /\ UNCHANGED <<alive, status, stack, depths, is_sync, g_is_running,
                       sources, plugin_killed>>

\* MESSAGE_SYNC while the wrapper waits for something else is remembered, for
\* the event loop to answer.
DeferSync ==
    LET p == "wrapper"
    IN  /\ Up(p)
        /\ Blocked(p)
        /\ HeadIs(p, "SYNC")
        /\ pending_sync_depth = 0
        /\ Receive(p)
        /\ pending_sync_depth' = invoke_depth[p]
        /\ UNCHANGED <<alive, status, stack, depths, is_sync, g_is_running,
                       sources, plugin_killed>>

\* MESSAGE_SYNC in an event loop of the browser is answered at once.
DispatchSync ==
    LET p == "wrapper"
    IN  /\ Polling(p)
        /\ HeadIs(p, "SYNC")
        /\ alive[Other(p)]
        /\ Exchange(p, Msg("SYNC_ACK"))
        /\ Push(p, Fr("dispatch_sync"))
        /\ UNCHANGED <<alive, status, depths, pending_sync_depth, is_sync,
                       g_is_running, sources, plugin_killed>>

\* The viewer died before the answer: _rpc_dispatch_sync fails to send it.
DispatchSyncFails ==
    LET p == "wrapper"
    IN  /\ Polling(p)
        /\ HeadIs(p, "SYNC")
        /\ ~alive[Other(p)]
        /\ Receive(p)
        /\ \E e \in DeadErrors : Fail(p, Append(stack[p], Fr("dispatch_sync")), e, FALSE)
        /\ UNCHANGED <<alive, dispatch_depth, handle_depth, pending_sync_depth, is_sync>>

\* The tags a reader has a case for.
Acceptable(p) ==
    IF Blocked(p)
    THEN {"START", "HEADER", AwaitedTag(p)}
            \cup (IF p = "wrapper" /\ pending_sync_depth = 0 THEN {"SYNC"} ELSE {})
    ELSE {"START", "HEADER"} \cup (IF p = "wrapper" THEN {"SYNC"} ELSE {})

\* Any other message: MESSAGE_TYPE_INVALID or MESSAGE_SYNC_NOT_ALLOWED.
ReceiveUnexpected(p) ==
    /\ Reading(p)
    /\ chan[p] # <<>> /\ Head(chan[p]).tag \notin Acceptable(p)
    /\ Receive(p)
    /\ Fail(p, stack[p], "BROKEN", FALSE)
    /\ UNCHANGED <<alive, dispatch_depth, handle_depth, pending_sync_depth, is_sync>>

\* The other end is gone and everything it sent has been read.
ReceiveEOF(p) ==
    /\ Reading(p)
    /\ chan[p] = <<>> /\ ~alive[Other(p)]
    /\ \E e \in DeadErrors : Fail(p, stack[p], e, FALSE)
    /\ UNCHANGED <<alive, chan, dispatch_depth, handle_depth, pending_sync_depth, is_sync>>

\* Nothing arrives for rpc_message_timeout() seconds: MESSAGE_TIMEOUT.
Timeout(p) ==
    /\ "timeout" \in Faults
    /\ Up(p) /\ Blocked(p)
    /\ chan[p] = <<>> /\ alive[Other(p)]
    /\ Fail(p, stack[p], "BROKEN", FALSE)
    /\ UNCHANGED <<alive, chan, dispatch_depth, handle_depth, pending_sync_depth, is_sync>>

-----------------------------------------------------------------------------
(***************************************************************************)
(* The event loops.                                                        *)
(***************************************************************************)
\* A source of the viewer's event loop is ready: rpc_sync.
StartSync ==
    LET p == "viewer"
    IN  /\ Up(p)
        /\ stack[p] = <<>> /\ g_is_running
        /\ \/ /\ alive[Other(p)]
              /\ Send(p, Msg("SYNC"))
              /\ Push(p, Fr("rpc_sync"))
              /\ UNCHANGED <<status, invoke_depth, g_is_running, sources, plugin_killed>>
           \/ /\ ~alive[Other(p)]
              /\ \E e \in DeadErrors : Fail(p, <<Fr("rpc_sync")>>, e, FALSE)
              /\ UNCHANGED chan
        /\ UNCHANGED <<alive, dispatch_depth, handle_depth, pending_sync_depth, is_sync>>

\* Mutant: is_sync is not reset.
EndSyncStaysInSync ==
    LET p == "viewer"
    IN  /\ Up(p)
        /\ stack[p] # <<>> /\ Last(stack[p]).kind = "main_loop"
        /\ Pop(p)
        /\ \/ /\ is_sync /\ alive[Other(p)]
              /\ Send(p, Msg("SYNC_END"))
              /\ UNCHANGED <<status, g_is_running, sources, plugin_killed>>
           \/ /\ ~is_sync \/ ~alive[Other(p)]
              /\ \E e \in DeadErrors : RpcError(p, e)
              /\ UNCHANGED chan
        /\ UNCHANGED <<alive, depths, pending_sync_depth, is_sync>>

\* The iteration of the viewer's event loop is over: rpc_end_sync.
EndSync ==
    LET p == "viewer"
    IN  /\ Up(p)
        /\ stack[p] # <<>> /\ Last(stack[p]).kind = "main_loop"
        /\ Pop(p)
        /\ \/ /\ is_sync /\ alive[Other(p)]
              /\ Send(p, Msg("SYNC_END"))
              /\ is_sync' = FALSE
              /\ UNCHANGED <<status, g_is_running, sources, plugin_killed>>
           \/ /\ ~is_sync \/ ~alive[Other(p)]
              /\ \E e \in DeadErrors : (~is_sync => e = "BROKEN") /\ RpcError(p, e)
              /\ UNCHANGED <<chan, is_sync>>
        /\ UNCHANGED <<alive, depths, pending_sync_depth>>

\* Mutant: a nested event loop answers too.
HasPendingSyncAtAnyDepth ==
    Running("wrapper") /\ "g_rpc_sync_source" \in sources /\ pending_sync_depth # 0

rpc_has_pending_sync ==
    /\ invoke_depth["wrapper"] <= 0 /\ handle_depth["wrapper"] <= 0
    /\ pending_sync_depth # 0

\* rpc_sync_prepare and rpc_sync_check: the g_rpc_sync_source in an event loop.
HasPendingSync ==
    /\ Running("wrapper")
    /\ "g_rpc_sync_source" \in sources
    /\ rpc_has_pending_sync

\* select() finds something to read, be it the end of the file.
rpc_wait_dispatch == chan["wrapper"] # <<>> \/ ~alive["viewer"]

\* The assert()s of rpc_dispatch_pending_sync.
PendingSyncAssert == pending_sync_depth = 1 /\ ~rpc_wait_dispatch

\* Mutant: pending_sync_depth is not reset.
DispatchPendingSyncKeeps ==
    /\ HasPendingSync
    /\ PendingSyncAssert
    /\ Send("wrapper", Msg("SYNC_ACK"))
    /\ Push("wrapper", Fr("pending_sync"))
    /\ UNCHANGED <<alive, status, depths, pending_sync_depth, is_sync, g_is_running,
                   sources, plugin_killed>>

\* rpc_dispatch_pending_sync
DispatchPendingSync ==
    /\ HasPendingSync
    /\ PendingSyncAssert
    /\ pending_sync_depth' = 0
    /\ Send("wrapper", Msg("SYNC_ACK"))
    /\ Push("wrapper", Fr("pending_sync"))
    /\ UNCHANGED <<alive, status, depths, is_sync, g_is_running, sources, plugin_killed>>

-----------------------------------------------------------------------------
(***************************************************************************)
(* The end of a process.                                                   *)
(***************************************************************************)
Die(p, unsent) ==
    /\ alive' = [alive EXCEPT ![p] = FALSE]
    /\ stack' = [stack EXCEPT ![p] = <<>>]
    /\ chan' = [chan EXCEPT ![p] = <<>>,
                            ![Other(p)] = IF alive[Other(p)] THEN @ \o unsent ELSE @]
    /\ UNCHANGED <<status, depths, pending_sync_depth, is_sync, g_is_running,
                   sources, plugin_killed>>

\* A failed assert() aborts the browser.
PendingSyncAbort ==
    HasPendingSync /\ ~PendingSyncAssert /\ Die("wrapper", <<>>)

\* The viewer leaves its main loop.
ViewerExit ==
    /\ alive["viewer"] /\ stack["viewer"] = <<>> /\ ~g_is_running
    /\ Die("viewer", <<>>)

\* plugin_exit waits for the viewer, then sends SIGTERM and SIGKILL.
ViewerKilled ==
    /\ alive["wrapper"] /\ plugin_killed /\ alive["viewer"]
    /\ Die("viewer", <<>>)

\* A process dies at any other point, possibly between the header and the
\* arguments of a call it is sending.
Crash(p) ==
    /\ "crash" \in Faults
    /\ alive[p]
    /\ \/ Die(p, <<>>)
       \/ Running(p) /\ InvokePossible(p) /\ Die(p, <<Msg("HEADER")>>)

\* Only a browser without a plugin is left, or nothing.
Terminated ==
    /\ ~alive["viewer"]
    /\ alive["wrapper"] => stack["wrapper"] = <<>>
    /\ UNCHANGED vars

Step(p) ==
    \/ \E m \in Methods : Invoke(p, m)
    \/ InvokeFails(p)
    \/ SendReply(p)
    \/ SendReplyFails(p)
    \/ HandlerFails(p)
    \/ DispatchCall(p)
    \/ DispatchTruncated(p)
    \/ ReceiveReply(p)
    \/ ReceiveUnexpected(p)
    \/ ReceiveEOF(p)
    \/ Timeout(p)
    \/ Crash(p)

Init ==
    /\ alive = [p \in Peer |-> TRUE]
    /\ status = [p \in Peer |-> "ACTIVE"]
    /\ stack = [p \in Peer |-> <<>>]
    /\ chan = [p \in Peer |-> <<>>]
    /\ dispatch_depth = [p \in Peer |-> 0]
    /\ invoke_depth = [p \in Peer |-> 0]
    /\ handle_depth = [p \in Peer |-> 0]
    /\ pending_sync_depth = 0
    /\ is_sync = FALSE
    /\ g_is_running = TRUE
    /\ sources = {"g_rpc_source", "g_rpc_sync_source"}
    /\ plugin_killed = FALSE

Next ==
    \/ \E p \in Peer : Step(p)
    \/ ReceiveSyncAck
    \/ ReceiveSyncEnd
    \/ DeferSync
    \/ DispatchSync
    \/ DispatchSyncFails
    \/ StartSync
    \/ EndSync
    \/ DispatchPendingSync
    \/ PendingSyncAbort
    \/ ViewerExit
    \/ ViewerKilled
    \/ Terminated

Spec == Init /\ [][Next]_vars

-----------------------------------------------------------------------------
(***************************************************************************)
(* Fairness.  A frame that waits reads what arrives, a main loop reads its *)
(* socket.  The browser comes back to its event loop again and again, and  *)
(* GLib dispatches its sources there.  The code of the browser and of the  *)
(* plugin returns from every callback and every event it handles.          *)
(***************************************************************************)
Read(p) ==
    \/ DispatchCall(p) \/ DispatchTruncated(p) \/ ReceiveReply(p)
    \/ ReceiveUnexpected(p) \/ ReceiveEOF(p)
    \/ (p = "viewer" /\ ReceiveSyncAck)
    \/ (p = "wrapper" /\ (ReceiveSyncEnd \/ DeferSync \/ DispatchSync \/ DispatchSyncFails))

Return(p) == SendReply(p) \/ SendReplyFails(p)

MaxStack == MaxDepth + 2    \* no stack is higher: one call served, one sync

Fairness ==
    /\ \A p \in Peer : WF_vars(Blocked(p) /\ Read(p)) /\ SF_vars(~Blocked(p) /\ Read(p))
    /\ \A p \in Peer, d \in 1..MaxStack : SF_vars(Len(stack[p]) = d /\ Return(p))
    /\ SF_vars(EndSync)
    /\ SF_vars(DispatchPendingSync)
    /\ WF_vars(ViewerExit)
    /\ WF_vars(ViewerKilled)

FairSpec == Spec /\ Fairness

-----------------------------------------------------------------------------
(***************************************************************************)
(* Properties.                                                             *)
(***************************************************************************)
Healthy == \A p \in Peer : alive[p] /\ status[p] = "ACTIVE"

\* The comment in rpc_sync: "at any point, at most one of the wrapper and viewer
\* are running at a time".  Stated for a connection that neither end has found
\* to be in error yet.
MutualExclusion == Healthy => ~(Running("wrapper") /\ Running("viewer"))

\* The methods of the frames of kind k on the stack s, outermost first.
MethodsOf(s, k) ==
    LET upTo[i \in 0..Len(s)] ==
            IF i = 0 THEN <<>>
            ELSE IF s[i].kind = k THEN Append(upTo[i - 1], s[i].method)
            ELSE upTo[i - 1]
    IN  upTo[Len(s)]
FramesOf(p, k) == MethodsOf(stack[p], k)

\* Calls go through on a connection without errors, however calls and syncs of
\* the two ends cross.  No end reads a tag it has no case for, so that neither
\* RPC_ERROR_MESSAGE_TYPE_INVALID nor RPC_ERROR_MESSAGE_SYNC_NOT_ALLOWED happens
\* by itself; and the counters follow the stack, so that
\* rpc_method_invoke_possible refuses no call of code that runs.
CallsGoThrough ==
    Healthy => \A p \in Peer :
        /\ Reading(p) /\ chan[p] # <<>> => Head(chan[p]).tag \in Acceptable(p)
        /\ invoke_depth[p] = Len(FramesOf(p, "invoke"))
        /\ handle_depth[p] = Len(FramesOf(p, "handle"))
        /\ dispatch_depth[p] = handle_depth[p]

\* The assert()s of rpc_dispatch_pending_sync hold whenever it is called.
PendingSyncIsSafe == HasPendingSync => PendingSyncAssert

\* The assert() of rpc_sync holds whenever it is called, after every kind of
\* error: a viewer that goes round its main loop again has left sync mode.
SyncStartsOutOfSync ==
    alive["viewer"] /\ stack["viewer"] = <<>> /\ g_is_running => ~is_sync

\* A viewer that asks for its turn gets it, or the connection ends: the wrapper
\* always comes to answer, whether it reads the SYNC in its event loop or in the
\* middle of a call of its own, and however many calls it makes meanwhile.
SyncIsAnswered ==
    FramesOf("viewer", "rpc_sync") # <<>> ~> FramesOf("viewer", "rpc_sync") = <<>>

\* Every call returns, with its reply or with an error, the outermost call of
\* an end included, at which point the end has no call open.
CallsReturn ==
    \A p \in Peer : FramesOf(p, "invoke") # <<>> ~> FramesOf(p, "invoke") = <<>>

\* A viewer does not outlive its browser.
OrphanViewerExits == ~alive["wrapper"] ~> ~alive["viewer"]

(***************************************************************************)
(* The refinement: seen through the calls their frames hold open, the two  *)
(* processes are one thread.  The event loop at the bottom is the viewer's *)
(* while it is in sync.                                                    *)
(***************************************************************************)
BottomLoop == IF is_sync THEN "viewer" ELSE "wrapper"
OpenCalls ==
    LET first == FramesOf(BottomLoop, "invoke")
        second == FramesOf(Other(BottomLoop), "invoke")
        At(s, i) == IF i \in DOMAIN s THEN s[i] ELSE NoMethod
    IN  [i \in 1 .. Len(first) + Len(second) |->
            IF i % 2 = 1
            THEN [caller |-> BottomLoop, method |-> At(first, (i + 1) \div 2)]
            ELSE [caller |-> Other(BottomLoop), method |-> At(second, i \div 2)]]

OneThread == INSTANCE SharedThread WITH
    MaxCalls <- 2 * MaxStack, loop <- BottomLoop, calls <- OpenCalls

\* The connection implements the single thread NPAPI assumes: calls and returns
\* alternate between the ends as on one stack, and the event loops take turns only
\* when no call is open.
ImplementsSharedThread == OneThread!Spec

-----------------------------------------------------------------------------
(***************************************************************************)
(* The inductive invariant behind MutualExclusion.  Control of the one     *)
(* logical thread is a token: an end that runs has it, and so has each     *)
(* message that makes its reader run.  A SYNC is not a token.  The parts   *)
(* are stated on the stacks ws, vs and the channels cw, cv of the wrapper  *)
(* and of the viewer.                                                      *)
(***************************************************************************)
Control == {"START", "REPLY", "SYNC_ACK", "SYNC_END"}
None(c, T) == \A i \in 1..Len(c) : c[i].tag \notin T
AtMostOne(c, T) ==
    \A i, j \in 1..Len(c) : c[i].tag \in T /\ c[j].tag \in T => i = j

ViewerRuns(vs) == vs # <<>> /\ Last(vs).kind \in Serving
WrapperRuns(ws) == ws = <<>> \/ Last(ws).kind \in Serving

OneToken(ws, vs, cw, cv) ==
    /\ ~(WrapperRuns(ws) /\ ViewerRuns(vs))
    /\ WrapperRuns(ws) \/ ViewerRuns(vs) => None(cw, Control) /\ None(cv, Control)
    /\ None(cw, Control) \/ None(cv, Control)
    /\ AtMostOne(cw, Control) /\ AtMostOne(cv, Control)

\* What can be below what on a stack: a callback is on a frame that waits, or
\* is the first frame of the viewer; the viewer's event loop is its first frame.
WrapperOrder(ws) ==
    \A i \in 1..Len(ws) :
        /\ ws[i].kind \notin {"rpc_sync", "main_loop"}
        /\ ws[i].kind = "handle" => i > 1 /\ ws[i - 1].kind \in Waiting
ViewerOrder(vs) ==
    \A i \in 1..Len(vs) :
        /\ vs[i].kind \notin {"dispatch_sync", "pending_sync"}
        /\ vs[i].kind \in {"rpc_sync", "main_loop"} => i = 1
        /\ vs[i].kind = "handle" => i = 1 \/ vs[i - 1].kind \in Waiting

\* A request of the viewer is in one place, and the viewer waits for it.
Asks(vs) == Len(vs) > 0 /\ vs[1].kind = "rpc_sync"
OneRequest(vs, cw, cv, pending) ==
    /\ ~None(cw, {"SYNC"}) => Asks(vs) /\ pending = 0 /\ None(cv, {"SYNC_ACK"})
    /\ pending # 0 => Asks(vs) /\ None(cv, {"SYNC_ACK"})
    /\ ~None(cv, {"SYNC_ACK"}) => Asks(vs)
    /\ AtMostOne(cw, {"SYNC"})
    /\ None(cw, {"FAILURE"})

\* Control of the plugin's thread is never duplicated on a connection without
\* errors: one token, stacks in order, at most one request for a turn.  An end
\* that was told of an error never forgets it.
ControlInvariant ==
    /\ plugin_killed => status["wrapper"] # "ACTIVE"
    /\ Healthy =>
        /\ OneToken(stack["wrapper"], stack["viewer"], chan["wrapper"], chan["viewer"])
        /\ WrapperOrder(stack["wrapper"])
        /\ ViewerOrder(stack["viewer"])
        /\ OneRequest(stack["viewer"], chan["wrapper"], chan["viewer"], pending_sync_depth)
=============================================================================
