--------------------------- MODULE RpcSyncProofs ---------------------------
(* Proofs about RpcSync, for every set of methods and every bound, and about *)
(* how the two ends of a connection find each other (Connect).               *)
EXTENDS RpcSync, Connect, DataFacts, TLAPS

-----------------------------------------------------------------------------
(* Types.                                                                    *)

LEMMA WaitingKinds ==
    Waiting = {"invoke", "dispatch_sync", "pending_sync", "rpc_sync"}
  BY DEF Waiting, Awaits

LEMMA FrTypes ==
    ASSUME NEW k \in Waiting \cup Serving
    PROVE  Fr(k) \in Frame /\ Fr(k).kind = k
  BY DEF Fr, Frame

LEMMA MsgTypes ==
    ASSUME NEW t \in Tags
    PROVE  Msg(t) \in Message /\ Msg(t).tag = t
  BY DEF Msg, Message

LEMMA CallTypes ==
    ASSUME NEW m \in Methods \cup {NoMethod}
    PROVE  /\ Call(m) \in Message /\ Call(m).tag = "START"
           /\ Reply(m) \in Message /\ Reply(m).tag = "REPLY"
           /\ [kind |-> "invoke", method |-> m] \in Frame
           /\ [kind |-> "handle", method |-> m] \in Frame
  BY WaitingKinds DEF Call, Reply, Message, Tags, Frame, Serving

LEMMA PeerOther ==
    ASSUME NEW p \in Peer
    PROVE  Other(p) \in Peer /\ Other(p) # p /\ Peer = {p, Other(p)}
  BY DEF Peer, Other

LEMMA RpcErrorTypes ==
    ASSUME TypeOK, NEW p \in Peer, NEW e \in DeadErrors, RpcError(p, e)
    PROVE  /\ status' \in [Peer -> {"ACTIVE", "CLOSED", "BROKEN"}]
           /\ plugin_killed' \in BOOLEAN
           /\ sources' \subseteq {"g_rpc_source", "g_rpc_sync_source"}
           /\ g_is_running' \in BOOLEAN
  BY DEF TypeOK, RpcError, SetStatus, DeadErrors

LEMMA FailTypes ==
    ASSUME TypeOK, NEW p \in Peer, NEW s \in Seq(Frame), NEW e \in DeadErrors,
           NEW raised \in BOOLEAN, Fail(p, s, e, raised)
    PROVE  /\ stack' \in [Peer -> Seq(Frame)]
           /\ invoke_depth' \in [Peer -> Int]
           /\ status' \in [Peer -> {"ACTIVE", "CLOSED", "BROKEN"}]
           /\ plugin_killed' \in BOOLEAN
           /\ sources' \subseteq {"g_rpc_source", "g_rpc_sync_source"}
           /\ g_is_running' \in BOOLEAN
<1> DEFINE kind == IF s = <<>> THEN "handle" ELSE Last(s).kind
           new == IF kind = "rpc_sync" THEN Append(Front(s), Fr("main_loop"))
                  ELSE IF kind \in Waiting THEN Front(s) ELSE s
<1>1. new \in Seq(Frame)
  <2>1. CASE s = <<>>
    BY <2>1, WaitingKinds
  <2>2. CASE s # <<>>
    <3>1. Front(s) \in Seq(Frame)
      BY <2>2, FrontProps
    <3>2. Append(Front(s), Fr("main_loop")) \in Seq(Frame)
      BY <3>1, FrTypes, AppendProps DEF Serving
    <3> QED
      BY <3>1, <3>2
  <2> QED
    BY <2>1, <2>2
<1>2. stack' = [stack EXCEPT ![p] = new]
  BY DEF Fail
<1>3. stack' \in [Peer -> Seq(Frame)]
  <2> HIDE DEF new
  <2> QED
    BY <1>1, <1>2 DEF TypeOK
<1>4. invoke_depth' \in [Peer -> Int]
  BY DEF Fail, TypeOK
<1>5. /\ status' \in [Peer -> {"ACTIVE", "CLOSED", "BROKEN"}]
      /\ plugin_killed' \in BOOLEAN
      /\ sources' \subseteq {"g_rpc_source", "g_rpc_sync_source"}
      /\ g_is_running' \in BOOLEAN
  <2>1. CASE RpcError(p, e)
    BY <2>1, RpcErrorTypes
  <2>2. CASE /\ sources' = IF e = "CLOSED" THEN sources \ {SourceOf(kind)} ELSE sources
             /\ UNCHANGED <<status, plugin_killed, g_is_running>>
    BY <2>2 DEF TypeOK
  <2> QED
    BY <2>1, <2>2 DEF Fail
<1> QED
  BY <1>3, <1>4, <1>5

LEMMA SendTypes ==
    ASSUME TypeOK, NEW p \in Peer, NEW msg \in Message, Send(p, msg)
    PROVE  chan' \in [Peer -> Seq(Message)]
  BY PeerOther, AppendProps DEF TypeOK, Send

LEMMA ReceiveTypes ==
    ASSUME TypeOK, NEW p \in Peer, chan[p] # <<>>
    PROVE  /\ Head(chan[p]) \in Message
           /\ Tail(chan[p]) \in Seq(Message)
           /\ Receive(p) => chan' \in [Peer -> Seq(Message)]
           /\ \A msg \in Message : Exchange(p, msg) => chan' \in [Peer -> Seq(Message)]
<1>1. chan[p] \in Seq(Message) /\ chan[Other(p)] \in Seq(Message)
  BY PeerOther DEF TypeOK
<1>2. Head(chan[p]) \in Message /\ Tail(chan[p]) \in Seq(Message)
  BY <1>1, TailProps
<1>3. Receive(p) => chan' \in [Peer -> Seq(Message)]
  BY <1>2 DEF Receive, TypeOK
<1>4. ASSUME NEW msg \in Message, Exchange(p, msg)
      PROVE  chan' \in [Peer -> Seq(Message)]
  <2>1. Append(chan[Other(p)], msg) \in Seq(Message)
    BY <1>1, AppendProps
  <2>2. chan' = [chan EXCEPT ![p] = Tail(chan[p]), ![Other(p)] = Append(chan[Other(p)], msg)]
    BY <1>4, PeerOther DEF Exchange, TypeOK
  <2> QED
    BY <1>2, <2>1, <2>2, PeerOther DEF TypeOK
<1> QED
  BY <1>2, <1>3, <1>4

LEMMA StackTypes ==
    ASSUME TypeOK, NEW p \in Peer
    PROVE  /\ \A f \in Frame : Push(p, f) => stack' \in [Peer -> Seq(Frame)]
           /\ stack[p] # <<>> =>
                /\ Last(stack[p]) \in Frame
                /\ Front(stack[p]) \in Seq(Frame)
                /\ Pop(p) => stack' \in [Peer -> Seq(Frame)]
<1>1. stack[p] \in Seq(Frame)
  BY DEF TypeOK
<1>2. ASSUME NEW f \in Frame, Push(p, f) PROVE stack' \in [Peer -> Seq(Frame)]
  BY <1>1, <1>2, AppendProps DEF Push, TypeOK
<1>3. ASSUME stack[p] # <<>>
      PROVE  /\ Last(stack[p]) \in Frame
             /\ Front(stack[p]) \in Seq(Frame)
  BY <1>1, <1>3, FrontProps
<1>4. ASSUME stack[p] # <<>>, Pop(p) PROVE stack' \in [Peer -> Seq(Frame)]
  BY <1>3, <1>4 DEF Pop, TypeOK
<1> QED
  BY <1>2, <1>3, <1>4

LEMMA DieTypes ==
    ASSUME TypeOK, NEW p \in Peer, NEW unsent \in Seq(Message), Die(p, unsent)
    PROVE  TypeOK'
<1>1. alive' \in [Peer -> BOOLEAN]
  BY DEF Die, TypeOK
<1>2. stack' \in [Peer -> Seq(Frame)]
  <2>1. <<>> \in Seq(Frame)
    OBVIOUS
  <2> QED
    BY <2>1 DEF Die, TypeOK
<1>3. chan' \in [Peer -> Seq(Message)]
  <2> DEFINE q == Other(p)
             new == IF alive[q] THEN chan[q] \o unsent ELSE chan[q]
  <2>1. q \in Peer /\ q # p
    BY PeerOther
  <2>2. chan[q] \in Seq(Message) /\ chan[q] \o unsent \in Seq(Message) /\ <<>> \in Seq(Message)
    BY <2>1, ConcatProperties DEF TypeOK
  <2>3. new \in Seq(Message)
    BY <2>2
  <2>4. chan' = [chan EXCEPT ![p] = <<>>, ![q] = new]
    BY <2>1 DEF Die, TypeOK
  <2> HIDE DEF new, q
  <2> QED
    BY <2>1, <2>2, <2>3, <2>4 DEF TypeOK
<1> QED
  BY <1>1, <1>2, <1>3 DEF Die, TypeOK, depths

LEMMA TopMethod ==
    ASSUME TypeOK, NEW p \in Peer
    PROVE  /\ stack[p] # <<>> => Last(stack[p]).method \in Methods \cup {NoMethod}
           /\ chan[p] # <<>> => Head(chan[p]).method \in Methods \cup {NoMethod}
  BY StackTypes, ReceiveTypes DEF Frame, Message

LEMMA DepthTypes ==
    ASSUME NEW f \in [Peer -> Int], NEW p \in Peer, NEW n \in Int
    PROVE  [f EXCEPT ![p] = n] \in [Peer -> Int] /\ f[p] - 1 \in Int /\ f[p] + 1 \in Int
  OBVIOUS

LEMMA TypeInit == Init => TypeOK
<1>1. <<>> \in Seq(Message) /\ <<>> \in Seq(Frame)
  OBVIOUS
<1>2. Init => /\ stack \in [Peer -> Seq(Frame)]
              /\ chan \in [Peer -> Seq(Message)]
  BY <1>1 DEF Init
<1>3. Init => /\ dispatch_depth \in [Peer -> Int]
              /\ invoke_depth \in [Peer -> Int]
              /\ handle_depth \in [Peer -> Int]
              /\ pending_sync_depth \in Int
  BY DEF Init
<1>4. Init => /\ alive \in [Peer -> BOOLEAN]
              /\ status \in [Peer -> {"ACTIVE", "CLOSED", "BROKEN"}]
  BY DEF Init
<1> QED
  BY <1>2, <1>3, <1>4 DEF Init, TypeOK

\* The actions that one end takes keep the types.
LEMMA TypeStepOfPeer ==
    ASSUME TypeOK, NEW p \in Peer, Step(p)
    PROVE  TypeOK'
<1>a. Other(p) \in Peer
  BY PeerOther
<1>b. \A e \in DeadErrors : e \in {"CLOSED", "BROKEN"}
  BY DEF DeadErrors
<1>1. ASSUME NEW m \in Methods, Invoke(p, m) PROVE TypeOK'
  <2>1. chan' \in [Peer -> Seq(Message)]
    BY <1>1, CallTypes, SendTypes DEF Invoke
  <2>2. stack' \in [Peer -> Seq(Frame)]
    BY <1>1, CallTypes, StackTypes DEF Invoke
  <2>d. invoke_depth' \in [Peer -> Int]
    BY <1>1, DepthTypes DEF Invoke, TypeOK
  <2> QED
    BY <1>1, <2>d, <2>1, <2>2 DEF Invoke, TypeOK
<1>2. CASE InvokeFails(p)
  <2>1. PICK e \in DeadErrors : RpcError(p, e)
    BY <1>2 DEF InvokeFails
  <2> QED
    BY <1>2, <2>1, RpcErrorTypes DEF InvokeFails, TypeOK
<1>3. CASE SendReply(p)
  <2>1. chan' \in [Peer -> Seq(Message)]
    BY <1>3, TopMethod, CallTypes, SendTypes DEF SendReply
  <2>2. stack' \in [Peer -> Seq(Frame)]
    BY <1>3, StackTypes DEF SendReply
  <2>d. handle_depth' \in [Peer -> Int] /\ dispatch_depth' \in [Peer -> Int]
    BY <1>3, DepthTypes DEF SendReply, TypeOK
  <2> QED
    BY <1>3, <2>d, <2>1, <2>2 DEF SendReply, TypeOK
<1>4. CASE SendReplyFails(p)
  <2>1. PICK e \in DeadErrors : Fail(p, Front(stack[p]), e, status[p] # "CLOSED")
    BY <1>4 DEF SendReplyFails
  <2>2. Front(stack[p]) \in Seq(Frame)
    BY <1>4, StackTypes DEF SendReplyFails
  <2>3. (status[p] # "CLOSED") \in BOOLEAN
    OBVIOUS
  <2>d. handle_depth' \in [Peer -> Int] /\ dispatch_depth' \in [Peer -> Int]
    BY <1>4, DepthTypes DEF SendReplyFails, TypeOK
  <2> QED
    BY <1>4, <2>d, <2>1, <2>2, <2>3, FailTypes DEF SendReplyFails, TypeOK
<1>5. CASE HandlerFails(p)
  <2>1. PICK e \in DeadErrors : Fail(p, Front(stack[p]), e, FALSE)
    BY <1>5 DEF HandlerFails, DeadErrors
  <2>2. Front(stack[p]) \in Seq(Frame)
    BY <1>5, StackTypes DEF HandlerFails
  <2>3. chan' \in [Peer -> Seq(Message)]
    BY <1>5, MsgTypes, SendTypes DEF HandlerFails, TypeOK, Tags
  <2>d. dispatch_depth' \in [Peer -> Int]
    BY <1>5, DepthTypes DEF HandlerFails, TypeOK
  <2> QED
    BY <1>5, <2>d, <2>1, <2>2, <2>3, FailTypes DEF HandlerFails, TypeOK
<1>6. CASE DispatchCall(p)
  <2>1. chan' \in [Peer -> Seq(Message)]
    BY <1>6, ReceiveTypes DEF DispatchCall, HeadIs
  <2>2. stack' \in [Peer -> Seq(Frame)]
    BY <1>6, TopMethod, CallTypes, StackTypes DEF DispatchCall, HeadIs
  <2>d. handle_depth' \in [Peer -> Int] /\ dispatch_depth' \in [Peer -> Int]
    BY <1>6, DepthTypes DEF DispatchCall, TypeOK
  <2> QED
    BY <1>6, <2>d, <2>1, <2>2 DEF DispatchCall, TypeOK
<1>7. CASE DispatchTruncated(p)
  <2>1. PICK e \in DeadErrors : Fail(p, stack[p], e, status[p] # "CLOSED")
    BY <1>7 DEF DispatchTruncated
  <2>2. chan' \in [Peer -> Seq(Message)]
    BY <1>7, ReceiveTypes DEF DispatchTruncated, HeadIs
  <2>3. stack[p] \in Seq(Frame) /\ (status[p] # "CLOSED") \in BOOLEAN
    BY DEF TypeOK
  <2>d. handle_depth' \in [Peer -> Int]
    BY <1>7, DepthTypes DEF DispatchTruncated, TypeOK
  <2> QED
    BY <1>7, <2>d, <2>1, <2>2, <2>3, FailTypes DEF DispatchTruncated, TypeOK
<1>8. CASE ReceiveReply(p)
  <2>1. chan' \in [Peer -> Seq(Message)]
    BY <1>8, ReceiveTypes DEF ReceiveReply, HeadIs
  <2>2. stack' \in [Peer -> Seq(Frame)]
    BY <1>8, StackTypes DEF ReceiveReply, Blocked
  <2>d. invoke_depth' \in [Peer -> Int]
    BY <1>8, DepthTypes DEF ReceiveReply, TypeOK
  <2> QED
    BY <1>8, <2>d, <2>1, <2>2 DEF ReceiveReply, TypeOK
<1>9. CASE ReceiveUnexpected(p)
  <2>1. chan' \in [Peer -> Seq(Message)]
    BY <1>9, ReceiveTypes DEF ReceiveUnexpected
  <2>2. stack[p] \in Seq(Frame) /\ "BROKEN" \in DeadErrors
    BY DEF TypeOK, DeadErrors
  <2> QED
    BY <1>9, <2>1, <2>2, FailTypes DEF ReceiveUnexpected, TypeOK
<1>10. CASE ReceiveEOF(p)
  <2>1. PICK e \in DeadErrors : Fail(p, stack[p], e, FALSE)
    BY <1>10 DEF ReceiveEOF
  <2>2. stack[p] \in Seq(Frame)
    BY DEF TypeOK
  <2> QED
    BY <1>10, <2>1, <2>2, FailTypes DEF ReceiveEOF, TypeOK
<1>11. CASE Timeout(p)
  <2>1. stack[p] \in Seq(Frame) /\ "BROKEN" \in DeadErrors
    BY DEF TypeOK, DeadErrors
  <2> QED
    BY <1>11, <2>1, FailTypes DEF Timeout, TypeOK
<1>12. CASE Crash(p)
  <2>1. <<>> \in Seq(Message) /\ <<Msg("HEADER")>> \in Seq(Message)
    BY MsgTypes DEF Tags
  <2> QED
    BY <1>12, <2>1, DieTypes DEF Crash
<1> QED
  BY <1>1, <1>2, <1>3, <1>4, <1>5, <1>6, <1>7, <1>8, <1>9, <1>10, <1>11, <1>12 DEF Step

\* So do the steps of the handshake and of the event loops.
LEMMA TypeStep == TypeOK /\ [Next]_vars => TypeOK'
<1> SUFFICES ASSUME TypeOK, [Next]_vars PROVE TypeOK'
  OBVIOUS
<1>a. "wrapper" \in Peer /\ "viewer" \in Peer
  BY DEF Peer
<1>b. <<>> \in Seq(Message)
  OBVIOUS
<1>c. \A k \in {"main_loop", "rpc_sync", "dispatch_sync", "pending_sync"} : Fr(k) \in Frame
  BY FrTypes, WaitingKinds DEF Serving
<1>d. \A t \in {"SYNC", "SYNC_ACK", "SYNC_END"} : Msg(t) \in Message
  BY MsgTypes DEF Tags
<1>e. stack["wrapper"] \in Seq(Frame) /\ stack["viewer"] \in Seq(Frame)
  BY <1>a DEF TypeOK
<1>1. ASSUME NEW p \in Peer, Step(p) PROVE TypeOK'
  BY <1>1, TypeStepOfPeer
<1>2. CASE ReceiveSyncAck
  <2>1. chan' \in [Peer -> Seq(Message)]
    BY <1>2, <1>a, ReceiveTypes DEF ReceiveSyncAck, HeadIs
  <2>2. stack["viewer"] # <<>>
    BY <1>2 DEF ReceiveSyncAck, Blocked
  <2>3. Append(Front(stack["viewer"]), Fr("main_loop")) \in Seq(Frame)
    BY <1>e, <1>c, <2>2, FrontProps, AppendProps
  <2>4. stack' \in [Peer -> Seq(Frame)]
    BY <1>2, <1>a, <2>3 DEF ReceiveSyncAck, TypeOK
  <2> QED
    BY <1>2, <2>1, <2>4 DEF ReceiveSyncAck, TypeOK, depths
<1>3. CASE ReceiveSyncEnd
  <2>1. chan' \in [Peer -> Seq(Message)]
    BY <1>3, <1>a, ReceiveTypes DEF ReceiveSyncEnd, HeadIs
  <2>2. stack' \in [Peer -> Seq(Frame)]
    BY <1>3, <1>a, StackTypes DEF ReceiveSyncEnd, Blocked
  <2> QED
    BY <1>3, <2>1, <2>2 DEF ReceiveSyncEnd, TypeOK, depths
<1>4. CASE DeferSync
  <2>1. chan' \in [Peer -> Seq(Message)]
    BY <1>4, <1>a, ReceiveTypes DEF DeferSync, HeadIs
  <2> QED
    BY <1>4, <1>a, <2>1 DEF DeferSync, TypeOK, depths
<1>5. CASE DispatchSync
  <2>1. chan' \in [Peer -> Seq(Message)]
    BY <1>5, <1>a, <1>d, ReceiveTypes DEF DispatchSync, HeadIs
  <2>2. stack' \in [Peer -> Seq(Frame)]
    BY <1>5, <1>a, <1>c, StackTypes DEF DispatchSync
  <2> QED
    BY <1>5, <2>1, <2>2 DEF DispatchSync, TypeOK, depths
<1>6. CASE DispatchSyncFails
  <2>1. PICK e \in DeadErrors :
            Fail("wrapper", Append(stack["wrapper"], Fr("dispatch_sync")), e, FALSE)
    BY <1>6 DEF DispatchSyncFails
  <2>2. chan' \in [Peer -> Seq(Message)]
    BY <1>6, <1>a, ReceiveTypes DEF DispatchSyncFails, HeadIs
  <2>3. Append(stack["wrapper"], Fr("dispatch_sync")) \in Seq(Frame)
    BY <1>e, <1>c, AppendProps
  <2> QED
    BY <1>6, <1>a, <2>1, <2>2, <2>3, FailTypes DEF DispatchSyncFails, TypeOK
<1>7. CASE StartSync
  <2>1. CASE alive["wrapper"]
    <3>1. Send("viewer", Msg("SYNC")) /\ Push("viewer", Fr("rpc_sync"))
          /\ UNCHANGED <<status, invoke_depth, g_is_running, sources, plugin_killed>>
      BY <1>7, <2>1 DEF StartSync, Other
    <3>2. chan' \in [Peer -> Seq(Message)] /\ stack' \in [Peer -> Seq(Frame)]
      BY <3>1, <1>a, <1>c, <1>d, SendTypes, StackTypes
    <3> QED
      BY <1>7, <3>1, <3>2 DEF StartSync, TypeOK
  <2>2. CASE ~alive["wrapper"]
    <3>1. PICK e \in DeadErrors : Fail("viewer", <<Fr("rpc_sync")>>, e, FALSE)
      BY <1>7, <2>2 DEF StartSync, Other
    <3>2. UNCHANGED chan
      BY <1>7, <2>2 DEF StartSync, Other
    <3>3. <<Fr("rpc_sync")>> \in Seq(Frame)
      BY <1>c
    <3> QED
      BY <1>7, <1>a, <3>1, <3>2, <3>3, FailTypes DEF StartSync, TypeOK
  <2> QED
    BY <2>1, <2>2
<1>8. CASE EndSync
  <2>1. stack' \in [Peer -> Seq(Frame)]
    BY <1>8, <1>a, StackTypes DEF EndSync
  <2>2. CASE is_sync /\ alive["wrapper"]
    <3>1. /\ Send("viewer", Msg("SYNC_END"))
          /\ is_sync' = FALSE
          /\ UNCHANGED <<status, g_is_running, sources, plugin_killed>>
      BY <1>8, <2>2 DEF EndSync, Other
    <3>2. chan' \in [Peer -> Seq(Message)]
      BY <3>1, <1>a, <1>d, SendTypes
    <3> QED
      BY <1>8, <2>1, <3>1, <3>2 DEF EndSync, TypeOK, depths
  <2>3. CASE ~(is_sync /\ alive["wrapper"])
    <3>1. PICK e \in DeadErrors : RpcError("viewer", e)
      BY <1>8, <2>3 DEF EndSync, Other
    <3>2. UNCHANGED <<chan, is_sync>>
      BY <1>8, <2>3 DEF EndSync, Other
    <3> QED
      BY <1>8, <1>a, <2>1, <3>1, <3>2, RpcErrorTypes DEF EndSync, TypeOK, depths
  <2> QED
    BY <2>2, <2>3
<1>9. CASE DispatchPendingSync
  <2>1. chan' \in [Peer -> Seq(Message)]
    BY <1>9, <1>a, <1>d, SendTypes DEF DispatchPendingSync
  <2>2. stack' \in [Peer -> Seq(Frame)]
    BY <1>9, <1>a, <1>c, StackTypes DEF DispatchPendingSync
  <2> QED
    BY <1>9, <2>1, <2>2 DEF DispatchPendingSync, TypeOK, depths
<1>10. CASE PendingSyncAbort \/ ViewerExit \/ ViewerKilled
  BY <1>10, <1>a, <1>b, DieTypes DEF PendingSyncAbort, ViewerExit, ViewerKilled
<1>11. CASE Terminated \/ UNCHANGED vars
  BY <1>11 DEF Terminated, vars, depths, TypeOK
<1> QED
  BY <1>1, <1>2, <1>3, <1>4, <1>5, <1>6, <1>7, <1>8, <1>9, <1>10, <1>11 DEF Next

\* Every reachable state has the types of struct rpc_connection and of the
\* frames and messages of rpc.c.
THEOREM TypeCorrect == Spec => []TypeOK
  BY TypeInit, TypeStep, PTL DEF Spec

-----------------------------------------------------------------------------
(* How sending and reading change what a channel holds.                      *)

LEMMA NoneAppend ==
    ASSUME NEW c \in Seq(Message), NEW msg \in Message, NEW T
    PROVE  /\ None(c, T) /\ msg.tag \notin T => None(Append(c, msg), T)
           /\ None(c, T) => AtMostOne(Append(c, msg), T)
           /\ AtMostOne(c, T) /\ msg.tag \notin T => AtMostOne(Append(c, msg), T)
<1> DEFINE d == Append(c, msg)
<1>1. Len(d) = Len(c) + 1 /\ Len(c) \in Nat
  BY AppendProps
<1>2. \A i \in 1..Len(d) : d[i] = IF i <= Len(c) THEN c[i] ELSE msg
  BY <1>1, AppendProps
<1> HIDE DEF d
<1>3. None(c, T) /\ msg.tag \notin T => None(d, T)
  BY <1>1, <1>2 DEF None
<1>4. ASSUME None(c, T), NEW i \in 1..Len(d), NEW j \in 1..Len(d),
             d[i].tag \in T, d[j].tag \in T
      PROVE  i = j
  BY <1>1, <1>2, <1>4 DEF None
<1>5. ASSUME AtMostOne(c, T), msg.tag \notin T, NEW i \in 1..Len(d), NEW j \in 1..Len(d),
             d[i].tag \in T, d[j].tag \in T
      PROVE  i = j
  BY <1>1, <1>2, <1>5 DEF AtMostOne
<1> QED
  BY <1>3, <1>4, <1>5 DEF AtMostOne, d

LEMMA NoneTail ==
    ASSUME NEW c \in Seq(Message), c # <<>>, NEW T
    PROVE  /\ None(c, T) => None(Tail(c), T) /\ Head(c).tag \notin T
           /\ AtMostOne(c, T) => AtMostOne(Tail(c), T)
           /\ AtMostOne(c, T) /\ Head(c).tag \in T => None(Tail(c), T)
<1> DEFINE d == Tail(c)
<1>1. /\ Len(c) \in Nat /\ Len(c) > 0 /\ Len(d) = Len(c) - 1
      /\ \A i \in 1..Len(d) : d[i] = c[i + 1] /\ i + 1 \in 1..Len(c)
      /\ Head(c) = c[1] /\ 1 \in 1..Len(c)
  BY TailProps
<1> HIDE DEF d
<1>2. None(c, T) => None(d, T) /\ Head(c).tag \notin T
  BY <1>1 DEF None
<1>3. ASSUME AtMostOne(c, T), NEW i \in 1..Len(d), NEW j \in 1..Len(d),
             d[i].tag \in T, d[j].tag \in T
      PROVE  i = j
  <2>1. c[i + 1].tag \in T /\ c[j + 1].tag \in T
    BY <1>1, <1>3
  <2>2. i + 1 = j + 1
    BY <1>1, <1>3, <2>1 DEF AtMostOne
  <2> QED
    BY <1>1, <2>2
<1>4. ASSUME AtMostOne(c, T), Head(c).tag \in T, NEW i \in 1..Len(d), d[i].tag \in T
      PROVE  FALSE
  <2>1. c[i + 1].tag \in T /\ c[1].tag \in T
    BY <1>1, <1>4
  <2>2. i + 1 = 1
    BY <1>1, <1>4, <2>1 DEF AtMostOne
  <2> QED
    BY <1>1, <2>2
<1> QED
  BY <1>2, <1>3, <1>4 DEF AtMostOne, None, d

LEMMA NoneEmpty ==
    ASSUME NEW T
    PROVE  None(<<>>, T) /\ AtMostOne(<<>>, T)
  BY DEF None, AtMostOne

LEMMA NoneIsAtMostOne ==
    ASSUME NEW c \in Seq(Message), NEW T, None(c, T)
    PROVE  AtMostOne(c, T)
  BY DEF None, AtMostOne

(* How pushing and popping keep a stack in order.                            *)

LEMMA WrapperOrderFront ==
    ASSUME NEW s \in Seq(Frame), s # <<>>, WrapperOrder(s)
    PROVE  /\ WrapperOrder(Front(s))
           /\ Last(s).kind = "handle" => ~WrapperRuns(Front(s))
<1>1. /\ Len(s) \in Nat /\ Len(s) > 0 /\ Len(Front(s)) = Len(s) - 1
      /\ \A i \in 1..Len(Front(s)) : Front(s)[i] = s[i]
      /\ Last(s) = s[Len(s)] /\ Front(s) \in Seq(Frame)
  BY FrontProps
<1>2. WrapperOrder(Front(s))
  BY <1>1 DEF WrapperOrder
<1>3. ASSUME Last(s).kind = "handle" PROVE ~WrapperRuns(Front(s))
  <2>1. Len(s) > 1 /\ s[Len(s) - 1].kind \in Waiting
    BY <1>1, <1>3 DEF WrapperOrder
  <2>2. Front(s) # <<>>
    BY <1>1, <2>1
  <2>3. Last(Front(s)) = s[Len(s) - 1]
    <3>1. Last(Front(s)) = Front(s)[Len(Front(s))]
      BY <1>1, <2>2, FrontProps
    <3> QED
      BY <1>1, <2>1, <3>1
  <2> QED
    BY <2>1, <2>2, <2>3, WaitingKinds DEF WrapperRuns, Serving
<1> QED
  BY <1>2, <1>3

LEMMA WrapperOrderAppend ==
    ASSUME NEW s \in Seq(Frame), WrapperOrder(s), NEW f \in Frame
    PROVE  /\ f.kind \in {"invoke", "dispatch_sync", "pending_sync"} =>
                WrapperOrder(Append(s, f)) /\ ~WrapperRuns(Append(s, f))
           /\ f.kind = "handle" /\ s # <<>> /\ Last(s).kind \in Waiting =>
                WrapperOrder(Append(s, f))
<1> DEFINE t == Append(s, f)
<1>1. /\ Len(t) = Len(s) + 1 /\ Len(s) \in Nat
      /\ \A i \in 1..Len(s) : t[i] = s[i]
      /\ t[Len(s) + 1] = f /\ t # <<>> /\ Last(t) = f
  BY AppendProps
<1>2. s # <<>> => Len(s) > 0 /\ Last(s) = s[Len(s)]
  BY FrontProps
<1> HIDE DEF t
<1>3. f.kind \in {"invoke", "dispatch_sync", "pending_sync"} => WrapperOrder(t) /\ ~WrapperRuns(t)
  BY <1>1 DEF WrapperOrder, WrapperRuns, Serving
<1>4. f.kind = "handle" /\ s # <<>> /\ Last(s).kind \in Waiting => WrapperOrder(t)
  BY <1>1, <1>2 DEF WrapperOrder
<1> QED
  BY <1>3, <1>4 DEF t

LEMMA ViewerOrderFront ==
    ASSUME NEW s \in Seq(Frame), s # <<>>, ViewerOrder(s)
    PROVE  /\ ViewerOrder(Front(s))
           /\ Last(s).kind = "handle" => ~ViewerRuns(Front(s))
           /\ Last(s).kind \in {"rpc_sync", "main_loop"} => Front(s) = <<>>
           /\ Last(s).kind # "rpc_sync" /\ Asks(s) => Asks(Front(s))
<1>1. /\ Len(s) \in Nat /\ Len(s) > 0 /\ Len(Front(s)) = Len(s) - 1
      /\ \A i \in 1..Len(Front(s)) : Front(s)[i] = s[i]
      /\ Last(s) = s[Len(s)] /\ Front(s) \in Seq(Frame)
  BY FrontProps
<1>2. ViewerOrder(Front(s))
  BY <1>1 DEF ViewerOrder
<1>3. ASSUME Last(s).kind = "handle" PROVE ~ViewerRuns(Front(s))
  <2>1. CASE Len(s) = 1
    <3>1. Front(s) = <<>>
      BY <1>1, <2>1
    <3> QED
      BY <3>1 DEF ViewerRuns
  <2>2. CASE Len(s) > 1
    <3>1. s[Len(s) - 1].kind \in Waiting
      BY <1>1, <1>3, <2>2 DEF ViewerOrder
    <3>2. Last(Front(s)) = s[Len(s) - 1]
      <4>1. Front(s) # <<>>
        BY <1>1, <2>2
      <4>2. Last(Front(s)) = Front(s)[Len(Front(s))]
        BY <1>1, <4>1, FrontProps
      <4> QED
        BY <1>1, <2>2, <4>2
    <3> QED
      BY <3>1, <3>2, WaitingKinds DEF ViewerRuns, Serving
  <2> QED
    BY <1>1, <2>1, <2>2
<1>4. ASSUME Last(s).kind \in {"rpc_sync", "main_loop"} PROVE Front(s) = <<>>
  <2>1. Len(s) = 1
    BY <1>1, <1>4 DEF ViewerOrder
  <2> QED
    BY <1>1, <2>1
<1>5. ASSUME Last(s).kind # "rpc_sync", Asks(s) PROVE Asks(Front(s))
  BY <1>1, <1>5 DEF Asks
<1> QED
  BY <1>2, <1>3, <1>4, <1>5

LEMMA ViewerOrderAppend ==
    ASSUME NEW s \in Seq(Frame), ViewerOrder(s), NEW f \in Frame
    PROVE  /\ f.kind = "invoke" => ViewerOrder(Append(s, f)) /\ ~ViewerRuns(Append(s, f))
           /\ f.kind = "handle" /\ (s # <<>> => Last(s).kind \in Waiting) =>
                ViewerOrder(Append(s, f))
           /\ f.kind \in {"rpc_sync", "main_loop"} /\ s = <<>> => ViewerOrder(Append(s, f))
           /\ f.kind = "rpc_sync" /\ s = <<>> =>
                Asks(Append(s, f)) /\ ~ViewerRuns(Append(s, f))
           /\ Asks(s) => Asks(Append(s, f))
<1> DEFINE t == Append(s, f)
<1>1. /\ Len(t) = Len(s) + 1 /\ Len(s) \in Nat
      /\ \A i \in 1..Len(s) : t[i] = s[i]
      /\ t[Len(s) + 1] = f /\ t # <<>> /\ Last(t) = f
  BY AppendProps
<1>2. s # <<>> => Len(s) > 0 /\ Last(s) = s[Len(s)]
  BY FrontProps
<1>3. s = <<>> <=> Len(s) = 0
  OBVIOUS
<1> HIDE DEF t
<1>4. f.kind = "invoke" => ViewerOrder(t) /\ ~ViewerRuns(t)
  BY <1>1 DEF ViewerOrder, ViewerRuns, Serving
<1>5. f.kind = "handle" /\ (s # <<>> => Last(s).kind \in Waiting) => ViewerOrder(t)
  BY <1>1, <1>2, <1>3 DEF ViewerOrder
<1>6. f.kind \in {"rpc_sync", "main_loop"} /\ s = <<>> => ViewerOrder(t)
  BY <1>1, <1>3 DEF ViewerOrder
<1>7. f.kind = "rpc_sync" /\ s = <<>> => Asks(t) /\ ~ViewerRuns(t)
  BY <1>1, <1>3 DEF Asks, ViewerRuns, Serving
<1>8. Asks(s) => Asks(t)
  BY <1>1 DEF Asks
<1> QED
  BY <1>4, <1>5, <1>6, <1>7, <1>8 DEF t

-----------------------------------------------------------------------------
(* The moves of the token: each lemma is what one operation does to the two  *)
(* stacks and the two channels, and says that the invariant survives it.     *)

Good(ws, vs, cw, cv, pending) ==
    /\ OneToken(ws, vs, cw, cv)
    /\ WrapperOrder(ws)
    /\ ViewerOrder(vs)
    /\ OneRequest(vs, cw, cv, pending)

LEMMA ControlTags ==
    /\ {"START", "REPLY", "SYNC_ACK", "SYNC_END"} = Control
    /\ "SYNC" \notin Control /\ "FAILURE" \notin Control
  BY DEF Control

\* The wrapper calls, or answers a SYNC it had noted or not: it gives control away.
LEMMA WrapperSendsAndWaits ==
    ASSUME NEW ws \in Seq(Frame), NEW vs \in Seq(Frame),
           NEW cw \in Seq(Message), NEW cv \in Seq(Message), NEW pending \in Int,
           Good(ws, vs, cw, cv, pending), WrapperRuns(ws),
           NEW f \in Frame, f.kind \in {"invoke", "dispatch_sync", "pending_sync"},
           NEW msg \in Message, msg.tag \in Control
    PROVE  /\ OneToken(Append(ws, f), vs, cw, Append(cv, msg))
           /\ cw # <<>> => OneToken(Append(ws, f), vs, Tail(cw), Append(cv, msg))
           /\ WrapperOrder(Append(ws, f))
<1>1. WrapperOrder(Append(ws, f)) /\ ~WrapperRuns(Append(ws, f))
  BY WrapperOrderAppend DEF Good
<1>2. None(cw, Control) /\ None(cv, Control) /\ ~ViewerRuns(vs)
  BY DEF Good, OneToken
<1>3. AtMostOne(Append(cv, msg), Control) /\ AtMostOne(cw, Control)
  BY <1>2, NoneAppend, NoneIsAtMostOne
<1>4. cw # <<>> => None(Tail(cw), Control) /\ AtMostOne(Tail(cw), Control)
  BY <1>2, <1>3, NoneTail
<1> QED
  BY <1>1, <1>2, <1>3, <1>4 DEF OneToken

LEMMA WrapperInvokes ==
    ASSUME NEW ws \in Seq(Frame), NEW vs \in Seq(Frame),
           NEW cw \in Seq(Message), NEW cv \in Seq(Message), NEW pending \in Int,
           Good(ws, vs, cw, cv, pending), WrapperRuns(ws),
           NEW f \in Frame, f.kind = "invoke",
           NEW msg \in Message, msg.tag = "START"
    PROVE  Good(Append(ws, f), vs, cw, Append(cv, msg), pending)
<1>1. OneToken(Append(ws, f), vs, cw, Append(cv, msg)) /\ WrapperOrder(Append(ws, f))
  BY WrapperSendsAndWaits, ControlTags
<1>2. None(cv, {"SYNC_ACK"}) => None(Append(cv, msg), {"SYNC_ACK"})
  BY NoneAppend
<1> QED
  BY <1>1, <1>2 DEF Good, OneRequest

LEMMA WrapperAnswers ==
    ASSUME NEW ws \in Seq(Frame), NEW vs \in Seq(Frame),
           NEW cw \in Seq(Message), NEW cv \in Seq(Message), NEW pending \in Int,
           Good(ws, vs, cw, cv, pending), WrapperRuns(ws),
           NEW f \in Frame, f.kind \in {"dispatch_sync", "pending_sync"},
           NEW msg \in Message, msg.tag = "SYNC_ACK"
    PROVE  /\ cw # <<>> /\ Head(cw).tag = "SYNC" =>
                Good(Append(ws, f), vs, Tail(cw), Append(cv, msg), pending)
           /\ cw = <<>> /\ pending # 0 =>
                Good(Append(ws, f), vs, cw, Append(cv, msg), 0)
<1>1. /\ OneToken(Append(ws, f), vs, cw, Append(cv, msg))
      /\ cw # <<>> => OneToken(Append(ws, f), vs, Tail(cw), Append(cv, msg))
      /\ WrapperOrder(Append(ws, f))
  BY WrapperSendsAndWaits, ControlTags
<1>2. ASSUME cw # <<>>, Head(cw).tag = "SYNC"
      PROVE  OneRequest(vs, Tail(cw), Append(cv, msg), pending)
  <2>1. ~None(cw, {"SYNC"})
    BY <1>2, NoneTail
  <2>2. Asks(vs) /\ pending = 0
    BY <2>1 DEF Good, OneRequest
  <2>3. None(Tail(cw), {"SYNC"}) /\ AtMostOne(Tail(cw), {"SYNC"}) /\ None(Tail(cw), {"FAILURE"})
    BY <1>2, NoneTail DEF Good, OneRequest
  <2> QED
    BY <2>2, <2>3 DEF OneRequest
<1>3. ASSUME cw = <<>>, pending # 0
      PROVE  OneRequest(vs, cw, Append(cv, msg), 0)
  BY <1>3, NoneEmpty DEF Good, OneRequest
<1> QED
  BY <1>1, <1>2, <1>3 DEF Good

\* The wrapper replies, or its callback fails under a synchronising frame.
LEMMA WrapperReplies ==
    ASSUME NEW ws \in Seq(Frame), NEW vs \in Seq(Frame),
           NEW cw \in Seq(Message), NEW cv \in Seq(Message), NEW pending \in Int,
           Good(ws, vs, cw, cv, pending), ws # <<>>, Last(ws).kind = "handle",
           NEW msg \in Message
    PROVE  /\ msg.tag = "REPLY" => Good(Front(ws), vs, cw, Append(cv, msg), pending)
           /\ msg.tag = "FAILURE" =>
                Good(Front(Front(ws)), vs, cw, Append(cv, msg), pending)
<1>1. /\ WrapperOrder(Front(ws)) /\ ~WrapperRuns(Front(ws))
      /\ Front(ws) \in Seq(Frame)
  BY WrapperOrderFront, FrontProps DEF Good
<1>2. WrapperRuns(ws)
  BY DEF WrapperRuns, Serving
<1>3. None(cw, Control) /\ None(cv, Control) /\ ~ViewerRuns(vs) /\ AtMostOne(cw, Control)
  BY <1>2 DEF Good, OneToken
<1>4. ASSUME msg.tag = "REPLY"
      PROVE  Good(Front(ws), vs, cw, Append(cv, msg), pending)
  <2>1. AtMostOne(Append(cv, msg), Control)
    BY <1>3, NoneAppend
  <2>2. None(cv, {"SYNC_ACK"}) => None(Append(cv, msg), {"SYNC_ACK"})
    BY <1>4, NoneAppend
  <2> QED
    BY <1>1, <1>3, <2>1, <2>2 DEF Good, OneToken, OneRequest
<1>5. ASSUME msg.tag = "FAILURE"
      PROVE  Good(Front(Front(ws)), vs, cw, Append(cv, msg), pending)
  <2>1. None(Append(cv, msg), Control) /\ AtMostOne(Append(cv, msg), Control)
    BY <1>3, <1>5, NoneAppend, ControlTags
  <2>2. None(cv, {"SYNC_ACK"}) => None(Append(cv, msg), {"SYNC_ACK"})
    BY <1>5, NoneAppend
  <2>3. Front(ws) # <<>>
    BY <1>1 DEF WrapperRuns
  <2>4. WrapperOrder(Front(Front(ws)))
    BY <1>1, <2>3, WrapperOrderFront
  <2> QED
    BY <1>3, <2>1, <2>2, <2>4 DEF Good, OneToken, OneRequest
<1> QED
  BY <1>4, <1>5

\* The wrapper reads: a call, the tag it waits for, or a tag it rejects.
LEMMA WrapperReadsControl ==
    ASSUME NEW ws \in Seq(Frame), NEW vs \in Seq(Frame),
           NEW cw \in Seq(Message), NEW cv \in Seq(Message), NEW pending \in Int,
           Good(ws, vs, cw, cv, pending), cw # <<>>, Head(cw).tag \in Control
    PROVE  /\ ws # <<>> /\ Last(ws).kind \in Waiting
           /\ Good(Front(ws), vs, Tail(cw), cv, pending)
           /\ \A f \in Frame : f.kind = "handle" =>
                Good(Append(ws, f), vs, Tail(cw), cv, pending)
<1>1. ~None(cw, Control)
  BY NoneTail
<1>2. ~WrapperRuns(ws) /\ ~ViewerRuns(vs) /\ None(cv, Control) /\ AtMostOne(cv, Control)
  BY <1>1 DEF Good, OneToken
<1>3. None(Tail(cw), Control) /\ AtMostOne(Tail(cw), Control)
  BY NoneTail DEF Good, OneToken
<1>4. /\ None(cw, {"SYNC"}) => None(Tail(cw), {"SYNC"})
      /\ AtMostOne(Tail(cw), {"SYNC"})
      /\ None(Tail(cw), {"FAILURE"})
  BY NoneTail DEF Good, OneRequest
<1>5. OneRequest(vs, Tail(cw), cv, pending)
  BY <1>4 DEF Good, OneRequest
<1>6. ws # <<>> /\ Last(ws).kind \in Waiting
  <2>1. ws # <<>> /\ Last(ws).kind \notin Serving
    BY <1>2 DEF WrapperRuns
  <2>2. Last(ws) \in Frame
    BY <2>1, FrontProps
  <2>3. Last(ws).kind \in Waiting \cup Serving
    BY <2>2 DEF Frame
  <2> QED
    BY <2>1, <2>3
<1>7. WrapperOrder(Front(ws))
  BY <1>6, WrapperOrderFront DEF Good
<1>8. \A f \in Frame : f.kind = "handle" => WrapperOrder(Append(ws, f))
  BY <1>6, WrapperOrderAppend DEF Good
<1> QED
  BY <1>2, <1>3, <1>5, <1>6, <1>7, <1>8 DEF Good, OneToken

LEMMA WrapperDefers ==
    ASSUME NEW ws \in Seq(Frame), NEW vs \in Seq(Frame),
           NEW cw \in Seq(Message), NEW cv \in Seq(Message), NEW pending \in Int,
           Good(ws, vs, cw, cv, pending), cw # <<>>, Head(cw).tag = "SYNC",
           NEW n \in Int
    PROVE  pending = 0 /\ Good(ws, vs, Tail(cw), cv, n)
<1>1. ~None(cw, {"SYNC"})
  BY NoneTail
<1>2. Asks(vs) /\ pending = 0 /\ None(cv, {"SYNC_ACK"})
  BY <1>1 DEF Good, OneRequest
<1>3. None(Tail(cw), {"SYNC"}) /\ AtMostOne(Tail(cw), {"SYNC"}) /\ None(Tail(cw), {"FAILURE"})
  BY NoneTail DEF Good, OneRequest
<1>4. /\ None(cw, Control) => None(Tail(cw), Control)
      /\ AtMostOne(Tail(cw), Control)
  BY NoneTail DEF Good, OneToken
<1> QED
  BY <1>2, <1>3, <1>4 DEF Good, OneToken, OneRequest

\* The viewer calls.
LEMMA ViewerInvokes ==
    ASSUME NEW ws \in Seq(Frame), NEW vs \in Seq(Frame),
           NEW cw \in Seq(Message), NEW cv \in Seq(Message), NEW pending \in Int,
           Good(ws, vs, cw, cv, pending), ViewerRuns(vs),
           NEW f \in Frame, f.kind = "invoke",
           NEW msg \in Message, msg.tag = "START"
    PROVE  Good(ws, Append(vs, f), Append(cw, msg), cv, pending)
<1>1. /\ ViewerOrder(Append(vs, f)) /\ ~ViewerRuns(Append(vs, f))
      /\ Asks(vs) => Asks(Append(vs, f))
  BY ViewerOrderAppend DEF Good
<1>2. None(cw, Control) /\ None(cv, Control) /\ ~WrapperRuns(ws) /\ AtMostOne(cv, Control)
  BY DEF Good, OneToken
<1>3. AtMostOne(Append(cw, msg), Control)
  BY <1>2, NoneAppend
<1>4. /\ None(cw, {"SYNC"}) => None(Append(cw, msg), {"SYNC"})
      /\ AtMostOne(Append(cw, msg), {"SYNC"})
      /\ None(Append(cw, msg), {"FAILURE"})
  BY NoneAppend DEF Good, OneRequest
<1> QED
  BY <1>1, <1>2, <1>3, <1>4 DEF Good, OneToken, OneRequest

\* The viewer replies, or ends its turn.
LEMMA ViewerReturns ==
    ASSUME NEW ws \in Seq(Frame), NEW vs \in Seq(Frame),
           NEW cw \in Seq(Message), NEW cv \in Seq(Message), NEW pending \in Int,
           Good(ws, vs, cw, cv, pending), vs # <<>>, Last(vs).kind \in Serving,
           NEW msg \in Message, msg.tag \in {"REPLY", "SYNC_END"}
    PROVE  Good(ws, Front(vs), Append(cw, msg), cv, pending)
<1>1. /\ ViewerOrder(Front(vs)) /\ ~ViewerRuns(Front(vs))
      /\ Asks(vs) => Asks(Front(vs))
  <2>1. Last(vs).kind \in {"handle", "main_loop"}
    BY DEF Serving
  <2>2. Last(vs).kind = "main_loop" => ~ViewerRuns(Front(vs))
    BY ViewerOrderFront DEF Good, ViewerRuns
  <2> QED
    BY <2>1, <2>2, ViewerOrderFront DEF Good
<1>2. None(cw, Control) /\ None(cv, Control) /\ ~WrapperRuns(ws) /\ AtMostOne(cv, Control)
  BY DEF Good, OneToken, ViewerRuns
<1>3. AtMostOne(Append(cw, msg), Control)
  BY <1>2, NoneAppend
<1>4. /\ None(cw, {"SYNC"}) => None(Append(cw, msg), {"SYNC"})
      /\ AtMostOne(Append(cw, msg), {"SYNC"})
      /\ None(Append(cw, msg), {"FAILURE"})
  BY NoneAppend DEF Good, OneRequest
<1> QED
  BY <1>1, <1>2, <1>3, <1>4 DEF Good, OneToken, OneRequest

\* The viewer reads a call, a reply, or the answer to its SYNC.
LEMMA ViewerReadsControl ==
    ASSUME NEW ws \in Seq(Frame), NEW vs \in Seq(Frame),
           NEW cw \in Seq(Message), NEW cv \in Seq(Message), NEW pending \in Int,
           Good(ws, vs, cw, cv, pending), cv # <<>>, Head(cv).tag \in Control
    PROVE  /\ vs # <<>> /\ Last(vs).kind = "invoke" =>
                Good(ws, Front(vs), cw, Tail(cv), pending)
           /\ \A f \in Frame : f.kind = "handle" /\ (vs # <<>> => Last(vs).kind \in Waiting) =>
                Good(ws, Append(vs, f), cw, Tail(cv), pending)
           /\ \A f \in Frame : f.kind = "main_loop" /\ vs # <<>> /\ Last(vs).kind = "rpc_sync"
                               /\ Head(cv).tag = "SYNC_ACK" =>
                Good(ws, Append(Front(vs), f), cw, Tail(cv), pending)
<1>1. ~None(cv, Control)
  BY NoneTail
<1>2. ~WrapperRuns(ws) /\ ~ViewerRuns(vs) /\ None(cw, Control) /\ AtMostOne(cw, Control)
  BY <1>1 DEF Good, OneToken
<1>3. None(Tail(cv), Control) /\ AtMostOne(Tail(cv), Control)
  BY NoneTail DEF Good, OneToken
<1>4. None(cv, {"SYNC_ACK"}) => None(Tail(cv), {"SYNC_ACK"})
  BY NoneTail
<1>5. None(Tail(cv), {"SYNC_ACK"})
  BY <1>3 DEF None, Control
<1>6. ASSUME vs # <<>>, Last(vs).kind = "invoke"
      PROVE  Good(ws, Front(vs), cw, Tail(cv), pending)
  <2>1. ViewerOrder(Front(vs)) /\ (Asks(vs) => Asks(Front(vs)))
    BY <1>6, ViewerOrderFront DEF Good
  <2> QED
    BY <1>2, <1>3, <1>5, <2>1 DEF Good, OneToken, OneRequest
<1>7. ASSUME NEW f \in Frame, f.kind = "handle", vs # <<>> => Last(vs).kind \in Waiting
      PROVE  Good(ws, Append(vs, f), cw, Tail(cv), pending)
  <2>1. ViewerOrder(Append(vs, f)) /\ (Asks(vs) => Asks(Append(vs, f)))
    BY <1>7, ViewerOrderAppend DEF Good
  <2> QED
    BY <1>2, <1>3, <1>5, <2>1 DEF Good, OneToken, OneRequest
<1>8. ASSUME NEW f \in Frame, f.kind = "main_loop", vs # <<>>, Last(vs).kind = "rpc_sync",
             Head(cv).tag = "SYNC_ACK"
      PROVE  Good(ws, Append(Front(vs), f), cw, Tail(cv), pending)
  <2>1. Front(vs) = <<>> /\ Front(vs) \in Seq(Frame) /\ ViewerOrder(Front(vs))
    BY <1>8, ViewerOrderFront, FrontProps DEF Good
  <2>2. ViewerOrder(Append(Front(vs), f))
    BY <1>8, <2>1, ViewerOrderAppend
  <2>3. ~None(cv, {"SYNC_ACK"})
    BY <1>8, NoneTail
  <2>4. None(cw, {"SYNC"}) /\ pending = 0
    BY <2>3 DEF Good, OneRequest
  <2> QED
    BY <1>2, <1>3, <1>5, <2>2, <2>4 DEF Good, OneToken, OneRequest
<1> QED
  BY <1>6, <1>7, <1>8

\* The viewer asks for its turn.
LEMMA ViewerAsksForTurn ==
    ASSUME NEW ws \in Seq(Frame), NEW vs \in Seq(Frame),
           NEW cw \in Seq(Message), NEW cv \in Seq(Message), NEW pending \in Int,
           Good(ws, vs, cw, cv, pending), vs = <<>>,
           NEW f \in Frame, f.kind = "rpc_sync",
           NEW msg \in Message, msg.tag = "SYNC"
    PROVE  Good(ws, Append(vs, f), Append(cw, msg), cv, pending)
<1>1. ViewerOrder(Append(vs, f)) /\ Asks(Append(vs, f)) /\ ~ViewerRuns(Append(vs, f))
  BY ViewerOrderAppend DEF Good
<1>2. ~Asks(vs)
  BY DEF Asks
<1>3. None(cw, {"SYNC"}) /\ pending = 0 /\ None(cv, {"SYNC_ACK"})
  BY <1>2 DEF Good, OneRequest
<1>4. AtMostOne(Append(cw, msg), {"SYNC"}) /\ None(Append(cw, msg), {"FAILURE"})
  BY <1>3, NoneAppend DEF Good, OneRequest
<1>5. /\ None(cw, Control) => None(Append(cw, msg), Control)
      /\ AtMostOne(Append(cw, msg), Control)
  BY NoneAppend, ControlTags DEF Good, OneToken
<1> QED
  BY <1>1, <1>3, <1>4, <1>5 DEF Good, OneToken, OneRequest

-----------------------------------------------------------------------------
(* Errors: what they leave of a healthy connection.                          *)

KilledIsKnown == plugin_killed => status["wrapper"] # "ACTIVE"

LEMMA ErrorIsUnhealthy ==
    ASSUME TypeOK, NEW p \in Peer, NEW e \in DeadErrors, RpcError(p, e), KilledIsKnown
    PROVE  ~Healthy' /\ KilledIsKnown'
<1>1. status'[p] # "ACTIVE"
  BY DEF RpcError, SetStatus, TypeOK, DeadErrors
<1>2. status["wrapper"] # "ACTIVE" => status'["wrapper"] # "ACTIVE"
  BY DEF RpcError, SetStatus, TypeOK, DeadErrors, Peer
<1> QED
  BY <1>1, <1>2 DEF Healthy, KilledIsKnown, RpcError, Peer

LEMMA DieIsUnhealthy ==
    ASSUME TypeOK, NEW p \in Peer, NEW unsent, Die(p, unsent), KilledIsKnown
    PROVE  ~Healthy' /\ KilledIsKnown'
  BY DEF Die, TypeOK, Healthy, KilledIsKnown

LEMMA FailIsUnhealthy ==
    ASSUME TypeOK, NEW p \in Peer, NEW s, NEW e \in DeadErrors,
           NEW raised \in BOOLEAN, Fail(p, s, e, raised), KilledIsKnown
    PROVE  /\ KilledIsKnown'
           /\ Healthy' =>
                /\ ~raised
                /\ s # <<>> /\ Last(s).kind \in {"dispatch_sync", "pending_sync"}
                /\ stack' = [stack EXCEPT ![p] = Front(s)]
                /\ UNCHANGED status
<1> DEFINE kind == IF s = <<>> THEN "handle" ELSE Last(s).kind
           sync == kind \in {"dispatch_sync", "pending_sync"}
<1>1. CASE sync /\ ~raised
  <2>1. UNCHANGED <<status, plugin_killed>>
    BY <1>1 DEF Fail
  <2>2. stack' = [stack EXCEPT ![p] = Front(s)]
    BY <1>1, WaitingKinds DEF Fail
  <2>3. s # <<>> /\ Last(s).kind \in {"dispatch_sync", "pending_sync"}
    BY <1>1
  <2> QED
    BY <1>1, <2>1, <2>2, <2>3 DEF KilledIsKnown
<1>2. CASE ~(sync /\ ~raised)
  <2>1. RpcError(p, e)
    BY <1>2 DEF Fail
  <2> QED
    BY <2>1, ErrorIsUnhealthy
<1> QED
  BY <1>1, <1>2

\* What Good says of a step that changes only the parts named.
LEMMA PeerValues ==
    ASSUME TypeOK
    PROVE  /\ stack["wrapper"] \in Seq(Frame) /\ stack["viewer"] \in Seq(Frame)
           /\ chan["wrapper"] \in Seq(Message) /\ chan["viewer"] \in Seq(Message)
           /\ pending_sync_depth \in Int
           /\ "wrapper" \in Peer /\ "viewer" \in Peer
           /\ Other("wrapper") = "viewer" /\ Other("viewer") = "wrapper"
           /\ \A p \in Peer : p = "wrapper" \/ p = "viewer"
  BY DEF TypeOK, Peer, Other

LEMMA Effects ==
    ASSUME TypeOK
    PROVE  /\ \A x : Send("wrapper", x) =>
                /\ chan'["wrapper"] = chan["wrapper"]
                /\ chan'["viewer"] = Append(chan["viewer"], x)
           /\ \A x : Send("viewer", x) =>
                /\ chan'["viewer"] = chan["viewer"]
                /\ chan'["wrapper"] = Append(chan["wrapper"], x)
           /\ Receive("wrapper") =>
                /\ chan'["wrapper"] = Tail(chan["wrapper"])
                /\ chan'["viewer"] = chan["viewer"]
           /\ Receive("viewer") =>
                /\ chan'["viewer"] = Tail(chan["viewer"])
                /\ chan'["wrapper"] = chan["wrapper"]
           /\ \A x : Exchange("wrapper", x) =>
                /\ chan'["wrapper"] = Tail(chan["wrapper"])
                /\ chan'["viewer"] = Append(chan["viewer"], x)
           /\ \A p \in Peer : \A s : stack' = [stack EXCEPT ![p] = s] =>
                stack'[p] = s /\ stack'[Other(p)] = stack[Other(p)]
  BY DEF Send, Receive, Exchange, TypeOK, Peer, Other

-----------------------------------------------------------------------------
(* The invariant is inductive.                                               *)

GoodNow == Good(stack["wrapper"], stack["viewer"], chan["wrapper"], chan["viewer"],
                pending_sync_depth)

LEMMA ControlInvariantParts == ControlInvariant <=> KilledIsKnown /\ (Healthy => GoodNow)
  BY DEF ControlInvariant, KilledIsKnown, GoodNow, Good

LEMMA RunningIsRuns ==
    ASSUME TypeOK, KilledIsKnown, Healthy
    PROVE  /\ Running("wrapper") <=> WrapperRuns(stack["wrapper"])
           /\ Running("viewer") <=> ViewerRuns(stack["viewer"])
           /\ status["wrapper"] = "ACTIVE" /\ status["viewer"] = "ACTIVE"
           /\ alive["wrapper"] /\ alive["viewer"]
  BY DEF Running, Up, Healthy, KilledIsKnown, WrapperRuns, ViewerRuns, Peer

LEMMA ControlInit == Init => ControlInvariant
<1> SUFFICES ASSUME Init PROVE ControlInvariant
  OBVIOUS
<1>1. /\ stack["wrapper"] = <<>> /\ stack["viewer"] = <<>>
      /\ chan["wrapper"] = <<>> /\ chan["viewer"] = <<>>
      /\ pending_sync_depth = 0 /\ plugin_killed = FALSE
  BY DEF Init, Peer
<1>2. OneToken(<<>>, <<>>, <<>>, <<>>)
  BY NoneEmpty DEF OneToken, ViewerRuns
<1>3. WrapperOrder(<<>>) /\ ViewerOrder(<<>>)
  BY DEF WrapperOrder, ViewerOrder
<1>4. OneRequest(<<>>, <<>>, <<>>, 0)
  BY NoneEmpty DEF OneRequest
<1> QED
  BY <1>1, <1>2, <1>3, <1>4 DEF ControlInvariant

LEMMA ControlStepOfPeer ==
    ASSUME TypeOK, KilledIsKnown, Healthy => GoodNow,
           "timeout" \notin Faults, NEW p \in Peer, Step(p)
    PROVE  KilledIsKnown' /\ (Healthy' => GoodNow')
<1>a. UNCHANGED <<alive, status>> /\ Healthy' => Healthy
  BY DEF Healthy
<1>b. UNCHANGED <<status, plugin_killed>> => KilledIsKnown'
  BY DEF KilledIsKnown
<1>c. p = "wrapper" \/ p = "viewer"
  BY DEF Peer
<1>d. "BROKEN" \in DeadErrors /\ TRUE \in BOOLEAN /\ FALSE \in BOOLEAN
  BY DEF DeadErrors
<1>e. Healthy => /\ ViewerOrder(stack["viewer"])
                 /\ OneToken(stack["wrapper"], stack["viewer"], chan["wrapper"], chan["viewer"])
                 /\ OneRequest(stack["viewer"], chan["wrapper"], chan["viewer"],
                               pending_sync_depth)
  BY DEF GoodNow, Good
<1>f. ASSUME NEW s \in Seq(Frame), ViewerOrder(s), s # <<>>
      PROVE  Last(s).kind \notin {"dispatch_sync", "pending_sync"}
  <2>1. Last(s) = s[Len(s)] /\ Len(s) \in Nat /\ Len(s) > 0
    BY <1>f, FrontProps
  <2>2. Len(s) \in 1..Len(s)
    BY <2>1
  <2> QED
    BY <1>f, <2>1, <2>2 DEF ViewerOrder
<1>g. Healthy => Good(stack["wrapper"], stack["viewer"], chan["wrapper"], chan["viewer"],
                      pending_sync_depth)
  BY DEF GoodNow
<1>1. ASSUME NEW m \in Methods, Invoke(p, m)
      PROVE  KilledIsKnown' /\ (Healthy' => GoodNow')
  <2> SUFFICES ASSUME Healthy' PROVE GoodNow'
    BY <1>1, <1>b DEF Invoke
  <2>1. Healthy
    BY <1>1, <1>a DEF Invoke
  <2> DEFINE f == [kind |-> "invoke", method |-> m]
  <2>2. f \in Frame /\ f.kind = "invoke" /\ Call(m) \in Message /\ Call(m).tag = "START"
    BY CallTypes
  <2>3. stack'[p] = Append(stack[p], f) /\ stack'[Other(p)] = stack[Other(p)]
    BY <1>1, Effects DEF Invoke, Push
  <2>4. Running(p) /\ Send(p, Call(m)) /\ UNCHANGED pending_sync_depth
    BY <1>1 DEF Invoke
  <2> HIDE DEF f
  <2>5. CASE p = "wrapper"
    <3>1. WrapperRuns(stack["wrapper"])
      BY <2>1, <2>4, <2>5, RunningIsRuns
    <3>a. /\ stack'["wrapper"] = Append(stack["wrapper"], f)
          /\ stack'["viewer"] = stack["viewer"]
          /\ chan'["wrapper"] = chan["wrapper"]
          /\ chan'["viewer"] = Append(chan["viewer"], Call(m))
          /\ pending_sync_depth' = pending_sync_depth
      BY <2>3, <2>4, <2>5, PeerValues, Effects
    <3>b. Good(Append(stack["wrapper"], f), stack["viewer"], chan["wrapper"], Append(chan["viewer"], Call(m)),
                pending_sync_depth)
      BY <1>g, <2>1, <2>2, <3>1, PeerValues, WrapperInvokes
    <3> QED
      BY <3>a, <3>b DEF GoodNow
  <2>6. CASE p = "viewer"
    <3>1. ViewerRuns(stack["viewer"])
      BY <2>1, <2>4, <2>6, RunningIsRuns
    <3>a. /\ stack'["wrapper"] = stack["wrapper"]
          /\ stack'["viewer"] = Append(stack["viewer"], f)
          /\ chan'["wrapper"] = Append(chan["wrapper"], Call(m))
          /\ chan'["viewer"] = chan["viewer"]
          /\ pending_sync_depth' = pending_sync_depth
      BY <2>3, <2>4, <2>6, PeerValues, Effects
    <3>b. Good(stack["wrapper"], Append(stack["viewer"], f), Append(chan["wrapper"], Call(m)), chan["viewer"],
                pending_sync_depth)
      BY <1>g, <2>1, <2>2, <3>1, PeerValues, ViewerInvokes
    <3> QED
      BY <3>a, <3>b DEF GoodNow
  <2> QED
    BY <1>c, <2>5, <2>6
<1>2. CASE InvokeFails(p)
  BY <1>2, ErrorIsUnhealthy DEF InvokeFails
<1>3. CASE SendReply(p)
  <2> SUFFICES ASSUME Healthy' PROVE GoodNow'
    BY <1>3, <1>b DEF SendReply
  <2>1. Healthy
    BY <1>3, <1>a DEF SendReply
  <2> DEFINE msg == Reply(Last(stack[p]).method)
  <2>2. msg \in Message /\ msg.tag = "REPLY"
    BY <1>3, TopMethod, CallTypes DEF SendReply
  <2>3. stack'[p] = Front(stack[p]) /\ stack'[Other(p)] = stack[Other(p)]
    BY <1>3, Effects DEF SendReply, Pop
  <2>4. /\ Send(p, msg) /\ UNCHANGED pending_sync_depth
        /\ stack[p] # <<>> /\ Last(stack[p]).kind = "handle"
    BY <1>3 DEF SendReply
  <2>5. Last(stack[p]).kind \in Serving
    BY <2>4 DEF Serving
  <2> HIDE DEF msg
  <2>6. CASE p = "wrapper"
    <3>a. /\ stack'["wrapper"] = Front(stack["wrapper"])
          /\ stack'["viewer"] = stack["viewer"]
          /\ chan'["wrapper"] = chan["wrapper"]
          /\ chan'["viewer"] = Append(chan["viewer"], msg)
          /\ pending_sync_depth' = pending_sync_depth
      BY <2>3, <2>4, <2>6, PeerValues, Effects
    <3>b. Good(Front(stack["wrapper"]), stack["viewer"], chan["wrapper"], Append(chan["viewer"], msg),
                pending_sync_depth)
      BY <1>g, <2>1, <2>2, <2>4, <2>6, PeerValues, WrapperReplies
    <3> QED
      BY <3>a, <3>b DEF GoodNow
  <2>7. CASE p = "viewer"
    <3>a. /\ stack'["wrapper"] = stack["wrapper"]
          /\ stack'["viewer"] = Front(stack["viewer"])
          /\ chan'["wrapper"] = Append(chan["wrapper"], msg)
          /\ chan'["viewer"] = chan["viewer"]
          /\ pending_sync_depth' = pending_sync_depth
      BY <2>3, <2>4, <2>7, PeerValues, Effects
    <3>b. Good(stack["wrapper"], Front(stack["viewer"]), Append(chan["wrapper"], msg), chan["viewer"],
                pending_sync_depth)
      BY <1>g, <2>1, <2>2, <2>4, <2>5, <2>7, PeerValues, ViewerReturns
    <3> QED
      BY <3>a, <3>b DEF GoodNow
  <2> QED
    BY <1>c, <2>6, <2>7
<1>4. CASE SendReplyFails(p)
  <2>1. PICK e \in DeadErrors : Fail(p, Front(stack[p]), e, status[p] # "CLOSED")
    BY <1>4 DEF SendReplyFails
  <2>2. KilledIsKnown' /\ (Healthy' => UNCHANGED status /\ status[p] = "CLOSED")
    BY <2>1, FailIsUnhealthy
  <2> QED
    BY <2>2 DEF Healthy
<1>5. CASE HandlerFails(p)
  <2>1. PICK e \in DeadErrors : Fail(p, Front(stack[p]), e, FALSE)
    BY <1>5, <1>d DEF HandlerFails
  <2>2. KilledIsKnown'
    BY <2>1, <1>d, FailIsUnhealthy
  <2> SUFFICES ASSUME Healthy' PROVE GoodNow'
    BY <2>2
  <2>3. /\ Front(stack[p]) # <<>>
        /\ Last(Front(stack[p])).kind \in {"dispatch_sync", "pending_sync"}
        /\ stack' = [stack EXCEPT ![p] = Front(Front(stack[p]))]
        /\ UNCHANGED status
    BY <2>1, <1>d, FailIsUnhealthy
  <2>4. Healthy
    BY <1>5, <1>a, <2>3 DEF HandlerFails
  <2>5. /\ stack[p] # <<>> /\ Last(stack[p]).kind = "handle"
        /\ Send(p, Msg("FAILURE")) /\ UNCHANGED pending_sync_depth
    BY <1>5, <2>4, PeerOther DEF HandlerFails, Healthy
  <2>6. Msg("FAILURE") \in Message /\ Msg("FAILURE").tag = "FAILURE"
    BY MsgTypes DEF Tags
  <2>7. stack'[p] = Front(Front(stack[p])) /\ stack'[Other(p)] = stack[Other(p)]
    BY <2>3, Effects
  <2>8. CASE p = "wrapper"
    <3>a. /\ stack'["wrapper"] = Front(Front(stack["wrapper"]))
          /\ stack'["viewer"] = stack["viewer"]
          /\ chan'["wrapper"] = chan["wrapper"]
          /\ chan'["viewer"] = Append(chan["viewer"], Msg("FAILURE"))
          /\ pending_sync_depth' = pending_sync_depth
      BY <2>5, <2>7, <2>8, PeerValues, Effects
    <3>b. Good(Front(Front(stack["wrapper"])), stack["viewer"], chan["wrapper"], Append(chan["viewer"], Msg("FAILURE")),
                pending_sync_depth)
      BY <1>g, <2>4, <2>5, <2>6, <2>8, PeerValues, WrapperReplies
    <3> QED
      BY <3>a, <3>b DEF GoodNow
  <2>9. CASE p = "viewer"
    <3>1. ViewerOrder(Front(stack["viewer"])) /\ Front(stack["viewer"]) \in Seq(Frame)
      BY <1>e, <2>4, <2>5, <2>9, PeerValues, ViewerOrderFront, FrontProps
    <3> QED
      BY <1>f, <2>3, <2>9, <3>1
  <2> QED
    BY <1>c, <2>8, <2>9
<1>6. CASE DispatchCall(p)
  <2> SUFFICES ASSUME Healthy' PROVE GoodNow'
    BY <1>6, <1>b DEF DispatchCall
  <2>1. Healthy
    BY <1>6, <1>a DEF DispatchCall
  <2> DEFINE f == [kind |-> "handle", method |-> Head(chan[p]).method]
  <2>2. f \in Frame /\ f.kind = "handle"
    BY <1>6, TopMethod, CallTypes DEF DispatchCall, HeadIs
  <2>3. stack'[p] = Append(stack[p], f) /\ stack'[Other(p)] = stack[Other(p)]
    BY <1>6, Effects DEF DispatchCall, Push
  <2>4. /\ Receive(p) /\ UNCHANGED pending_sync_depth
        /\ chan[p] # <<>> /\ Head(chan[p]).tag \in Control
    BY <1>6 DEF DispatchCall, HeadIs, Control
  <2>5. p = "viewer" => (stack[p] # <<>> => Last(stack[p]).kind \in Waiting)
    BY <1>6 DEF DispatchCall, Reading, Blocked, Polling
  <2> HIDE DEF f
  <2>6. CASE p = "wrapper"
    <3>a. /\ stack'["wrapper"] = Append(stack["wrapper"], f)
          /\ stack'["viewer"] = stack["viewer"]
          /\ chan'["wrapper"] = Tail(chan["wrapper"])
          /\ chan'["viewer"] = chan["viewer"]
          /\ pending_sync_depth' = pending_sync_depth
      BY <2>3, <2>4, <2>6, PeerValues, Effects
    <3>b. Good(Append(stack["wrapper"], f), stack["viewer"], Tail(chan["wrapper"]), chan["viewer"],
                pending_sync_depth)
      BY <1>g, <2>1, <2>2, <2>4, <2>6, PeerValues, WrapperReadsControl
    <3> QED
      BY <3>a, <3>b DEF GoodNow
  <2>7. CASE p = "viewer"
    <3>a. /\ stack'["wrapper"] = stack["wrapper"]
          /\ stack'["viewer"] = Append(stack["viewer"], f)
          /\ chan'["wrapper"] = chan["wrapper"]
          /\ chan'["viewer"] = Tail(chan["viewer"])
          /\ pending_sync_depth' = pending_sync_depth
      BY <2>3, <2>4, <2>7, PeerValues, Effects
    <3>b. Good(stack["wrapper"], Append(stack["viewer"], f), chan["wrapper"], Tail(chan["viewer"]),
                pending_sync_depth)
      BY <1>g, <2>1, <2>2, <2>4, <2>5, <2>7, PeerValues, ViewerReadsControl
    <3> QED
      BY <3>a, <3>b DEF GoodNow
  <2> QED
    BY <1>c, <2>6, <2>7
<1>7. CASE DispatchTruncated(p)
  <2>1. PICK e \in DeadErrors : Fail(p, stack[p], e, status[p] # "CLOSED")
    BY <1>7 DEF DispatchTruncated
  <2>2. KilledIsKnown' /\ (Healthy' => UNCHANGED status /\ status[p] = "CLOSED")
    BY <2>1, FailIsUnhealthy
  <2> QED
    BY <2>2 DEF Healthy
<1>8. CASE ReceiveReply(p)
  <2> SUFFICES ASSUME Healthy' PROVE GoodNow'
    BY <1>8, <1>b DEF ReceiveReply
  <2>1. Healthy
    BY <1>8, <1>a DEF ReceiveReply
  <2>2. stack'[p] = Front(stack[p]) /\ stack'[Other(p)] = stack[Other(p)]
    BY <1>8, Effects DEF ReceiveReply, Pop
  <2>3. /\ Receive(p) /\ UNCHANGED pending_sync_depth
        /\ chan[p] # <<>> /\ Head(chan[p]).tag \in Control
        /\ stack[p] # <<>> /\ Last(stack[p]).kind \in Waiting
    BY <1>8 DEF ReceiveReply, HeadIs, Control, Blocked
  <2>4. Last(stack[p]).kind = "invoke"
    <3>1. Awaits[Last(stack[p]).kind] = "REPLY"
      BY <1>8 DEF ReceiveReply, AwaitedTag
    <3> QED
      BY <2>3, <3>1, WaitingKinds DEF Awaits
  <2>5. CASE p = "wrapper"
    <3>a. /\ stack'["wrapper"] = Front(stack["wrapper"])
          /\ stack'["viewer"] = stack["viewer"]
          /\ chan'["wrapper"] = Tail(chan["wrapper"])
          /\ chan'["viewer"] = chan["viewer"]
          /\ pending_sync_depth' = pending_sync_depth
      BY <2>2, <2>3, <2>5, PeerValues, Effects
    <3>b. Good(Front(stack["wrapper"]), stack["viewer"], Tail(chan["wrapper"]), chan["viewer"],
                pending_sync_depth)
      BY <1>g, <2>1, <2>3, <2>5, PeerValues, WrapperReadsControl
    <3> QED
      BY <3>a, <3>b DEF GoodNow
  <2>6. CASE p = "viewer"
    <3>a. /\ stack'["wrapper"] = stack["wrapper"]
          /\ stack'["viewer"] = Front(stack["viewer"])
          /\ chan'["wrapper"] = chan["wrapper"]
          /\ chan'["viewer"] = Tail(chan["viewer"])
          /\ pending_sync_depth' = pending_sync_depth
      BY <2>2, <2>3, <2>6, PeerValues, Effects
    <3>b. Good(stack["wrapper"], Front(stack["viewer"]), chan["wrapper"], Tail(chan["viewer"]),
                pending_sync_depth)
      BY <1>g, <2>1, <2>3, <2>4, <2>6, PeerValues, ViewerReadsControl
    <3> QED
      BY <3>a, <3>b DEF GoodNow
  <2> QED
    BY <1>c, <2>5, <2>6
<1>9. CASE ReceiveUnexpected(p)
  <2>1. Fail(p, stack[p], "BROKEN", FALSE)
    BY <1>9 DEF ReceiveUnexpected
  <2>2. KilledIsKnown'
    BY <2>1, <1>d, FailIsUnhealthy
  <2> SUFFICES ASSUME Healthy' PROVE GoodNow'
    BY <2>2
  <2>3. /\ stack[p] # <<>> /\ Last(stack[p]).kind \in {"dispatch_sync", "pending_sync"}
        /\ stack' = [stack EXCEPT ![p] = Front(stack[p])]
        /\ UNCHANGED status
    BY <2>1, <1>d, FailIsUnhealthy
  <2>4. Healthy
    BY <1>9, <1>a, <2>3 DEF ReceiveUnexpected
  <2>5. p = "wrapper"
    BY <1>c, <1>e, <1>f, <2>3, <2>4, PeerValues
  <2>6. stack'[p] = Front(stack[p]) /\ stack'[Other(p)] = stack[Other(p)]
    BY <2>3, Effects
  <2>7. /\ Receive(p) /\ UNCHANGED pending_sync_depth
        /\ chan[p] # <<>> /\ Head(chan[p]).tag \notin Acceptable(p)
    BY <1>9 DEF ReceiveUnexpected
  <2>8. Head(chan[p]).tag \in Control
    <3>1. Head(chan[p]).tag \in Tags
      BY <2>7, ReceiveTypes DEF Message
    <3>2. Blocked(p)
      BY <2>3, WaitingKinds DEF Blocked
    <3>3. Head(chan[p]).tag \notin {"START", "HEADER"}
          /\ (pending_sync_depth = 0 => Head(chan[p]).tag # "SYNC")
      BY <2>5, <2>7, <3>2 DEF Acceptable
    <3>4. None(chan["wrapper"], {"FAILURE"})
          /\ (~None(chan["wrapper"], {"SYNC"}) => pending_sync_depth = 0)
      BY <1>e, <2>4 DEF OneRequest
    <3>5. Head(chan[p]).tag # "FAILURE" /\ Head(chan[p]).tag # "SYNC"
      BY <2>5, <2>7, <3>3, <3>4, PeerValues, NoneTail
    <3> QED
      BY <3>1, <3>3, <3>5 DEF Tags, Control
  <2>a. /\ stack'["wrapper"] = Front(stack["wrapper"])
        /\ stack'["viewer"] = stack["viewer"]
        /\ chan'["wrapper"] = Tail(chan["wrapper"])
        /\ chan'["viewer"] = chan["viewer"]
        /\ pending_sync_depth' = pending_sync_depth
    BY <2>5, <2>6, <2>7, PeerValues, Effects
  <2>b. Good(Front(stack["wrapper"]), stack["viewer"], Tail(chan["wrapper"]), chan["viewer"],
              pending_sync_depth)
    BY <1>g, <2>4, <2>5, <2>7, <2>8, PeerValues, WrapperReadsControl
  <2> QED
    BY <2>a, <2>b DEF GoodNow
<1>10. CASE ReceiveEOF(p)
  <2>1. PICK e \in DeadErrors : Fail(p, stack[p], e, FALSE)
    BY <1>10 DEF ReceiveEOF
  <2>2. KilledIsKnown'
    BY <2>1, <1>d, FailIsUnhealthy
  <2>3. ~Healthy'
    BY <1>10, PeerOther DEF ReceiveEOF, Healthy
  <2> QED
    BY <2>2, <2>3
<1>11. CASE Timeout(p)
  BY <1>11 DEF Timeout
<1>12. CASE Crash(p)
  BY <1>12, DieIsUnhealthy DEF Crash
<1> QED
  BY <1>1, <1>2, <1>3, <1>4, <1>5, <1>6, <1>7, <1>8, <1>9, <1>10, <1>11, <1>12 DEF Step

LEMMA SyncTypes ==
    /\ Fr("dispatch_sync") \in Frame /\ Fr("dispatch_sync").kind = "dispatch_sync"
    /\ Fr("pending_sync") \in Frame /\ Fr("pending_sync").kind = "pending_sync"
    /\ Fr("rpc_sync") \in Frame /\ Fr("rpc_sync").kind = "rpc_sync"
    /\ Fr("main_loop") \in Frame /\ Fr("main_loop").kind = "main_loop"
    /\ Msg("SYNC") \in Message /\ Msg("SYNC").tag = "SYNC"
    /\ Msg("SYNC_ACK") \in Message /\ Msg("SYNC_ACK").tag = "SYNC_ACK"
    /\ Msg("SYNC_END") \in Message /\ Msg("SYNC_END").tag = "SYNC_END"
  BY FrTypes, MsgTypes DEF Tags, Waiting, Awaits, Serving

\* The handshake: the actions of Next that only one end has.
LEMMA ControlStepOfSync ==
    ASSUME TypeOK, KilledIsKnown, Healthy => GoodNow,
           \/ ReceiveSyncAck \/ ReceiveSyncEnd \/ DeferSync \/ DispatchSync
           \/ DispatchSyncFails \/ StartSync \/ EndSync \/ DispatchPendingSync
    PROVE  KilledIsKnown' /\ (Healthy' => GoodNow')
<1>a. UNCHANGED <<alive, status>> /\ Healthy' => Healthy
  BY DEF Healthy
<1>b. UNCHANGED <<status, plugin_killed>> => KilledIsKnown'
  BY DEF KilledIsKnown
<1>d. "BROKEN" \in DeadErrors /\ FALSE \in BOOLEAN
  BY DEF DeadErrors
<1>g. Healthy => Good(stack["wrapper"], stack["viewer"], chan["wrapper"], chan["viewer"],
                      pending_sync_depth)
  BY DEF GoodNow
<1>1. CASE ReceiveSyncAck
  <2> SUFFICES ASSUME Healthy' PROVE GoodNow'
    BY <1>1, <1>b DEF ReceiveSyncAck
  <2>1. Healthy
    BY <1>1, <1>a DEF ReceiveSyncAck
  <2>2. /\ Receive("viewer") /\ UNCHANGED pending_sync_depth
        /\ chan["viewer"] # <<>> /\ Head(chan["viewer"]).tag = "SYNC_ACK"
        /\ stack["viewer"] # <<>> /\ Last(stack["viewer"]).kind \in Waiting
        /\ Awaits[Last(stack["viewer"]).kind] = "SYNC_ACK"
    BY <1>1 DEF ReceiveSyncAck, HeadIs, Blocked, AwaitedTag
  <2>3. Last(stack["viewer"]).kind = "rpc_sync"
    BY <2>2, WaitingKinds DEF Awaits
  <2>4. /\ stack'["viewer"] = Append(Front(stack["viewer"]), Fr("main_loop"))
        /\ stack'["wrapper"] = stack["wrapper"]
    BY <1>1, PeerValues, Effects DEF ReceiveSyncAck
  <2>5. /\ chan'["viewer"] = Tail(chan["viewer"]) /\ chan'["wrapper"] = chan["wrapper"]
    BY <2>2, Effects
  <2>6. Head(chan["viewer"]).tag \in Control
    BY <2>2, ControlTags
  <2>7. Good(stack["wrapper"], Append(Front(stack["viewer"]), Fr("main_loop")),
             chan["wrapper"], Tail(chan["viewer"]), pending_sync_depth)
    BY <1>g, <2>1, <2>2, <2>3, <2>6, SyncTypes, PeerValues, ViewerReadsControl
  <2> QED
    BY <2>2, <2>4, <2>5, <2>7 DEF GoodNow
<1>2. CASE ReceiveSyncEnd
  <2> SUFFICES ASSUME Healthy' PROVE GoodNow'
    BY <1>2, <1>b DEF ReceiveSyncEnd
  <2>1. Healthy
    BY <1>2, <1>a DEF ReceiveSyncEnd
  <2>2. /\ Receive("wrapper") /\ UNCHANGED pending_sync_depth
        /\ chan["wrapper"] # <<>> /\ Head(chan["wrapper"]).tag \in Control
    BY <1>2 DEF ReceiveSyncEnd, HeadIs, Control
  <2>3. stack'["wrapper"] = Front(stack["wrapper"]) /\ stack'["viewer"] = stack["viewer"]
    BY <1>2, PeerValues, Effects DEF ReceiveSyncEnd, Pop
  <2>4. chan'["wrapper"] = Tail(chan["wrapper"]) /\ chan'["viewer"] = chan["viewer"]
    BY <2>2, Effects
  <2>5. Good(Front(stack["wrapper"]), stack["viewer"], Tail(chan["wrapper"]),
             chan["viewer"], pending_sync_depth)
    BY <1>g, <2>1, <2>2, PeerValues, WrapperReadsControl
  <2> QED
    BY <2>2, <2>3, <2>4, <2>5 DEF GoodNow
<1>3. CASE DeferSync
  <2> SUFFICES ASSUME Healthy' PROVE GoodNow'
    BY <1>3, <1>b DEF DeferSync
  <2>1. Healthy
    BY <1>3, <1>a DEF DeferSync
  <2>2. /\ Receive("wrapper") /\ pending_sync_depth' = invoke_depth["wrapper"]
        /\ chan["wrapper"] # <<>> /\ Head(chan["wrapper"]).tag = "SYNC"
        /\ stack'["wrapper"] = stack["wrapper"] /\ stack'["viewer"] = stack["viewer"]
    BY <1>3 DEF DeferSync, HeadIs
  <2>3. chan'["wrapper"] = Tail(chan["wrapper"]) /\ chan'["viewer"] = chan["viewer"]
    BY <2>2, Effects
  <2>4. invoke_depth["wrapper"] \in Int
    BY PeerValues DEF TypeOK
  <2>5. Good(stack["wrapper"], stack["viewer"], Tail(chan["wrapper"]),
             chan["viewer"], invoke_depth["wrapper"])
    BY <1>g, <2>1, <2>2, <2>4, PeerValues, WrapperDefers
  <2> QED
    BY <2>2, <2>3, <2>5 DEF GoodNow
<1>4. CASE DispatchSync
  <2> SUFFICES ASSUME Healthy' PROVE GoodNow'
    BY <1>4, <1>b DEF DispatchSync
  <2>1. Healthy
    BY <1>4, <1>a DEF DispatchSync
  <2>2. /\ Exchange("wrapper", Msg("SYNC_ACK")) /\ UNCHANGED pending_sync_depth
        /\ chan["wrapper"] # <<>> /\ Head(chan["wrapper"]).tag = "SYNC"
        /\ Running("wrapper")
    BY <1>4 DEF DispatchSync, HeadIs, Polling
  <2>3. WrapperRuns(stack["wrapper"])
    BY <2>1, <2>2, RunningIsRuns
  <2>4. /\ stack'["wrapper"] = Append(stack["wrapper"], Fr("dispatch_sync"))
        /\ stack'["viewer"] = stack["viewer"]
    BY <1>4, PeerValues, Effects DEF DispatchSync, Push
  <2>5. /\ chan'["wrapper"] = Tail(chan["wrapper"])
        /\ chan'["viewer"] = Append(chan["viewer"], Msg("SYNC_ACK"))
    BY <2>2, Effects
  <2>6. Good(Append(stack["wrapper"], Fr("dispatch_sync")), stack["viewer"],
             Tail(chan["wrapper"]), Append(chan["viewer"], Msg("SYNC_ACK")),
             pending_sync_depth)
    BY <1>g, <2>1, <2>2, <2>3, SyncTypes, PeerValues, WrapperAnswers
  <2> QED
    BY <2>2, <2>4, <2>5, <2>6 DEF GoodNow
<1>5. CASE DispatchSyncFails
  <2>1. ~Healthy'
    BY <1>5, PeerValues DEF DispatchSyncFails, Healthy
  <2>2. KilledIsKnown'
    BY <1>5, <1>d, PeerValues, FailIsUnhealthy DEF DispatchSyncFails
  <2> QED
    BY <2>1, <2>2
<1>6. CASE StartSync
  <2>1. CASE alive["wrapper"]
    <3>1. /\ Send("viewer", Msg("SYNC")) /\ Push("viewer", Fr("rpc_sync"))
          /\ UNCHANGED <<alive, status, plugin_killed, pending_sync_depth>>
          /\ stack["viewer"] = <<>>
      BY <1>6, <2>1, PeerValues DEF StartSync
    <3> SUFFICES ASSUME Healthy' PROVE GoodNow'
      BY <1>b, <3>1
    <3>2. Healthy
      BY <1>a, <3>1
    <3>3. /\ stack'["viewer"] = Append(stack["viewer"], Fr("rpc_sync"))
          /\ stack'["wrapper"] = stack["wrapper"]
      BY <3>1, PeerValues, Effects DEF Push
    <3>4. /\ chan'["wrapper"] = Append(chan["wrapper"], Msg("SYNC"))
          /\ chan'["viewer"] = chan["viewer"]
      BY <3>1, Effects
    <3>5. Good(stack["wrapper"], Append(stack["viewer"], Fr("rpc_sync")),
               Append(chan["wrapper"], Msg("SYNC")), chan["viewer"], pending_sync_depth)
      BY <1>g, <3>1, <3>2, SyncTypes, PeerValues, ViewerAsksForTurn
    <3> QED
      BY <3>1, <3>3, <3>4, <3>5 DEF GoodNow
  <2>2. CASE ~alive["wrapper"]
    <3>1. ~Healthy'
      BY <1>6, <2>2, PeerValues DEF StartSync, Healthy
    <3>2. PICK e \in DeadErrors : Fail("viewer", <<Fr("rpc_sync")>>, e, FALSE)
      BY <1>6, <2>2, PeerValues DEF StartSync
    <3>3. KilledIsKnown'
      BY <3>2, <1>d, PeerValues, FailIsUnhealthy
    <3> QED
      BY <3>1, <3>3
  <2> QED
    BY <2>1, <2>2
<1>7. CASE EndSync
  <2>1. CASE \E e \in DeadErrors : RpcError("viewer", e)
    BY <2>1, PeerValues, ErrorIsUnhealthy
  <2>2. CASE /\ Send("viewer", Msg("SYNC_END"))
             /\ UNCHANGED <<status, plugin_killed>>
    <3> SUFFICES ASSUME Healthy' PROVE GoodNow'
      BY <1>b, <2>2
    <3>1. Healthy
      BY <1>7, <1>a, <2>2 DEF EndSync
    <3>2. /\ stack["viewer"] # <<>> /\ Last(stack["viewer"]).kind \in Serving
          /\ Pop("viewer") /\ UNCHANGED pending_sync_depth
      BY <1>7 DEF EndSync, Serving
    <3>3. /\ stack'["viewer"] = Front(stack["viewer"]) /\ stack'["wrapper"] = stack["wrapper"]
      BY <3>2, PeerValues, Effects DEF Pop
    <3>4. /\ chan'["wrapper"] = Append(chan["wrapper"], Msg("SYNC_END"))
          /\ chan'["viewer"] = chan["viewer"]
      BY <2>2, Effects
    <3>5. Good(stack["wrapper"], Front(stack["viewer"]),
               Append(chan["wrapper"], Msg("SYNC_END")), chan["viewer"], pending_sync_depth)
      BY <1>g, <3>1, <3>2, SyncTypes, PeerValues, ViewerReturns
    <3> QED
      BY <3>2, <3>3, <3>4, <3>5 DEF GoodNow
  <2> QED
    BY <1>7, <2>1, <2>2 DEF EndSync
<1>8. CASE DispatchPendingSync
  <2> SUFFICES ASSUME Healthy' PROVE GoodNow'
    BY <1>8, <1>b DEF DispatchPendingSync
  <2>1. Healthy
    BY <1>8, <1>a DEF DispatchPendingSync
  <2>2. /\ Send("wrapper", Msg("SYNC_ACK")) /\ Push("wrapper", Fr("pending_sync"))
        /\ pending_sync_depth # 0 /\ pending_sync_depth' = 0
        /\ chan["wrapper"] = <<>> /\ Running("wrapper")
    BY <1>8 DEF DispatchPendingSync, HasPendingSync, PendingSyncAssert,
                rpc_has_pending_sync, rpc_wait_dispatch
  <2>3. WrapperRuns(stack["wrapper"])
    BY <2>1, <2>2, RunningIsRuns
  <2>4. /\ stack'["wrapper"] = Append(stack["wrapper"], Fr("pending_sync"))
        /\ stack'["viewer"] = stack["viewer"]
    BY <2>2, PeerValues, Effects DEF Push
  <2>5. /\ chan'["wrapper"] = chan["wrapper"]
        /\ chan'["viewer"] = Append(chan["viewer"], Msg("SYNC_ACK"))
    BY <2>2, Effects
  <2>6. Good(Append(stack["wrapper"], Fr("pending_sync")), stack["viewer"],
             chan["wrapper"], Append(chan["viewer"], Msg("SYNC_ACK")), 0)
    BY <1>g, <2>1, <2>2, <2>3, SyncTypes, PeerValues, WrapperAnswers
  <2> QED
    BY <2>2, <2>4, <2>5, <2>6 DEF GoodNow
<1> QED
  BY <1>1, <1>2, <1>3, <1>4, <1>5, <1>6, <1>7, <1>8

LEMMA ControlStep ==
    ASSUME TypeOK, ControlInvariant, [Next]_vars, "timeout" \notin Faults
    PROVE  ControlInvariant'
<1>1. KilledIsKnown /\ (Healthy => GoodNow)
  BY ControlInvariantParts
<1> SUFFICES KilledIsKnown' /\ (Healthy' => GoodNow')
  BY ControlInvariantParts DEF ControlInvariant, KilledIsKnown, GoodNow, Good
<1>2. ASSUME NEW p \in Peer, Step(p) PROVE KilledIsKnown' /\ (Healthy' => GoodNow')
  BY <1>1, <1>2, ControlStepOfPeer
<1>3. CASE \/ ReceiveSyncAck \/ ReceiveSyncEnd \/ DeferSync \/ DispatchSync
           \/ DispatchSyncFails \/ StartSync \/ EndSync \/ DispatchPendingSync
  BY <1>1, <1>3, ControlStepOfSync
<1>4. CASE PendingSyncAbort \/ ViewerExit \/ ViewerKilled
  BY <1>1, <1>4, PeerValues, DieIsUnhealthy DEF PendingSyncAbort, ViewerExit, ViewerKilled
<1>5. CASE Terminated \/ UNCHANGED vars
  <2>1. UNCHANGED vars
    BY <1>5 DEF Terminated
  <2> QED
    BY <1>1, <2>1 DEF vars, KilledIsKnown, Healthy, GoodNow
<1> QED
  BY <1>2, <1>3, <1>4, <1>5 DEF Next

\* Control of the plugin's thread is never duplicated: whatever nesting of calls
\* and turns the two ends reach, and whichever of them dies or whose callback
\* fails, an error-free connection has one token.  A message timeout is the one
\* fault excluded: it makes the wrapper run while the viewer does.
THEOREM ControlIsOne ==
    ASSUME "timeout" \notin Faults
    PROVE  Spec => []ControlInvariant
<1>1. Init => ControlInvariant
  BY ControlInit
<1>2. TypeOK /\ ControlInvariant /\ [Next]_vars => ControlInvariant'
  BY ControlStep
<1> QED
  BY <1>1, <1>2, TypeCorrect, PTL DEF Spec

\* What the comment in rpc_sync promises, for connections of any depth and any
\* set of methods: the wrapper and the viewer do not run at the same time.
THEOREM WrapperAndViewerTakeTurns ==
    ASSUME "timeout" \notin Faults
    PROVE  Spec => []MutualExclusion
<1>1. TypeOK /\ ControlInvariant => MutualExclusion
  BY ControlInvariantParts, RunningIsRuns DEF MutualExclusion, GoodNow, Good, OneToken
<1> QED
  BY <1>1, TypeCorrect, ControlIsOne, PTL

-----------------------------------------------------------------------------
(***************************************************************************)
(* The viewer's turn.  Sync mode belongs to the frame of the event loop at *)
(* the bottom of its stack, and ends with it or with the main loop, after  *)
(* every kind of error.                                                    *)
(***************************************************************************)
LoopFrames == {"rpc_sync", "main_loop"}
LoopAtBottom(vs) == \A i \in 1..Len(vs) : vs[i].kind \in LoopFrames => i = 1
InMainLoop(vs) == Len(vs) > 0 /\ vs[1].kind = "main_loop"

TurnInvariant ==
    /\ LoopAtBottom(stack["viewer"])
    /\ alive["viewer"] /\ g_is_running /\ is_sync => InMainLoop(stack["viewer"])

\* What a step may do to the viewer's stack without ending its turn.
KeepsTurn(s, t) ==
    LoopAtBottom(s) => LoopAtBottom(t) /\ (InMainLoop(s) => InMainLoop(t))

LEMMA PushKeepsTurn ==
    ASSUME NEW s \in Seq(Frame), NEW f \in Frame, f.kind \notin LoopFrames
    PROVE  KeepsTurn(s, Append(s, f))
<1>1. /\ Len(Append(s, f)) = Len(s) + 1 /\ Append(s, f)[Len(s) + 1] = f
      /\ \A i \in 1..Len(s) : Append(s, f)[i] = s[i]
  BY AppendProps
<1>2. Len(s) \in Nat
  OBVIOUS
<1>3. ASSUME NEW i \in 1..(Len(s) + 1) PROVE i \in 1..Len(s) \/ i = Len(s) + 1
  BY <1>2
<1> QED
  BY <1>1, <1>2, <1>3 DEF KeepsTurn, LoopAtBottom, InMainLoop

LEMMA PopKeepsTurn ==
    ASSUME NEW s \in Seq(Frame), s # <<>>
    PROVE  /\ LoopAtBottom(s) => LoopAtBottom(Front(s))
           /\ Last(s).kind # "main_loop" => KeepsTurn(s, Front(s))
           /\ Last(s).kind = "rpc_sync" => KeepsTurn(s, Append(Front(s), Fr("main_loop")))
<1> DEFINE t == Front(s)
           u == Append(t, Fr("main_loop"))
<1>1. /\ t \in Seq(Frame) /\ Len(t) = Len(s) - 1 /\ Len(s) \in Nat /\ Len(s) > 0
      /\ \A i \in 1..Len(t) : t[i] = s[i]
      /\ Last(s) = s[Len(s)]
  BY FrontProps
<1>2. Len(t) \in Nat /\ Len(s) \in 1..Len(s) /\ 1..Len(t) \subseteq 1..Len(s)
  BY <1>1
<1> HIDE DEF t
<1>3. LoopAtBottom(s) => LoopAtBottom(t)
  BY <1>1, <1>2 DEF LoopAtBottom
<1>4. Last(s).kind # "main_loop" => KeepsTurn(s, t)
  BY <1>1, <1>2, <1>3 DEF KeepsTurn, InMainLoop
<1>5. ASSUME Last(s).kind = "rpc_sync", LoopAtBottom(s)
      PROVE  LoopAtBottom(u) /\ InMainLoop(u)
  <2>1. Len(s) = 1 /\ Len(t) = 0
    BY <1>1, <1>2, <1>5 DEF LoopAtBottom, LoopFrames
  <2>2. Fr("main_loop") \in Frame /\ Fr("main_loop").kind = "main_loop"
    BY FrTypes DEF Serving
  <2>3. Len(u) = Len(t) + 1 /\ u[Len(t) + 1] = Fr("main_loop")
    BY <1>1, <2>2, AppendProps
  <2> HIDE DEF u
  <2>4. Len(u) = 1 /\ u[1].kind = "main_loop"
    BY <2>1, <2>2, <2>3
  <2> QED
    BY <2>4 DEF LoopAtBottom, InMainLoop
<1> QED
  BY <1>3, <1>4, <1>5 DEF KeepsTurn, t

LEMMA FailKeepsTurn ==
    ASSUME TypeOK, NEW s \in Seq(Frame), NEW e, NEW raised, Fail("viewer", s, e, raised)
    PROVE  /\ KeepsTurn(s, stack'["viewer"])
           /\ stack'["wrapper"] = stack["wrapper"]
           /\ g_is_running' => g_is_running
<1> DEFINE kind == IF s = <<>> THEN "handle" ELSE Last(s).kind
           new == IF kind = "rpc_sync" THEN Append(Front(s), Fr("main_loop"))
                  ELSE IF kind \in Waiting THEN Front(s) ELSE s
<1>1. stack' = [stack EXCEPT !["viewer"] = new]
  BY DEF Fail
<1>2. stack'["viewer"] = new /\ stack'["wrapper"] = stack["wrapper"]
  <2> HIDE DEF new
  <2> QED
    BY <1>1 DEF TypeOK, Peer
<1>3. KeepsTurn(s, new)
  <2>1. CASE s = <<>>
    <3>1. new = s
      BY <2>1, WaitingKinds
    <3> QED
      BY <3>1 DEF KeepsTurn
  <2>2. CASE s # <<>>
    <3>1. KeepsTurn(s, s) /\ (kind \in Waiting => kind # "main_loop") /\ kind = Last(s).kind
      BY <2>2, WaitingKinds DEF KeepsTurn
    <3> QED
      BY <2>2, <3>1, PopKeepsTurn
  <2> QED
    BY <2>1, <2>2
<1>4. g_is_running' => g_is_running
  <2>1. RpcError("viewer", e) \/ UNCHANGED g_is_running
    BY DEF Fail
  <2> QED
    BY <2>1 DEF RpcError, TypeOK
<1> HIDE DEF new
<1> QED
  BY <1>2, <1>3, <1>4

LEMMA FailOfWrapper ==
    ASSUME TypeOK, NEW s, NEW e, NEW raised, Fail("wrapper", s, e, raised)
    PROVE  stack'["viewer"] = stack["viewer"] /\ (g_is_running' => g_is_running)
<1> DEFINE kind == IF s = <<>> THEN "handle" ELSE Last(s).kind
           new == IF kind = "rpc_sync" THEN Append(Front(s), Fr("main_loop"))
                  ELSE IF kind \in Waiting THEN Front(s) ELSE s
<1>1. stack' = [stack EXCEPT !["wrapper"] = new]
  BY DEF Fail
<1> HIDE DEF new
<1>2. stack'["viewer"] = stack["viewer"]
  BY <1>1, Effects, PeerValues
<1>3. g_is_running' => g_is_running
  BY DEF Fail, RpcError, TypeOK
<1> QED
  BY <1>2, <1>3

\* A step that neither enters nor leaves sync mode.
TurnGoesOn ==
    /\ KeepsTurn(stack["viewer"], stack'["viewer"])
    /\ alive'["viewer"] => alive["viewer"]
    /\ g_is_running' => g_is_running
    /\ is_sync' = is_sync

LEMMA TurnStays == ASSUME TypeOK, TurnInvariant, TurnGoesOn PROVE TurnInvariant'
  BY DEF TurnInvariant, TurnGoesOn, KeepsTurn, TypeOK

LEMMA TurnEndsByDeath ==
    ASSUME TypeOK, TurnInvariant, NEW p \in Peer, NEW unsent, Die(p, unsent)
    PROVE  TurnInvariant'
<1>1. /\ alive' = [alive EXCEPT ![p] = FALSE] /\ stack' = [stack EXCEPT ![p] = <<>>]
      /\ is_sync' = is_sync /\ g_is_running' = g_is_running
  BY DEF Die
<1>2. CASE p = "viewer"
  <2>1. stack'["viewer"] = <<>> /\ ~alive'["viewer"]
    BY <1>1, <1>2, Effects DEF TypeOK
  <2> QED
    BY <2>1 DEF TurnInvariant, LoopAtBottom
<1>3. CASE p = "wrapper"
  <2>1. stack'["viewer"] = stack["viewer"] /\ alive'["viewer"] = alive["viewer"]
    BY <1>1, <1>3, Effects, PeerValues DEF TypeOK, Peer
  <2> QED
    BY <1>1, <2>1 DEF TurnInvariant
<1> QED
  BY <1>2, <1>3, PeerValues

LEMMA TurnStepOfPeer ==
    ASSUME TypeOK, TurnInvariant, NEW p \in Peer, Step(p)
    PROVE  TurnInvariant'
<1>0. /\ LoopAtBottom(stack["viewer"]) /\ stack["viewer"] \in Seq(Frame)
      /\ alive["viewer"] \in BOOLEAN
      /\ p = "viewer" \/ p = "wrapper"
  BY PeerValues DEF TurnInvariant, TypeOK
<1>a. KeepsTurn(stack["viewer"], stack["viewer"])
  BY DEF KeepsTurn
<1>b. ASSUME UNCHANGED <<alive, is_sync>>, g_is_running' => g_is_running,
             stack'["viewer"] = stack["viewer"]
      PROVE  TurnInvariant'
  BY <1>a, <1>b, TurnStays DEF TurnGoesOn
<1>c. ASSUME UNCHANGED <<alive, is_sync, g_is_running>>, NEW f \in Frame, Push(p, f),
             f.kind \notin LoopFrames
      PROVE  TurnInvariant'
  <2>1. CASE p = "wrapper"
    BY <1>b, <1>c, <2>1, Effects, PeerValues DEF Push
  <2>2. CASE p = "viewer"
    <3>1. stack'["viewer"] = Append(stack["viewer"], f)
      BY <1>c, <2>2, Effects, PeerValues DEF Push
    <3>2. KeepsTurn(stack["viewer"], Append(stack["viewer"], f))
      BY <1>0, <1>c, PushKeepsTurn
    <3> QED
      BY <1>c, <3>1, <3>2, TurnStays DEF TurnGoesOn
  <2> QED
    BY <1>0, <2>1, <2>2
<1>d. ASSUME UNCHANGED <<alive, is_sync, g_is_running>>, Pop(p), stack[p] # <<>>,
             Last(stack[p]).kind # "main_loop"
      PROVE  TurnInvariant'
  <2>1. CASE p = "wrapper"
    BY <1>b, <1>d, <2>1, Effects, PeerValues DEF Pop
  <2>2. CASE p = "viewer"
    <3>1. stack'["viewer"] = Front(stack["viewer"])
      BY <1>d, <2>2, Effects, PeerValues DEF Pop
    <3>2. KeepsTurn(stack["viewer"], Front(stack["viewer"]))
      BY <1>0, <1>d, <2>2, PopKeepsTurn
    <3> QED
      BY <1>d, <3>1, <3>2, TurnStays DEF TurnGoesOn
  <2> QED
    BY <1>0, <2>1, <2>2
\* s is what the error finds: the stack, or the stack without a callback.
<1>e. ASSUME UNCHANGED <<alive, is_sync>>, NEW s, NEW e, NEW raised, Fail(p, s, e, raised),
             \/ s = stack[p]
             \/ /\ stack[p] # <<>> /\ Last(stack[p]).kind = "handle"
                /\ s = Front(stack[p])
      PROVE  TurnInvariant'
  <2>1. CASE p = "wrapper"
    <3>1. stack'["viewer"] = stack["viewer"] /\ (g_is_running' => g_is_running)
      BY <1>e, <2>1, FailOfWrapper
    <3> QED
      BY <1>b, <1>e, <3>1
  <2>2. CASE p = "viewer"
    <3>1. s \in Seq(Frame) /\ KeepsTurn(stack["viewer"], s)
      BY <1>0, <1>a, <1>e, <2>2, PopKeepsTurn, FrontProps
    <3>2. KeepsTurn(s, stack'["viewer"]) /\ (g_is_running' => g_is_running)
      BY <1>e, <2>2, <3>1, FailKeepsTurn
    <3>3. KeepsTurn(stack["viewer"], stack'["viewer"])
      BY <3>1, <3>2 DEF KeepsTurn
    <3> QED
      BY <1>e, <3>2, <3>3, TurnStays DEF TurnGoesOn
  <2> QED
    BY <1>0, <2>1, <2>2
<1>1. ASSUME NEW m \in Methods, Invoke(p, m) PROVE TurnInvariant'
  <2> DEFINE f == [kind |-> "invoke", method |-> m]
  <2>1. f \in Frame /\ f.kind \notin LoopFrames
    BY CallTypes DEF LoopFrames
  <2>2. UNCHANGED <<alive, is_sync, g_is_running>> /\ Push(p, f)
    BY <1>1 DEF Invoke
  <2> HIDE DEF f
  <2> QED
    BY <1>c, <2>1, <2>2
<1>2. CASE InvokeFails(p)
  <2>1. UNCHANGED <<alive, stack, is_sync>> /\ (g_is_running' => g_is_running)
    BY <1>2 DEF InvokeFails, RpcError, TypeOK
  <2> QED
    BY <1>b, <2>1
<1>3. CASE SendReply(p)
  <2>1. /\ UNCHANGED <<alive, is_sync, g_is_running>> /\ Pop(p) /\ stack[p] # <<>>
        /\ Last(stack[p]).kind # "main_loop"
    BY <1>3 DEF SendReply
  <2> QED
    BY <1>d, <2>1
<1>4. CASE SendReplyFails(p)
  <2>1. /\ UNCHANGED <<alive, is_sync>> /\ stack[p] # <<>> /\ Last(stack[p]).kind = "handle"
        /\ \E e \in DeadErrors : Fail(p, Front(stack[p]), e, status[p] # "CLOSED")
    BY <1>4 DEF SendReplyFails
  <2> QED
    BY <1>e, <2>1
<1>5. CASE HandlerFails(p)
  <2>1. /\ UNCHANGED <<alive, is_sync>> /\ stack[p] # <<>> /\ Last(stack[p]).kind = "handle"
        /\ \E e \in DeadErrors : Fail(p, Front(stack[p]), e, FALSE)
    BY <1>5 DEF HandlerFails, DeadErrors
  <2> QED
    BY <1>e, <2>1
<1>6. CASE DispatchCall(p)
  <2> DEFINE f == [kind |-> "handle", method |-> Head(chan[p]).method]
  <2>1. UNCHANGED <<alive, is_sync, g_is_running>> /\ Push(p, f) /\ chan[p] # <<>>
    BY <1>6 DEF DispatchCall, HeadIs
  <2>2. Head(chan[p]).method \in Methods \cup {NoMethod}
    BY <2>1, ReceiveTypes DEF Message
  <2>3. f \in Frame /\ f.kind \notin LoopFrames
    BY <2>2, CallTypes DEF LoopFrames
  <2> HIDE DEF f
  <2> QED
    BY <1>c, <2>1, <2>3
<1>7. CASE DispatchTruncated(p)
  <2>1. /\ UNCHANGED <<alive, is_sync>>
        /\ \E e \in DeadErrors : Fail(p, stack[p], e, status[p] # "CLOSED")
    BY <1>7 DEF DispatchTruncated
  <2> QED
    BY <1>e, <2>1
<1>8. CASE ReceiveReply(p)
  <2>1. /\ UNCHANGED <<alive, is_sync, g_is_running>> /\ Pop(p) /\ stack[p] # <<>>
        /\ Last(stack[p]).kind # "main_loop"
    BY <1>8, WaitingKinds DEF ReceiveReply, Blocked
  <2> QED
    BY <1>d, <2>1
<1>9. CASE ReceiveUnexpected(p) \/ ReceiveEOF(p) \/ Timeout(p)
  <2>1. UNCHANGED <<alive, is_sync>> /\ \E e \in DeadErrors : Fail(p, stack[p], e, FALSE)
    BY <1>9 DEF ReceiveUnexpected, ReceiveEOF, Timeout, DeadErrors
  <2> QED
    BY <1>e, <2>1
<1>10. CASE Crash(p)
  BY <1>10, TurnEndsByDeath DEF Crash
<1> QED
  BY <1>1, <1>2, <1>3, <1>4, <1>5, <1>6, <1>7, <1>8, <1>9, <1>10 DEF Step

LEMMA TurnStep == TypeOK /\ TurnInvariant /\ [Next]_vars => TurnInvariant'
<1> SUFFICES ASSUME TypeOK, TurnInvariant, [Next]_vars PROVE TurnInvariant'
  OBVIOUS
<1> DEFINE vs == stack["viewer"]
<1>0. LoopAtBottom(vs) /\ vs \in Seq(Frame) /\ "viewer" \in Peer /\ "wrapper" \in Peer
  BY PeerValues DEF TurnInvariant
<1>a. KeepsTurn(vs, vs)
  BY DEF KeepsTurn
<1>b. ASSUME UNCHANGED <<alive, is_sync>>, g_is_running' => g_is_running, stack'["viewer"] = vs
      PROVE  TurnInvariant'
  BY <1>a, <1>b, TurnStays DEF TurnGoesOn
<1>1. ASSUME NEW p \in Peer, Step(p) PROVE TurnInvariant'
  BY <1>1, TurnStepOfPeer
<1>2. CASE ReceiveSyncAck
  <2>1. /\ vs # <<>> /\ Last(vs).kind = "rpc_sync"
    BY <1>2, WaitingKinds DEF ReceiveSyncAck, Blocked, AwaitedTag, Awaits
  <2>2. /\ stack' = [stack EXCEPT !["viewer"] = Append(Front(@), Fr("main_loop"))]
        /\ UNCHANGED <<alive, g_is_running>>
    BY <1>2 DEF ReceiveSyncAck
  <2>3. stack'["viewer"] = Append(Front(vs), Fr("main_loop"))
    BY <1>0, <2>2 DEF TypeOK
  <2>4. LoopAtBottom(stack'["viewer"])
    BY <1>0, <2>1, <2>3, PopKeepsTurn DEF KeepsTurn
  <2>5. InMainLoop(stack'["viewer"])
    <3>1. Len(vs) = 1
      <4>1. Last(vs) = vs[Len(vs)] /\ Len(vs) \in Nat /\ Len(vs) > 0
        BY <1>0, <2>1, FrontProps
      <4>2. Len(vs) \in 1..Len(vs) /\ vs[Len(vs)].kind = "rpc_sync"
        BY <2>1, <4>1
      <4> HIDE DEF vs
      <4> QED
        BY <1>0, <4>1, <4>2 DEF LoopAtBottom, LoopFrames
    <3>2. Front(vs) \in Seq(Frame) /\ Len(Front(vs)) = 0
      BY <1>0, <2>1, <3>1, FrontProps
    <3>3. Fr("main_loop") \in Frame /\ Fr("main_loop").kind = "main_loop"
      BY FrTypes DEF Serving
    <3> DEFINE u == Append(Front(vs), Fr("main_loop"))
    <3>4. Len(u) = Len(Front(vs)) + 1 /\ u[Len(Front(vs)) + 1] = Fr("main_loop")
      BY <3>2, <3>3, AppendProps
    <3> HIDE DEF u
    <3>5. Len(u) = 1 /\ u[1].kind = "main_loop"
      BY <3>2, <3>3, <3>4
    <3> QED
      BY <2>3, <3>5 DEF InMainLoop, u
  <2> QED
    BY <2>4, <2>5 DEF TurnInvariant
<1>3. CASE ReceiveSyncEnd
  BY <1>b, <1>3, Effects, PeerValues DEF ReceiveSyncEnd, Pop
<1>4. CASE DeferSync
  BY <1>b, <1>4 DEF DeferSync
<1>5. CASE DispatchSync
  BY <1>b, <1>5, Effects, PeerValues DEF DispatchSync, Push
<1>6. CASE DispatchSyncFails
  <2>1. /\ UNCHANGED <<alive, is_sync>>
        /\ \E s, e : Fail("wrapper", s, e, FALSE)
    BY <1>6 DEF DispatchSyncFails
  <2>2. stack'["viewer"] = vs /\ (g_is_running' => g_is_running)
    BY <2>1, FailOfWrapper
  <2> QED
    BY <1>b, <2>1, <2>2
<1>7. CASE StartSync
  <2>1. vs = <<>> /\ UNCHANGED <<alive, is_sync>>
    BY <1>7 DEF StartSync
  <2>2. <<Fr("rpc_sync")>> \in Seq(Frame) /\ LoopAtBottom(<<Fr("rpc_sync")>>)
    <3>1. Fr("rpc_sync") \in Frame
      BY FrTypes, WaitingKinds
    <3> QED
      BY <3>1 DEF LoopAtBottom
  <2>3. KeepsTurn(<<>>, <<Fr("rpc_sync")>>)
    BY <2>2 DEF KeepsTurn, InMainLoop
  <2>4. CASE Push("viewer", Fr("rpc_sync")) /\ UNCHANGED g_is_running
    <3>1. stack'["viewer"] = <<Fr("rpc_sync")>>
      <4>1. stack'["viewer"] = Append(vs, Fr("rpc_sync"))
        BY <2>4 DEF Push, TypeOK, Peer
      <4>2. Append(<<>>, Fr("rpc_sync")) = <<Fr("rpc_sync")>>
        OBVIOUS
      <4> QED
        BY <2>1, <4>1, <4>2
    <3> QED
      BY <2>1, <2>3, <2>4, <3>1, TurnStays DEF TurnGoesOn
  <2>5. ASSUME NEW e, Fail("viewer", <<Fr("rpc_sync")>>, e, FALSE) PROVE TurnInvariant'
    <3>1. /\ KeepsTurn(<<Fr("rpc_sync")>>, stack'["viewer"])
          /\ g_is_running' => g_is_running
      BY <2>2, <2>5, FailKeepsTurn
    <3>2. KeepsTurn(<<>>, stack'["viewer"])
      BY <2>3, <3>1 DEF KeepsTurn
    <3> QED
      BY <2>1, <3>1, <3>2, TurnStays DEF TurnGoesOn
  <2> QED
    BY <1>7, <2>4, <2>5 DEF StartSync
<1>8. CASE EndSync
  <2>1. /\ vs # <<>> /\ Pop("viewer") /\ UNCHANGED alive
        /\ is_sync' = FALSE \/ ~is_sync' \/ (\E e \in DeadErrors : RpcError("viewer", e))
    BY <1>8 DEF EndSync
  <2>2. stack'["viewer"] = Front(vs)
    BY <1>0, <2>1, Effects DEF Pop
  <2>3. LoopAtBottom(stack'["viewer"])
    BY <1>0, <2>1, <2>2, PopKeepsTurn
  <2>4. ~is_sync' \/ ~g_is_running'
    BY <2>1 DEF RpcError
  <2> QED
    BY <2>3, <2>4 DEF TurnInvariant
<1>9. CASE DispatchPendingSync
  BY <1>b, <1>9, Effects, PeerValues DEF DispatchPendingSync, Push
<1>10. CASE PendingSyncAbort \/ ViewerExit \/ ViewerKilled
  BY <1>0, <1>10, TurnEndsByDeath DEF PendingSyncAbort, ViewerExit, ViewerKilled
<1>11. CASE Terminated \/ UNCHANGED vars
  BY <1>b, <1>11 DEF Terminated, vars
<1> QED
  BY <1>1, <1>2, <1>3, <1>4, <1>5, <1>6, <1>7, <1>8, <1>9, <1>10, <1>11 DEF Next

\* The assert() of rpc_sync holds whenever it is called, whatever combination of
\* crashes, timeouts and failing callbacks the connection has been through.
THEOREM SyncStartsClean == Spec => []SyncStartsOutOfSync
<1>1. Init => TurnInvariant
  BY DEF Init, TurnInvariant, LoopAtBottom, Peer
<1>2. TurnInvariant => SyncStartsOutOfSync
  BY DEF TurnInvariant, SyncStartsOutOfSync, InMainLoop
<1> QED
  BY <1>1, <1>2, TurnStep, TypeCorrect, PTL DEF Spec

-----------------------------------------------------------------------------
(***************************************************************************)
(* The two call stacks of a connection without errors, laid side by side:  *)
(* every callback of one end answers a call of the other, frame by frame.  *)
(* From that follow that no end reads a message it has no case for, that   *)
(* the counters follow the stacks, that the assert()s of                   *)
(* rpc_dispatch_pending_sync hold, and that the two processes implement    *)
(* the one thread of SharedThread.                                         *)
(*                                                                         *)
(* The invariant.  Below the frames of the wrapper are matched with those  *)
(* of the viewer, which has one frame more at its bottom while it asks for *)
(* its turn.                                                               *)
(***************************************************************************)
Shift(vs) == IF Asks(vs) THEN 1 ELSE 0
Height(vs) == Len(vs) - Shift(vs)
SyncKinds == {"dispatch_sync", "pending_sync"}

\* The frame of the viewer that answers, or is answered by, one of the wrapper.
Partner(k) ==
    IF k = "invoke" THEN "handle" ELSE IF k = "handle" THEN "invoke" ELSE "main_loop"

Matched(ws, vs) ==
    \A i \in 1..Len(ws) : i <= Height(vs) => vs[Shift(vs) + i].kind = Partner(ws[i].kind)

\* Only code that runs calls the other end.
WrapperAlternates(ws) ==
    \A i \in 1..Len(ws) : ws[i].kind \in Waiting /\ i > 1 => ws[i - 1].kind = "handle"
ViewerAlternates(vs) ==
    \A i \in 1..Len(vs) : vs[i].kind = "invoke" => i > 1 /\ vs[i - 1].kind \in Serving

\* Where control is says which stack is higher, and which end has more calls open.
Has(c, t) == \E i \in 1..Len(c) : c[i].tag = t
Calls(s) == Len(MethodsOf(s, "invoke"))
Turn(sync) == IF sync THEN 1 ELSE 0

AtWrapper(ws, vs, cw, cv, sync) ==
    /\ Calls(vs) = Calls(ws) + Turn(sync)
    /\ \/ WrapperRuns(ws) /\ Height(vs) = Len(ws)
       \/ /\ Has(cw, "START") \/ Has(cv, "REPLY")
          /\ Height(vs) = Len(ws) + 1 /\ vs[Len(vs)].kind = "invoke"
AtViewer(ws, vs, cw, cv, sync) ==
    /\ Calls(ws) = Calls(vs) + 1 - Turn(sync)
    /\ \/ ViewerRuns(vs) /\ Height(vs) = Len(ws)
       \/ /\ Has(cv, "START") \/ Has(cw, "REPLY")
          /\ Len(ws) = Height(vs) + 1 /\ ws[Len(ws)].kind = "invoke"
BetweenTurns(ws, vs, cw, cv, sync) ==
    /\ Has(cv, "SYNC_ACK") \/ Has(cw, "SYNC_END")
    /\ Len(ws) = 1 /\ ws[1].kind \in SyncKinds /\ Height(vs) = 0
    /\ Calls(ws) = 0 /\ Calls(vs) = 0 /\ ~sync

Placed(ws, vs, cw, cv, sync) ==
    \/ AtWrapper(ws, vs, cw, cv, sync)
    \/ AtViewer(ws, vs, cw, cv, sync)
    \/ BetweenTurns(ws, vs, cw, cv, sync)

\* A SYNC is sent by a viewer without open calls: it is before the calls of the
\* viewer on the wire, after the end of its last turn, and finds the wrapper
\* with at most one frame.
Before(c, s, t) ==
    \A i, j \in 1..Len(c) : c[i].tag = s /\ c[j].tag = t => i < j
Only(c, T) == \A i \in 1..Len(c) : c[i].tag \in T
Ordered(ws, cw, cv, pending) ==
    /\ Before(cw, "SYNC", "START")
    /\ Before(cw, "SYNC_END", "SYNC")
    /\ Has(cw, "SYNC") => Len(ws) <= 1
    /\ pending \in {0, 1}
    /\ Only(cw, {"SYNC", "SYNC_END", "START", "REPLY"})
    /\ Only(cv, {"SYNC_ACK", "START", "REPLY"})

Aligned(ws, vs, cw, cv, pending, sync) ==
    /\ Matched(ws, vs)
    /\ WrapperAlternates(ws)
    /\ ViewerAlternates(vs)
    /\ Placed(ws, vs, cw, cv, sync)
    /\ Ordered(ws, cw, cv, pending)
    /\ InMainLoop(vs) => sync

AlignedNow ==
    Aligned(stack["wrapper"], stack["viewer"], chan["wrapper"], chan["viewer"],
            pending_sync_depth, is_sync)

Counted ==
    \A p \in Peer :
        /\ invoke_depth[p] = Len(MethodsOf(stack[p], "invoke"))
        /\ handle_depth[p] = Len(MethodsOf(stack[p], "handle"))
        /\ dispatch_depth[p] = handle_depth[p]

\* While no error has happened the stacks of the two ends match, the counters of
\* rpc_method_invoke_possible and rpc_has_pending_sync follow them, and the
\* viewer's main loop goes on.
ThreadInvariant == Healthy => AlignedNow /\ Counted /\ g_is_running

-----------------------------------------------------------------------------
(***************************************************************************)
(* MethodsOf: what pushing and popping a frame does to the methods that    *)
(* frames of one kind hold open.  Its table of prefixes exists, and two    *)
(* stacks with a common part have the same table there; both by a least    *)
(* counterexample.                                                         *)
(***************************************************************************)
PrefixTable(g, s, k, n) ==
    g = [i \in 0..n |-> IF i = 0 THEN <<>>
                        ELSE IF s[i].kind = k THEN Append(g[i - 1], s[i].method)
                        ELSE g[i - 1]]

LEMMA PrefixTableExists ==
    ASSUME NEW s, NEW k, NEW n \in Nat
    PROVE  \E g : PrefixTable(g, s, k, n)
<1> DEFINE Bad == {m \in Nat : ~ \E g : PrefixTable(g, s, k, m)}
<1> SUFFICES ASSUME Bad # {} PROVE FALSE
  OBVIOUS
<1>1. PICK m \in Bad : \A j \in Bad : m <= j
  BY LeastNumber
<1>2. m # 0
  <2>1. PrefixTable([i \in 0..0 |-> <<>>], s, k, 0)
    BY DEF PrefixTable
  <2> QED
    BY <2>1
<1>3. m - 1 \in Nat /\ m - 1 \notin Bad
  BY <1>1, <1>2
<1>4. PICK g : PrefixTable(g, s, k, m - 1)
  BY <1>3
<1> DEFINE top == IF s[m].kind = k THEN Append(g[m - 1], s[m].method) ELSE g[m - 1]
           h == [i \in 0..m |-> IF i = m THEN top ELSE g[i]]
<1>5. PrefixTable(h, s, k, m)
  <2>1. ASSUME NEW i \in 0..m
        PROVE  h[i] = IF i = 0 THEN <<>>
                      ELSE IF s[i].kind = k THEN Append(h[i - 1], s[i].method)
                      ELSE h[i - 1]
    <3>1. CASE i = m
      <4>1. h[m - 1] = g[m - 1] /\ h[m] = top
        BY <1>2, <1>3
      <4> QED
        BY <1>2, <3>1, <4>1
    <3>2. CASE i # m
      <4>1. /\ i \in 0..(m - 1) /\ h[i] = g[i]
            /\ i # 0 => i - 1 \in 0..(m - 1) /\ h[i - 1] = g[i - 1]
        BY <1>3, <3>2
      <4> QED
        BY <1>4, <4>1 DEF PrefixTable
    <3> QED
      BY <3>1, <3>2
  <2>2. h = [i \in 0..m |-> h[i]]
    OBVIOUS
  <2> HIDE DEF h
  <2> QED
    BY <2>1, <2>2 DEF PrefixTable
<1> QED
  BY <1>5

NextPrefix(g, s, k, i) ==
    /\ s[i].kind = k => g[i] = Append(g[i - 1], s[i].method)
    /\ s[i].kind # k => g[i] = g[i - 1]

LEMMA PrefixTableSteps ==
    ASSUME NEW s, NEW k, NEW n \in Nat, NEW g, PrefixTable(g, s, k, n)
    PROVE  g[0] = <<>> /\ \A i \in 1..n : NextPrefix(g, s, k, i)
<1> DEFINE H(i) == IF i = 0 THEN <<>>
                   ELSE IF s[i].kind = k THEN Append(g[i - 1], s[i].method)
                   ELSE g[i - 1]
<1>1. g = [i \in 0..n |-> H(i)]
  BY DEF PrefixTable
<1> HIDE DEF H
<1>2. \A i \in 0..n : g[i] = H(i)
  BY <1>1
<1>3. 0 \in 0..n /\ \A i \in 1..n : i \in 0..n /\ i # 0
  OBVIOUS
<1>4. g[0] = <<>>
  BY <1>2, <1>3 DEF H
<1>5. ASSUME NEW i \in 1..n
      PROVE  NextPrefix(g, s, k, i)
  <2>1. g[i] = H(i) /\ i # 0
    BY <1>2, <1>3
  <2> QED
    BY <2>1, Zenon DEF H, NextPrefix
<1> QED
  BY <1>4, <1>5

LEMMA MethodsOfIsLast ==
    ASSUME NEW s, NEW k, Len(s) \in Nat
    PROVE  \E g : PrefixTable(g, s, k, Len(s)) /\ MethodsOf(s, k) = g[Len(s)]
<1> DEFINE g == CHOOSE f : PrefixTable(f, s, k, Len(s))
<1>1. PrefixTable(g, s, k, Len(s))
  BY PrefixTableExists, Zenon
<1>2. MethodsOf(s, k) = g[Len(s)]
  BY Zenon DEF MethodsOf, PrefixTable
<1> QED
  BY <1>1, <1>2, Zenon

LEMMA PrefixTablesAgree ==
    ASSUME NEW s, NEW t, NEW k, NEW m \in Nat, NEW n \in Nat, m <= n,
           \A i \in 1..m : t[i] = s[i],
           NEW g, PrefixTable(g, s, k, m), NEW h, PrefixTable(h, t, k, n)
    PROVE  h[m] = g[m]
<1> DEFINE Bad == {i \in 0..m : h[i] # g[i]}
<1>1. h[0] = <<>> /\ g[0] = <<>>
  BY PrefixTableSteps
<1>3. \A i \in 1..m : NextPrefix(g, s, k, i) /\ NextPrefix(h, t, k, i)
  BY PrefixTableSteps
<1>2. Bad = {}
  <2> SUFFICES ASSUME Bad # {} PROVE FALSE
    OBVIOUS
  <2>1. PICK i \in Bad : \A j \in Bad : i <= j
    <3>1. Bad \subseteq Nat
      OBVIOUS
    <3> QED
      BY <3>1, LeastNumber
  <2>2. i \in 1..m /\ i - 1 \in 0..m
    BY <1>1, <2>1
  <2>3. h[i - 1] = g[i - 1]
    BY <2>1, <2>2
  <2> QED
    <3>1. NextPrefix(g, s, k, i) /\ NextPrefix(h, t, k, i) /\ t[i] = s[i] /\ h[i] # g[i]
      BY <1>3, <2>1, <2>2
    <3> QED
      BY <2>3, <3>1, Zenon DEF NextPrefix
<1> QED
  BY <1>2

\* t is s with one frame on top.
Extends(t, s) == Len(t) = Len(s) + 1 /\ \A i \in 1..Len(s) : t[i] = s[i]

LEMMA MethodsOfExtends ==
    ASSUME NEW s \in Seq(Frame), NEW t \in Seq(Frame), Extends(t, s), NEW k
    PROVE  MethodsOf(t, k) = IF t[Len(t)].kind = k
                             THEN Append(MethodsOf(s, k), t[Len(t)].method)
                             ELSE MethodsOf(s, k)
<1>1. Len(s) \in Nat /\ Len(t) \in Nat /\ Len(t) = Len(s) + 1
  BY DEF Extends
<1>2. PICK g : PrefixTable(g, s, k, Len(s)) /\ MethodsOf(s, k) = g[Len(s)]
  BY <1>1, MethodsOfIsLast
<1>3. PICK h : PrefixTable(h, t, k, Len(t)) /\ MethodsOf(t, k) = h[Len(t)]
  BY <1>1, MethodsOfIsLast
<1>4. h[Len(s)] = g[Len(s)]
  BY <1>1, <1>2, <1>3, PrefixTablesAgree DEF Extends
<1>5. NextPrefix(h, t, k, Len(t))
  <2>1. Len(t) \in 1..Len(t)
    BY <1>1
  <2> QED
    BY <1>1, <1>3, <2>1, PrefixTableSteps
<1>6. Len(t) - 1 = Len(s)
  BY <1>1
<1> QED
  BY <1>2, <1>3, <1>4, <1>5, <1>6, Zenon DEF NextPrefix

Names == Methods \cup {NoMethod}

LEMMA MethodsOfTypes ==
    ASSUME NEW s \in Seq(Frame), NEW k
    PROVE  /\ MethodsOf(s, k) \in Seq(Names)
           /\ Len(MethodsOf(s, k)) \in Nat /\ Len(MethodsOf(s, k)) <= Len(s)
<1>1. Len(s) \in Nat
  OBVIOUS
<1>2. PICK g : PrefixTable(g, s, k, Len(s)) /\ MethodsOf(s, k) = g[Len(s)]
  BY <1>1, MethodsOfIsLast
<1> DEFINE N == Len(s)
           Fine(i) == g[i] \in Seq(Names) /\ Len(g[i]) <= i
           Bad == {i \in 0..N : ~Fine(i)}
<1>3. g[0] = <<>> /\ \A i \in 1..N : NextPrefix(g, s, k, i)
  BY <1>1, <1>2, PrefixTableSteps
<1>4. Bad = {}
  <2> SUFFICES ASSUME Bad # {} PROVE FALSE
    OBVIOUS
  <2>1. PICK i \in Bad : \A j \in Bad : i <= j
    <3>1. Bad \subseteq Nat
      OBVIOUS
    <3> QED
      BY <3>1, LeastNumber
  <2>2. i \in 1..N /\ i - 1 \in 0..N
    <3>1. Fine(0)
      BY <1>3
    <3>2. i \in 0..N /\ i # 0
      BY <2>1, <3>1
    <3> QED
      BY <1>1, <3>2
  <2>3. g[i - 1] \in Seq(Names) /\ Len(g[i - 1]) <= i - 1 /\ Len(g[i - 1]) \in Nat
    BY <2>1, <2>2
  <2>4. s[i].method \in Names
    <3>1. s[i] \in Frame
      BY <2>2
    <3> QED
      BY <3>1 DEF Frame, Names
  <2>5. /\ Append(g[i - 1], s[i].method) \in Seq(Names)
        /\ Len(Append(g[i - 1], s[i].method)) = Len(g[i - 1]) + 1
    BY <2>3, <2>4, AppendProps
  <2>6. Len(g[i - 1]) <= i /\ Len(Append(g[i - 1], s[i].method)) <= i
    BY <2>2, <2>3, <2>5
  <2> QED
    <3>1. NextPrefix(g, s, k, i) /\ ~Fine(i)
      BY <1>3, <2>1, <2>2
    <3> QED
      BY <2>3, <2>5, <2>6, <3>1, Zenon DEF NextPrefix
<1>5. Fine(N)
  BY <1>1, <1>4
<1>6. MethodsOf(s, k) \in Seq(Names) /\ Len(MethodsOf(s, k)) <= Len(s)
  BY <1>2, <1>5, Zenon
<1> QED
  BY <1>6

LEMMA MethodsOfEmpty == ASSUME NEW k PROVE MethodsOf(<<>>, k) = <<>>
<1>1. Len(<<>>) = 0
  OBVIOUS
<1>2. PICK g : PrefixTable(g, <<>>, k, 0) /\ MethodsOf(<<>>, k) = g[0]
  BY <1>1, MethodsOfIsLast
<1>3. g[0] = <<>>
  BY <1>2 DEF PrefixTable
<1> QED
  BY <1>2, <1>3

LEMMA Pushed ==
    ASSUME NEW s \in Seq(Frame), NEW f \in Frame
    PROVE  /\ Append(s, f) \in Seq(Frame) /\ Extends(Append(s, f), s)
           /\ Append(s, f)[Len(Append(s, f))] = f
  BY AppendProps DEF Extends

LEMMA Popped ==
    ASSUME NEW s \in Seq(Frame), s # <<>>
    PROVE  /\ Front(s) \in Seq(Frame) /\ Extends(s, Front(s))
           /\ Last(s) = s[Len(s)] /\ s[Len(s)] \in Frame
  BY FrontProps DEF Extends

LEMMA CallsOfExtends ==
    ASSUME NEW s \in Seq(Frame), NEW t \in Seq(Frame), Extends(t, s)
    PROVE  /\ Calls(s) \in Nat /\ Calls(t) \in Nat
           /\ t[Len(t)].kind = "invoke" => Calls(t) = Calls(s) + 1
           /\ t[Len(t)].kind # "invoke" => Calls(t) = Calls(s)
<1>1. Calls(s) \in Nat /\ Calls(t) \in Nat /\ MethodsOf(s, "invoke") \in Seq(Names)
  BY MethodsOfTypes DEF Calls
<1>2. t[Len(t)] \in Frame
  <2>1. Len(t) \in 1..Len(t)
    BY DEF Extends
  <2> QED
    BY <2>1
<1>3. t[Len(t)].method \in Names
  BY <1>2 DEF Frame, Names
<1>4. CASE t[Len(t)].kind = "invoke"
  <2>1. MethodsOf(t, "invoke") = Append(MethodsOf(s, "invoke"), t[Len(t)].method)
    BY <1>4, MethodsOfExtends
  <2> QED
    BY <1>1, <1>3, <1>4, <2>1, AppendProps DEF Calls
<1>5. CASE t[Len(t)].kind # "invoke"
  <2>1. MethodsOf(t, "invoke") = MethodsOf(s, "invoke")
    BY <1>5, MethodsOfExtends
  <2> QED
    BY <1>1, <1>5, <2>1 DEF Calls
<1> QED
  BY <1>1, <1>4, <1>5

LEMMA CallsOfEmpty == Calls(<<>>) = 0
  BY MethodsOfEmpty DEF Calls

-----------------------------------------------------------------------------
(* How sending and reading change what a channel holds, and in which order.  *)

LEMMA ChannelAppend ==
    ASSUME NEW c \in Seq(Message), NEW msg \in Message
    PROVE  /\ Append(c, msg) \in Seq(Message)
           /\ Has(Append(c, msg), msg.tag)
           /\ \A t : Has(c, t) => Has(Append(c, msg), t)
           /\ \A t : Has(Append(c, msg), t) => Has(c, t) \/ t = msg.tag
           /\ \A T : Only(c, T) /\ msg.tag \in T => Only(Append(c, msg), T)
           /\ \A s, t : Before(c, s, t) /\ s # t /\ (msg.tag # s \/ ~Has(c, t)) =>
                Before(Append(c, msg), s, t)
<1> DEFINE d == Append(c, msg)
<1>1. /\ Len(d) = Len(c) + 1 /\ Len(c) \in Nat /\ d \in Seq(Message)
      /\ \A i \in 1..Len(c) : d[i] = c[i] /\ i \in 1..Len(d)
      /\ d[Len(c) + 1] = msg /\ Len(c) + 1 \in 1..Len(d)
  BY AppendProps
<1>2. \A i \in 1..Len(d) : i \in 1..Len(c) \/ i = Len(c) + 1
  BY <1>1
<1> HIDE DEF d
<1>3. Has(d, msg.tag)
  BY <1>1 DEF Has
<1>4. \A t : Has(c, t) => Has(d, t)
  BY <1>1 DEF Has
<1>5. \A t : Has(d, t) => Has(c, t) \/ t = msg.tag
  BY <1>1, <1>2 DEF Has
<1>6. \A T : Only(c, T) /\ msg.tag \in T => Only(d, T)
  BY <1>1, <1>2 DEF Only
<1>7. ASSUME NEW s, NEW t, Before(c, s, t), s # t, msg.tag # s \/ ~Has(c, t),
             NEW i \in 1..Len(d), NEW j \in 1..Len(d), d[i].tag = s, d[j].tag = t
      PROVE  i < j
  <2>1. CASE j = Len(c) + 1
    <3>1. i # j
      BY <1>7
    <3> QED
      BY <1>1, <1>2, <2>1, <3>1
  <2>2. CASE j \in 1..Len(c)
    <3>1. c[j].tag = t /\ Has(c, t)
      BY <1>1, <1>7, <2>2 DEF Has
    <3>2. i \in 1..Len(c)
      BY <1>1, <1>2, <1>7, <3>1
    <3> QED
      BY <1>1, <1>7, <2>2, <3>1, <3>2 DEF Before
  <2> QED
    BY <1>2, <2>1, <2>2
<1>8. \A s, t : Before(c, s, t) /\ s # t /\ (msg.tag # s \/ ~Has(c, t)) => Before(d, s, t)
  BY <1>7 DEF Before
<1> QED
  BY <1>1, <1>3, <1>4, <1>5, <1>6, <1>8 DEF d

LEMMA ChannelTail ==
    ASSUME NEW c \in Seq(Message), c # <<>>
    PROVE  /\ Tail(c) \in Seq(Message) /\ Head(c) \in Message
           /\ Has(c, Head(c).tag)
           /\ \A t : Has(c, t) /\ t # Head(c).tag => Has(Tail(c), t)
           /\ \A t : Has(Tail(c), t) => Has(c, t)
           /\ \A T : Only(c, T) => Only(Tail(c), T) /\ Head(c).tag \in T
           /\ \A s, t : Before(c, s, t) => Before(Tail(c), s, t)
           /\ \A s, t : Before(c, s, t) /\ Head(c).tag = t => ~Has(c, s)
<1> DEFINE d == Tail(c)
<1>1. /\ Len(c) \in Nat /\ Len(c) > 0 /\ Len(d) = Len(c) - 1 /\ d \in Seq(Message)
      /\ \A i \in 1..Len(d) : d[i] = c[i + 1] /\ i + 1 \in 1..Len(c)
      /\ Head(c) = c[1] /\ 1 \in 1..Len(c) /\ Head(c) \in Message
  BY TailProps
<1>2. \A i \in 1..Len(c) : i = 1 \/ (i - 1 \in 1..Len(d) /\ d[i - 1] = c[i])
  BY <1>1
<1> HIDE DEF d
<1>3. Has(c, Head(c).tag)
  BY <1>1 DEF Has
<1>4. \A t : Has(c, t) /\ t # Head(c).tag => Has(d, t)
  BY <1>1, <1>2 DEF Has
<1>5. \A t : Has(d, t) => Has(c, t)
  BY <1>1 DEF Has
<1>6. \A T : Only(c, T) => Only(d, T) /\ Head(c).tag \in T
  BY <1>1 DEF Only
<1>7. ASSUME NEW s, NEW t, Before(c, s, t),
             NEW i \in 1..Len(d), NEW j \in 1..Len(d), d[i].tag = s, d[j].tag = t
      PROVE  i < j
  <2>1. c[i + 1].tag = s /\ c[j + 1].tag = t /\ i + 1 \in 1..Len(c) /\ j + 1 \in 1..Len(c)
    BY <1>1, <1>7
  <2>2. i + 1 < j + 1
    BY <1>7, <2>1 DEF Before
  <2> QED
    BY <2>2
<1>8. \A s, t : Before(c, s, t) => Before(d, s, t)
  BY <1>7 DEF Before
<1>9. \A s, t : Before(c, s, t) /\ Head(c).tag = t => ~Has(c, s)
  BY <1>1 DEF Before, Has
<1> QED
  BY <1>1, <1>3, <1>4, <1>5, <1>6, <1>8, <1>9 DEF d

LEMMA HasIsNotNone ==
    ASSUME NEW c, NEW t, NEW T, t \in T, Has(c, t)
    PROVE  ~None(c, T)
  BY DEF Has, None

\* Messages that carry control exclude each other, and exclude an end that runs.
LEMMA OnePlace ==
    ASSUME NEW ws, NEW vs, NEW cw, NEW cv, OneToken(ws, vs, cw, cv),
           NEW t \in Control, NEW u \in Control
    PROVE  /\ WrapperRuns(ws) \/ ViewerRuns(vs) => ~Has(cw, t) /\ ~Has(cv, t)
           /\ Has(cw, t) => ~Has(cv, u)
           /\ Has(cw, t) /\ Has(cw, u) => t = u
           /\ Has(cv, t) /\ Has(cv, u) => t = u
           /\ ~(WrapperRuns(ws) /\ ViewerRuns(vs))
<1>1. WrapperRuns(ws) \/ ViewerRuns(vs) => ~Has(cw, t) /\ ~Has(cv, t)
  BY HasIsNotNone DEF OneToken
<1>2. Has(cw, t) => ~Has(cv, u)
  BY HasIsNotNone DEF OneToken
<1>3. ASSUME NEW c, AtMostOne(c, Control), Has(c, t), Has(c, u) PROVE t = u
  BY <1>3 DEF AtMostOne, Has
<1> QED
  BY <1>1, <1>2, <1>3 DEF OneToken

LEMMA Places ==
    ASSUME NEW ws, NEW vs, NEW cw, NEW cv, NEW sync,
           OneToken(ws, vs, cw, cv), Placed(ws, vs, cw, cv, sync)
    PROVE  /\ WrapperRuns(ws) =>
                Height(vs) = Len(ws) /\ Calls(vs) = Calls(ws) + Turn(sync)
           /\ ViewerRuns(vs) =>
                Height(vs) = Len(ws) /\ Calls(ws) = Calls(vs) + 1 - Turn(sync)
           /\ Has(cw, "START") \/ Has(cv, "REPLY") =>
                /\ Height(vs) = Len(ws) + 1 /\ vs[Len(vs)].kind = "invoke"
                /\ Calls(vs) = Calls(ws) + Turn(sync)
           /\ Has(cv, "START") \/ Has(cw, "REPLY") =>
                /\ Len(ws) = Height(vs) + 1 /\ ws[Len(ws)].kind = "invoke"
                /\ Calls(ws) = Calls(vs) + 1 - Turn(sync)
           /\ Has(cv, "SYNC_ACK") \/ Has(cw, "SYNC_END") =>
                BetweenTurns(ws, vs, cw, cv, sync)
<1>1. /\ "START" \in Control /\ "REPLY" \in Control
      /\ "SYNC_ACK" \in Control /\ "SYNC_END" \in Control
  BY ControlTags
<1> DEFINE A == AtWrapper(ws, vs, cw, cv, sync)
           B == AtViewer(ws, vs, cw, cv, sync)
           C == BetweenTurns(ws, vs, cw, cv, sync)
<1>2. \A t, u \in Control :
        /\ WrapperRuns(ws) \/ ViewerRuns(vs) => ~Has(cw, t) /\ ~Has(cv, t)
        /\ Has(cw, t) => ~Has(cv, u)
        /\ Has(cw, t) /\ Has(cw, u) => t = u
        /\ Has(cv, t) /\ Has(cv, u) => t = u
  BY OnePlace
<1>3. ~(WrapperRuns(ws) /\ ViewerRuns(vs))
  BY DEF OneToken
<1>4. A => WrapperRuns(ws) \/ Has(cw, "START") \/ Has(cv, "REPLY")
  BY DEF AtWrapper
<1>5. B => ViewerRuns(vs) \/ Has(cv, "START") \/ Has(cw, "REPLY")
  BY DEF AtViewer
<1>6. C => Has(cv, "SYNC_ACK") \/ Has(cw, "SYNC_END")
  BY DEF BetweenTurns
<1>7. A \/ B \/ C
  BY DEF Placed
<1> HIDE DEF A, B, C
<1>8. /\ WrapperRuns(ws) => A
      /\ Has(cw, "START") \/ Has(cv, "REPLY") => A /\ ~WrapperRuns(ws)
      /\ ViewerRuns(vs) => B
      /\ Has(cv, "START") \/ Has(cw, "REPLY") => B /\ ~ViewerRuns(vs)
      /\ Has(cv, "SYNC_ACK") \/ Has(cw, "SYNC_END") => C
      /\ WrapperRuns(ws) => ~(Has(cw, "START") \/ Has(cv, "REPLY"))
      /\ ViewerRuns(vs) => ~(Has(cv, "START") \/ Has(cw, "REPLY"))
  BY <1>1, <1>2, <1>3, <1>4, <1>5, <1>6, <1>7
<1> QED
  BY <1>8 DEF A, B, C, AtWrapper, AtViewer

-----------------------------------------------------------------------------
(* How a frame more, or less, leaves the stacks matched and alternating.     *)

LEMMA ShiftExtends ==
    ASSUME NEW s \in Seq(Frame), NEW t \in Seq(Frame), Extends(t, s),
           s # <<>> \/ t[Len(t)].kind # "rpc_sync"
    PROVE  /\ Shift(t) = Shift(s) /\ Height(t) = Height(s) + 1
           /\ Shift(s) \in {0, 1} /\ Height(s) \in Nat
           /\ Shift(t) + Height(t) = Len(t)
<1>1. Len(s) \in Nat /\ Len(t) = Len(s) + 1
  BY DEF Extends
<1>2. s # <<>> => Len(s) > 0
  BY <1>1
<1>3. Asks(t) <=> Asks(s)
  BY <1>1, <1>2 DEF Asks, Extends
<1>4. Asks(s) => Len(s) > 0
  BY DEF Asks
<1> QED
  BY <1>1, <1>3, <1>4 DEF Shift, Height

LEMMA WrapperUp ==
    ASSUME NEW ws \in Seq(Frame), NEW t \in Seq(Frame), NEW vs \in Seq(Frame),
           Extends(t, ws), Matched(ws, vs), WrapperAlternates(ws), WrapperOrder(ws),
           Height(vs) >= Len(t) => vs[Shift(vs) + Len(t)].kind = Partner(t[Len(t)].kind),
           WrapperRuns(ws) \/ t[Len(t)].kind = "handle"
    PROVE  Matched(t, vs) /\ WrapperAlternates(t)
<1>1. Len(ws) \in Nat /\ Len(t) = Len(ws) + 1 /\ \A i \in 1..Len(ws) : t[i] = ws[i]
  BY DEF Extends
<1>2. \A i \in 1..Len(t) : i \in 1..Len(ws) \/ i = Len(t)
  BY <1>1
<1>3. Matched(t, vs)
  <2>1. ASSUME NEW i \in 1..Len(t), i <= Height(vs)
        PROVE  vs[Shift(vs) + i].kind = Partner(t[i].kind)
    <3>1. CASE i = Len(t)
      BY <2>1, <3>1
    <3>2. CASE i \in 1..Len(ws)
      BY <1>1, <2>1, <3>2 DEF Matched
    <3> QED
      BY <1>2, <3>1, <3>2
  <2> QED
    BY <2>1 DEF Matched
<1>4. ws # <<>> => Last(ws) = ws[Len(ws)] /\ Len(ws) > 0
  BY FrontProps
<1>5. ASSUME NEW i \in 1..Len(t), t[i].kind \in Waiting, i > 1
      PROVE  t[i - 1].kind = "handle"
  <2>1. CASE i \in 1..Len(ws)
    BY <1>1, <1>5, <2>1 DEF WrapperAlternates
  <2>2. CASE i = Len(t)
    <3>1. WrapperRuns(ws) /\ ws # <<>>
      BY <1>1, <1>5, <2>2, WaitingKinds
    <3>2. ws[Len(ws)].kind \in Serving /\ t[i - 1] = ws[Len(ws)] /\ ws[Len(ws)] \in Frame
      BY <1>1, <1>4, <2>2, <3>1 DEF WrapperRuns
    <3>3. ws[Len(ws)].kind # "main_loop"
      BY <1>1, <1>4, <3>1 DEF WrapperOrder
    <3> QED
      BY <3>2, <3>3 DEF Serving
  <2> QED
    BY <1>2, <2>1, <2>2
<1> QED
  BY <1>3, <1>5 DEF WrapperAlternates

LEMMA WrapperDown ==
    ASSUME NEW ws \in Seq(Frame), NEW t \in Seq(Frame), NEW vs \in Seq(Frame),
           Extends(ws, t), Matched(ws, vs), WrapperAlternates(ws)
    PROVE  /\ Matched(t, vs) /\ WrapperAlternates(t)
           /\ ws[Len(ws)].kind \in Waiting => WrapperRuns(t)
<1>1. Len(t) \in Nat /\ Len(ws) = Len(t) + 1 /\ \A i \in 1..Len(t) : t[i] = ws[i]
  BY DEF Extends
<1>2. Matched(t, vs) /\ WrapperAlternates(t)
  <2>1. Matched(t, vs)
    BY <1>1 DEF Matched
  <2>2. ASSUME NEW i \in 1..Len(t), t[i].kind \in Waiting, i > 1
        PROVE  t[i - 1].kind = "handle"
    <3>1. i \in 1..Len(ws) /\ i - 1 \in 1..Len(t) /\ t[i] = ws[i] /\ t[i - 1] = ws[i - 1]
      BY <1>1, <2>2
    <3> QED
      BY <2>2, <3>1 DEF WrapperAlternates
  <2> QED
    BY <2>1, <2>2 DEF WrapperAlternates
<1>3. ASSUME ws[Len(ws)].kind \in Waiting, t # <<>> PROVE Last(t).kind \in Serving
  <2>1. Last(t) = t[Len(t)] /\ Len(t) > 0
    BY <1>3, FrontProps
  <2>2. ws[Len(ws) - 1].kind = "handle"
    BY <1>1, <1>3, <2>1 DEF WrapperAlternates
  <2> QED
    BY <1>1, <2>1, <2>2 DEF Serving
<1> QED
  BY <1>2, <1>3 DEF WrapperRuns

LEMMA ViewerUp ==
    ASSUME NEW ws \in Seq(Frame), NEW t \in Seq(Frame), NEW vs \in Seq(Frame),
           Extends(t, vs), Matched(ws, vs), ViewerAlternates(vs),
           vs # <<>> \/ t[Len(t)].kind # "rpc_sync",
           Height(t) <= Len(ws) => t[Len(t)].kind = Partner(ws[Height(t)].kind),
           ViewerRuns(vs) \/ t[Len(t)].kind # "invoke"
    PROVE  Matched(ws, t) /\ ViewerAlternates(t)
<1>1. Len(vs) \in Nat /\ Len(t) = Len(vs) + 1 /\ \A i \in 1..Len(vs) : t[i] = vs[i]
  BY DEF Extends
<1>2. \A i \in 1..Len(t) : i \in 1..Len(vs) \/ i = Len(t)
  BY <1>1
<1>3. /\ Shift(t) = Shift(vs) /\ Height(t) = Height(vs) + 1
      /\ Shift(vs) \in {0, 1} /\ Height(vs) \in Nat
      /\ Shift(t) + Height(t) = Len(t)
  BY ShiftExtends
<1>4. Matched(ws, t)
  <2>1. ASSUME NEW i \in 1..Len(ws), i <= Height(t)
        PROVE  t[Shift(t) + i].kind = Partner(ws[i].kind)
    <3>1. CASE i = Height(t)
      BY <1>3, <2>1, <3>1
    <3>2. CASE i # Height(t)
      <4>1. i <= Height(vs) /\ Shift(vs) + i \in 1..Len(vs)
        BY <1>1, <1>3, <2>1, <3>2
      <4> QED
        BY <1>1, <1>3, <2>1, <4>1 DEF Matched
    <3> QED
      BY <3>1, <3>2
  <2> QED
    BY <2>1 DEF Matched
<1>5. ASSUME NEW i \in 1..Len(t), t[i].kind = "invoke"
      PROVE  i > 1 /\ t[i - 1].kind \in Serving
  <2>1. CASE i \in 1..Len(vs)
    <3>1. i > 1 /\ vs[i - 1].kind \in Serving
      BY <1>1, <1>5, <2>1 DEF ViewerAlternates
    <3>2. i - 1 \in 1..Len(vs)
      BY <1>1, <2>1, <3>1
    <3> QED
      BY <1>1, <3>1, <3>2
  <2>2. CASE i = Len(t)
    <3>1. vs # <<>> /\ Last(vs).kind \in Serving
      BY <1>5, <2>2 DEF ViewerRuns
    <3>2. Last(vs) = vs[Len(vs)] /\ Len(vs) > 0
      BY <3>1, FrontProps
    <3> QED
      BY <1>1, <2>2, <3>1, <3>2
  <2> QED
    BY <1>2, <2>1, <2>2
<1> QED
  BY <1>4, <1>5 DEF ViewerAlternates

LEMMA ViewerDown ==
    ASSUME NEW ws \in Seq(Frame), NEW t \in Seq(Frame), NEW vs \in Seq(Frame),
           Extends(vs, t), Matched(ws, vs), ViewerAlternates(vs),
           vs[Len(vs)].kind # "rpc_sync"
    PROVE  /\ Matched(ws, t) /\ ViewerAlternates(t)
           /\ vs[Len(vs)].kind = "invoke" => ViewerRuns(t)
           /\ InMainLoop(t) => InMainLoop(vs)
<1>1. Len(t) \in Nat /\ Len(vs) = Len(t) + 1 /\ \A i \in 1..Len(t) : t[i] = vs[i]
  BY DEF Extends
<1>2. /\ Shift(vs) = Shift(t) /\ Height(vs) = Height(t) + 1
      /\ Shift(t) \in {0, 1} /\ Height(t) \in Nat
      /\ Shift(vs) + Height(vs) = Len(vs)
  BY ShiftExtends
<1>3. ASSUME NEW i \in 1..Len(ws), i <= Height(t)
      PROVE  t[Shift(t) + i].kind = Partner(ws[i].kind)
  <2>1. i <= Height(vs) /\ Shift(t) + i \in 1..Len(t)
    BY <1>1, <1>2, <1>3
  <2> QED
    BY <1>1, <1>2, <1>3, <2>1 DEF Matched
<1>4. ViewerAlternates(t)
  <2> SUFFICES ASSUME NEW i \in 1..Len(t), t[i].kind = "invoke"
               PROVE  i > 1 /\ t[i - 1].kind \in Serving
    BY DEF ViewerAlternates
  <2>1. i \in 1..Len(vs) /\ vs[i].kind = "invoke"
    BY <1>1
  <2>2. i > 1 /\ vs[i - 1].kind \in Serving
    BY <2>1 DEF ViewerAlternates
  <2>3. i - 1 \in 1..Len(t)
    BY <1>1, <2>2
  <2> QED
    BY <1>1, <2>2, <2>3
<1>5. ASSUME vs[Len(vs)].kind = "invoke" PROVE ViewerRuns(t)
  <2>1. Len(vs) > 1 /\ vs[Len(vs) - 1].kind \in Serving
    BY <1>1, <1>5 DEF ViewerAlternates
  <2>2. t # <<>>
    BY <1>1, <2>1
  <2>3. Last(t) = t[Len(t)]
    BY <2>2, FrontProps
  <2> QED
    BY <1>1, <2>1, <2>2, <2>3 DEF ViewerRuns
<1>6. InMainLoop(t) => InMainLoop(vs)
  BY <1>1 DEF InMainLoop
<1> QED
  BY <1>3, <1>4, <1>5, <1>6 DEF Matched

-----------------------------------------------------------------------------
(***************************************************************************)
(* The operations, on the stacks and channels of a connection without      *)
(* errors.                                                                 *)
(***************************************************************************)
Fit(ws, vs, cw, cv, pending, sync) ==
    /\ ws \in Seq(Frame) /\ vs \in Seq(Frame)
    /\ cw \in Seq(Message) /\ cv \in Seq(Message)
    /\ sync \in BOOLEAN
    /\ Good(ws, vs, cw, cv, pending)
    /\ Aligned(ws, vs, cw, cv, pending, sync)

LEMMA FitParts ==
    ASSUME NEW ws, NEW vs, NEW cw, NEW cv, NEW pending, NEW sync,
           Fit(ws, vs, cw, cv, pending, sync)
    PROVE  /\ OneToken(ws, vs, cw, cv) /\ WrapperOrder(ws) /\ ViewerOrder(vs)
           /\ Matched(ws, vs) /\ WrapperAlternates(ws) /\ ViewerAlternates(vs)
           /\ Placed(ws, vs, cw, cv, sync) /\ Ordered(ws, cw, cv, pending)
           /\ InMainLoop(vs) => sync
           /\ Len(ws) \in Nat /\ Len(vs) \in Nat /\ Turn(sync) \in {0, 1}
           /\ Shift(vs) \in {0, 1} /\ Height(vs) \in Nat /\ Shift(vs) + Height(vs) = Len(vs)
           /\ Calls(ws) \in Nat /\ Calls(vs) \in Nat
<1>1. ws \in Seq(Frame) /\ vs \in Seq(Frame)
  BY DEF Fit
<1>2. Len(ws) \in Nat /\ Len(vs) \in Nat /\ Turn(sync) \in {0, 1}
  BY <1>1 DEF Turn
<1>3. Asks(vs) => Len(vs) > 0
  BY DEF Asks
<1>4. Shift(vs) \in {0, 1} /\ Height(vs) \in Nat /\ Shift(vs) + Height(vs) = Len(vs)
  BY <1>2, <1>3 DEF Shift, Height
<1>5. Calls(ws) \in Nat /\ Calls(vs) \in Nat
  BY <1>1, MethodsOfTypes DEF Calls
<1> QED
  BY <1>2, <1>4, <1>5 DEF Fit, Good, Aligned

\* A wrapper that runs with at most one frame has none.
LEMMA IdleWrapper ==
    ASSUME NEW ws \in Seq(Frame), WrapperOrder(ws), WrapperRuns(ws), Len(ws) <= 1
    PROVE  ws = <<>> /\ Len(ws) = 0
<1>1. SUFFICES ASSUME ws # <<>> PROVE FALSE
  OBVIOUS
<1>2. Len(ws) \in Nat /\ Len(ws) > 0 /\ Last(ws) = ws[Len(ws)]
  BY <1>1, FrontProps
<1>3. Len(ws) = 1 /\ ws[1].kind \in Serving
  <2>1. \A n \in Nat : n > 0 /\ n <= 1 => n = 1
    OBVIOUS
  <2>3. Len(ws) = 1
    BY <1>2, <2>1
  <2>2. Last(ws).kind \in Serving
    BY <1>1 DEF WrapperRuns
  <2> QED
    BY <1>2, <2>2, <2>3
<1> QED
  BY <1>3 DEF WrapperOrder, Serving

LEMMA WrapperInvokesFit ==
    ASSUME NEW ws, NEW vs, NEW cw, NEW cv, NEW pending, NEW sync,
           Fit(ws, vs, cw, cv, pending, sync), WrapperRuns(ws),
           NEW f \in Frame, f.kind = "invoke", NEW msg \in Message, msg.tag = "START"
    PROVE  Aligned(Append(ws, f), vs, cw, Append(cv, msg), pending, sync)
<1> DEFINE t == Append(ws, f)
           d == Append(cv, msg)
<1>1. ws \in Seq(Frame) /\ vs \in Seq(Frame) /\ cv \in Seq(Message)
  BY DEF Fit
<1>2. /\ Height(vs) = Len(ws) /\ Calls(vs) = Calls(ws) + Turn(sync)
      /\ Len(ws) \in Nat /\ Calls(ws) \in Nat /\ Turn(sync) \in {0, 1}
  BY FitParts, Places
<1>3. t \in Seq(Frame) /\ Extends(t, ws) /\ t[Len(t)] = f /\ Len(t) = Len(ws) + 1
  BY <1>1, Pushed DEF Extends
<1>4. Has(d, "START") /\ \A T : Only(cv, T) /\ "START" \in T => Only(d, T)
  BY <1>1, ChannelAppend
<1> HIDE DEF t, d
<1>5. Matched(t, vs) /\ WrapperAlternates(t)
  BY <1>1, <1>2, <1>3, FitParts, WrapperUp
<1>6. Calls(t) = Calls(ws) + 1
  BY <1>1, <1>3, CallsOfExtends
<1>7. AtViewer(t, vs, cw, d, sync)
  BY <1>2, <1>3, <1>4, <1>6 DEF AtViewer
<1>8. Ordered(t, cw, d, pending)
  <2>1. Has(cw, "SYNC") => Len(t) <= 1
    <3>1. Has(cw, "SYNC") => Len(ws) = 0
      BY <1>1, FitParts, IdleWrapper DEF Ordered
    <3> QED
      BY <1>3, <3>1
  <2>2. Ordered(ws, cw, cv, pending)
    BY FitParts
  <2> QED
    BY <1>4, <2>1, <2>2 DEF Ordered
<1> QED
  BY <1>5, <1>7, <1>8, FitParts DEF Aligned, Placed, t, d

LEMMA ViewerInvokesFit ==
    ASSUME NEW ws, NEW vs, NEW cw, NEW cv, NEW pending, NEW sync,
           Fit(ws, vs, cw, cv, pending, sync), ViewerRuns(vs),
           NEW f \in Frame, f.kind = "invoke", NEW msg \in Message, msg.tag = "START"
    PROVE  Aligned(ws, Append(vs, f), Append(cw, msg), cv, pending, sync)
<1> DEFINE t == Append(vs, f)
           d == Append(cw, msg)
<1>1. ws \in Seq(Frame) /\ vs \in Seq(Frame) /\ cw \in Seq(Message) /\ vs # <<>>
  BY DEF Fit, ViewerRuns
<1>2. /\ Height(vs) = Len(ws) /\ Calls(ws) = Calls(vs) + 1 - Turn(sync)
      /\ Len(ws) \in Nat /\ Calls(vs) \in Nat /\ Turn(sync) \in {0, 1}
  BY FitParts, Places
<1>3. t \in Seq(Frame) /\ Extends(t, vs) /\ t[Len(t)] = f
  BY <1>1, Pushed
<1>4. /\ Has(d, "START") /\ \A T : Only(cw, T) /\ "START" \in T => Only(d, T)
      /\ Has(d, "SYNC") => Has(cw, "SYNC")
      /\ Before(cw, "SYNC", "START") => Before(d, "SYNC", "START")
      /\ Before(cw, "SYNC_END", "SYNC") => Before(d, "SYNC_END", "SYNC")
  BY <1>1, ChannelAppend
<1> HIDE DEF t, d
<1>5. Height(t) = Height(vs) + 1
  BY <1>1, <1>3, ShiftExtends
<1>6. Matched(ws, t) /\ ViewerAlternates(t)
  BY <1>1, <1>2, <1>3, <1>5, FitParts, ViewerUp
<1>7. Calls(t) = Calls(vs) + 1
  BY <1>1, <1>3, CallsOfExtends
<1>8. AtWrapper(ws, t, d, cv, sync)
  BY <1>2, <1>3, <1>4, <1>5, <1>7 DEF AtWrapper
<1>9. Ordered(ws, d, cv, pending)
  BY <1>4, FitParts DEF Ordered
<1>10. InMainLoop(t) => InMainLoop(vs)
  BY <1>1, <1>3 DEF InMainLoop, Extends
<1> QED
  BY <1>6, <1>8, <1>9, <1>10, FitParts DEF Aligned, Placed, t, d

LEMMA WrapperRepliesFit ==
    ASSUME NEW ws, NEW vs, NEW cw, NEW cv, NEW pending, NEW sync,
           Fit(ws, vs, cw, cv, pending, sync), ws # <<>>, Last(ws).kind = "handle",
           NEW msg \in Message, msg.tag = "REPLY"
    PROVE  Aligned(Front(ws), vs, cw, Append(cv, msg), pending, sync)
<1> DEFINE t == Front(ws)
           d == Append(cv, msg)
<1>1. ws \in Seq(Frame) /\ vs \in Seq(Frame) /\ cv \in Seq(Message) /\ WrapperRuns(ws)
  BY DEF Fit, WrapperRuns, Serving
<1>2. /\ Height(vs) = Len(ws) /\ Calls(vs) = Calls(ws) + Turn(sync)
      /\ Len(ws) \in Nat /\ Shift(vs) + Height(vs) = Len(vs)
  BY <1>1, FitParts, Places
<1>3. /\ t \in Seq(Frame) /\ Extends(ws, t) /\ ws[Len(ws)].kind = "handle"
      /\ Len(ws) = Len(t) + 1 /\ Len(t) \in Nat
  BY <1>1, Popped DEF Extends
<1>4. Has(d, "REPLY") /\ \A T : Only(cv, T) /\ "REPLY" \in T => Only(d, T)
  BY <1>1, ChannelAppend
<1> HIDE DEF t, d
<1>5. Matched(t, vs) /\ WrapperAlternates(t)
  BY <1>1, <1>3, FitParts, WrapperDown
<1>6. Calls(t) = Calls(ws)
  BY <1>1, <1>3, CallsOfExtends
<1>7. vs[Len(vs)].kind = "invoke"
  BY <1>2, <1>3, FitParts DEF Matched, Partner
<1>8. AtWrapper(t, vs, cw, d, sync)
  BY <1>2, <1>3, <1>4, <1>6, <1>7 DEF AtWrapper
<1>9. Ordered(t, cw, d, pending)
  BY <1>3, <1>4, FitParts DEF Ordered
<1> QED
  BY <1>5, <1>8, <1>9, FitParts DEF Aligned, Placed, t, d

LEMMA ViewerRepliesFit ==
    ASSUME NEW ws, NEW vs, NEW cw, NEW cv, NEW pending, NEW sync,
           Fit(ws, vs, cw, cv, pending, sync), vs # <<>>, Last(vs).kind = "handle",
           NEW msg \in Message, msg.tag = "REPLY"
    PROVE  Aligned(ws, Front(vs), Append(cw, msg), cv, pending, sync)
<1> DEFINE t == Front(vs)
           d == Append(cw, msg)
<1>1. ws \in Seq(Frame) /\ vs \in Seq(Frame) /\ cw \in Seq(Message) /\ ViewerRuns(vs)
  BY DEF Fit, ViewerRuns, Serving
<1>2. /\ Height(vs) = Len(ws) /\ Calls(ws) = Calls(vs) + 1 - Turn(sync)
      /\ Len(ws) \in Nat /\ Shift(vs) + Height(vs) = Len(vs)
  BY <1>1, FitParts, Places
<1>3. t \in Seq(Frame) /\ Extends(vs, t) /\ vs[Len(vs)].kind = "handle"
  BY <1>1, Popped
<1>4. /\ Has(d, "REPLY") /\ \A T : Only(cw, T) /\ "REPLY" \in T => Only(d, T)
      /\ Has(d, "SYNC") => Has(cw, "SYNC")
      /\ Before(cw, "SYNC", "START") => Before(d, "SYNC", "START")
      /\ Before(cw, "SYNC_END", "SYNC") => Before(d, "SYNC_END", "SYNC")
  BY <1>1, ChannelAppend
<1> HIDE DEF t, d
<1>5. Height(vs) = Height(t) + 1 /\ Height(t) \in Nat
  BY <1>1, <1>3, ShiftExtends
<1>6. Matched(ws, t) /\ ViewerAlternates(t) /\ (InMainLoop(t) => InMainLoop(vs))
  BY <1>1, <1>3, FitParts, ViewerDown
<1>7. Calls(t) = Calls(vs)
  BY <1>1, <1>3, CallsOfExtends
<1>8. ws[Len(ws)].kind = "invoke"
  <2>1. "handle" = Partner(ws[Len(ws)].kind)
    <3>1. Len(ws) \in 1..Len(ws) /\ vs[Shift(vs) + Len(ws)].kind = "handle"
      BY <1>2, <1>3, <1>5
    <3>2. Matched(ws, vs)
      BY FitParts
    <3> QED
      BY <1>2, <3>1, <3>2 DEF Matched
  <2> QED
    BY <2>1 DEF Partner
<1>9. AtViewer(ws, t, d, cv, sync)
  BY <1>2, <1>4, <1>5, <1>7, <1>8 DEF AtViewer
<1>10. Ordered(ws, d, cv, pending)
  BY <1>4, FitParts DEF Ordered
<1> QED
  BY <1>6, <1>9, <1>10, FitParts DEF Aligned, Placed, t, d

LEMMA WrapperServesFit ==
    ASSUME NEW ws, NEW vs, NEW cw, NEW cv, NEW pending, NEW sync,
           Fit(ws, vs, cw, cv, pending, sync), cw # <<>>, Head(cw).tag = "START",
           NEW f \in Frame, f.kind = "handle"
    PROVE  Aligned(Append(ws, f), vs, Tail(cw), cv, pending, sync)
<1> DEFINE t == Append(ws, f)
           d == Tail(cw)
<1>1. ws \in Seq(Frame) /\ vs \in Seq(Frame) /\ cw \in Seq(Message)
  BY DEF Fit
<1>2. /\ Has(cw, "START")
      /\ \A T : Only(cw, T) => Only(d, T)
      /\ Has(d, "SYNC") => Has(cw, "SYNC")
      /\ Before(cw, "SYNC", "START") => Before(d, "SYNC", "START") /\ ~Has(cw, "SYNC")
      /\ Before(cw, "SYNC_END", "SYNC") => Before(d, "SYNC_END", "SYNC")
  BY <1>1, ChannelTail
<1>3. /\ Height(vs) = Len(ws) + 1 /\ vs[Len(vs)].kind = "invoke"
      /\ Calls(vs) = Calls(ws) + Turn(sync)
      /\ Len(ws) \in Nat /\ Shift(vs) + Height(vs) = Len(vs)
  BY <1>2, FitParts, Places
<1>4. t \in Seq(Frame) /\ Extends(t, ws) /\ t[Len(t)] = f /\ Len(t) = Len(ws) + 1
  BY <1>1, Pushed DEF Extends
<1>5. WrapperRuns(t)
  BY <1>1, AppendProps DEF WrapperRuns, Serving
<1> HIDE DEF t, d
<1>6. vs[Shift(vs) + Len(t)].kind = Partner(t[Len(t)].kind)
  BY <1>3, <1>4 DEF Partner
<1>7. Matched(t, vs) /\ WrapperAlternates(t)
  BY <1>1, <1>4, <1>6, FitParts, WrapperUp
<1>8. Calls(t) = Calls(ws)
  BY <1>1, <1>4, CallsOfExtends
<1>9. AtWrapper(t, vs, d, cv, sync)
  BY <1>3, <1>4, <1>5, <1>8 DEF AtWrapper
<1>10. Ordered(t, d, cv, pending)
  BY <1>2, FitParts DEF Ordered
<1> QED
  BY <1>7, <1>9, <1>10, FitParts DEF Aligned, Placed, t, d

LEMMA ViewerServesFit ==
    ASSUME NEW ws, NEW vs, NEW cw, NEW cv, NEW pending, NEW sync,
           Fit(ws, vs, cw, cv, pending, sync), cv # <<>>, Head(cv).tag = "START",
           NEW f \in Frame, f.kind = "handle"
    PROVE  Aligned(ws, Append(vs, f), cw, Tail(cv), pending, sync)
<1> DEFINE t == Append(vs, f)
           d == Tail(cv)
<1>1. ws \in Seq(Frame) /\ vs \in Seq(Frame) /\ cv \in Seq(Message)
  BY DEF Fit
<1>2. Has(cv, "START") /\ \A T : Only(cv, T) => Only(d, T)
  BY <1>1, ChannelTail
<1>3. /\ Len(ws) = Height(vs) + 1 /\ ws[Len(ws)].kind = "invoke"
      /\ Calls(ws) = Calls(vs) + 1 - Turn(sync)
      /\ Len(ws) \in Nat /\ Height(vs) \in Nat
  BY <1>2, FitParts, Places
<1>4. t \in Seq(Frame) /\ Extends(t, vs) /\ t[Len(t)] = f
  BY <1>1, Pushed
<1>5. ViewerRuns(t)
  BY <1>1, AppendProps DEF ViewerRuns, Serving
<1> HIDE DEF t, d
<1>6. Height(t) = Len(ws)
  BY <1>1, <1>3, <1>4, ShiftExtends
<1>7. t[Len(t)].kind = Partner(ws[Height(t)].kind)
  BY <1>3, <1>4, <1>6 DEF Partner
<1>8. Matched(ws, t) /\ ViewerAlternates(t)
  BY <1>1, <1>4, <1>7, FitParts, ViewerUp
<1>9. Calls(t) = Calls(vs)
  BY <1>1, <1>4, CallsOfExtends
<1>10. AtViewer(ws, t, cw, d, sync)
  BY <1>3, <1>5, <1>6, <1>9 DEF AtViewer
<1>11. Ordered(ws, cw, d, pending)
  BY <1>2, FitParts DEF Ordered
<1>12. InMainLoop(t) => InMainLoop(vs)
  BY <1>1, <1>4 DEF InMainLoop, Extends
<1> QED
  BY <1>8, <1>10, <1>11, <1>12, FitParts DEF Aligned, Placed, t, d

LEMMA WrapperGetsReplyFit ==
    ASSUME NEW ws, NEW vs, NEW cw, NEW cv, NEW pending, NEW sync,
           Fit(ws, vs, cw, cv, pending, sync), cw # <<>>, Head(cw).tag = "REPLY", ws # <<>>
    PROVE  /\ Last(ws).kind = "invoke"
           /\ Aligned(Front(ws), vs, Tail(cw), cv, pending, sync)
<1> DEFINE t == Front(ws)
           d == Tail(cw)
<1>1. ws \in Seq(Frame) /\ vs \in Seq(Frame) /\ cw \in Seq(Message)
  BY DEF Fit
<1>2. /\ Has(cw, "REPLY")
      /\ \A T : Only(cw, T) => Only(d, T)
      /\ Has(d, "SYNC") => Has(cw, "SYNC")
      /\ Before(cw, "SYNC", "START") => Before(d, "SYNC", "START")
      /\ Before(cw, "SYNC_END", "SYNC") => Before(d, "SYNC_END", "SYNC")
  BY <1>1, ChannelTail
<1>3. /\ Len(ws) = Height(vs) + 1 /\ ws[Len(ws)].kind = "invoke"
      /\ Calls(ws) = Calls(vs) + 1 - Turn(sync) /\ Turn(sync) \in {0, 1}
      /\ Height(vs) \in Nat /\ Calls(vs) \in Nat
  BY <1>2, FitParts, Places
<1>4. /\ t \in Seq(Frame) /\ Extends(ws, t) /\ Last(ws) = ws[Len(ws)]
      /\ Len(ws) = Len(t) + 1 /\ Len(t) \in Nat
  BY <1>1, Popped DEF Extends
<1> HIDE DEF t, d
<1>5. Matched(t, vs) /\ WrapperAlternates(t) /\ WrapperRuns(t)
  BY <1>1, <1>3, <1>4, FitParts, WrapperDown, WaitingKinds
<1>6. Calls(ws) = Calls(t) + 1 /\ Calls(t) \in Nat
  BY <1>1, <1>3, <1>4, CallsOfExtends
<1>7. AtWrapper(t, vs, d, cv, sync)
  BY <1>3, <1>4, <1>5, <1>6 DEF AtWrapper
<1>8. Ordered(t, d, cv, pending)
  BY <1>2, <1>4, FitParts DEF Ordered
<1> QED
  BY <1>3, <1>4, <1>5, <1>7, <1>8, FitParts DEF Aligned, Placed, t, d

LEMMA ViewerGetsReplyFit ==
    ASSUME NEW ws, NEW vs, NEW cw, NEW cv, NEW pending, NEW sync,
           Fit(ws, vs, cw, cv, pending, sync), cv # <<>>, Head(cv).tag = "REPLY", vs # <<>>
    PROVE  /\ Last(vs).kind = "invoke"
           /\ Aligned(ws, Front(vs), cw, Tail(cv), pending, sync)
<1> DEFINE t == Front(vs)
           d == Tail(cv)
<1>1. ws \in Seq(Frame) /\ vs \in Seq(Frame) /\ cv \in Seq(Message)
  BY DEF Fit
<1>2. Has(cv, "REPLY") /\ \A T : Only(cv, T) => Only(d, T)
  BY <1>1, ChannelTail
<1>3. /\ Height(vs) = Len(ws) + 1 /\ vs[Len(vs)].kind = "invoke"
      /\ Calls(vs) = Calls(ws) + Turn(sync) /\ Turn(sync) \in {0, 1}
      /\ Len(ws) \in Nat /\ Calls(ws) \in Nat
  BY <1>2, FitParts, Places
<1>4. t \in Seq(Frame) /\ Extends(vs, t) /\ Last(vs) = vs[Len(vs)]
  BY <1>1, Popped
<1> HIDE DEF t, d
<1>5. Matched(ws, t) /\ ViewerAlternates(t) /\ ViewerRuns(t) /\ (InMainLoop(t) => InMainLoop(vs))
  BY <1>1, <1>3, <1>4, FitParts, ViewerDown
<1>6. Height(vs) = Height(t) + 1 /\ Height(t) \in Nat
  BY <1>1, <1>3, <1>4, ShiftExtends
<1>7. Calls(vs) = Calls(t) + 1 /\ Calls(t) \in Nat
  BY <1>1, <1>3, <1>4, CallsOfExtends
<1>8. AtViewer(ws, t, cw, d, sync)
  BY <1>3, <1>5, <1>6, <1>7 DEF AtViewer
<1>9. Ordered(ws, cw, d, pending)
  BY <1>2, FitParts DEF Ordered
<1> QED
  BY <1>3, <1>4, <1>5, <1>8, <1>9, FitParts DEF Aligned, Placed, t, d

\* A stack of one frame.
LEMMA OneFrame ==
    ASSUME NEW t \in Seq(Frame), Len(t) = 1
    PROVE  /\ Extends(t, <<>>) /\ t # <<>> /\ t[1] \in Frame /\ Last(t) = t[1]
           /\ t[1].kind = "invoke" => Calls(t) = 1
           /\ t[1].kind # "invoke" => Calls(t) = 0
           /\ t[1].kind = "rpc_sync" => Shift(t) = 1 /\ Height(t) = 0
           /\ t[1].kind # "rpc_sync" => Shift(t) = 0 /\ Height(t) = 1
<1>1. Extends(t, <<>>) /\ <<>> \in Seq(Frame)
  BY DEF Extends
<1>2. t # <<>> /\ t[1] \in Frame /\ Last(t) = t[1]
  BY DEF Last
<1>3. /\ t[1].kind = "invoke" => Calls(t) = 0 + 1
      /\ t[1].kind # "invoke" => Calls(t) = 0
  BY <1>1, CallsOfExtends, CallsOfEmpty
<1>4. Asks(t) <=> t[1].kind = "rpc_sync"
  BY DEF Asks
<1> QED
  BY <1>1, <1>2, <1>3, <1>4 DEF Shift, Height

LEMMA TurnBeginsFit ==
    ASSUME NEW ws, NEW vs, NEW cw, NEW cv, NEW pending, NEW sync,
           Fit(ws, vs, cw, cv, pending, sync), cv # <<>>, Head(cv).tag = "SYNC_ACK",
           NEW t \in Seq(Frame), Len(t) = 1, t[1].kind = "main_loop"
    PROVE  Aligned(ws, t, cw, Tail(cv), pending, TRUE)
<1> DEFINE d == Tail(cv)
<1>1. cv \in Seq(Message)
  BY DEF Fit
<1>2. Has(cv, "SYNC_ACK") /\ \A T : Only(cv, T) => Only(d, T)
  BY <1>1, ChannelTail
<1>3. Len(ws) = 1 /\ ws[1].kind \in SyncKinds /\ Calls(ws) = 0
  BY <1>2, FitParts, Places DEF BetweenTurns
<1> HIDE DEF d
<1>4. Shift(t) = 0 /\ Height(t) = 1 /\ Calls(t) = 0 /\ ViewerRuns(t)
  BY OneFrame DEF ViewerRuns, Serving
<1>5. Matched(ws, t)
  BY <1>3, <1>4 DEF Matched, Partner, SyncKinds
<1>6. ViewerAlternates(t)
  BY DEF ViewerAlternates
<1>7. AtViewer(ws, t, cw, d, TRUE)
  BY <1>3, <1>4 DEF AtViewer, Turn
<1>8. Ordered(ws, cw, d, pending)
  BY <1>2, FitParts DEF Ordered
<1> QED
  BY <1>5, <1>6, <1>7, <1>8, FitParts DEF Aligned, Placed, d

LEMMA TurnIsOverFit ==
    ASSUME NEW ws, NEW vs, NEW cw, NEW cv, NEW pending, NEW sync,
           Fit(ws, vs, cw, cv, pending, sync), cw # <<>>, Head(cw).tag = "SYNC_END"
    PROVE  Len(ws) = 1 /\ Aligned(<<>>, vs, Tail(cw), cv, pending, sync)
<1> DEFINE d == Tail(cw)
<1>1. cw \in Seq(Message)
  BY DEF Fit
<1>2. /\ Has(cw, "SYNC_END")
      /\ \A T : Only(cw, T) => Only(d, T)
      /\ Has(d, "SYNC") => Has(cw, "SYNC")
      /\ Before(cw, "SYNC", "START") => Before(d, "SYNC", "START")
      /\ Before(cw, "SYNC_END", "SYNC") => Before(d, "SYNC_END", "SYNC")
  BY <1>1, ChannelTail
<1>3. Len(ws) = 1 /\ Height(vs) = 0 /\ Calls(vs) = 0 /\ ~sync
  BY <1>2, FitParts, Places DEF BetweenTurns
<1> HIDE DEF d
<1>4. Len(<<>>) = 0 /\ Calls(<<>>) = 0 /\ WrapperRuns(<<>>)
  BY CallsOfEmpty DEF WrapperRuns
<1>5. AtWrapper(<<>>, vs, d, cv, sync)
  BY <1>3, <1>4 DEF AtWrapper, Turn
<1>6. Matched(<<>>, vs) /\ WrapperAlternates(<<>>)
  BY DEF Matched, WrapperAlternates
<1>7. Ordered(<<>>, d, cv, pending)
  BY <1>2, <1>4, FitParts DEF Ordered
<1> QED
  BY <1>3, <1>5, <1>6, <1>7, FitParts DEF Aligned, Placed, d

\* A SYNC that finds the wrapper waiting finds it in one call, its outermost.
LEMMA SyncIsNotedFit ==
    ASSUME NEW ws, NEW vs, NEW cw, NEW cv, NEW pending, NEW sync,
           Fit(ws, vs, cw, cv, pending, sync), cw # <<>>, Head(cw).tag = "SYNC",
           ws # <<>>, Last(ws).kind \in Waiting
    PROVE  Calls(ws) = 1 /\ Aligned(ws, vs, Tail(cw), cv, Calls(ws), sync)
<1> DEFINE d == Tail(cw)
<1>1. cw \in Seq(Message) /\ ws \in Seq(Frame) /\ vs \in Seq(Frame)
  BY DEF Fit
<1>2. /\ Has(cw, "SYNC")
      /\ \A T : Only(cw, T) => Only(d, T)
      /\ Has(d, "SYNC") => Has(cw, "SYNC")
      /\ Before(cw, "SYNC", "START") => Before(d, "SYNC", "START")
      /\ Before(cw, "SYNC_END", "SYNC") => Before(d, "SYNC_END", "SYNC") /\ ~Has(cw, "SYNC_END")
      /\ \A u : Has(cw, u) /\ u # "SYNC" => Has(d, u)
  BY <1>1, ChannelTail
<1>3. Asks(vs) /\ ~Has(cv, "SYNC_ACK") /\ pending = 0
  <2>1. OneRequest(vs, cw, cv, pending)
    BY DEF Fit, Good
  <2>2. ~None(cw, {"SYNC"})
    BY <1>2, HasIsNotNone
  <2>3. Has(cv, "SYNC_ACK") => ~None(cv, {"SYNC_ACK"})
    BY HasIsNotNone
  <2> QED
    BY <2>1, <2>2, <2>3 DEF OneRequest
<1>4. Len(ws) = 1 /\ Last(ws) = ws[1] /\ ws[1] \in Frame
  <2>1. Len(ws) <= 1
    BY <1>2, FitParts DEF Ordered
  <2>2. Len(ws) \in Nat /\ Len(ws) > 0 /\ Last(ws) = ws[Len(ws)]
    BY <1>1, FrontProps
  <2>3. \A n \in Nat : n > 0 /\ n <= 1 => n = 1
    OBVIOUS
  <2>4. Len(ws) = 1
    BY <2>1, <2>2, <2>3
  <2> QED
    BY <1>1, <2>2, <2>4
<1>5. ws[1].kind = "invoke"
  <2>1. ~WrapperRuns(ws)
    BY <1>4, WaitingKinds DEF WrapperRuns, Serving
  <2>2. ~BetweenTurns(ws, vs, cw, cv, sync)
    BY <1>2, <1>3, FitParts DEF BetweenTurns, Ordered
  <2>3. CASE Height(vs) >= 1
    <3>1. vs[Shift(vs) + 1].kind = Partner(ws[1].kind)
      BY <1>4, <2>3, FitParts DEF Matched
    <3>2. Shift(vs) = 1 /\ 2 \in 1..Len(vs)
      BY <1>3, <2>3, FitParts DEF Shift
    <3>3. vs[2].kind # "main_loop"
      BY <3>2, FitParts DEF ViewerOrder
    <3>4. ws[1].kind # "handle"
      BY <1>4, WaitingKinds DEF Serving
    <3> QED
      BY <3>1, <3>2, <3>3, <3>4 DEF Partner
  <2>4. CASE Height(vs) = 0
    <3>1. AtWrapper(ws, vs, cw, cv, sync) \/ AtViewer(ws, vs, cw, cv, sync)
      BY <2>2, FitParts DEF Placed
    <3> QED
      BY <1>4, <2>1, <2>4, <3>1 DEF AtWrapper, AtViewer
  <2> QED
    BY <2>3, <2>4, FitParts
<1>6. Calls(ws) = 1
  BY <1>1, <1>4, <1>5, OneFrame
<1> HIDE DEF d
<1>7. Placed(ws, vs, d, cv, sync)
  <2>1. /\ Has(cw, "START") => Has(d, "START")
        /\ Has(cw, "REPLY") => Has(d, "REPLY")
        /\ Has(cw, "SYNC_END") => Has(d, "SYNC_END")
    BY <1>2
  <2>2. AtWrapper(ws, vs, cw, cv, sync) => AtWrapper(ws, vs, d, cv, sync)
    BY <2>1 DEF AtWrapper
  <2>3. AtViewer(ws, vs, cw, cv, sync) => AtViewer(ws, vs, d, cv, sync)
    BY <2>1 DEF AtViewer
  <2>4. BetweenTurns(ws, vs, cw, cv, sync) => BetweenTurns(ws, vs, d, cv, sync)
    BY <2>1 DEF BetweenTurns
  <2> QED
    BY <2>2, <2>3, <2>4, FitParts DEF Placed
<1>8. Ordered(ws, d, cv, Calls(ws))
  BY <1>2, <1>6, FitParts DEF Ordered
<1> QED
  BY <1>6, <1>7, <1>8, FitParts DEF Aligned, d

LEMMA SyncIsAnsweredFit ==
    ASSUME NEW ws, NEW vs, NEW cw, NEW cv, NEW pending, NEW sync,
           Fit(ws, vs, cw, cv, pending, sync), ws = <<>>, Asks(vs),
           NEW f \in Frame, f.kind \in SyncKinds, NEW msg \in Message, msg.tag = "SYNC_ACK",
           NEW d, NEW p, Ordered(ws, d, cv, p)
    PROVE  Aligned(Append(ws, f), vs, d, Append(cv, msg), p, sync)
<1> DEFINE t == Append(ws, f)
           c == Append(cv, msg)
<1>1. /\ ws \in Seq(Frame) /\ vs \in Seq(Frame) /\ cv \in Seq(Message) /\ Len(ws) = 0
      /\ sync \in BOOLEAN
  BY DEF Fit
<1>2. Height(vs) = 0 /\ Calls(vs) = Calls(ws) + Turn(sync)
  BY <1>1, FitParts, Places DEF WrapperRuns
<1>3. t \in Seq(Frame) /\ Len(t) = 1 /\ t[1] = f
  BY <1>1, AppendProps
<1>4. Has(c, "SYNC_ACK") /\ \A T : Only(cv, T) /\ "SYNC_ACK" \in T => Only(c, T)
  BY <1>1, ChannelAppend
<1> HIDE DEF t, c
<1>5. Calls(t) = 0
  BY <1>3, OneFrame DEF SyncKinds
<1>6. Len(vs) = 1 /\ vs[1].kind = "rpc_sync"
  <2>1. Shift(vs) = 1 /\ vs[1].kind = "rpc_sync"
    BY DEF Shift, Asks
  <2>2. Shift(vs) + Height(vs) = Len(vs)
    BY FitParts
  <2> QED
    BY <1>2, <2>1, <2>2
<1>7. Calls(vs) = 0 /\ Calls(ws) = 0
  BY <1>1, <1>6, OneFrame, CallsOfEmpty
<1>8. ~sync
  BY <1>1, <1>2, <1>7 DEF Turn
<1>9. BetweenTurns(t, vs, d, c, sync)
  BY <1>2, <1>3, <1>4, <1>5, <1>7, <1>8 DEF BetweenTurns
<1>10. Matched(t, vs) /\ WrapperAlternates(t)
  BY <1>2, <1>3 DEF Matched, WrapperAlternates
<1>11. Ordered(t, d, c, p)
  BY <1>3, <1>4 DEF Ordered
<1> QED
  BY <1>9, <1>10, <1>11, FitParts DEF Aligned, Placed, t, c

LEMMA TurnIsAskedForFit ==
    ASSUME NEW ws, NEW vs, NEW cw, NEW cv, NEW pending, NEW sync,
           Fit(ws, vs, cw, cv, pending, sync), vs = <<>>,
           NEW t \in Seq(Frame), Len(t) = 1, t[1].kind = "rpc_sync",
           NEW msg \in Message, msg.tag = "SYNC"
    PROVE  Aligned(ws, t, Append(cw, msg), cv, pending, sync)
<1> DEFINE d == Append(cw, msg)
<1>1. cw \in Seq(Message) /\ Len(vs) = 0
  BY DEF Fit
<1>2. /\ \A T : Only(cw, T) /\ "SYNC" \in T => Only(d, T)
      /\ \A u : Has(cw, u) => Has(d, u)
      /\ Before(cw, "SYNC", "START") /\ ~Has(cw, "START") => Before(d, "SYNC", "START")
      /\ Before(cw, "SYNC_END", "SYNC") => Before(d, "SYNC_END", "SYNC")
  BY <1>1, ChannelAppend
<1>3. Height(vs) = 0 /\ Calls(vs) = 0
  BY <1>1, FitParts, CallsOfEmpty
<1>4. Height(t) = 0 /\ Calls(t) = 0
  BY OneFrame
<1> HIDE DEF d
<1>5. ~ViewerRuns(vs) /\ Len(ws) \in Nat
  BY FitParts DEF ViewerRuns
<1>7. AtWrapper(ws, vs, cw, cv, sync) => AtWrapper(ws, t, d, cv, sync) /\ Len(ws) = 0
  <2> SUFFICES ASSUME AtWrapper(ws, vs, cw, cv, sync)
               PROVE  AtWrapper(ws, t, d, cv, sync) /\ Len(ws) = 0
    OBVIOUS
  <2>1. WrapperRuns(ws) /\ Len(ws) = 0 /\ Calls(vs) = Calls(ws) + Turn(sync)
    BY <1>3, <1>5 DEF AtWrapper
  <2> QED
    BY <1>3, <1>4, <2>1 DEF AtWrapper
<1>8. AtViewer(ws, vs, cw, cv, sync) => AtViewer(ws, t, d, cv, sync) /\ Len(ws) = 1
  <2> SUFFICES ASSUME AtViewer(ws, vs, cw, cv, sync)
               PROVE  AtViewer(ws, t, d, cv, sync) /\ Len(ws) = 1
    OBVIOUS
  <2>1. /\ Calls(ws) = Calls(vs) + 1 - Turn(sync)
        /\ Has(cv, "START") \/ Has(cw, "REPLY")
        /\ Len(ws) = Height(vs) + 1 /\ ws[Len(ws)].kind = "invoke"
    BY <1>5 DEF AtViewer
  <2>2. Has(cv, "START") \/ Has(d, "REPLY")
    BY <1>2, <2>1
  <2>3. Calls(ws) = Calls(t) + 1 - Turn(sync) /\ Len(ws) = Height(t) + 1 /\ Len(ws) = 1
    BY <1>3, <1>4, <2>1
  <2> QED
    BY <2>1, <2>2, <2>3 DEF AtViewer
<1>9. BetweenTurns(ws, vs, cw, cv, sync) => BetweenTurns(ws, t, d, cv, sync) /\ Len(ws) = 1
  BY <1>2, <1>3, <1>4 DEF BetweenTurns
<1>10. Placed(ws, t, d, cv, sync) /\ Len(ws) <= 1
  <2>1. Placed(ws, vs, cw, cv, sync)
    BY FitParts
  <2>2. 0 <= 1 /\ 1 <= 1
    OBVIOUS
  <2> QED
    BY <1>7, <1>8, <1>9, <2>1, <2>2 DEF Placed
<1>11. ~Has(cw, "START")
  BY <1>3, <1>5, FitParts, Places
<1>12. Ordered(ws, d, cv, pending)
  BY <1>2, <1>10, <1>11, FitParts DEF Ordered
<1>13. Matched(ws, t) /\ ViewerAlternates(t) /\ ~InMainLoop(t)
  BY <1>4 DEF Matched, ViewerAlternates, InMainLoop
<1> QED
  BY <1>10, <1>12, <1>13, FitParts DEF Aligned, d

LEMMA TurnEndsFit ==
    ASSUME NEW ws, NEW vs, NEW cw, NEW cv, NEW pending,
           Fit(ws, vs, cw, cv, pending, TRUE),
           Len(vs) = 1, vs[1].kind = "main_loop",
           NEW msg \in Message, msg.tag = "SYNC_END"
    PROVE  Aligned(ws, <<>>, Append(cw, msg), cv, pending, FALSE) /\ Calls(ws) = 0
<1> DEFINE d == Append(cw, msg)
<1>1. cw \in Seq(Message) /\ vs \in Seq(Frame) /\ ws \in Seq(Frame)
  BY DEF Fit
<1>2. /\ \A T : Only(cw, T) /\ "SYNC_END" \in T => Only(d, T)
      /\ Has(d, "SYNC_END")
      /\ Has(d, "SYNC") => Has(cw, "SYNC")
      /\ Before(cw, "SYNC", "START") => Before(d, "SYNC", "START")
      /\ Before(cw, "SYNC_END", "SYNC") /\ ~Has(cw, "SYNC") => Before(d, "SYNC_END", "SYNC")
  BY <1>1, ChannelAppend
<1>3. ~Has(cw, "SYNC")
  <2>1. Has(cw, "SYNC") => ~None(cw, {"SYNC"})
    BY HasIsNotNone
  <2> QED
    BY <2>1 DEF Fit, Good, OneRequest, Asks
<1> HIDE DEF d
<1>4. ViewerRuns(vs) /\ Height(vs) = 1 /\ Shift(vs) = 0 /\ Calls(vs) = 0
  BY <1>1, OneFrame DEF ViewerRuns, Serving
<1>5. Len(ws) = 1 /\ Calls(ws) = 0
  <2>a. OneToken(ws, vs, cw, cv) /\ Placed(ws, vs, cw, cv, TRUE)
    BY FitParts, Zenon
  <2>1. Height(vs) = Len(ws) /\ Calls(ws) = Calls(vs) + 1 - Turn(TRUE)
    BY <1>4, <2>a, Places, Zenon
  <2>2. Turn(TRUE) = 1
    BY DEF Turn
  <2>3. Calls(ws) = 0 + 1 - 1
    BY <1>4, <2>1, <2>2, Zenon
  <2>4. 0 + 1 - 1 = 0
    OBVIOUS
  <2> QED
    BY <1>4, <2>1, <2>3, <2>4, Zenon
<1>6. ws[1].kind \in SyncKinds
  <2>0. 1 \in 1..Len(ws) /\ 1 <= Height(vs) /\ Shift(vs) + 1 = 1
    BY <1>4, <1>5
  <2>1. "main_loop" = Partner(ws[1].kind)
    <3>1. Matched(ws, vs)
      BY FitParts
    <3> QED
      BY <2>0, <3>1 DEF Matched
  <2>2. ws[1] \in Frame
    BY <1>1, <2>0
  <2>3. ws[1].kind \in Waiting \cup Serving
    BY <2>2 DEF Frame
  <2>4. ws[1].kind \notin {"rpc_sync", "main_loop"}
    <3>1. WrapperOrder(ws)
      BY FitParts
    <3> QED
      BY <2>0, <3>1 DEF WrapperOrder
  <2> QED
    BY <2>1, <2>3, <2>4 DEF Partner, SyncKinds, Waiting, Awaits, Serving
<1>7. Len(<<>>) = 0 /\ Calls(<<>>) = 0 /\ Height(<<>>) = 0
  BY CallsOfEmpty DEF Height, Shift, Asks
<1>8. BetweenTurns(ws, <<>>, d, cv, FALSE)
  BY <1>2, <1>5, <1>6, <1>7 DEF BetweenTurns
<1>9. Matched(ws, <<>>) /\ ViewerAlternates(<<>>) /\ ~InMainLoop(<<>>)
  BY <1>7 DEF Matched, ViewerAlternates, InMainLoop
<1>10. Ordered(ws, d, cv, pending)
  BY <1>2, <1>3, <1>5, FitParts DEF Ordered
<1> QED
  BY <1>5, <1>8, <1>9, <1>10, FitParts DEF Aligned, Placed, d

-----------------------------------------------------------------------------
(***************************************************************************)
(* The steps.  While the stacks fit, every step of a connection without    *)
(* errors is one of the moves below, or the death of a process.            *)
(***************************************************************************)
FitNow ==
    /\ Fit(stack["wrapper"], stack["viewer"], chan["wrapper"], chan["viewer"],
           pending_sync_depth, is_sync)
    /\ Counted /\ g_is_running /\ KilledIsKnown /\ Healthy

LEMMA FitNowParts ==
    ASSUME TypeOK, KilledIsKnown, Healthy, GoodNow, AlignedNow, Counted, g_is_running
    PROVE  FitNow
  BY PeerValues DEF FitNow, Fit, GoodNow, AlignedNow, TypeOK

LEMMA TopAwaits ==
    ASSUME NEW p \in Peer, stack[p] \in Seq(Frame), Len(stack[p]) > 0,
           stack[p][Len(stack[p])].kind \in Waiting
    PROVE  Blocked(p) /\ AwaitedTag(p) = Awaits[stack[p][Len(stack[p])].kind]
<1>1. stack[p] # <<>> /\ Last(stack[p]) = stack[p][Len(stack[p])]
  BY DEF Last
<1> QED
  BY <1>1 DEF Blocked, AwaitedTag

LEMMA AwaitsTags ==
    /\ Awaits["invoke"] = "REPLY" /\ Awaits["rpc_sync"] = "SYNC_ACK"
    /\ Awaits["dispatch_sync"] = "SYNC_END" /\ Awaits["pending_sync"] = "SYNC_END"
    /\ "invoke" \in Waiting /\ "rpc_sync" \in Waiting
    /\ "dispatch_sync" \in Waiting /\ "pending_sync" \in Waiting
  BY DEF Awaits, Waiting

LEMMA RequestParts ==
    ASSUME FitNow
    PROVE  /\ Has(chan["wrapper"], "SYNC") => Asks(stack["viewer"]) /\ pending_sync_depth = 0
           /\ Has(chan["viewer"], "SYNC_ACK") => Asks(stack["viewer"])
           /\ pending_sync_depth # 0 => Asks(stack["viewer"]) /\ ~Has(chan["wrapper"], "SYNC")
<1>1. OneRequest(stack["viewer"], chan["wrapper"], chan["viewer"], pending_sync_depth)
  BY DEF FitNow, Fit, Good
<1>2. Has(chan["wrapper"], "SYNC") => ~None(chan["wrapper"], {"SYNC"})
  BY HasIsNotNone
<1>3. Has(chan["viewer"], "SYNC_ACK") => ~None(chan["viewer"], {"SYNC_ACK"})
  BY HasIsNotNone
<1> QED
  BY <1>1, <1>2, <1>3 DEF OneRequest

LEMMA WrapperCanRead ==
    ASSUME FitNow, chan["wrapper"] # <<>>
    PROVE  Head(chan["wrapper"]).tag \in Acceptable("wrapper")
<1> DEFINE ws == stack["wrapper"]
           vs == stack["viewer"]
           cw == chan["wrapper"]
           cv == chan["viewer"]
           tag == Head(cw).tag
<1>1. /\ Fit(ws, vs, cw, cv, pending_sync_depth, is_sync)
      /\ ws \in Seq(Frame) /\ cw \in Seq(Message) /\ "wrapper" \in Peer
  BY DEF FitNow, Fit, Peer
<1>2. Has(cw, tag) /\ tag \in {"SYNC", "SYNC_END", "START", "REPLY"}
  BY <1>1, FitParts, ChannelTail DEF Ordered
<1>3. CASE tag = "START"
  BY <1>3 DEF Acceptable
<1>4. CASE tag = "SYNC"
  <2>1. pending_sync_depth = 0
    BY <1>2, <1>4, RequestParts
  <2> QED
    BY <1>4, <2>1 DEF Acceptable
<1>5. CASE tag = "SYNC_END"
  <2>1. Len(ws) = 1 /\ ws[1].kind \in SyncKinds
    BY <1>1, <1>2, <1>5, FitParts, Places DEF BetweenTurns
  <2>2. ws[Len(ws)].kind \in Waiting /\ Awaits[ws[Len(ws)].kind] = "SYNC_END" /\ Len(ws) > 0
    BY <2>1, AwaitsTags DEF SyncKinds
  <2>3. Blocked("wrapper") /\ AwaitedTag("wrapper") = "SYNC_END"
    BY <1>1, <2>2, TopAwaits
  <2> QED
    BY <1>5, <2>3 DEF Acceptable
<1>6. CASE tag = "REPLY"
  <2>1. Len(ws) = Height(vs) + 1 /\ ws[Len(ws)].kind = "invoke" /\ Height(vs) \in Nat
    BY <1>1, <1>2, <1>6, FitParts, Places
  <2>2. ws[Len(ws)].kind \in Waiting /\ Awaits[ws[Len(ws)].kind] = "REPLY" /\ Len(ws) > 0
    BY <2>1, AwaitsTags
  <2>3. Blocked("wrapper") /\ AwaitedTag("wrapper") = "REPLY"
    BY <1>1, <2>2, TopAwaits
  <2> QED
    BY <1>6, <2>3 DEF Acceptable
<1> QED
  BY <1>2, <1>3, <1>4, <1>5, <1>6

LEMMA ViewerCanRead ==
    ASSUME FitNow, chan["viewer"] # <<>>
    PROVE  Head(chan["viewer"]).tag \in Acceptable("viewer")
<1> DEFINE ws == stack["wrapper"]
           vs == stack["viewer"]
           cw == chan["wrapper"]
           cv == chan["viewer"]
           tag == Head(cv).tag
<1>1. /\ Fit(ws, vs, cw, cv, pending_sync_depth, is_sync)
      /\ vs \in Seq(Frame) /\ cv \in Seq(Message) /\ "viewer" \in Peer
  BY DEF FitNow, Fit, Peer
<1>2. Has(cv, tag) /\ tag \in {"SYNC_ACK", "START", "REPLY"}
  BY <1>1, FitParts, ChannelTail DEF Ordered
<1>3. CASE tag = "START"
  BY <1>3 DEF Acceptable
<1>4. CASE tag = "SYNC_ACK"
  <2>1. Asks(vs)
    BY <1>2, <1>4, RequestParts
  <2>2. Height(vs) = 0
    BY <1>1, <1>2, <1>4, FitParts, Places DEF BetweenTurns
  <2>3. Shift(vs) = 1 /\ vs[1].kind = "rpc_sync" /\ Shift(vs) + Height(vs) = Len(vs)
    BY <1>1, <2>1, FitParts DEF Shift, Asks
  <2>4. Len(vs) = 1
    BY <2>2, <2>3
  <2>5. vs[Len(vs)].kind \in Waiting /\ Awaits[vs[Len(vs)].kind] = "SYNC_ACK" /\ Len(vs) > 0
    BY <2>3, <2>4, AwaitsTags
  <2>6. Blocked("viewer") /\ AwaitedTag("viewer") = "SYNC_ACK"
    BY <1>1, <2>5, TopAwaits
  <2> QED
    BY <1>4, <2>6 DEF Acceptable
<1>5. CASE tag = "REPLY"
  <2>a. /\ OneToken(ws, vs, cw, cv) /\ Placed(ws, vs, cw, cv, is_sync) /\ Len(ws) \in Nat
        /\ Shift(vs) \in {0, 1} /\ Shift(vs) + Height(vs) = Len(vs)
    BY <1>1, FitParts
  <2>b. Has(cv, "REPLY")
    BY <1>2, <1>5
  <2>1. /\ Height(vs) = Len(ws) + 1 /\ vs[Len(vs)].kind = "invoke" /\ Len(ws) \in Nat
        /\ Shift(vs) \in {0, 1} /\ Shift(vs) + Height(vs) = Len(vs)
    BY <2>a, <2>b, Places, Zenon
  <2>2. Len(vs) > 0
    BY <2>1
  <2>3. vs[Len(vs)].kind \in Waiting /\ Awaits[vs[Len(vs)].kind] = "REPLY"
    BY <2>1, AwaitsTags
  <2>4. Blocked("viewer") /\ AwaitedTag("viewer") = "REPLY"
    BY <1>1, <2>2, <2>3, TopAwaits
  <2> QED
    BY <1>5, <2>4 DEF Acceptable
<1> QED
  BY <1>2, <1>3, <1>4, <1>5

\* The assert()s of rpc_dispatch_pending_sync: a SYNC that is noted was noted in
\* the wrapper's outermost call, and nothing is left to read when it has returned.
LEMMA PendingIsSafe ==
    ASSUME TypeOK, FitNow, HasPendingSync
    PROVE  PendingSyncAssert /\ stack["wrapper"] = <<>>
<1> DEFINE ws == stack["wrapper"]
           vs == stack["viewer"]
           cw == chan["wrapper"]
           cv == chan["viewer"]
<1>1. /\ Fit(ws, vs, cw, cv, pending_sync_depth, is_sync)
      /\ ws \in Seq(Frame) /\ cw \in Seq(Message) /\ KilledIsKnown /\ Healthy
  BY DEF FitNow, Fit
<1>2. WrapperRuns(ws) /\ alive["viewer"]
  BY <1>1, RunningIsRuns DEF HasPendingSync
<1>3. pending_sync_depth = 1
  BY <1>1, FitParts DEF HasPendingSync, rpc_has_pending_sync, Ordered
<1>4. cw = <<>>
  <2> SUFFICES ASSUME cw # <<>> PROVE FALSE
    OBVIOUS
  <2>1. Has(cw, Head(cw).tag) /\ Head(cw).tag \in {"SYNC", "SYNC_END", "START", "REPLY"}
    BY <1>1, FitParts, ChannelTail DEF Ordered
  <2>2. Head(cw).tag # "SYNC"
    BY <1>3, <2>1, RequestParts
  <2>3. Head(cw).tag \in Control
    BY <2>1, <2>2, ControlTags
  <2> QED
    BY <1>1, <1>2, <2>1, <2>3, FitParts, OnePlace
<1>5. ws = <<>>
  <2>1. Calls(ws) <= 0 /\ Len(MethodsOf(ws, "handle")) <= 0
    BY DEF HasPendingSync, rpc_has_pending_sync, FitNow, Counted, Calls, Peer
  <2> SUFFICES ASSUME ws # <<>> PROVE FALSE
    OBVIOUS
  <2>2. Front(ws) \in Seq(Frame) /\ Extends(ws, Front(ws)) /\ Last(ws) = ws[Len(ws)]
    BY <1>1, Popped
  <2>3. ws[Len(ws)].kind = "handle"
    <3>1. ws[Len(ws)].kind \in Serving
      BY <1>2, <2>2 DEF WrapperRuns
    <3>2. Len(ws) \in 1..Len(ws)
      BY <1>1, FrontProps
    <3>3. ws[Len(ws)].kind # "main_loop"
      BY <1>1, <3>2, FitParts DEF WrapperOrder
    <3> QED
      BY <3>1, <3>3 DEF Serving
  <2>4. MethodsOf(ws, "handle") = Append(MethodsOf(Front(ws), "handle"), ws[Len(ws)].method)
    BY <1>1, <2>2, <2>3, MethodsOfExtends
  <2>5. MethodsOf(Front(ws), "handle") \in Seq(Names) /\ ws[Len(ws)].method \in Names
    <3>1. ws[Len(ws)] \in Frame
      BY <1>1, Popped
    <3> QED
      BY <2>2, <3>1, MethodsOfTypes DEF Frame, Names
  <2>6. Len(MethodsOf(ws, "handle")) > 0
    BY <2>4, <2>5, AppendProps
  <2> QED
    BY <2>1, <2>4, <2>5, <2>6
<1> QED
  BY <1>2, <1>3, <1>4, <1>5 DEF PendingSyncAssert, rpc_wait_dispatch

MoveOf(p) ==
    \/ \E m \in Methods : Invoke(p, m)
    \/ SendReply(p)
    \/ DispatchCall(p)
    \/ ReceiveReply(p)

SyncMove ==
    \/ ReceiveSyncAck
    \/ ReceiveSyncEnd
    \/ DeferSync
    \/ DispatchSync
    \/ StartSync
    \/ EndSync
    \/ DispatchPendingSync

Move == (\E p \in Peer : MoveOf(p)) \/ SyncMove \/ UNCHANGED vars

LEMMA StepIsMove ==
    ASSUME TypeOK, FitNow, Faults \subseteq {"crash"}, [Next]_vars
    PROVE  Move \/ (\E p \in Peer : Crash(p))
<1>1. /\ alive["wrapper"] /\ alive["viewer"] /\ g_is_running /\ ~plugin_killed
      /\ \A p \in Peer : alive[p] /\ alive[Other(p)] /\ status[p] = "ACTIVE"
  BY PeerOther DEF FitNow, Healthy, KilledIsKnown, Peer
<1>2. "timeout" \notin Faults /\ "handler_error" \notin Faults
  OBVIOUS
<1>3. ASSUME NEW p \in Peer, chan[p] # <<>>
      PROVE  Head(chan[p]).tag \in Acceptable(p) /\ Head(chan[p]).tag # "HEADER"
  <2>1. CASE p = "wrapper"
    <3>1. Only(chan["wrapper"], {"SYNC", "SYNC_END", "START", "REPLY"})
      BY FitParts DEF FitNow, Ordered
    <3>2. Head(chan["wrapper"]).tag \in {"SYNC", "SYNC_END", "START", "REPLY"}
      BY <1>3, <2>1, <3>1, PeerValues, ChannelTail
    <3> QED
      BY <1>3, <2>1, <3>2, WrapperCanRead
  <2>2. CASE p = "viewer"
    <3>1. Only(chan["viewer"], {"SYNC_ACK", "START", "REPLY"})
      BY FitParts DEF FitNow, Ordered
    <3>2. Head(chan["viewer"]).tag \in {"SYNC_ACK", "START", "REPLY"}
      BY <1>3, <2>2, <3>1, PeerValues, ChannelTail
    <3> QED
      BY <1>3, <2>2, <3>2, ViewerCanRead
  <2> QED
    BY <2>1, <2>2 DEF Peer
<1>4. ASSUME NEW p \in Peer, Step(p) PROVE MoveOf(p) \/ Crash(p)
  <2>1. ~InvokeFails(p)
    BY <1>1 DEF InvokeFails
  <2>2. ~SendReplyFails(p)
    BY <1>1 DEF SendReplyFails
  <2>3. ~HandlerFails(p) /\ ~Timeout(p)
    BY <1>2 DEF HandlerFails, Timeout
  <2>4. ~DispatchTruncated(p)
    BY <1>1, <1>3 DEF DispatchTruncated, HeadIs
  <2>5. ~ReceiveUnexpected(p)
    BY <1>3 DEF ReceiveUnexpected
  <2>6. ~ReceiveEOF(p)
    BY <1>1 DEF ReceiveEOF
  <2> QED
    BY <1>4, <2>1, <2>2, <2>3, <2>4, <2>5, <2>6 DEF Step, MoveOf
<1>5. ~DispatchSyncFails
  BY <1>1 DEF DispatchSyncFails, Other
<1>6. ~PendingSyncAbort
  BY PendingIsSafe DEF PendingSyncAbort
<1>7. ~ViewerExit /\ ~ViewerKilled
  BY <1>1 DEF ViewerExit, ViewerKilled
<1>8. ~Terminated
  BY <1>1 DEF Terminated
<1> QED
  BY <1>4, <1>5, <1>6, <1>7, <1>8 DEF Next, Move, SyncMove

\* What a move leaves alone.
LEMMA MoveIsHealthy ==
    ASSUME TypeOK, FitNow, Move
    PROVE  /\ UNCHANGED <<alive, status, plugin_killed, g_is_running>>
           /\ Healthy' /\ KilledIsKnown'
<1>1. alive["wrapper"] /\ alive["viewer"]
  BY DEF FitNow, Healthy, Peer
<1>2. UNCHANGED <<alive, status, plugin_killed, g_is_running>>
  <2>1. ASSUME NEW p \in Peer, MoveOf(p)
        PROVE  UNCHANGED <<alive, status, plugin_killed, g_is_running>>
    BY <2>1 DEF MoveOf, Invoke, SendReply, DispatchCall, ReceiveReply
  <2>2. CASE ReceiveSyncAck \/ ReceiveSyncEnd \/ DeferSync \/ DispatchSync
    BY <2>2 DEF ReceiveSyncAck, ReceiveSyncEnd, DeferSync, DispatchSync
  <2>3. CASE StartSync
    BY <1>1, <2>3 DEF StartSync, Other
  <2>4. CASE EndSync
    <3>1. stack["viewer"] # <<>> /\ Last(stack["viewer"]).kind = "main_loop"
      BY <2>4 DEF EndSync
    <3>2. is_sync
      <4> DEFINE vs == stack["viewer"]
      <4>1. vs \in Seq(Frame) /\ ViewerOrder(vs) /\ (InMainLoop(vs) => is_sync)
        BY PeerValues, FitParts DEF FitNow
      <4>2. Last(vs) = vs[Len(vs)] /\ Len(vs) \in Nat /\ Len(vs) > 0
        BY <3>1, <4>1, FrontProps
      <4>3. Len(vs) \in 1..Len(vs) /\ vs[Len(vs)].kind = "main_loop"
        BY <3>1, <4>2
      <4> HIDE DEF vs
      <4>4. Len(vs) = 1
        BY <4>1, <4>3 DEF ViewerOrder
      <4> QED
        BY <4>1, <4>3, <4>4 DEF InMainLoop
    <3> QED
      BY <1>1, <2>4, <3>2 DEF EndSync, Other
  <2>5. CASE DispatchPendingSync
    BY <2>5 DEF DispatchPendingSync
  <2>6. CASE UNCHANGED vars
    BY <2>6 DEF vars
  <2> QED
    BY <2>1, <2>2, <2>3, <2>4, <2>5, <2>6 DEF Move, SyncMove
<1> QED
  BY <1>2 DEF FitNow, Healthy, KilledIsKnown

\* A connection that is in error does not recover.
LEMMA ErrorsStay ==
    ASSUME TypeOK, [Next]_vars, Healthy'
    PROVE  Healthy
<1>1. ASSUME UNCHANGED alive, UNCHANGED status \/ \E p, e : RpcError(p, e)
      PROVE  Healthy
  <2>1. ASSUME NEW p, NEW e, RpcError(p, e), NEW q \in Peer PROVE status[q] = "ACTIVE"
    BY <2>1 DEF RpcError, SetStatus, TypeOK, Healthy
  <2> QED
    BY <1>1, <2>1 DEF Healthy
<1>2. ASSUME NEW p, NEW u, Die(p, u) PROVE Healthy
  BY <1>2 DEF Die, TypeOK, Healthy
<1>3. ASSUME NEW p, NEW s, NEW e, NEW raised, Fail(p, s, e, raised)
      PROVE  UNCHANGED status \/ RpcError(p, e)
  BY <1>3 DEF Fail
<1>4. ASSUME NEW p \in Peer, Step(p) PROVE Healthy
  <2>1. CASE MoveOf(p)
    BY <1>1, <2>1 DEF MoveOf, Invoke, SendReply, DispatchCall, ReceiveReply
  <2>2. CASE InvokeFails(p)
    BY <1>1, <2>2 DEF InvokeFails
  <2>3. CASE SendReplyFails(p)
    BY <1>1, <1>3, <2>3 DEF SendReplyFails
  <2>4. CASE HandlerFails(p)
    BY <1>1, <1>3, <2>4 DEF HandlerFails
  <2>5. CASE DispatchTruncated(p)
    BY <1>1, <1>3, <2>5 DEF DispatchTruncated
  <2>6. CASE ReceiveUnexpected(p)
    BY <1>1, <1>3, <2>6 DEF ReceiveUnexpected
  <2>7. CASE ReceiveEOF(p)
    BY <1>1, <1>3, <2>7 DEF ReceiveEOF
  <2>8. CASE Timeout(p)
    BY <1>1, <1>3, <2>8 DEF Timeout
  <2>9. CASE Crash(p)
    BY <1>2, <2>9 DEF Crash
  <2> QED
    BY <1>4, <2>1, <2>2, <2>3, <2>4, <2>5, <2>6, <2>7, <2>8, <2>9 DEF Step, MoveOf
<1>5. CASE ReceiveSyncAck \/ ReceiveSyncEnd \/ DeferSync \/ DispatchSync \/ DispatchPendingSync
  BY <1>1, <1>5 DEF ReceiveSyncAck, ReceiveSyncEnd, DeferSync, DispatchSync, DispatchPendingSync
<1>6. CASE DispatchSyncFails
  BY <1>1, <1>3, <1>6 DEF DispatchSyncFails
<1>7. CASE StartSync
  BY <1>1, <1>3, <1>7 DEF StartSync
<1>8. CASE EndSync
  BY <1>1, <1>8 DEF EndSync
<1>9. CASE PendingSyncAbort \/ ViewerExit \/ ViewerKilled
  BY <1>2, <1>9 DEF PendingSyncAbort, ViewerExit, ViewerKilled
<1>10. CASE Terminated \/ UNCHANGED vars
  BY <1>1, <1>10 DEF Terminated, vars
<1> QED
  BY <1>4, <1>5, <1>6, <1>7, <1>8, <1>9, <1>10 DEF Next

-----------------------------------------------------------------------------
(* The counters of an end follow its stack.                                  *)

Count(s, k) == Len(MethodsOf(s, k))

LEMMA CountExtends ==
    ASSUME NEW s \in Seq(Frame), NEW t \in Seq(Frame), Extends(t, s), NEW k
    PROVE  /\ Count(s, k) \in Nat /\ Count(t, k) \in Nat
           /\ t[Len(t)].kind = k => Count(t, k) = Count(s, k) + 1
           /\ t[Len(t)].kind # k => Count(t, k) = Count(s, k)
<1>1. Count(s, k) \in Nat /\ Count(t, k) \in Nat /\ MethodsOf(s, k) \in Seq(Names)
  BY MethodsOfTypes DEF Count
<1>2. t[Len(t)].method \in Names
  <2>1. Len(t) \in 1..Len(t)
    BY DEF Extends
  <2>2. t[Len(t)] \in Frame
    BY <2>1
  <2> QED
    BY <2>2 DEF Frame, Names
<1>3. CASE t[Len(t)].kind = k
  <2>1. MethodsOf(t, k) = Append(MethodsOf(s, k), t[Len(t)].method)
    BY <1>3, MethodsOfExtends
  <2> QED
    BY <1>1, <1>2, <1>3, <2>1, AppendProps DEF Count
<1>4. CASE t[Len(t)].kind # k
  <2>1. MethodsOf(t, k) = MethodsOf(s, k)
    BY <1>4, MethodsOfExtends
  <2> QED
    BY <1>1, <1>4, <2>1 DEF Count
<1> QED
  BY <1>1, <1>3, <1>4

CountedAt(p) ==
    /\ invoke_depth[p] = Count(stack[p], "invoke")
    /\ handle_depth[p] = Count(stack[p], "handle")
    /\ dispatch_depth[p] = handle_depth[p]

LEMMA CountedParts ==
    Counted <=> \A p \in Peer : CountedAt(p)
  BY DEF Counted, CountedAt, Count

LEMMA CountedOfOther ==
    ASSUME NEW p \in Peer, Counted, CountedAt(p)', stack'[Other(p)] = stack[Other(p)],
           invoke_depth'[Other(p)] = invoke_depth[Other(p)],
           handle_depth'[Other(p)] = handle_depth[Other(p)],
           dispatch_depth'[Other(p)] = dispatch_depth[Other(p)]
    PROVE  Counted'
<1>1. CountedAt(Other(p))
  BY PeerOther, CountedParts
<1>2. CountedAt(Other(p))'
  BY <1>1 DEF CountedAt
<1>3. \A q \in Peer : q = p \/ q = Other(p)
  BY PeerOther
<1>4. \A q \in Peer : CountedAt(q)'
  BY <1>2, <1>3
<1> QED
  BY <1>4 DEF Counted, CountedAt, Count

LEMMA CountedMove ==
    ASSUME TypeOK, Counted, NEW p \in Peer, MoveOf(p)
    PROVE  Counted'
<1>0. /\ stack[p] \in Seq(Frame) /\ Other(p) \in Peer /\ Other(p) # p /\ CountedAt(p)
      /\ chan[p] \in Seq(Message)
  BY PeerOther, CountedParts DEF TypeOK
<1>a. /\ stack \in [Peer -> Seq(Frame)] /\ invoke_depth \in [Peer -> Int]
      /\ handle_depth \in [Peer -> Int] /\ dispatch_depth \in [Peer -> Int]
  BY DEF TypeOK
<1>1. ASSUME NEW m \in Methods, Invoke(p, m) PROVE Counted'
  <2> DEFINE f == [kind |-> "invoke", method |-> m]
             t == Append(stack[p], f)
  <2>1. f \in Frame /\ f.kind = "invoke"
    BY CallTypes
  <2>2. t \in Seq(Frame) /\ Extends(t, stack[p]) /\ t[Len(t)] = f
    BY <1>0, <2>1, Pushed
  <2>3. stack' = [stack EXCEPT ![p] = t]
    BY <1>1 DEF Invoke, Push
  <2> HIDE DEF t, f
  <2>4. stack'[p] = t /\ stack'[Other(p)] = stack[Other(p)]
    BY <1>0, <1>a, <2>3
  <2>5. /\ Count(t, "invoke") = Count(stack[p], "invoke") + 1
        /\ Count(t, "handle") = Count(stack[p], "handle")
    BY <1>0, <2>1, <2>2, CountExtends
  <2>6. /\ invoke_depth'[p] = invoke_depth[p] + 1
        /\ invoke_depth'[Other(p)] = invoke_depth[Other(p)]
        /\ UNCHANGED <<handle_depth, dispatch_depth>>
    BY <1>0, <1>1, <1>a DEF Invoke
  <2>7. CountedAt(p)'
    BY <1>0, <2>4, <2>5, <2>6 DEF CountedAt
  <2> QED
    BY <2>4, <2>6, <2>7, CountedOfOther
<1>2. CASE SendReply(p)
  <2> DEFINE t == Front(stack[p])
             s == stack[p]
  <2>1. s # <<>> /\ Last(s).kind = "handle"
    BY <1>2 DEF SendReply
  <2>2. t \in Seq(Frame) /\ Extends(s, t) /\ s[Len(s)].kind = "handle"
    BY <1>0, <2>1, Popped
  <2>3. stack' = [stack EXCEPT ![p] = t]
    BY <1>2 DEF SendReply, Pop
  <2> HIDE DEF t
  <2>4. stack'[p] = t /\ stack'[Other(p)] = stack[Other(p)]
    BY <1>0, <1>a, <2>3
  <2>5. /\ Count(s, "handle") = Count(t, "handle") + 1 /\ Count(t, "handle") \in Nat
        /\ Count(t, "invoke") = Count(s, "invoke")
    BY <1>0, <2>2, CountExtends
  <2>6. /\ handle_depth'[p] = handle_depth[p] - 1
        /\ dispatch_depth'[p] = dispatch_depth[p] - 1
        /\ handle_depth'[Other(p)] = handle_depth[Other(p)]
        /\ dispatch_depth'[Other(p)] = dispatch_depth[Other(p)]
        /\ UNCHANGED invoke_depth
    BY <1>0, <1>2, <1>a DEF SendReply
  <2>7. CountedAt(p)'
    BY <1>0, <2>4, <2>5, <2>6 DEF CountedAt
  <2> QED
    BY <2>4, <2>6, <2>7, CountedOfOther
<1>3. CASE DispatchCall(p)
  <2> DEFINE f == [kind |-> "handle", method |-> Head(chan[p]).method]
             t == Append(stack[p], f)
  <2>1. f \in Frame /\ f.kind = "handle"
    <3>1. chan[p] # <<>>
      BY <1>3 DEF DispatchCall, HeadIs
    <3>2. Head(chan[p]) \in Message
      BY <1>0, <3>1, ChannelTail
    <3>3. Head(chan[p]).method \in Methods \cup {NoMethod}
      BY <3>2 DEF Message
    <3> QED
      BY <3>3, CallTypes
  <2>2. t \in Seq(Frame) /\ Extends(t, stack[p]) /\ t[Len(t)] = f
    BY <1>0, <2>1, Pushed
  <2>3. stack' = [stack EXCEPT ![p] = t]
    BY <1>3 DEF DispatchCall, Push
  <2> HIDE DEF t, f
  <2>4. stack'[p] = t /\ stack'[Other(p)] = stack[Other(p)]
    BY <1>0, <1>a, <2>3
  <2>5. /\ Count(t, "handle") = Count(stack[p], "handle") + 1
        /\ Count(t, "invoke") = Count(stack[p], "invoke")
    BY <1>0, <2>1, <2>2, CountExtends
  <2>6. /\ handle_depth'[p] = handle_depth[p] + 1
        /\ dispatch_depth'[p] = dispatch_depth[p] + 1
        /\ handle_depth'[Other(p)] = handle_depth[Other(p)]
        /\ dispatch_depth'[Other(p)] = dispatch_depth[Other(p)]
        /\ UNCHANGED invoke_depth
    BY <1>0, <1>3, <1>a DEF DispatchCall
  <2>7. CountedAt(p)'
    BY <1>0, <2>4, <2>5, <2>6 DEF CountedAt
  <2> QED
    BY <2>4, <2>6, <2>7, CountedOfOther
<1>4. CASE ReceiveReply(p)
  <2> DEFINE t == Front(stack[p])
             s == stack[p]
  <2>1. s # <<>> /\ Last(s).kind = "invoke"
    BY <1>4, WaitingKinds DEF ReceiveReply, Blocked, AwaitedTag, Awaits
  <2>2. t \in Seq(Frame) /\ Extends(s, t) /\ s[Len(s)].kind = "invoke"
    BY <1>0, <2>1, Popped
  <2>3. stack' = [stack EXCEPT ![p] = t]
    BY <1>4 DEF ReceiveReply, Pop
  <2> HIDE DEF t
  <2>4. stack'[p] = t /\ stack'[Other(p)] = stack[Other(p)]
    BY <1>0, <1>a, <2>3
  <2>5. /\ Count(s, "invoke") = Count(t, "invoke") + 1 /\ Count(t, "invoke") \in Nat
        /\ Count(t, "handle") = Count(s, "handle")
    BY <1>0, <2>2, CountExtends
  <2>6. /\ invoke_depth'[p] = invoke_depth[p] - 1
        /\ invoke_depth'[Other(p)] = invoke_depth[Other(p)]
        /\ UNCHANGED <<handle_depth, dispatch_depth>>
    BY <1>0, <1>4, <1>a DEF ReceiveReply
  <2>7. CountedAt(p)'
    BY <1>0, <2>4, <2>5, <2>6 DEF CountedAt
  <2> QED
    BY <2>4, <2>6, <2>7, CountedOfOther
<1> QED
  BY <1>1, <1>2, <1>3, <1>4 DEF MoveOf

\* The handshake leaves the counters alone, and the frames that count.
LEMMA CountedSync ==
    ASSUME TypeOK, Counted, UNCHANGED depths,
           \A p \in Peer : /\ MethodsOf(stack'[p], "invoke") = MethodsOf(stack[p], "invoke")
                           /\ MethodsOf(stack'[p], "handle") = MethodsOf(stack[p], "handle")
    PROVE  Counted'
  BY DEF Counted, depths

-----------------------------------------------------------------------------
(* The stacks fit after every move.                                          *)

LEMMA AlignedMove ==
    ASSUME TypeOK, FitNow, NEW p \in Peer, MoveOf(p)
    PROVE  AlignedNow'
<1> DEFINE ws == stack["wrapper"]
           vs == stack["viewer"]
           cw == chan["wrapper"]
           cv == chan["viewer"]
<1>0. Fit(ws, vs, cw, cv, pending_sync_depth, is_sync)
  BY DEF FitNow
<1>a. UNCHANGED <<pending_sync_depth, is_sync>>
  BY DEF MoveOf, Invoke, SendReply, DispatchCall, ReceiveReply
<1>b. p = "wrapper" \/ p = "viewer"
  BY DEF Peer
<1>c. KilledIsKnown /\ Healthy
  BY DEF FitNow
<1>1. ASSUME NEW m \in Methods, Invoke(p, m) PROVE AlignedNow'
  <2> DEFINE f == [kind |-> "invoke", method |-> m]
  <2>1. f \in Frame /\ f.kind = "invoke" /\ Call(m) \in Message /\ Call(m).tag = "START"
    BY CallTypes
  <2>2. stack'[p] = Append(stack[p], f) /\ stack'[Other(p)] = stack[Other(p)]
    BY <1>1, Effects DEF Invoke, Push
  <2>3. Running(p) /\ Send(p, Call(m))
    BY <1>1 DEF Invoke
  <2> HIDE DEF f
  <2>4. CASE p = "wrapper"
    <3>1. WrapperRuns(ws)
      BY <1>c, <2>3, <2>4, RunningIsRuns
    <3>2. /\ stack'["wrapper"] = Append(ws, f) /\ stack'["viewer"] = vs
          /\ chan'["wrapper"] = cw /\ chan'["viewer"] = Append(cv, Call(m))
      BY <2>2, <2>3, <2>4, PeerValues, Effects
    <3>3. Aligned(Append(ws, f), vs, cw, Append(cv, Call(m)), pending_sync_depth, is_sync)
      BY <1>0, <2>1, <3>1, WrapperInvokesFit
    <3> QED
      BY <1>a, <3>2, <3>3 DEF AlignedNow
  <2>5. CASE p = "viewer"
    <3>1. ViewerRuns(vs)
      BY <1>c, <2>3, <2>5, RunningIsRuns
    <3>2. /\ stack'["viewer"] = Append(vs, f) /\ stack'["wrapper"] = ws
          /\ chan'["viewer"] = cv /\ chan'["wrapper"] = Append(cw, Call(m))
      BY <2>2, <2>3, <2>5, PeerValues, Effects
    <3>3. Aligned(ws, Append(vs, f), Append(cw, Call(m)), cv, pending_sync_depth, is_sync)
      BY <1>0, <2>1, <3>1, ViewerInvokesFit
    <3> QED
      BY <1>a, <3>2, <3>3 DEF AlignedNow
  <2> QED
    BY <1>b, <2>4, <2>5
<1>2. CASE SendReply(p)
  <2> DEFINE msg == Reply(Last(stack[p]).method)
  <2>1. stack[p] # <<>> /\ Last(stack[p]).kind = "handle" /\ Send(p, msg)
    BY <1>2 DEF SendReply
  <2>2. msg \in Message /\ msg.tag = "REPLY"
    <3>1. Last(stack[p]) \in Frame
      BY <2>1, FrontProps DEF TypeOK
    <3>2. Last(stack[p]).method \in Methods \cup {NoMethod}
      BY <3>1 DEF Frame
    <3> QED
      BY <3>2, CallTypes
  <2>3. stack'[p] = Front(stack[p]) /\ stack'[Other(p)] = stack[Other(p)]
    BY <1>2, Effects DEF SendReply, Pop
  <2> HIDE DEF msg
  <2>4. CASE p = "wrapper"
    <3>1. /\ stack'["wrapper"] = Front(ws) /\ stack'["viewer"] = vs
          /\ chan'["wrapper"] = cw /\ chan'["viewer"] = Append(cv, msg)
      BY <2>1, <2>3, <2>4, PeerValues, Effects
    <3>2. Aligned(Front(ws), vs, cw, Append(cv, msg), pending_sync_depth, is_sync)
      BY <1>0, <2>1, <2>2, <2>4, WrapperRepliesFit
    <3> QED
      BY <1>a, <3>1, <3>2 DEF AlignedNow
  <2>5. CASE p = "viewer"
    <3>1. /\ stack'["viewer"] = Front(vs) /\ stack'["wrapper"] = ws
          /\ chan'["viewer"] = cv /\ chan'["wrapper"] = Append(cw, msg)
      BY <2>1, <2>3, <2>5, PeerValues, Effects
    <3>2. Aligned(ws, Front(vs), Append(cw, msg), cv, pending_sync_depth, is_sync)
      BY <1>0, <2>1, <2>2, <2>5, ViewerRepliesFit
    <3> QED
      BY <1>a, <3>1, <3>2 DEF AlignedNow
  <2> QED
    BY <1>b, <2>4, <2>5
<1>3. CASE DispatchCall(p)
  <2> DEFINE f == [kind |-> "handle", method |-> Head(chan[p]).method]
  <2>1. chan[p] # <<>> /\ Head(chan[p]).tag = "START" /\ Receive(p)
    BY <1>3 DEF DispatchCall, HeadIs
  <2>2. f \in Frame /\ f.kind = "handle"
    <3>1. Head(chan[p]) \in Message
      BY <2>1, ChannelTail DEF TypeOK
    <3>2. Head(chan[p]).method \in Methods \cup {NoMethod}
      BY <3>1 DEF Message
    <3> QED
      BY <3>2, CallTypes
  <2>3. stack'[p] = Append(stack[p], f) /\ stack'[Other(p)] = stack[Other(p)]
    BY <1>3, Effects DEF DispatchCall, Push
  <2> HIDE DEF f
  <2>4. CASE p = "wrapper"
    <3>1. /\ stack'["wrapper"] = Append(ws, f) /\ stack'["viewer"] = vs
          /\ chan'["wrapper"] = Tail(cw) /\ chan'["viewer"] = cv
      BY <2>1, <2>3, <2>4, PeerValues, Effects
    <3>2. Aligned(Append(ws, f), vs, Tail(cw), cv, pending_sync_depth, is_sync)
      BY <1>0, <2>1, <2>2, <2>4, WrapperServesFit
    <3> QED
      BY <1>a, <3>1, <3>2 DEF AlignedNow
  <2>5. CASE p = "viewer"
    <3>1. /\ stack'["viewer"] = Append(vs, f) /\ stack'["wrapper"] = ws
          /\ chan'["viewer"] = Tail(cv) /\ chan'["wrapper"] = cw
      BY <2>1, <2>3, <2>5, PeerValues, Effects
    <3>2. Aligned(ws, Append(vs, f), cw, Tail(cv), pending_sync_depth, is_sync)
      BY <1>0, <2>1, <2>2, <2>5, ViewerServesFit
    <3> QED
      BY <1>a, <3>1, <3>2 DEF AlignedNow
  <2> QED
    BY <1>b, <2>4, <2>5
<1>4. CASE ReceiveReply(p)
  <2>1. chan[p] # <<>> /\ Head(chan[p]).tag = "REPLY" /\ Receive(p) /\ stack[p] # <<>>
    BY <1>4 DEF ReceiveReply, HeadIs, Blocked
  <2>2. stack'[p] = Front(stack[p]) /\ stack'[Other(p)] = stack[Other(p)]
    BY <1>4, Effects DEF ReceiveReply, Pop
  <2>3. CASE p = "wrapper"
    <3>1. /\ stack'["wrapper"] = Front(ws) /\ stack'["viewer"] = vs
          /\ chan'["wrapper"] = Tail(cw) /\ chan'["viewer"] = cv
      BY <2>1, <2>2, <2>3, PeerValues, Effects
    <3>2. Aligned(Front(ws), vs, Tail(cw), cv, pending_sync_depth, is_sync)
      BY <1>0, <2>1, <2>3, WrapperGetsReplyFit
    <3> QED
      BY <1>a, <3>1, <3>2 DEF AlignedNow
  <2>4. CASE p = "viewer"
    <3>1. /\ stack'["viewer"] = Front(vs) /\ stack'["wrapper"] = ws
          /\ chan'["viewer"] = Tail(cv) /\ chan'["wrapper"] = cw
      BY <2>1, <2>2, <2>4, PeerValues, Effects
    <3>2. Aligned(ws, Front(vs), cw, Tail(cv), pending_sync_depth, is_sync)
      BY <1>0, <2>1, <2>4, ViewerGetsReplyFit
    <3> QED
      BY <1>a, <3>1, <3>2 DEF AlignedNow
  <2> QED
    BY <1>b, <2>3, <2>4
<1> QED
  BY <1>1, <1>2, <1>3, <1>4 DEF MoveOf

\* A frame that is neither a call nor a callback does not count.
LEMMA Uncounted ==
    ASSUME NEW t \in Seq(Frame), NEW k \in {"invoke", "handle"},
           t = <<>> \/ (Len(t) = 1 /\ t[1].kind \notin {"invoke", "handle"})
    PROVE  MethodsOf(t, k) = <<>>
<1>1. CASE t = <<>>
  BY <1>1, MethodsOfEmpty
<1>2. CASE Len(t) = 1 /\ t[1].kind \notin {"invoke", "handle"}
  <2>1. Extends(t, <<>>) /\ <<>> \in Seq(Frame) /\ t[Len(t)].kind # k
    BY <1>2, OneFrame
  <2> QED
    BY <2>1, MethodsOfExtends, MethodsOfEmpty
<1> QED
  BY <1>1, <1>2

\* What the handshake does: the stack that changes has at most one frame before
\* and after, and the other stack has none or one either.
SyncMoveProps ==
    /\ AlignedNow'
    /\ UNCHANGED depths
    /\ \A p \in Peer, k \in {"invoke", "handle"} :
        MethodsOf(stack'[p], k) = MethodsOf(stack[p], k)
    /\ is_sync' # is_sync =>
        \A p \in Peer : MethodsOf(stack[p], "invoke") = <<>>

LEMMA SyncMovePropsOf ==
    ASSUME TypeOK, AlignedNow', UNCHANGED depths,
           NEW p \in Peer, stack'[p] \in Seq(Frame), stack'[Other(p)] = stack[Other(p)],
           stack[p] = <<>> \/ (Len(stack[p]) = 1 /\ stack[p][1].kind \notin {"invoke", "handle"}),
           stack'[p] = <<>> \/ (Len(stack'[p]) = 1 /\ stack'[p][1].kind \notin {"invoke", "handle"}),
           is_sync' # is_sync => Calls(stack[Other(p)]) = 0
    PROVE  SyncMoveProps
<1>1. \A k \in {"invoke", "handle"} : MethodsOf(stack[p], k) = <<>> /\ MethodsOf(stack'[p], k) = <<>>
  BY Uncounted DEF TypeOK
<1>2. \A q \in Peer : q = p \/ q = Other(p)
  BY PeerOther
<1>3. stack[Other(p)] \in Seq(Frame)
  BY PeerOther DEF TypeOK
<1>4. Calls(stack[Other(p)]) = 0 => MethodsOf(stack[Other(p)], "invoke") = <<>>
  <2>1. MethodsOf(stack[Other(p)], "invoke") \in Seq(Names)
    BY <1>3, MethodsOfTypes
  <2> QED
    BY <2>1 DEF Calls
<1>5. \A q \in Peer, k \in {"invoke", "handle"} : MethodsOf(stack'[q], k) = MethodsOf(stack[q], k)
  BY <1>1, <1>2
<1>6. "invoke" \in {"invoke", "handle"}
  OBVIOUS
<1>7. is_sync' # is_sync => \A q \in Peer : MethodsOf(stack[q], "invoke") = <<>>
  BY <1>1, <1>2, <1>4, <1>6
<1> QED
  BY <1>5, <1>7 DEF SyncMoveProps

LEMMA AlignedSync ==
    ASSUME TypeOK, FitNow, SyncMove
    PROVE  SyncMoveProps
<1> DEFINE ws == stack["wrapper"]
           vs == stack["viewer"]
           cw == chan["wrapper"]
           cv == chan["viewer"]
           pending == pending_sync_depth
<1>0. /\ Fit(ws, vs, cw, cv, pending, is_sync)
      /\ ws \in Seq(Frame) /\ vs \in Seq(Frame) /\ cw \in Seq(Message) /\ cv \in Seq(Message)
  BY DEF FitNow, Fit
<1>a. /\ "wrapper" \in Peer /\ "viewer" \in Peer
      /\ Other("wrapper") = "viewer" /\ Other("viewer") = "wrapper"
      /\ alive["wrapper"] /\ alive["viewer"] /\ KilledIsKnown /\ Healthy
  BY PeerValues DEF FitNow, Healthy
<1>b. /\ Msg("SYNC") \in Message /\ Msg("SYNC").tag = "SYNC"
      /\ Msg("SYNC_ACK") \in Message /\ Msg("SYNC_ACK").tag = "SYNC_ACK"
      /\ Msg("SYNC_END") \in Message /\ Msg("SYNC_END").tag = "SYNC_END"
  BY MsgTypes DEF Tags
<1>c. \A k \in {"rpc_sync", "main_loop", "dispatch_sync", "pending_sync"} :
        Fr(k) \in Frame /\ Fr(k).kind = k
  BY FrTypes, WaitingKinds DEF Serving
<1>d. ASSUME vs # <<>>, Last(vs).kind \in {"rpc_sync", "main_loop"}
      PROVE  Len(vs) = 1 /\ vs[1] = Last(vs) /\ Front(vs) = <<>>
  <2>1. Last(vs) = vs[Len(vs)] /\ Len(vs) \in Nat /\ Len(vs) > 0
    BY <1>0, <1>d, FrontProps
  <2>2. Len(vs) \in 1..Len(vs) /\ vs[Len(vs)].kind \in {"rpc_sync", "main_loop"}
    BY <1>d, <2>1
  <2>3. ViewerOrder(vs)
    BY <1>0, FitParts
  <2> HIDE DEF vs
  <2>4. Len(vs) = 1
    BY <2>2, <2>3 DEF ViewerOrder
  <2>5. Front(vs) = <<>>
    BY <1>0, <1>d, <2>3, ViewerOrderFront
  <2> QED
    BY <2>1, <2>4, <2>5
<1>1. CASE ReceiveSyncAck
  <2> DEFINE t == Append(Front(vs), Fr("main_loop"))
  <2>1. /\ vs # <<>> /\ Last(vs).kind = "rpc_sync"
        /\ cv # <<>> /\ Head(cv).tag = "SYNC_ACK" /\ Receive("viewer")
        /\ is_sync' = TRUE /\ UNCHANGED <<depths, pending_sync_depth>>
    BY <1>1, WaitingKinds DEF ReceiveSyncAck, Blocked, AwaitedTag, Awaits, HeadIs
  <2>2. Len(vs) = 1 /\ vs[1].kind = "rpc_sync" /\ Front(vs) = <<>>
    BY <1>d, <2>1
  <2>3. t \in Seq(Frame) /\ Len(t) = 1 /\ t[1].kind = "main_loop"
    <3>1. Len(<<>>) = 0 /\ <<>> \in Seq(Frame)
      OBVIOUS
    <3> QED
      BY <1>c, <2>2, <3>1, AppendProps
  <2>4. stack' = [stack EXCEPT !["viewer"] = t]
    BY <1>1 DEF ReceiveSyncAck
  <2> HIDE DEF t
  <2>5. stack'["viewer"] = t /\ stack'["wrapper"] = ws
    BY <2>4 DEF TypeOK, Peer
  <2>6. chan'["viewer"] = Tail(cv) /\ chan'["wrapper"] = cw
    BY <2>1, Effects
  <2>7. Aligned(ws, t, cw, Tail(cv), pending, TRUE)
    BY <1>0, <2>1, <2>3, TurnBeginsFit
  <2>8. AlignedNow'
    BY <2>1, <2>5, <2>6, <2>7 DEF AlignedNow
  <2>9. Calls(ws) = 0
    <3>1. Has(cv, "SYNC_ACK")
      BY <1>0, <2>1, ChannelTail
    <3> QED
      BY <1>0, <3>1, FitParts, Places DEF BetweenTurns
  <2> QED
    BY <1>a, <2>1, <2>2, <2>3, <2>5, <2>8, <2>9, SyncMovePropsOf
<1>2. CASE ReceiveSyncEnd
  <2>1. /\ ws # <<>> /\ Last(ws).kind \in SyncKinds
        /\ cw # <<>> /\ Head(cw).tag = "SYNC_END" /\ Receive("wrapper") /\ Pop("wrapper")
        /\ UNCHANGED <<depths, pending_sync_depth, is_sync>>
    BY <1>2, WaitingKinds
       DEF ReceiveSyncEnd, Blocked, AwaitedTag, Awaits, HeadIs, SyncKinds
  <2>2. Len(ws) = 1 /\ Aligned(<<>>, vs, Tail(cw), cv, pending, is_sync)
    BY <1>0, <2>1, TurnIsOverFit
  <2>3. Front(ws) = <<>> /\ ws[1] = Last(ws)
    <3>1. Front(ws) \in Seq(Frame) /\ Len(Front(ws)) = Len(ws) - 1 /\ Last(ws) = ws[Len(ws)]
      BY <1>0, <2>1, FrontProps
    <3> QED
      BY <2>2, <3>1
  <2>4. stack'["wrapper"] = <<>> /\ stack'["viewer"] = vs
    BY <1>a, <2>1, <2>3, Effects DEF Pop
  <2>5. chan'["wrapper"] = Tail(cw) /\ chan'["viewer"] = cv
    BY <2>1, Effects
  <2>6. AlignedNow'
    BY <2>1, <2>2, <2>4, <2>5 DEF AlignedNow
  <2>7. <<>> \in Seq(Frame) /\ ws[1].kind \notin {"invoke", "handle"}
    BY <2>1, <2>3 DEF SyncKinds
  <2> QED
    BY <1>a, <2>1, <2>2, <2>4, <2>6, <2>7, SyncMovePropsOf
<1>3. CASE DeferSync
  <2>1. /\ ws # <<>> /\ Last(ws).kind \in Waiting
        /\ cw # <<>> /\ Head(cw).tag = "SYNC" /\ Receive("wrapper")
        /\ pending_sync_depth' = invoke_depth["wrapper"]
        /\ UNCHANGED <<depths, is_sync, stack>>
    BY <1>3 DEF DeferSync, Blocked, HeadIs
  <2>2. pending_sync_depth' = Calls(ws)
    BY <1>a, <2>1 DEF FitNow, Counted, Calls
  <2>3. Aligned(ws, vs, Tail(cw), cv, Calls(ws), is_sync)
    BY <1>0, <2>1, SyncIsNotedFit
  <2>4. chan'["wrapper"] = Tail(cw) /\ chan'["viewer"] = cv
    BY <2>1, Effects
  <2>5. AlignedNow'
    BY <2>1, <2>2, <2>3, <2>4 DEF AlignedNow
  <2> QED
    BY <2>1, <2>5 DEF SyncMoveProps
<1>4. ASSUME NEW k \in SyncKinds, ws = <<>>, Asks(vs), Push("wrapper", Fr(k)),
             NEW d, chan'["wrapper"] = d, chan'["viewer"] = Append(cv, Msg("SYNC_ACK")),
             Ordered(ws, d, cv, pending_sync_depth'),
             UNCHANGED <<depths, is_sync>>
      PROVE  SyncMoveProps
  <2> DEFINE t == Append(ws, Fr(k))
  <2>1. Fr(k) \in Frame /\ Fr(k).kind = k /\ k \notin {"invoke", "handle"}
    BY <1>c, <1>4 DEF SyncKinds
  <2>2. t \in Seq(Frame) /\ Len(t) = 1 /\ t[1] = Fr(k)
    <3>1. Len(ws) = 0
      BY <1>4
    <3> QED
      BY <1>0, <2>1, <3>1, AppendProps
  <2>3. Aligned(t, vs, d, Append(cv, Msg("SYNC_ACK")), pending_sync_depth', is_sync)
    BY <1>0, <1>4, <1>b, <2>1, SyncIsAnsweredFit
  <2>4. stack'["wrapper"] = t /\ stack'["viewer"] = vs
    BY <1>4, <1>a, Effects DEF Push
  <2> HIDE DEF t
  <2>5. AlignedNow'
    BY <1>4, <2>3, <2>4 DEF AlignedNow
  <2> QED
    BY <1>4, <1>a, <2>1, <2>2, <2>4, <2>5, SyncMovePropsOf
<1>5. CASE DispatchSync
  <2>1. /\ Running("wrapper") /\ cw # <<>> /\ Head(cw).tag = "SYNC"
        /\ Exchange("wrapper", Msg("SYNC_ACK")) /\ Push("wrapper", Fr("dispatch_sync"))
        /\ UNCHANGED <<depths, is_sync, pending_sync_depth>>
    BY <1>5 DEF DispatchSync, Polling, HeadIs
  <2>2. /\ Has(cw, "SYNC")
        /\ \A T : Only(cw, T) => Only(Tail(cw), T)
        /\ Has(Tail(cw), "SYNC") => Has(cw, "SYNC")
        /\ Before(cw, "SYNC", "START") => Before(Tail(cw), "SYNC", "START")
        /\ Before(cw, "SYNC_END", "SYNC") => Before(Tail(cw), "SYNC_END", "SYNC")
    BY <1>0, <2>1, ChannelTail
  <2>3. WrapperRuns(ws) /\ Len(ws) <= 1 /\ WrapperOrder(ws)
    BY <1>0, <1>a, <2>1, <2>2, RunningIsRuns, FitParts DEF Ordered
  <2>4. ws = <<>>
    BY <1>0, <2>3, IdleWrapper
  <2>5. Asks(vs)
    BY <2>2, RequestParts
  <2>6. Ordered(ws, Tail(cw), cv, pending)
    BY <1>0, <2>2, FitParts DEF Ordered
  <2>7. chan'["wrapper"] = Tail(cw) /\ chan'["viewer"] = Append(cv, Msg("SYNC_ACK"))
    BY <2>1, Effects
  <2>8. pending_sync_depth' = pending /\ "dispatch_sync" \in SyncKinds
    BY <2>1 DEF SyncKinds
  <2>9. Ordered(ws, Tail(cw), cv, pending_sync_depth')
    BY <2>6, <2>8
  <2> QED
    BY <1>4, <2>1, <2>4, <2>5, <2>7, <2>8, <2>9
<1>6. CASE DispatchPendingSync
  <2>1. /\ HasPendingSync /\ Send("wrapper", Msg("SYNC_ACK"))
        /\ Push("wrapper", Fr("pending_sync")) /\ pending_sync_depth' = 0
        /\ UNCHANGED <<depths, is_sync>>
    BY <1>6 DEF DispatchPendingSync
  <2>2. ws = <<>> /\ pending_sync_depth # 0
    BY <2>1, PendingIsSafe DEF HasPendingSync, rpc_has_pending_sync
  <2>3. Asks(vs)
    BY <2>2, RequestParts
  <2>4. Ordered(ws, cw, cv, pending_sync_depth')
    BY <1>0, <2>1, FitParts DEF Ordered
  <2>5. chan'["wrapper"] = cw /\ chan'["viewer"] = Append(cv, Msg("SYNC_ACK"))
    BY <2>1, Effects
  <2>6. "pending_sync" \in SyncKinds
    BY DEF SyncKinds
  <2> QED
    BY <1>4, <2>1, <2>2, <2>3, <2>4, <2>5, <2>6
<1>7. CASE StartSync
  <2> DEFINE t == Append(vs, Fr("rpc_sync"))
  <2>1. /\ vs = <<>> /\ Send("viewer", Msg("SYNC")) /\ Push("viewer", Fr("rpc_sync"))
        /\ UNCHANGED <<depths, is_sync, pending_sync_depth>>
    BY <1>7, <1>a DEF StartSync, depths
  <2>2. t \in Seq(Frame) /\ Len(t) = 1 /\ t[1].kind = "rpc_sync"
    <3>1. Len(vs) = 0
      BY <2>1
    <3> QED
      BY <1>0, <1>c, <3>1, AppendProps
  <2>3. stack'["viewer"] = t /\ stack'["wrapper"] = ws
    BY <1>a, <2>1, Effects DEF Push
  <2> HIDE DEF t
  <2>4. chan'["viewer"] = cv /\ chan'["wrapper"] = Append(cw, Msg("SYNC"))
    BY <2>1, Effects
  <2>5. Aligned(ws, t, Append(cw, Msg("SYNC")), cv, pending, is_sync)
    BY <1>0, <1>b, <2>1, <2>2, TurnIsAskedForFit
  <2>6. AlignedNow'
    BY <2>1, <2>3, <2>4, <2>5 DEF AlignedNow
  <2>7. t[1].kind \notin {"invoke", "handle"}
    BY <2>2
  <2> QED
    BY <1>a, <2>1, <2>2, <2>3, <2>6, <2>7, SyncMovePropsOf
<1>8. CASE EndSync
  <2>1. /\ vs # <<>> /\ Last(vs).kind = "main_loop" /\ Pop("viewer")
        /\ UNCHANGED <<depths, pending_sync_depth>>
    BY <1>8 DEF EndSync
  <2>2. Len(vs) = 1 /\ vs[1].kind = "main_loop" /\ Front(vs) = <<>>
    BY <1>d, <2>1
  <2>3. is_sync = TRUE
    <3>1. InMainLoop(vs)
      BY <2>2 DEF InMainLoop
    <3> QED
      BY <1>0, <3>1, FitParts DEF TypeOK
  <2>4. Send("viewer", Msg("SYNC_END")) /\ is_sync' = FALSE
    BY <1>8, <1>a, <2>3 DEF EndSync
  <2>5. Fit(ws, vs, cw, cv, pending, TRUE)
    BY <1>0, <2>3
  <2>6. /\ Aligned(ws, <<>>, Append(cw, Msg("SYNC_END")), cv, pending, FALSE)
        /\ Calls(ws) = 0
    BY <1>b, <2>2, <2>5, TurnEndsFit
  <2>7. stack'["viewer"] = <<>> /\ stack'["wrapper"] = ws
    BY <1>a, <2>1, <2>2, Effects DEF Pop
  <2>8. chan'["viewer"] = cv /\ chan'["wrapper"] = Append(cw, Msg("SYNC_END"))
    BY <2>4, Effects
  <2>9. AlignedNow'
    BY <2>1, <2>4, <2>6, <2>7, <2>8 DEF AlignedNow
  <2>10. <<>> \in Seq(Frame) /\ vs[1].kind \notin {"invoke", "handle"}
    BY <2>2
  <2> QED
    BY <1>a, <2>1, <2>2, <2>7, <2>6, <2>9, <2>10, SyncMovePropsOf
<1> QED
  BY <1>1, <1>2, <1>3, <1>5, <1>6, <1>7, <1>8 DEF SyncMove

-----------------------------------------------------------------------------
(* The invariant, and what it gives.                                         *)

LEMMA ThreadInit == Init => ThreadInvariant
<1> SUFFICES ASSUME Init PROVE AlignedNow /\ Counted /\ g_is_running
  BY DEF ThreadInvariant
<1>1. /\ stack["wrapper"] = <<>> /\ stack["viewer"] = <<>>
      /\ chan["wrapper"] = <<>> /\ chan["viewer"] = <<>>
      /\ pending_sync_depth = 0 /\ is_sync = FALSE /\ g_is_running
  BY DEF Init, Peer
<1>2. Counted
  BY MethodsOfEmpty DEF Counted, Init
<1>3. /\ Len(<<>>) = 0 /\ Shift(<<>>) = 0 /\ Height(<<>>) = 0 /\ ~InMainLoop(<<>>)
  BY DEF Shift, Height, Asks, InMainLoop
<1>4. Placed(<<>>, <<>>, <<>>, <<>>, FALSE)
  <2>1. Calls(<<>>) = Calls(<<>>) + Turn(FALSE)
    BY CallsOfEmpty DEF Turn
  <2>2. AtWrapper(<<>>, <<>>, <<>>, <<>>, FALSE)
    BY <1>3, <2>1 DEF AtWrapper, WrapperRuns
  <2> QED
    BY <2>2 DEF Placed
<1>5. /\ Matched(<<>>, <<>>) /\ WrapperAlternates(<<>>) /\ ViewerAlternates(<<>>)
      /\ Ordered(<<>>, <<>>, <<>>, 0)
  BY <1>3 DEF Matched, WrapperAlternates, ViewerAlternates, Ordered, Before, Has, Only
<1>6. Aligned(<<>>, <<>>, <<>>, <<>>, 0, FALSE)
  BY <1>3, <1>4, <1>5 DEF Aligned
<1> QED
  BY <1>1, <1>2, <1>6 DEF AlignedNow

LEMMA MoveKeepsThread ==
    ASSUME TypeOK, FitNow, Move
    PROVE  AlignedNow' /\ Counted' /\ g_is_running'
<1>1. g_is_running' /\ Counted
  BY MoveIsHealthy DEF FitNow
<1>2. ASSUME NEW p \in Peer, MoveOf(p) PROVE AlignedNow' /\ Counted'
  BY <1>1, <1>2, AlignedMove, CountedMove
<1>3. CASE SyncMove
  <2>1. SyncMoveProps
    BY <1>3, AlignedSync
  <2>2. "invoke" \in {"invoke", "handle"} /\ "handle" \in {"invoke", "handle"}
    OBVIOUS
  <2>3. Counted'
    BY <1>1, <2>1, <2>2, CountedSync DEF SyncMoveProps
  <2> QED
    BY <1>1, <2>1, <2>3 DEF SyncMoveProps
<1>4. CASE UNCHANGED vars
  <2>1. AlignedNow /\ UNCHANGED <<stack, chan, depths, pending_sync_depth, is_sync>>
    BY <1>4 DEF FitNow, Fit, AlignedNow, vars
  <2> QED
    BY <1>1, <2>1 DEF AlignedNow, Counted, depths
<1> QED
  BY <1>1, <1>2, <1>3, <1>4 DEF Move

LEMMA ThreadStep ==
    ASSUME TypeOK, ControlInvariant, ThreadInvariant, [Next]_vars, Faults \subseteq {"crash"}
    PROVE  ThreadInvariant'
<1> SUFFICES ASSUME Healthy' PROVE AlignedNow' /\ Counted' /\ g_is_running'
  BY DEF ThreadInvariant
<1>1. Healthy
  BY ErrorsStay
<1>2. FitNow
  BY <1>1, ControlInvariantParts, FitNowParts DEF ThreadInvariant
<1>3. ASSUME NEW p \in Peer, Crash(p) PROVE FALSE
  BY <1>2, <1>3, DieIsUnhealthy DEF Crash, FitNow
<1> QED
  BY <1>2, <1>3, StepIsMove, MoveKeepsThread

\* Whatever calls and requests for a turn cross on the wire, the stacks of the two
\* ends stay matched frame by frame until a process dies.
THEOREM StacksStayMatched ==
    ASSUME Faults \subseteq {"crash"}
    PROVE  Spec => []ThreadInvariant
<1>1. "timeout" \notin Faults
  OBVIOUS
<1>2. TypeOK /\ ControlInvariant /\ ThreadInvariant /\ [Next]_vars => ThreadInvariant'
  BY ThreadStep
<1>3. Spec => []ControlInvariant
  BY <1>1, ControlIsOne
<1> QED
  BY <1>2, <1>3, ThreadInit, TypeCorrect, PTL DEF Spec

\* No end of a connection without errors reads a message it has no case for,
\* however calls and syncs of the two ends cross, and the counters of
\* rpc_method_invoke_possible follow the stack: a process may die at any point,
\* and until the other end notices nothing else goes wrong.
THEOREM CallsAlwaysGoThrough ==
    ASSUME Faults \subseteq {"crash"}
    PROVE  Spec => []CallsGoThrough
<1>1. TypeOK /\ ControlInvariant /\ ThreadInvariant => CallsGoThrough
  <2> SUFFICES ASSUME TypeOK, ControlInvariant, ThreadInvariant, Healthy, NEW p \in Peer
               PROVE  /\ chan[p] # <<>> => Head(chan[p]).tag \in Acceptable(p)
                      /\ invoke_depth[p] = Len(FramesOf(p, "invoke"))
                      /\ handle_depth[p] = Len(FramesOf(p, "handle"))
                      /\ dispatch_depth[p] = handle_depth[p]
    BY DEF CallsGoThrough
  <2>1. FitNow
    BY ControlInvariantParts, FitNowParts DEF ThreadInvariant
  <2>2. chan[p] # <<>> => Head(chan[p]).tag \in Acceptable(p)
    BY <2>1, WrapperCanRead, ViewerCanRead DEF Peer
  <2> QED
    BY <2>2 DEF ThreadInvariant, Counted, FramesOf
<1>2. "timeout" \notin Faults
  OBVIOUS
<1>3. Spec => []ControlInvariant
  BY <1>2, ControlIsOne
<1> QED
  BY <1>1, <1>3, TypeCorrect, StacksStayMatched, PTL

-----------------------------------------------------------------------------
(***************************************************************************)
(* The refinement.  The lists of calls that the two ends have open are     *)
(* merged into the stack of one thread.                                    *)
(***************************************************************************)
\* The lists f and s of open calls of the two ends, merged: b made the first.
At(s, i) == IF i \in DOMAIN s THEN s[i] ELSE NoMethod
FirstOf(b, f, s, n) ==
    [i \in 1..n |->
        IF i % 2 = 1 THEN [caller |-> b, method |-> At(f, (i + 1) \div 2)]
        ELSE [caller |-> Other(b), method |-> At(s, i \div 2)]]
Weave(b, f, s) == FirstOf(b, f, s, Len(f) + Len(s))

LEMMA OpenCallsIsWeave ==
    OpenCalls = Weave(BottomLoop, MethodsOf(stack[BottomLoop], "invoke"),
                      MethodsOf(stack[Other(BottomLoop)], "invoke"))
  BY DEF OpenCalls, Weave, FirstOf, At, FramesOf

LEMMA Halves ==
    ASSUME NEW n \in Nat
    PROVE  /\ (n + n) % 2 = 0 /\ (n + n) \div 2 = n
           /\ (n + n + 1) % 2 = 1 /\ (n + n + 1 + 1) \div 2 = n + 1
           /\ (n + n + 1 + 1) % 2 = 0
           /\ \A i \in 1 .. n + n : i % 2 = 1 => (i + 1) \div 2 \in 1..n
           /\ \A i \in 1 .. n + n : i % 2 # 1 => i \div 2 \in 1..n
           /\ \A i \in 1 .. n + n + 1 : i % 2 = 1 => (i + 1) \div 2 \in 1 .. n + 1
           /\ \A i \in 1 .. n + n + 1 : i % 2 # 1 => i \div 2 \in 1..n
  OBVIOUS

OpenCall == [caller : Peer, method : Names]

LEMMA WeaveTypes ==
    ASSUME NEW b \in Peer, NEW f \in Seq(Names), NEW s \in Seq(Names)
    PROVE  /\ Weave(b, f, s) \in Seq(OpenCall)
           /\ Len(Weave(b, f, s)) = Len(f) + Len(s)
           /\ \A i \in 1 .. Len(f) + Len(s) :
                /\ i % 2 = 1 => Weave(b, f, s)[i] = [caller |-> b, method |-> At(f, (i + 1) \div 2)]
                /\ i % 2 # 1 => Weave(b, f, s)[i] = [caller |-> Other(b), method |-> At(s, i \div 2)]
<1> DEFINE N == Len(f) + Len(s)
<1>1. N \in Nat
  OBVIOUS
<1>2. \A r \in Seq(Names) : \A i : At(r, i) \in Names
  BY DEF At, Names
<1>3. Other(b) \in Peer
  BY PeerOther
<1>4. Weave(b, f, s) \in [1..N -> OpenCall]
  <2>1. \A i \in 1..N : [caller |-> b, method |-> At(f, (i + 1) \div 2)] \in OpenCall
    BY <1>2 DEF OpenCall
  <2>2. \A i \in 1..N : [caller |-> Other(b), method |-> At(s, i \div 2)] \in OpenCall
    BY <1>2, <1>3 DEF OpenCall
  <2> HIDE DEF N
  <2> QED
    BY <2>1, <2>2 DEF Weave, FirstOf, N
<1>5. Weave(b, f, s) \in Seq(OpenCall) /\ Len(Weave(b, f, s)) = N
  <2> HIDE DEF N
  <2> QED
    BY <1>1, <1>4
<1> QED
  BY <1>5 DEF Weave, FirstOf

\* A sequence that is v with x after it.
LEMMA SameAppend ==
    ASSUME NEW S, NEW v \in Seq(S), NEW w \in Seq(S), NEW x \in S, NEW N \in Nat,
           Len(v) = N, Len(w) = N + 1, \A i \in 1..N : w[i] = v[i], w[N + 1] = x
    PROVE  w = Append(v, x)
  OBVIOUS

LEMMA BottomCalls ==
    ASSUME NEW b \in Peer, NEW f \in Seq(Names), NEW s \in Seq(Names), NEW n \in Nat,
           Len(f) = n, Len(s) = n, NEW g \in Seq(Names), Len(g) = n + 1,
           \A i \in 1..n : g[i] = f[i]
    PROVE  Weave(b, g, s) = Append(Weave(b, f, s), [caller |-> b, method |-> g[n + 1]])
<1> DEFINE v == Weave(b, f, s)
           w == Weave(b, g, s)
           x == [caller |-> b, method |-> g[n + 1]]
<1>1. /\ Len(f) + Len(s) = n + n /\ Len(g) + Len(s) = n + n + 1
      /\ n + n \in Nat /\ n + n + 1 \in Nat
  OBVIOUS
<1>2. /\ v \in Seq(OpenCall) /\ Len(v) = n + n
      /\ w \in Seq(OpenCall) /\ Len(w) = n + n + 1
  BY <1>1, WeaveTypes
<1>a. v = FirstOf(b, f, s, n + n)
  BY <1>1, Zenon DEF Weave
<1>b. w = FirstOf(b, g, s, n + n + 1)
  BY <1>1, Zenon DEF Weave
<1>3. x \in OpenCall
  <2>1. n + 1 \in 1..Len(g)
    OBVIOUS
  <2> QED
    BY <2>1 DEF OpenCall
<1> HIDE DEF v, w
<1>4. ASSUME NEW i \in 1 .. n + n PROVE w[i] = v[i]
  <2>1. i \in 1 .. n + n + 1
    OBVIOUS
  <2>2. CASE i % 2 = 1
    <3>1. w[i] = [caller |-> b, method |-> At(g, (i + 1) \div 2)]
      BY <1>b, <2>1, <2>2 DEF FirstOf
    <3>2. v[i] = [caller |-> b, method |-> At(f, (i + 1) \div 2)]
      BY <1>a, <2>2 DEF FirstOf
    <3>3. (i + 1) \div 2 \in 1..n /\ (i + 1) \div 2 \in 1 .. n + 1
      BY <2>2, Halves
    <3>4. At(g, (i + 1) \div 2) = At(f, (i + 1) \div 2)
      BY <3>3 DEF At
    <3> QED
      BY <3>1, <3>2, <3>4
  <2>3. CASE i % 2 # 1
    BY <1>a, <1>b, <2>1, <2>3 DEF FirstOf
  <2> QED
    BY <2>2, <2>3
<1>5. w[n + n + 1] = x
  <2>1. /\ n + n + 1 \in 1 .. n + n + 1 /\ (n + n + 1) % 2 = 1
        /\ (n + n + 1 + 1) \div 2 = n + 1
    BY Halves
  <2>2. w[n + n + 1] = [caller |-> b, method |-> At(g, (n + n + 1 + 1) \div 2)]
    BY <1>b, <2>1 DEF FirstOf
  <2>3. At(g, n + 1) = g[n + 1]
    BY DEF At
  <2> QED
    BY <2>1, <2>2, <2>3
<1> HIDE DEF x
<1> DEFINE N == n + n
<1>c. /\ N \in Nat /\ Len(v) = N /\ Len(w) = N + 1
      /\ \A i \in 1..N : w[i] = v[i]
      /\ w[N + 1] = x
  BY <1>1, <1>2, <1>4, <1>5
<1> HIDE DEF N
<1>6. w = Append(v, x)
  BY <1>2, <1>3, <1>c, SameAppend
<1> QED
  BY <1>6 DEF v, w, x

LEMMA UpperCalls ==
    ASSUME NEW b \in Peer, NEW f \in Seq(Names), NEW s \in Seq(Names), NEW n \in Nat,
           Len(f) = n + 1, Len(s) = n, NEW g \in Seq(Names), Len(g) = n + 1,
           \A i \in 1..n : g[i] = s[i]
    PROVE  Weave(b, f, g) = Append(Weave(b, f, s), [caller |-> Other(b), method |-> g[n + 1]])
<1> DEFINE v == Weave(b, f, s)
           w == Weave(b, f, g)
           x == [caller |-> Other(b), method |-> g[n + 1]]
<1>1. /\ Len(f) + Len(s) = n + n + 1 /\ Len(f) + Len(g) = n + n + 1 + 1
      /\ n + n + 1 \in Nat /\ n + n + 1 + 1 \in Nat
  OBVIOUS
<1>2. /\ v \in Seq(OpenCall) /\ Len(v) = n + n + 1
      /\ w \in Seq(OpenCall) /\ Len(w) = n + n + 1 + 1
  BY <1>1, WeaveTypes
<1>a. v = FirstOf(b, f, s, n + n + 1)
  BY <1>1, Zenon DEF Weave
<1>b. w = FirstOf(b, f, g, n + n + 1 + 1)
  BY <1>1, Zenon DEF Weave
<1>3. x \in OpenCall
  <2>1. n + 1 \in 1..Len(g)
    OBVIOUS
  <2> QED
    BY <2>1, PeerOther DEF OpenCall
<1> HIDE DEF v, w
<1>4. ASSUME NEW i \in 1 .. n + n + 1 PROVE w[i] = v[i]
  <2>1. i \in 1 .. n + n + 1 + 1
    OBVIOUS
  <2>2. CASE i % 2 # 1
    <3>1. w[i] = [caller |-> Other(b), method |-> At(g, i \div 2)]
      BY <1>b, <2>1, <2>2 DEF FirstOf
    <3>2. v[i] = [caller |-> Other(b), method |-> At(s, i \div 2)]
      BY <1>a, <2>2 DEF FirstOf
    <3>3. i \div 2 \in 1..n /\ i \div 2 \in 1 .. n + 1
      <4>1. i \div 2 \in 1..n
        BY <2>2, Halves
      <4> QED
        BY <4>1
    <3>4. At(g, i \div 2) = At(s, i \div 2)
      BY <3>3 DEF At
    <3> QED
      BY <3>1, <3>2, <3>4
  <2>3. CASE i % 2 = 1
    BY <1>a, <1>b, <2>1, <2>3 DEF FirstOf
  <2> QED
    BY <2>2, <2>3
<1>5. w[n + n + 1 + 1] = x
  <2>1. /\ n + n + 1 + 1 \in 1 .. n + n + 1 + 1 /\ (n + n + 1 + 1) % 2 # 1
        /\ (n + n + 1 + 1) \div 2 = n + 1
    BY Halves
  <2>2. w[n + n + 1 + 1] = [caller |-> Other(b), method |-> At(g, (n + n + 1 + 1) \div 2)]
    BY <1>b, <2>1 DEF FirstOf
  <2>3. At(g, n + 1) = g[n + 1]
    BY DEF At
  <2> QED
    BY <2>1, <2>2, <2>3
<1> HIDE DEF x
<1> DEFINE N == n + n + 1
<1>c. /\ N \in Nat /\ Len(v) = N /\ Len(w) = N + 1
      /\ \A i \in 1..N : w[i] = v[i]
      /\ w[N + 1] = x
  BY <1>1, <1>2, <1>4, <1>5
<1> HIDE DEF N
<1>6. w = Append(v, x)
  BY <1>2, <1>3, <1>c, SameAppend
<1> QED
  BY <1>6 DEF v, w, x

\* The open calls x of the wrapper and y of the viewer as those of one thread.
Thread(sync, x, y) ==
    IF sync THEN Weave("viewer", y, x) ELSE Weave("wrapper", x, y)

LEMMA OpenCallsIsThread ==
    ASSUME is_sync \in BOOLEAN
    PROVE  OpenCalls = Thread(is_sync, MethodsOf(stack["wrapper"], "invoke"),
                              MethodsOf(stack["viewer"], "invoke"))
  BY OpenCallsIsWeave DEF Thread, BottomLoop, Other

\* Where the innermost call went says who makes the next one.
LastCaller(w, c) == w[Len(w)].caller = c

LEMMA LastOfWeave ==
    ASSUME NEW b \in Peer, NEW f \in Seq(Names), NEW s \in Seq(Names), NEW n \in Nat,
           Len(s) = n
    PROVE  /\ Len(f) = n /\ n # 0 => LastCaller(Weave(b, f, s), Other(b))
           /\ Len(f) = n + 1 => LastCaller(Weave(b, f, s), b)
<1> DEFINE w == Weave(b, f, s)
<1>1. CASE Len(f) = n /\ n # 0
  <2>1. Len(f) + Len(s) = n + n /\ n + n \in 1 .. n + n /\ (n + n) % 2 # 1
    BY <1>1, Halves
  <2>2. w = FirstOf(b, f, s, n + n)
    BY <2>1, Zenon DEF Weave
  <2>3. Len(w) = n + n
    BY <2>1, WeaveTypes
  <2> HIDE DEF w
  <2>4. w[n + n].caller = Other(b)
    BY <2>1, <2>2 DEF FirstOf
  <2>5. LastCaller(w, Other(b))
    BY <2>3, <2>4 DEF LastCaller
  <2> QED
    BY <1>1, <2>5 DEF w
<1>2. CASE Len(f) = n + 1
  <2>1. Len(f) + Len(s) = n + n + 1 /\ n + n + 1 \in 1 .. n + n + 1 /\ (n + n + 1) % 2 = 1
    BY <1>2, Halves
  <2>2. w = FirstOf(b, f, s, n + n + 1)
    BY <2>1, Zenon DEF Weave
  <2>3. Len(w) = n + n + 1
    BY <2>1, WeaveTypes
  <2> HIDE DEF w
  <2>4. w[n + n + 1].caller = b
    BY <2>1, <2>2 DEF FirstOf
  <2>5. LastCaller(w, b)
    BY <2>3, <2>4 DEF LastCaller
  <2> QED
    BY <1>2, <2>5 DEF w
<1> QED
  BY <1>1, <1>2

LEMMA ThreadTypes ==
    ASSUME NEW sync \in BOOLEAN, NEW x \in Seq(Names), NEW y \in Seq(Names)
    PROVE  /\ Thread(sync, x, y) \in Seq(OpenCall)
           /\ Len(Thread(sync, x, y)) = Len(x) + Len(y)
<1>1. "wrapper" \in Peer /\ "viewer" \in Peer
  BY DEF Peer
<1>2. CASE sync = TRUE
  <2>1. Thread(sync, x, y) = Weave("viewer", y, x)
    BY <1>2 DEF Thread
  <2> QED
    BY <1>1, <2>1, WeaveTypes
<1>3. CASE sync = FALSE
  <2>1. Thread(sync, x, y) = Weave("wrapper", x, y)
    BY <1>3 DEF Thread
  <2> QED
    BY <1>1, <2>1, WeaveTypes
<1> QED
  BY <1>2, <1>3

LEMMA WrapperCallIsWoven ==
    ASSUME NEW sync \in BOOLEAN, NEW x \in Seq(Names), NEW y \in Seq(Names),
           Len(y) = Len(x) + Turn(sync), NEW m \in Names
    PROVE  /\ Thread(sync, Append(x, m), y)
                = Append(Thread(sync, x, y), [caller |-> "wrapper", method |-> m])
           /\ Len(x) + Len(y) # 0 => LastCaller(Thread(sync, x, y), "viewer")
           /\ Len(x) + Len(y) = 0 => sync = FALSE
<1> DEFINE n == Len(x)
           z == Append(x, m)
<1>1. /\ "wrapper" \in Peer /\ "viewer" \in Peer
      /\ Other("wrapper") = "viewer" /\ Other("viewer") = "wrapper"
  BY DEF Peer, Other
<1>2. n \in Nat /\ z \in Seq(Names) /\ Len(z) = n + 1 /\ z[n + 1] = m /\ Len(x) = n
  BY AppendProps
<1>3. \A i \in 1..n : z[i] = x[i]
  BY AppendProps
<1> HIDE DEF n, z
<1>4. CASE sync = TRUE
  <2>1. Len(y) = n + 1
    BY <1>2, <1>4 DEF Turn
  <2>2. Weave("viewer", y, z) = Append(Weave("viewer", y, x), [caller |-> "wrapper", method |-> m])
    BY <1>1, <1>2, <1>3, <2>1, UpperCalls
  <2>3. LastCaller(Weave("viewer", y, x), "viewer") /\ Len(x) + Len(y) # 0
    BY <1>1, <1>2, <2>1, LastOfWeave
  <2> QED
    BY <1>4, <2>2, <2>3 DEF Thread, z
<1>5. CASE sync = FALSE
  <2>1. Len(y) = n
    BY <1>2, <1>5 DEF Turn
  <2>2. Weave("wrapper", z, y) = Append(Weave("wrapper", x, y), [caller |-> "wrapper", method |-> m])
    BY <1>1, <1>2, <1>3, <2>1, BottomCalls
  <2>3. Len(x) + Len(y) # 0 => LastCaller(Weave("wrapper", x, y), "viewer")
    BY <1>1, <1>2, <2>1, LastOfWeave
  <2> QED
    BY <1>5, <2>2, <2>3 DEF Thread, z
<1> QED
  BY <1>4, <1>5

LEMMA ViewerCallIsWoven ==
    ASSUME NEW sync \in BOOLEAN, NEW x \in Seq(Names), NEW y \in Seq(Names),
           Len(x) = Len(y) + 1 - Turn(sync), NEW m \in Names
    PROVE  /\ Thread(sync, x, Append(y, m))
                = Append(Thread(sync, x, y), [caller |-> "viewer", method |-> m])
           /\ Len(x) + Len(y) # 0 => LastCaller(Thread(sync, x, y), "wrapper")
           /\ Len(x) + Len(y) = 0 => sync = TRUE
<1> DEFINE n == Len(y)
           z == Append(y, m)
<1>1. /\ "wrapper" \in Peer /\ "viewer" \in Peer
      /\ Other("wrapper") = "viewer" /\ Other("viewer") = "wrapper"
  BY DEF Peer, Other
<1>2. n \in Nat /\ z \in Seq(Names) /\ Len(z) = n + 1 /\ z[n + 1] = m /\ Len(y) = n
  BY AppendProps
<1>3. \A i \in 1..n : z[i] = y[i]
  BY AppendProps
<1> HIDE DEF n, z
<1>4. CASE sync = TRUE
  <2>1. Len(x) = n
    BY <1>2, <1>4 DEF Turn
  <2>2. Weave("viewer", z, x) = Append(Weave("viewer", y, x), [caller |-> "viewer", method |-> m])
    <3>1. Weave("viewer", z, x)
            = Append(Weave("viewer", y, x), [caller |-> "viewer", method |-> z[n + 1]])
      BY <1>1, <1>2, <1>3, <2>1, BottomCalls
    <3> QED
      BY <1>2, <3>1
  <2>3. Len(x) + Len(y) # 0 => LastCaller(Weave("viewer", y, x), "wrapper")
    BY <1>1, <1>2, <2>1, LastOfWeave
  <2> QED
    BY <1>4, <2>2, <2>3 DEF Thread, z
<1>5. CASE sync = FALSE
  <2>1. Len(x) = n + 1
    BY <1>2, <1>5 DEF Turn
  <2>2. Weave("wrapper", x, z) = Append(Weave("wrapper", x, y), [caller |-> "viewer", method |-> m])
    BY <1>1, <1>2, <1>3, <2>1, UpperCalls
  <2>3. LastCaller(Weave("wrapper", x, y), "wrapper") /\ Len(x) + Len(y) # 0
    BY <1>1, <1>2, <2>1, LastOfWeave
  <2> QED
    BY <1>5, <2>2, <2>3 DEF Thread, z
<1> QED
  BY <1>4, <1>5

-----------------------------------------------------------------------------
(* Every move of the connection is a step of the one thread, or none.        *)

LEMMA ControlOfThread ==
    ASSUME NEW p \in Peer, OpenCalls \in Seq(OpenCall),
           Len(OpenCalls) # 0 => LastCaller(OpenCalls, Other(p)),
           Len(OpenCalls) = 0 => BottomLoop = p
    PROVE  OneThread!Control = p
<1>1. CASE OpenCalls = <<>>
  <2>1. Len(OpenCalls) = 0
    BY <1>1
  <2> QED
    BY <1>1, <2>1 DEF OneThread!Control
<1>2. CASE OpenCalls # <<>>
  <2>1. Len(OpenCalls) # 0
    BY <1>2
  <2>2. OneThread!Last(OpenCalls).caller = Other(p)
    BY <2>1 DEF LastCaller, OneThread!Last
  <2>3. OneThread!OtherSide(Other(p)) = p
    BY DEF OneThread!OtherSide, Other, Peer
  <2> QED
    BY <1>2, <2>2, <2>3 DEF OneThread!Control
<1> QED
  BY <1>1, <1>2

\* The methods of the calls each end has open.
OpenNow(x, y) ==
    /\ x = MethodsOf(stack["wrapper"], "invoke")
    /\ y = MethodsOf(stack["viewer"], "invoke")

LEMMA OpenNowParts ==
    ASSUME TypeOK, NEW x, NEW y, OpenNow(x, y)
    PROVE  /\ x \in Seq(Names) /\ y \in Seq(Names) /\ is_sync \in BOOLEAN
           /\ Len(x) \in Nat /\ Len(x) = Calls(stack["wrapper"])
           /\ Len(x) <= Len(stack["wrapper"])
           /\ Len(y) \in Nat /\ Len(y) = Calls(stack["viewer"])
           /\ Len(y) <= Len(stack["viewer"])
           /\ OpenCalls = Thread(is_sync, x, y)
           /\ OpenCalls \in Seq(OpenCall) /\ Len(OpenCalls) = Len(x) + Len(y)
<1>1. /\ stack["wrapper"] \in Seq(Frame) /\ stack["viewer"] \in Seq(Frame)
      /\ is_sync \in BOOLEAN
  BY PeerValues DEF TypeOK
<1>2. /\ x \in Seq(Names) /\ Len(x) \in Nat /\ Len(x) <= Len(stack["wrapper"])
      /\ y \in Seq(Names) /\ Len(y) \in Nat /\ Len(y) <= Len(stack["viewer"])
  BY <1>1, MethodsOfTypes DEF OpenNow
<1>3. OpenCalls = Thread(is_sync, x, y)
  BY <1>1, OpenCallsIsThread DEF OpenNow
<1> QED
  BY <1>1, <1>2, <1>3, ThreadTypes DEF OpenNow, Calls

LEMMA OpenCallsNext ==
    ASSUME is_sync' \in BOOLEAN
    PROVE  OpenCalls' = Thread(is_sync', MethodsOf(stack'["wrapper"], "invoke"),
                               MethodsOf(stack'["viewer"], "invoke"))
  BY DEF OpenCalls, Weave, FirstOf, At, FramesOf, Thread, BottomLoop, Other

LEMMA InvokeIsCall ==
    ASSUME TypeOK, FitNow, NEW p \in Peer, NEW m \in Methods, Invoke(p, m)
    PROVE  OneThread!MakeCall(m)
<1> DEFINE s == stack[p]
<1>1. PICK x, y : OpenNow(x, y)
  BY DEF OpenNow
<1>2. /\ x \in Seq(Names) /\ y \in Seq(Names) /\ is_sync \in BOOLEAN
      /\ Len(x) \in Nat /\ Len(x) = Calls(stack["wrapper"]) /\ Len(x) <= Len(stack["wrapper"])
      /\ Len(y) \in Nat /\ Len(y) = Calls(stack["viewer"]) /\ Len(y) <= Len(stack["viewer"])
      /\ OpenCalls = Thread(is_sync, x, y)
      /\ OpenCalls \in Seq(OpenCall) /\ Len(OpenCalls) = Len(x) + Len(y)
  BY <1>1, OpenNowParts
<1>3. is_sync' = is_sync /\ Running(p) /\ Len(s) < MaxDepth
  BY DEF Invoke
<1>4. /\ OpenCalls' = Thread(is_sync, MethodsOf(stack'["wrapper"], "invoke"),
                             MethodsOf(stack'["viewer"], "invoke"))
      /\ UNCHANGED BottomLoop
  BY <1>2, <1>3, OpenCallsNext DEF BottomLoop
<1>5. /\ m \in Names /\ MethodsOf(stack'[p], "invoke") = Append(MethodsOf(s, "invoke"), m)
      /\ stack'[Other(p)] = stack[Other(p)]
  <2> DEFINE f == [kind |-> "invoke", method |-> m]
             t == Append(s, f)
  <2>1. f \in Frame /\ f.kind = "invoke" /\ f.method = m /\ m \in Names
    BY CallTypes DEF Names
  <2>2. s \in Seq(Frame)
    BY DEF TypeOK
  <2>3. t \in Seq(Frame) /\ Extends(t, s) /\ t[Len(t)] = f
    BY <2>1, <2>2, Pushed
  <2>4. stack'[p] = t /\ stack'[Other(p)] = stack[Other(p)]
    BY Effects DEF Invoke, Push
  <2> HIDE DEF t, f, s
  <2>5. MethodsOf(t, "invoke") = Append(MethodsOf(s, "invoke"), m)
    BY <2>1, <2>2, <2>3, MethodsOfExtends
  <2> QED
    BY <2>1, <2>4, <2>5
<1>6. /\ OneToken(stack["wrapper"], stack["viewer"], chan["wrapper"], chan["viewer"])
      /\ Placed(stack["wrapper"], stack["viewer"], chan["wrapper"], chan["viewer"], is_sync)
      /\ Turn(is_sync) \in {0, 1}
  BY FitParts DEF FitNow
<1>7. /\ Running("wrapper") => WrapperRuns(stack["wrapper"])
      /\ Running("viewer") => ViewerRuns(stack["viewer"])
  BY RunningIsRuns DEF FitNow
<1>8. MaxDepth \in Nat /\ 2 * MaxStack = MaxDepth + MaxDepth + 4
  BY ConstantsAssumption DEF MaxStack
<1>9. CASE p = "wrapper"
  <2>1. Len(y) = Len(x) + Turn(is_sync)
    BY <1>2, <1>3, <1>6, <1>7, <1>9, Places
  <2>2. /\ OpenCalls' = Append(OpenCalls, [caller |-> "wrapper", method |-> m])
        /\ Len(OpenCalls) # 0 => LastCaller(OpenCalls, "viewer")
        /\ Len(OpenCalls) = 0 => is_sync = FALSE
    <3>1. OpenCalls' = Thread(is_sync, Append(x, m), y)
      BY <1>1, <1>4, <1>5, <1>9 DEF OpenNow, Other
    <3> QED
      BY <1>2, <1>5, <2>1, <3>1, WrapperCallIsWoven
  <2>3. OneThread!Control = "wrapper"
    BY <1>2, <1>9, <2>2, ControlOfThread DEF Other, BottomLoop
  <2>4. Len(OpenCalls) < 2 * MaxStack
    BY <1>2, <1>3, <1>6, <1>8, <1>9, <2>1
  <2> QED
    BY <1>4, <2>2, <2>3, <2>4 DEF OneThread!MakeCall
<1>10. CASE p = "viewer"
  <2>1. Len(x) = Len(y) + 1 - Turn(is_sync)
    BY <1>2, <1>3, <1>6, <1>7, <1>10, Places
  <2>2. /\ OpenCalls' = Append(OpenCalls, [caller |-> "viewer", method |-> m])
        /\ Len(OpenCalls) # 0 => LastCaller(OpenCalls, "wrapper")
        /\ Len(OpenCalls) = 0 => is_sync = TRUE
    <3>1. OpenCalls' = Thread(is_sync, x, Append(y, m))
      BY <1>1, <1>4, <1>5, <1>10 DEF OpenNow, Other
    <3> QED
      BY <1>2, <1>5, <2>1, <3>1, ViewerCallIsWoven
  <2>3. OneThread!Control = "viewer"
    BY <1>2, <1>10, <2>2, ControlOfThread DEF Other, BottomLoop
  <2>4. Len(OpenCalls) < 2 * MaxStack
    BY <1>2, <1>3, <1>6, <1>8, <1>10, <2>1
  <2> QED
    BY <1>4, <2>2, <2>3, <2>4 DEF OneThread!MakeCall
<1> QED
  BY <1>9, <1>10 DEF Peer

LEMMA AppendIsNotFront ==
    ASSUME NEW S, NEW v \in Seq(S), NEW x \in S
    PROVE  Append(v, x) # <<>> /\ SubSeq(Append(v, x), 1, Len(Append(v, x)) - 1) = v
<1>1. /\ Append(v, x) \in Seq(S) /\ Len(Append(v, x)) = Len(v) + 1 /\ Append(v, x) # <<>>
      /\ \A i \in 1..Len(v) : Append(v, x)[i] = v[i]
  BY AppendProps
<1> QED
  BY <1>1

LEMMA ReplyIsReturn ==
    ASSUME TypeOK, FitNow, NEW p \in Peer, ReceiveReply(p)
    PROVE  OneThread!Return
<1> DEFINE s == stack[p]
           t == Front(s)
           m == s[Len(s)].method
<1>1. PICK x, y : OpenNow(x, y)
  BY DEF OpenNow
<1>2. /\ x \in Seq(Names) /\ y \in Seq(Names) /\ is_sync \in BOOLEAN
      /\ Len(x) \in Nat /\ Len(x) = Calls(stack["wrapper"])
      /\ Len(y) \in Nat /\ Len(y) = Calls(stack["viewer"])
      /\ OpenCalls = Thread(is_sync, x, y)
  BY <1>1, OpenNowParts
<1>3. /\ is_sync' = is_sync /\ s # <<>> /\ Last(s).kind = "invoke"
      /\ chan[p] # <<>> /\ Head(chan[p]).tag = "REPLY"
  BY WaitingKinds DEF ReceiveReply, Blocked, AwaitedTag, Awaits, HeadIs
<1>4. /\ OpenCalls' = Thread(is_sync, MethodsOf(stack'["wrapper"], "invoke"),
                             MethodsOf(stack'["viewer"], "invoke"))
      /\ UNCHANGED BottomLoop
  BY <1>2, <1>3, OpenCallsNext DEF BottomLoop
<1>5. /\ m \in Names /\ MethodsOf(s, "invoke") = Append(MethodsOf(stack'[p], "invoke"), m)
      /\ stack'[Other(p)] = stack[Other(p)]
      /\ MethodsOf(stack'[p], "invoke") \in Seq(Names)
  <2>1. s \in Seq(Frame)
    BY DEF TypeOK
  <2>2. t \in Seq(Frame) /\ Extends(s, t) /\ s[Len(s)].kind = "invoke" /\ s[Len(s)] \in Frame
    BY <1>3, <2>1, Popped
  <2>3. stack'[p] = t /\ stack'[Other(p)] = stack[Other(p)]
    BY Effects DEF ReceiveReply, Pop
  <2>4. m \in Names
    BY <2>2 DEF Frame, Names
  <2> HIDE DEF t, s
  <2>5. MethodsOf(s, "invoke") = Append(MethodsOf(t, "invoke"), m) /\ MethodsOf(t, "invoke") \in Seq(Names)
    BY <2>1, <2>2, MethodsOfExtends, MethodsOfTypes
  <2> QED
    BY <2>3, <2>4, <2>5
<1>6. /\ OneToken(stack["wrapper"], stack["viewer"], chan["wrapper"], chan["viewer"])
      /\ Placed(stack["wrapper"], stack["viewer"], chan["wrapper"], chan["viewer"], is_sync)
      /\ Turn(is_sync) \in {0, 1}
  BY FitParts DEF FitNow
<1>7. Has(chan[p], "REPLY")
  <2>1. chan[p] \in Seq(Message)
    BY DEF TypeOK
  <2> QED
    BY <1>3, <2>1, ChannelTail
<1> HIDE DEF m
<1>8. CASE p = "wrapper"
  <2>1. Len(x) = Len(y) + 1 - Turn(is_sync)
    BY <1>2, <1>6, <1>7, <1>8, Places
  <2>2. PICK u \in Seq(Names) : u = MethodsOf(stack'["wrapper"], "invoke")
    BY <1>5, <1>8
  <2>3. x = Append(u, m) /\ OpenCalls' = Thread(is_sync, u, y)
    BY <1>1, <1>4, <1>5, <1>8, <2>2 DEF OpenNow, Other
  <2>4. Len(x) = Len(u) + 1 /\ Len(u) \in Nat
    BY <1>5, <2>2, <2>3, AppendProps
  <2>5. Len(y) = Len(u) + Turn(is_sync)
    BY <1>2, <1>6, <2>1, <2>4
  <2>a. m \in Names /\ u \in Seq(Names) /\ y \in Seq(Names) /\ is_sync \in BOOLEAN
    BY <1>2, <1>5
  <2>b. Thread(is_sync, Append(u, m), y)
          = Append(Thread(is_sync, u, y), [caller |-> "wrapper", method |-> m])
    BY <2>a, <2>5, WrapperCallIsWoven
  <2>6. OpenCalls = Append(OpenCalls', [caller |-> "wrapper", method |-> m])
    BY <1>2, <2>3, <2>b, Zenon
  <2>7. OpenCalls' \in Seq(OpenCall) /\ [caller |-> "wrapper", method |-> m] \in OpenCall
    BY <1>2, <1>5, <2>3, ThreadTypes DEF OpenCall, Peer
  <2>8. OpenCalls # <<>> /\ OpenCalls' = OneThread!Front(OpenCalls)
    BY <2>6, <2>7, AppendIsNotFront DEF OneThread!Front
  <2> QED
    BY <1>4, <2>8 DEF OneThread!Return
<1>9. CASE p = "viewer"
  <2>1. Len(y) = Len(x) + Turn(is_sync)
    BY <1>2, <1>6, <1>7, <1>9, Places
  <2>2. PICK u \in Seq(Names) : u = MethodsOf(stack'["viewer"], "invoke")
    BY <1>5, <1>9
  <2>3. y = Append(u, m) /\ OpenCalls' = Thread(is_sync, x, u)
    BY <1>1, <1>4, <1>5, <1>9, <2>2 DEF OpenNow, Other
  <2>4. Len(y) = Len(u) + 1 /\ Len(u) \in Nat
    BY <1>5, <2>2, <2>3, AppendProps
  <2>5. Len(x) = Len(u) + 1 - Turn(is_sync)
    BY <1>2, <1>6, <2>1, <2>4
  <2>a. m \in Names /\ u \in Seq(Names) /\ x \in Seq(Names) /\ is_sync \in BOOLEAN
    BY <1>2, <1>5
  <2>b. Thread(is_sync, x, Append(u, m))
          = Append(Thread(is_sync, x, u), [caller |-> "viewer", method |-> m])
    BY <2>a, <2>5, ViewerCallIsWoven
  <2>6. OpenCalls = Append(OpenCalls', [caller |-> "viewer", method |-> m])
    BY <1>2, <2>3, <2>b, Zenon
  <2>7. OpenCalls' \in Seq(OpenCall) /\ [caller |-> "viewer", method |-> m] \in OpenCall
    BY <1>2, <1>5, <2>3, ThreadTypes DEF OpenCall, Peer
  <2>8. OpenCalls # <<>> /\ OpenCalls' = OneThread!Front(OpenCalls)
    BY <2>6, <2>7, AppendIsNotFront DEF OneThread!Front
  <2> QED
    BY <1>4, <2>8 DEF OneThread!Return
<1> QED
  BY <1>8, <1>9 DEF Peer

LEMMA NoThread ==
    ASSUME NEW sync \in BOOLEAN
    PROVE  Thread(sync, <<>>, <<>>) = <<>>
<1> DEFINE x == <<>>
<1>1. x \in Seq(Names) /\ Len(x) = 0
  OBVIOUS
<1> HIDE DEF x
<1>2. Thread(sync, x, x) \in Seq(OpenCall) /\ Len(Thread(sync, x, x)) = Len(x) + Len(x)
  BY <1>1, ThreadTypes
<1>3. Thread(sync, x, x) = <<>>
  BY <1>1, <1>2
<1> QED
  BY <1>3 DEF x

\* A move that leaves the open calls of both ends alone.
LEMMA SameThread ==
    ASSUME is_sync' \in BOOLEAN, is_sync' = is_sync,
           \A p \in Peer : MethodsOf(stack'[p], "invoke") = MethodsOf(stack[p], "invoke")
    PROVE  UNCHANGED <<BottomLoop, OpenCalls>>
<1>1. is_sync \in BOOLEAN /\ "wrapper" \in Peer /\ "viewer" \in Peer
  BY DEF Peer
<1>2. OpenCalls' = OpenCalls
  BY <1>1, OpenCallsNext, OpenCallsIsThread
<1> QED
  BY <1>2 DEF BottomLoop

LEMMA MoveIsThreadStep ==
    ASSUME TypeOK, FitNow, Move, is_sync' \in BOOLEAN
    PROVE  [OneThread!Next]_<<BottomLoop, OpenCalls>>
<1>1. ASSUME NEW p \in Peer, NEW m \in Methods, Invoke(p, m)
      PROVE  OneThread!Next
  BY <1>1, InvokeIsCall DEF OneThread!Next
<1>2. ASSUME NEW p \in Peer, ReceiveReply(p) PROVE OneThread!Next
  BY <1>2, ReplyIsReturn DEF OneThread!Next
<1>3. ASSUME NEW p \in Peer, SendReply(p) \/ DispatchCall(p)
      PROVE  UNCHANGED <<BottomLoop, OpenCalls>>
  <2> DEFINE s == stack[p]
  <2>0. /\ is_sync' = is_sync /\ s \in Seq(Frame) /\ stack \in [Peer -> Seq(Frame)]
        /\ chan[p] \in Seq(Message)
    BY <1>3 DEF TypeOK, SendReply, DispatchCall
  <2>1. /\ MethodsOf(stack'[p], "invoke") = MethodsOf(s, "invoke")
        /\ stack'[Other(p)] = stack[Other(p)]
    <3>1. CASE SendReply(p)
      <4> DEFINE t == Front(s)
      <4>1. s # <<>> /\ Last(s).kind = "handle"
        BY <3>1 DEF SendReply
      <4>2. t \in Seq(Frame) /\ Extends(s, t) /\ s[Len(s)].kind = "handle"
        BY <2>0, <4>1, Popped
      <4>3. stack'[p] = t /\ stack'[Other(p)] = stack[Other(p)]
        BY <3>1, Effects DEF SendReply, Pop
      <4> HIDE DEF t, s
      <4> QED
        BY <2>0, <4>2, <4>3, MethodsOfExtends DEF s
    <3>2. CASE DispatchCall(p)
      <4> DEFINE f == [kind |-> "handle", method |-> Head(chan[p]).method]
                 t == Append(s, f)
      <4>1. f \in Frame /\ f.kind = "handle"
        <5>1. chan[p] # <<>>
          BY <3>2 DEF DispatchCall, HeadIs
        <5>2. Head(chan[p]) \in Message
          BY <2>0, <5>1, ChannelTail
        <5>3. Head(chan[p]).method \in Methods \cup {NoMethod}
          BY <5>2 DEF Message
        <5> QED
          BY <5>3, CallTypes
      <4>2. t \in Seq(Frame) /\ Extends(t, s) /\ t[Len(t)] = f
        BY <2>0, <4>1, Pushed
      <4>3. stack'[p] = t /\ stack'[Other(p)] = stack[Other(p)]
        BY <3>2, Effects DEF DispatchCall, Push
      <4> HIDE DEF t, s, f
      <4> QED
        BY <2>0, <4>1, <4>2, <4>3, MethodsOfExtends DEF s
    <3> QED
      BY <1>3, <3>1, <3>2
  <2>2. \A q \in Peer : q = p \/ q = Other(p)
    BY PeerOther
  <2> QED
    BY <2>0, <2>1, <2>2, SameThread
<1>4. CASE SyncMove
  <2>1. SyncMoveProps
    BY <1>4, AlignedSync
  <2>2. \A p \in Peer : MethodsOf(stack'[p], "invoke") = MethodsOf(stack[p], "invoke")
    <3>1. "invoke" \in {"invoke", "handle"}
      OBVIOUS
    <3> QED
      BY <2>1, <3>1 DEF SyncMoveProps
  <2>3. CASE is_sync' = is_sync
    BY <2>2, <2>3, SameThread
  <2>4. CASE is_sync' # is_sync
    <3>1. /\ MethodsOf(stack["wrapper"], "invoke") = <<>>
          /\ MethodsOf(stack["viewer"], "invoke") = <<>>
          /\ MethodsOf(stack'["wrapper"], "invoke") = <<>>
          /\ MethodsOf(stack'["viewer"], "invoke") = <<>>
      BY <2>1, <2>2, <2>4 DEF SyncMoveProps, Peer
    <3>2. Thread(TRUE, <<>>, <<>>) = <<>> /\ Thread(FALSE, <<>>, <<>>) = <<>>
      BY NoThread
    <3>3. is_sync \in BOOLEAN
      BY DEF TypeOK
    <3>4. OpenCalls = <<>> /\ OpenCalls' = <<>>
      BY <3>1, <3>2, <3>3, OpenCallsIsThread, OpenCallsNext
    <3>5. BottomLoop' = OneThread!OtherSide(BottomLoop)
      BY <2>4, <3>3 DEF BottomLoop, OneThread!OtherSide
    <3> QED
      BY <3>4, <3>5 DEF OneThread!TakeTurns, OneThread!Next
  <2> QED
    BY <2>3, <2>4
<1>5. CASE UNCHANGED vars
  BY <1>5, SameThread DEF vars, TypeOK
<1> QED
  BY <1>1, <1>2, <1>3, <1>4, <1>5 DEF Move, MoveOf

-----------------------------------------------------------------------------
(* Without faults.                                                           *)

LEMMA QuietStep ==
    ASSUME TypeOK, ControlInvariant, ThreadInvariant, Healthy, [Next]_vars, Faults = {}
    PROVE  FitNow /\ Move /\ Healthy'
<1>1. FitNow
  BY ControlInvariantParts, FitNowParts DEF ThreadInvariant
<1>2. \A p \in Peer : ~Crash(p)
  BY DEF Crash
<1> QED
  BY <1>1, <1>2, StepIsMove, MoveIsHealthy

\* A connection does not fail by itself: as long as no process dies, no message
\* times out and no callback fails, neither end gets to rpc_error.
THEOREM NoErrorByItself ==
    ASSUME Faults = {}
    PROVE  Spec => []Healthy
<1>1. Init => Healthy
  BY DEF Init, Healthy
<1>2. TypeOK /\ ControlInvariant /\ ThreadInvariant /\ Healthy /\ [Next]_vars => Healthy'
  BY QuietStep
<1>3. Spec => []ControlInvariant
  BY ControlIsOne
<1>4. Spec => []ThreadInvariant
  BY StacksStayMatched
<1> QED
  BY <1>1, <1>2, <1>3, <1>4, TypeCorrect, PTL DEF Spec

\* The assert()s of rpc_dispatch_pending_sync hold whenever it is called on a
\* connection without errors: the SYNC it answers was read at depth one, and
\* nothing has arrived since.  Only the death of the viewer breaks them.
THEOREM PendingSyncAsserts ==
    ASSUME Faults \subseteq {"crash"}
    PROVE  Spec => [](Healthy => PendingSyncIsSafe)
<1>1. TypeOK /\ ControlInvariant /\ ThreadInvariant => (Healthy => PendingSyncIsSafe)
  BY ControlInvariantParts, FitNowParts, PendingIsSafe DEF ThreadInvariant, PendingSyncIsSafe
<1>2. "timeout" \notin Faults
  OBVIOUS
<1>3. Spec => []ControlInvariant
  BY <1>2, ControlIsOne
<1> QED
  BY <1>1, <1>3, TypeCorrect, StacksStayMatched, PTL

\* The connection implements the one thread that NPAPI assumes: a call and its
\* return alternate between the ends as on a single stack, at any depth, and the
\* event loops take turns only when no call is open.
THEOREM ConnectionIsOneThread ==
    ASSUME Faults = {}
    PROVE  Spec => ImplementsSharedThread
<1>1. Init => OneThread!Init
  <2> SUFFICES ASSUME Init PROVE OneThread!Init
    OBVIOUS
  <2>1. stack["wrapper"] = <<>> /\ stack["viewer"] = <<>> /\ is_sync = FALSE
    BY DEF Init, Peer
  <2>2. OpenCalls = <<>>
    BY <2>1, OpenCallsIsThread, MethodsOfEmpty, NoThread
  <2> QED
    BY <2>1, <2>2 DEF OneThread!Init, BottomLoop
<1>2. TypeOK /\ TypeOK' /\ ControlInvariant /\ ThreadInvariant /\ Healthy /\ [Next]_vars
        => [OneThread!Next]_<<BottomLoop, OpenCalls>>
  <2> SUFFICES ASSUME TypeOK, TypeOK', ControlInvariant, ThreadInvariant, Healthy, [Next]_vars
               PROVE  [OneThread!Next]_<<BottomLoop, OpenCalls>>
    OBVIOUS
  <2>1. FitNow /\ Move
    BY QuietStep
  <2>2. is_sync' \in BOOLEAN
    BY DEF TypeOK
  <2> QED
    BY <2>1, <2>2, MoveIsThreadStep
<1>3. Spec => []ControlInvariant
  BY ControlIsOne
<1>4. Spec => []ThreadInvariant
  BY StacksStayMatched
<1>5. Spec => []Healthy
  BY NoErrorByItself
<1> QED
  BY <1>1, <1>2, <1>3, <1>4, <1>5, TypeCorrect, PTL
    DEF Spec, ImplementsSharedThread, OneThread!Spec, OneThread!vars

-----------------------------------------------------------------------------
(***************************************************************************)
(* The two ends find each other (module Connect).  First the tables of     *)
(* methods, then who has which name.                                       *)
(***************************************************************************)

Descriptors(end) == {VtableOf(end)[i] : i \in 1..Len(VtableOf(end))}
Keys(end) == {d.id : d \in Descriptors(end)}
Callbacks(end) == {d.callback : d \in Descriptors(end)}
Tables(end) == [entries : Seq([key : Keys(end), value : Callbacks(end)]), n_entries_max : Nat]

\* No method is in the table twice.
NoTwins(map) == \A i, j \in DOMAIN map.entries : map.entries[i].key = map.entries[j].key => i = j

LEMMA VtableProps ==
    ASSUME NEW end \in {"wrapper", "viewer"}
    PROVE  /\ VtableOf(end) \in Seq(Descriptors(end)) /\ "NULL" \notin Callbacks(end)
           /\ \A d \in Descriptors(end) : d.id \in Keys(end) /\ d.callback \in Callbacks(end)
<1> DEFINE descs == VtableOf(end)
<1>1. /\ Len(descs) \in Nat /\ descs = [i \in 1 .. Len(descs) |-> descs[i]]
      /\ \A i \in 1 .. Len(descs) : descs[i].callback # "NULL"
  BY VtableAssumption
<1>2. descs \in [1..Len(descs) -> Descriptors(end)]
  BY <1>1 DEF Descriptors
<1>3. descs \in Seq(Descriptors(end))
  <2> HIDE DEF descs
  <2> QED
    BY <1>1, <1>2
<1>4. "NULL" \notin Callbacks(end)
  BY <1>1 DEF Callbacks, Descriptors
<1>5. \A d \in Descriptors(end) : d.id \in Keys(end) /\ d.callback \in Callbacks(end)
  BY DEF Keys, Callbacks
<1> QED
  BY <1>3, <1>4, <1>5

LEMMA LookupFound ==
    ASSUME NEW map, NoTwins(map), NEW i \in DOMAIN map.entries
    PROVE  rpc_map_lookup(map, map.entries[i].key) = map.entries[i].value
<1> DEFINE key == map.entries[i].key
           S == _rpc_map_lookup(map, key)
<1>1. S = {i}
  BY DEF _rpc_map_lookup, NoTwins
<1>2. (CHOOSE k \in S : TRUE) = i
  BY <1>1
<1> QED
  BY <1>1, <1>2 DEF rpc_map_lookup

LEMMA LookupNone ==
    ASSUME NEW map, NEW key, \A i \in DOMAIN map.entries : map.entries[i].key # key
    PROVE  rpc_map_lookup(map, key) = "NULL"
  BY DEF rpc_map_lookup, _rpc_map_lookup

LEMMA LookupNull ==
    ASSUME NEW end \in {"wrapper", "viewer"}, NEW map \in Tables(end), NoTwins(map), NEW key,
           rpc_map_lookup(map, key) = "NULL"
    PROVE  \A i \in DOMAIN map.entries : map.entries[i].key # key
<1> SUFFICES ASSUME NEW i \in DOMAIN map.entries, map.entries[i].key = key PROVE FALSE
  OBVIOUS
<1>1. rpc_map_lookup(map, key) = map.entries[i].value
  BY LookupFound
<1>2. map.entries[i].value \in Callbacks(end)
  <2>1. map.entries \in Seq([key : Keys(end), value : Callbacks(end)])
    BY DEF Tables
  <2> DEFINE E == [key : Keys(end), value : Callbacks(end)]
             es == map.entries
  <2>2. es \in Seq(E) /\ i \in DOMAIN es
    BY <2>1
  <2> HIDE DEF E, es
  <2>3. es[i] \in E
    BY <2>2
  <2> QED
    BY <2>3 DEF E, es
<1> QED
  BY <1>1, <1>2, VtableProps

\* A new method is entered; whatever was there stays.
LEMMA InsertProps ==
    ASSUME NEW end \in {"wrapper", "viewer"}, NEW map \in Tables(end), NoTwins(map),
           NEW key \in Keys(end), NEW value \in Callbacks(end), rpc_map_lookup(map, key) = "NULL"
    PROVE  /\ rpc_map_insert(map, key, value) \in Tables(end)
           /\ NoTwins(rpc_map_insert(map, key, value))
           /\ rpc_map_lookup(rpc_map_insert(map, key, value), key) = value
           /\ \A k : rpc_map_lookup(map, k) # "NULL" =>
                 rpc_map_lookup(rpc_map_insert(map, key, value), k) = rpc_map_lookup(map, k)
<1> DEFINE new == rpc_map_insert(map, key, value)
           e == [key |-> key, value |-> value]
           E == [key : Keys(end), value : Callbacks(end)]
<1>1. \A i \in DOMAIN map.entries : map.entries[i].key # key
  BY LookupNull
<1>2. _rpc_map_lookup(map, key) = {}
  BY <1>1 DEF _rpc_map_lookup
<1>3. /\ map.entries \in Seq(E) /\ map.n_entries_max \in Nat
  BY DEF Tables
<1>4. new.entries = Append(map.entries, e) /\ new.n_entries_max \in Nat /\ new = [entries |-> new.entries, n_entries_max |-> new.n_entries_max]
  BY <1>2, <1>3 DEF rpc_map_insert, N_ENTRIES_ALLOC
<1>5. e \in E /\ e.key = key /\ e.value = value
  OBVIOUS
<1> HIDE DEF new, e, E
<1>6. /\ new.entries \in Seq(E) /\ Len(new.entries) = Len(map.entries) + 1
      /\ \A i \in 1..Len(map.entries) : new.entries[i] = map.entries[i]
      /\ new.entries[Len(map.entries) + 1] = e
  BY <1>3, <1>4, <1>5, AppendProps
<1>7. new \in Tables(end)
  BY <1>4, <1>6 DEF Tables, E
<1>8. DOMAIN map.entries = 1..Len(map.entries) /\ DOMAIN new.entries = 1..Len(new.entries) /\ Len(map.entries) \in Nat
  BY <1>3, <1>6
<1>9. NoTwins(new)
  <2> SUFFICES ASSUME NEW i \in DOMAIN new.entries, NEW j \in DOMAIN new.entries,
                      new.entries[i].key = new.entries[j].key
               PROVE  i = j
    BY DEF NoTwins
  <2>1. \A n \in DOMAIN new.entries : n = Len(map.entries) + 1 \/ n \in DOMAIN map.entries
    BY <1>6, <1>8
  <2>2. \A n \in DOMAIN map.entries : new.entries[n].key = map.entries[n].key /\ new.entries[n].key # key
    BY <1>1, <1>6, <1>8
  <2>3. new.entries[Len(map.entries) + 1].key = key
    BY <1>5, <1>6
  <2>4. CASE i \in DOMAIN map.entries /\ j \in DOMAIN map.entries
    BY <2>2, <2>4 DEF NoTwins
  <2> QED
    BY <2>1, <2>2, <2>3, <2>4
<1>10. rpc_map_lookup(new, key) = value
  <2>1. Len(map.entries) + 1 \in DOMAIN new.entries
    BY <1>6, <1>8
  <2> QED
    BY <1>5, <1>6, <1>9, <2>1, LookupFound
<1>11. ASSUME NEW k, rpc_map_lookup(map, k) # "NULL"
       PROVE  rpc_map_lookup(new, k) = rpc_map_lookup(map, k)
  <2>1. PICK i \in DOMAIN map.entries : map.entries[i].key = k
    BY <1>11, LookupNone
  <2>2. i \in DOMAIN new.entries /\ new.entries[i] = map.entries[i]
    BY <1>6, <1>8
  <2>3. rpc_map_lookup(map, map.entries[i].key) = map.entries[i].value
    BY LookupFound
  <2>4. rpc_map_lookup(new, new.entries[i].key) = new.entries[i].value
    BY <1>9, <2>2, LookupFound
  <2> QED
    BY <2>1, <2>2, <2>3, <2>4
<1> QED
  BY <1>7, <1>9, <1>10, <1>11 DEF new

\* What adding methods keeps, and what it brings.
AddOk(end, r) == r \in [ok : BOOLEAN, map : Tables(end)] /\ NoTwins(r.map)

LEMMA AddProps ==
    ASSUME NEW end \in {"wrapper", "viewer"}, NEW r, AddOk(end, r), NEW d \in Descriptors(end)
    PROVE  LET new == rpc_connection_add_method_descriptor(r, d)
           IN  /\ AddOk(end, new)
               /\ new.ok => r.ok /\ rpc_map_lookup(new.map, d.id) = d.callback
               /\ \A k : rpc_map_lookup(r.map, k) # "NULL" =>
                     rpc_map_lookup(new.map, k) = rpc_map_lookup(r.map, k)
<1> DEFINE new == rpc_connection_add_method_descriptor(r, d)
           map == rpc_map_insert(r.map, d.id, d.callback)
           callback == rpc_map_lookup(r.map, d.id)
<1>1. d.id \in Keys(end) /\ d.callback \in Callbacks(end)
  BY VtableProps
<1>2. r \in [ok : BOOLEAN, map : Tables(end)] /\ NoTwins(r.map) /\ r.map \in Tables(end)
  BY DEF AddOk
<1>3. CASE ~r.ok
  <2>1. new = r
    BY <1>3 DEF rpc_connection_add_method_descriptor
  <2> HIDE DEF new
  <2> QED
    BY <1>3, <2>1 DEF new
<1>4. CASE r.ok /\ callback = "NULL"
  <2>1. new = [r EXCEPT !.map = map]
    BY <1>4 DEF rpc_connection_add_method_descriptor
  <2>2. /\ map \in Tables(end) /\ NoTwins(map) /\ rpc_map_lookup(map, d.id) = d.callback
        /\ \A k : rpc_map_lookup(r.map, k) # "NULL" => rpc_map_lookup(map, k) = rpc_map_lookup(r.map, k)
    BY <1>1, <1>2, <1>4, InsertProps
  <2> HIDE DEF new, map
  <2>3. new \in [ok : BOOLEAN, map : Tables(end)] /\ new.map = map
    BY <1>2, <2>1, <2>2
  <2> QED
    BY <1>4, <2>2, <2>3 DEF new, AddOk
<1>5. CASE r.ok /\ callback # "NULL"
  <2>1. new = [r EXCEPT !.ok = callback = d.callback]
    BY <1>5 DEF rpc_connection_add_method_descriptor
  <2> HIDE DEF new
  <2>2. /\ new \in [ok : BOOLEAN, map : Tables(end)] /\ new.map = r.map
        /\ new.ok <=> callback = d.callback
    BY <1>2, <2>1
  <2> QED
    BY <1>2, <1>5, <2>2 DEF new, AddOk
<1> QED
  BY <1>3, <1>4, <1>5

\* f is what the loop over the descriptors goes through, up to the last but n.
Additions(f, map, descs, n) ==
    f = [i \in 0..n |-> IF i = 0 THEN [ok |-> TRUE, map |-> map]
                        ELSE rpc_connection_add_method_descriptor(f[i - 1], descs[Len(descs) + 1 - i])]

LEMMA AdditionsExist ==
    ASSUME NEW map, NEW descs, NEW n \in Nat
    PROVE  \E f : Additions(f, map, descs, n)
<1> DEFINE G(g, i) == rpc_connection_add_method_descriptor(g, descs[Len(descs) + 1 - i])
           T == {m \in Nat : \E f : Additions(f, map, descs, m)}
<1>1. 0 \in T
  <2>1. Additions([i \in 0..0 |-> [ok |-> TRUE, map |-> map]], map, descs, 0)
    BY DEF Additions
  <2> QED
    BY <2>1
<1>2. ASSUME NEW k \in T PROVE k + 1 \in T
  <2>1. PICK f : Additions(f, map, descs, k)
    OBVIOUS
  <2> DEFINE m == k + 1
             h == [i \in 0..m |-> IF i = m THEN G(f[k], m) ELSE f[i]]
  <2>2. m \in Nat /\ m # 0 /\ k \in Nat /\ m - 1 = k
    OBVIOUS
  <2> HIDE DEF G
  <2>3. ASSUME NEW i \in 0..m
        PROVE  h[i] = IF i = 0 THEN [ok |-> TRUE, map |-> map] ELSE G(h[i - 1], i)
    <3>1. CASE i = m
      BY <2>2, <3>1
    <3>2. CASE i # m
      <4>1. i \in 0..k
        BY <2>2, <3>2
      <4>2. f[i] = IF i = 0 THEN [ok |-> TRUE, map |-> map] ELSE G(f[i - 1], i)
        BY <2>1, <4>1 DEF Additions, G
      <4>3. h[i] = f[i] /\ (i # 0 => h[i - 1] = f[i - 1])
        BY <2>2, <3>2, <4>1
      <4> HIDE DEF h
      <4> QED
        BY <4>2, <4>3
    <3> QED
      BY <3>1, <3>2
  <2>4. h = [i \in 0..m |-> h[i]]
    OBVIOUS
  <2> HIDE DEF h
  <2>5. Additions(h, map, descs, m)
    BY <2>3, <2>4 DEF Additions, G
  <2> QED
    BY <2>2, <2>5
<1>3. T \subseteq Nat
  OBVIOUS
<1> HIDE DEF T
<1>4. T = Nat
  BY <1>1, <1>2, <1>3, SetOfAllNumbers
<1> QED
  BY <1>4 DEF T

\* A table without an error has every method of the program.
LEMMA AllAdded ==
    ASSUME NEW end \in {"wrapper", "viewer"}, NEW map \in Tables(end), NoTwins(map)
    PROVE  LET added == rpc_connection_add_method_descriptors(map, VtableOf(end))
           IN  /\ added.map \in Tables(end) /\ NoTwins(added.map)
               /\ added.ok => Serves(added.map, end)
<1> DEFINE descs == VtableOf(end)
           n == Len(descs)
           f == CHOOSE g : Additions(g, map, descs, n)
           Served(k, i) == rpc_map_lookup(f[k].map, descs[i].id) = descs[i].callback
           Ok(k) == AddOk(end, f[k]) /\ (f[k].ok => \A i \in 1..n : i > n - k => Served(k, i))
           T == {k \in Nat : k <= n => Ok(k)}
<1>1. /\ descs \in Seq(Descriptors(end)) /\ n \in Nat /\ DOMAIN descs = 1..n
      /\ \A i \in 1..n : descs[i] \in Descriptors(end) /\ descs[i].callback # "NULL"
  <2>1. descs \in Seq(Descriptors(end)) /\ "NULL" \notin Callbacks(end)
    BY VtableProps
  <2>2. /\ n \in Nat /\ DOMAIN descs = 1..n
        /\ \A i \in 1..n : descs[i] \in Descriptors(end)
    BY <2>1
  <2> QED
    BY <2>1, <2>2, VtableProps
<1>2. Additions(f, map, descs, n)
  <2>1. \E g : Additions(g, map, descs, n)
    BY <1>1, AdditionsExist
  <2> QED
    BY <2>1, Zenon
<1>3. rpc_connection_add_method_descriptors(map, descs) = f[n]
  BY Zenon DEF rpc_connection_add_method_descriptors, Additions
<1> HIDE DEF f, n, descs
<1>4. /\ f[0] = [ok |-> TRUE, map |-> map]
      /\ \A k \in 1..n : f[k] = rpc_connection_add_method_descriptor(f[k - 1], descs[n + 1 - k])
  <2>1. f = [i \in 0..n |-> IF i = 0 THEN [ok |-> TRUE, map |-> map]
                           ELSE rpc_connection_add_method_descriptor(f[i - 1], descs[n + 1 - i])]
    BY <1>2, Zenon DEF Additions, n
  <2>2. 0 \in 0..n /\ \A k \in 1..n : k \in 0..n /\ k # 0
    BY <1>1
  <2>3. f[0] = [ok |-> TRUE, map |-> map]
    BY <2>1, <2>2, Zenon
  <2>4. ASSUME NEW k \in 1..n PROVE f[k] = rpc_connection_add_method_descriptor(f[k - 1], descs[n + 1 - k])
    BY <2>1, <2>2, Zenon
  <2> QED
    BY <2>3, <2>4
<1>5. 0 \in T
  <2>1. AddOk(end, f[0])
    BY <1>4 DEF AddOk
  <2> QED
    BY <1>1, <2>1
<1>6. ASSUME NEW k \in T PROVE k + 1 \in T
  <2> SUFFICES ASSUME k + 1 <= n PROVE Ok(k + 1)
    OBVIOUS
  <2> DEFINE m == k + 1
             d == descs[n + 1 - m]
             new == rpc_connection_add_method_descriptor(f[k], d)
  <2>1. m \in 1..n /\ m - 1 = k /\ k \in Nat /\ Ok(k) /\ n + 1 - m \in 1..n /\ n + 1 - m = n - k
    BY <1>1
  <2>2. f[m] = new /\ d \in Descriptors(end)
    BY <1>1, <1>4, <2>1
  <2> HIDE DEF d
  <2>3. /\ AddOk(end, new)
        /\ new.ok => f[k].ok /\ rpc_map_lookup(new.map, d.id) = d.callback
        /\ \A x : rpc_map_lookup(f[k].map, x) # "NULL" =>
              rpc_map_lookup(new.map, x) = rpc_map_lookup(f[k].map, x)
    BY <2>1, <2>2, AddProps
  <2> HIDE DEF new, m
  <2>4. ASSUME f[m].ok, NEW i \in 1..n, i > n - m PROVE Served(m, i)
    <3>1. CASE i = n - k
      BY <2>1, <2>2, <2>3, <2>4, <3>1 DEF d
    <3>2. CASE i # n - k
      <4>1. i > n - k
        BY <1>1, <2>1, <2>4, <3>2 DEF m
      <4>2. Served(k, i) /\ descs[i].callback # "NULL"
        BY <1>1, <2>1, <2>2, <2>3, <2>4, <4>1
      <4> QED
        BY <2>2, <2>3, <4>2
    <3> QED
      BY <3>1, <3>2
  <2> QED
    BY <2>2, <2>3, <2>4 DEF m
<1>7. T \subseteq Nat
  OBVIOUS
<1> HIDE DEF T
<1>8. T = Nat
  BY <1>5, <1>6, <1>7, SetOfAllNumbers
<1>9. Ok(n)
  BY <1>1, <1>8 DEF T
<1>10. ASSUME f[n].ok, NEW i \in 1..n PROVE Served(n, i)
  BY <1>1, <1>9, <1>10
<1>11. f[n].map \in Tables(end) /\ NoTwins(f[n].map)
  BY <1>9 DEF AddOk
<1> QED
  BY <1>1, <1>3, <1>10, <1>11 DEF descs, Serves

-----------------------------------------------------------------------------
(* The invariant: a random number is drawn once by a browser, so a name is   *)
(* that of one viewer, whatever has become of the others.                    *)

Pids == Wrappers \X Nat
SocketNames == {Ident(w, n, r) : w \in Wrappers, n \in Nat, r \in Nat}
BrowserPids == {PidOf(w) : w \in Wrappers}

Starter ==
    [pc : {"stopped", "connecting", "connected", "ready", "failed"}, init_count : Nat,
     ident : SocketNames \cup {<<>>}, attempts : Int, viewer_pid : Pids \cup {NoSocket},
     connection : [socket : Pids \cup {NoSocket}, methods : Tables("wrapper")]]

Viewer ==
    [pc : {"exec", "listening", "ready", "killed"}, connection_path : SocketNames, listens : BOOLEAN,
     backlog : Seq(Pids), connection : [socket : Pids \cup {NoSocket}, methods : Tables("viewer")]]

StarterOk(s, w) ==
    /\ s \in Starter
    /\ s.viewer_pid \in {NoSocket, <<w, s.init_count>>}
    /\ s.pc = "connecting" => s.viewer_pid = <<w, s.init_count>>
    /\ s.connection.socket \in {NoSocket, s.viewer_pid}
    /\ NoTwins(s.connection.methods)
    /\ s.pc = "ready" => Serves(s.connection.methods, "wrapper")
    /\ s.ident # <<>> => s.ident[2] = PidOf(w)

ViewerOk(x, v) ==
    /\ x \in Viewer
    /\ x.connection_path[2] = PidOf(v[1])
    /\ x.connection.socket \in {NoSocket, v}
    /\ \A i \in DOMAIN x.backlog : x.backlog[i] = v
    /\ NoTwins(x.connection.methods)
    /\ x.pc = "ready" => Serves(x.connection.methods, "viewer")

NamesOk(ss, vs, dr) ==
    /\ \A v \in DOMAIN vs : vs[v].connection_path[4] <= dr[PidOf(v[1])] /\ v[2] <= ss[v[1]].init_count
    /\ \A u, v \in DOMAIN vs : vs[u].connection_path = vs[v].connection_path => u = v
    /\ \A w \in Wrappers : ss[w].ident # <<>> =>
          /\ ss[w].ident[4] <= dr[PidOf(w)]
          /\ \A v \in DOMAIN vs : vs[v].connection_path = ss[w].ident => v = ss[w].viewer_pid

ConnectInvariant ==
    /\ starter = [w \in Wrappers |-> starter[w]] /\ \A w \in Wrappers : StarterOk(starter[w], w)
    /\ viewers = [v \in DOMAIN viewers |-> viewers[v]] /\ DOMAIN viewers \subseteq Pids
    /\ \A v \in DOMAIN viewers : ViewerOk(viewers[v], v)
    /\ drawn \in [BrowserPids -> Nat]
    /\ NamesOk(starter, viewers, drawn)

LEMMA NameProps ==
    ASSUME NEW i \in SocketNames
    PROVE  i # <<>> /\ i[4] \in Nat /\ i[2] \in BrowserPids
  BY DEF SocketNames, Ident, BrowserPids

LEMMA NewTable ==
    ASSUME NEW end
    PROVE  rpc_map_new \in Tables(end) /\ NoTwins(rpc_map_new)
<1>1. <<>> \in Seq([key : Keys(end), value : Callbacks(end)]) /\ DOMAIN <<>> = {}
  OBVIOUS
<1> QED
  BY <1>1 DEF rpc_map_new, Tables, NoTwins

\* A closed connection
LEMMA Closed ==
    ASSUME NEW end, NEW c \in [socket : Pids \cup {NoSocket}, methods : Tables(end)]
    PROVE  /\ rpc_exit(c) \in [socket : Pids \cup {NoSocket}, methods : Tables(end)]
           /\ rpc_exit(c).socket = NoSocket /\ NoTwins(rpc_exit(c).methods)
<1> DEFINE m == [c.methods EXCEPT !.entries = <<>>, !.n_entries_max = 0]
<1>1. /\ rpc_map_new \in Tables(end) /\ NoTwins(rpc_map_new)
      /\ c.methods \in Tables(end)
  BY NewTable
<1>2. m = rpc_map_new
  <2> DEFINE t == c.methods
  <2>1. t = [entries |-> t.entries, n_entries_max |-> t.n_entries_max]
    BY <1>1 DEF Tables
  <2> HIDE DEF t
  <2>2. m = [t EXCEPT !.entries = <<>>, !.n_entries_max = 0]
    BY DEF t
  <2> HIDE DEF m
  <2> QED
    BY <2>1, <2>2 DEF rpc_map_new
<1>3. rpc_exit(c) = [socket |-> NoSocket, methods |-> m]
  BY DEF rpc_exit, rpc_map_destroy
<1> HIDE DEF m
<1> QED
  BY <1>1, <1>2, <1>3

\* Where nobody starts, names are as they were, or fewer.
LEMMA NamesKept ==
    ASSUME NEW ss, NEW vs, NEW dr, NamesOk(ss, vs, dr), NEW ts, NEW us,
           DOMAIN us \subseteq DOMAIN vs, DOMAIN vs \subseteq Pids,
           \A v \in DOMAIN us : us[v].connection_path = vs[v].connection_path,
           \A w \in Wrappers :
               /\ ts[w].init_count = ss[w].init_count
               /\ ts[w].ident = <<>> \/ (ts[w].ident = ss[w].ident /\ ts[w].viewer_pid = ss[w].viewer_pid)
    PROVE  NamesOk(ts, us, dr)
<1>1. \A v \in DOMAIN us : us[v].connection_path[4] <= dr[PidOf(v[1])] /\ v[2] <= ts[v[1]].init_count
  <2> SUFFICES ASSUME NEW v \in DOMAIN us
               PROVE  us[v].connection_path[4] <= dr[PidOf(v[1])] /\ v[2] <= ts[v[1]].init_count
    OBVIOUS
  <2>1. v \in DOMAIN vs /\ v[1] \in Wrappers
    BY DEF Pids
  <2> QED
    BY <2>1 DEF NamesOk
<1>2. \A u, v \in DOMAIN us : us[u].connection_path = us[v].connection_path => u = v
  BY DEF NamesOk
<1>3. ASSUME NEW w \in Wrappers, ts[w].ident # <<>>
      PROVE  /\ ts[w].ident[4] <= dr[PidOf(w)]
             /\ \A v \in DOMAIN us : us[v].connection_path = ts[w].ident => v = ts[w].viewer_pid
  BY <1>3 DEF NamesOk
<1> QED
  BY <1>1, <1>2, <1>3 DEF NamesOk

LEMMA KeepsNames ==
    ASSUME ConnectInvariant, drawn' = drawn,
           starter' = [w \in Wrappers |-> starter'[w]],
           \A w \in Wrappers :
               /\ StarterOk(starter'[w], w)
               /\ starter'[w].init_count = starter[w].init_count
               /\ \/ starter'[w].ident = <<>>
                  \/ starter'[w].ident = starter[w].ident /\ starter'[w].viewer_pid = starter[w].viewer_pid,
           viewers' = [v \in DOMAIN viewers' |-> viewers'[v]], DOMAIN viewers' \subseteq DOMAIN viewers,
           \A v \in DOMAIN viewers' : /\ ViewerOk(viewers'[v], v)
                                      /\ viewers'[v].connection_path = viewers[v].connection_path
    PROVE  ConnectInvariant'
<1> DEFINE ts == starter'
           us == viewers'
<1>1. NamesOk(starter, viewers, drawn) /\ DOMAIN viewers \subseteq Pids /\ drawn \in [BrowserPids -> Nat]
  BY DEF ConnectInvariant
<1>2. NamesOk(ts, us, drawn)
  <2>1. /\ DOMAIN us \subseteq DOMAIN viewers
        /\ \A v \in DOMAIN us : us[v].connection_path = viewers[v].connection_path
        /\ \A w \in Wrappers :
               /\ ts[w].init_count = starter[w].init_count
               /\ ts[w].ident = <<>> \/ (ts[w].ident = starter[w].ident /\ ts[w].viewer_pid = starter[w].viewer_pid)
    OBVIOUS
  <2> HIDE DEF ts, us
  <2> QED
    BY <1>1, <2>1, NamesKept
<1> QED
  BY <1>1, <1>2 DEF ConnectInvariant

LEMMA ViewersStay ==
    ASSUME ConnectInvariant, NEW v \in DOMAIN viewers
    PROVE  /\ viewers[v] \in Viewer /\ ViewerOk(viewers[v], v) /\ v \in Pids
           /\ v[1] \in Wrappers
  BY DEF ConnectInvariant, ViewerOk, Pids

LEMMA ServersOf ==
    ASSUME ConnectInvariant, NEW w \in Wrappers, NEW v \in Servers(starter[w].ident)
    PROVE  v \in DOMAIN viewers /\ v = starter[w].viewer_pid
<1>1. v \in DOMAIN viewers /\ viewers[v].connection_path = starter[w].ident
  BY DEF Servers
<1>2. viewers[v].connection_path # <<>>
  BY <1>1, ViewersStay, NameProps DEF Viewer
<1> QED
  BY <1>1, <1>2 DEF ConnectInvariant, NamesOk

\* A step of one wrapper and perhaps of its viewers.
LEMMA StepOfStarter ==
    ASSUME ConnectInvariant, drawn' = drawn, NEW w \in Wrappers, NEW s,
           starter' = [starter EXCEPT ![w] = s], StarterOk(s, w),
           s.init_count = starter[w].init_count,
           s.ident = <<>> \/ (s.ident = starter[w].ident /\ s.viewer_pid = starter[w].viewer_pid),
           viewers' = [v \in DOMAIN viewers' |-> viewers'[v]], DOMAIN viewers' \subseteq DOMAIN viewers,
           \A v \in DOMAIN viewers' : /\ ViewerOk(viewers'[v], v)
                                      /\ viewers'[v].connection_path = viewers[v].connection_path
    PROVE  ConnectInvariant'
<1>1. starter = [k \in Wrappers |-> starter[k]] /\ \A k \in Wrappers : StarterOk(starter[k], k)
  BY DEF ConnectInvariant
<1> DEFINE ts == starter'
<1>2. ts = [k \in Wrappers |-> ts[k]] /\ \A k \in Wrappers : ts[k] = IF k = w THEN s ELSE starter[k]
  BY <1>1
<1>3. starter' = ts
  OBVIOUS
<1> HIDE DEF ts
<1>4. \A k \in Wrappers :
        /\ StarterOk(ts[k], k)
        /\ ts[k].init_count = starter[k].init_count
        /\ \/ ts[k].ident = <<>>
           \/ ts[k].ident = starter[k].ident /\ ts[k].viewer_pid = starter[k].viewer_pid
  BY <1>1, <1>2
<1> QED
  BY <1>2, <1>3, <1>4, KeepsNames

\* A step of one viewer: it is gone, or another one.
LEMMA StepOfViewer ==
    ASSUME ConnectInvariant, drawn' = drawn, starter' = starter, NEW v \in DOMAIN viewers,
           \/ Gone(v)
           \/ \E x : /\ viewers' = [viewers EXCEPT ![v] = x] /\ ViewerOk(x, v)
                     /\ x.connection_path = viewers[v].connection_path
    PROVE  ConnectInvariant'
<1>1. /\ starter = [k \in Wrappers |-> starter[k]] /\ \A k \in Wrappers : StarterOk(starter[k], k)
      /\ viewers = [k \in DOMAIN viewers |-> viewers[k]]
      /\ \A k \in DOMAIN viewers : ViewerOk(viewers[k], k)
  BY DEF ConnectInvariant
<1>2. /\ viewers' = [k \in DOMAIN viewers' |-> viewers'[k]] /\ DOMAIN viewers' \subseteq DOMAIN viewers
      /\ \A k \in DOMAIN viewers' : /\ ViewerOk(viewers'[k], k)
                                    /\ viewers'[k].connection_path = viewers[k].connection_path
  <2> DEFINE us == viewers'
  <2>1. us = viewers'
    OBVIOUS
  <2>2. CASE Gone(v)
    <3>1. us = [k \in DOMAIN viewers \ {v} |-> viewers[k]]
      BY <2>2 DEF Gone
    <3> HIDE DEF us
    <3>2. DOMAIN us \subseteq DOMAIN viewers /\ \A k \in DOMAIN us : us[k] = viewers[k]
      BY <3>1
    <3>3. us = [k \in DOMAIN us |-> us[k]]
      BY <3>1
    <3> QED
      BY <1>1, <2>1, <3>2, <3>3
  <2>3. ASSUME NEW x, us = [viewers EXCEPT ![v] = x], ViewerOk(x, v),
               x.connection_path = viewers[v].connection_path
        PROVE  /\ us = [k \in DOMAIN us |-> us[k]] /\ DOMAIN us \subseteq DOMAIN viewers
               /\ \A k \in DOMAIN us : /\ ViewerOk(us[k], k)
                                       /\ us[k].connection_path = viewers[k].connection_path
    <3> HIDE DEF us
    <3>1. DOMAIN us = DOMAIN viewers /\ \A k \in DOMAIN us : us[k] = IF k = v THEN x ELSE viewers[k]
      BY <1>1, <2>3
    <3>2. us = [k \in DOMAIN us |-> us[k]]
      BY <1>1, <2>3
    <3>3. ASSUME NEW k \in DOMAIN us
          PROVE  ViewerOk(us[k], k) /\ us[k].connection_path = viewers[k].connection_path
      BY <1>1, <2>3, <3>1
    <3> QED
      BY <3>1, <3>2, <3>3
  <2> HIDE DEF us
  <2> QED
    BY <2>1, <2>2, <2>3
<1>3. /\ starter' = [k \in Wrappers |-> starter'[k]]
      /\ \A k \in Wrappers : /\ StarterOk(starter'[k], k)
                             /\ starter'[k].init_count = starter[k].init_count
                             /\ starter'[k].ident = starter[k].ident /\ starter'[k].viewer_pid = starter[k].viewer_pid
  BY <1>1
<1> QED
  BY <1>2, <1>3, KeepsNames

\* Closing a connection, whatever else of a start goes on.
LEMMA ClosedStarter ==
    ASSUME NEW w \in Wrappers, NEW s, StarterOk(s, w), NEW pc \in {"failed", "stopped"}, NEW n \in Int
    PROVE  /\ StarterOk([s EXCEPT !.pc = pc, !.attempts = n, !.connection = rpc_exit(@)], w)
           /\ StarterOk([s EXCEPT !.pc = pc, !.viewer_pid = NoSocket, !.ident = <<>>,
                                  !.connection = rpc_exit(@)], w)
<1> DEFINE c == rpc_exit(s.connection)
           t == [s EXCEPT !.pc = pc, !.attempts = n, !.connection = c]
           u == [s EXCEPT !.pc = pc, !.viewer_pid = NoSocket, !.ident = <<>>, !.connection = c]
<1>1. /\ s \in Starter
      /\ s.connection \in [socket : Pids \cup {NoSocket}, methods : Tables("wrapper")]
      /\ s.viewer_pid \in {NoSocket, <<w, s.init_count>>}
      /\ s.ident # <<>> => s.ident[2] = PidOf(w)
  BY DEF StarterOk, Starter
<1>2. /\ c \in [socket : Pids \cup {NoSocket}, methods : Tables("wrapper")]
      /\ c.socket = NoSocket /\ NoTwins(c.methods)
  BY <1>1, Closed
<1> HIDE DEF c
<1>3. /\ t \in Starter /\ t.pc = pc /\ t.viewer_pid = s.viewer_pid /\ t.init_count = s.init_count
      /\ t.ident = s.ident /\ t.connection = c
  BY <1>1, <1>2 DEF Starter
<1>4. /\ u \in Starter /\ u.pc = pc /\ u.viewer_pid = NoSocket /\ u.ident = <<>> /\ u.connection = c
  BY <1>1, <1>2 DEF Starter
<1> HIDE DEF t, u
<1>5. StarterOk(t, w)
  BY <1>1, <1>2, <1>3 DEF StarterOk
<1>6. StarterOk(u, w)
  BY <1>1, <1>2, <1>4 DEF StarterOk
<1> QED
  BY <1>5, <1>6 DEF t, u, c

LEMMA StarterIs ==
    ASSUME ConnectInvariant, NEW w \in Wrappers
    PROVE  /\ StarterOk(starter[w], w) /\ starter[w] \in Starter
           /\ starter = [k \in Wrappers |-> starter[k]]
           /\ viewers = [v \in DOMAIN viewers |-> viewers[v]]
           /\ \A v \in DOMAIN viewers : ViewerOk(viewers[v], v)
  BY DEF ConnectInvariant, StarterOk

LEMMA GivesUpStep ==
    ASSUME ConnectInvariant, NEW w \in Wrappers, GivesUp(w), UNCHANGED <<viewers, drawn>>
    PROVE  ConnectInvariant'
<1> DEFINE s == [starter[w] EXCEPT !.pc = "failed", !.attempts = 0, !.connection = rpc_exit(@)]
<1>1. /\ StarterOk(starter[w], w) /\ starter[w] \in Starter
      /\ starter = [k \in Wrappers |-> starter[k]]
      /\ viewers = [v \in DOMAIN viewers |-> viewers[v]]
      /\ \A v \in DOMAIN viewers : ViewerOk(viewers[v], v)
  BY StarterIs
<1>2. StarterOk(s, w)
  <2> DEFINE pc == "failed"
             n == 0
             r == starter[w]
  <2>1. pc \in {"failed", "stopped"} /\ n \in Int /\ StarterOk(r, w)
    BY <1>1
  <2>2. s = [r EXCEPT !.pc = pc, !.attempts = n, !.connection = rpc_exit(@)]
    OBVIOUS
  <2> HIDE DEF pc, n, r, s
  <2> QED
    BY <2>1, <2>2, ClosedStarter
<1>3. starter' = [starter EXCEPT ![w] = s]
  BY <1>1 DEF GivesUp, Starter
<1>4. /\ s.init_count = starter[w].init_count /\ s.ident = starter[w].ident
      /\ s.viewer_pid = starter[w].viewer_pid
  BY <1>1 DEF Starter
<1> HIDE DEF s
<1> QED
  BY <1>1, <1>2, <1>3, <1>4, StepOfStarter

LEMMA ConnectRefusedStep ==
    ASSUME ConnectInvariant, NEW w \in Wrappers, ConnectRefused(w)
    PROVE  ConnectInvariant'
<1>1. /\ StarterOk(starter[w], w) /\ starter[w] \in Starter
      /\ starter = [k \in Wrappers |-> starter[k]]
      /\ viewers = [v \in DOMAIN viewers |-> viewers[v]]
      /\ \A v \in DOMAIN viewers : ViewerOk(viewers[v], v)
  BY StarterIs
<1>2. CASE GivesUp(w)
  BY <1>2, GivesUpStep DEF ConnectRefused
<1>3. CASE starter' = [starter EXCEPT ![w].attempts = @ - 1]
  <2> DEFINE s == [starter[w] EXCEPT !.attempts = @ - 1]
  <2>1. starter' = [starter EXCEPT ![w] = s] /\ UNCHANGED <<viewers, drawn>>
    BY <1>1, <1>3 DEF ConnectRefused
  <2>2. /\ s \in Starter /\ s.init_count = starter[w].init_count /\ s.ident = starter[w].ident
        /\ s.viewer_pid = starter[w].viewer_pid /\ s.pc = starter[w].pc
        /\ s.connection = starter[w].connection
    BY <1>1 DEF Starter
  <2> HIDE DEF s
  <2>3. StarterOk(s, w)
    BY <1>1, <2>2 DEF StarterOk
  <2> QED
    BY <1>1, <2>1, <2>2, <2>3, StepOfStarter
<1> QED
  BY <1>2, <1>3 DEF ConnectRefused

LEMMA ConnectSucceedsStep ==
    ASSUME ConnectInvariant, NEW w \in Wrappers, ConnectSucceeds(w)
    PROVE  ConnectInvariant'
<1>1. /\ StarterOk(starter[w], w) /\ starter[w] \in Starter
      /\ starter = [k \in Wrappers |-> starter[k]]
      /\ viewers = [v \in DOMAIN viewers |-> viewers[v]]
      /\ \A v \in DOMAIN viewers : ViewerOk(viewers[v], v)
  BY StarterIs
<1>2. PICK v \in Servers(starter[w].ident) :
        /\ viewers[v].backlog = <<>>
        /\ starter' = [starter EXCEPT ![w].pc = "connected", ![w].attempts = 0,
                                      ![w].connection.socket = v]
        /\ viewers' = [viewers EXCEPT ![v].backlog = Append(@, <<w, starter[w].init_count>>)]
  BY DEF ConnectSucceeds
<1>3. starter[w].pc = "connecting" /\ drawn' = drawn
  BY DEF ConnectSucceeds
<1>4. v \in DOMAIN viewers /\ v = starter[w].viewer_pid
  BY ServersOf
<1>5. v = <<w, starter[w].init_count>> /\ v \in Pids
  BY <1>1, <1>3, <1>4, ViewersStay DEF StarterOk
<1> DEFINE c == [starter[w].connection EXCEPT !.socket = v]
           s == [starter[w] EXCEPT !.pc = "connected", !.attempts = 0, !.connection = c]
           x == [viewers[v] EXCEPT !.backlog = Append(@, v)]
           us == viewers'
<1>6. starter' = [starter EXCEPT ![w] = s]
  BY <1>1, <1>2 DEF Starter
<1>7. us = [viewers EXCEPT ![v] = x]
  BY <1>2, <1>5
<1>8. /\ c \in [socket : Pids \cup {NoSocket}, methods : Tables("wrapper")]
      /\ c.socket = v /\ c.methods = starter[w].connection.methods
  BY <1>1, <1>5 DEF Starter
<1> HIDE DEF c
<1>9. /\ s \in Starter /\ s.init_count = starter[w].init_count /\ s.ident = starter[w].ident
      /\ s.viewer_pid = starter[w].viewer_pid /\ s.pc = "connected"
      /\ s.connection = c
  <2> DEFINE r == starter[w]
             pc == "connected"
             n == 0
  <2>1. /\ r \in Starter /\ s = [r EXCEPT !.pc = pc, !.attempts = n, !.connection = c]
        /\ pc \in {"stopped", "connecting", "connected", "ready", "failed"} /\ n \in Int
    BY <1>1
  <2> HIDE DEF r, s, n, pc
  <2>2. /\ s \in Starter /\ s.init_count = r.init_count /\ s.ident = r.ident
        /\ s.viewer_pid = r.viewer_pid /\ s.pc = pc /\ s.connection = c
    BY <1>8, <2>1 DEF Starter
  <2> QED
    BY <2>2 DEF r, pc
<1> HIDE DEF s
<1>10. StarterOk(s, w)
  BY <1>1, <1>4, <1>8, <1>9 DEF StarterOk
<1>11. ViewerOk(x, v) /\ x.connection_path = viewers[v].connection_path
  <2>1. viewers[v] \in Viewer /\ ViewerOk(viewers[v], v)
    BY <1>4, ViewersStay
  <2> DEFINE b == Append(viewers[v].backlog, v)
  <2>2. b = <<v>> /\ b \in Seq(Pids) /\ \A i \in DOMAIN b : b[i] = v
    <3>1. Append(<<>>, v) = <<v>>
      OBVIOUS
    <3>2. <<v>> \in Seq(Pids)
      BY <1>5
    <3> QED
      BY <1>2, <3>1, <3>2
  <2>3. x = [viewers[v] EXCEPT !.backlog = b]
    OBVIOUS
  <2> HIDE DEF b, x
  <2>4. /\ x \in Viewer /\ x.pc = viewers[v].pc /\ x.connection_path = viewers[v].connection_path
        /\ x.backlog = b /\ x.connection = viewers[v].connection
    BY <2>1, <2>2, <2>3 DEF Viewer
  <2> QED
    BY <2>1, <2>2, <2>4 DEF ViewerOk
<1> HIDE DEF x
<1>12. /\ us = [k \in DOMAIN us |-> us[k]] /\ DOMAIN us = DOMAIN viewers
       /\ \A k \in DOMAIN us : us[k] = IF k = v THEN x ELSE viewers[k]
  BY <1>1, <1>4, <1>7
<1>13. viewers' = us
  OBVIOUS
<1> HIDE DEF us
<1>14. \A k \in DOMAIN us : ViewerOk(us[k], k) /\ us[k].connection_path = viewers[k].connection_path
  BY <1>1, <1>11, <1>12
<1>15. /\ viewers' = [k \in DOMAIN viewers' |-> viewers'[k]] /\ DOMAIN viewers' \subseteq DOMAIN viewers
       /\ \A k \in DOMAIN viewers' : /\ ViewerOk(viewers'[k], k)
                                     /\ viewers'[k].connection_path = viewers[k].connection_path
  BY <1>12, <1>13, <1>14
<1> QED
  BY <1>3, <1>6, <1>9, <1>10, <1>15, StepOfStarter

LEMMA ListenStep ==
    ASSUME ConnectInvariant, NEW w \in Wrappers, Listen(w)
    PROVE  ConnectInvariant'
<1>1. /\ StarterOk(starter[w], w) /\ starter[w] \in Starter
      /\ starter = [k \in Wrappers |-> starter[k]]
      /\ viewers = [v \in DOMAIN viewers |-> viewers[v]]
      /\ \A v \in DOMAIN viewers : ViewerOk(viewers[v], v)
  BY StarterIs
<1> DEFINE map == starter[w].connection.methods
           added == rpc_connection_add_method_descriptors(map, VtableOf("wrapper"))
<1>2. map \in Tables("wrapper") /\ NoTwins(map)
  BY <1>1 DEF StarterOk, Starter
<1>3. PICK pc \in {"ready", "failed"} :
        /\ pc = "ready" => added.ok
        /\ starter' = [starter EXCEPT ![w].pc = pc, ![w].connection.methods = added.map]
  BY DEF Listen
<1>4. UNCHANGED <<viewers, drawn>>
  BY DEF Listen
<1>5. /\ added.map \in Tables("wrapper") /\ NoTwins(added.map)
      /\ added.ok => Serves(added.map, "wrapper")
  BY <1>2, AllAdded
<1> DEFINE c == [starter[w].connection EXCEPT !.methods = added.map]
           s == [starter[w] EXCEPT !.pc = pc, !.connection = c]
<1>6. starter' = [starter EXCEPT ![w] = s]
  BY <1>1, <1>3 DEF Starter
<1> HIDE DEF map, added
<1>7. /\ c \in [socket : Pids \cup {NoSocket}, methods : Tables("wrapper")]
      /\ c.methods = added.map /\ c.socket = starter[w].connection.socket
  BY <1>1, <1>5 DEF Starter
<1> HIDE DEF c
<1>8. /\ s \in Starter /\ s.init_count = starter[w].init_count /\ s.ident = starter[w].ident
      /\ s.viewer_pid = starter[w].viewer_pid /\ s.pc = pc
      /\ s.connection = c
  BY <1>1, <1>7 DEF Starter
<1> HIDE DEF s
<1>9. StarterOk(s, w)
  BY <1>1, <1>3, <1>5, <1>7, <1>8 DEF StarterOk
<1> QED
  BY <1>1, <1>4, <1>6, <1>8, <1>9, StepOfStarter

LEMMA PluginExitStep ==
    ASSUME ConnectInvariant, NEW w \in Wrappers, PluginExit(w)
    PROVE  ConnectInvariant'
<1>1. /\ StarterOk(starter[w], w) /\ starter[w] \in Starter
      /\ starter = [k \in Wrappers |-> starter[k]]
      /\ viewers = [v \in DOMAIN viewers |-> viewers[v]]
      /\ \A v \in DOMAIN viewers : ViewerOk(viewers[v], v)
  BY StarterIs
<1> DEFINE v == starter[w].viewer_pid
           r == starter[w]
           s == [r EXCEPT !.pc = "stopped", !.viewer_pid = NoSocket, !.ident = <<>>,
                          !.connection = rpc_exit(@)]
           us == viewers'
<1>2. /\ starter' = [starter EXCEPT ![w].pc = "stopped", ![w].viewer_pid = NoSocket,
                                    ![w].ident = <<>>, ![w].connection = rpc_exit(@)]
      /\ \/ us = [u \in DOMAIN viewers \ {v} |-> viewers[u]]
         \/ v \in DOMAIN viewers /\ us = [viewers EXCEPT ![v].pc = "killed"]
      /\ drawn' = drawn
  BY DEF PluginExit
<1>3. starter' = [starter EXCEPT ![w] = s]
  BY <1>1, <1>2 DEF Starter
<1>4. s.init_count = starter[w].init_count /\ s.ident = <<>>
  BY <1>1 DEF Starter
<1>5. StarterOk(s, w)
  <2> DEFINE pc == "stopped"
             n == 0
  <2>1. pc \in {"failed", "stopped"} /\ n \in Int /\ StarterOk(r, w)
    BY <1>1
  <2>2. s = [r EXCEPT !.pc = pc, !.viewer_pid = NoSocket, !.ident = <<>>, !.connection = rpc_exit(@)]
    OBVIOUS
  <2> HIDE DEF pc, n, r, s
  <2> QED
    BY <2>1, <2>2, ClosedStarter
<1> HIDE DEF s, v
<1>6. /\ us = [k \in DOMAIN us |-> us[k]] /\ DOMAIN us \subseteq DOMAIN viewers
      /\ \A k \in DOMAIN us : /\ ViewerOk(us[k], k)
                              /\ us[k].connection_path = viewers[k].connection_path
  <2> HIDE DEF us
  <2>1. CASE us = [u \in DOMAIN viewers \ {v} |-> viewers[u]]
    <3>1. us = [k \in DOMAIN us |-> us[k]] /\ DOMAIN us \subseteq DOMAIN viewers
      BY <2>1
    <3>2. \A k \in DOMAIN us : us[k] = viewers[k]
      BY <2>1
    <3> QED
      BY <1>1, <3>1, <3>2
  <2>2. CASE v \in DOMAIN viewers /\ us = [viewers EXCEPT ![v].pc = "killed"]
    <3> DEFINE y == viewers[v]
               x == [y EXCEPT !.pc = "killed"]
    <3>1. y \in Viewer /\ ViewerOk(y, v)
      BY <2>2, ViewersStay
    <3>2. us = [viewers EXCEPT ![v] = x]
      BY <2>2
    <3> HIDE DEF y
    <3>3. /\ x \in Viewer /\ x.pc = "killed" /\ x.connection_path = y.connection_path
          /\ x.backlog = y.backlog /\ x.connection = y.connection
      BY <3>1 DEF Viewer
    <3> HIDE DEF x
    <3>4. ViewerOk(x, v)
      BY <3>1, <3>3 DEF ViewerOk
    <3>5. DOMAIN us = DOMAIN viewers /\ \A k \in DOMAIN us : us[k] = IF k = v THEN x ELSE viewers[k]
      BY <1>1, <2>2, <3>2
    <3>6. us = [k \in DOMAIN us |-> us[k]]
      BY <1>1, <2>2, <3>2
    <3> QED
      BY <1>1, <3>3, <3>4, <3>5, <3>6 DEF y
  <2> QED
    BY <1>2, <2>1, <2>2
<1> QED
  BY <1>2, <1>3, <1>4, <1>5, <1>6, StepOfStarter

LEMMA InitServerStep ==
    ASSUME ConnectInvariant, NEW v \in DOMAIN viewers, InitServer(v)
    PROVE  ConnectInvariant'
<1>1. viewers[v] \in Viewer /\ ViewerOk(viewers[v], v)
  BY ViewersStay
<1> DEFINE y == viewers[v]
           x == [y EXCEPT !.pc = "listening", !.listens = TRUE]
<1>2. CASE viewers' = [viewers EXCEPT ![v].pc = "listening", ![v].listens = TRUE]
  <2>1. viewers' = [viewers EXCEPT ![v] = x]
    BY <1>2
  <2> HIDE DEF y
  <2>2. /\ x \in Viewer /\ x.pc = "listening" /\ x.connection_path = y.connection_path
        /\ x.backlog = y.backlog /\ x.connection = y.connection
    BY <1>1 DEF Viewer, y
  <2> HIDE DEF x
  <2>3. ViewerOk(x, v)
    BY <1>1, <2>2 DEF ViewerOk, y
  <2> QED
    BY <2>1, <2>2, <2>3, StepOfViewer DEF InitServer, y
<1> QED
  BY <1>2, StepOfViewer DEF InitServer

LEMMA AddMethodsStep ==
    ASSUME ConnectInvariant, NEW v \in DOMAIN viewers, AddMethods(v)
    PROVE  ConnectInvariant'
<1>1. viewers[v] \in Viewer /\ ViewerOk(viewers[v], v)
  BY ViewersStay
<1> DEFINE y == viewers[v]
           map == y.connection.methods
           added == rpc_connection_add_method_descriptors(map, VtableOf("viewer"))
           c == [y.connection EXCEPT !.methods = added.map]
           x == [y EXCEPT !.pc = "ready", !.connection = c]
<1>2. map \in Tables("viewer") /\ NoTwins(map)
  BY <1>1 DEF ViewerOk, Viewer
<1>3. /\ added.map \in Tables("viewer") /\ NoTwins(added.map)
      /\ added.ok => Serves(added.map, "viewer")
  BY <1>2, AllAdded
<1>4. CASE added.ok /\ viewers' = [viewers EXCEPT ![v].pc = "ready", ![v].connection.methods = added.map]
  <2>1. viewers' = [viewers EXCEPT ![v] = x]
    BY <1>4
  <2>2. y \in Viewer /\ ViewerOk(y, v)
    BY <1>1
  <2> HIDE DEF y, added
  <2>3. /\ c \in [socket : Pids \cup {NoSocket}, methods : Tables("viewer")]
        /\ c.methods = added.map /\ c.socket = y.connection.socket
    BY <1>3, <2>2 DEF Viewer
  <2> HIDE DEF c
  <2>4. /\ x \in Viewer /\ x.pc = "ready" /\ x.connection_path = y.connection_path
        /\ x.backlog = y.backlog /\ x.connection = c
    BY <2>2, <2>3 DEF Viewer
  <2> HIDE DEF x
  <2>5. ViewerOk(x, v)
    BY <1>3, <1>4, <2>2, <2>3, <2>4 DEF ViewerOk
  <2> QED
    BY <2>1, <2>4, <2>5, StepOfViewer DEF AddMethods, y
<1>5. CASE Gone(v)
  BY <1>5, StepOfViewer DEF AddMethods
<1> QED
  BY <1>4, <1>5 DEF AddMethods

LEMMA AcceptStep ==
    ASSUME ConnectInvariant, NEW v \in DOMAIN viewers, Accept(v)
    PROVE  ConnectInvariant'
<1> DEFINE y == viewers[v]
           h == Head(y.backlog)
           c == [y.connection EXCEPT !.socket = h]
           x == [y EXCEPT !.connection = c]
<1>1. y \in Viewer /\ ViewerOk(y, v) /\ v \in Pids
  BY ViewersStay
<1>2. y.backlog # <<>> /\ y.backlog \in Seq(Pids)
  BY <1>1 DEF Accept, rpc_listen_socket, Viewer
<1>3. h = v
  <2> DEFINE b == y.backlog
  <2>1. b \in Seq(Pids) /\ b # <<>> /\ \A i \in DOMAIN b : b[i] = v
    BY <1>1, <1>2 DEF ViewerOk
  <2> HIDE DEF b
  <2>2. 1 \in DOMAIN b /\ Head(b) = b[1]
    BY <2>1
  <2> QED
    BY <2>1, <2>2 DEF b
<1>4. viewers' = [viewers EXCEPT ![v] = x]
  BY DEF Accept, rpc_listen_socket
<1> HIDE DEF y, h
<1>5. /\ c \in [socket : Pids \cup {NoSocket}, methods : Tables("viewer")]
      /\ c.methods = y.connection.methods /\ c.socket = v
  BY <1>1, <1>3 DEF Viewer
<1> HIDE DEF c
<1>6. /\ x \in Viewer /\ x.pc = y.pc /\ x.connection_path = y.connection_path
      /\ x.backlog = y.backlog /\ x.connection = c
  BY <1>1, <1>5 DEF Viewer
<1> HIDE DEF x
<1>7. ViewerOk(x, v)
  BY <1>1, <1>5, <1>6 DEF ViewerOk
<1> QED
  BY <1>4, <1>6, <1>7, StepOfViewer DEF Accept, y

LEMMA ViewerGoes ==
    ASSUME ConnectInvariant, NEW v \in DOMAIN viewers, PluginRejected(v) \/ ViewerEnds(v)
    PROVE  ConnectInvariant'
  BY StepOfViewer DEF PluginRejected, ViewerEnds

\* The name of a new viewer is nobody else's.
LEMMA NewName ==
    ASSUME NEW ss, NEW vs, NEW dr, NamesOk(ss, vs, dr), dr \in [BrowserPids -> Nat],
           \A v \in DOMAIN vs : ViewerOk(vs[v], v), DOMAIN vs \subseteq Pids,
           \A k \in Wrappers : StarterOk(ss[k], k),
           NEW w \in Wrappers, NEW r, r = dr[PidOf(w)] + 1, NEW n, n = ss[w].init_count + 1
    PROVE  /\ <<w, n>> \notin DOMAIN vs /\ r \in Nat /\ n \in Nat
           /\ \A v \in DOMAIN vs : vs[v].connection_path # Ident(w, n, r)
           /\ \A k \in Wrappers : ss[k].ident # Ident(w, n, r)
<1>1. PidOf(w) \in BrowserPids /\ dr[PidOf(w)] \in Nat /\ r \in Nat
  BY DEF BrowserPids
<1>2. n \in Nat /\ ss[w].init_count \in Nat
  BY DEF StarterOk, Starter
<1>3. <<w, n>> \notin DOMAIN vs
  <2> SUFFICES ASSUME <<w, n>> \in DOMAIN vs PROVE FALSE
    OBVIOUS
  <2>1. n <= ss[w].init_count
    BY DEF NamesOk
  <2> QED
    BY <1>2, <2>1
<1> DEFINE i == Ident(w, n, r)
<1>4. i[4] = r /\ i[2] = PidOf(w) /\ i # <<>>
  BY DEF Ident
<1> HIDE DEF i
<1>5. ASSUME NEW v \in DOMAIN vs PROVE vs[v].connection_path # i
  <2> SUFFICES ASSUME vs[v].connection_path = i PROVE FALSE
    OBVIOUS
  <2>1. vs[v].connection_path[4] <= dr[PidOf(v[1])] /\ vs[v].connection_path[2] = PidOf(v[1])
    BY DEF NamesOk, ViewerOk
  <2> QED
    BY <1>1, <1>4, <2>1
<1>6. ASSUME NEW k \in Wrappers PROVE ss[k].ident # i
  <2> SUFFICES ASSUME ss[k].ident = i PROVE FALSE
    OBVIOUS
  <2>1. ss[k].ident[4] <= dr[PidOf(k)] /\ ss[k].ident[2] = PidOf(k)
    BY <1>4 DEF NamesOk, StarterOk
  <2> QED
    BY <1>1, <1>4, <2>1
<1> QED
  BY <1>1, <1>2, <1>3, <1>5, <1>6 DEF i

LEMMA ForkStep ==
    ASSUME ConnectInvariant, NEW w \in Wrappers, Fork(w)
    PROVE  ConnectInvariant'
<1> DEFINE n == starter[w].init_count + 1
           r == drawn[PidOf(w)] + 1
           i == Ident(w, n, r)
           s == [pc |-> "connecting", init_count |-> n, ident |-> i,
                 attempts |-> rpc_init_timeout, viewer_pid |-> <<w, n>>,
                 connection |-> rpc_connection_new]
           x == [pc |-> "exec", connection_path |-> i, listens |-> FALSE,
                 backlog |-> <<>>, connection |-> rpc_connection_new]
           dr == drawn'
           ss == starter'
           vs == viewers'
           v == <<w, n>>
<1>1. /\ starter = [k \in Wrappers |-> starter[k]] /\ \A k \in Wrappers : StarterOk(starter[k], k)
      /\ viewers = [k \in DOMAIN viewers |-> viewers[k]] /\ DOMAIN viewers \subseteq Pids
      /\ \A k \in DOMAIN viewers : ViewerOk(viewers[k], k)
      /\ drawn \in [BrowserPids -> Nat]
      /\ NamesOk(starter, viewers, drawn)
  BY DEF ConnectInvariant
<1>2. /\ dr = [drawn EXCEPT ![PidOf(w)] = r] /\ ss = [starter EXCEPT ![w] = s]
      /\ vs = [k \in DOMAIN viewers \cup {v} |-> IF k # v THEN viewers[k] ELSE x]
  BY DEF Fork
<1>3. /\ v \notin DOMAIN viewers /\ r \in Nat /\ n \in Nat
      /\ \A k \in DOMAIN viewers : viewers[k].connection_path # i
      /\ \A k \in Wrappers : starter[k].ident # i
  BY <1>1, NewName
<1>4. v \in Pids /\ i \in SocketNames /\ i[2] = PidOf(w) /\ i[4] = r /\ i # <<>> /\ v[1] = w /\ v[2] = n
  BY <1>3 DEF Pids, SocketNames, Ident
<1>5. \A end : rpc_connection_new \in [socket : Pids \cup {NoSocket}, methods : Tables(end)]
  BY NewTable DEF rpc_connection_new
<1>6. rpc_connection_new.socket = NoSocket /\ NoTwins(rpc_connection_new.methods)
  BY NewTable DEF rpc_connection_new
<1>7. StarterOk(s, w) /\ s.init_count = n /\ s.ident = i /\ s.viewer_pid = v
  <2>1. rpc_init_timeout \in Int
    BY InitTimeoutAssumption DEF rpc_init_timeout
  <2>2. s \in Starter
    BY <1>3, <1>4, <1>5, <2>1 DEF Starter
  <2>3. /\ s.pc = "connecting" /\ s.init_count = n /\ s.ident = i /\ s.viewer_pid = v
        /\ s.connection = rpc_connection_new
    OBVIOUS
  <2> HIDE DEF s, i
  <2> QED
    BY <1>4, <1>6, <2>2, <2>3 DEF StarterOk
<1>8. ViewerOk(x, v) /\ x.connection_path = i
  <2> DEFINE b == <<>>
  <2>1. b \in Seq(Pids) /\ DOMAIN b = {}
    OBVIOUS
  <2>2. x = [pc |-> "exec", connection_path |-> i, listens |-> FALSE,
             backlog |-> b, connection |-> rpc_connection_new]
    OBVIOUS
  <2> HIDE DEF x, b, i, v
  <2>3. /\ x \in Viewer /\ x.pc = "exec" /\ x.connection_path = i /\ x.backlog = b
        /\ x.connection = rpc_connection_new
    BY <1>4, <1>5, <2>1, <2>2 DEF Viewer
  <2> HIDE DEF x
  <2> QED
    BY <1>4, <1>6, <2>1, <2>3 DEF ViewerOk
<1> HIDE DEF i, s, x, n, v
<1>9. /\ ss = [k \in Wrappers |-> ss[k]]
      /\ \A k \in Wrappers : ss[k] = IF k = w THEN s ELSE starter[k]
  BY <1>1, <1>2
<1>10. /\ vs = [k \in DOMAIN vs |-> vs[k]] /\ DOMAIN vs = DOMAIN viewers \cup {v}
       /\ vs[v] = x /\ \A k \in DOMAIN viewers : vs[k] = viewers[k]
  BY <1>1, <1>2, <1>3
<1>11. /\ dr \in [BrowserPids -> Nat] /\ dr[PidOf(w)] = r
       /\ \A p \in BrowserPids : drawn[p] <= dr[p]
  BY <1>1, <1>2, <1>3 DEF BrowserPids
<1>12. dr = drawn' /\ ss = starter' /\ vs = viewers'
  OBVIOUS
<1>13. \A k \in Wrappers : PidOf(k) \in BrowserPids
  BY DEF BrowserPids
<1>14. n > starter[w].init_count
  BY <1>1 DEF n, StarterOk, Starter
<1> HIDE DEF r, dr, ss, vs
<1>15. NamesOk(ss, vs, dr)
  <2>1. ASSUME NEW k \in DOMAIN vs
        PROVE  vs[k].connection_path[4] <= dr[PidOf(k[1])] /\ k[2] <= ss[k[1]].init_count
    <3>1. CASE k = v
      BY <1>3, <1>4, <1>7, <1>8, <1>9, <1>10, <1>11, <3>1
    <3>2. CASE k # v
      <4>1. k \in DOMAIN viewers /\ k[1] \in Wrappers /\ k[2] \in Nat /\ PidOf(k[1]) \in BrowserPids
        BY <1>1, <1>10, <1>13, <3>2 DEF Pids
      <4>2. viewers[k].connection_path[4] <= drawn[PidOf(k[1])] /\ k[2] <= starter[k[1]].init_count
        BY <1>1, <4>1 DEF NamesOk
      <4>3. viewers[k].connection_path[4] \in Nat
        BY <1>1, <4>1, NameProps DEF ViewerOk, Viewer
      <4>4. vs[k].connection_path[4] <= dr[PidOf(k[1])]
        <5>1. drawn[PidOf(k[1])] \in Nat /\ dr[PidOf(k[1])] \in Nat /\ drawn[PidOf(k[1])] <= dr[PidOf(k[1])]
          BY <1>1, <1>11, <4>1
        <5> QED
          BY <1>10, <4>1, <4>2, <4>3, <5>1
      <4>5. k[2] <= ss[k[1]].init_count
        <5>1. starter[k[1]].init_count \in Nat
          BY <1>1, <4>1 DEF StarterOk, Starter
        <5>2. starter[k[1]].init_count <= ss[k[1]].init_count
          BY <1>3, <1>7, <1>9, <1>14, <4>1, <5>1
        <5>3. ss[k[1]].init_count \in Nat
          BY <1>3, <1>7, <1>9, <4>1, <5>1
        <5> QED
          BY <4>1, <4>2, <5>1, <5>2, <5>3
      <4> QED
        BY <4>4, <4>5
    <3> QED
      BY <3>1, <3>2
  <2>2. ASSUME NEW k \in DOMAIN vs, NEW m \in DOMAIN vs, vs[k].connection_path = vs[m].connection_path
        PROVE  k = m
    <3>1. CASE k \in DOMAIN viewers /\ m \in DOMAIN viewers
      BY <1>1, <1>10, <2>2, <3>1 DEF NamesOk
    <3> QED
      BY <1>3, <1>8, <1>10, <2>2, <3>1
  <2>3. ASSUME NEW k \in Wrappers, ss[k].ident # <<>>
        PROVE  /\ ss[k].ident[4] <= dr[PidOf(k)]
               /\ \A m \in DOMAIN vs : vs[m].connection_path = ss[k].ident => m = ss[k].viewer_pid
    <3>1. CASE k = w
      BY <1>3, <1>4, <1>7, <1>8, <1>9, <1>10, <1>11, <3>1
    <3>2. CASE k # w
      <4>1. ss[k] = starter[k] /\ starter[k].ident # <<>>
        BY <1>9, <2>3, <3>2
      <4>2. /\ starter[k].ident[4] <= drawn[PidOf(k)]
            /\ \A m \in DOMAIN viewers :
                  viewers[m].connection_path = starter[k].ident => m = starter[k].viewer_pid
        BY <1>1, <4>1 DEF NamesOk
      <4>3. ss[k].ident[4] <= dr[PidOf(k)]
        <5>1. starter[k].ident[4] \in Nat
          BY <1>1, <4>1, NameProps DEF StarterOk, Starter
        <5>2. drawn[PidOf(k)] \in Nat /\ dr[PidOf(k)] \in Nat /\ drawn[PidOf(k)] <= dr[PidOf(k)]
          BY <1>1, <1>11, <1>13
        <5> QED
          BY <4>1, <4>2, <5>1, <5>2
      <4> QED
        BY <1>3, <1>8, <1>10, <4>1, <4>2, <4>3
    <3> QED
      BY <3>1, <3>2
  <2> QED
    BY <2>1, <2>2, <2>3 DEF NamesOk
<1>16. DOMAIN vs \subseteq Pids /\ \A k \in DOMAIN vs : ViewerOk(vs[k], k)
  BY <1>1, <1>4, <1>8, <1>10
<1>17. \A k \in Wrappers : StarterOk(ss[k], k)
  BY <1>1, <1>7, <1>9
<1> QED
  BY <1>9, <1>10, <1>11, <1>12, <1>15, <1>16, <1>17 DEF ConnectInvariant

LEMMA ConnectStart ==
    ASSUME ConnectInit
    PROVE  ConnectInvariant
<1> DEFINE s == [pc |-> "stopped", init_count |-> 0, ident |-> <<>>, attempts |-> 0,
                 viewer_pid |-> NoSocket, connection |-> rpc_connection_new]
<1>1. /\ starter = [w \in Wrappers |-> s] /\ viewers = <<>>
      /\ drawn = [p \in BrowserPids |-> 0]
  BY DEF ConnectInit, BrowserPids
<1>2. /\ rpc_connection_new \in [socket : Pids \cup {NoSocket}, methods : Tables("wrapper")]
      /\ rpc_connection_new.socket = NoSocket /\ NoTwins(rpc_connection_new.methods)
  BY NewTable DEF rpc_connection_new
<1>3. /\ s \in Starter /\ s.pc = "stopped" /\ s.ident = <<>> /\ s.connection = rpc_connection_new
      /\ s.viewer_pid = NoSocket
  BY <1>2 DEF Starter
<1> HIDE DEF s
<1>4. \A w \in Wrappers : StarterOk(s, w)
  BY <1>2, <1>3 DEF StarterOk
<1>5. DOMAIN viewers = {} /\ viewers = [v \in DOMAIN viewers |-> viewers[v]]
  BY <1>1
<1>6. drawn \in [BrowserPids -> Nat]
  BY <1>1
<1>7. NamesOk(starter, viewers, drawn)
  <2>1. \A w \in Wrappers : starter[w].ident = <<>>
    BY <1>1, <1>3
  <2> QED
    BY <1>5, <2>1 DEF NamesOk
<1>8. starter = [w \in Wrappers |-> starter[w]] /\ \A w \in Wrappers : StarterOk(starter[w], w)
  BY <1>1, <1>4
<1> QED
  BY <1>5, <1>6, <1>7, <1>8 DEF ConnectInvariant

LEMMA ConnectStep ==
    ASSUME ConnectInvariant, [ConnectNext]_connectVars
    PROVE  ConnectInvariant'
<1>1. ASSUME NEW w \in Wrappers,
             Fork(w) \/ ConnectSucceeds(w) \/ ConnectRefused(w) \/ ConnectFails(w) \/ Listen(w) \/ PluginExit(w)
      PROVE  ConnectInvariant'
  <2>1. CASE ConnectFails(w)
    BY <2>1, GivesUpStep DEF ConnectFails
  <2> QED
    BY <1>1, <2>1, ForkStep, ConnectSucceedsStep, ConnectRefusedStep, ListenStep, PluginExitStep
<1>2. ASSUME NEW v \in DOMAIN viewers,
             PluginRejected(v) \/ InitServer(v) \/ AddMethods(v) \/ Accept(v) \/ ViewerEnds(v)
      PROVE  ConnectInvariant'
  BY <1>2, InitServerStep, AddMethodsStep, AcceptStep, ViewerGoes
<1>3. CASE UNCHANGED connectVars
  BY <1>3 DEF connectVars, ConnectInvariant
<1> QED
  BY <1>1, <1>2, <1>3 DEF ConnectNext

\* For any wrappers in any browsers, any number of starts and any timeouts, a
\* wrapper's socket leads to the viewer it forked last, and a viewer's to its
\* own wrapper; and neither goes on without every method of its table.  What
\* makes it so is the number that plugin_init draws for the socket's name: one
\* browser never draws it twice, and the name has the browser's pid.
THEOREM ViewersAreOwn ==
    ConnectInit /\ [][ConnectNext]_connectVars => []OwnViewer
<1>1. ConnectInit => ConnectInvariant
  BY ConnectStart
<1>2. ConnectInvariant /\ [ConnectNext]_connectVars => ConnectInvariant'
  BY ConnectStep
<1>3. ConnectInvariant => OwnViewer
  BY DEF ConnectInvariant, StarterOk, ViewerOk, OwnViewer
<1> QED
  BY <1>1, <1>2, <1>3, PTL
=============================================================================
