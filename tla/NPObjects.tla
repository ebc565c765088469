----------------------------- MODULE NPObjects ------------------------------
(***************************************************************************)
(* The NPObject bridge (npruntime.c, do_send/recv_NPObject of npw-rpc.c):  *)
(* script objects shared by the browser and the plugin.                    *)
(*                                                                         *)
(* An object lives at one end.  Each time it is sent, its end enters a     *)
(* stub for it under a fresh id and the other end makes a proxy with that  *)
(* id.  A proxy is sent back as its id.  Both are reference counted by     *)
(* hand, and the last release of a proxy is an RPC that destroys the stub. *)
(*                                                                         *)
(* RpcSync shows that one end at a time has control, so a message is sent  *)
(* and read in one step, and calls nest in one stack.  A viewer that is    *)
(* lost and restarted (Recovery) begins a new generation, whose stub ids   *)
(* start from 1 again; the browser keeps the proxies of the generations    *)
(* before.                                                                 *)
(***************************************************************************)
EXTENDS Integers, FiniteSets, SequencesExt

CONSTANTS
    BrowserObjects, PluginObjects,
    MaxGen,         \* bound: viewers started one after the other
    MaxBrowserStubs, MaxPluginStubs,    \* bound: stubs made by the wrapper, by a viewer
    MaxRefs,        \* bound: references to an object
    MaxDepth,       \* bound: open calls
    MaxArgs         \* bound: objects among the NPVariant arguments of a call

\* The objects of an end are none of its proxies.
ASSUME ConstantsAssumption ==
    /\ \A t \in BrowserObjects \cup PluginObjects : t \notin [gen : Nat, id : Nat]
    /\ {MaxGen, MaxBrowserStubs, MaxPluginStubs, MaxRefs, MaxDepth, MaxArgs} \subseteq Nat
    /\ MaxGen # 0

VARIABLES
    heap,       \* per end: its objects and the tables of npruntime.c
    stack,      \* the open calls between the two ends
    gen,        \* the current viewer
    viewer,     \* it is up, it is dead, or plugin_kill has dealt with that
    asserted    \* the ends at which an assert() of the bridge has failed

vars == <<heap, stack, gen, viewer, asserted>>

Ends == {"wrapper", "viewer"}
Other(e) == CHOOSE f \in Ends : f # e
MaxId(e) == IF e = "wrapper" THEN MaxBrowserStubs ELSE MaxPluginStubs
Ids(e) == 1..MaxId(e)

\* A proxy is named by the viewer it was made with and by the id of its stub.
Proxy(e) == [gen : 1..MaxGen, id : Ids(Other(e))]
Local(e) == IF e = "wrapper" THEN BrowserObjects ELSE PluginObjects
Objects(e) == Local(e) \cup Proxy(e)

\* Methods with an object to act on, NPVariants and an NPVariant as the result.
Frame == [callee : Ends, gen : 1..MaxGen, result : BOOLEAN,
          args : UNION {Seq(Objects(e)) : e \in Ends}]     \* owned by the handler

PartialFunctions(S, T) == UNION {[D -> T] : D \in SUBSET S}

TypeOK ==
    /\ DOMAIN heap = Ends
    /\ \A e \in Ends :
        /\ heap[e].referenceCount \in [Objects(e) -> Nat]
        /\ heap[e].owned \in [Objects(e) -> Nat]    \* by the browser or the plugin
        /\ heap[e].lost \in [Objects(e) -> Nat]     \* by nobody that will release them
        /\ heap[e].g_stubs \in PartialFunctions(Ids(e), Local(e))
        /\ heap[e].g_proxies \in PartialFunctions(Ids(Other(e)), Proxy(e))
        /\ heap[e].is_valid \subseteq Proxy(e)
        /\ heap[e].crossed \subseteq Proxy(e)      \* history, see Namesakes
        /\ heap[e].next_id \in 0..MaxId(e)
    /\ stack \in Seq(Frame)
    /\ gen \in 1..MaxGen
    /\ viewer \in {"up", "dead", "killed"}
    /\ asserted \subseteq Ends

\* npobject_bridge_new in a new process.
NewBridge(e) ==
    [referenceCount |-> [t \in Objects(e) |-> 0],
     owned          |-> [t \in Objects(e) |-> 0],
     lost           |-> [t \in Objects(e) |-> 0],
     g_stubs |-> <<>>, g_proxies |-> <<>>, is_valid |-> {}, next_id |-> 0,
     crossed |-> {}]

Init ==
    /\ heap = [e \in Ends |-> NewBridge(e)]
    /\ stack = <<>>
    /\ gen = 1
    /\ viewer = "up"
    /\ asserted = {}

-----------------------------------------------------------------------------
(***************************************************************************)
(* npruntime.c, as what its functions make of the heaps h of both ends.    *)
(***************************************************************************)
RemoveKey(f, x) == Restrict(f, DOMAIN f \ {x})
InsertKey(f, x, y) == [z \in DOMAIN f \cup {x} |-> IF z = x THEN y ELSE f[z]]

RetainObject(h, e, t) == [h EXCEPT ![e].referenceCount[t] = @ + 1]

CreateStub(h, e, t) ==
    LET id == h[e].next_id + 1
    IN  [RetainObject(h, e, t) EXCEPT ![e].next_id = id,
                                      ![e].g_stubs = InsertKey(@, id, t)]

\* npobject_destroy_stub_obj.  A stub never stands for a proxy.
DestroyStub(h, e, id) ==
    [h EXCEPT ![e].g_stubs = RemoveKey(@, id),
              ![e].referenceCount[h[e].g_stubs[id]] = @ - 1]

CreateProxy(h, e, id) ==
    LET p == [gen |-> gen, id |-> id]
    IN  [h EXCEPT ![e].referenceCount[p] = 1,
                  ![e].is_valid = @ \cup {p},
                  ![e].g_proxies = InsertKey(@, id, p)]

\* Valid proxies with the id of p, made with other viewers.  What is done to p and
\* to the stub with its id crosses them: history that no code reads.
Namesakes(w, p) == {q \in w.is_valid : q.id = p.id /\ q # p}

\* Mutant: a stub that was there is left in the table.
DeallocateNothing(h, e, p) == h

\* npclass_invoke_Deallocate and the handler at the other end, on the current
\* connection, whatever connection the proxy came by.
Deallocate(h, e, p) ==
    IF viewer = "up" /\ p.id \in DOMAIN h[Other(e)].g_stubs
    THEN DestroyStub(h, Other(e), p.id)
    ELSE h

\* npobject_destroy_proxy: the table is keyed by id alone.
DestroyProxy(h, e, p, release_stub) ==
    [(IF release_stub /\ p \in h[e].is_valid THEN Deallocate(h, e, p) ELSE h)
        EXCEPT ![e].g_proxies = RemoveKey(@, p.id),
               ![e].is_valid = @ \ {p},
               ![e].referenceCount[p] = 0,
               ![e].crossed = @ \cup Namesakes(h[e], p)]

npobject_is_proxy(e, t) == t \notin Local(e)
npobject_get_proxy_id(p) == p.id

ReleaseObject(h, e, t) ==
    IF npobject_is_proxy(e, t) /\ h[e].referenceCount[t] = 1
    THEN DestroyProxy(h, e, t, TRUE)
    ELSE [h EXCEPT ![e].referenceCount[t] = @ - 1]

\* Mutants: the tables are reset, the proxies stay valid; the stubs are dropped
\* with their references.
DeactivateKeepsProxies(h, S) ==
    [h EXCEPT !["wrapper"].g_proxies = <<>>, !["wrapper"].g_stubs = <<>>]

\* The tables go; what they hold is not touched.
npobject_bridge_destroy(w) == [w EXCEPT !.g_proxies = <<>>, !.g_stubs = <<>>]

\* npruntime_deactivate.  stub_destroy_func removes from the table that
\* g_hash_table_foreach is walking, which GLib leaves undefined: the walk stops
\* after the first stub or skips some.  S are the stubs it reaches.
Deactivate(h, S) ==
    LET w == h["wrapper"]
        Of(t, I) == Cardinality({id \in I : w.g_stubs[id] = t})
    IN  [h EXCEPT !["wrapper"] =
            [npobject_bridge_destroy(w) EXCEPT
                      !.is_valid = @ \ Range(w.g_proxies),
                      !.referenceCount = [t \in DOMAIN @ |-> @[t] - Of(t, S)],
                      !.lost = [t \in DOMAIN @ |-> @[t] + Of(t, DOMAIN w.g_stubs \ S)]]]
Reached(h) == LET D == DOMAIN h["wrapper"].g_stubs
              IN  IF D = {} THEN {{}} ELSE SUBSET D \ {{}}

-----------------------------------------------------------------------------
(***************************************************************************)
(* do_send_NPObject_helper and do_recv_NPObject_helper.                    *)
(***************************************************************************)
Message(type, id, release_stub) ==
    [type |-> type, id |-> id, release_stub |-> release_stub]

\* Mutant: the reference that is passed on is kept as well.
SendNPObjectKeepsRef(h, e, t, pass_ref) ==
    IF t \in Local(e)
    THEN [heap |-> CreateStub(h, e, t),
          message |-> Message("SENDER_OWNED", h[e].next_id + 1, FALSE)]
    ELSE [heap |-> h, message |-> Message("RECEIVER_OWNED", t.id, FALSE)]

SendNPObject(h, e, t, pass_ref) ==
    IF ~npobject_is_proxy(e, t)
    THEN LET h1 == CreateStub(h, e, t)
         IN  [heap |-> IF pass_ref THEN ReleaseObject(h1, e, t) ELSE h1,
              message |-> Message("SENDER_OWNED", h1[e].next_id, FALSE)]
    ELSE LET last == pass_ref /\ h[e].referenceCount[t] = 1
         IN  [heap |-> IF ~pass_ref THEN h
                       ELSE IF last THEN DestroyProxy(h, e, t, FALSE)
                       ELSE ReleaseObject(h, e, t),
              message |-> Message("RECEIVER_OWNED", npobject_get_proxy_id(t), last)]

\* assert(npobj != NULL): the id of a proxy is one of the receiver's stubs.
Resolves(h, f, m) == m.type = "RECEIVER_OWNED" => m.id \in DOMAIN h[f].g_stubs

Received(h, f, m) ==
    IF m.type = "SENDER_OWNED" THEN [gen |-> gen, id |-> m.id] ELSE h[f].g_stubs[m.id]

RecvNPObject(h, f, m) ==
    IF m.type = "SENDER_OWNED" THEN CreateProxy(h, f, m.id)
    ELSE LET h1 == RetainObject(h, f, h[f].g_stubs[m.id])
         IN  IF m.release_stub THEN DestroyStub(h1, f, m.id) ELSE h1

\* One object from e to the other end, after the ones in acc.
Transfer(acc, e, t, pass_ref) ==
    LET sent == SendNPObject(acc.heap, e, t, pass_ref)
        f == Other(e)
    IN  IF acc.ok /\ Resolves(sent.heap, f, sent.message)
        THEN [ok |-> TRUE,
              heap |-> RecvNPObject(sent.heap, f, sent.message),
              got |-> Append(acc.got, Received(sent.heap, f, sent.message))]
        ELSE [acc EXCEPT !.ok = FALSE, !.heap = sent.heap]

TransferAll(h, e, args) ==
    LET sent[i \in 0..Len(args)] ==
            IF i = 0 THEN [ok |-> TRUE, heap |-> h, got |-> <<>>]
            ELSE Transfer(sent[i - 1], e, args[i], FALSE)
    IN  sent[Len(args)]

ReleaseAll(h, e, args) ==
    LET after[i \in 0..Len(args)] ==
            IF i = 0 THEN h ELSE ReleaseObject(after[i - 1], e, args[i])
    IN  after[Len(args)]

-----------------------------------------------------------------------------
(***************************************************************************)
(* The methods, by the objects that go with the call and with the reply.   *)
(* Strings, numbers and identifiers are left out.                          *)
(***************************************************************************)
Method(target, variants, result) ==
    [target |-> target, variants |-> variants, result |-> result]

NPClass_HasMethod      == Method(TRUE, {0}, FALSE)
NPClass_Invoke         == Method(TRUE, 0..MaxArgs, TRUE)
NPClass_InvokeDefault  == Method(TRUE, 0..MaxArgs, TRUE)
NPClass_HasProperty    == Method(TRUE, {0}, FALSE)
NPClass_GetProperty    == Method(TRUE, {0}, TRUE)
NPClass_SetProperty    == Method(TRUE, 0..MaxArgs, FALSE)
NPClass_RemoveProperty == Method(TRUE, {0}, FALSE)
NPClass_Enumerate      == Method(TRUE, {0}, FALSE)
NPClass_Construct      == Method(TRUE, 0..MaxArgs, TRUE)
NPP_GetValue           == Method(FALSE, {0}, TRUE)

NPN_Invoke             == Method(TRUE, 0..MaxArgs, TRUE)
NPN_InvokeDefault      == Method(TRUE, 0..MaxArgs, TRUE)
NPN_Evaluate           == Method(TRUE, {0}, TRUE)
NPN_GetProperty        == Method(TRUE, {0}, TRUE)
NPN_SetProperty        == Method(TRUE, 0..MaxArgs, FALSE)
NPN_RemoveProperty     == Method(TRUE, {0}, FALSE)
NPN_HasProperty        == Method(TRUE, {0}, FALSE)
NPN_HasMethod          == Method(TRUE, {0}, FALSE)
NPN_Enumerate          == Method(TRUE, {0}, FALSE)
NPN_Construct          == Method(TRUE, 0..MaxArgs, TRUE)
NPN_SetException       == Method(TRUE, {0}, FALSE)
NPN_GetValue           == Method(FALSE, {0}, TRUE)

Methods(e) ==
    IF e = "wrapper"
    THEN {NPClass_HasMethod, NPClass_Invoke, NPClass_InvokeDefault, NPClass_HasProperty,
          NPClass_GetProperty, NPClass_SetProperty, NPClass_RemoveProperty,
          NPClass_Enumerate, NPClass_Construct, NPP_GetValue}
    ELSE {NPN_Invoke, NPN_InvokeDefault, NPN_Evaluate, NPN_GetProperty, NPN_SetProperty,
          NPN_RemoveProperty, NPN_HasProperty, NPN_HasMethod, NPN_Enumerate,
          NPN_Construct, NPN_SetException, NPN_GetValue}

-----------------------------------------------------------------------------
(***************************************************************************)
(* What the code at an end may do.  It runs in the last call that was made *)
(* to it; with no call open, the browser runs, or the viewer's main loop.  *)
(***************************************************************************)
Top == Last(stack)
Control(e) == /\ "wrapper" \notin asserted
              /\ e = "viewer" => viewer = "up"
              /\ stack # <<>> => Top.callee = e
Running == stack # <<>> => Top.gen = gen /\ viewer = "up"
HeldIn(s, e, t) ==
    Cardinality({a \in (1..MaxDepth) \X (1..MaxArgs + 1) :
                    /\ a[1] \in DOMAIN s /\ s[a[1]].callee = e
                    /\ a[2] \in DOMAIN s[a[1]].args /\ s[a[1]].args[a[2]] = t})
Held(e, t) == HeldIn(stack, e, t)

\* The objects the code at e has a pointer to: its own references, and the
\* arguments of the calls it is in.
InUse(e) == {t \in Objects(e) : heap[e].owned[t] > 0 \/ Held(e, t) > 0}

Bounded(h) == \A e \in Ends : \A t \in Objects(e) : h[e].referenceCount[t] <= MaxRefs
Fits(e, args) ==
    heap[e].next_id + Cardinality({i \in DOMAIN args : args[i] \in Local(e)}) <= MaxId(e)

CreateObject(e, t) ==
    /\ Control(e)
    /\ heap[e].referenceCount[t] = 0
    /\ heap' = [heap EXCEPT ![e].referenceCount[t] = 1, ![e].owned[t] = 1]
    /\ UNCHANGED <<stack, gen, viewer, asserted>>

Retain(e, t) ==
    /\ Control(e)
    /\ t \in InUse(e)
    /\ heap[e].referenceCount[t] < MaxRefs
    /\ heap' = [RetainObject(heap, e, t) EXCEPT ![e].owned[t] = @ + 1]
    /\ UNCHANGED <<stack, gen, viewer, asserted>>

\* A failed Deallocate runs plugin_kill first and then leaves what Release
\* leaves after plugin_kill: so does every RPC to a dead viewer.
Release(e, t) ==
    /\ Control(e)
    /\ viewer # "dead"
    /\ heap[e].owned[t] > 0
    /\ heap' = ReleaseObject([heap EXCEPT ![e].owned[t] = @ - 1], e, t)
    /\ UNCHANGED <<stack, gen, viewer, asserted>>

\* g_NPClass_Invalidate, called by the browser.
Invalidate(p) ==
    /\ Control("wrapper")
    /\ viewer # "dead"
    /\ p \in heap["wrapper"].is_valid
    /\ heap' = Deallocate([heap EXCEPT !["wrapper"].is_valid = @ \ {p},
                                       !["wrapper"].crossed = @ \cup Namesakes(heap["wrapper"], p)],
                          "wrapper", p)
    /\ UNCHANGED <<stack, gen, viewer, asserted>>

\* The calls e can make: is_valid_npobject_proxy guards the object the browser
\* calls, nothing the arguments; NPN_* guard neither.
Calls(e) ==
    {c \in Methods(e) \X BoundedSeq(InUse(e), MaxArgs + 1) :
        /\ Len(c[2]) - (IF c[1].target THEN 1 ELSE 0) \in c[1].variants
        /\ e = "wrapper" /\ c[1].target => c[2][1] \in heap[e].is_valid
        /\ Fits(e, c[2])}

Call(e) ==
    /\ Control(e)
    /\ viewer = "up"
    /\ Len(stack) < MaxDepth
    /\ \E c \in Calls(e) :
        LET t == TransferAll(heap, e, c[2])
        IN  /\ t.ok
            /\ Bounded(t.heap)
            /\ heap' = t.heap
            /\ stack' = Append(stack, [callee |-> Other(e), gen |-> gen,
                                       result |-> c[1].result, args |-> t.got])
    /\ UNCHANGED <<gen, viewer, asserted>>

\* The end of a handler at e: its arguments are released, then the reply takes
\* the reference of the result along.
Results(e) == {t \in InUse(e) : Top.result /\ heap[e].owned[t] > 0 /\ Fits(e, <<t>>)}
AfterCall(e, owned) ==
    ReleaseAll([heap EXCEPT ![e].owned = owned], e, Top.args)
PassedOn(e, t) == [heap[e].owned EXCEPT ![t] = @ - 1]
Reply(e, t) == Transfer([ok |-> TRUE, heap |-> AfterCall(e, PassedOn(e, t)), got |-> <<>>],
                        e, t, TRUE)

Return(e) ==
    /\ Control(e)
    /\ stack # <<>>
    /\ Running
    /\ \/ heap' = AfterCall(e, heap[e].owned)
       \/ \E t \in Results(e) :
            LET r == Reply(e, t)
            IN  /\ r.ok
                /\ Bounded(r.heap)
                /\ heap' = [r.heap EXCEPT ![Other(e)].owned[Last(r.got)] = @ + 1]
    /\ stack' = Front(stack)
    /\ UNCHANGED <<gen, viewer, asserted>>

\* The viewer's process ends: its objects, tables and frames are gone.
ViewerGone(h) == [h EXCEPT !["viewer"] = NewBridge("viewer")]
Orphans(s) ==
    LET left[i \in 0..Len(s)] ==
            IF i = 0 THEN <<>>
            ELSE IF s[i].callee = "wrapper" THEN Append(left[i - 1], s[i])
            ELSE left[i - 1]
    IN  left[Len(s)]

\* The receiver of a call, or of a reply, does not find a stub, and aborts.
Abort(f, h) ==
    /\ asserted' = asserted \cup {f}
    /\ heap' = ViewerGone(h)
    /\ viewer' = "dead"
    /\ UNCHANGED gen

CallAborts(e) ==
    /\ Control(e)
    /\ viewer = "up"
    /\ Len(stack) < MaxDepth
    /\ \E c \in Calls(e) :
        LET t == TransferAll(heap, e, c[2]) IN ~t.ok /\ Abort(Other(e), t.heap)
    /\ stack' = Orphans(stack)

ReplyAborts(e) ==
    /\ Control(e)
    /\ stack # <<>>
    /\ Running
    /\ \E t \in Results(e) :
        LET r == Reply(e, t) IN ~r.ok /\ Abort(Other(e), r.heap)
    /\ stack' = Orphans(Front(stack))

ViewerDies ==
    /\ viewer = "up"
    /\ heap' = ViewerGone(heap)
    /\ viewer' = "dead"
    /\ stack' = Orphans(stack)
    /\ UNCHANGED <<gen, asserted>>

\* plugin_kill, by the error callback of the connection.
PluginKill ==
    /\ viewer = "dead"
    /\ \E S \in Reached(heap) : heap' = Deactivate(heap, S)
    /\ viewer' = "killed"
    /\ UNCHANGED <<stack, gen, asserted>>

\* plugin_start, in NPP_New
PluginStart ==
    /\ Control("wrapper")
    /\ viewer = "killed"
    /\ gen < MaxGen
    /\ gen' = gen + 1
    /\ viewer' = "up"
    /\ UNCHANGED <<heap, stack, asserted>>

\* A handler of the browser returns to a viewer that is gone.  If the connection
\* is CLOSED nothing is sent and the result's reference is lost; if it is BROKEN
\* the result is converted for a message nobody reads.
FailedReplies ==
    {AfterCall("wrapper", heap["wrapper"].owned)}
    \cup {[AfterCall("wrapper", PassedOn("wrapper", t)) EXCEPT !["wrapper"].lost[t] = @ + 1] :
             t \in Results("wrapper")}
    \cup {SendNPObject(AfterCall("wrapper", PassedOn("wrapper", t)), "wrapper", t, TRUE).heap :
             t \in Results("wrapper")}

\* The failure may run plugin_kill once more, for whatever viewer is up by then.
HandlerFails ==
    /\ Control("wrapper")
    /\ ~Running
    /\ viewer # "dead"
    /\ \E h \in FailedReplies :
        \/ /\ heap' = h
           /\ stack' = Front(stack)
           /\ UNCHANGED viewer
        \/ /\ \E S \in Reached(h) : heap' = ViewerGone(Deactivate(h, S))
           /\ stack' = Orphans(Front(stack))
           /\ viewer' = "killed"
    /\ UNCHANGED <<gen, asserted>>

Next ==
    \/ \E e \in Ends :
        \/ \E t \in Local(e) : CreateObject(e, t)
        \/ \E t \in Objects(e) : Retain(e, t) \/ Release(e, t)
        \/ Call(e)
        \/ Return(e)
        \/ CallAborts(e)
        \/ ReplyAborts(e)
    \/ \E p \in Proxy("wrapper") : Invalidate(p)
    \/ ViewerDies
    \/ PluginKill
    \/ PluginStart
    \/ HandlerFails

Spec == Init /\ [][Next]_vars

-----------------------------------------------------------------------------
(***************************************************************************)
(* Properties.                                                             *)
(***************************************************************************)

\* The count of an object is the number of references that exist to it: those of
\* the code at its end, of the handlers that received it, of its stubs, and those
\* that were lost.  So nothing is freed while it is in use, nor kept for ever.
RefCountsAreExact ==
    \A e \in Ends : \A t \in Objects(e) :
        heap[e].referenceCount[t] =
            heap[e].owned[t] + heap[e].lost[t] + Held(e, t)
            + Cardinality({id \in DOMAIN heap[e].g_stubs : heap[e].g_stubs[id] = t})

Live(e) == {p \in heap[e].is_valid : heap[e].referenceCount[p] > 0}

\* While the first viewer is up, each stub of one end has its proxy at the other,
\* and each valid proxy its stub: no stub is left behind and none is missing,
\* however the calls nest and whichever end drops its last reference in a reply.
\* So the browser's process never fails the assertion on a received id.
StubsMatchProxies ==
    gen = 1 =>
        /\ "wrapper" \notin asserted
        /\ viewer = "up" =>
             \A e \in Ends : DOMAIN heap[e].g_stubs = {p.id : p \in Live(Other(e))}

\* Every valid proxy stands for a stub of the viewer that is up, over any restarts
\* and whatever outlived proxies the browser keeps and hands on, unless it was
\* crossed: a proxy of another viewer with the same id was destroyed or invalidated
\* while it was there.  So no deactivation misses any other proxy, and no call of
\* the browser on one reaches another object.
ProxiesResolve ==
    viewer = "up" =>
        \A e \in Ends : \A p \in Live(e) \ heap[e].crossed :
            p.gen = gen /\ p.id \in DOMAIN heap[Other(e)].g_stubs

\* assert(npobj != NULL) in do_recv_NPObject_helper: a proxy that is received as
\* an id has its stub.
ReceivedObjectExists == asserted = {}

\* npruntime_deactivate: "Invalidate any proxies the wrapper may still be holding
\* on to."  Once plugin_kill is done, the browser has no valid proxy but those that
\* were crossed, of which the first viewer has none and a plugin never has one.
DeactivatedProxiesAreInvalid ==
    viewer = "killed" => Live("wrapper") \subseteq heap["wrapper"].crossed
NoneCrossedAtFirst ==
    /\ gen = 1 => heap["wrapper"].crossed = {}
    /\ heap["viewer"].crossed = {}
=============================================================================
