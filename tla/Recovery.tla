------------------------------ MODULE Recovery ------------------------------
(***************************************************************************)
(* How the wrapper starts, loses and restarts the viewer (npw-wrapper.c),  *)
(* over the life of the plugin in one browser.                             *)
(*                                                                         *)
(* Every viewer has a connection of its own, and names it here.  The       *)
(* master connection g_rpc_connection is the current one; an instance      *)
(* keeps the connection it was created with.  What goes over a connection  *)
(* is left to RpcSync: here a call is a frame on the browser's stack, and  *)
(* the viewer may call back while it is open.  Frames of connections that  *)
(* were given up can be below the ones of the current connection.          *)
(***************************************************************************)
EXTENDS Integers, FiniteSets, SequencesExt

CONSTANTS
    Connections, NoConnection,
    Instances, NoInstance,
    MaxStack,       \* bound: open frames
    MaxRefs         \* bound: references to a connection

ASSUME ConstantsAssumption ==
    /\ NoConnection \notin Connections
    /\ NoInstance \notin Instances
    /\ MaxStack \in Nat /\ MaxRefs \in Nat

VARIABLES
    plugin,     \* the static variables of npw-wrapper.c, and what they own
    status,     \* status of each connection
    npp,        \* the connection of each instance the browser has
    stack,      \* the open frames of the browser's thread
    throttled,  \* the last restart is less than MIN_RESTART_INTERVAL ago
    phase       \* whether NP_Initialize has returned, NP_Shutdown was called,
                \* the library of the wrapper was unloaded

vars == <<plugin, status, npp, stack, throttled, phase>>

\* A frame waits for the viewer of its connection, or runs the browser for it.
Waits == {"initialize", "new", "call", "destroy", "shutdown", "sync"}
Frame == [kind : Waits \cup {"handle"},
          connection : Connections,
          instance : Instances \cup {NoInstance}]
Fr(k, c, i) == [kind |-> k, connection |-> c, instance |-> i]

\* The static variables of npw-wrapper.c, and what they own.
Statics ==
    [g_rpc_connection : Connections \cup {NoConnection},
     g_rpc_source     : Connections \cup {NoConnection},
     viewer_pid       : Connections \cup {NoConnection},
     viewers          : SUBSET Connections,     \* processes that exist
     refcnt           : [Connections -> Nat],
     initialized      : -1..2,
     plugin_killed    : BOOLEAN,
     cached           : BOOLEAN]                \* name, description and formats

TypeOK ==
    /\ plugin \in Statics
    /\ status \in [Connections -> {"ACTIVE", "CLOSED", "BROKEN"}]
    /\ npp \in [Instances -> Connections \cup {NoConnection}]
    /\ stack \in Seq(Frame)
    /\ throttled \in BOOLEAN
    /\ phase \in {"loaded", "running", "shutdown", "unloaded"}

Top == Last(stack)
Running == stack # <<>> => Top.kind = "handle"       \* the browser's code runs
WaitingOn(c) == stack # <<>> /\ Top.kind \in Waits /\ Top.connection = c
Active == plugin.g_rpc_connection # NoConnection /\ status[plugin.g_rpc_connection] = "ACTIVE"

-----------------------------------------------------------------------------
(***************************************************************************)
(* The functions of npw-wrapper.c, as what they make of the plugin record. *)
(***************************************************************************)
Unref(refcnt, c) ==
    IF c = NoConnection THEN refcnt ELSE [refcnt EXCEPT ![c] = @ - 1]

\* Each of the two sources takes a reference to the connection, and would drop
\* it when it is finalized.
rpc_event_source_new(refcnt, c) == [refcnt EXCEPT ![c] = @ + 1]
rpc_sync_source_new(refcnt, c) == [refcnt EXCEPT ![c] = @ + 1]

\* Mutants: a viewer that does not exit by itself is left behind; the pointer to
\* the connection is kept; the references of the sources are dropped as well.
PluginExitWithoutKill(s) ==
    [s EXCEPT !.g_rpc_source = NoConnection,
              !.refcnt = Unref(@, s.g_rpc_connection),
              !.g_rpc_connection = NoConnection,
              !.viewer_pid = NoConnection,
              !.initialized = 0]
PluginExitFreesSources(s) ==
    [s EXCEPT !.g_rpc_source = NoConnection,
              !.refcnt = Unref(Unref(Unref(@, s.g_rpc_connection), s.g_rpc_source),
                               s.g_rpc_source),
              !.g_rpc_connection = NoConnection,
              !.viewers = @ \ {s.viewer_pid},
              !.viewer_pid = NoConnection,
              !.initialized = 0]

\* plugin_exit.  g_source_destroy() detaches the two sources; the reference
\* g_source_new() gave out is not dropped, so they keep their references to the
\* connection.  The viewer is waited for and, in the end, killed.
PluginExit(s) ==
    [s EXCEPT !.g_rpc_source = NoConnection,
              !.refcnt = Unref(@, s.g_rpc_connection),
              !.g_rpc_connection = NoConnection,
              !.viewers = @ \ {s.viewer_pid},
              !.viewer_pid = NoConnection,
              !.initialized = 0]

\* plugin_kill
PluginKill(s) == [PluginExit(s) EXCEPT !.plugin_killed = TRUE]

\* plugin_init(0), called when initialized is 0.  The second time the
\* description of the plugin is cached, and initialized stays -1.
PluginInfo(s) == [s EXCEPT !.initialized = IF s.cached THEN -1 ELSE 1, !.cached = TRUE]

\* plugin_init(1): a viewer is forked for connection c.  rpc_init_client fails
\* when the viewer does not listen in time, and initialized stays -1.
PluginInit(s, c) ==
    [s EXCEPT !.g_rpc_connection = c,
              !.g_rpc_source = c,
              !.viewer_pid = c,
              !.viewers = @ \cup {c},
              !.refcnt = rpc_sync_source_new(rpc_event_source_new([@ EXCEPT ![c] = 1], c), c),
              !.initialized = 2,
              !.cached = TRUE]
PluginInitFails(s, c, up) ==
    [s EXCEPT !.g_rpc_connection = NoConnection,
              !.viewer_pid = c,
              !.viewers = IF up THEN @ \cup {c} ELSE @,
              !.initialized = -1,
              !.cached = TRUE]

\* Mutant: what a failed start left behind is not terminated.
PluginStopNothing(s) == [s EXCEPT !.plugin_killed = FALSE]

\* plugin_start, up to its call of plugin_init.
PluginStop(s) ==
    [(IF s.plugin_killed THEN s ELSE PluginKill(s)) EXCEPT !.plugin_killed = FALSE]

\* A connection that nothing refers to stands for a new one.
Fresh(s) ==
    {c \in Connections \ (s.viewers \cup {s.viewer_pid, s.g_rpc_connection, s.g_rpc_source}) :
        /\ \A i \in Instances : npp[i] # c
        /\ \A k \in DOMAIN stack : stack[k].connection # c}

\* rpc_error on connection c: its status, and its error callback plugin_kill_cb.
\* The callback wants to unregister itself, which
\* rpc_connection_set_error_callback does not do once a callback is set.
SetStatus(c) ==
    \E e \in IF c \in plugin.viewers THEN {"BROKEN"} ELSE {"CLOSED", "BROKEN"} :
        status' = [status EXCEPT ![c] = IF @ = "ACTIVE" THEN e ELSE @]
RpcError(c) == SetStatus(c) /\ plugin' = PluginKill(plugin)

-----------------------------------------------------------------------------
(***************************************************************************)
(* The browser.                                                            *)
(***************************************************************************)
\* NP_GetValue, NP_GetMIMEDescription
GetInfo ==
    /\ Running /\ phase \in {"loaded", "running"}
    /\ plugin.initialized = 0
    /\ plugin' = PluginInfo(plugin)
    /\ UNCHANGED <<status, npp, stack, throttled, phase>>

\* The viewer for c is started by state s, and NP_Initialize is called.
Starts(s, c, i) ==
    /\ plugin' = PluginInit(s, c)
    /\ status' = [status EXCEPT ![c] = "ACTIVE"]
    /\ stack' = Append(stack, Fr("initialize", c, i))

\* NP_Initialize, which the browser calls once.
NP_Initialize ==
    /\ stack = <<>> /\ phase = "loaded" /\ plugin.initialized \in {0, 1}
    /\ \E c \in Fresh(plugin) :
        \/ Starts(plugin, c, NoInstance) /\ UNCHANGED phase
        \/ /\ \E up \in BOOLEAN : plugin' = PluginInitFails(plugin, c, up)
           /\ phase' = "shutdown"       \* the browser gives up
           /\ UNCHANGED <<status, stack>>
    /\ UNCHANGED <<npp, throttled>>

\* g_NPP_New, the plugin being there: the instance takes a reference.
NewInstance(s, frames, i) ==
    LET c == s.g_rpc_connection
    IN  /\ s.refcnt[c] < MaxRefs
        /\ plugin' = [s EXCEPT !.refcnt[c] = @ + 1]
        /\ npp' = [npp EXCEPT ![i] = c]
        /\ stack' = Append(frames, Fr("new", c, i))

CanCreate(i) ==
    /\ Running /\ phase = "running" /\ Len(stack) < MaxStack
    /\ npp[i] = NoConnection
    /\ \A k \in DOMAIN stack : stack[k].instance # i

NPP_New(i) ==
    /\ CanCreate(i) /\ Active
    /\ NewInstance(plugin, stack, i)
    /\ UNCHANGED <<status, throttled, phase>>

\* g_NPP_New, the connection being down: plugin_start_if_needed.
NPP_NewRestarts(i) ==
    /\ CanCreate(i) /\ ~Active /\ ~throttled
    /\ throttled' = TRUE
    /\ LET s == PluginStop(plugin)
       IN  /\ s.initialized >= 0
           /\ \E c \in Fresh(s) : Starts(s, c, i)
    /\ UNCHANGED <<npp, phase>>

\* The same when no viewer comes up, or plugin_init does not even try.
NPP_NewFails(i) ==
    /\ CanCreate(i) /\ ~Active /\ ~throttled
    /\ throttled' = TRUE
    /\ LET s == PluginStop(plugin)
       IN  \/ s.initialized < 0 /\ plugin' = s
           \/ /\ s.initialized >= 0
              /\ \E c \in Fresh(s), up \in BOOLEAN : plugin' = PluginInitFails(s, c, up)
    /\ UNCHANGED <<status, npp, stack, phase>>

\* NPP_New has returned to the browser, and NPP_Destroy was not called.
Created(i) ==
    /\ npp[i] # NoConnection
    /\ \A k \in DOMAIN stack : stack[k].kind \in {"new", "destroy"} => stack[k].instance # i

\* Any other NPP function; rpc_method_invoke_possible is its guard.
NPP_Call(i) ==
    /\ Running /\ Len(stack) < MaxStack
    /\ Created(i) /\ status[npp[i]] = "ACTIVE"
    /\ stack' = Append(stack, Fr("call", npp[i], i))
    /\ UNCHANGED <<plugin, status, npp, throttled, phase>>

\* g_NPP_Destroy: the call if it is possible, then the reference is dropped.
Destroyed(s, i) ==
    /\ plugin' = [s EXCEPT !.refcnt = Unref(@, npp[i])]
    /\ npp' = [npp EXCEPT ![i] = NoConnection]

NPP_Destroy(i) ==
    /\ Running /\ Created(i)
    /\ \/ /\ status[npp[i]] = "ACTIVE" /\ Len(stack) < MaxStack
          /\ stack' = Append(stack, Fr("destroy", npp[i], i))
          /\ UNCHANGED <<plugin, npp>>
       \/ /\ status[npp[i]] # "ACTIVE"
          /\ Destroyed(plugin, i)
          /\ UNCHANGED stack
    /\ UNCHANGED <<status, throttled, phase>>

\* NP_Shutdown, after the last instance.
NP_Shutdown ==
    /\ stack = <<>> /\ phase = "running" /\ \A i \in Instances : npp[i] = NoConnection
    /\ phase' = "shutdown"
    /\ IF Active
       THEN stack' = <<Fr("shutdown", plugin.g_rpc_connection, NoInstance)>> /\ UNCHANGED plugin
       ELSE plugin' = PluginExit(plugin) /\ UNCHANGED stack
    /\ UNCHANGED <<status, npp, throttled>>

\* The browser unloads the library of the wrapper after NP_Shutdown, or after
\* NP_Initialize has failed.
plugin_exit_sentinel ==
    /\ stack = <<>> /\ phase = "shutdown"
    /\ phase' = "unloaded"
    /\ plugin' = [PluginExit(plugin) EXCEPT !.cached = FALSE]
    /\ UNCHANGED <<status, npp, stack, throttled>>

-----------------------------------------------------------------------------
(***************************************************************************)
(* The connection.                                                         *)
(***************************************************************************)
\* The viewer calls the browser while the browser waits for it.
Handle(c) ==
    /\ WaitingOn(c) /\ c \in plugin.viewers /\ Len(stack) < MaxStack
    /\ stack' = Append(stack, Fr("handle", c, NoInstance))
    /\ UNCHANGED <<plugin, status, npp, throttled, phase>>

\* The source is dispatched: never again from inside its own dispatch.
Watched(c) ==
    /\ Running /\ plugin.g_rpc_source = c
    /\ \A k \in DOMAIN stack : stack[k].kind = "sync" => stack[k].connection # c

\* The viewer's turn, asked for in the browser's event loop.
Sync(c) ==
    /\ Watched(c) /\ c \in plugin.viewers /\ Len(stack) < MaxStack
    /\ stack' = Append(stack, Fr("sync", c, NoInstance))
    /\ UNCHANGED <<plugin, status, npp, throttled, phase>>

\* The event loop finds the viewer gone.
NoticeDeath(c) ==
    /\ Watched(c) /\ c \notin plugin.viewers
    /\ RpcError(c)
    /\ UNCHANGED <<npp, stack, throttled, phase>>

\* A wait on c ends in the error that rpc_method_wait_for_reply raises, and the
\* function that waited returns.  After NPP_New failed the browser forgets the
\* instance, and nobody drops its reference.
Failed(c, f, rest) ==
    LET s == PluginKill(plugin)
    IN  /\ SetStatus(c)
        /\ stack' = rest
        /\ IF f.kind = "destroy" THEN Destroyed(s, f.instance)
           ELSE /\ plugin' = IF f.kind = "shutdown" THEN PluginExit(s) ELSE s
                /\ npp' = IF f.kind = "new" THEN [npp EXCEPT ![f.instance] = NoConnection]
                          ELSE npp
        /\ phase' = IF f.kind = "initialize" /\ f.instance = NoInstance
                    THEN "shutdown" ELSE phase      \* the browser gives up
        /\ UNCHANGED throttled

\* A turn of the viewer ends in an error, which _rpc_dispatch_sync does not
\* raise; at the end of the file the source is removed.
SyncFailed(c, rest) ==
    /\ stack' = rest
    /\ \/ UNCHANGED plugin
       \/ /\ c \notin plugin.viewers /\ plugin.g_rpc_source = c
          /\ plugin' = [plugin EXCEPT !.g_rpc_source = NoConnection]
    /\ UNCHANGED <<status, npp, throttled, phase>>

\* The viewer is dead, or does not answer in time.
WaitFails(c) ==
    /\ WaitingOn(c)
    /\ IF Top.kind = "sync" THEN SyncFailed(c, Front(stack)) ELSE Failed(c, Top, Front(stack))

\* The reply, or the end of the viewer's turn.
WaitReturns(c) ==
    /\ WaitingOn(c) /\ c \in plugin.viewers
    /\ LET f == Top
           rest == Front(stack)
       IN  \/ /\ f.kind = "initialize" /\ f.instance # NoInstance
              /\ NewInstance(plugin, rest, f.instance)
              /\ UNCHANGED phase
           \/ /\ f.kind = "initialize" \* with the plugin's error code or without
              /\ stack' = rest
              /\ phase' \in IF f.instance = NoInstance THEN {"running", "shutdown"} ELSE {phase}
              /\ UNCHANGED <<plugin, npp>>
           \/ /\ f.kind \in {"call", "sync"}
              /\ stack' = rest
              /\ UNCHANGED <<plugin, npp, phase>>
           \/ /\ f.kind = "new"         \* with the plugin's error code or without
              /\ stack' = rest
              /\ npp' \in {npp, [npp EXCEPT ![f.instance] = NoConnection]}
              /\ UNCHANGED <<plugin, phase>>
           \/ /\ f.kind = "destroy" /\ stack' = rest
              /\ Destroyed(plugin, f.instance)
              /\ UNCHANGED phase
           \/ /\ f.kind = "shutdown" /\ stack' = rest
              /\ plugin' = PluginExit(plugin)
              /\ UNCHANGED <<npp, phase>>
    /\ UNCHANGED <<status, throttled>>

\* The browser returns from a call of the viewer.  When the reply cannot be
\* sent, the error goes on to the wait below, raised or not.
HandleReturns ==
    /\ stack # <<>> /\ Top.kind = "handle"
    /\ LET c == Top.connection
           rest == Front(stack)
           below == Last(rest)
       IN  \/ /\ c \in plugin.viewers /\ status[c] # "CLOSED"
              /\ stack' = rest
              /\ UNCHANGED <<plugin, status, npp, throttled, phase>>
           \/ /\ c \notin plugin.viewers \/ status[c] = "CLOSED"
              /\ IF below.kind = "sync" /\ status[c] = "CLOSED"
                 THEN SyncFailed(c, Front(rest))
                 ELSE Failed(c, below, Front(rest))

-----------------------------------------------------------------------------
ViewerDies(c) ==
    /\ c \in plugin.viewers
    /\ plugin' = [plugin EXCEPT !.viewers = @ \ {c}]
    /\ UNCHANGED <<status, npp, stack, throttled, phase>>

Tick ==
    /\ throttled /\ throttled' = FALSE
    /\ UNCHANGED <<plugin, status, npp, stack, phase>>

Terminated == phase \in {"shutdown", "unloaded"} /\ stack = <<>> /\ UNCHANGED vars

Init ==
    /\ plugin = [g_rpc_connection |-> NoConnection, g_rpc_source |-> NoConnection,
                 viewer_pid |-> NoConnection, viewers |-> {},
                 refcnt |-> [c \in Connections |-> 0],
                 initialized |-> 0, plugin_killed |-> FALSE, cached |-> FALSE]
    /\ status = [c \in Connections |-> "CLOSED"]
    /\ npp = [i \in Instances |-> NoConnection]
    /\ stack = <<>>
    /\ throttled = FALSE
    /\ phase = "loaded"

Browser ==
    \/ GetInfo \/ NP_Initialize \/ NP_Shutdown \/ plugin_exit_sentinel
    \/ \E i \in Instances :
        NPP_New(i) \/ NPP_NewRestarts(i) \/ NPP_NewFails(i) \/ NPP_Call(i) \/ NPP_Destroy(i)

Connection(c) ==
    Handle(c) \/ Sync(c) \/ NoticeDeath(c) \/ WaitFails(c) \/ WaitReturns(c) \/ ViewerDies(c)

Next ==
    \/ Browser
    \/ \E c \in Connections : Connection(c)
    \/ HandleReturns
    \/ Tick
    \/ Terminated

Spec == Init /\ [][Next]_vars

\* Calls end one way or the other, pages with an instance are closed, new ones
\* are opened, and in the end a viewer that is started comes up.
Fairness ==
    /\ \A c \in Connections : WF_vars(WaitReturns(c) \/ WaitFails(c))
    /\ SF_vars(HandleReturns)
    /\ WF_vars(Tick)
    /\ \A i \in Instances :
        /\ SF_vars(NPP_Destroy(i))
        /\ SF_vars(NPP_NewRestarts(i) \/ NPP_NewFails(i))
    /\ SF_vars(\E i \in Instances : NPP_NewRestarts(i))

FairSpec == Spec /\ Fairness

-----------------------------------------------------------------------------
(***************************************************************************)
(* Properties.                                                             *)
(***************************************************************************)
\* Viewers do not pile up: whatever died, hung or did not come up in time, the
\* one before is gone when plugin_init forks the next, and none is left behind
\* when the wrapper is unloaded (plugin_start, plugin_exit_sentinel).
OneViewer == Cardinality(plugin.viewers) <= IF phase = "unloaded" THEN 0 ELSE 1

\* No step frees a connection that a frame under it still uses: rpc_error returns
\* into code that goes on with the connection its callback has given up, and an
\* instance may be destroyed in the middle of a call on it.
NotFreedInUse ==
    [][\A k \in DOMAIN stack : plugin'.refcnt[stack[k].connection] > 0]_vars

\* After the loss of a viewer, opening pages gets the browser a new one.
ViewerIsRestarted ==
    phase = "running" /\ plugin.g_rpc_connection = NoConnection
        ~> phase # "running" \/ plugin.g_rpc_connection # NoConnection

\* plugin_kill_cb: "Don't kill the plugin again through another instance".  The
\* error of a connection takes down the master connection only if it is that one.
ErrorsKillOnce ==
    [][~plugin.plugin_killed /\ plugin'.plugin_killed /\ plugin.g_rpc_connection # NoConnection
        => status'[plugin.g_rpc_connection] # "ACTIVE"]_vars
=============================================================================
