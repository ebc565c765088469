----------------------------- MODULE Instances -----------------------------
(***************************************************************************)
(* The life of a plugin instance, of its streams, its timers and its       *)
(* asynchronous calls, in the wrapper and in the viewer (npw-wrapper.c,    *)
(* npw-viewer.c, npw-common.c, utils.c).  Calls nest: the browser may call *)
(* the plugin back from within any NPN_* call, and it may even destroy the *)
(* instance there.  The stack holds the calls under way, the latest last;  *)
(* whoever is called by the last one has control.  In the viewer each      *)
(* NPN_* call, timer and asynchronous call holds a reference to its        *)
(* PluginInstance.                                                         *)
(***************************************************************************)
EXTENDS Naturals, Sequences, FiniteSets, SequencesExt

CONSTANTS
    Instances,    \* instance ids
    Streams,      \* stream ids
    NPObjects,    \* the plugin's scriptable objects
    MaxRefs,      \* bound: references to one of them
    MaxTimers,    \* bound: timers of an instance
    MaxAsync,     \* bound: pending asynchronous calls of an instance
    MaxDepth,     \* bound: nested calls
    NONE, Freed   \* no object, and memory given back

VARIABLES
    up,        \* the viewer is alive
    npp,       \* browser: its NPP is "none", "live", or "dead"
    wplugin,   \* wrapper: PluginInstance "none", "valid", or "freed"; in its id map while valid
    plugin,    \* viewer: PluginInstance, or NONE, or Freed once finalized
    timers,    \* viewer: instance -> set of [id, repeat, source], plugin->timers
    sources,   \* viewer: GLib's timer sources, [i, id]
    async,     \* viewer: instance -> idle sources of asynchronous calls
    stream,    \* stream id -> the stream in the three processes, or NONE
    npobjs,    \* viewer: object -> its references, owner and table, or NONE
    stack,     \* calls under way
    fault      \* the functions that have touched freed memory

viewer == <<plugin, timers, sources, async, npobjs>>
vars == <<up, npp, wplugin, plugin, timers, sources, async, npobjs, stream, stack, fault>>

NPN == {"NPN_NewStream", "NPN_DestroyStream", "NPN_Write"}
NPP == {"NPP_New", "NPP_Destroy", "NPP_SetWindow", "NPP_Print",
        "NPP_NewStream", "NPP_Write", "NPP_DestroyStream"}

\* A call in progress: about instance i, and stream or timer s.
Call(op, i, s) == [op |-> op, i |-> i, s |-> s]
Calls == [op : NPN \cup NPP \cup {"timer", "async"}, i : Instances, s : Streams \cup Nat \cup {NONE}]

Caller == IF stack = <<>> THEN Call("none", NONE, NONE) ELSE Last(stack)
Within(ops, i) == \E k \in 1..Len(stack) : stack[k].op \in ops /\ stack[k].i = i
About(ops, s) == \E k \in 1..Len(stack) : stack[k].op \in ops /\ stack[k].s = s

\* The browser has control when nobody is called, or an NPN_* handler of the
\* wrapper has called it.
BrowserTurn == Caller.op \in NPN \cup {"none"}
PluginTurn == up /\ ~BrowserTurn

Push(c) == Len(stack) < MaxDepth /\ stack' = Append(stack, c)
Pop == stack' = Front(stack)

----------------------------------------------------------------------------
(* npw_plugin_instance_*, on the viewer's side *)

\* Its members that matter here; tables is whether timers and npobjects are made.
PluginInstance == [refcount : Nat \ {0}, is_valid : BOOLEAN, tables : BOOLEAN, next_timer_id : 0..MaxTimers]

\* All zero
plugin_instance_allocate == [refcount |-> 0, is_valid |-> FALSE, tables |-> FALSE, next_timer_id |-> 0]

npw_plugin_instance_new == [plugin_instance_allocate EXCEPT !.refcount = 1, !.is_valid = TRUE]

\* There is a PluginInstance that is not freed.
Exists(i) == plugin[i] \notin {NONE, Freed}
npw_plugin_instance_is_valid(i) == Exists(i) /\ plugin[i].is_valid

npw_plugin_instance_ref(p, i) == [p EXCEPT ![i].refcount = @ + 1]

\* As a slip would have it: an instance that is not valid is not needed.
npw_plugin_instance_unrefOfInvalid(p, i) ==
    CASE p[i] \in {NONE, Freed} -> p
      [] OTHER -> IF ~p[i].is_valid THEN [p EXCEPT ![i] = Freed] ELSE [p EXCEPT ![i].refcount = @ - 1]

\* The last reference frees the instance, and its NPP with it.
npw_plugin_instance_unref(p, i) ==
    CASE p[i] \in {NONE, Freed} -> p
      [] OTHER ->
           IF p[i].refcount = 1 THEN [p EXCEPT ![i] = Freed] ELSE [p EXCEPT ![i].refcount = @ - 1]

npw_plugin_instance_invalidate(p, i) == [p EXCEPT ![i].is_valid = FALSE]

\* The tables go with the instance.
plugin_instance_finalize(p) == [i \in Instances |-> IF p[i] = Freed THEN {} ELSE timers[i]]

\* An access to the PluginInstance by the function f.
Touch(f, i) == IF plugin[i] = Freed THEN fault \cup {f} ELSE fault

\* The wrapper looks the id up that the viewer sends, which is 0 once the
\* instance is invalid, and hands the browser the NPP it finds.
do_recv_NPW_PluginInstance(i) == IF npw_plugin_instance_is_valid(i) THEN i ELSE NONE
HandsOut(i) ==
    IF do_recv_NPW_PluginInstance(i) # NONE /\ wplugin[i] = "valid" /\ npp[i] # "live"
    THEN fault \cup {"do_recv_NPW_PluginInstance"} ELSE fault

----------------------------------------------------------------------------
(* g_npobj_owners: the instance an object was made for.  npobjects is that  *)
(* instance if the object is in its table too.                             *)

npobject_register(i) == [refs |-> 1, owner |-> i, npobjects |-> IF plugin[i].tables THEN i ELSE NONE]
npobject_get_owner(o) == npobjs[o].owner
npobject_unregister(obj) == [obj EXCEPT !.owner = NONE]

\* At the end of an instance, for the objects of its table.
invalidate_npobject(i) ==
    [o \in NPObjects |-> IF npobjs[o] # NONE /\ npobjs[o].npobjects = i
                         THEN npobject_unregister(npobjs[o]) ELSE npobjs[o]]

\* An object that is made within NPP_New finds no table to be entered in.
g_NPN_CreateObject(i, o) ==
    /\ PluginTurn /\ Exists(i) /\ npp[i] # "dead"
    /\ npobjs[o] = NONE
    /\ npobjs' = [npobjs EXCEPT ![o] = npobject_register(i)]
    /\ UNCHANGED <<up, npp, wplugin, plugin, timers, sources, async, stream, stack, fault>>

\* By the plugin, or for a stub.
g_NPN_RetainObject(o) ==
    /\ PluginTurn /\ npobjs[o] # NONE /\ npobjs[o].refs < MaxRefs
    /\ npobjs' = [npobjs EXCEPT ![o].refs = @ + 1]
    /\ UNCHANGED <<up, npp, wplugin, plugin, timers, sources, async, stream, stack, fault>>

\* By the plugin, or for the browser, which lets go of its proxy.  With the
\* last reference the object is taken off the table of its owner.
g_NPN_ReleaseObject(o) ==
    /\ up /\ npobjs[o] # NONE
    /\ LET owner == npobject_get_owner(o)
           last == npobjs[o].refs = 1
           \* made before there was a table
           f == IF npobjs[o].npobjects = NONE THEN "g_NPN_CreateObject" ELSE "g_NPN_ReleaseObject"
       IN  /\ npobjs' = [npobjs EXCEPT ![o] = IF last THEN NONE ELSE [npobjs[o] EXCEPT !.refs = @ - 1]]
           /\ fault' = IF last /\ owner # NONE THEN Touch(f, owner) ELSE fault
    /\ UNCHANGED <<up, npp, wplugin, plugin, timers, sources, async, stream, stack>>

----------------------------------------------------------------------------
(* Instances *)

\* g_NPP_New of the wrapper, the message, and g_NPP_New of the viewer up to
\* the plugin's function.
NPP_New(i) ==
    /\ up /\ BrowserTurn /\ npp[i] = "none"
    /\ Push(Call("NPP_New", i, NONE))
    /\ npp' = [npp EXCEPT ![i] = "live"]
    /\ wplugin' = [wplugin EXCEPT ![i] = "valid"]
    /\ plugin' = [plugin EXCEPT ![i] = npw_plugin_instance_new]
    /\ UNCHANGED <<up, timers, sources, async, stream, fault, npobjs>>

\* The tables of the instance are made after the plugin has returned.  A
\* browser forgets the NPP if the plugin refuses, and a plugin that refuses
\* leaves nothing scheduled; the two PluginInstances are not freed.
NPP_New_return(ok) ==
    /\ PluginTurn /\ Caller.op = "NPP_New"
    /\ LET i == Caller.i
       IN  /\ ok \/ (async[i] = 0 /\ ~\E src \in sources : src.i = i)
           /\ plugin' = [plugin EXCEPT ![i].tables = TRUE, ![i].next_timer_id = 1]
           /\ npp' = IF ok THEN npp ELSE [npp EXCEPT ![i] = "dead"]
    /\ Pop
    /\ UNCHANGED <<up, wplugin, timers, sources, async, stream, fault, npobjs>>

\* The end of g_NPP_Destroy in the wrapper: invalidated, and with the only
\* reference gone also finalized, which removes the id.
g_NPP_Destroy(i) ==
    /\ wplugin' = [wplugin EXCEPT ![i] = "freed"]
    /\ npp' = [npp EXCEPT ![i] = "dead"]

\* The browser destroys an instance once, after the streams it sends to it.
NPP_Destroy(i) ==
    /\ BrowserTurn /\ npp[i] = "live"
    /\ ~Within({"NPP_New", "NPP_Destroy"}, i)
    /\ ~\E s \in Streams : stream[s] # NONE /\ stream[s].i = i /\ stream[s].by = "browser"
                           /\ stream[s].browser # "gone"
    /\ \/ /\ up
          /\ Push(Call("NPP_Destroy", i, NONE))
          /\ UNCHANGED <<npp, wplugin>>
       \/ /\ ~up
          /\ g_NPP_Destroy(i)
          /\ UNCHANGED stack
    /\ UNCHANGED <<up, viewer, stream, fault>>

\* The rest of g_NPP_Destroy in the viewer: the objects that the instance has
\* a table of lose their owner; invalidate and unref.
NPP_Destroy_return ==
    /\ PluginTurn /\ Caller.op = "NPP_Destroy"
    /\ LET i == Caller.i
           p == npw_plugin_instance_unref(npw_plugin_instance_invalidate(plugin, i), i)
       IN  /\ plugin' = p
           /\ timers' = plugin_instance_finalize(p)
           /\ npobjs' = invalidate_npobject(i)
           /\ g_NPP_Destroy(i)
    /\ Pop
    /\ UNCHANGED <<up, sources, async, stream, fault>>

\* Calls about the instance only.  g_NPP_SetWindow looks at the instance
\* when the plugin has returned.
NPP_SetWindow(i) ==
    /\ up /\ BrowserTurn /\ npp[i] = "live" /\ ~Within({"NPP_New", "NPP_Destroy"}, i)
    /\ Push(Call("NPP_SetWindow", i, NONE))
    /\ UNCHANGED <<up, npp, wplugin, viewer, stream, fault>>

NPP_SetWindow_return ==
    /\ PluginTurn /\ Caller.op = "NPP_SetWindow"
    /\ fault' = Touch("g_NPP_SetWindow", Caller.i)
    /\ Pop
    /\ UNCHANGED <<up, npp, wplugin, viewer, stream>>

NPP_Print(i) ==
    /\ up /\ BrowserTurn /\ npp[i] = "live" /\ ~Within({"NPP_New", "NPP_Destroy"}, i)
    /\ Push(Call("NPP_Print", i, NONE))
    /\ UNCHANGED <<up, npp, wplugin, viewer, stream, fault>>

\* What the plugin has printed is sent in pieces once it has returned, with
\* a reference around each; the wrapper's NPN_PrintData calls nobody, so that
\* of an instance that is still there the references end as they were.
NPP_Print_return(printed) ==
    /\ PluginTurn /\ Caller.op = "NPP_Print"
    /\ fault' = IF printed THEN Touch("handle_NPP_Print", Caller.i) ELSE fault
    /\ Pop
    /\ UNCHANGED <<up, npp, wplugin, viewer, stream>>

----------------------------------------------------------------------------
(* Streams.  browser is "open", "closing" or "gone", wdata says that the   *)
(* wrapper has a StreamInstance in its id map, and vdata is that of the    *)
(* viewer: "none", "live" or "freed".                                      *)

\* g_NPP_NewStream of the wrapper and handle_NPP_NewStream of the viewer.
NPP_NewStream(i, s) ==
    /\ up /\ BrowserTurn /\ npp[i] = "live" /\ ~Within({"NPP_New", "NPP_Destroy"}, i)
    /\ stream[s] = NONE
    /\ Push(Call("NPP_NewStream", i, s))
    /\ stream' = [stream EXCEPT ![s] = [by |-> "browser", i |-> i, browser |-> "open",
                                        refused |-> FALSE, wdata |-> TRUE, vdata |-> "live"]]
    /\ UNCHANGED <<up, npp, wplugin, viewer, fault>>

\* A stream the plugin refuses is not used again.  The reply takes the
\* notifyData from the viewer's stream, which the browser may have destroyed.
NPP_NewStream_return(ok) ==
    /\ PluginTurn /\ Caller.op = "NPP_NewStream"
    /\ LET s == Caller.s
       IN  /\ stream' = IF ok \/ stream[s].browser # "open" THEN stream
                        ELSE [stream EXCEPT ![s].browser = "gone", ![s].refused = TRUE]
           /\ fault' = IF stream[s].vdata = "freed" THEN fault \cup {"handle_NPP_NewStream"} ELSE fault
    /\ Pop
    /\ UNCHANGED <<up, npp, wplugin, viewer>>

Usable(s) == stream[s] # NONE /\ stream[s].by = "browser" /\ stream[s].browser = "open"

\* NPP_WriteReady, NPP_Write and NPP_StreamAsFile: the viewer must know the
\* stream by its id.
NPP_Write(s) ==
    /\ up /\ BrowserTurn /\ Usable(s) /\ ~About({"NPP_NewStream"}, s)
    /\ Push(Call("NPP_Write", stream[s].i, s))
    /\ fault' = IF stream[s].vdata = "live" THEN fault ELSE fault \cup {"g_NPP_Write"}
    /\ UNCHANGED <<up, npp, wplugin, viewer, stream>>

NPP_Write_return ==
    /\ PluginTurn /\ Caller.op = "NPP_Write"
    /\ Pop
    /\ UNCHANGED <<up, npp, wplugin, viewer, stream, fault>>

\* As a slip would have it: the id stays in the wrapper's table.
WrapperForgetsKeeps(st, s) == [st EXCEPT ![s].browser = "gone"]

\* The end of g_NPP_DestroyStream in the wrapper.
WrapperForgets(st, s) == [st EXCEPT ![s].wdata = FALSE, ![s].browser = "gone"]

\* Also from within NPP_NewStream, when the plugin asks for it there.
NPP_DestroyStream(s) ==
    /\ BrowserTurn /\ Usable(s)
    /\ \/ /\ up
          /\ Push(Call("NPP_DestroyStream", stream[s].i, s))
          /\ stream' = [stream EXCEPT ![s].browser = "closing"]
       \/ /\ ~up
          /\ stream' = WrapperForgets(stream, s)
          /\ UNCHANGED stack
    /\ UNCHANGED <<up, npp, wplugin, viewer, fault>>

\* The rest of g_NPP_DestroyStream in the viewer frees the stream.
NPP_DestroyStream_return ==
    /\ PluginTurn /\ Caller.op = "NPP_DestroyStream"
    /\ LET s == Caller.s
       IN  /\ stream' = [WrapperForgets(stream, s) EXCEPT ![s].vdata = "freed"]
           /\ fault' = IF stream[s].vdata = "live" THEN fault ELSE fault \cup {"g_NPP_DestroyStream"}
    /\ Pop
    /\ UNCHANGED <<up, npp, wplugin, viewer>>

----------------------------------------------------------------------------
(* Calls of the plugin                                                     *)

\* The instance is referenced for the time of the call.
Enter(op, i, s) ==
    /\ Push(Call(op, i, s))
    /\ plugin' = npw_plugin_instance_ref(plugin, i)
    /\ fault' = HandsOut(i)

\* The viewer is back from a call: the reference is dropped, which an
\* instance freed before would not survive.
Leave(i) ==
    IF ~up THEN UNCHANGED <<plugin, timers>>
    ELSE LET p == npw_plugin_instance_unref(plugin, i)
         IN  plugin' = p /\ timers' = plugin_instance_finalize(p)

LeaveFault(f, i) == IF up THEN Touch(f, i) ELSE fault

\* NPN_Write, and any other call that is about an instance.  Until it is
\* freed the plugin may also use the NPP of an instance that is destroyed.
NPN_Write(i) ==
    /\ PluginTurn /\ Exists(i)
    /\ npp[i] # "dead" \/ ~npw_plugin_instance_is_valid(i)
    /\ Enter("NPN_Write", i, NONE)
    /\ UNCHANGED <<up, npp, wplugin, timers, sources, async, stream, npobjs>>

NPN_Write_return ==
    /\ Caller.op = "NPN_Write"
    /\ Leave(Caller.i)
    /\ fault' = LeaveFault("npw_plugin_instance_unref", Caller.i)
    /\ Pop
    /\ UNCHANGED <<up, npp, wplugin, sources, async, stream, npobjs>>

NPN_NewStream(i, s) ==
    /\ PluginTurn /\ Exists(i) /\ npp[i] # "dead"
    /\ stream[s] = NONE /\ ~About({"NPN_NewStream"}, s)
    /\ Enter("NPN_NewStream", i, s)
    /\ UNCHANGED <<up, npp, wplugin, timers, sources, async, stream, npobjs>>

\* g_NPN_NewStream of the wrapper makes the id, invoke_NPN_NewStream of the
\* viewer links it.
NPN_NewStream_return(ok) ==
    /\ Caller.op = "NPN_NewStream"
    /\ LET i == Caller.i  s == Caller.s
       IN  /\ ok => npp[i] = "live" /\ stream[s] = NONE
           /\ stream' = IF ~ok THEN stream
                        ELSE [stream EXCEPT ![s] = [by |-> "plugin", i |-> i, browser |-> "open",
                               refused |-> FALSE, wdata |-> TRUE, vdata |-> IF up THEN "live" ELSE "none"]]
           /\ Leave(i)
           /\ fault' = LeaveFault("npw_plugin_instance_unref", i)
    /\ Pop
    /\ UNCHANGED <<up, npp, wplugin, sources, async, npobjs>>

\* g_NPN_DestroyStream of the wrapper drops the id of a plugin's stream
\* before it calls the browser.
NPN_DestroyStream(i, s) ==
    /\ PluginTurn /\ Exists(i) /\ npp[i] # "dead"
    /\ stream[s] # NONE /\ stream[s].i = i /\ stream[s].vdata = "live" /\ ~About({"NPN_DestroyStream"}, s)
    /\ Enter("NPN_DestroyStream", i, s)
    /\ stream' = IF stream[s].by = "plugin" THEN [stream EXCEPT ![s].wdata = FALSE] ELSE stream
    /\ UNCHANGED <<up, npp, wplugin, timers, sources, async, npobjs>>

\* The browser has closed the stream; one of its own it has closed with
\* NPP_DestroyStream, or refuses to.  The viewer then looks at the stream
\* to see whose it is, and frees it if it is the plugin's.
NPN_DestroyStream_return ==
    /\ Caller.op = "NPN_DestroyStream"
    /\ LET i == Caller.i  s == Caller.s
       IN  /\ stream' = CASE stream[s].by = "browser" -> stream
                          [] stream[s].by = "plugin" /\ up ->
                               [stream EXCEPT ![s].browser = "gone", ![s].vdata = "freed"]
                          [] OTHER -> [stream EXCEPT ![s].browser = "gone"]
           /\ Leave(i)
           /\ fault' = LeaveFault("npw_plugin_instance_unref", i) \cup
                       IF up /\ stream[s].vdata = "freed" THEN {"g_NPN_DestroyStream"} ELSE {}
    /\ Pop
    /\ UNCHANGED <<up, npp, wplugin, sources, async, npobjs>>

----------------------------------------------------------------------------
(* Timers and asynchronous calls, which the main loop of the viewer runs   *)

\* The ids start again when the tables are made, so that a source from
\* before that may have the id of another's timer.  The sources are told apart
\* by a key, that of an early one being beyond the ids.
TimerId(key) == IF key < MaxTimers THEN key ELSE key - MaxTimers

\* Before the tables are made the timer cannot be entered, but its source
\* is there.
g_NPN_ScheduleTimer(i, repeat) ==
    /\ PluginTurn /\ Exists(i) /\ npp[i] # "dead"
    /\ LET id == plugin[i].next_timer_id
       IN  /\ id < MaxTimers
           /\ timers' = IF plugin[i].tables
                        THEN [timers EXCEPT ![i] = @ \cup {[id |-> id, repeat |-> repeat, source |-> TRUE]}]
                        ELSE timers
           /\ sources' = sources \cup
                 {[i |-> i, id |-> IF plugin[i].tables THEN id ELSE MaxTimers + id]}
           /\ plugin' = [npw_plugin_instance_ref(plugin, i) EXCEPT ![i].next_timer_id = @ + 1]
    /\ UNCHANGED <<up, npp, wplugin, async, stream, stack, fault, npobjs>>

\* timer_free() removes the source; its data, and the reference they hold,
\* go at once, or when its callback is done.
g_NPN_UnscheduleTimer(i, t) ==
    /\ PluginTurn /\ Exists(i) /\ npp[i] # "dead" /\ plugin[i].tables
    /\ t \in timers[i]
    /\ LET src == [i |-> i, id |-> t.id]
           p == IF t.source /\ src \in sources /\ ~\E k \in 1..Len(stack) : stack[k] = Call("timer", i, t.id)
                THEN npw_plugin_instance_unref(plugin, i) ELSE plugin
       IN  /\ sources' = IF t.source THEN sources \ {src} ELSE sources
           /\ timers' = [timers EXCEPT ![i] = @ \ {t}]
           /\ plugin' = p
    /\ UNCHANGED <<up, npp, wplugin, async, stream, stack, fault, npobjs>>

TimerOf(i, id) == {t \in timers[i] : t.id = id}

\* As a slip would have it: the instance may be invalid.
RunsAnyTimer(src) == plugin[src.i].tables /\ TimerOf(src.i, TimerId(src.id)) # {}

\* timer_data_run() calls the plugin if the instance is valid and has a timer
\* of that id.
RunsTimer(src) ==
    /\ npw_plugin_instance_is_valid(src.i)
    /\ plugin[src.i].tables /\ TimerOf(src.i, TimerId(src.id)) # {}

timer_data_run(src) ==
    /\ up /\ stack = <<>> /\ src \in sources
    /\ \/ /\ RunsTimer(src)
          /\ Push(Call("timer", src.i, src.id))
          /\ UNCHANGED viewer
       \/ /\ ~RunsTimer(src)
          /\ LET p == npw_plugin_instance_unref(plugin, src.i)
             IN  plugin' = p /\ timers' = plugin_instance_finalize(p)
          /\ sources' = sources \ {src}
          /\ UNCHANGED <<async, stack>>
    /\ fault' = Touch("timer_data_free", src.i)
    /\ UNCHANGED <<up, npp, wplugin, stream, npobjs>>

\* The callback is done.  If the plugin has removed this timer, its memory
\* is gone, and so is the source.
timer_data_run_return ==
    /\ PluginTurn /\ Caller.op = "timer"
    /\ LET i == Caller.i
           src == [i |-> i, id |-> Caller.s]
           t == TimerOf(i, TimerId(Caller.s))
           again == src \in sources /\ t # {} /\ \A x \in t : x.repeat
           p == IF again THEN plugin ELSE npw_plugin_instance_unref(plugin, i)
       IN  /\ plugin' = p
           /\ sources' = IF again THEN sources ELSE sources \ {src}
           /\ timers' = IF again THEN timers
                        ELSE [plugin_instance_finalize(p) EXCEPT ![i] =
                                {IF x \in t THEN [x EXCEPT !.source = FALSE] ELSE x : x \in @}]
           /\ fault' = IF t = {} THEN fault \cup {"timer_data_run"} ELSE fault
    /\ Pop
    /\ UNCHANGED <<up, npp, wplugin, async, stream, npobjs>>

\* From any thread, at any time, while the plugin may use the NPP.
g_NPN_PluginThreadAsyncCall(i) ==
    /\ up /\ Exists(i) /\ npp[i] = "live" /\ async[i] < MaxAsync
    /\ async' = [async EXCEPT ![i] = @ + 1]
    /\ plugin' = npw_plugin_instance_ref(plugin, i)
    /\ UNCHANGED <<up, npp, wplugin, timers, sources, stream, stack, fault, npobjs>>

\* As a slip would have it: the reference is not given back.
AsyncDoneLeaks(i) ==
    /\ async' = [async EXCEPT ![i] = @ - 1]
    /\ UNCHANGED <<plugin, timers>>

\* async_call_free()
AsyncDone(i) ==
    /\ async' = [async EXCEPT ![i] = @ - 1]
    /\ LET p == npw_plugin_instance_unref(plugin, i)
       IN  plugin' = p /\ timers' = plugin_instance_finalize(p)

async_call_run(i) ==
    /\ up /\ stack = <<>> /\ async[i] > 0
    /\ \/ /\ npw_plugin_instance_is_valid(i)
          /\ Push(Call("async", i, NONE))
          /\ UNCHANGED <<plugin, timers, async>>
       \/ /\ ~npw_plugin_instance_is_valid(i)
          /\ AsyncDone(i)
          /\ UNCHANGED stack
    /\ fault' = Touch("async_call_free", i)
    /\ UNCHANGED <<up, npp, wplugin, sources, stream, npobjs>>

async_call_run_return ==
    /\ PluginTurn /\ Caller.op = "async"
    /\ AsyncDone(Caller.i)
    /\ fault' = Touch("async_call_free", Caller.i)
    /\ Pop
    /\ UNCHANGED <<up, npp, wplugin, sources, stream, npobjs>>

----------------------------------------------------------------------------
(* The viewer dies, and the calls that wait for it fail.                   *)

Die ==
    /\ up
    /\ up' = FALSE
    /\ plugin' = [i \in Instances |-> NONE]
    /\ timers' = [i \in Instances |-> {}]
    /\ sources' = {}
    /\ async' = [i \in Instances |-> 0]
    /\ npobjs' = [o \in NPObjects |-> NONE]
    /\ stream' = [s \in Streams |-> IF stream[s] = NONE THEN NONE ELSE [stream[s] EXCEPT !.vdata = "none"]]
    \* the call of a timer, which the main loop makes, has no caller to go back to
    /\ stack' = IF stack # <<>> /\ Head(stack).op \in {"timer", "async"} THEN Tail(stack) ELSE stack
    /\ UNCHANGED <<npp, wplugin, fault>>

\* The wrapper's side of a call goes on as after an error of the plugin.
NPP_fails ==
    /\ ~up /\ Caller.op \in NPP
    /\ LET i == Caller.i  s == Caller.s
       IN  CASE Caller.op = "NPP_Destroy" -> g_NPP_Destroy(i) /\ UNCHANGED stream
             [] Caller.op = "NPP_New" -> npp' = [npp EXCEPT ![i] = "dead"] /\ UNCHANGED <<wplugin, stream>>
             [] Caller.op = "NPP_DestroyStream" ->
                   stream' = WrapperForgets(stream, s) /\ UNCHANGED <<npp, wplugin>>
             [] Caller.op = "NPP_NewStream" ->
                   /\ stream' = IF stream[s].browser = "open"
                                THEN [stream EXCEPT ![s].browser = "gone", ![s].refused = TRUE]
                                ELSE stream
                   /\ UNCHANGED <<npp, wplugin>>
             [] OTHER -> UNCHANGED <<npp, wplugin, stream>>
    /\ Pop
    /\ UNCHANGED <<up, viewer, fault>>

----------------------------------------------------------------------------
Init ==
    /\ up = TRUE
    /\ npp = [i \in Instances |-> "none"]
    /\ wplugin = [i \in Instances |-> "none"]
    /\ plugin = [i \in Instances |-> NONE]
    /\ timers = [i \in Instances |-> {}]
    /\ sources = {}
    /\ async = [i \in Instances |-> 0]
    /\ npobjs = [o \in NPObjects |-> NONE]
    /\ stream = [s \in Streams |-> NONE]
    /\ stack = <<>>
    /\ fault = {}

Return ==
    \/ \E ok \in BOOLEAN : NPP_New_return(ok) \/ NPP_NewStream_return(ok) \/ NPN_NewStream_return(ok)
    \/ \E printed \in BOOLEAN : NPP_Print_return(printed)
    \/ NPP_Destroy_return \/ NPP_SetWindow_return \/ NPP_Write_return \/ NPP_DestroyStream_return
    \/ NPN_Write_return \/ NPN_DestroyStream_return
    \/ timer_data_run_return \/ async_call_run_return
    \/ NPP_fails

Next ==
    \/ \E i \in Instances :
          \/ NPP_New(i) \/ NPP_Destroy(i) \/ NPP_SetWindow(i) \/ NPP_Print(i)
          \/ NPN_Write(i)
          \/ \E s \in Streams : NPP_NewStream(i, s) \/ NPN_NewStream(i, s) \/ NPN_DestroyStream(i, s)
          \/ \E repeat \in BOOLEAN : g_NPN_ScheduleTimer(i, repeat)
          \/ \E t \in timers[i] : g_NPN_UnscheduleTimer(i, t)
          \/ g_NPN_PluginThreadAsyncCall(i)
          \/ async_call_run(i)
          \/ \E o \in NPObjects : g_NPN_CreateObject(i, o)
    \/ \E o \in NPObjects : g_NPN_RetainObject(o) \/ g_NPN_ReleaseObject(o)
    \/ \E s \in Streams : NPP_Write(s) \/ NPP_DestroyStream(s)
    \/ \E src \in sources : timer_data_run(src)
    \/ Return
    \/ Die

Spec == Init /\ [][Next]_vars

\* The plugin and the browser return from each of the calls they get, so that
\* there is again and again no call under way, and the main loop of the viewer
\* comes to every source in time.  No source has the key 0.
Fairness ==
    /\ []<>(stack = <<>>)
    /\ \A i \in Instances : SF_vars(async_call_run(i))
    /\ \A i \in Instances, key \in 1..2 * MaxTimers - 1 : SF_vars(timer_data_run([i |-> i, id |-> key]))

FairSpec == Spec /\ Fairness

----------------------------------------------------------------------------
(* Properties *)

Timer == [id : Nat, repeat : BOOLEAN, source : BOOLEAN]
StreamInstance ==
    [by : {"browser", "plugin"}, i : Instances, browser : {"open", "closing", "gone"},
     refused : BOOLEAN, wdata : BOOLEAN, vdata : {"none", "live", "freed"}]
NPObject == [refs : Nat \ {0}, owner : Instances \cup {NONE}, npobjects : Instances \cup {NONE}]

ASSUME InstancesAssumption ==
    /\ MaxRefs \in Nat /\ MaxTimers \in Nat \ {0} /\ MaxAsync \in Nat /\ MaxDepth \in Nat
    /\ NONE # Freed /\ NONE \notin Instances
    /\ {NONE, Freed} \cap PluginInstance = {}
    /\ NONE \notin StreamInstance /\ NONE \notin NPObject

\* The state has the shape the code gives it.
TypeOK ==
    /\ up \in BOOLEAN
    /\ npp \in [Instances -> {"none", "live", "dead"}]
    /\ wplugin \in [Instances -> {"none", "valid", "freed"}]
    /\ plugin \in [Instances -> PluginInstance \cup {NONE, Freed}]
    /\ timers \in [Instances -> SUBSET Timer]
    /\ sources \subseteq [i : Instances, id : Nat] /\ IsFiniteSet(sources)
    /\ async \in [Instances -> Nat]
    /\ stream \in [Streams -> StreamInstance \cup {NONE}]
    /\ npobjs \in [NPObjects -> NPObject \cup {NONE}]
    /\ stack \in Seq(Calls)
    /\ \A k \in 1..Len(stack) :
          /\ stack[k].op \in {"NPP_NewStream", "NPP_Write", "NPP_DestroyStream",
                               "NPN_NewStream", "NPN_DestroyStream"} => stack[k].s \in Streams
          /\ stack[k].op = "timer" => stack[k].s \in Nat

\* The functions that do look at what was freed during a call, or by it: a
\* timer that its own callback has removed (timer_data_run); the instance, when
\* it was destroyed in its NPP_SetWindow or its NPP_Print; a stream, when it was
\* destroyed in its NPP_NewStream, or in NPN_DestroyStream; and the owner of an
\* object made within NPP_New, when the instance is freed before the object
\* (g_NPN_CreateObject).  The code goes wrong in each of these.
KnownFaults == {"timer_data_run", "g_NPP_SetWindow", "handle_NPP_Print",
                "handle_NPP_NewStream", "g_NPN_DestroyStream", "g_NPN_CreateObject"}

\* The references to an instance that there should be: those of the calls,
\* timers and asynchronous calls that still need it, and that of the browser
\* until it has destroyed it.
References(i) ==
    LET calls == Cardinality({k \in 1..Len(stack) : stack[k].op \in NPN /\ stack[k].i = i})
        srcs  == Cardinality({src \in sources : src.i = i})
        \* the source of a timer that is removed while its callback runs
        ended == Cardinality({k \in 1..Len(stack) : stack[k].op = "timer" /\ stack[k].i = i
                                 /\ [i |-> i, id |-> stack[k].s] \notin sources})
    IN  calls + srcs + ended + async[i] + IF npw_plugin_instance_is_valid(i) THEN 1 ELSE 0

\* Whatever calls are nested in which, an instance has exactly the references
\* that need it, and it is not freed while the browser has its NPP; but for
\* the known places nothing touches a PluginInstance or a stream that is
\* freed, frees one twice, or gives the browser an NPP it has destroyed
\* (npw_plugin_instance_ref, npw_plugin_instance_unref, g_NPN_*,
\* do_recv_NPW_PluginInstance); the instance that owns an object in its table
\* is there when the object goes (invalidate_npobject).
MemoryIsLive ==
    /\ fault \subseteq KnownFaults
    /\ \A i \in Instances : Exists(i) => plugin[i].refcount = References(i)
    /\ \A i \in Instances : plugin[i] = Freed => npp[i] = "dead"

\* A stream that is open is known to the wrapper and the viewer by its id,
\* so that no message about it is lost, and of a stream that has been closed
\* nothing is left in either of them (id_create, id_link, id_remove).
StreamsAgree ==
    \A s \in Streams :
        stream[s] # NONE /\ ~About({"NPP_DestroyStream", "NPN_DestroyStream"}, s) =>
            /\ stream[s].browser = "open" => stream[s].wdata /\ (up => stream[s].vdata = "live")
            /\ stream[s].browser = "gone" /\ ~stream[s].refused
                  => ~stream[s].wdata /\ stream[s].vdata # "live"

\* The plugin is not called back for an instance that the browser has
\* destroyed (timer_data_run, async_call_run).
NoLateCallback ==
    [][\A i \in Instances :
          Len(stack') = 1 /\ stack = <<>> /\ stack'[1].op \in {"timer", "async"} /\ stack'[1].i = i
              => npp[i] = "live"]_vars

\* A destroyed instance is freed in the end, whatever was scheduled for it
\* (plugin_instance_finalize).  A repeating timer stops with the instance.
InstanceIsFreed ==
    \A i \in Instances : (npp[i] = "dead" /\ wplugin[i] = "freed") ~> ~Exists(i)

\* What g_NPN_DestroyStream says: "Mozilla calls NPP_DestroyStream() for its
\* streams, keep stream info in that case".
StreamInfoIsKept == "g_NPN_DestroyStream" \notin fault
=============================================================================
