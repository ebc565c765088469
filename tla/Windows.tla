------------------------------ MODULE Windows ------------------------------
(***************************************************************************)
(* The windows of the viewer (npw-viewer.c): what NPP_SetWindow makes of    *)
(* the window the browser gives to an instance, the Xt event source that    *)
(* the instances without XEMBED share, and the way of the browser's XEMBED  *)
(* messages and keys to the plugin's own window.                            *)
(*                                                                          *)
(* Everything here runs in the viewer's GLib main loop, whose iterations    *)
(* are prepare, poll and dispatch.  The X connection has two parts: wire is *)
(* what its socket holds, which poll() sees, and queue is what Xlib has     *)
(* read from it already, which poll() does not see.  Whoever waits for an   *)
(* answer of the X server moves the one into the other.                     *)
(*                                                                          *)
(* The browser may give an instance a window or a drawable in any order,    *)
(* with attributes that can be used or not; sizes are one-dimensional, and  *)
(* a new parent of a window that is there is not looked at.  Calls that     *)
(* nest into NPP_SetWindow are left to module Instances, and the windows of *)
(* an instance with XEMBED, with its events, to GTK.                        *)
(***************************************************************************)
EXTENDS Naturals, Sequences, FiniteSets, FiniteSetsExt

CONSTANTS
    Instances,
    Sizes,                    \* what the browser may give as the size; 0 is "unknown"
    Hints,                    \* the size in the arguments of NPP_New; 0 is none
    ActualSize,               \* what the X server says the browser's window has
    XT_MAX_DISPATCH_EVENTS,
    MaxSent,                  \* bound on what the browser sends to the present windows
    MaxRefused,               \* bound on instances the plugin refuses
    NONE

ASSUME WindowsAssumption == XT_MAX_DISPATCH_EVENTS \in Nat \ {0} /\ MaxRefused \in Nat

VARIABLES
    plugin,           \* per instance: NONE or its PluginInstance
    given,            \* per instance: what the browser gave last without an error, or NONE
    told,             \* per instance: what the plugin was told last
    sent, arrived,    \* per instance: what the browser sent to its Xt window, what came to the form
    xt_source_count,
    xt_source,        \* is there a source?
    refused,          \* instances without XEMBED that NPP_New made and the plugin refused
    wire, queue,
    timer, input,     \* of the Xt application context: "none", "idle" or "ready"
    loop              \* the main loop

xt == <<wire, queue, timer, input>>
windows == <<plugin, given, told, refused>>
vars == <<plugin, given, told, sent, arrived, xt_source_count, xt_source, refused,
          wire, queue, timer, input, loop>>

Kinds == {"FocusIn", "FocusOut", "Key"}
Events == [i : Instances, at : {"top", "form"}, kind : Kinds]   \* at the "top" widget or the "form"
Event(i, at, kind) == [i |-> i, at |-> at, kind |-> kind]

\* The events of a queue that are among those of a set, in their order.
Among(q, es) ==
    LET of[n \in 0..Len(q)] ==
          IF n = 0 THEN <<>> ELSE IF q[n] \in es THEN Append(of[n - 1], q[n]) ELSE of[n - 1]
    IN  of[Len(q)]

\* Its members that matter here; toolkit says which toolkit_data there is
PluginInstance ==
    [use_xembed : BOOLEAN, is_windowless : BOOLEAN, hint : Hints \cup {ActualSize}, ws_info : BOOLEAN,
     toolkit : {"none", "xt", "gtk"}, window : {NONE, "browser", "own"},
     width : Sizes \cup Hints \cup {0, ActualSize}]

\* What the browser gives; the attributes may lack (no ws_info) or name a
\* visual that the viewer cannot find.
NPWindow == [drawable : BOOLEAN, size : Sizes]
Attributes == {"good", "bad", "none"}

\* What the plugin is told of its window
Window == [window : {NONE, "browser", "own"}, width : Sizes \cup Hints \cup {0, ActualSize}]

ASSUME NoneAssumption ==    \* NONE is no record
    NONE \notin PluginInstance \cup Window \cup NPWindow

Live(i) == plugin[i] # NONE
HasXtWindow(i) == Live(i) /\ plugin[i].toolkit = "xt"

----------------------------------------------------------------------------
(* Windows.  Each takes a PluginInstance and gives it back changed.        *)

\* fixup_size_hints(): the size in the arguments, or that of the window,
\* which is then remembered.
fixup_size_hints(p) ==
    IF p.width # 0 THEN p
    ELSE IF p.hint # 0 THEN [p EXCEPT !.width = p.hint]
    ELSE IF p.window # NONE THEN [p EXCEPT !.width = ActualSize, !.hint = ActualSize]
    ELSE p

\* The assertion of create_window() that there are no window attributes;
\* those of a windowless plugin have just been freed.
CreateAborts(p) == ~p.is_windowless /\ p.ws_info

create_window(p, size) ==
    LET new == fixup_size_hints([p EXCEPT !.ws_info = TRUE, !.width = size,
                                          !.window = IF p.is_windowless THEN NONE ELSE "browser"])
    IN  IF p.is_windowless THEN new
        ELSE [new EXCEPT !.toolkit = IF p.use_xembed THEN "gtk" ELSE "xt", !.window = "own"]

\* Attributes that create_window() cannot use: what there was is freed by then.
create_windowFails(p) == [p EXCEPT !.ws_info = FALSE]

\* As a slip would have it: the size is not taken over.
update_windowKeepsSize(p, size) == p

\* update_window() with attributes whose visual need not be known.
update_window(p, size) == [p EXCEPT !.width = size]
UpdateFails(p, attributes) == p.is_windowless \/ attributes = "none"

destroy_window(p) == [p EXCEPT !.toolkit = "none", !.ws_info = FALSE]

\* Events of a window that is gone reach nobody.
WithoutEvents(q, i) == Among(q, {e \in Events : e.i # i})
WindowGone(i) ==
    /\ queue' = WithoutEvents(queue \o wire, i)
    /\ wire' = <<>>
    /\ sent' = [sent EXCEPT ![i] = <<>>]
    /\ arrived' = [arrived EXCEPT ![i] = <<>>]

\* A round trip to the X server: what was on the socket is in Xlib's queue.
XSync == queue' = queue \o wire /\ wire' = <<>>

----------------------------------------------------------------------------
(* The event source of Xt                                                  *)

xt_source_create ==
    /\ xt_source_count' = xt_source_count + 1
    /\ xt_source' = TRUE

xt_source_destroy ==
    /\ xt_source_count' = xt_source_count - 1
    /\ xt_source' = (xt_source /\ xt_source_count > 1)

XtAppPending == queue # <<>> \/ wire # <<>> \/ timer = "ready" \/ input = "ready"

\* As a slip would have it: only the timers count.
xt_get_next_timeoutOfTimers == IF timer = "none" THEN "never" ELSE "timer"

\* xt_get_next_timeout(): GLib does not poll the files that the plugin has
\* given to Xt, so that it must not sleep long while there is one.
xt_get_next_timeout ==
    CASE input # "none" -> "XT_DEFAULT_TIMEOUT"
      [] input = "none" /\ timer # "none" -> "timer"
      [] OTHER -> "never"

xt_event_prepare == XtAppPending

\* The source is ready, or there is a time to sleep.
Prepare ==
    /\ loop.at = "prepare"
    /\ IF xt_source /\ xt_event_prepare
       THEN /\ loop' = [loop EXCEPT !.at = "poll", !.ready = TRUE, !.timeout = "now"]
            /\ XSync
       ELSE /\ loop' = [loop EXCEPT !.at = "poll", !.ready = FALSE,
                                    !.timeout = IF xt_source THEN xt_get_next_timeout ELSE "never"]
            /\ UNCHANGED <<queue, wire>>
    /\ UNCHANGED <<windows, sent, arrived, xt_source_count, xt_source, timer, input>>

\* xt_event_check(): only what the socket shows.
xt_event_check == wire # <<>>

\* poll() returns: at once, for the socket of X, for a message of the browser,
\* for another source of GLib or when the time is over.  With a source to
\* dispatch the loop waits for the browser first; without, a message is one
\* call to handle, or there is nothing to do.
Poll(rpc, others, expired) ==
    LET check == xt_source /\ xt_event_check
        ready == loop.ready \/ check
    IN  /\ loop.at = "poll"
        /\ expired => loop.timeout = "XT_DEFAULT_TIMEOUT" \/ (loop.timeout = "timer" /\ timer = "ready")
        /\ rpc \/ others \/ expired \/ loop.timeout = "now" \/ check
        /\ loop' = [loop EXCEPT !.ready = ready, !.timeout = "never",
                                !.at = IF ready \/ others THEN "sync" ELSE IF rpc THEN "call" ELSE "prepare"]
        /\ IF check /\ ~loop.ready THEN XSync ELSE UNCHANGED <<queue, wire>>
        /\ UNCHANGED <<windows, sent, arrived, xt_source_count, xt_source, timer, input>>

\* The browser answers, and waits until the dispatch is over.
rpc_sync ==
    /\ loop.at = "sync"
    /\ loop' = [loop EXCEPT !.at = "dispatch"]
    /\ UNCHANGED <<windows, sent, arrived, xt_source_count, xt_source, xt>>

\* As a slip would have it: both focus messages are taken for the first.
xt_client_event_handlerOneFocus(e) ==
    IF e.at = "form" THEN <<>>
    ELSE <<Event(e.i, "form", IF e.kind = "FocusOut" THEN "FocusIn" ELSE e.kind)>>

\* xt_client_event_handler(): a focus message of XEMBED becomes a focus
\* event of the form, a key is sent on to it; the form's own events need
\* nothing.  (That a click asks the browser for the focus is left out.)
xt_client_event_handler(e) == IF e.at = "top" THEN <<Event(e.i, "form", e.kind)>> ELSE <<>>

\* One round of xt_event_dispatch().  Sending an event waits for the X
\* server, by which it is in the queue behind what came before it.
ProcessEvent ==
    /\ queue # <<>>
    /\ LET e == Head(queue)
           sends == xt_client_event_handler(e)
       IN  /\ queue' = Tail(queue) \o (IF sends = <<>> THEN <<>> ELSE wire \o sends)
           /\ wire' = IF sends = <<>> THEN wire ELSE <<>>
           /\ arrived' = IF e.at = "form" THEN [arrived EXCEPT ![e.i] = Append(@, e.kind)] ELSE arrived
    /\ UNCHANGED <<timer, input>>

ReadSocket == queue = <<>> /\ wire # <<>> /\ XSync /\ UNCHANGED <<arrived, timer, input>>

ProcessTimer == timer = "ready" /\ timer' = "none" /\ UNCHANGED <<wire, queue, input, arrived>>
ProcessInput == input = "ready" /\ input' = "idle" /\ UNCHANGED <<wire, queue, timer, arrived>>

CanDispatch == loop.at = "dispatch" /\ loop.ready /\ loop.n < XT_MAX_DISPATCH_EVENTS

xt_event_dispatch ==
    /\ CanDispatch
    /\ ProcessEvent \/ ReadSocket \/ ProcessTimer \/ ProcessInput
    /\ loop' = [loop EXCEPT !.n = IF queue = <<>> /\ wire # <<>> /\ queue' # <<>> THEN @ ELSE @ + 1]
    /\ UNCHANGED <<windows, sent, xt_source_count, xt_source>>

\* All sources that were ready have had their turn.
EndOfDispatch ==
    /\ loop.at = "dispatch"
    /\ ~(CanDispatch /\ XtAppPending)
    /\ loop' = [loop EXCEPT !.at = "prepare", !.ready = FALSE, !.n = 0]
    /\ UNCHANGED <<windows, sent, arrived, xt_source_count, xt_source, xt>>

----------------------------------------------------------------------------
(* Calls of the browser: the one the loop handles between two iterations,   *)
(* any while rpc_sync() waits for its answer, and any while the plugin, in  *)
(* a dispatch, waits for the result of a call of its own.                   *)

Called == loop.at \in {"sync", "call", "dispatch"}

\* A source that is destroyed before its turn is not dispatched any more.
CallReturns(source) ==
    loop' = [loop EXCEPT !.at = IF @ = "call" THEN "prepare" ELSE @,
                         !.ready = @ /\ (source \/ loop.n > 0)]

\* A call that is about no window.
OtherCall ==
    /\ loop.at = "call"
    /\ CallReturns(xt_source)
    /\ UNCHANGED <<windows, sent, arrived, xt_source_count, xt_source, xt>>

\* g_NPP_New(): the source is counted whatever the plugin says, and an
\* instance that it refuses is never destroyed.
NPP_New(i, use_xembed, hint, ok) ==
    /\ Called
    /\ ~Live(i)
    /\ ok \/ (refused < MaxRefused /\ ~use_xembed)
    /\ IF use_xembed THEN UNCHANGED <<xt_source_count, xt_source>> ELSE xt_source_create
    /\ refused' = IF ok THEN refused ELSE refused + 1
    /\ plugin' = IF ~ok THEN plugin
                 ELSE [plugin EXCEPT ![i] =
                         [use_xembed |-> use_xembed, is_windowless |-> FALSE, hint |-> hint,
                          ws_info |-> FALSE, toolkit |-> "none", window |-> NONE, width |-> 0]]
    /\ CallReturns(xt_source')
    /\ UNCHANGED <<given, told, sent, arrived, xt>>

\* g_NPP_Destroy() and plugin_instance_invalidate().
NPP_Destroy(i) ==
    /\ Called
    /\ Live(i)
    /\ IF plugin[i].use_xembed THEN UNCHANGED <<xt_source_count, xt_source>> ELSE xt_source_destroy
    /\ plugin' = [plugin EXCEPT ![i] = NONE]
    /\ given' = [given EXCEPT ![i] = NONE]
    /\ told' = [told EXCEPT ![i] = NONE]
    /\ WindowGone(i)
    /\ CallReturns(xt_source')
    /\ UNCHANGED <<refused, timer, input>>

Tell(i, p) == told' = [told EXCEPT ![i] = [window |-> p.window, width |-> p.width]]

\* g_NPP_SetWindow() with a window: the kind is that of this window, and an
\* error of the viewer is returned before the plugin is told.
NPP_SetWindow(i, drawable, size, attributes) ==
    /\ Called
    /\ Live(i)
    /\ LET p == [plugin[i] EXCEPT !.is_windowless = drawable]
           refuse(q) ==
              /\ plugin' = [plugin EXCEPT ![i] = q]
              /\ CallReturns(xt_source)
              /\ UNCHANGED <<given, told, wire, queue>>
           accept(q) ==
              /\ plugin' = [plugin EXCEPT ![i] = q]
              /\ given' = [given EXCEPT ![i] = [drawable |-> drawable, size |-> size]]
              /\ Tell(i, q)
              /\ CallReturns(xt_source)
       IN  \/ p.toolkit # "none" /\ UpdateFails(p, attributes) /\ refuse(p)
           \/ /\ p.toolkit # "none" /\ ~UpdateFails(p, attributes)
              /\ accept(update_window(p, size)) /\ UNCHANGED <<wire, queue>>
           \/ /\ p.toolkit = "none" /\ CreateAborts(p)
              /\ plugin' = [plugin EXCEPT ![i] = p]
              /\ loop' = [loop EXCEPT !.at = "aborted"]
              /\ UNCHANGED <<given, told, wire, queue>>
           \/ /\ p.toolkit = "none" /\ ~CreateAborts(p) /\ attributes # "good"
              /\ refuse(create_windowFails(p))
           \/ /\ p.toolkit = "none" /\ ~CreateAborts(p) /\ attributes = "good"
              /\ accept(create_window(p, size))
              /\ IF HasXtWindow(i)' THEN XSync ELSE UNCHANGED <<wire, queue>>
    /\ UNCHANGED <<sent, arrived, xt_source_count, xt_source, refused, timer, input>>

\* g_NPP_SetWindow() without: the plugin is told first.
NPP_SetWindowNull(i) ==
    /\ Called
    /\ Live(i)
    /\ given' = [given EXCEPT ![i] = NONE]
    /\ told' = [told EXCEPT ![i] = NONE]
    /\ plugin' = [plugin EXCEPT ![i] = [destroy_window(@) EXCEPT !.is_windowless = FALSE]]
    /\ IF HasXtWindow(i) THEN WindowGone(i) ELSE UNCHANGED <<wire, queue, sent, arrived>>
    /\ CallReturns(xt_source)
    /\ UNCHANGED <<xt_source_count, xt_source, refused, timer, input>>

----------------------------------------------------------------------------
(* The surroundings                                                        *)

\* The embedder sends a message or a key to the window in its socket.
BrowserSends(i, kind) ==
    /\ HasXtWindow(i) /\ MapThenSumSet(LAMBDA j : Len(sent[j]), Instances) < MaxSent
    /\ sent' = [sent EXCEPT ![i] = Append(@, kind)]
    /\ wire' = Append(wire, Event(i, "top", kind))
    /\ UNCHANGED <<windows, arrived, xt_source_count, xt_source, queue, timer, input, loop>>

\* The plugin asks Xt, in one of its callbacks, for a timer or for the
\* input of a file; and that file has input, at any time.
PluginAddsTimer ==
    /\ Called /\ xt_source /\ timer = "none"
    /\ timer' = "idle"
    /\ UNCHANGED <<windows, sent, arrived, xt_source_count, xt_source, wire, queue, input, loop>>
PluginAddsInput ==
    /\ Called /\ xt_source /\ input = "none"
    /\ input' = "idle"
    /\ UNCHANGED <<windows, sent, arrived, xt_source_count, xt_source, wire, queue, timer, loop>>
TimerIsDue ==
    /\ timer = "idle"
    /\ timer' = "ready"
    /\ UNCHANGED <<windows, sent, arrived, xt_source_count, xt_source, wire, queue, input, loop>>
InputArrives ==
    /\ input = "idle"
    /\ input' = "ready"
    /\ UNCHANGED <<windows, sent, arrived, xt_source_count, xt_source, wire, queue, timer, loop>>

Init ==
    /\ plugin = [i \in Instances |-> NONE]
    /\ given = [i \in Instances |-> NONE]
    /\ told = [i \in Instances |-> NONE]
    /\ sent = [i \in Instances |-> <<>>]
    /\ arrived = [i \in Instances |-> <<>>]
    /\ xt_source_count = 0 /\ xt_source = FALSE
    /\ refused = 0
    /\ wire = <<>> /\ queue = <<>>
    /\ timer = "none" /\ input = "none"
    /\ loop = [at |-> "prepare", ready |-> FALSE, timeout |-> "never", n |-> 0]

Next ==
    \/ Prepare \/ rpc_sync \/ xt_event_dispatch \/ EndOfDispatch \/ OtherCall
    \/ \E rpc, others, expired \in BOOLEAN : Poll(rpc, others, expired)
    \/ PluginAddsTimer \/ PluginAddsInput \/ TimerIsDue \/ InputArrives
    \/ \E i \in Instances :
          \/ \E x, ok \in BOOLEAN, h \in Hints : NPP_New(i, x, h, ok)
          \/ NPP_Destroy(i)
          \/ \E d \in BOOLEAN, size \in Sizes, a \in Attributes : NPP_SetWindow(i, d, size, a)
          \/ NPP_SetWindowNull(i)
          \/ \E kind \in Kinds : BrowserSends(i, kind)

Spec == Init /\ [][Next]_vars

\* The main loop goes round unless an assertion fails: poll() returns when its
\* time is over or its socket is readable, time passes, a call that is being
\* handled returns, and the browser answers rpc_sync().  That it does follows
\* from RpcSync (SyncIsAnswered); nothing else is assumed of it.
Fairness ==
    /\ WF_vars(Prepare) /\ WF_vars(rpc_sync) /\ WF_vars(xt_event_dispatch)
    /\ WF_vars(EndOfDispatch) /\ WF_vars(OtherCall) /\ WF_vars(TimerIsDue)
    /\ WF_vars(Poll(FALSE, FALSE, FALSE)) /\ WF_vars(Poll(FALSE, FALSE, TRUE))

FairSpec == Spec /\ Fairness

----------------------------------------------------------------------------
(* Properties *)

TypeOK ==
    /\ plugin \in [Instances -> PluginInstance \cup {NONE}]
    /\ given \in [Instances -> NPWindow \cup {NONE}] /\ told \in [Instances -> Window \cup {NONE}]
    /\ sent \in [Instances -> Seq(Kinds)] /\ arrived \in [Instances -> Seq(Kinds)]
    /\ wire \in Seq(Events) /\ queue \in Seq(Events)
    /\ xt_source_count \in Nat /\ xt_source \in BOOLEAN /\ refused \in 0..MaxRefused
    /\ timer \in {"none", "idle", "ready"} /\ input \in {"none", "idle", "ready"}
    /\ loop \in [at : {"prepare", "poll", "sync", "call", "dispatch", "aborted"}, ready : BOOLEAN,
                 timeout : {"never", "timer", "XT_DEFAULT_TIMEOUT", "now"}, n : 0..XT_MAX_DISPATCH_EVENTS]

\* However windows, drawables, updates and refused calls follow each other, a
\* plugin knows what the browser gave last without an error: it draws into
\* its own window, which is there and has the size it was told, and not into
\* the browser's, or into none; and the size is the one that was given.
PluginKnowsItsWindow ==
    \A i \in Instances : Live(i) /\ given[i] # NONE =>
        /\ told[i] # NONE
        /\ told[i].window = IF given[i].drawable THEN NONE ELSE "own"
        /\ given[i].size # 0 => told[i].width = given[i].size
        /\ ~given[i].drawable => /\ plugin[i].toolkit # "none" /\ plugin[i].window = "own"
                                 /\ plugin[i].width = told[i].width

KindsOf(es) == [k \in 1..Len(es) |-> es[k].kind]
OnTheWay(i, at) == KindsOf(Among(queue \o wire, {e \in Events : e.i = i /\ e.at = at}))

\* What the browser sends to the plugin's window comes to the form in the
\* order in which it was sent and once: what has arrived, what is on the way
\* to the form and what is on the way to the top widget make what was sent.
InputInOrder ==
    \A i \in Instances : HasXtWindow(i) =>
        arrived[i] \o OnTheWay(i, "form") \o OnTheWay(i, "top") = sent[i]

Aborted == loop.at = "aborted"

\* While there is a source, whatever waits makes the loop dispatch it and
\* not sleep on: the events that some other wait has already taken off the
\* socket, a timer, and the input of a file that poll() does not know.
WorkIsDispatched ==
    /\ (queue \o wire # <<>> /\ xt_source) ~> (CanDispatch \/ queue \o wire = <<>> \/ ~xt_source \/ Aborted)
    /\ (timer # "none" /\ xt_source) ~> (CanDispatch \/ timer = "none" \/ ~xt_source \/ Aborted)
    /\ (input = "ready" /\ xt_source) ~> (CanDispatch \/ input # "ready" \/ ~xt_source \/ Aborted)
=============================================================================
