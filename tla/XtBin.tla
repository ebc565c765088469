-------------------------------- MODULE XtBin --------------------------------
(***************************************************************************)
(* GtkXtBin (gtk2xtbin.c): the GTK widget in which the player lets a       *)
(* plugin that is written for Xt live.  A bin is a GtkSocket with an Xt    *)
(* shell in it, whose child, the form, is the plugin's window; the plugin  *)
(* makes widgets of its own below the form.                                *)
(*                                                                         *)
(* The first bin hooks the Xt display into the main loop, the last one     *)
(* takes it out again.  A listener on each widget asks the socket for the  *)
(* keyboard focus when the mouse is clicked on it; the listeners follow    *)
(* the plugin's widgets by the events that the X server sends about them.  *)
(* The X server's events arrive in order in one queue and are worked off   *)
(* in batches between which the rest of the main loop runs.                *)
(*                                                                         *)
(* External: the X server, the Xt dispatcher (events for windows that are  *)
(* no widgets any more are dropped), GtkSocket, the plugin and the user.   *)
(***************************************************************************)
EXTENDS Naturals, Sequences, FiniteSets

CONSTANTS
    Bins,               \* the widgets gtk_xtbin_new may create; also: their forms
    Children,           \* the plugin's widgets below the forms
    Home(_),            \* the bin of the plugin that makes a widget
    XTBIN_MAX_EVENTS,   \* events of one xt_event_dispatch()
    PollingEvents,      \* events of one xt_event_polling_timer_callback()
    MaxQueue,           \* bound: events that wait
    MaxClicks,          \* bound: clicks
    NoParent            \* the parent of a widget that does not exist

ASSUME XtBinAssumption ==
    /\ IsFiniteSet(Bins) /\ Bins \cap Children = {} /\ NoParent \notin Bins \cup Children
    /\ XTBIN_MAX_EVENTS \in Nat \ {0} /\ PollingEvents \in Nat \ {0}

VARIABLES
    xt,         \* [is_initialized, num_widgets, hooks]: the static variables
    bin,        \* per bin: is it alive, and its xtwindow
    tree,       \* the parent of each of the plugin's widgets
    listeners,  \* the widgets with xt_client_focus_listener
    bereft,     \* history: the widgets that saw a child of theirs destroyed
    xevents,    \* the queue of the Xt display
    left,       \* events that the current batch may still take from it
    socket,     \* per bin: has its GtkSocket the focus, and how many
                \* XEMBED_REQUEST_FOCUS are on their way to it
    clicks      \* clicks so far

xtVars == <<xt, bin, tree, listeners, bereft, xevents, left, socket, clicks>>

Hooks == {"source", "poll", "timer"}
NoBin == [state |-> "none", xtwindow |-> FALSE]

XtInit ==
    /\ xt = [is_initialized |-> FALSE, num_widgets |-> 0, hooks |-> {}]
    /\ bin = [b \in Bins |-> NoBin]
    /\ tree = [c \in Children |-> NoParent]
    /\ listeners = {} /\ bereft = {}
    /\ xevents = <<>> /\ left = 0
    /\ socket = [b \in Bins |-> [focused |-> FALSE, requests |-> 0]]
    /\ clicks = 0

----------------------------------------------------------------------------
(* The plugin's widgets *)

IsWidget(w) == IF w \in Bins THEN bin[w].state = "live" ELSE tree[w] # NoParent

\* The widgets from w up to its form, if t has the parents: the least set
\* with w and the parents of all that it has.
Above(t, w) ==
    {a \in Bins \cup Children :
        \A S \in SUBSET (Bins \cup Children) :
            w \in S /\ (\A c \in S \cap Children : t[c] \in S \cup {NoParent}) => a \in S}

Ancestors(w) == Above(tree, w)

FormOf(w) == CHOOSE b \in Bins : b \in Ancestors(w)
Subtree(w) == {c \in Children \cup {w} : w \in Ancestors(c)}

\* What a widget has selected: the form everything, another one what the
\* listener needs.
Selects(w) == IsWidget(w) /\ (w \in Bins \/ w \in listeners)

Event(t, w, c) == [type |-> t, window |-> w, child |-> c]
Notify(t, c, ws) ==
    LET to == {w \in ws : Selects(w)}
        one == CHOOSE w \in to : TRUE
        two == CHOOSE w \in to \ {one} : TRUE
    IN  CASE to = {}   -> <<>>
          [] to = {one} -> <<Event(t, one, c)>>
          [] OTHER -> <<Event(t, one, c), Event(t, two, c)>>

Busy(w) == \E i \in 1 .. Len(xevents) : w \in {xevents[i].window, xevents[i].child}
Room == Len(xevents) < MaxQueue

CreateChild(c, p) ==
    /\ Room /\ ~IsWidget(c) /\ ~Busy(c) /\ p # c /\ IsWidget(p) /\ FormOf(p) = Home(c)
    /\ tree' = [tree EXCEPT ![c] = p]
    /\ xevents' = xevents \o Notify("CreateNotify", c, {p})
    /\ UNCHANGED <<xt, bin, listeners, bereft, left, socket, clicks>>

\* Within one plugin's window: old and new parent are told.
ReparentChild(c, p) ==
    /\ Room /\ IsWidget(c) /\ IsWidget(p)
    /\ p \notin Subtree(c) /\ FormOf(p) = Home(c) /\ p # tree[c]
    /\ tree' = [tree EXCEPT ![c] = p]
    /\ xevents' = xevents \o Notify("ReparentNotify", c, {tree[c], p})
    /\ UNCHANGED <<xt, bin, listeners, bereft, left, socket, clicks>>

DestroyChild(c) ==
    /\ Room /\ IsWidget(c)
    /\ tree' = [k \in Children |-> IF k \in Subtree(c) THEN NoParent ELSE tree[k]]
    /\ listeners' = listeners \ Subtree(c)
    /\ bereft' = bereft \ Subtree(c)
    /\ xevents' = xevents \o Notify("DestroyNotify", c, {tree[c]})
    /\ UNCHANGED <<xt, bin, left, socket, clicks>>

----------------------------------------------------------------------------
(* The bins *)

\* The toolkit is started once, for all bins, and there may be no display.
xt_client_init == [xt EXCEPT !.is_initialized = TRUE]

\* The shell and its form, with both of the form's handlers.
xt_client_create(b) == listeners' = listeners \cup {b}

gtk_xtbin_realize(b) ==
    /\ xt_client_create(b)
    /\ bin' = [bin EXCEPT ![b] = [state |-> "live", xtwindow |-> TRUE]]

\* The display is hooked into the main loop with the first widget; without a
\* display there is no bin.  gtk_widget_realize is the caller's next step.
\* Sizes are left out.
gtk_xtbin_new(b) ==
    /\ bin[b].state = "none"
    /\ \/ /\ ~xt.is_initialized
          /\ UNCHANGED <<xt, bin, listeners>>
       \/ /\ xt' = [xt_client_init EXCEPT !.num_widgets = @ + 1,
                        !.hooks = IF xt.num_widgets = 0 THEN Hooks ELSE @]
          /\ gtk_xtbin_realize(b)
    /\ UNCHANGED <<tree, bereft, xevents, left, socket, clicks>>

\* GTK may run it more than once for an object.
gtk_xtbin_destroy(b) ==
    IF ~bin[b].xtwindow THEN UNCHANGED <<xt, bin>>
    ELSE /\ bin' = [bin EXCEPT ![b] = [NoBin EXCEPT !.state = "destroyed"]]
         /\ xt' = [xt EXCEPT !.num_widgets = @ - 1,
                             !.hooks = IF xt.num_widgets = 1 THEN {} ELSE @]

\* xt_client_unrealize and xt_client_destroy: with the shell all of the
\* plugin's widgets go.
xt_client_destroy(b) ==
    /\ tree' = [c \in Children |-> IF c \in Subtree(b) THEN NoParent ELSE tree[c]]
    /\ listeners' = listeners \ Subtree(b)
    /\ bereft' = bereft \ Subtree(b)

\* gtk_xtbin_unrealize and gtk_xtbin_destroy
gtk_widget_destroy(b) ==
    /\ bin[b].state \in {"live", "destroyed"}
    /\ gtk_xtbin_destroy(b)
    /\ xt_client_destroy(b)
    /\ socket' = [socket EXCEPT ![b] = [focused |-> FALSE, requests |-> 0]]
    /\ UNCHANGED <<xevents, left, clicks>>

----------------------------------------------------------------------------
(* Events *)

\* As a slip would have it: the root of the tree only.
xt_add_focus_listener_treeOfRoot(ls, w) == ls \cup {w}

\* xt_add_focus_listener_tree: Xt keeps one handler per function and data,
\* whatever is added and removed before.
xt_add_focus_listener_tree(ls, w) == ls \cup Subtree(w)

\* xt_client_focus_listener on e.window: a new child's tree is listened to,
\* and a child's destruction takes the listener of its parent away.
xt_client_focus_listener(e) ==
    IF e.window \notin listeners THEN UNCHANGED <<listeners, bereft>>
    ELSE CASE e.type \in {"CreateNotify", "ReparentNotify"} ->
                 /\ listeners' =
                      IF IsWidget(e.child) /\ (e.type = "CreateNotify" \/ tree[e.child] = e.window)
                      THEN xt_add_focus_listener_tree(listeners, e.child) ELSE listeners
                 /\ UNCHANGED bereft
           [] e.type = "DestroyNotify" -> /\ listeners' = listeners \ {e.window}
                                          /\ bereft' = bereft \cup {e.window}
           [] OTHER -> UNCHANGED <<listeners, bereft>>

\* xt_client_handle_xembed_message: the form gets a focus event of its own.
xt_client_handle_xembed_message(e) ==
    CASE e.type = "XEMBED_FOCUS_IN"  -> <<Event("FocusIn", e.window, e.window)>>
      [] e.type = "XEMBED_FOCUS_OUT" -> <<Event("FocusOut", e.window, e.window)>>
      [] OTHER -> <<>>

\* XEMBED_REQUEST_FOCUS is on its way to the socket of w's bin.
send_xembed_message(w) == socket' = [socket EXCEPT ![FormOf(w)].requests = @ + 1]

\* A click on a widget with a listener, or the focus event of a form
\* (xt_client_event_handler), asks for the focus.
AsksForFocus(e) ==
    \/ e.type = "ButtonRelease" /\ e.window \in listeners
    \/ e.type = "FocusIn" /\ e.window \in Bins

\* XtAppProcessEvent for the first event, by the handlers of its widget.
XtAppProcessEvent ==
    /\ left > 0
    /\ LET e == Head(xevents)
       IN  IF ~IsWidget(e.window)
           THEN /\ xevents' = Tail(xevents)
                /\ UNCHANGED <<listeners, bereft, socket>>
           ELSE /\ xt_client_focus_listener(e)
                /\ xevents' = Tail(xevents) \o xt_client_handle_xembed_message(e)
                /\ IF AsksForFocus(e) THEN send_xembed_message(e.window) ELSE UNCHANGED socket
    /\ left' = IF xevents' = <<>> THEN 0 ELSE left - 1
    /\ UNCHANGED <<xt, bin, tree, clicks>>

\* xt_event_prepare, xt_event_check and xt_event_dispatch
xt_event_dispatch ==
    /\ "source" \in xt.hooks /\ left = 0 /\ xevents # <<>>
    /\ left' = XTBIN_MAX_EVENTS
    /\ UNCHANGED <<xt, bin, tree, listeners, bereft, xevents, socket, clicks>>

xt_event_polling_timer_callback ==
    /\ "timer" \in xt.hooks /\ left = 0 /\ xevents # <<>>
    /\ left' = PollingEvents
    /\ UNCHANGED <<xt, bin, tree, listeners, bereft, xevents, socket, clicks>>

----------------------------------------------------------------------------
(* The user and the socket *)

\* A click goes to the first widget from w upwards that wants to know.
Click(w) ==
    /\ Room /\ clicks < MaxClicks /\ IsWidget(w)
    /\ \E t \in {a \in Ancestors(w) : Selects(a)} :
          /\ \A a \in Ancestors(w) : Selects(a) => a \in Ancestors(t)
          /\ xevents' = Append(xevents, Event("ButtonRelease", t, w))
    /\ clicks' = clicks + 1
    /\ UNCHANGED <<xt, bin, tree, listeners, bereft, left, socket>>

\* The focus goes elsewhere, and the socket tells the form.
FocusLeaves(b) ==
    /\ Room /\ bin[b].state = "live" /\ socket[b].focused
    /\ socket' = [socket EXCEPT ![b].focused = FALSE]
    /\ xevents' = Append(xevents, Event("XEMBED_FOCUS_OUT", b, b))
    /\ UNCHANGED <<xt, bin, tree, listeners, bereft, left, clicks>>

\* GtkSocket takes the focus once, and tells the form when it gets it.
GtkSocket(b) ==
    /\ left = 0 /\ socket[b].requests > 0
    /\ socket' = [socket EXCEPT ![b] = [focused |-> TRUE, requests |-> @.requests - 1]]
    /\ xevents' = IF socket[b].focused THEN xevents
                  ELSE Append(xevents, Event("XEMBED_FOCUS_IN", b, b))
    /\ UNCHANGED <<xt, bin, tree, listeners, bereft, left, clicks>>

XtNext ==
    \/ \E b \in Bins : \/ gtk_xtbin_new(b)
                       \/ gtk_widget_destroy(b)
                       \/ FocusLeaves(b)
                       \/ GtkSocket(b)
    \/ \E c \in Children : \/ \E p \in Bins \cup Children : CreateChild(c, p) \/ ReparentChild(c, p)
                           \/ DestroyChild(c)
    \/ \E w \in Bins \cup Children : Click(w)
    \/ xt_event_dispatch
    \/ xt_event_polling_timer_callback
    \/ XtAppProcessEvent

----------------------------------------------------------------------------
(* Properties *)

\* Clicks are heard.  The display is in the main loop, by all of its hooks,
\* exactly as long as there is a bin, whatever other bins come and go and
\* however often GTK runs the destroy handler of one (gtk_xtbin_new,
\* gtk_xtbin_destroy).  And when all events are worked off, every widget of
\* the plugin listens for clicks, in whatever order widgets were created and
\* moved before their events were seen: unless it, or one above it, has lost
\* a child, for the destruction of a child takes the parent's listener away
\* (xt_client_focus_listener, xt_add_focus_listener_tree).
ClicksAreHeard ==
    /\ xt.hooks = IF \E b \in Bins : bin[b].state = "live" THEN Hooks ELSE {}
    /\ xevents = <<>> =>
          \A w \in Bins \cup Children :
              IsWidget(w) /\ Ancestors(w) \cap bereft = {} => w \in listeners
=============================================================================
