------------------------------- MODULE Player -------------------------------
(***************************************************************************)
(* The standalone player (npw-player.c): it plays the browser for one      *)
(* plugin per --plugin option, downloads streams with libcurl, whose       *)
(* transfers are driven from the GLib main loop (glibcurl.c), and hands    *)
(* the bytes to the plugin piece by piece.                                 *)
(*                                                                         *)
(* Everything runs in callbacks of one main loop, so one action is one     *)
(* callback: the timeout that starts a plugin, the idle callbacks that     *)
(* open a stream and that commit its buffers, the dispatch of the curl     *)
(* source, the events of the windows.  What the plugin answers to each     *)
(* NPP call, and the progress of each transfer, are free choices.          *)
(***************************************************************************)
EXTENDS Integers, Sequences, FiniteSets, SequencesExt

CONSTANTS
    Apps,          \* the --plugin descriptors of the command line
    Streams,       \* the stream objects that can be allocated
    Uris,          \* subset of {"file", "http", "javascript"}
    MaxBytes,      \* bound: bytes one transfer delivers
    MaxPiece,      \* bound: bytes of one buffer, and of one NPP_WriteReady
    MaxRefusals,   \* bound: times a plugin takes nothing of a buffer
    NoApp

ASSUME PlayerAssumption ==
    /\ IsFiniteSet(Apps) /\ Apps # {} /\ IsFiniteSet(Streams)
    /\ NoApp \notin Apps /\ Uris \subseteq {"file", "http", "javascript"}
    /\ MaxBytes \in Nat /\ MaxPiece \in Nat \ {0} /\ MaxRefusals \in Nat

VARIABLES
    main,          \* "loop": in gtk_main; then "cleanup", "exited", "aborted"
    g_n_plugins,   \* windows that are still to be closed
    plugin,        \* per app: how far plugin_start() or plugin_stop() got
    size,          \* per app: [app, window]: the size known to the app and
                   \* the one the plugin was told, 0 before NPP_SetWindow
    stream,        \* per stream object: its StreamInstance, and what the
                   \* plugin saw of it
    callPerform    \* glibcurl: -1 when curl_multi_perform() is requested

vars == <<main, g_n_plugins, plugin, size, stream, callPerform>>

(* A stream's fields: status holds the STREAM_STATUS_ flags; open is the   *)
(* idle callback on_stream_open_cb (pending, run, failed); curl the easy   *)
(* handle (none, before on_stream_open_cb and after the handle has been    *)
(* cleaned up; fd and timer, while it waits for its socket or for time to  *)
(* pass; done, when its message is to be read; read after that); temp what *)
(* has been written to the temporary file.                                 *)
(* seen, got, file, refusals and balks are the plugin's side: the last     *)
(* call about the stream, the bytes it accepted (a byte is its position),  *)
(* the contents of the file it was given, how often it took nothing, and   *)
(* whether it took less than it was offered or wanted no more.             *)
NoTemp == <<-1>>
FreeStream ==
    [memory |-> "free", app |-> NoApp, notify |-> FALSE, uri |-> "http",
     stype |-> "NP_NORMAL", status |-> {}, open |-> "none", curl |-> "none",
     commit |-> FALSE, buffers |-> <<>>, read |-> 0,
     offset |-> 0, temp |-> NoTemp,
     seen |-> "nothing", got |-> <<>>, file |-> NoTemp, refusals |-> 0,
     balks |-> {}]

stypes == {"NP_NORMAL", "NP_ASFILE", "NP_ASFILEONLY", "NP_SEEK"}
Live(s) == stream[s].memory = "live"

\* glibcurl: the source in the main loop, without transfers and with nothing
\* to perform; a transfer that is added requests curl_multi_perform().
glibcurl_init == callPerform = 0
glibcurl_add == callPerform' = -1

Init ==
    /\ main = "loop"
    /\ g_n_plugins = Cardinality(Apps)
    /\ plugin = [a \in Apps |-> "none"]
    /\ size = [a \in Apps |-> [app |-> 1, window |-> 0]]
    /\ stream = [s \in Streams |-> FreeStream]
    /\ glibcurl_init

----------------------------------------------------------------------------
(* Streams *)

uri_type_from_url(uri) == IF uri = "javascript" THEN "unknown" ELSE uri

\* The calls into the plugin about a stream leave their trace in seen, got
\* and file.  None is made for a plugin without an instance.
NPReason(st) == IF "ERROR" \in st.status THEN "NPRES_NETWORK_ERR" ELSE "NPRES_DONE"
HasInstance(a) == plugin[a] \in {"new_failed", "created", "running"}

g_NPP_StreamAsFile(st) == IF HasInstance(st.app) THEN [st EXCEPT !.file = st.temp] ELSE st
g_NPP_DestroyStream(st) ==
    IF HasInstance(st.app) THEN [st EXCEPT !.seen = "NPP_DestroyStream"] ELSE st
g_NPP_URLNotify(st) ==
    IF HasInstance(st.app) THEN [st EXCEPT !.seen = "NPP_URLNotify"] ELSE st
g_NPP_WriteReady(st, answer) == IF HasInstance(st.app) THEN answer ELSE -1

\* stream_new(): without notify_data the plugin is offered the stream at
\* once, and a refusal (any answer but NPERR_NO_ERROR) frees it again.
stream_new(a, s, notify, uri, accepts, stype) ==
    /\ stream[s].memory = "free"
    /\ stream' = [stream EXCEPT ![s] =
           IF ~notify /\ ~accepts
           THEN [FreeStream EXCEPT !.memory = "freed", !.app = a, !.seen = "refused"]
           ELSE [FreeStream EXCEPT
                    !.memory = "live", !.app = a, !.notify = notify, !.uri = uri,
                    !.stype  = IF notify THEN "NP_NORMAL" ELSE stype,
                    !.status = IF notify THEN {} ELSE {"ACTIVE"},
                    !.seen   = IF notify THEN "nothing" ELSE "NPP_NewStream",
                    !.open   = "pending"]]

\* As a slip would have it: the easy handle stays in the multi handle.
stream_destroyKeepsHandle(st) ==
    [g_NPP_DestroyStream(st) EXCEPT !.memory = "freed", !.buffers = <<>>, !.temp = NoTemp]

\* stream_destroy(): the transfer is ended, the buffers are freed, and the
\* plugin is told only if the stream was destroyed on purpose.
stream_destroy(st) ==
    LET told   == "DESTROY" \in st.status
        asFile == st.stype \in {"NP_ASFILE", "NP_ASFILEONLY"}
        given  == IF told /\ asFile THEN g_NPP_StreamAsFile(st) ELSE st
        closed == IF told THEN g_NPP_DestroyStream(given) ELSE given
    IN  [IF told /\ st.notify THEN g_NPP_URLNotify(closed) ELSE closed EXCEPT
           !.memory  = "freed",
           !.curl    = "none",
           !.buffers = <<>>,
           !.temp    = NoTemp]

stream_commit(st) == [st EXCEPT !.commit = TRUE]

stream_schedule_destroy(st, now) ==
    stream_commit([st EXCEPT !.status = @ \cup {IF now THEN "DESTROY" ELSE "FINISH"}])

stream_use_npp_write(st) ==
    ~(st.stype = "NP_ASFILEONLY" /\ uri_type_from_url(st.uri) = "file")

\* Where NPP_WriteReady is not asked, more than any buffer holds.
stream_write_ready(st, answer) ==
    IF stream_use_npp_write(st) THEN g_NPP_WriteReady(st, answer) ELSE MaxPiece

stream_buffer_new(from, n) == [from |-> from, size |-> n, offset |-> 0]

\* NPP_Write hands over the bytes of buffer b that follow its offset.
Bytes(b, n) == [i \in 1..n |-> b.from + b.offset + i]

\* stream_write(): the temporary file gets the bytes before the plugin says
\* how many of them it takes.
stream_write(st, b, len, taken) ==
    LET toFile == st.stype \in {"NP_ASFILE", "NP_ASFILEONLY"} /\ st.temp # NoTemp
    IN  [st EXCEPT
           !.temp = IF toFile THEN @ \o Bytes(b, len) ELSE @,
           !.got  = IF stream_use_npp_write(st) /\ taken > 0
                    THEN @ \o Bytes(b, taken) ELSE @,
           !.seen = IF stream_use_npp_write(st) THEN "NPP_Write" ELSE @,
           !.balks = IF taken < len THEN @ \cup {"short"} ELSE @]

\* As a slip would have it: the rest of a buffer that was taken in part is
\* dropped with it.
ConsumeDropsTheRest(st, taken) ==
    IF taken <= 0 THEN st
    ELSE [st EXCEPT !.buffers = Tail(@), !.offset = @ + taken]

\* What is taken of the first buffer moves its offset; the buffer goes when
\* it is used up, and the stream's offset moves only then.
Consume(st, taken) ==
    LET b == Head(st.buffers)
    IN  IF taken <= 0 THEN st
        ELSE IF b.offset + taken >= b.size
        THEN [st EXCEPT !.buffers = Tail(@), !.offset = @ + taken]
        ELSE [st EXCEPT !.buffers[1].offset = @ + taken]

\* The end of on_stream_commit_cb: the source goes when there is nothing
\* more to hand over, and with it the stream if it is to be destroyed.
Settle(st) ==
    LET t == IF st.buffers = <<>> /\ "FINISH" \in st.status
             THEN [st EXCEPT !.status = @ \cup {"DESTROY"}] ELSE st
    IN  IF "DESTROY" \in t.status
        THEN stream_destroy([t EXCEPT !.commit = FALSE])
        ELSE [t EXCEPT !.commit = (t.buffers # <<>>)]

\* The plugin refuses a stream it is offered late: the source goes, the
\* stream stays (force_destroy without STREAM_STATUS_DESTROY).
OfferRefused(s) ==
    /\ "ACTIVE" \notin stream[s].status
    /\ stream' = [stream EXCEPT ![s].commit = FALSE, ![s].seen = "refused"]

\* on_stream_commit_cb with a buffer: the plugin accepts the stream if it
\* has not yet (as stype), says how much it wants, and takes some of it.
HandOver(s, stype, answer, taken) ==
    LET st == [stream[s] EXCEPT
                  !.stype  = IF "ACTIVE" \in stream[s].status THEN @ ELSE stype,
                  !.seen   = IF "ACTIVE" \in stream[s].status THEN @ ELSE "NPP_NewStream",
                  !.status = @ \cup {"ACTIVE"}]
        b  == Head(st.buffers)
        ready == stream_write_ready(st, answer)
        len == IF ready < b.size - b.offset THEN ready ELSE b.size - b.offset
    IN  /\ ready > 0 => IF stream_use_npp_write(st) THEN taken <= len ELSE taken = len
        /\ (taken <= 0 /\ ready >= 0) => st.refusals < MaxRefusals
        /\ LET w == stream_write(st, b, len, taken)
               t == IF ready < 0 THEN [st EXCEPT !.status = @ \cup {"DESTROY"},
                                                      !.balks = @ \cup {"unwanted"}]
                    ELSE IF ready = 0 THEN [st EXCEPT !.refusals = @ + 1]
                    ELSE IF taken < 0 THEN [w EXCEPT !.status = @ \cup {"ERROR", "DESTROY"}]
                    ELSE IF taken = 0 THEN [w EXCEPT !.refusals = @ + 1]
                    ELSE Consume(w, taken)
           IN  stream' = [stream EXCEPT ![s] = Settle(t)]

on_stream_commit_cb(s) ==
    /\ main = "loop"
    /\ Live(s) /\ stream[s].commit
    /\ \/ /\ stream[s].buffers = <<>>
          /\ stream' = [stream EXCEPT ![s] = Settle(@)]
       \/ /\ stream[s].buffers # <<>>
          /\ \/ OfferRefused(s)
             \/ \E stype \in IF "ACTIVE" \in stream[s].status
                             THEN {stream[s].stype} ELSE stypes,
                   answer \in -1..MaxPiece :
                   \E taken \in IF answer <= 0 THEN {0} ELSE -1..answer :
                       HandOver(s, stype, answer, taken)
    /\ UNCHANGED <<main, g_n_plugins, plugin, size, callPerform>>

\* on_stream_open_cb: a temporary file for a remote stream that the plugin
\* wants as a file; then the transfer is handed to glibcurl.  Where it
\* returns early the stream stays as it is, for good.
on_stream_open_cb(s) ==
    /\ main = "loop"
    /\ Live(s) /\ stream[s].open = "pending"
    /\ LET st == stream[s]
           asFile == st.stype \in {"NP_ASFILE", "NP_ASFILEONLY"}
           tempFile == asFile /\ uri_type_from_url(st.uri) # "file"
       IN  \/ /\ st.stype = "NP_SEEK" \/ tempFile
              /\ stream' = [stream EXCEPT ![s].open = "failed"]
              /\ callPerform' = callPerform
           \/ /\ st.stype # "NP_SEEK"
              /\ stream' = [stream EXCEPT ![s].open = "run", ![s].curl = "timer",
                                          ![s].temp = IF tempFile THEN <<>> ELSE @]
              /\ glibcurl_add
    /\ UNCHANGED <<main, g_n_plugins, plugin, size>>

----------------------------------------------------------------------------
(* glibcurl.c: the source that drives the transfers *)

Transfers == {s \in Streams : Live(s) /\ stream[s].curl \in {"fd", "timer"}}

\* The transfers whose sockets are polled: those that curl_multi_fdset() names.
registerUnregisterFds == {s \in Transfers : stream[s].curl = "fd"}

\* prepare() and check(): the source is dispatched when a perform has been
\* requested or when one of the sockets libcurl waits for has an event.
\* That the poll has timed out is not asked.
check == callPerform = -1 \/ registerUnregisterFds # {}

\* on_stream_read_cb for n bytes
on_stream_read_cb(st, n) ==
    stream_commit([st EXCEPT !.buffers = Append(@, stream_buffer_new(st.read, n)),
                             !.read = @ + n])

\* What one curl_multi_perform() may do to a transfer: read a piece of n
\* bytes or nothing, and end (with or without an error), or wait for its
\* socket or for time to pass.  libcurl cannot handle javascript: URLs.
Progress == [n : 0..MaxPiece, then : {"fd", "timer", "done"}]
CanPerform(st, p) == p.n <= IF st.uri = "javascript" THEN 0 ELSE MaxBytes - st.read
Perform(st, p) ==
    [IF p.n = 0 THEN st ELSE on_stream_read_cb(st, p.n) EXCEPT !.curl = p.then]

\* As a slip would have it: the message of a transfer is read, and the
\* stream waits for more.
on_stream_close_cbForgets(st, understood) == [st EXCEPT !.curl = "read"]

\* on_stream_close_cb for one finished transfer: a javascript: URL is
\* answered with the location of the object (when it can be made out), and
\* a stream that has neither started nor anything to start with is in
\* error.  The result of the transfer is not asked.
on_stream_close_cb(st, understood) ==
    LET js == IF "ACTIVE" \notin st.status /\ st.uri = "javascript" /\ understood
              THEN on_stream_read_cb(st, 1) ELSE st
        e  == IF "ACTIVE" \notin js.status /\ js.buffers = <<>>
              THEN [js EXCEPT !.status = @ \cup {"ERROR"}] ELSE js
    IN  stream_schedule_destroy([e EXCEPT !.curl = "read"], FALSE)

\* dispatch(): one transfer after the other, then the callback for those
\* that are done.
dispatch ==
    /\ main = "loop"
    /\ check
    /\ \E now \in [Transfers -> Progress], understood \in BOOLEAN :
          LET done == {s \in Transfers : now[s].then = "done"}
          IN /\ understood => \E s \in done : stream[s].uri = "javascript"
             /\ \A s \in Transfers : CanPerform(stream[s], now[s])
             /\ stream' = [s \in Streams |->
                    IF s \notin Transfers THEN stream[s]
                    ELSE IF s \in done THEN on_stream_close_cb(Perform(stream[s], now[s]), understood)
                    ELSE Perform(stream[s], now[s])]
             /\ callPerform' = Cardinality(Transfers \ done)
    /\ UNCHANGED <<main, g_n_plugins, plugin, size>>

----------------------------------------------------------------------------
(* NPN_GetURLNotify without a target, from plugin code that one of the     *)
(* callbacks runs.  A NULL notifyData makes it a stream like the first.    *)

g_NPN_GetURLNotify(a) ==
    /\ main = "loop"
    /\ plugin[a] = "running"
    /\ \E s \in Streams, notify \in BOOLEAN, uri \in Uris,
          accepts \in BOOLEAN, stype \in stypes :
          /\ notify => accepts /\ stype = "NP_NORMAL"
          /\ stream_new(a, s, notify, uri, accepts, stype)
    /\ UNCHANGED <<main, g_n_plugins, plugin, size, callPerform>>

----------------------------------------------------------------------------
(* The life of a plugin *)

\* g_NPP_SetWindow: nothing without an instance; otherwise the plugin's
\* window is created or resized.
g_NPP_SetWindow(a, width) ==
    size' = [size EXCEPT ![a] = [app |-> width,
                                 window |-> IF HasInstance(a) THEN width ELSE @.window]]

\* player_app_run() with plugin_start(): each step may fail, and then the
\* main loop is told to quit and the plugin stays where it got to.  That no
\* plugin can be found ends the process (g_error).
Start(a, reached, quits) ==
    /\ plugin' = [plugin EXCEPT ![a] = reached]
    /\ main' = IF quits THEN "cleanup" ELSE main
    /\ UNCHANGED <<g_n_plugins, callPerform>>

player_app_run(a) ==
    /\ main = "loop"
    /\ plugin[a] = "none"
    /\ \/ /\ main' = "aborted"
          /\ UNCHANGED <<g_n_plugins, plugin, size, stream, callPerform>>
       \/ /\ \E reached \in {"init_failed", "initialized", "new_failed"} :
                Start(a, reached, TRUE)
          /\ UNCHANGED <<size, stream>>
       \/ /\ size' = [size EXCEPT ![a].window = size[a].app]
          /\ \/ \* no src, or NPP_SetWindow fails
                /\ \E quits \in BOOLEAN : Start(a, IF quits THEN "created" ELSE "running", quits)
                /\ UNCHANGED stream
             \/ \E s \in Streams, uri \in Uris \ {"javascript"},
                   accepts \in BOOLEAN, stype \in stypes :
                   /\ ~accepts => stype = "NP_NORMAL"
                   /\ stream_new(a, s, FALSE, uri, accepts, stype)
                   /\ Start(a, IF accepts THEN "running" ELSE "created", ~accepts)

\* The window manager resizes the window of the app.
on_configure_event_cb(a) ==
    /\ main = "loop"
    /\ \E width \in 1..2 : /\ width # size[a].app
                           /\ g_NPP_SetWindow(a, width)
    /\ UNCHANGED <<main, g_n_plugins, plugin, stream, callPerform>>

\* A window is closed.
on_window_destroy_cb ==
    /\ main = "loop"
    /\ g_n_plugins' = g_n_plugins - 1
    /\ main' = IF g_n_plugins = 1 THEN "cleanup" ELSE main
    /\ UNCHANGED <<plugin, size, stream, callPerform>>

\* Ctrl-Q or Ctrl-Escape counts as one window closed, and closes none.
on_key_press_event_cb(key, control) ==
    /\ key \in {"Escape", "Q", "q"} /\ control
    /\ on_window_destroy_cb

\* plugin_stop(): NPP_SetWindow without a window, NPP_Destroy, NP_Shutdown.
\* Each is called whenever the plugin has the function, whether or not there
\* is an instance; a plugin that was never looked up is not stopped.
g_NPP_Destroy(p) == IF p = "none" THEN p ELSE "destroyed"
g_NP_Shutdown(p) == IF p = "none" THEN p ELSE "stopped"
plugin_stop(p) == g_NP_Shutdown(g_NPP_Destroy(p))

\* The library stays loaded.
plugin_destroy(p) == "freed"

\* Only the app itself if it never found a plugin.
player_app_destroy(p) == IF p = "none" THEN p ELSE plugin_destroy(p)

\* After gtk_main(): every app is stopped and freed.
player_app_quit ==
    /\ main = "cleanup"
    /\ plugin' = [a \in Apps |-> player_app_destroy(plugin_stop(plugin[a]))]
    /\ size' = [a \in Apps |-> [size[a] EXCEPT !.window = 0]]
    /\ main' = "exited"
    /\ UNCHANGED <<g_n_plugins, stream, callPerform>>

Next ==
    \/ \E a \in Apps : \/ player_app_run(a)
                       \/ g_NPN_GetURLNotify(a)
                       \/ on_configure_event_cb(a)
    \/ \E s \in Streams : \/ on_stream_open_cb(s)
                          \/ on_stream_commit_cb(s)
    \/ dispatch
    \/ on_window_destroy_cb
    \/ \E key \in {"q", "x"}, control \in BOOLEAN : on_key_press_event_cb(key, control)
    \/ player_app_quit

Spec == Init /\ [][Next]_vars

(* The main loop runs every idle callback that stays ready.                *)
Fairness == \A s \in Streams : WF_vars(on_stream_open_cb(s)) /\ WF_vars(on_stream_commit_cb(s))

FairSpec == Spec /\ Fairness

----------------------------------------------------------------------------
(* Properties *)

TypeOK ==
    /\ main \in {"loop", "cleanup", "exited", "aborted"}
    /\ g_n_plugins \in 0..Cardinality(Apps)
    /\ plugin \in [Apps -> {"none", "init_failed", "initialized", "new_failed",
                            "created", "running", "freed"}]
    /\ \A s \in Streams :
          /\ stream[s].memory \in {"free", "live", "freed"}
          /\ stream[s].status \subseteq {"ACTIVE", "ERROR", "FINISH", "DESTROY"}
          /\ stream[s].curl \in {"none", "fd", "timer", "read"}
          /\ stream[s].read \in 0..(MaxBytes + 1)
          /\ \A i \in 1..Len(stream[s].buffers) :
                stream[s].buffers[i].offset < stream[s].buffers[i].size
    /\ callPerform \in -1..Cardinality(Streams)

\* A StreamInstance that has been freed is not the data of an idle callback
\* that is still to run, nor the WRITEDATA of a transfer that libcurl still
\* drives (stream_destroy, on_stream_commit_cb).
NoDanglingStream ==
    \A s \in Streams : stream[s].memory = "freed" =>
        /\ ~stream[s].commit
        /\ stream[s].open # "pending"
        /\ stream[s].curl = "none"

\* The plugin gets the bytes of a stream in their order, each once; it is
\* told that the stream is done (NPRES_DONE) only after the last byte that
\* was read, unless it wanted no more (on_stream_commit_cb); and the
\* temporary file that NPP_StreamAsFile names holds the stream, as long as
\* the plugin took all it was offered: what it does not take is written to
\* the file again with the next offer (stream_write).
DeliveredInOrder ==
    \A s \in Streams :
        LET st == stream[s]
        IN  /\ st.got = [i \in 1..Len(st.got) |-> i]
            /\ (/\ st.seen \in {"NPP_DestroyStream", "NPP_URLNotify"}
                /\ NPReason(st) = "NPRES_DONE"
                /\ "unwanted" \notin st.balks
                /\ stream_use_npp_write(st)) => Len(st.got) = st.read
            /\ st.file # NoTemp /\ st.balks = {} => st.file = [i \in 1..st.read |-> i]

\* A transfer that has ended leads to the end of its stream, with all that
\* is still to be handed over: unless the plugin refuses a stream that is
\* offered late, which then stays for good.
TransfersEndStreams ==
    \A s \in Streams :
        stream[s].curl = "read" ~> \/ stream[s].memory = "freed"
                                   \/ stream[s].seen = "refused"
                                   \/ main # "loop"
=============================================================================
