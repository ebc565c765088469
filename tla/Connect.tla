------------------------------- MODULE Connect -------------------------------
(* How a wrapper and the viewer it starts find each other: plugin_init and   *)
(* plugin_exit (src/src/npw-wrapper.c), main and do_main up to the event     *)
(* loop (src/src/npw-viewer.c), rpc_init_client, rpc_init_server and         *)
(* rpc_listen_socket (src/src/rpc.c).  They meet at a socket whose abstract  *)
(* name the wrapper makes up and passes to the viewer on its command line.   *)
(* Several wrappers may be in one browser, and a viewer that was given up    *)
(* may still be there when the next one starts.                              *)
EXTENDS Integers, Sequences

CONSTANTS
  Wrappers,          \* copies of the wrapper that browsers have loaded
  FileOf(_),         \* the base name of the plugin a wrapper stands for
  PidOf(_),          \* the browser process it is in
  VtableOf(_),       \* the methods "wrapper" and "viewer" serve, in order
  NPW_INIT_TIMEOUT,  \* the environment variable, 0 without it
  RPC_INIT_TIMEOUT,  \* the default, here in units of the delay between attempts
  MaxStarts          \* bound on init_count

ASSUME InitTimeoutAssumption == NPW_INIT_TIMEOUT \in Int /\ RPC_INIT_TIMEOUT \in Nat \ {0}

\* The tables are arrays of descriptors, each with a callback.
ASSUME VtableAssumption ==
  \A end \in {"wrapper", "viewer"} :
    LET descs == VtableOf(end)
    IN  /\ Len(descs) \in Nat /\ descs = [i \in 1 .. Len(descs) |-> descs[i]]
        /\ \A i \in 1 .. Len(descs) : descs[i].callback # "NULL"

VARIABLES
  starter,    \* of each wrapper, where plugin_init is and what it has
  viewers,    \* the viewer processes that are there, by <<wrapper, init_count>>
  drawn       \* how often each browser process called random()

connectVars == <<starter, viewers, drawn>>

NoSocket == <<>>

----------------------------------------------------------------------------
(* The table of methods (rpc_map_t) *)

N_ENTRIES_ALLOC == 7

rpc_map_new == [entries |-> <<>>, n_entries_max |-> 0]

_rpc_map_lookup(map, key) == {i \in DOMAIN map.entries : map.entries[i].key = key}

rpc_map_lookup(map, key) ==
  IF _rpc_map_lookup(map, key) = {} THEN "NULL"
  ELSE map.entries[CHOOSE i \in _rpc_map_lookup(map, key) : TRUE].value

\* An entry of the key is replaced; the table grows by blocks.
rpc_map_insert(map, key, value) ==
  LET known == _rpc_map_lookup(map, key)
  IN  IF known # {}
      THEN [map EXCEPT !.entries[CHOOSE i \in known : TRUE].value = value]
      ELSE [entries |-> Append(map.entries, [key |-> key, value |-> value]),
            n_entries_max |-> IF Len(map.entries) < map.n_entries_max THEN map.n_entries_max
                              ELSE map.n_entries_max + N_ENTRIES_ALLOC]

\* A method that another callback serves already is an error.
rpc_connection_add_method_descriptor(r, desc) ==
  LET callback == rpc_map_lookup(r.map, desc.id)
  IN  IF ~r.ok THEN r
      ELSE IF callback = "NULL"
      THEN [r EXCEPT !.map = rpc_map_insert(@, desc.id, desc.callback)]
      ELSE [r EXCEPT !.ok = callback = desc.callback]

\* From the last to the first
rpc_connection_add_method_descriptors(map, descs) ==
  LET add[n \in 0 .. Len(descs)] ==
        IF n = 0 THEN [ok |-> TRUE, map |-> map]
        ELSE rpc_connection_add_method_descriptor(add[n - 1], descs[Len(descs) + 1 - n])
  IN  add[Len(descs)]

----------------------------------------------------------------------------
(* The wrapper *)

\* Mutant: a number of the file and the process is enough.
IdentWithoutRandom(w, init_count, random) == <<FileOf(w), PidOf(w), init_count>>

\* The name of the socket: NPW_CONNECTION_PATH, the file, getpid(),
\* init_count and random(), which nobody seeds.
Ident(w, init_count, random) == <<FileOf(w), PidOf(w), init_count, random>>

\* rpc_exit: the socket is closed, and the table is freed.
rpc_map_destroy(map) == [map EXCEPT !.entries = <<>>, !.n_entries_max = 0]
rpc_exit(connection) == [socket |-> NoSocket, methods |-> rpc_map_destroy(connection.methods)]

\* rpc_connection_new: a socket of its own, no peer, an empty table
rpc_connection_new == [socket |-> NoSocket, methods |-> rpc_map_new]

\* How long to wait for the viewer, as the number of attempts to connect
rpc_init_timeout == IF NPW_INIT_TIMEOUT > 0 THEN NPW_INIT_TIMEOUT ELSE RPC_INIT_TIMEOUT

\* plugin_init forks the viewer and goes on without waiting for it.
Fork(w) ==
  LET n == starter[w].init_count + 1
      r == drawn[PidOf(w)] + 1
  IN  /\ starter[w].pc = "stopped" /\ n <= MaxStarts
      /\ drawn' = [drawn EXCEPT ![PidOf(w)] = r]
      /\ starter' = [starter EXCEPT ![w] =
           [pc |-> "connecting", init_count |-> n, ident |-> Ident(w, n, r),
            attempts |-> rpc_init_timeout, viewer_pid |-> <<w, n>>,
            connection |-> rpc_connection_new]]
      /\ viewers' = [v \in DOMAIN viewers \cup {<<w, n>>} |->
           IF v # <<w, n>> THEN viewers[v]
           ELSE [pc |-> "exec", connection_path |-> Ident(w, n, r), listens |-> FALSE,
                 backlog |-> <<>>, connection |-> rpc_connection_new]]

\* The processes that listen at a name, one that was killed a moment ago too
Servers(ident) == {v \in DOMAIN viewers : viewers[v].listens /\ viewers[v].connection_path = ident}

\* rpc_exit after the last attempt, or any error but a missing server
GivesUp(w) == starter' = [starter EXCEPT ![w].pc = "failed", ![w].attempts = 0,
                                         ![w].connection = rpc_exit(@)]

\* connect() succeeds as soon as the server listens, before it accepts.
ConnectSucceeds(w) ==
  /\ starter[w].pc = "connecting"
  /\ \E v \in Servers(starter[w].ident) :
       /\ viewers[v].backlog = <<>>
       /\ starter' = [starter EXCEPT ![w].pc = "connected", ![w].attempts = 0,
                                     ![w].connection.socket = v]
       /\ viewers' = [viewers EXCEPT ![v].backlog = Append(@, <<w, starter[w].init_count>>)]
  /\ UNCHANGED drawn

\* ECONNREFUSED or ENOENT: it sleeps and tries again.
ConnectRefused(w) ==
  /\ starter[w].pc = "connecting"
  /\ Servers(starter[w].ident) = {}
  /\ IF starter[w].attempts > 1
     THEN starter' = [starter EXCEPT ![w].attempts = @ - 1]
     ELSE GivesUp(w)
  /\ UNCHANGED <<viewers, drawn>>

\* Another error of connect() ends it, at the last attempt as before.
ConnectFails(w) ==
  /\ starter[w].pc = "connecting"
  /\ GivesUp(w)
  /\ UNCHANGED <<viewers, drawn>>

\* The methods, then a listener in the browser's event loop: GLib's, or Xt's
\* if the browser tells its application context; without one the start has
\* failed, and the connection stays.
Listen(w) ==
  LET added == rpc_connection_add_method_descriptors(starter[w].connection.methods,
                                                     VtableOf("wrapper"))
  IN  /\ starter[w].pc = "connected"
      /\ \E listener \in {"GLib", "Xt", "none"} :
           starter' = [starter EXCEPT
             ![w].pc = IF added.ok /\ listener # "none" THEN "ready" ELSE "failed",
             ![w].connection.methods = added.map]
      /\ UNCHANGED <<viewers, drawn>>

\* plugin_exit closes the connection and waits for the viewer, with SIGTERM
\* and then SIGKILL; it does not wait for the end of a process it killed.
PluginExit(w) ==
  LET v == starter[w].viewer_pid
  IN  /\ starter[w].pc \in {"ready", "failed"}
      /\ starter' = [starter EXCEPT ![w].pc = "stopped", ![w].viewer_pid = NoSocket,
                                    ![w].ident = <<>>, ![w].connection = rpc_exit(@)]
      /\ \/ viewers' = [u \in DOMAIN viewers \ {v} |-> viewers[u]]
         \/ v \in DOMAIN viewers /\ viewers' = [viewers EXCEPT ![v].pc = "killed"]
      /\ UNCHANGED drawn

----------------------------------------------------------------------------
(* The viewer *)

Gone(v) == viewers' = [u \in DOMAIN viewers \ {v} |-> viewers[u]]

\* main opens the plugin and do_main tests it (do_test), before Xt and GTK
\* are set up; a plugin that does not pass ends the viewer.
PluginRejected(v) ==
  /\ viewers[v].pc = "exec"
  /\ Gone(v)
  /\ UNCHANGED <<starter, drawn>>

\* rpc_init_server: bind() to the name from the command line, and listen().
rpc_init_server(v) == Servers(viewers[v].connection_path) = {}

\* A name in use ends the viewer.
InitServer(v) ==
  /\ viewers[v].pc = "exec"
  /\ IF rpc_init_server(v)
     THEN viewers' = [viewers EXCEPT ![v].pc = "listening", ![v].listens = TRUE]
     ELSE Gone(v)
  /\ UNCHANGED <<starter, drawn>>

\* The methods, and id_init
AddMethods(v) ==
  LET added == rpc_connection_add_method_descriptors(viewers[v].connection.methods,
                                                     VtableOf("viewer"))
  IN  /\ viewers[v].pc = "listening"
      /\ IF added.ok
         THEN viewers' = [viewers EXCEPT ![v].pc = "ready", ![v].connection.methods = added.map]
         ELSE Gone(v)
      /\ UNCHANGED <<starter, drawn>>

\* rpc_listen_socket: accept() waits for a client, for ever if need be.
rpc_listen_socket(v) ==
  /\ viewers[v].backlog # <<>>
  /\ viewers' = [viewers EXCEPT ![v].connection.socket = Head(viewers[v].backlog)]

\* do_main from there on to its event loop, which watches the socket.
Accept(v) ==
  /\ viewers[v].pc = "ready" /\ viewers[v].connection.socket = NoSocket
  /\ rpc_listen_socket(v)
  /\ UNCHANGED <<starter, drawn>>

\* A viewer may crash; one whose wrapper has closed the connection leaves
\* its event loop; one that was killed is gone in the end.
ViewerEnds(v) ==
  /\ Gone(v)
  /\ UNCHANGED <<starter, drawn>>

----------------------------------------------------------------------------

ConnectInit ==
  /\ starter = [w \in Wrappers |->
       [pc |-> "stopped", init_count |-> 0, ident |-> <<>>, attempts |-> 0,
        viewer_pid |-> NoSocket, connection |-> rpc_connection_new]]
  /\ viewers = <<>>
  /\ drawn = [p \in {PidOf(w) : w \in Wrappers} |-> 0]

ConnectNext ==
  \/ \E w \in Wrappers : \/ Fork(w)
                         \/ ConnectSucceeds(w)
                         \/ ConnectRefused(w)
                         \/ ConnectFails(w)
                         \/ Listen(w)
                         \/ PluginExit(w)
  \/ \E v \in DOMAIN viewers : \/ PluginRejected(v)
                               \/ InitServer(v)
                               \/ AddMethods(v)
                               \/ Accept(v)
                               \/ ViewerEnds(v)

----------------------------------------------------------------------------
(* Properties *)

\* Every method of the program has its callback.
Serves(methods, end) ==
  \A i \in DOMAIN VtableOf(end) :
    rpc_map_lookup(methods, VtableOf(end)[i].id) = VtableOf(end)[i].callback

\* A wrapper talks to the viewer that it forked last and to no other,
\* whatever starts at the same time in the same browser and whatever is left
\* of earlier viewers, and no viewer accepts the wrapper of another; both
\* ends then serve the methods of their tables (plugin_init,
\* rpc_init_client, rpc_listen_socket, rpc_connection_add_method_descriptors).
OwnViewer ==
  /\ \A w \in Wrappers :
       /\ starter[w].connection.socket \in {NoSocket, starter[w].viewer_pid}
       /\ starter[w].pc = "ready" => Serves(starter[w].connection.methods, "wrapper")
  /\ \A v \in DOMAIN viewers :
       /\ viewers[v].connection.socket \in {NoSocket, v}
       /\ viewers[v].pc = "ready" => Serves(viewers[v].connection.methods, "viewer")
=============================================================================
