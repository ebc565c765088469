# A TLA+ verification of nspluginwrapper

nspluginwrapper lets a browser use an NPAPI plugin that lives in another
process.  The *wrapper* is a shared library the browser loads in place of the
plugin; the *viewer* is the process that loads the real plugin.  They are
connected by one Unix socket and a synchronous RPC protocol.  NPAPI was
designed for one process with one thread, so nearly all the difficulty lies in
making two processes look like one thread, and in surviving the loss of one.

Around this core are the tool that installs wrappers, a small stand-alone player,
and a widget for plugins that use Xt.

This directory models the system in TLA+, checks it with TLC on small instances,
and proves with TLAPS, for every instance, its central claims: wrapper and viewer
take turns and together behave as one thread, there is never more than one viewer,
the identifiers and streams of the two ends agree, and no memory of an instance is
used after it was freed, but for the places the code is known to do it.

## Inventory

| Part | State | Operations | Interacts with |
|---|---|---|---|
| RPC connection (`rpc.c`) | status, depth counters, `is_sync`, `pending_sync_depth`, error callback, reference count | invoke, get_args, send_reply, wait_for_reply, dispatch, sync, end_sync, dispatch_pending_sync, event sources | everything; calls back into its users on errors |
| Viewer main loop (`npw-viewer.c`, `do_main`) | `g_is_running` | poll, sync with the wrapper, dispatch, end of sync | GLib's context, RPC |
| Viewer start, loss, restart (`npw-wrapper.c`) | `g_plugin`, `g_rpc_connection`, the two event sources, `plugin_killed` | plugin_init, plugin_exit, plugin_kill, plugin_start, NP_Initialize, NP_Shutdown, NPP_New, NPP_Destroy | RPC error callback, browser |
| Connection set-up (`rpc.c`, `npw-wrapper.c`, `npw-viewer.c`) | socket names, listening and connected sockets, method tables | rpc_init_client with retries, rpc_init_server, rpc_listen_socket, accept | fork, kernel |
| Argument marshalling (`rpc.c`, `npw-rpc.c`) | a buffer, the stream | send_args, recv_args, one marshaler per NPAPI type | RPC, object bridge, ids |
| NPN and NPP calls (`npw-wrapper.c`, `npw-viewer.c`) | none of their own | a caller and a handler per method | marshalling |
| NPRuntime bridge (`npruntime.c`) | stubs, proxies, owners | create, look up, destroy, invalidate, deactivate | RPC (nested calls), recovery |
| Instances, streams, timers, asynchronous calls (`npw-viewer.c`, `npw-wrapper.c`, `npw-common.c`, `utils.c`) | instances and streams by id on both sides, reference counts, timers, queued calls | NPP_New, NPP_Destroy, NewStream, Write, DestroyStream, schedule, unschedule, run | GLib loop, RPC |
| Windows (`npw-viewer.c`) | window of an instance, Xt's source | SetWindow; prepare, check, dispatch; event handlers | X server, Xt, GTK |
| Xt widget (`gtk2xtbin.c`) | widgets, hooks in the main loop, focus listeners | new, realize, destroy, XEMBED messages | X server, Xt, GTK |
| Identifier cache (`npw-viewer.c`) | a bounded table | find, reserve, add, invalidate | RPC |
| LONG64 thunks (`npw-wrapper.c`) | a guess about the browser, copies of streams | one conversion per NPP call | browser |
| Installer (`npw-config.c`) | wrapper files | install, update, remove, and their automatic forms | file system, dlopen, viewers |
| Player (`npw-player.c`, `glibcurl.c`) | apps, plugins, streams, windows | command line; start, stop; open, commit, close; NPN functions | GTK, libcurl, the plugin |

What is hard in it, and what must be true:

* *Interleaving.*  Both ends may start something at the same moment: a call of
  the browser crosses a request of the viewer for its turn.  At most one of the
  two may ever run code of the browser or of the plugin.
* *Nesting.*  Calls nest without bound in both directions and replies carry no
  identification.  A reply must reach the call it answers, and nobody may wait
  for ever.
* *Failure.*  Either process may die at any point, handlers may fail, answers
  may come too late.  Counters, the status of the connection and the event
  sources must stay consistent on every error path, and no `assert` may fail.
* *Recovery.*  Frames of a lost connection may still be on the browser's stack
  when a new viewer is started.  There must never be two viewers, no connection
  may be freed while a function uses it, and new pages must get a new viewer.
* *Two descriptions of one thing.*  Argument lists are written by hand at the
  caller and at the handler, type descriptors at the sender and at the receiver,
  and structures are laid out twice.  Each pair must agree, at every size and for
  every NULL.
* *Memory that callbacks free.*  NPP_Destroy may come inside any call of the
  plugin, from a timer, or between a timer and its callback; reference counts are
  kept by hand.
* *Two event loops in one.*  The viewer drives Xt from GLib, with a private word
  of Xt's context, a polling interval and a bounded dispatch.
* *Files.*  A run of the installer may be killed at any point, and root's and
  users' wrappers hide each other.

`PROJECT.json` lists every component with its status, every hazard at the line
where it bites, the map from definitions to source lines and the finding.

## Modules

| Module | What it is |
|---|---|
| `RpcSync` | the connection and the SYNC handshake, both ends, with faults |
| `SharedThread` | abstract specification: one thread, calls last in first out, loops that take turns |
| `DataFacts` | lemmas about sequences, least numbers and recursive definitions that the proofs share |
| `RpcSyncProofs` | theorems about `RpcSync`: types, control, matching of replies, counters, refinement of `SharedThread`; and about `Connect` |
| `Recovery` | the life of viewers and connections in the wrapper |
| `ViewerInfo` | the viewer run for the plugin's name and formats, and the parser of its output |
| `RecoveryProofs` | theorems about `Recovery`, `ViewerInfo` and `Installer` |
| `Connect` | how wrappers and their viewers find each other |
| `NPObjects`, `NPObjectsProofs` | script objects shared by the two ends: stubs, proxies, reference counts, and theorems about them |
| `Marshal` | senders and receivers of every type, as operators on the stream |
| `NpapiCalls` | what a caller and a handler are; the list of methods |
| `NpnCalls`, `NppCalls` | the calls of the plugin to the browser, and of the browser to the plugin |
| `RpcMethods` | one call of any method from the caller's arguments to its results |
| `Thunks` | the layer for a browser with 64-bit longs in its NPAPI structures |
| `Identifiers`, `IdentifiersProofs` | the viewer's cache of NPIdentifiers, and theorems about it |
| `Instances`, `InstancesProofs` | instances, streams, timers, asynchronous calls, owned objects, and theorems about them |
| `Windows` | windows of instances and the Xt source in the viewer's main loop |
| `XtProbe` | the search for Xt's private counter of inputs |
| `WindowsProofs` | theorems about `Windows` and `XtProbe` |
| `PluginFiles`, `Installer` | what ELF files and viewers are; the installation tool |
| `Player` | plugins, streams and windows of the player, driven by its main loop and libcurl |
| `PlayerPlugins`, `PlayerMain`, `PlayerBrowser` | its choice of a plugin, its command line, its NPN functions |
| `XtBin` | the Xt widget for GTK |
| `PlayerProofs` | theorems about `Player`, `PlayerPlugins`, `PlayerMain`, `PlayerBrowser` and `XtBin` |
| `MC...` | instances for TLC: values of constants, symmetry, parts |

Components that do not share state are checked in one run when they belong to
the same program or to the same calls.  Such an MC module has a variable `part`
that is chosen in the initial state; only the actions of that part are taken, and
the variables of the others keep their values.  The parts are: in `MCRecovery`
the viewers and the plugin's information; in `MCRpcMethods` the calls, the thunks
and the connection; in `MCPlayer` the streams, the choice of a plugin, the
command line, the NPN functions and the widget; in `MCWindows` the windows and
the probe.

### RpcSync

Each process is one thread; its state is the sequence of open frames of rpc.c,
innermost last.  A frame of kind `invoke`, `rpc_sync`, `dispatch_sync` or
`pending_sync` waits in `_rpc_dispatch_until` for one tag; a frame of kind
`handle` runs a method callback; `main_loop` is the viewer's
`g_main_context_dispatch`.  `dispatch_sync` and `pending_sync` are the same
function, `_rpc_dispatch_sync`, called from the event source that watches the
socket or from the one that answers a deferred request.  An empty stack is the
browser running, or the viewer in `poll`.

The variables `status`, `dispatch_depth`, `invoke_depth`, `handle_depth`,
`pending_sync_depth` and `is_sync` are the fields of `struct rpc_connection`.
`chan[p]` holds what was sent to `p` and not read; messages are whole, except a
call whose sender died between its header and its arguments (`HEADER`), because
the code flushes the two separately.  Methods and arguments are abstract: a
message carries a method so that replies can be told apart in the properties,
although a real MESSAGE_REPLY carries none.

One action stands for one handler: everything from the read of a tag to the
next read or return.  `Invoke` is `rpc_method_invoke` up to the wait;
`DispatchCall` is `_rpc_dispatch` up to the callback's `rpc_method_get_args`;
`SendReply` is its end.  Error paths are actions of their own and go through
`Fail`, which does what the code does with the error of the frame on top of the
stack: `rpc_error` for `invoke`, `rpc_sync` and `rpc_dispatch`; nothing but the
removal of the source for `_rpc_dispatch_sync`.  `RpcError` includes the error
callback of each end: `plugin_kill_cb` detaches the event sources and blocks the
wrapper in `plugin_exit` until the viewer is gone (`Up`), `rpc_error_callback_cb`
ends the viewer's main loop.

Faults are a constant: `"crash"` (either process, at any time),
`"handler_error"` (a callback returns an error of the kind that is sent as
MESSAGE_FAILURE) and `"timeout"` (`rpc_message_timeout` passes without a
message).  The model has no clock, so a timeout may happen whenever a frame
waits and nothing has arrived.  Timeouts of a send on a full socket are not
modelled.  The code calls `send` without MSG_NOSIGNAL; a process that SIGPIPE
ends because its peer has died is a crash of the model.

The browser may run its event loop from inside a method callback, as Chromium
does: `Polling` allows the socket's source to be dispatched there unless it is
being dispatched already, the rule GLib follows.

### SharedThread

What NPAPI promises: one thread, calls on a stack, and a current event loop that
changes only when no call is open.  `RpcSync` maps to it by interleaving the
`invoke` frames of both ends, starting with the end whose loop is at the bottom.

### Recovery

The browser's thread and all viewers of its life.  A connection names its
viewer; connections that nothing refers to are reused, so a constant number of
them is enough.  The functions `plugin_exit`, `plugin_kill`, `plugin_init`,
`plugin_start` are operators on the record of the wrapper's static variables and
what they own; the browser's calls and the ends of waits are the actions.  What
happens on a connection is taken from RpcSync's level: a call is a frame, the
viewer may call back, a wait may end with the reply or with an error.  The error
callback of a connection stays registered, as
`rpc_connection_set_error_callback` keeps it.

An error of a viewer's turn (`SyncFailed`) is treated as `_rpc_dispatch_sync`
treats it: the source is removed and the status is not touched.

Left out: the modes without a viewer (the wrapper as its own plugin, direct
execution) and the variant of the event sources for Xt.  NP_Shutdown is taken
to come after the last instance, as NPAPI requires, and the browser does not use
a plugin whose NP_Initialize failed.

### NPObjects

An object lives at one end.  Each time it is sent, `CreateStub` enters it into
`g_stubs` under a fresh id and the receiver makes a proxy with that id in
`g_proxies`; a proxy is sent back as its id.  `heap[e]` holds, for each end, the
reference counts, both tables, the valid proxies and the id counter, and three
fields that are not in the code: the references the browser's or the plugin's own
code has (`owned`), those that nobody will ever release (`lost`), and the proxies
that were `crossed`.  A proxy is crossed when one of another viewer with its id is
destroyed or invalidated: that removes the entry of both, and the stub that is
destroyed is the new viewer's.
`SendNPObject` and `RecvNPObject` are the two marshalers of npw-rpc.c with their
`pass_ref` case; the other functions of npruntime.c are operators on the two
heaps.  A proxy is named by the viewer (`gen`) and the stub id it was made with,
which is how the model tells apart what the code cannot: the stub ids of a
restarted viewer start from 1 again.

The actions are what the code at an end may do when it has control (`Control`):
create, retain, release, invalidate, call and return.  A method is the number of
objects that go with the call and whether the reply brings one; every NPClass and
NPN method is one definition.  Strings, numbers and identifiers are left out.  A
message is sent and read in one step, which `WrapperAndViewerTakeTurns` justifies:
nothing runs in between.  The `Deallocate` call of a last release is part of the
release; what the plugin's own deallocate function does comes after it, as steps
of the plugin.  A call to an RPC on a dead viewer ends in `plugin_kill`, so
`PluginKill` is an action of its own and the RPCs wait for it; the resulting
states are the same.  When a handler of the browser returns to a viewer that is
gone, its result is lost or converted in vain, and the error callback may run
once more (disagreement 3 below).

`g_hash_table_foreach` over `g_stubs` with a callback that removes entries is
undefined in GLib; `Deactivate` destroys any non-empty part of the stubs, and the
references of the others are `lost`.

Left out: `npobject_register` and the invalidation of plugin objects in
NPP_Destroy, which are in `Instances`; NP_Shutdown, which resets the tables
without invalidating the proxies.

### Marshal, NpapiCalls, NpnCalls, NppCalls, RpcMethods

`Marshal` has one sender and one receiver per type, as operators from a writer to
a writer and from a reader to a reader.  The stream is a sequence of tokens, words
of 4 bytes or single bytes, so that alignment and the order of fields matter and a
receiver that asks for the wrong one has lost its place.  Arguments have sizes
around that of the buffer, and every receiver records what it has allocated and
with which allocator.

A caller (`g_X` and `invoke_X`) is a record of the types it sends, its early
returns, the types it expects back, its value on failure and what it frees; a
handler (`handle_X` and the `g_X` it calls) is a record of the types it reads, the
conversions, the results and what it frees.  `NpnCalls` and `NppCalls` have one
pair for each remote method.  `RpcMethods` runs any of them: `Invoke`, `GetArgs`,
`Reply` or `Fail`, `WaitForReply`, with the sender dying between any two tokens
(`Die`).  The receiver's tables of ids decide what happens to an id that is not
known any more.

### Connect, ViewerInfo

`Connect` is `plugin_init` and `rpc_init_client` on one side, `rpc_init_server`,
the registration of methods and `accept` on the other, a system call at a time,
for several wrappers of one browser and viewers that were given up before.
Delays are counted in attempts.  `ViewerInfo` is `do_test` and `do_info` of the
viewer, the pipe, and the wrapper's loop over `fgets`, where a buffer of 3
characters stands for one of 256: lines are shorter than it, fill it and exceed it.
A word and a number, whoever prints them, is one character with the number in it: a
line of the plugin's own library with one is a tag for `sscanf`, and what comes behind it
is read as a string and dropped.

### Thunks

Structures are sequences of words, laid out twice, with two words for a 64-bit
long.  A browser of either kind makes calls in any order; the layer guesses which
kind it is at the first call that shows it.  A window may be NULL or lack its ws_info,
which the layer follows without a look: `Crash` is the end of the browser's process.  The
plugin may refuse a stream, whose copy is then left behind.

### Identifiers

`cached_NPN_*` with the table behind them.  A call that misses waits for the
browser on a stack, and any of the others may run and empty the table meanwhile.
The browser interns values; the model's `atoms` is what it has given out.  Any
identifier may be asked for its name or its integer.  Asking for the name of an
integer makes the wrapper's marshaler refuse NULL (`npw-rpc.c:1381`), which ends the
connection (`ReplyWithoutName`) and then, in `npidentifier_cache_add_string`, the
viewer.  Asking for the integer of a name gets some number, which is filed for the name
(`npw-viewer.c:3033` says "the behavior is undefined"): `undefined` remembers that the
plugin has done so, and the properties speak of plugins that have not.

### Instances

`stack` holds the calls under way of both processes; who is called last has
control.  In the viewer each `PluginInstance` has its reference count, validity
and timers; `sources` and `async` are what GLib will call.  Every NPP function is
a call and a return, and between the two anything may be called, NPP_Destroy
included: NPP_Print's return looks at the instance, NPP_NewStream's at the stream.
A source has a key, which is the timer's id, or beyond all ids if the timer was
scheduled inside NPP_New, where ids are given out that NPP_New's end gives out again
(`TimerId`).  Freed memory is a value, and a function that touches it enters its name
in `fault`.  `Die` is the loss of the viewer, which leaves the wrapper's tables.

### Windows, XtProbe

The main loop of the viewer, an iteration at a time (`Prepare`, `Poll`, `rpc_sync`, rounds
of `xt_event_dispatch`, `EndOfDispatch`), with events on the socket (`wire`) or in
Xlib's queue, and a timer and a file input of the plugin.  The loop dispatches nothing
before the browser has answered rpc_sync(); the browser's SetWindow, New and Destroy come
while it waits for that, while the plugin waits for a call of its own in a dispatch, or as
the one message that an iteration without a ready source handles (`Called`).  A SetWindow
gives a window or a drawable, and attributes that can be used or not: it creates, updates
or is refused before the plugin is told, or fails create_window's assertion (`at` =
"aborted").  What the browser gave last without an error (`given`), what the plugin was
told and what it received are recorded.  `XtProbe` is the search in Xt's private context
for the counter of inputs: the context is a set of words, each the counter,
another number or something that merely moves along.

### Installer, PluginFiles

A run of the tool is one step per file; `loaded` holds what dlopen still has in
memory, since a file that is replaced keeps its old image.  Between runs, plugins are
removed or replaced, also by a plugin for another architecture or by no plugin (`elf`),
viewers come and go, and the tool is upgraded with or without them; `Killed` ends a run
between any two files.
`PluginFiles` has the tests for ELF plugins and the search for a viewer.

### Player, PlayerPlugins, PlayerMain, PlayerBrowser, XtBin

One action is one callback of the main loop: opening a stream, committing a
buffer, a dispatch of the curl source with any progress of any transfer, window
and key events, the timeout that starts a plugin.  The plugin takes any part of
what it is offered.  `PlayerPlugins` is the start of `player_app_run` in one step: it
builds the list of plugins and searches it.  `PlayerMain` reads the command line and
starts each app's plugin: an app without a plugin for its type or its src's extension
ends the player, the MIME type found by the src becomes an attribute, the width is what
the window has by then, and a step of plugin_start that fails ends the main loop.
Which types and extensions have a plugin is a constant there.  `PlayerBrowser` is the NPN table with packed identifiers
over words of `WordSize` values (32 in the run), `XtBin` is the widget with its listeners and hooks,
where X events wait in a queue behind the changes that caused them.

## Runs

All bounds are constants of the configurations.

| Run | Checks | Instance |
|---|---|---|
| `sync` | MutualExclusion, ControlInvariant, CallsGoThrough, ImplementsSharedThread | no faults, 2 methods, stacks of up to 7 frames before a call |
| `sync_faults` | SyncStartsOutOfSync, SyncIsAnswered, CallsReturn, OrphanViewerExits | crashes, failing handlers, timeouts; 1 method, 2 frames before a call |
| `sync_timeout` | MutualExclusion | **violated**: a timeout in the wait for SYNC_END |
| `recovery` | OneViewer, NotFreedInUse, ViewerIsRestarted; InfoIsThePlugins | 3 connections, 1 instance, 3 frames; some 450 plugins, each with any cut of its output |
| `objects` | RefCountsAreExact, StubsMatchProxies | one viewer and its loss; 1 object and 2 stubs per end, 3 nested calls with an object each; the browser hands on any proxy |
| `objects_restart` | ProxiesResolve | three viewers; 1 object and 1 stub per end, 2 nested calls; the browser hands on any proxy |
| `methods` | MessagesArrive, BreakIsNoticed, NothingLeaks; ThunksFitBrowser; OwnViewer | every method with 6 flavours of arguments, every place to break off; 2 wrappers with 2 starts each |
| `identifiers` | AnswersAreTheBrowsers, NoAbortWhileConnected | a cache of 2 entries, 2 names and an integer, 3 addresses, 2 nested calls |
| `instances` | MemoryIsLive, StreamsAgree, NoLateCallback, InstanceIsFreed | 1 instance, stream and object, 2 timers, 1 asynchronous call, 4 nested calls |
| `installer` | UpdatesSettle, UpdateLosesNothing, ViewerFits | root and a user, 3 plugins, 3 runs, 2 versions, 1 change to a plugin, the viewers or the tool |
| `player` | NoDanglingStream, DeliveredInOrder, TransfersEndStreams; HomePluginsFirst; AttributesReachPlugin; PlayerKeepsTrack; ClicksAreHeard | 1 app and stream of 3 bytes; 3 directories of up to 2 modules; 4 arguments; 2 bins with 2 children |
| `windows` | PluginKnowsItsWindow, InputInOrder, WorkIsDispatched; InputsAreNoticed | 1 instance, 2 events, 2 events per dispatch; a context of 2 words |

What each shows is told in `PROJECT.json`.  `RpcSync`,
`Recovery`, `NPObjects`, `Identifiers`, `Instances`, `Player` and `Windows` have a type
invariant, which is proved, alone or as a part of the inductive invariant; what types the
smaller modules' proofs need is said where they are proved.  That of `Installer` holds in
the configuration of its run and can be added to it (`INVARIANT InstallerTypeOK`), where
it serves to find slips in the model.

*Why the bounds are enough.*  In RpcSync every interesting crossing involves one
request of the viewer and two nested calls; two methods tell a reply to the
wrong call apart; depth 7 allows three calls in each direction below a sync.
The theorems below have no bound.  In Recovery a frame of an old connection
below a callback below a frame of the new one takes three frames, and three
connections leave one free while two are in use; the one instance can be
destroyed and created again below its own frames.  Two instances with two frames
were checked as well.  `MaxRefs` bounds the references that failed
NPP_New calls leave behind.  In NPObjects one object sent twice has two stubs and
two proxies, which is where ids, counts and tables can be confused; two references
tell a last release from another; two viewers are needed for an id that is used
again, so that a proxy is missed by deactivation, and a third one for it to reach a stub
that is not its own (disagreement 5).
The flavours of `methods` have NULL, empty values, values that fill the buffer
exactly, overflow it and leave a partial word, and known and unknown ids, in
different combinations for the arguments of one call.  Files to print are empty, smaller
than a piece, exactly one piece and more than two.  A cache of two entries is
filled by two names, so that a request for two empties it whatever it holds.  In
Instances depth 4 holds NPP_Destroy in a callback in an NPN call in a timer.  The
installer needs two updates to settle and a run before them to do harm; three
kinds of ELF files and a file that is no plugin take every branch; one change is enough
for an update to hand on a viewer that was removed (an upgrade without viewers) and one
that cannot run the plugin any more (a plugin for another architecture); both were seen
to happen.  Three bytes
in pieces of at most two leave a rest after a partial write and one more buffer
behind it.  An Xt dispatch of two events ends at its limit with one left.

*Fairness.*  `sync_faults` assumes that a process that is blocked
in a read gets what was sent (weak fairness, the kernel's promise), that an
event loop that is entered again and again dispatches a ready source (strong
fairness, because the source may be disabled in between by a nested call), and
that callbacks of the browser and of the plugin return (strong fairness for each
height of the stack; a plugin that never returns blocks the browser, which
NPAPI accepts).  Nothing forces a call, a request for a turn or a crash to
happen.  `recovery` assumes that calls end one way or the other, that the
clock passes MIN_RESTART_INTERVAL, that pages are closed and opened again, and
that not every start of a viewer fails.  `instances` assumes that calls return, so
that there is again and again none under way, and that GLib comes to every source.  `player` assumes that idle callbacks run,
and nothing of the network.  `windows` assumes that the main loop goes round,
that poll() ends when its time is over or its socket is readable, that time passes, that a
call being handled returns, and that the browser answers rpc_sync(), which is what
SyncIsAnswered says of the two processes in `sync`; nothing else of the browser.

Deadlock is checked in the runs of RpcSync, in `recovery` and in `methods`; an
explicit stutter there is allowed only when no viewer is left and the browser
has no frame open (RpcSync) or after NP_Shutdown (Recovery).  The other systems
may stop: a browser without a viewer, a bounded number of runs of the installer,
a player that was quit.

## What is proved

Every theorem below is for all values of the constants: any set of methods,
instances, streams, connections or names, any depth of nested calls, any size of
the cache.  The bounds of the models (`MaxDepth`, `MaxStack`, `MaxRefs` and so on)
are constants like any other.  The assumptions on constants are the named ASSUMEs
of the modules: bounds are natural numbers, and special values (`NONE`, `Freed`,
`NULL`, `NoMethod`) are none of the ordinary ones.  In Windows a batch of Xt events
has at least one, and in XtProbe offsets are not 0, which stands for none.  In NPObjects
there is at least one viewer, and the objects of an end are none of its proxies.  In
PlayerBrowser the size of a word is a multiple of 4 with room for the quarks and for the
integers that are packed, and strings, variants and (in XtBin) bins are finitely many.
In Connect every method of a table has a callback.  In ViewerInfo a buffer has room for
two characters, and no string or chatter of a plugin has one of the viewer's own three
tags in it; any other word and number it may have.

### RpcSyncProofs

* `TypeCorrect`: `Spec => []TypeOK`, for every fault set.
* `ControlIsOne`, `WrapperAndViewerTakeTurns`: if messages do not time out,
  `Spec => []ControlInvariant` and `Spec => []MutualExclusion`.
* `SyncStartsClean`: `Spec => []SyncStartsOutOfSync`, for every fault set.

MutualExclusion is not inductive: nothing in it says that a process which runs
cannot have a reply or a SYNC_ACK on its way to the other.  ControlInvariant adds
what is missing, as long as both ends take the connection for a healthy one:

* `OneToken`: control is a token.  Whoever runs has it, and so has each START,
  REPLY, SYNC_ACK or SYNC_END under way, so there is at most one of all these.
* `WrapperOrder`, `ViewerOrder`: what may be below what on a stack.  A callback is
  always on a frame that waits (or is the viewer's first), so when it returns it
  gives control away with its reply; `rpc_sync` and `main_loop` are only ever
  the viewer's first frame.
* `OneRequest`: a SYNC under way, a noted one and a SYNC_ACK exclude each other,
  and the viewer's first frame is then `rpc_sync`.  A viewer that serves a call
  while it waits for its turn keeps that frame at the bottom.
* a wrapper that is in its error callback does not take the connection for
  ACTIVE, so the wait in `plugin_exit` plays no part in a healthy state.

The hypothesis `"timeout" \notin Faults` is needed: `sync_timeout` is the
counterexample without it.  SyncStartsClean needs no such hypothesis because its
invariant is about one end: `is_sync` and the frames that set it.

The second half of the module is about the stacks of both ends together:

* `StacksStayMatched`, `CallsAlwaysGoThrough`: if processes only crash
  (`Faults \subseteq {"crash"}`), `Spec => []CallsGoThrough`.
* `PendingSyncAsserts`: under the same hypothesis the assertions of
  `rpc_dispatch_pending_sync` hold while both processes live and neither has seen
  an error.  (Disagreement 2 below is what happens when the viewer has died.)
* `NoErrorByItself`, `ConnectionIsOneThread`: without faults the connection stays
  healthy, and `Spec => ImplementsSharedThread`, the refinement of `SharedThread`.

The invariant (`ThreadInvariant`) says how the stacks of the two ends fit.
`Matched`: frame by frame, what one end waits in is what the other serves; the
viewer's stack has one frame more at its bottom while it waits for its turn.
`Placed`: where control is says which stack is higher and which message is under
way, so the one missing frame is the one that this message will push.  `Ordered`:
what may be behind what on the wire.  `Counted`: the depth counters are the numbers
of `invoke` and `handle` frames.  From this every message that is read has a case,
and the abstract stack, the interleaving of the `invoke` frames of both ends,
changes only by a push or a pop at its top.  A failing handler ends a call with an error in place of
its reply, and a timeout ends a wait while the answer is under way: both unmatch
the stacks, which is why they are excluded.

The last part is about `Connect`:

* `ViewersAreOwn`: `ConnectInit /\ [][ConnectNext]_connectVars => []OwnViewer`.

A connection is to whoever has bound the socket's name, so the invariant is about names.
The name has the pid of the browser and a number that it draws for each viewer, and never
twice (`drawn`), so two viewers have the same name only if they are the same: whoever
listens at the name of a wrapper is the viewer that it forked last.  That a connection
then serves its table is an induction over the table, with one descriptor added after
the other.

### RecoveryProofs

* `RecoveryIsSound`, `RecoveryTypes`: the inductive invariant, and its TypeOK.
* `OneViewerAlways`: `Spec => []OneViewer`.
* `NeverFreedInUse`: `Spec => NotFreedInUse`, an action property.

The invariant ties the static variables to the processes: the viewers that exist
are at most the one that `viewer_pid` names, a plugin that was killed has none
(`KnownViewer`), and a connection in use has at least the references of its
instances, of `g_rpc_connection` and of the two event sources (`RefsCover`), so that
one which is on the browser's stack keeps at least the two that `plugin_exit` never
gives back.

* `InfoAlwaysThePlugins`: `InfoInit /\ [][InfoNext]_infoVars => []InfoIsThePlugins`, for
  strings and chatter of any length and a line buffer of any size.

What the wrapper has stored says nothing of what it will read next, so the invariant is
about the whole output: it is the noise and then, for each string the plugin has, a tag,
the string and a newline (`Layout`), and the pipe is always what is left of it from some
place on (`Progress`), up to where a viewer that was killed had come.  Between two rounds
of the loop that place is before the tag of a part or in what is no tag any more before
it: in the noise, or in the newline behind a string (`At`).  There `fgets` never takes a tag together with
anything else, however the buffer cuts the noise, since the noise ends in a newline; and
a tag is a line of its own, so the string behind it is read with exactly its length.
All this is for chatter without a word and a number.  For any other chatter the place is
lost: a length that it announces may end anywhere in the output.  What is left then is
that behind each of the viewer's tags in the pipe is its own string as far as the pipe
goes (`Backed`), whatever was taken from the front, so each string that is stored is the
plugin's (`Right`), and the others are missing.

The last part is about `Installer`, for any plugins and any changes to them and to the
viewers, whose directories have known names (`InstallerAssumption`):

* `InstalledViewersFit`: ViewerFits.
* `NoUpdateLosesAnything`: `[]UpdateLosesNothing`.
* `RootUpdatesSettle`: `[]UpdatesSettle`.

That a wrapper names a viewer that fits is not an invariant, since the world may change
behind it; ViewerFits is about the step that writes the wrapper.  `Installs` gives the
viewer of whatever an installation writes (`Served`): detected in this step (`Detected`),
or that of the block an update was given.  For a wrapper that is moved this is a matter
of two steps, so the invariant has that the block in `moving` is still the one that was
read (`MoveSound`).

What a run does depends on the blocks dlopen has kept from before, so these are part of
the invariant (`InstallerInv`).  `Keeps` says, in the
middle of an update that has not failed, of each plugin that had a wrapper when it began:
it has one, or it is the plugin whose wrapper is being moved, which the next step
installs again.  A wrapper is removed only because its plugin is out of the user's sight
or because a current one was opened in the system's directory, and that one is still
there (`UpdateSound`).  For a plugin that only root can read there is no such
wrapper (`OldSystem`: what the system's directory has for it is of the first versions),
so its own is never taken for covered.

`SettledInv` is about two complete passes by root.  After one, the system's wrappers are
current (`SystemIn`) and a private one is current or covered by the system's (`Once`);
after two, none is covered (`Twice`).  In the middle of a pass this holds for the plugins
that have been done (`PassSettles`), and what the pass has opened in the system's
directory is, after one complete pass, what is there now (`PassSound`): the second pass
decides by blocks that are up to date, which is what the first cannot rely on.

### NPObjectsProofs

* `BridgeIsSound`, `BridgeIsTyped`: the inductive invariant, and its TypeOK.
* `CountsStayExact`, `StubsStayMatched`: `Spec => []RefCountsAreExact` and `Spec =>
  []StubsMatchProxies`, whatever proxies the browser hands on.
* `ProxiesAlwaysResolve`: `Spec => []ProxiesResolve`, for any number of viewers.  The
  proxies it excepts are those of disagreement 5 below, and no others.
* `BrowserNeverAsserts`: the assert on a received id does not fail in the browser's
  process, over any number of viewers.
* `DeactivationMissesTheCrossed`: after `plugin_kill` no proxy is valid but those that
  were crossed, of which the first viewer has none.

Neither property of stubs and proxies is inductive: counts decide when a proxy goes,
and the ids that were given out decide which proxy a new stub makes.  BridgeInvariant
has three parts.  `BridgeOk` is about one end: counts are exact for the references
`x` that its open calls hold, stubs have ids that were given out, and no proxy is of
a viewer that is still to come.  `LinkOk` relates the proxies of one end to the stubs
of the other: a proxy of the current viewer has an id below the counter, so that a
fresh id never meets a proxy that is in use; valid proxies have their stub
unless they were crossed: what is done to a proxy, or to a stub or an entry by its id,
reaches another proxy only if it has that id, and then `Namesakes` marks it; and with the
first viewer, where there are no namesakes, a stub has its proxy.  `StackOk` says whose
the arguments of an open call are.  `x` is a parameter of the invariant rather than the state, so a step can be taken apart: while
objects are sent one by one, released one by one, or a result is on its way with its
reference, the references under way are counted in `x`, and the invariant holds in
between.  Deactivation is taken for any part of the stubs that the walk may reach.

### IdentifiersProofs

* `CacheIsSound`, `AnswersAlwaysRight`, `NeverAbortsConnected`: `Spec =>
  []AnswersAreTheBrowsers` and `Spec => []NoAbortWhileConnected`.

While the connection works and the plugin has not asked for the integer of a name, an
entry of the table is exactly what the browser's atom stands for, and a call that waits
has an argument which, if it is an identifier, the browser has given out: for a name or
an integer when its name is asked for, for an integer when that is.  Both parts are
needed: what a call enters when it comes back was decided before it waited.

### InstancesProofs

* `InstancesAreSound`: the inductive invariant `InstanceInvariant`.
* `MemoryAlwaysLive`, `StreamsAlwaysAgree`: `Spec => []MemoryIsLive` and
  `Spec => []StreamsAgree`.
* `NeverCalledLate`: `Spec => NoLateCallback`, an action property.

MemoryIsLive counts references to instances that exist; `Counted` counts them for
freed ones too (there are none), which is what an unref needs to know.  `Matched`
relates what the browser knows to what the viewer has: the last reference cannot
go before NPP_Destroy has returned, and an instance that NPP_New refused, which
stays valid for ever, has nothing scheduled.  `StackOk` and `NoRivals` say that
calls of the main loop are at the bottom only and that NPP_New and NPP_Destroy of
one instance exclude each other; `Numbered` that a timer id is not given out
twice once there is a table; `Owned` that the owner of an object in a table is valid.  For streams,
`StreamsOk` says of each half what it is while one of the closing calls is under
way, and that no two of those are about the same stream.  `KeyInvariant`, inductive
together with `InstanceInvariant`, says that the key of a source has been used by its
instance (`Keyed`), so that a new timer's source is a new one although the ids start
again.

### PlayerProofs

* `PlayerIsTyped`: `Spec => []TypeOK`.
* `StreamsAreSound`, `StreamsNeverDangle`, `BytesInOrder`: the inductive invariant
  of the streams, `Spec => []NoDanglingStream` and `Spec => []DeliveredInOrder`, for
  transfers of any length and pieces of any size.

DeliveredInOrder says nothing of what is still in the buffers.  `Chain` does: they
follow one another without a gap, only the first has been handed over in part, and
the last one ends where the transfer stands.  `Delivery` then gives the plugin, and
the temporary file as long as nothing was offered twice, exactly the bytes before
the first that a buffer still holds.  A stream that was told to end by
`stream_destroy` is gone, so on_stream_commit_cb, which destroys a stream either
with its buffers empty or after an error or a refusal, can say NPRES_DONE only after
the last byte (`Settle`).  No stream with a transfer or an idle callback is destroyed
because on_stream_commit_cb is the only one to destroy a stream that was offered,
with both idle callbacks done and the easy handle removed first.

* `PlayerAlwaysKeepsTrack`: `BrowserInit /\ [][BrowserNext]_browserVars =>
  []PlayerKeepsTrack`.  Reference counts are those of the plugin's variants and of its own
  references (`CountsOk`); an identifier is that of a quark, which never changes, or a
  packed integer, and since words are shifted with their sign each can be told from the
  other and read back (`IdsOk`).
* `ClicksAlwaysHeard`: `XtInit /\ [][XtNext]_xtVars => []ClicksAreHeard`.  The listener of
  a widget is set when the event arrives that announces it, so in the meantime there are
  widgets without one.  `Heard` says that each of these is, or is below, a widget whose
  announcement is in the queue and whose parent has a listener (`Announced`): the walk over its children will
  then reach it.  What is above a widget (`Above`) is the least set that is closed
  under parents, which needs no induction over trees.
* `AttributesAlwaysReach`: `MainInit /\ [][MainNext]_mainVars =>
  []AttributesReachPlugin`, for command lines of any length.  The property speaks of the whole
  command line and of the sections into which --plugin divides it; `Filled` speaks of the
  arguments before the one that is read next.  A descriptor is right for the arguments with
  a value that its section has had so far (`Describes`), and the k-th is that of section k,
  or k - 1 if there were attributes before the first --plugin.  `Made` relates the apps
to the descriptors: what NPP_New got (`NewOf`) and the width of the window (`AppOf`).  Which arguments are values
  of an option before them (`OwnRule`) is decided from the left, as main() does.
* `HomePluginsAlwaysFirst`: `ChoiceInit /\ [][ChoiceNext]_choiceVars =>
  []HomePluginsFirst`, for any places, directories, modules and types.  Both lists are built
  back to front, which the proof follows: the directories that exist come with falling places
  (`RanksOf`), and so the plugins loaded from them with rising ones (`SourcesOf` names the
  module each plugin comes from, and has one for every module that is a plugin).  The first
  plugin that fits (`FirstToFit`) is then of the least place that offers one.

### WindowsProofs

* `WindowsAreSound`, `WindowsAreTyped`: the inductive invariant, and its TypeOK.
* `PluginAlwaysKnows`, `InputAlwaysInOrder`: `Spec => []PluginKnowsItsWindow` and
  `Spec => []InputInOrder`.
* `CreateAbortsOnlyAfterDrawable`, `SourceWhileShared`: create_window's assertion fails
  only where a drawable was the last to be accepted and there is no window, and the
  Xt source exists as long as an instance without XEMBED does.
* `InputsAlwaysNoticed`: `ProbeInit /\ [][ProbeNext]_probeVars => []InputsAreNoticed`.

`WindowsOk` says of one instance what its toolkit data, its window attributes and its
window have to do with each other and with what was given last: attributes without
toolkit data are those of a drawable.  A call that is refused frees attributes at most
(`Refuses`), one that is accepted sets all of what the plugin is told (`Accepts`); the
step of NPP_SetWindow is proved from these two.  `SourceOk` counts: `xt_source_count` is the
number of the instances that share the source, and of those that NPP_New made and the
plugin refused.  InputInOrder speaks of both parts of the X connection at once, so
`InputOk` is stated over `queue \o wire`: an event is at the top widget or at the form,
those at the form precede those at the top, and the two together, after what has
arrived, are what was sent.  Moving the socket's events into Xlib's queue then changes
nothing, and an event that the top widget's handler sends on goes to the end of those
at the form.  A window that goes takes its events out of both parts, which leaves the
order of everybody else's.

The probe is a matter of arithmetic: an offset that it has found was right for each
of its inputs (`Found`), a word that is made of descriptor bits is right for the first
only, and a constant for one number only; so with two inputs or more, or if the true
counter was among the words and the plugin had no inputs yet, the offset is the counter's.

### How the proofs are laid out

Each has one lemma per action.  The parts of an invariant are operators on values
rather than on the variables, so that lemmas about pushing, popping, counting and
dropping references can be used for any two states.  Recursive definitions are
recursive functions; what they compute is proved by the least counterexample
(`DataFacts!LeastNumber`) or with the set of the numbers or sequences for which it holds
(`SetOfAllNumbers`, `SetOfAllSequences`), since the provers cannot use the library's
induction theorems, which take an operator as a parameter.

### Only model-checked

* Liveness (SyncIsAnswered, CallsReturn, OrphanViewerExits, ViewerIsRestarted,
  InstanceIsFreed, TransfersEndStreams, WorkIsDispatched): the prover has no rules for
  fairness and ENABLED.
* `RpcMethods` (MessagesArrive, BreakIsNoticed, NothingLeaks) and ThunksFitBrowser of
  `Thunks`: senders and receivers are operators that take operators, folded over lists of
  types, which no installed prover can instantiate; and what they are about, the methods
  and the structures with their types, are finite tables that TLC covers.

## Disagreements with the code's own words

One is a run: the comment in `rpc_sync` promises that at most one of wrapper and
viewer runs at any point, and

1. `rpc.c:1672`: a timeout in the wait for SYNC_END is not raised with
   `rpc_error`; browser and plugin then run at the same time (`sync_timeout`).

The others are stated as properties that are kept beside the model and are in no
configuration; added to the run named here, each is violated.

2. `PendingSyncIsSafe` (`sync_faults`), `rpc.c:1732`: the assertion that nothing
   can be read before a deferred SYNC is answered fails when the viewer has died
   meanwhile, and takes the browser with it.
3. `ErrorsKillOnce` (`recovery`), `rpc.c:508`: the error callback cannot be
   unregistered, so a late error of an old connection kills the new viewer.
4. `ReceivedObjectExists` (`objects`), `npw-rpc.c:1286`: only the object that a
   method is called on is checked for validity; an invalidated proxy among the
   arguments makes the assertion on its id fail in the viewer.
5. `DeactivatedProxiesAreInvalid` (`objects_restart`), `npruntime.c:181`: proxies
   are removed from their table by an id that a new viewer uses again; a proxy
   whose entry went that way stays valid when its own viewer is lost, and with a third
   viewer calls a stranger.  The property holds with the exception of these
   (`crossed`), and is violated without it.
6. `CopiesAreWhole` (`methods`), `npw-viewer.c:3319`, `npw-wrapper.c:2996`: the
   password is copied with the length of the user name, and the names of sites
   without their NUL.
7. `MisplacedIsMoved` (`installer`), `npw-config.c`: a wrapper in the system's
   directory for a plugin that only root can read is never removed.
8. `StreamInfoIsKept` (`instances`), `npw-viewer.c`: a stream that the browser
   destroys inside NPN_DestroyStream is looked at after it was freed.

Seen on the way; the models contain them unless said otherwise, and the
properties except them by name:

* *Errors.*  A viewer that dies during its turn is noticed by
  `_rpc_dispatch_sync` (`rpc.c:1690`), which does not call `rpc_error`: the next
  NPP_New fails instead of restarting the viewer.  NP_GetValue or
  NP_GetMIMEDescription after a loss leaves `initialized` at -1
  (`npw-wrapper.c:3793`), and the next NPP_New starts nothing; that attempt
  clears `plugin_killed`, so the one after it resets first.  `plugin_exit`
  (`npw-wrapper.c:4028`) never drops the references of the event sources; the leak
  keeps NotFreedInUse true in the error callback, as its mutant shows.
  `rpc.c:1266` multiplies the timeout by 1000000 in int, which overflows above
  2147 s (no model).
* *Calls.*  A file to print whose size is a multiple of 4096 ends in an empty
  piece that the other side takes for a closed connection (`IsEmptyPiece`); some handlers answer
  with a variable they have not set when the call behind them fails.
* *Identifiers.*  Results of failed RPCs enter the cache, which is why its
  properties are about a connection that works.  The name of an integer identifier is
  NULL, which its marshaler refuses: a plugin that asks for it loses the connection and,
  with the cache, the viewer (`ReplyWithoutName`, `Fail`).
* *Instances.*  Freed memory is touched in six places, which MemoryIsLive excepts by
  name (`KnownFaults`), each of them reached in `instances`: a timer whose callback
  unschedules it (`npw-viewer.c:3384`), NPP_SetWindow and NPP_Print with NPP_Destroy
  inside (3911, 4449), a stream destroyed inside its NPP_NewStream (4169) or in
  NPN_DestroyStream (1798), and an object made inside NPP_New and released after its
  instance (1991).  A timer scheduled inside NPP_New is in no table, and may run the
  later timer of its id instead; an instance whose NPP_New is refused is never freed.
* *Windows.*  A browser that goes from windowless to windowed without a NULL
  window in between fails an assertion (the model takes that step); one that gives a
  drawable to an instance with a window gets an error, and the plugin keeps its window;
  a new parent of a window is ignored.
  The probe takes a wrong word when descriptors run out after its first input.
* *Thunks.*  The comments about most significant words describe a big-endian
  machine; a LONG64 browser is recognised only by a window at the origin.  The copy of a
  refused stream is never freed (`refused`); a NULL window or ws_info ends the browser
  unless the layer knows it to be sound.  The block for a LONG64 browser's saved data has
  the length of the data rather than of the structure (no model).
* *Start.*  A viewer whose browser dies before it connects waits in `accept` for
  ever.  A newline in a plugin's description truncates it.
* *Installer.*  An update removes and then installs, and needs two runs to
  settle.  It hands on the viewer the old wrapper names without trying it
  (`npw-config.c:708`), so a wrapper may be rewritten with a viewer that is gone or that
  cannot run the plugin that is there now; ViewerFits excepts updates that do so.  Plugins with one base name overwrite each other (no model).
* *Player.*  What a plugin leaves of a buffer is written to the temporary file
  once more; a stream refused late is never freed nor notified; the result of a
  transfer is not looked at; leaving with Ctrl-Q closes no window.
* *Widget.*  The destruction of a child takes the parent's focus listener away.

## Not modelled

* Of 57,000 lines in C files and headers, 23,000 are the program (`src/src`);
  the rest are headers and link stubs of GTK, GLib, X11 and the C library, which
  have no behaviour of their own.  The map covers most of the former.
* `npw-malloc.c`: its guards are compiled out (`#undef ENABLE_MALLOC_CHECK`), and
  what remains is malloc and free.
* Logging, `rpc_strerror`, the `string_of_*` functions, `debug.c`, `cxxabi-compat.cpp`
  and `libnoxshm.c`: text, or symbols for the linker.
* The tests of `rpc.c` (TEST_RPC) and `tests/`; they were read for what is expected.
* Direct execution (NPW_DIRECT_EXEC) and the wrapper that stands for no plugin:
  no second process.
* The Win32 half of `glibcurl.c`: not built.
* In the player: the focus filters on GDK windows, the fullscreen state and the
  guess of a MIME type from content; drawing and X resources everywhere.
* `nspluginwrapper --list`, and the byte order of ELF headers.

## What comes next

Sender and receiver of each type in a first-order form, for MessagesArrive.
