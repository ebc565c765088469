----------------------------- MODULE Installer -----------------------------
(***************************************************************************)
(* nspluginwrapper(1), the tool that installs, updates and removes wrapper *)
(* plugins (npw-config.c).  A wrapper is a copy of the master wrapper with *)
(* an NPW_PluginInfo block that names the plugin it stands for, the        *)
(* plugin's modification time, and the ident of the version that made it.  *)
(* Wrappers live in the system-wide plugin directory, which only root can  *)
(* write, and in the plugin directory of each user.                        *)
(*                                                                         *)
(* A run of the tool is a sequence of steps on the file system, one        *)
(* wrapper file at a time, and may be killed between any two of them.      *)
(* Between the runs plugins are removed or replaced, also by a plugin for  *)
(* another architecture, viewers come and go, and nspluginwrapper itself   *)
(* is upgraded.                                                            *)
(***************************************************************************)
EXTENDS PluginFiles

CONSTANTS
    Paths,          \* the ELF files in the plugin directories
    Files,          \* what each of them is at first
    Replacements,   \* and what it may be replaced by
    ViewerSets,     \* the viewers that may be installed together: directory -> architecture
    RootOnly,       \* those under ~root
    MaxTime,        \* bound: the latest modification time
    MaxIdent,       \* bound: the latest version of nspluginwrapper
    MaxChanges,     \* bound: changes to the world
    MaxRuns,        \* bound: runs of the tool
    MaxNamed,       \* bound: files named in a run without --auto
    NativeCommands  \* bound: the commands that are also run with --native

ASSUME InstallerAssumption ==
    /\ RootOnly \subseteq Paths
    /\ MaxTime \in Nat
    /\ \A v \in ViewerSets : DOMAIN v \subseteq Directory

VARIABLES
    mtime,     \* file -> modification time, 0 when there is no such file
    elf,       \* file -> what it is, or was when it was there
    ident,     \* NPW_PLUGIN_IDENT of the tool and of the master wrapper
    viewers,   \* the installed viewers, a member of ViewerSets
    wrapper,   \* directory -> plugin -> block of the wrapper file, or NONE
    tool,      \* the run of the tool in progress, or NONE
    runs,      \* runs so far
    changes,   \* changes to the world so far
    settled,   \* complete updates by root since the world last changed, up to 2
    before     \* the plugins that had a wrapper when the run began

world == <<mtime, elf, ident, viewers, changes>>
installerVars == <<mtime, elf, ident, viewers, changes, wrapper, tool, runs, settled, before>>

Users == {"root", "user"}
Dirs == {"system", "root", "user"}     \* the system's and two private ones

\* A wrapper file is named after the base name of its plugin.  The base
\* names are distinct here, so the file is indexed by the plugin itself.
NPW_PluginInfo == [path : Paths, mtime : Nat, ident : Nat, version : 0..InfoVersion,
                   target_arch : {""} \cup Arches, target_os : {""} \cup Systems, viewer : {NONE} \cup Directory]

WrapperFiles == [Dirs -> [Paths -> {NONE} \cup NPW_PluginInfo]]
MovedWrapper == [p : Paths, info : NPW_PluginInfo]

Commands == [cmd : {"install", "update", "remove"}, over : BOOLEAN, who : Users, auto : BOOLEAN,
             native : BOOLEAN, dir : Dirs, todo : SUBSET Paths, moving : {NONE} \cup MovedWrapper,
             failed : BOOLEAN, loaded : WrapperFiles]

ASSUME NoneAssumption ==    \* NONE is no record
    NONE \notin NPW_PluginInfo \cup Directory \cup MovedWrapper

\* The block of a wrapper made by 0.9.90 and by 0.9.91.
Legacy(p, version) ==
    [path |-> p, mtime |-> 1, ident |-> 0, version |-> version, target_arch |-> target_arch(Files[p]),
     target_os |-> target_os(Files[p]), viewer |-> NONE]

----------------------------------------------------------------------------
(* What the tool asks of the file system *)

is_root_only_accessible_plugin(p) == p \in RootOnly

\* access(path, F_OK) by the user who runs the tool
Visible(who, p) == mtime[p] # 0 /\ (who = "root" \/ p \notin RootOnly)

Writable(who, dir) == who = "root" \/ dir = "user"

get_user_mozilla_plugin_dir(who) == who

\* The system's directories come before the user's own.
get_mozilla_plugin_dirs(who) == <<"system", get_user_mozilla_plugin_dir(who)>>

\* dlopen() gives a file that this process has opened before as it was then,
\* since is_wrapper_plugin never closes its handles: loaded holds those.
dlopen(loaded, w, dir, p) ==
    IF loaded[dir][p] # NONE THEN loaded ELSE [loaded EXCEPT ![dir][p] = w[dir][p]]

NothingLoaded == [d \in Dirs |-> [p \in Paths |-> NONE]]

\* The file is a wrapper, and its plugin is as it was when that was made.
has_system_wide_wrapper_plugin(loaded, w, p, check_ident) ==
    LET block == dlopen(loaded, w, "system", p)["system"][p]
    IN  /\ block # NONE
        /\ check_ident => block.ident = ident
        /\ block.mtime = mtime[p]

----------------------------------------------------------------------------
(* Operations.  Each takes the wrapper files and gives [ok, files].        *)

Done(ok, files) == [ok |-> ok, files |-> files]

\* do_install_plugin(): a block without a viewer, or without a system, makes
\* it look for the viewer again; a recorded viewer is not tried again.  The
\* file is replaced in one step.
do_install_plugin(t, w, p, dir, info) ==
    LET complete == info.target_arch # "" /\ info.target_os # "" /\ info.viewer # NONE
        found == detect_plugin_viewer(elf[p], info, viewers, t.native)
        i == IF complete THEN info ELSE found.info
    IN  IF Visible(t.who, p) /\ (complete \/ found.ret = "ok") /\ Writable(t.who, dir)
        THEN Done(TRUE, [w EXCEPT ![dir][p] =
                 [i EXCEPT !.path = p, !.mtime = mtime[p], !.ident = ident, !.version = InfoVersion]])
        ELSE Done(FALSE, w)

\* install_plugin(): system-wide if possible, and in the user's directory
\* if it is not and there is no system-wide wrapper yet.
install_plugin(t, w, p, info) ==
    LET sys == IF is_root_only_accessible_plugin(p) THEN Done(FALSE, w)
               ELSE do_install_plugin(t, w, p, "system", info)
    IN  CASE sys.ok -> sys
          [] ~sys.ok /\ Visible(t.who, p) /\ has_system_wide_wrapper_plugin(t.loaded, w, p, TRUE) ->
                Done(TRUE, w)
          [] OTHER -> do_install_plugin(t, w, p, get_user_mozilla_plugin_dir(t.who), info)

remove_plugin(t, w, dir, p) ==
    IF Writable(t.who, dir) THEN Done(TRUE, [w EXCEPT ![dir][p] = NONE]) ELSE Done(FALSE, w)

\* As a slip would have it: a wrapper of another version is left alone.
update_pluginOfAnyVersion(t, w, p) ==
    IF ~Visible(t.who, p) THEN "remove"
    ELSE IF mtime[p] > t.loaded[t.dir][p].mtime THEN "install" ELSE "skip"

\* As a slip would have it: the system's wrapper is found to be covered by
\* itself.
update_pluginOfItself(t, w, p) ==
    IF ~Visible(t.who, p) \/ has_system_wide_wrapper_plugin(t.loaded, w, p, TRUE)
    THEN "remove" ELSE "skip"

\* What update_plugin() decides to do with a wrapper file.
update_plugin(t, w, p) ==
    LET info == is_wrapper_plugin_handle(t.loaded[t.dir][p])
        covered == has_system_wide_wrapper_plugin(t.loaded, w, p, TRUE) /\ t.dir # "system"
        misplaced == /\ has_system_wide_wrapper_plugin(t.loaded, w, p, FALSE)
                     /\ is_root_only_accessible_plugin(p)
    IN  CASE ~Visible(t.who, p) -> "remove"
          [] Visible(t.who, p) /\ covered -> "remove"
          [] Visible(t.who, p) /\ ~covered /\ misplaced -> "move"
          [] Visible(t.who, p) /\ ~covered /\ ~misplaced
             /\ (mtime[p] > info.mtime \/ info.ident # ident) -> "install"
          [] OTHER -> "skip"

----------------------------------------------------------------------------
\* A system with any choice of the viewers, where wrappers made by the
\* first versions may still be installed.
InstallerInit ==
    /\ mtime = [p \in Paths |-> 1]
    /\ elf = Files
    /\ ident = 1
    /\ viewers \in ViewerSets
    /\ wrapper \in [Dirs -> [Paths -> {NONE}]]
         \cup {[NothingLoaded EXCEPT ![d][p] = Legacy(p, v)] :
                   d \in Dirs, p \in {q \in Paths : is_plugin_fd(Files[q])}, v \in {0, 1}}
    /\ tool = NONE
    /\ runs = 0
    /\ changes = 0
    /\ settled = 0
    /\ before = {}

\* The plugins a user's browser finds a wrapper for.
Wrapped(who, w) == {p \in Paths : Visible(who, p) /\
                       (w["system"][p] # NONE \/ w[get_user_mozilla_plugin_dir(who)][p] # NONE)}

\* A run begins, with --auto on every file of the directories, or on the
\* files that are named (process_install, process_update, process_remove).
Begin(who, cmd, auto, native) ==
    /\ tool = NONE
    /\ runs < MaxRuns
    /\ runs' = runs + 1
    /\ \E dir \in IF auto \/ cmd = "install" THEN {"system"} ELSE {"system", get_user_mozilla_plugin_dir(who)} :
       \E todo \in LET all == IF cmd = "install" THEN Paths ELSE {p \in Paths : wrapper[dir][p] # NONE}
                    IN  IF auto THEN {all} ELSE {s \in SUBSET all : Cardinality(s) \in 1..MaxNamed} :
          tool' = [cmd |-> cmd, over |-> FALSE, who |-> who, auto |-> auto, native |-> native, dir |-> dir,
                   todo |-> todo, moving |-> NONE, failed |-> FALSE, loaded |-> NothingLoaded]
    /\ before' = Wrapped(who, wrapper)
    /\ settled' = IF cmd = "update" THEN settled ELSE 0
    /\ UNCHANGED <<world, wrapper>>

\* t is the run after the plugin p; ok says that all went well.  With --auto
\* nobody looks at that, without it the run ends at the first failure.
Proceed(t, p, ok) ==
    tool' = [t EXCEPT !.todo = IF ok \/ t.auto THEN @ \ {p} ELSE {},
                      !.failed = @ \/ ~ok, !.moving = NONE]

InProgress(cmd) == tool # NONE /\ ~tool.over /\ tool.cmd = cmd

\* A file is installed if it is a plugin that some viewer can run.  Without
\* --auto a native plugin silently ends the run.
InstallOne(p) ==
    /\ InProgress("install")
    /\ p \in tool.todo
    /\ LET f == elf[p]
           info == [path |-> p, mtime |-> 0, ident |-> 0, version |-> 0, target_arch |-> target_arch(f),
                    target_os |-> target_os(f), viewer |-> NONE]
           found == detect_plugin_viewer(f, info, viewers, tool.native)
           wanted == Visible(tool.who, p) /\ is_plugin_fd(f) /\ found.ret = "ok"
           r == install_plugin(tool, wrapper, p, found.info)
       IN  \/ /\ wanted
              /\ wrapper' = r.files
              /\ Proceed(tool, p, r.ok)
           \/ /\ ~wanted /\ wrapper' = wrapper
              /\ IF ~tool.auto /\ Visible(tool.who, p) /\ is_plugin_fd(f) /\ found.ret = "native"
                 THEN tool' = [tool EXCEPT !.todo = {}]
                 ELSE Proceed(tool, p, tool.auto)
    /\ UNCHANGED <<world, runs, settled, before>>

\* auto_remove_plugins, process_remove
RemoveOne(p) ==
    /\ InProgress("remove")
    /\ p \in tool.todo
    /\ LET r == remove_plugin(tool, wrapper, tool.dir, p)
       IN  /\ wrapper' = r.files
           /\ Proceed(tool, p, r.ok)
    /\ UNCHANGED <<world, runs, settled, before>>

\* auto_update_plugins, process_update: a wrapper that is to be moved is
\* removed in one step and installed in the next.  The wrapper, and the
\* system's for the same plugin, have been opened by then.
UpdateOne(p) ==
    /\ InProgress("update")
    /\ p \in tool.todo
    /\ tool.moving = NONE
    /\ LET own == dlopen(tool.loaded, wrapper, tool.dir, p)
           t == [tool EXCEPT !.loaded =
                    IF Visible(tool.who, p) THEN dlopen(own, wrapper, "system", p) ELSE own]
           what == update_plugin(t, wrapper, p)
           gone == remove_plugin(t, wrapper, t.dir, p)
           info == is_wrapper_plugin_handle(t.loaded[t.dir][p])
           again == install_plugin(t, wrapper, p, info)
       IN  \/ /\ what = "skip"
              /\ wrapper' = wrapper
              /\ Proceed(t, p, TRUE)
           \/ /\ what = "remove"
              /\ wrapper' = gone.files
              /\ Proceed(t, p, gone.ok)
           \/ /\ what = "move"
              /\ wrapper' = gone.files
              /\ IF gone.ok THEN tool' = [t EXCEPT !.moving = [p |-> p, info |-> info]]
                 ELSE Proceed(t, p, FALSE)
           \/ /\ what = "install"
              /\ wrapper' = again.files
              /\ Proceed(t, p, again.ok)
    /\ UNCHANGED <<world, runs, settled, before>>

Reinstall ==
    /\ InProgress("update")
    /\ tool.moving # NONE
    /\ LET r == install_plugin(tool, wrapper, tool.moving.p, tool.moving.info)
       IN  /\ wrapper' = r.files
           /\ Proceed(tool, tool.moving.p, r.ok)
    /\ UNCHANGED <<world, runs, settled, before>>

\* The files are done; on to the user's own directory, or the run is over.
EndOfDir ==
    /\ tool # NONE /\ ~tool.over
    /\ tool.todo = {}
    /\ LET dirs == get_mozilla_plugin_dirs(tool.who)
       IN  IF tool.auto /\ tool.dir = dirs[1] /\ tool.cmd # "install"
           THEN /\ tool' = [tool EXCEPT !.dir = dirs[2],
                               !.todo = {p \in Paths : wrapper[dirs[2]][p] # NONE}]
                /\ settled' = settled
           ELSE /\ tool' = [tool EXCEPT !.over = TRUE]
                /\ settled' = IF tool.cmd = "update" /\ tool.auto /\ tool.who = "root" /\ ~tool.failed
                                 /\ settled < 2
                              THEN settled + 1 ELSE settled
    /\ UNCHANGED <<world, wrapper, runs, before>>

Exit ==
    /\ tool # NONE /\ tool.over
    /\ tool' = NONE
    /\ UNCHANGED <<world, wrapper, runs, settled, before>>

\* The run is killed.
Killed ==
    /\ tool # NONE /\ ~tool.over
    /\ tool' = NONE
    /\ settled' = 0
    /\ UNCHANGED <<world, wrapper, runs, before>>

----------------------------------------------------------------------------
(* The world between two runs *)

\* What happens between two runs undoes what updates have settled.
WorldChanges ==
    /\ tool = NONE
    /\ changes < MaxChanges
    /\ changes' = changes + 1
    /\ settled' = 0
    /\ UNCHANGED <<wrapper, tool, runs, before>>

\* A plugin is removed, comes back, or is replaced by a newer or an older
\* file, which may be for another architecture.
PluginChanges(p) ==
    /\ WorldChanges
    /\ \E t \in (0..MaxTime) \ {mtime[p]} : mtime' = [mtime EXCEPT ![p] = t]
    /\ \/ elf' = elf
       \/ mtime'[p] # 0 /\ \E f \in Replacements : elf' = [elf EXCEPT ![p] = f]
    /\ UNCHANGED <<ident, viewers>>

\* Viewers are added or removed, as packages of their own.
ViewersChange ==
    /\ WorldChanges
    /\ viewers' \in ViewerSets \ {viewers}
    /\ UNCHANGED <<mtime, elf, ident>>

\* nspluginwrapper is upgraded: the tool and the master wrapper, and the
\* viewers that come with them.
Upgrade ==
    /\ WorldChanges
    /\ ident < MaxIdent
    /\ ident' = ident + 1
    /\ viewers' \in ViewerSets
    /\ UNCHANGED <<mtime, elf>>

InstallerNext ==
    \/ \E who \in Users, cmd \in {"install", "update", "remove"}, auto, native \in BOOLEAN :
          (native => cmd \in NativeCommands) /\ Begin(who, cmd, auto, native)
    \/ \E p \in Paths : InstallOne(p) \/ RemoveOne(p) \/ UpdateOne(p) \/ PluginChanges(p)
    \/ Reinstall
    \/ EndOfDir
    \/ Exit
    \/ Killed
    \/ Upgrade
    \/ ViewersChange

InstallerSpec == InstallerInit /\ [][InstallerNext]_installerVars

----------------------------------------------------------------------------
(* Properties *)

\* The files hold what their types say.
InstallerTypeOK ==
    /\ mtime \in [Paths -> 0..MaxTime]
    /\ ident \in 1..MaxIdent /\ viewers \in ViewerSets
    /\ \A d \in Dirs, p \in Paths :
          wrapper[d][p] # NONE => wrapper[d][p] \in NPW_PluginInfo /\ wrapper[d][p].path = p
    /\ tool # NONE => tool \in Commands
    /\ settled \in 0..2
    /\ before \subseteq Paths

\* A wrapper that needs no update: it was made by this version for a plugin
\* that exists and has not been replaced by a newer file since.
Current(d, p) ==
    /\ mtime[p] # 0
    /\ wrapper[d][p].ident = ident
    /\ wrapper[d][p].mtime >= mtime[p]

\* Two complete updates by root settle the system (auto_update_plugins): a
\* third one would find every wrapper of the system and of root current,
\* and none that is there twice.  One update is not enough, since a private
\* wrapper whose plugin goes to the system's directory is left for the next.
UpdatesSettle ==
    settled = 2 =>
        \A p \in Paths :
            /\ p \notin RootOnly /\ wrapper["system"][p] # NONE => Current("system", p)
            /\ wrapper["root"][p] # NONE => Current("root", p)
            /\ p \notin RootOnly /\ wrapper["system"][p] # NONE /\ wrapper["root"][p] # NONE
                  => wrapper["system"][p].mtime # mtime[p]

\* What update_plugin() says of a wrapper in the system's directory for a
\* plugin that only root can read: "we only need to know if there is a
\* system-wide plugin to be removed".
MisplacedIsMoved == settled = 2 => \A p \in RootOnly : wrapper["system"][p] = NONE

\* An update in which nothing failed leaves a wrapper for every plugin that
\* had one (update_plugin): what it removes is not needed any more.
UpdateLosesNothing ==
    tool # NONE /\ tool.over /\ tool.cmd = "update" /\ ~tool.failed
        => before \subseteq Wrapped(tool.who, wrapper)

\* The viewer that the wrapper file which an update reads was made with.
OldViewer(t, p) == is_wrapper_plugin_handle(t.loaded[t.dir][p]).viewer

\* The viewer of each wrapper file that a step writes.
WritesFit ==
    \A d \in Dirs, p \in Paths :
        wrapper'[d][p] \notin {NONE, wrapper[d][p]} =>
            /\ wrapper'[d][p].viewer # NONE
            /\ \/ /\ wrapper'[d][p].viewer \in DOMAIN viewers
                  /\ is_plugin_viewer_ok(wrapper'[d][p].viewer, elf[p], viewers)
               \/ tool.cmd = "update" /\ wrapper'[d][p].viewer = OldViewer(tool', p)

\* A wrapper is only written with a viewer that is installed and can run the
\* plugin as it is then (detect_plugin_viewer), unless it is an update, which
\* hands on the viewer of the wrapper it replaces as it is
\* (do_install_plugin looks for one only if there is none).  So a viewer goes
\* stale only when it is removed, or the plugin replaced by one it cannot
\* run, after it was found.
ViewerFits == [][WritesFit]_installerVars

=============================================================================
