---------------------------- MODULE PluginFiles ----------------------------
(***************************************************************************)
(* What nspluginwrapper(1) reads of a file (npw-config.c and               *)
(* npw-config-template.h): whether an ELF file is an NPAPI plugin and for  *)
(* which system, which of the installed viewers can run it, and what an    *)
(* NPW_PluginInfo block written by any earlier version says.               *)
(***************************************************************************)
EXTENDS Naturals, Sequences, FiniteSets, SequencesExt

CONSTANTS
    HostArch, HostOS,   \* HOST_ARCH and HOST_OS
    ViewerSpecs,        \* NPW_VIEWER_PATHS: each the set of the variables in it
    InfoVersion,        \* NPW_PLUGIN_INFO_VERSION
    NONE                \* no such file

ASSUME PluginFilesAssumption ==
    /\ ViewerSpecs \in Seq(SUBSET {"ARCH", "OS"})
    /\ InfoVersion \in Nat /\ InfoVersion >= 2

\* An ELF file: dyn is e_type = ET_DYN with a .dynsym section, symbols its
\* global symbols in the order of the table.  A symbol that occurs twice is
\* counted twice.
is_elf_plugin_fd(f) ==
    LET np == SelectSeq(f.symbols, LAMBDA s : s.func /\ s.name \in
                   {"NP_GetMIMEDescription", "NP_Initialize", "NP_Shutdown"})
    IN  /\ f.dyn
        /\ Len(np) = 3
        /\ ~\E i \in 1..Len(f.symbols) : f.symbols[i].name = "NPW_Plugin" /\ ~f.symbols[i].func

\* The class chooses the layout to read the file with; the two readers are
\* one template.
is_plugin_fd(f) == f.class \in {32, 64} /\ is_elf_plugin_fd(f)

Arches == {"i386", "x86_64", "sparc", "ppc", "ppc64"}
Systems == {"linux", "solaris", "freebsd"}

\* The system of the file; "" when e_machine or EI_OSABI are not known, as
\* for the files most linkers make (ELFOSABI_NONE).
target_arch(f) == IF f.machine \in Arches THEN f.machine ELSE ""

target_os(f) ==
    CASE f.osabi \in Systems -> f.osabi
      [] f.osabi \notin Systems /\ f.sunw -> "solaris"
      [] OTHER -> ""

\* The names to put for a variable: that of the plugin, then the default.
TargetTable(known, default) == IF known = "" THEN <<default>> ELSE <<known, default>>

Directory == [arch : {""} \cup Arches, os : {""} \cup Systems]

\* The directory a spec stands for.  A variable that is not in it leaves no
\* trace.
strexpand(spec, arch, os) ==
    [arch |-> IF "ARCH" \in spec THEN arch ELSE "", os |-> IF "OS" \in spec THEN os ELSE ""]

\* Runs the viewer with --test: it can load plugins of its own architecture.
is_plugin_viewer_ok(viewer, f, viewers) == viewers[viewer] = f.machine

\* The candidates, each at its place in the three loops.  Once a viewer that
\* exists has failed, the loops over a variable that the spec has not are
\* left.  To try such a viewer again would give the same answer.
Candidates(info) ==
    LET archs == TargetTable(info.target_arch, "i386")
        oses == TargetTable(info.target_os, "linux")
    IN  [place \in (1..Len(ViewerSpecs)) \X (1..Len(archs)) \X (1..Len(oses)) |->
            [arch |-> archs[place[2]], os |-> oses[place[3]],
             viewer |-> strexpand(ViewerSpecs[place[1]], archs[place[2]], oses[place[3]])]]

Before(a, b) ==
    \/ a[1] < b[1]
    \/ a[1] = b[1] /\ a[2] < b[2]
    \/ a[1] = b[1] /\ a[2] = b[2] /\ a[3] < b[3]

First(places) == CHOOSE a \in places : \A b \in places \ {a} : Before(a, b)

Recorded(info, candidate) ==
    [info EXCEPT !.target_arch = candidate.arch, !.target_os = candidate.os, !.viewer = candidate.viewer]

\* As a slip would have it: any viewer that is there will do.
detect_plugin_viewerUntested(f, info, viewers, native) ==
    LET all == Candidates(info)
        there == {a \in DOMAIN all : all[a].viewer \in DOMAIN viewers}
    IN  IF there = {} THEN [ret |-> "not_found", info |-> info]
        ELSE [ret |-> "ok", info |-> Recorded(info, all[First(there)])]

\* The first viewer that works is recorded, with the names it was found by.
detect_plugin_viewer(f, info, viewers, native) ==
    LET all == Candidates(info)
        works == {a \in DOMAIN all : all[a].viewer \in DOMAIN viewers
                                          /\ is_plugin_viewer_ok(all[a].viewer, f, viewers)}
    IN  CASE ~native /\ info.target_arch = HostArch /\ info.target_os = HostOS ->
                [ret |-> "native", info |-> info]
          [] works # {} /\ (native \/ info.target_arch # HostArch \/ info.target_os # HostOS) ->
                [ret |-> "ok", info |-> Recorded(info, all[First(works)])]
          [] OTHER -> [ret |-> "not_found", info |-> info]

\* What the block of a wrapper says: versions 0 and 1 lack the last fields.
is_wrapper_plugin_handle(block) ==
    [block EXCEPT !.target_arch = IF block.version >= 1 THEN @ ELSE "",
                  !.target_os   = IF block.version >= 1 THEN @ ELSE "",
                  !.viewer      = IF block.version >= 2 THEN @ ELSE NONE]
=============================================================================
