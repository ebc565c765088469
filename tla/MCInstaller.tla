---------------------------- MODULE MCInstaller ----------------------------
(* A plugin for another architecture, one that only root can read, and a   *)
(* native one, with or without viewers.  Each may be replaced by a plugin  *)
(* for either architecture, or by a file that is not a plugin.             *)
EXTENDS Installer

NP == <<"NP_GetMIMEDescription", "NP_Initialize", "NP_Shutdown">>
Elf(machine, osabi, names) ==
    [class |-> IF machine = "i386" THEN 32 ELSE 64, dyn |-> TRUE, machine |-> machine,
     osabi |-> osabi, sunw |-> FALSE,
     symbols |-> [i \in 1..Len(names) |-> [name |-> names[i], func |-> names[i] # "NPW_Plugin"]]]

MCFiles == [flash |-> Elf("i386", "none", NP), private |-> Elf("i386", "linux", NP),
            native |-> Elf("x86_64", "linux", NP)]
MCReplacements == {Elf("i386", "none", NP), Elf("x86_64", "linux", NP),
                   Elf("i386", "none", <<"NP_Initialize", "NP_Shutdown">>)}
MCPaths == DOMAIN MCFiles
MCRootOnly == {"private"}
MCViewerSpecs == <<{"ARCH", "OS"}, {}>>

In(arch, os) == [arch |-> arch, os |-> os]
MCViewerSets == {[v \in {} |-> "i386"],
                 [v \in {In("i386", "linux"), In("", "")} |-> IF v.arch = "" THEN "x86_64" ELSE "i386"]}
=============================================================================
