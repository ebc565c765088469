------------------------------ MODULE MCPlayer ------------------------------
(* The player with one plugin and one stream.  As parts of their own: its  *)
(* choice of a plugin from up to three directories of up to two modules    *)
(* (PlayerPlugins), its command line (PlayerMain), its functions for the   *)
(* plugin (PlayerBrowser), and the widget for the plugin's window (XtBin). *)
EXTENDS Player, PlayerPlugins, PlayerMain, PlayerBrowser, XtBin

CONSTANT x1      \* the bin with widgets in it

VARIABLE part    \* the part that runs

MCPluginDirs == <<"home", "MOZ_PLUGIN_PATH", "system">>

Desc(m, e) == <<[mime |-> m, extensions |-> e, complete |-> TRUE]>>
MCModules ==
    {[kind |-> "plugin", desc |-> Desc("m1", <<"e1", "e2">>)],
     [kind |-> "plugin", desc |-> Desc("m2", <<"e2">>)],
     [kind |-> "plugin", desc |-> Desc("m2", <<>>)],
     [kind |-> "other",  desc |-> <<>>],
     [kind |-> "no_getvalue", desc |-> Desc("m1", <<"e1">>)],
     [kind |-> "plugin",
      desc |-> <<[mime |-> "m1", extensions |-> <<"e1">>, complete |-> FALSE]>>]}
MCContents == {<<>>} \cup {<<m>> : m \in MCModules} \cup
              {<<m, n>> : m, n \in {k \in MCModules : k.kind = "plugin" /\ k.desc # Desc("m2", <<>>)}}

----------------------------------------------------------------------------
(* The command line, the plugin's objects and its widgets *)

Uri(scheme, dir, path) == [scheme |-> scheme, dir |-> dir, path |-> path]
MCArguments ==
    {[option |-> "--plugin"], [option |-> "--title"], [option |-> "--help"], [bare |-> "embed"],
     [name |-> "src", value |-> Uri("http", "host", "p")],
     [name |-> "SRC", value |-> Uri("none", "", "p.e1")],
     [name |-> "type", value |-> "m1"], [name |-> "type", value |-> "m3"],
     [name |-> "width", value |-> "3"]}
MCstrdown(n) == IF n = "SRC" THEN "src" ELSE n
MCLocalFiles == {Uri("none", "", "p.e1")}
MCMimeOfUri(u) == IF u.path = "p.e1" THEN "m2" ELSE NoDesc

MCClasses == {{}, {"allocate", "invoke", "getProperty", "hasProperty", "hasMethod"}}
MCIntegers31 == {-8, 5}

MCHome(c) == x1

----------------------------------------------------------------------------

MCInit ==
    /\ Init /\ ChoiceInit /\ MainInit /\ BrowserInit /\ XtInit
    /\ part \in {"streams", "choice", "command line", "browser", "widgets"}
    /\ part # "command line" => argv = <<>>

MCNext ==
    /\ UNCHANGED part
    /\ \/ part = "streams" /\ Next /\ UNCHANGED <<choiceVars, mainVars, browserVars, xtVars>>
       \/ part = "choice" /\ ChoiceNext /\ UNCHANGED <<vars, mainVars, browserVars, xtVars>>
       \/ part = "command line" /\ MainNext /\ UNCHANGED <<vars, choiceVars, browserVars, xtVars>>
       \/ part = "browser" /\ BrowserNext /\ UNCHANGED <<vars, choiceVars, mainVars, xtVars>>
       \/ part = "widgets" /\ XtNext /\ UNCHANGED <<vars, choiceVars, mainVars, browserVars>>

MCSpec ==
    /\ MCInit /\ [][MCNext]_<<vars, choiceVars, mainVars, browserVars, xtVars, part>>
    /\ Fairness
=============================================================================
