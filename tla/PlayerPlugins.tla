--------------------------- MODULE PlayerPlugins ---------------------------
(***************************************************************************)
(* How the player finds the plugin for an object (npw-player.c): the       *)
(* plugin directories that exist, the modules they hold, the data types    *)
(* each plugin declares, and the first one that fits.                      *)
(***************************************************************************)
EXTENDS Naturals, Sequences

CONSTANTS
    PluginDirs,   \* the places looked at, in the order of get_plugin_dirs()
    Types,        \* MIME types
    Extensions,   \* of the names of files
    DirContents,  \* what may be in a directory
    NONE          \* no plugin, no attribute

VARIABLES
    asked,    \* the directories that exist, what is in them, and the attributes
              \* type and src (by its extension) of the object, or NONE
    chosen    \* app->plugin and the object's MIME type, or NONE

choiceVars == <<asked, chosen>>

(* A module of a directory: kind is "plugin", "no_getvalue" (everything    *)
(* but NP_GetValue) or "other"; desc is NP_GetMIMEDescription(), a sequence *)
(* of entries with a mime type, a list of extensions and, when it is       *)
(* complete, a description.                                                *)
MimeDescriptions == Seq([mime : Types, extensions : Seq(Extensions), complete : BOOLEAN])
Modules == [kind : {"plugin", "no_getvalue", "other"}, desc : MimeDescriptions]

Places == 1..Len(PluginDirs)
Plugins == [dir : {PluginDirs[r] : r \in Places}, desc : MimeDescriptions]

ASSUME PluginsAssumption ==
    /\ Len(PluginDirs) \in Nat
    /\ DirContents \subseteq Seq(Modules)
    /\ NONE \notin Types /\ NONE \notin Extensions
    /\ NONE \notin Seq(Plugins) /\ NONE \notin [plugin : Plugins, mime : Types]

\* As a slip would have it: the directories are kept in the order found.
get_plugin_dirsInOrder(exists) == SelectSeq(PluginDirs, LAMBDA d : d \in exists)

\* Each directory that exists is put in front of those found before.
get_plugin_dirs(exists) ==
    LET dirs[n \in 0..Len(PluginDirs)] ==
            IF n = 0 THEN <<>>
            ELSE IF PluginDirs[n] \in exists THEN <<PluginDirs[n]>> \o dirs[n - 1] ELSE dirs[n - 1]
    IN  dirs[Len(PluginDirs)]

is_npapi_plugin(module) == module.kind \in {"plugin", "no_getvalue"}

\* plugin_new(): NP_GetValue is required here.
plugin_new(module) == module.kind = "plugin"

\* g_error ends the player over a plugin that cannot be initialized.
CanLoad(contents) ==
    \A d \in DOMAIN contents : \A i \in 1..Len(contents[d]) :
        is_npapi_plugin(contents[d][i]) => plugin_new(contents[d][i])

\* Each plugin is put in front.
player_app_load_plugin(plugins, dir, module) ==
    IF is_npapi_plugin(module) THEN <<[dir |-> dir, desc |-> module.desc]>> \o plugins ELSE plugins

\* The modules of one directory.
player_app_load_plugins(plugins, dir, modules) ==
    LET loaded[n \in 0..Len(modules)] ==
            IF n = 0 THEN plugins ELSE player_app_load_plugin(loaded[n - 1], dir, modules[n])
    IN  loaded[Len(modules)]

\* The data types a description declares, in the order of entries and of
\* extensions: one per extension, and only of the entries that have all
\* their parts.
DataTypes(desc) ==
    {place \in UNION {{i} \X (1..Len(desc[i].extensions)) : i \in 1..Len(desc)} : desc[place[1]].complete}

Earlier(a, b) == a[1] < b[1] \/ (a[1] = b[1] /\ a[2] <= b[2])

plugin_get_data_types(desc) ==
    [place \in DataTypes(desc) |->
        [mime |-> desc[place[1]].mime, extension |-> desc[place[1]].extensions[place[2]]]]

\* The first plugin with a data type whose field is the value, and that
\* type's MIME type.
find_plugin_custom(plugins, field, value) ==
    LET types(i) == plugin_get_data_types(plugins[i].desc)
        fits(i) == {place \in DOMAIN types(i) : types(i)[place][field] = value}
        found == {i \in 1..Len(plugins) : fits(i) # {}}
        first == CHOOSE i \in found : \A j \in found : i <= j
        type == CHOOSE a \in fits(first) : \A b \in fits(first) : Earlier(a, b)
    IN  IF found = {} THEN NONE
        ELSE [plugin |-> plugins[first], mime |-> types(first)[type].mime]

\* The plugins of all directories.
LoadedPlugins(contents) ==
    LET dirs == get_plugin_dirs(DOMAIN contents)
        loaded[n \in 0..Len(dirs)] ==
            IF n = 0 THEN <<>> ELSE player_app_load_plugins(loaded[n - 1], dirs[n], contents[dirs[n]])
    IN  loaded[Len(dirs)]

\* The plugin for an object with a type or, failing that, with a src whose
\* extension says it.
find_plugin(plugins, type, extension) ==
    CASE type # NONE -> find_plugin_custom(plugins, "mime", type)
      [] type = NONE /\ extension # NONE -> find_plugin_custom(plugins, "extension", extension)
      [] OTHER -> NONE

----------------------------------------------------------------------------
(* The choice *)

ChoiceInit == asked = NONE /\ chosen = NONE

\* The first part of player_app_run().  The player ends over an object
\* without a plugin, too.
LookupPlugin ==
    /\ asked = NONE
    /\ \E exists \in SUBSET {PluginDirs[r] : r \in Places} : \E contents \in [exists -> DirContents] :
          \E type \in Types \cup {NONE}, extension \in Extensions \cup {NONE} :
              /\ asked' = [contents |-> contents, type |-> type, extension |-> extension]
              /\ \/ ~CanLoad(contents) /\ chosen' = NONE
                 \/ /\ CanLoad(contents)
                    /\ chosen' = find_plugin(LoadedPlugins(contents), type, extension)

ChoiceNext == LookupPlugin

----------------------------------------------------------------------------
(* Property *)

\* A module is a plugin for the type, or else for the extension.
Offers(module, type, extension) ==
    /\ module.kind = "plugin"
    /\ \E i \in 1..Len(module.desc) :
          /\ module.desc[i].complete
          /\ \E j \in 1..Len(module.desc[i].extensions) :
                IF type # NONE THEN module.desc[i].mime = type
                ELSE module.desc[i].extensions[j] = extension

PreferredPlugin(found, contents, type, extension) ==
    LET ranks == {r \in Places : PluginDirs[r] \in DOMAIN contents /\
                     \E i \in 1..Len(contents[PluginDirs[r]]) :
                         Offers(contents[PluginDirs[r]][i], type, extension)}
    IN  CanLoad(contents) =>
           IF ranks = {} THEN found = NONE
           ELSE /\ found # NONE
                /\ found.plugin.dir = PluginDirs[CHOOSE r \in ranks : \A q \in ranks : r <= q]
                /\ \E i \in 1..Len(found.plugin.desc) : found.plugin.desc[i].mime = found.mime

\* The user's own directory is asked before MOZ_PLUGIN_PATH and that before
\* the directories of the system, although both the list of directories
\* and the list of plugins are built back to front (get_plugin_dirs,
\* player_app_run); and the MIME type that goes with an extension is one the
\* plugin declares for it.
HomePluginsFirst ==
    asked # NONE => PreferredPlugin(chosen, asked.contents, asked.type, asked.extension)
=============================================================================
