----------------------------- MODULE PlayerMain -----------------------------
(***************************************************************************)
(* The command line of the player (npw-player.c): main() reads it one      *)
(* argument at a time into plugin descriptors, makes an app with a window  *)
(* for each, and every app's timeout finds its plugin and starts it with   *)
(* the attributes as the arguments of NPP_New.                             *)
(*                                                                         *)
(* An argument is an option, a bare name or a name with a value; the value *)
(* of src is a URI with a scheme (or none) and a path from a directory.    *)
(***************************************************************************)
EXTENDS Naturals, Sequences, FiniteSets

CONSTANTS
    Arguments,       \* records [option], [bare] or [name, value]
    MaxArguments,    \* bound: length of the command line
    DEFAULT_WIDTH,
    strdown(_),      \* external: g_ascii_strdown on the names
    LocalFiles,      \* the URIs that name a file that exists
    KnownTypes,      \* the MIME types that some plugin has
    MimeOfUri(_),    \* that of the plugin for a URI's extension, or NoDesc
    WindowWidths,    \* what the window manager may resize a window to
    NoDesc

VARIABLES
    argv,         \* the command line
    argi,         \* the argument that is looked at next
    plugin_desc,  \* the descriptor that is being filled, or NoDesc
    plugin_descs, \* those that are complete
    player,       \* "arguments", "loop", "quitting", "aborted" or the exit status
    apps,         \* per plugin: its window's width, whether that has changed, and
                  \* whether its timeout is to come
    started       \* per plugin: the arguments of its NPP_New, or NoDesc

mainVars == <<argv, argi, plugin_desc, plugin_descs, player, apps, started>>

Argvs == UNION {[1 .. n -> Arguments] : n \in 0 .. MaxArguments}

MainInit ==
    /\ argv \in Argvs
    /\ argi = 1
    /\ plugin_desc = NoDesc /\ plugin_descs = <<>>
    /\ player = "arguments"
    /\ apps = <<>> /\ started = <<>>

Is(a, field) == field \in DOMAIN a
IsOption(a, o) == Is(a, "option") /\ a.option = o

\* Options with a value take the next argument, if there is one.
Takes(a) == Is(a, "option") /\ a.option \in {"--title", "--xid", "--backend"}

\* A URI without a scheme that names a local file becomes a file: URI with
\* the whole path; what names no file is left to libcurl.
sanitize_url(uri) ==
    IF uri.scheme # "none" \/ uri \notin LocalFiles THEN uri
    ELSE [uri EXCEPT !.scheme = "file", !.dir = IF uri.dir = "root" THEN "root" ELSE "cwd"]

\* The arguments with a value, and what they say: a width or an attribute,
\* in lower case.
Named == {a \in Arguments : Is(a, "name")}
Widths == {a.value : a \in {b \in Named : strdown(b.name) = "width"}}
AttributeOf(a) ==
    <<strdown(a.name), IF strdown(a.name) = "src" THEN sanitize_url(a.value) ELSE a.value>>
Attributes == {AttributeOf(a) : a \in {b \in Named : strdown(b.name) # "width"}}

Descriptors == [width : {DEFAULT_WIDTH} \cup Widths, mode : {"NP_EMBED", "NP_FULL"}, attrs : SUBSET Attributes]

ASSUME ArgumentsAssumption ==
    /\ \A a \in Arguments : DOMAIN a \in {{"option"}, {"bare"}, {"name", "value"}}
    /\ NoDesc \notin Descriptors \cup KnownTypes

plugin_descriptor_new == [width |-> DEFAULT_WIDTH, mode |-> "NP_FULL", attrs |-> {}]

\* As a slip would have it: a name that is given again is added again.
SetAttributeTwice(d, name, value) == [d EXCEPT !.attrs = @ \cup {<<name, value>>}]

\* g_hash_table_insert: the value of a name that is there already goes.
SetAttribute(d, name, value) ==
    [d EXCEPT !.attrs = {a \in @ : a[1] # name} \cup {<<name, value>>}]

\* A bare name is a mode or is skipped; width and height are the window's;
\* the rest are attributes, in lower case.
Attribute(d, a) ==
    IF Is(a, "bare")
    THEN CASE a.bare = "embed" -> [d EXCEPT !.mode = "NP_EMBED"]
           [] a.bare = "full"  -> [d EXCEPT !.mode = "NP_FULL"]
           [] OTHER -> d
    ELSE CASE strdown(a.name) = "width" -> [d EXCEPT !.width = a.value]
           [] strdown(a.name) = "src" -> SetAttribute(d, "src", sanitize_url(a.value))
           [] OTHER -> SetAttribute(d, strdown(a.name), a.value)

Current == IF plugin_desc = NoDesc THEN plugin_descriptor_new ELSE plugin_desc

AddDesc(descs, d) == IF d = NoDesc THEN descs ELSE Append(descs, d)

\* One round of the loop over the arguments.
ReadArgument ==
    /\ player = "arguments" /\ argi <= Len(argv)
    /\ LET a == argv[argi]
       IN  /\ argi' = IF Takes(a) THEN argi + 2 ELSE argi + 1
           /\ player' = IF IsOption(a, "--help") THEN "exit 0" ELSE player
           /\ IF Is(a, "option")
              THEN IF IsOption(a, "--plugin")
                   THEN /\ plugin_descs' = AddDesc(plugin_descs, plugin_desc)
                        /\ plugin_desc' = plugin_descriptor_new
                   ELSE UNCHANGED <<plugin_desc, plugin_descs>>
              ELSE /\ plugin_desc' = Attribute(Current, a)
                   /\ UNCHANGED plugin_descs
    /\ UNCHANGED <<argv, apps, started>>

\* After it: the last descriptor, and the apps; or the usage.
EndOfArguments ==
    /\ player = "arguments" /\ argi > Len(argv)
    /\ plugin_descs' = AddDesc(plugin_descs, plugin_desc)
    /\ player' = IF plugin_descs' = <<>> THEN "exit 1" ELSE "loop"
    /\ apps' = [k \in 1 .. Len(plugin_descs') |->
                   [width |-> plugin_descs'[k].width, resized |-> FALSE, due |-> TRUE]]
    /\ started' = [k \in 1 .. Len(plugin_descs') |-> NoDesc]
    /\ UNCHANGED <<argv, argi, plugin_desc>>

Running == player \in {"loop", "quitting"}

\* The window of app k has a new size, or is made as large as the screen.
DisplayChanges(k, width) ==
    /\ Running
    /\ apps' = [apps EXCEPT ![k].width = width, ![k].resized = TRUE]
    /\ UNCHANGED <<argv, argi, plugin_desc, plugin_descs, player, started>>

HasAttribute(attrs, name) == \E a \in attrs : a[1] = name
LookupAttribute(attrs, name) == (CHOOSE a \in attrs : a[1] = name)[2]

\* The MIME type of the object a plugin is found for, by its type or else by its
\* src, or NoDesc.
ObjectType(attrs) ==
    CASE HasAttribute(attrs, "type") ->
            IF LookupAttribute(attrs, "type") \in KnownTypes THEN LookupAttribute(attrs, "type") ELSE NoDesc
      [] ~HasAttribute(attrs, "type") /\ HasAttribute(attrs, "src") -> MimeOfUri(LookupAttribute(attrs, "src"))
      [] OTHER -> NoDesc

\* The type found by the src is an attribute from then on.
WithType(attrs) ==
    IF HasAttribute(attrs, "type") THEN attrs ELSE attrs \cup {<<"type", ObjectType(attrs)>>}

\* The attributes, and the width the window has by now.
g_NPP_New(k) ==
    started' = [started EXCEPT ![k] =
        [mode |-> plugin_descs[k].mode,
         args |-> WithType(plugin_descs[k].attrs) \cup {<<"width", apps[k].width>>}]]

\* The timeout of app k.  Without a plugin for the object g_error ends the player;
\* a plugin that cannot be initialized, or a step of plugin_start that fails after
\* NPP_New, ends the main loop, which still runs the timeouts that are due.
StartPlugin(k) ==
    /\ Running /\ apps[k].due
    /\ apps' = [apps EXCEPT ![k].due = FALSE]
    /\ IF ObjectType(plugin_descs[k].attrs) = NoDesc
       THEN player' = "aborted" /\ UNCHANGED started
       ELSE \/ player' = "quitting" /\ UNCHANGED started
            \/ player' \in {player, "quitting"} /\ g_NPP_New(k)
    /\ UNCHANGED <<argv, argi, plugin_desc, plugin_descs>>

\* The end of gtk_main().
EndOfLoop ==
    /\ player = "quitting"
    /\ player' = "exit 0"
    /\ UNCHANGED <<argv, argi, plugin_desc, plugin_descs, apps, started>>

MainNext ==
    \/ ReadArgument
    \/ EndOfArguments
    \/ \E k \in DOMAIN started : \/ \E width \in WindowWidths : DisplayChanges(k, width)
                                 \/ StartPlugin(k)
    \/ EndOfLoop

----------------------------------------------------------------------------
(* Properties *)

\* The arguments that are not the value of an option before them.
OwnOf(v) ==
    CHOOSE own \in SUBSET (1 .. Len(v)) :
        \A j \in 1 .. Len(v) : j \in own <=> j = 1 \/ ~(j - 1 \in own /\ Takes(v[j - 1]))
Own == OwnOf(argv)

\* The arguments about plugins are divided by --plugin.
Section(j) == Cardinality({i \in Own : i <= j /\ IsOption(argv[i], "--plugin")})
Sections == {Section(j) : j \in {i \in Own : IsOption(argv[i], "--plugin") \/ ~Is(argv[i], "option")}}
SectionOf(k) == CHOOSE s \in Sections : Cardinality({r \in Sections : r <= s}) = k

\* The value that section s gives a name the last time.
Given(s, name) ==
    {j \in Own : Section(j) = s /\ Is(argv[j], "name") /\ strdown(argv[j].name) = name}
LastOf(J) == argv[CHOOSE j \in J : \A i \in J : i <= j].value

GivenValue(s, name) ==
    IF name = "src" THEN sanitize_url(LastOf(Given(s, name))) ELSE LastOf(Given(s, name))

\* Each plugin that is started gets the attributes that its part of the
\* command line gives, each name once and with the value given last,
\* whatever case it is written in, and none of another plugin (main,
\* player_app_run, g_NPP_New).  Its part gives a type that a plugin has, or else a
\* src that says one, which it then gets as its type; and it gets one width,
\* which is the given one as long as the window has not been resized.
AttributesReachPlugin ==
    \A k \in DOMAIN started : started[k] # NoDesc =>
        LET s == SectionOf(k)
            names == {strdown(argv[j].name) : j \in {i \in Own : Section(i) = s /\ Is(argv[i], "name")}}
            asked_width == IF "width" \in names THEN GivenValue(s, "width") ELSE DEFAULT_WIDTH
            found_type == IF "type" \in names THEN GivenValue(s, "type") ELSE MimeOfUri(GivenValue(s, "src"))
        IN  /\ Len(started) = Cardinality(Sections)
            /\ IF "type" \in names THEN found_type \in KnownTypes ELSE "src" \in names /\ found_type # NoDesc
            /\ \E width \in {asked_width} \cup WindowWidths :
                  /\ ~apps[k].resized => width = asked_width
                  /\ started[k].args = {<<n, GivenValue(s, n)>> : n \in names \ {"width"}}
                                          \cup {<<"type", found_type>>, <<"width", width>>}
=============================================================================
