----------------------------- MODULE ViewerInfo -----------------------------
(***************************************************************************)
(* What a wrapper knows of its plugin before it is started: plugin_init    *)
(* (npw-wrapper.c) runs the viewer with --info, whose do_info              *)
(* (npw-viewer.c) prints the plugin's name, description and MIME types,    *)
(* each as a line with tag and length and a line with the string.  The     *)
(* plugin's own library may print, too, while it is loaded.                *)
(*                                                                         *)
(* The pipe is a sequence of characters.  A word and a number, whoever     *)
(* prints them, is taken for one: plugin_init's sscanf takes every line     *)
(* with one for a tag, and reads as many characters behind it as it says.  *)
(* All other characters are no blanks.                                     *)
(***************************************************************************)
EXTENDS Naturals, Sequences, SequencesExt

CONSTANTS
    Plugins,     \* the plugins that are tried, of those below
    Texts,       \* what a plugin may answer: sequences of characters
    Chatter,     \* what its library may print while it is loaded
    LineSize,    \* characters fgets reads into line[256] at most: 255
    Newline,     \* the character
    NoText       \* NULL

VARIABLES
    library,     \* the plugin: does it open, its symbols and its answers
    pipe,        \* what the wrapper has still to read
    viewer_exit, \* exit status of viewer --info, or "running", or "killed"
    g_plugin,    \* name, description and formats in the wrapper
    reading      \* "none": not started; "lines", "rest" of a long line, "done"

infoVars == <<library, pipe, viewer_exit, g_plugin, reading>>

Fields == {"PLUGIN_NAME", "PLUGIN_DESC", "PLUGIN_MIME"}
Words == Fields \cup {"other"}

ASSUME InfoAssumption ==
    /\ LineSize \in Nat \ {0, 1}
    /\ NoText \notin Texts /\ Newline \notin [tag : Words, len : Nat]
    /\ \A t \in Texts \cup Chatter :
          /\ Len(t) \in Nat /\ t = [i \in 1 .. Len(t) |-> t[i]]
          /\ \A i \in 1 .. Len(t) :
                t[i] = Newline \/ "tag" \notin DOMAIN t[i] \/ t[i] \in [tag : {"other"}, len : Nat]

Symbols == {"NP_GetMIMEDescription", "NP_Initialize", "NP_Shutdown", "NP_GetValue"}

\* NP_GetValue is looked up without a check; without it there is neither
\* name nor description, and with a description a bad version shows.
Libraries ==
    {l \in [opens : BOOLEAN, symbols : {Symbols, Symbols \ {"NP_Shutdown"}, Symbols \ {"NP_GetValue"}},
            beta1 : BOOLEAN, chatter : Chatter, answers : [Fields -> Texts \cup {NoText}]] :
        "NP_GetValue" \notin l.symbols =>
            ~l.beta1 /\ l.answers.PLUGIN_NAME = NoText /\ l.answers.PLUGIN_DESC = NoText}

InfoInit ==
    /\ library \in Plugins \cap Libraries
    /\ pipe = <<>>
    /\ viewer_exit = "none"
    /\ g_plugin = [f \in Fields |-> NoText]
    /\ reading = "none"

----------------------------------------------------------------------------
(* The viewer *)

do_test ==
    CASE "NP_GetMIMEDescription" \notin library.symbols -> 1
      [] "NP_Initialize" \notin library.symbols -> 2
      [] "NP_Shutdown" \notin library.symbols -> 3
      [] library.beta1 -> 4
      [] OTHER -> 0

Tag(f, n) == [tag |-> f, len |-> n]
Printed(f) ==
    IF library.answers[f] = NoText THEN <<>>
    ELSE <<Tag(f, Len(library.answers[f])), Newline>> \o library.answers[f] \o <<Newline>>

\* do_info: nothing if the plugin is not fit to run.
do_info ==
    IF do_test # 0 THEN <<>>
    ELSE Printed("PLUGIN_NAME") \o Printed("PLUGIN_DESC") \o Printed("PLUGIN_MIME")

\* main() with --info --plugin: the library is opened and its functions are
\* looked up, of which NP_GetValue may be missing.
Output == IF library.opens THEN library.chatter \o do_info ELSE <<>>
Status == IF ~library.opens \/ ~(Symbols \ {"NP_GetValue"} \subseteq library.symbols) \/ do_test # 0
          THEN "1" ELSE "0"

\* popen() in plugin_init, and the viewer's run.  It may be killed, and then
\* any part of what it would have printed is in the pipe.
RunViewer ==
    /\ reading = "none"
    /\ \/ viewer_exit' = Status /\ pipe' = Output
       \/ /\ viewer_exit' = "killed"
          /\ \E n \in 0 .. Len(Output) : pipe' = SubSeq(Output, 1, n)
    /\ reading' = "lines"
    /\ UNCHANGED <<library, g_plugin>>

----------------------------------------------------------------------------
(* The wrapper *)

IsTag(c) == c # Newline /\ "tag" \in DOMAIN c

\* As a slip would have it: fgets does not mind lines.
fgetsOfBytes(s, n) == SubSeq(s, 1, IF Len(s) < n THEN Len(s) ELSE n)

\* External: what fgets returns of s, at most n characters and no more than
\* to the end of the line.
fgets(s, n) ==
    LET upto == IF Len(s) < n THEN Len(s) ELSE n
        ends == {i \in 1 .. upto : s[i] = Newline}
    IN  SubSeq(s, 1, IF ends = {} THEN upto ELSE CHOOSE i \in ends : \A j \in ends : i <= j)

After(s, line) == SubSeq(s, Len(line) + 1, Len(s))
Whole(line) == line # <<>> /\ Last(line) = Newline

\* sscanf: a word, which may begin with other characters, and a number.
Announces(line) == Whole(line) /\ \E i \in 1 .. Len(line) : IsTag(line[i])
Announced(line) ==
    line[CHOOSE i \in 1 .. Len(line) : IsTag(line[i]) /\ \A h \in 1 .. i - 1 : ~IsTag(line[h])].len
IsOwn(line) == IsTag(line[1]) /\ line[1].tag \in Fields

\* Behind a string of which the end was a word and a number: these were read
\* in part only, and of the word there may be something left.
Remains(rest, str) ==
    {After(rest, str)} \cup
    IF str # <<>> /\ IsTag(Last(str)) THEN {<<Tag("other", Last(str).len)>> \o After(rest, str)} ELSE {}

\* The string that a line announces: stored if its tag is one of ours, and
\* dropped if not.
TakeString(line, rest, str) ==
    IF IsOwn(line)
    THEN /\ pipe' = After(rest, str)
         /\ g_plugin' = IF line[1].len = 0 \/ str # <<>>
                        THEN [g_plugin EXCEPT ![line[1].tag] = str] ELSE g_plugin
    ELSE pipe' \in Remains(rest, str) /\ UNCHANGED g_plugin

\* One round of plugin_init's loop: a line that is too long is skipped to
\* its end (reading = "rest"), one that announces nothing is skipped.
ReadLine ==
    /\ reading = "lines" /\ pipe # <<>>
    /\ \E line \in {fgets(pipe, LineSize)} : \E rest \in {After(pipe, line)} :
         /\ IF Announces(line) THEN TakeString(line, rest, fgets(rest, Announced(line)))
            ELSE pipe' = rest /\ UNCHANGED g_plugin
         /\ reading' = IF Whole(line) THEN "lines" ELSE "rest"
    /\ UNCHANGED <<library, viewer_exit>>

ReadRest ==
    /\ reading = "rest" /\ pipe # <<>>
    /\ \E line \in {fgets(pipe, LineSize)} :
         /\ pipe' = After(pipe, line)
         /\ reading' = IF Whole(line) THEN "lines" ELSE "rest"
    /\ UNCHANGED <<library, viewer_exit, g_plugin>>

\* The end of the pipe: pclose().
EndOfInfo ==
    /\ reading \in {"lines", "rest"} /\ pipe = <<>>
    /\ reading' = "done"
    /\ UNCHANGED <<library, pipe, viewer_exit, g_plugin>>

InfoNext == RunViewer \/ ReadLine \/ ReadRest \/ EndOfInfo

----------------------------------------------------------------------------
(* Properties *)

OneLine(text) == \A i \in 1 .. Len(text) : text[i] # Newline
IsQuiet(text) == \A i \in 1 .. Len(text) : ~IsTag(text[i])

\* What the wrapper has of a string, if it has it all, or nothing, or what
\* a viewer that is killed has printed of it.
IsRead(f) ==
    \/ viewer_exit = "0" /\ g_plugin[f] = library.answers[f]
    \/ viewer_exit = "1" /\ g_plugin[f] = NoText
    \/ viewer_exit = "killed" /\ (g_plugin[f] # NoText => IsPrefix(g_plugin[f], library.answers[f]))

\* What the wrapper tells the browser of its plugin is what the plugin
\* says: the strings of any length, behind chatter with lines of any
\* length; of a viewer that is killed it may be the beginning of a string.
\* Chatter with a word and a number in a line takes what comes behind it for
\* a string, which may cost the plugin some of its own; but what is told is
\* never anything else.  For plugins with strings of one line, and chatter
\* of whole lines (do_info, plugin_init).
InfoIsThePlugins ==
    (/\ reading = "done"
     /\ \A f \in Fields : library.answers[f] # NoText => OneLine(library.answers[f])
     /\ library.chatter # <<>> => Last(library.chatter) = Newline) =>
        \A f \in Fields :
            IsRead(f) \/ (~IsQuiet(library.chatter) /\ g_plugin[f] = NoText)
=============================================================================
