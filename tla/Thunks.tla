------------------------------- MODULE Thunks -------------------------------
(* The layer between a 64-bit Konqueror and the NPP functions of the        *)
(* wrapper (src/src/npw-wrapper.c, "LONG64 NPAPI support").  Some versions  *)
(* of that browser take NPAPI's 32-bit integers for longs, so that the      *)
(* fields of its structures are at other places.  The wrapper finds out at  *)
(* the first call that shows it, and remembers.                             *)
(*                                                                          *)
(* A structure is the sequence of its 32-bit words, low word first, as the  *)
(* browser wrote it; a pointer is a number of two words.                    *)
EXTENDS Marshal

CONSTANTS
  Browsers,      \* what the wrapper may find out about the browser
  NPStreams,     \* streams of the browser: numbers from 1
  NPWindows      \* windows the browser may set, as it means them

\* The number of values of a word
W == WordSize

VARIABLES
  browser,               \* the browser, a member of Browsers
  g_use_long64_thunks,   \* -1: not known yet; 0; 1
  settled,               \* the call that settled it
  stream64,              \* the browser's NPStream in memory; <<>>: none
  stream32,              \* the wrapper's copy of it; <<>>: none
  refused,               \* streams of which the plugin did not want the last one
  seen                   \* the last NPP call: what was meant and what came

thunkVars == <<browser, g_use_long64_thunks, settled, stream64, stream32, refused, seen>>

----------------------------------------------------------------------------
(* Structures in memory *)

Member(name, words) == [name |-> name, words |-> words]

NPWindow ==
  <<Member("window", 2), Member("x", 1), Member("y", 1), Member("width", 1), Member("height", 1),
    Member("clipRect", 2), Member("ws_info", 2), Member("type", 1)>>
LONG64_NPWindow ==
  <<Member("window", 2), Member("x", 2), Member("y", 2), Member("width", 2), Member("height", 2),
    Member("clipRect", 2), Member("ws_info", 2), Member("type", 1)>>

NPStream ==
  <<Member("pdata", 2), Member("ndata", 2), Member("url", 2), Member("end", 1),
    Member("lastmodified", 1), Member("notifyData", 2), Member("headers", 2)>>
LONG64_NPStream ==
  <<Member("pdata", 2), Member("ndata", 2), Member("url", 2), Member("end", 2),
    Member("lastmodified", 2), Member("notifyData", 2), Member("headers", 2)>>

\* NPSavedData and NPSetWindowCallbackStruct begin with an integer that is
\* followed by padding where it is not a long.
NPSavedData == <<Member("len", 1), Member("pad", 1), Member("buf", 2)>>
LONG64_NPSavedData == <<Member("len", 2), Member("buf", 2)>>

Names(layout) == {layout[i].name : i \in DOMAIN layout}

\* The words of a number, in two's complement
Words(v, n) == IF n = 1 THEN <<v % W>> ELSE <<v % W, (v \div W) % W>>

Store(layout, rec) ==
  FlattenSeq([i \in DOMAIN layout |-> Words(rec[layout[i].name], layout[i].words)])

\* The place of a field is the sum of the sizes of those before it.
Offset(layout, i) ==
  FoldLeft(LAMBDA n, f : n + f.words, 0, SubSeq(layout, 1, i - 1))

Load(layout, mem, name) ==
  LET i == CHOOSE j \in DOMAIN layout : layout[j].name = name
      o == Offset(layout, i)
  IN  IF layout[i].words = 1 THEN mem[o + 1] ELSE mem[o + 1] + W * mem[o + 2]

\* NP_CVT32, NP_CVT64: each field is assigned to the field of its name.
Convert(to, from, mem) ==
  Store(to, [n \in Names(to) |-> IF n \in Names(from) THEN Load(from, mem, n) ELSE 0])

convert_from_LONG64_NPWindow(mem) == Convert(NPWindow, LONG64_NPWindow, mem)
convert_from_LONG64_NPStream(mem) == Convert(NPStream, LONG64_NPStream, mem)
convert_from_LONG64_NPSavedData(mem) == Convert(NPSavedData, LONG64_NPSavedData, mem)
convert_from_NPSavedData(mem) == Convert(LONG64_NPSavedData, NPSavedData, mem)

\* What the code behind the layer finds in a structure
Found(layout, mem) == [n \in Names(layout) \ {"pad"} |-> Load(layout, mem, n)]

----------------------------------------------------------------------------
(* Which browser is it *)

NP_SETWINDOW == 1
NPWindowTypes == {1, 2}    \* NPWindowTypeWindow, NPWindowTypeDrawable

\* dlsym("qApp"), NPNVxDisplay and NPNVxtAppContext, then the name of the
\* application or the user agent
is_konqueror(b) ==
  /\ b.qApp /\ b.getvalue /\ b.x_display # 0 /\ b.x_app_context
  /\ (b.name = "nspluginviewer") \/ (b.user_agent = "Konqueror")

\* The thunks are put into the browser's table by NP_Initialize.
Installed == ~browser.npruntime_scripting /\ is_konqueror(browser)

is_browser_display(b, display) == b.getvalue /\ display = b.x_display

\* ws_info is [type, display]; its display is at the same place either way.
is_LONG64_NPSetWindowCallbackStruct(b, ws) ==
  ws.type \in {0, NP_SETWINDOW} /\ is_browser_display(b, ws.display)

\* Mutant: the type of the good layout is not looked at.
is_LONG64_NPWindowAnyType(b, mem, ws) ==
  /\ Load(NPWindow, mem, "x") \in {0, W - 1}
  /\ Load(LONG64_NPWindow, mem, "type") \in NPWindowTypes
  /\ is_LONG64_NPSetWindowCallbackStruct(b, ws)

\* The fields of the one layout where the other has its high words: on a
\* little endian machine x, y and the clip rectangle's first corner.
HasLongs(mem) ==
  /\ Load(NPWindow, mem, "x") \in {0, W - 1}
  /\ Load(NPWindow, mem, "width") \in {0, W - 1}
  /\ Load(NPWindow, mem, "type") \notin NPWindowTypes
  /\ Load(LONG64_NPWindow, mem, "type") \in NPWindowTypes

is_LONG64_NPWindow(b, mem, ws) ==
  HasLongs(mem) /\ is_LONG64_NPSetWindowCallbackStruct(b, ws)

----------------------------------------------------------------------------
(* The thunks.  A call that the layer passes on is seen with what it meant  *)
(* and what the function behind the layer finds.                            *)

Passes(call, meant, got) == seen' = [call |-> call, meant |-> meant, got |-> got]

set_use_long64_thunks(call, enabled) ==
  /\ g_use_long64_thunks' = IF enabled THEN 1 ELSE 0
  /\ settled' = call

Undecided == Installed /\ g_use_long64_thunks < 0

\* The value of the flag that the rest of the call sees
Thunking == Installed /\ g_use_long64_thunks' = 1

\* A window at the origin whose clip rectangle does not begin like a type
Telling(w) == w # Null /\ w.x \in {-1, 0} /\ w.y \in {-1, 0} /\ w.clipRect % W \notin NPWindowTypes

\* A structure as the browser has it in memory.  The words beyond its end,
\* which the layer may read, are whatever they are.
Memory(long64, short, rec, beyond) ==
  IF browser.long64 THEN Store(long64, rec) ELSE Store(short, rec) \o [i \in 1..5 |-> beyond]

\* The first call looks into the window and, if it may be one of longs, into its
\* ws_info; a conversion looks into both.
FollowsNull(w, mem) ==
  \/ w = Null /\ Installed /\ g_use_long64_thunks # 0
  \/ /\ w # Null /\ w.ws_info = 0
     /\ \/ Undecided /\ HasLongs(mem)
        \/ Installed /\ g_use_long64_thunks = 1

\* The browser's process ends in a segmentation fault.
Crash ==
  /\ seen' = [call |-> "crash", meant |-> 0, got |-> 0]
  /\ UNCHANGED <<browser, g_use_long64_thunks, settled, stream64, stream32, refused>>

PassWindow(w, mem) ==
  LET ws == [type |-> NP_SETWINDOW, display |-> browser.x_display]
      passed == IF Thunking THEN convert_from_LONG64_NPWindow(mem) ELSE mem
      what(m) == IF w = Null THEN Null ELSE Found(NPWindow, m)
  IN  /\ IF Undecided
         THEN set_use_long64_thunks(IF Telling(w) THEN "SetWindow" ELSE "SetWindow elsewhere",
                                    is_LONG64_NPWindow(browser, mem, ws))
         ELSE UNCHANGED <<g_use_long64_thunks, settled>>
      /\ Passes("NPP_SetWindow", IF w = Null THEN Null ELSE Found(NPWindow, Store(NPWindow, w)),
                what(passed))
      /\ UNCHANGED <<browser, stream64, stream32, refused>>

g_LONG64_NPP_SetWindow ==
  \E w \in NPWindows \cup {Null}, beyond \in {0, 1} :
    \E mem \in {IF w = Null THEN <<>> ELSE Memory(LONG64_NPWindow, NPWindow, w, beyond)} :
      IF FollowsNull(w, mem) THEN Crash ELSE PassWindow(w, mem)

Saved == [len |-> 5, pad |-> 0, buf |-> 3]

g_LONG64_NPP_New ==
  LET mem == Memory(LONG64_NPSavedData, NPSavedData, Saved, 0)
      passed == IF Thunking THEN convert_from_LONG64_NPSavedData(mem) ELSE mem
  IN  /\ UNCHANGED <<browser, g_use_long64_thunks, settled, stream64, stream32, refused>>
      /\ Passes("NPP_New", Found(NPSavedData, Store(NPSavedData, Saved)), Found(NPSavedData, passed))

\* What the browser finds in the saved data that the plugin leaves; without
\* conversion it gets none.
g_LONG64_NPP_Destroy ==
  LET own == IF browser.long64 THEN LONG64_NPSavedData ELSE NPSavedData
      mem == convert_from_NPSavedData(Store(NPSavedData, Saved))
  IN  /\ UNCHANGED <<browser, g_use_long64_thunks, settled, stream64, stream32, refused>>
      /\ IF Installed /\ ~Thunking THEN UNCHANGED seen
         ELSE Passes("NPP_Destroy", Found(NPSavedData, Store(NPSavedData, Saved)),
                     Found(own, IF Thunking THEN mem ELSE Store(NPSavedData, Saved)))

Address64(s) == 10 * s
Address32(s) == 10 * s + 1
Instance(s)  == 10 * s + 2        \* the StreamInstance of g_NPP_NewStream

Meant(s) == [pdata |-> 0, ndata |-> 0, url |-> 4, end |-> 7, lastmodified |-> 8,
             notifyData |-> 9, headers |-> 6]

\* The place of the first words, pdata, is the same in both layouts.
SetPdata(mem, p) == Words(p, 2) \o SubSeq(mem, 3, Len(mem))

\* The copy of a stream, if the browser's stream has one that points back
get_stream32(s) ==
  LET p == Load(NPStream, stream64[s], "pdata")
  IN  IF \E t \in NPStreams : /\ p = Address32(t) /\ stream32[t] # <<>>
                              /\ Load(NPStream, stream32[t], "ndata") = Address64(s)
      THEN stream32[CHOOSE t \in NPStreams : p = Address32(t)]
      ELSE stream64[s]

\* g_NPP_NewStream sets the pdata of the stream it is given.  A browser may
\* have a stream before it sets a window.  If the plugin refuses a stream, the
\* browser gives it up, and the copy stays where nobody looks for it.
g_LONG64_NPP_NewStream(s, taken) ==
  LET mem == Memory(LONG64_NPStream, NPStream, Meant(s), 0)
      copy == [convert_from_LONG64_NPStream(mem) EXCEPT ![3] = Address64(s)]
      passed == IF Thunking THEN copy ELSE mem
      kept == SetPdata(passed, Instance(s))
  IN  /\ stream64[s] = <<>>
      /\ IF Undecided THEN set_use_long64_thunks("NewStream", FALSE)
         ELSE UNCHANGED <<g_use_long64_thunks, settled>>
      /\ refused' = IF taken THEN refused \ {s} ELSE refused \cup {s}
      /\ stream64' = [stream64 EXCEPT ![s] =
                        IF ~taken THEN <<>>
                        ELSE IF Thunking THEN SetPdata(mem, Address32(s)) ELSE kept]
      /\ stream32' = [stream32 EXCEPT ![s] = IF Thunking THEN kept ELSE @]
      /\ Passes("NPP_NewStream", [Meant(s) EXCEPT !.ndata = IF Thunking THEN Address64(s) ELSE 0],
                Found(NPStream, passed))
      /\ UNCHANGED browser

\* NPP_WriteReady, NPP_Write, NPP_StreamAsFile: the code behind the layer
\* goes by the pdata of the stream; offset and length are cut to 32 bits.
OnStream(s, call, meant, got) ==
  /\ stream64[s] # <<>>
  /\ Passes(call, <<Instance(s), meant>>, <<Load(NPStream, get_stream32(s), "pdata"), got>>)

g_LONG64_NPP_WriteReady(s) ==
  /\ OnStream(s, "NPP_WriteReady", 0, 0)
  /\ UNCHANGED <<browser, g_use_long64_thunks, settled, stream64, stream32, refused>>

g_LONG64_NPP_Write(s) ==
  /\ \E offset \in {0, W - 1} : OnStream(s, "NPP_Write", offset, offset % W)
  /\ UNCHANGED <<browser, g_use_long64_thunks, settled, stream64, stream32, refused>>

g_LONG64_NPP_StreamAsFile(s) ==
  /\ OnStream(s, "NPP_StreamAsFile", 0, 0)
  /\ UNCHANGED <<browser, g_use_long64_thunks, settled, stream64, stream32, refused>>

\* The copy is freed, and pdata is what g_NPP_DestroyStream left or NULL;
\* the browser gives its stream up.
g_LONG64_NPP_DestroyStream(s) ==
  /\ OnStream(s, "NPP_DestroyStream", 0, 0)
  /\ stream32' = [stream32 EXCEPT ![s] = IF Installed /\ g_use_long64_thunks # 0 THEN <<>> ELSE @]
  /\ stream64' = [stream64 EXCEPT ![s] = <<>>]
  /\ UNCHANGED <<browser, g_use_long64_thunks, settled, refused>>

\* The layer looks at the NPPrint where it means the NPPrintCallbackStruct:
\* the mode NP_FULL is the number NP_PRINT, and the flags that follow are
\* taken for the file.
NP_PRINT == 2

is_LONG64_NPPrintCallbackStruct(info) == info.mode = NP_PRINT /\ info.flags # 0

\* In embedded mode the platform's structure comes after the window, whose
\* size the layer takes for that of a sound browser.
g_LONG64_NPP_Print ==
  \E info \in [mode : {NP_EMBED, NP_FULL}, flags : {0, 1}] :
    /\ IF Undecided THEN set_use_long64_thunks("Print", is_LONG64_NPPrintCallbackStruct(info))
       ELSE UNCHANGED <<g_use_long64_thunks, settled>>
    /\ Passes("NPP_Print", "platformPrint",
              IF browser.long64 /\ info.mode = NP_EMBED THEN "ws_info" ELSE "platformPrint")
    /\ UNCHANGED <<browser, stream64, stream32, refused>>

----------------------------------------------------------------------------

ThunksInit ==
  /\ browser \in Browsers
  /\ g_use_long64_thunks = -1
  /\ settled = "nothing"
  /\ stream64 = [s \in NPStreams |-> <<>>]
  /\ stream32 = [s \in NPStreams |-> <<>>]
  /\ refused = {}
  /\ seen = [call |-> "none", meant |-> 0, got |-> 0]

ThunksNext ==
  /\ seen.call # "crash"
  /\ \/ g_LONG64_NPP_SetWindow
     \/ g_LONG64_NPP_New
     \/ g_LONG64_NPP_Destroy
     \/ g_LONG64_NPP_Print
     \/ \E s \in NPStreams : \/ \E taken \in BOOLEAN : g_LONG64_NPP_NewStream(s, taken)
                             \/ g_LONG64_NPP_WriteReady(s)
                             \/ g_LONG64_NPP_Write(s)
                             \/ g_LONG64_NPP_StreamAsFile(s)
                             \/ g_LONG64_NPP_DestroyStream(s)

----------------------------------------------------------------------------
(* Properties *)

\* A browser is known for what it is if the wrapper could tell: a sound one
\* always but when the first thing it does is to print; one with long
\* integers when it sets a window at the origin before it does anything else
\* (is_LONG64_NPWindow, is_LONG64_NPPrintCallbackStruct).
Recognised ==
  \/ ~browser.long64 /\ settled # "Print"
  \/ browser.long64 /\ Installed /\ settled = "SetWindow"

\* From then on every NPP function behind the layer finds in its arguments
\* what the browser meant, of windows, streams and saved data, and on every
\* stream its own instance; a stream has its copy, and a copy outlives its
\* stream only if that was refused (g_LONG64_NPP_*, get_stream32).  A window
\* that is not there, or has no ws_info, is no harm once a browser is known to
\* be sound, and never to one without the layer; before that, and to one with
\* long integers, it is the end.
ThunksFitBrowser ==
  /\ seen.call = "crash" => Installed /\ g_use_long64_thunks # 0
  /\ Recognised =>
       /\ seen.got = seen.meant \/ (browser.long64 /\ seen.call = "NPP_Print")
       /\ settled = "SetWindow" =>
            \A s \in NPStreams :
               /\ stream32[s] # <<>> => stream64[s] # <<>> \/ s \in refused
               /\ browser.long64 /\ stream64[s] # <<>> => stream32[s] # <<>>
=============================================================================
