---------------------------- MODULE MCRpcMethods ----------------------------
(* Values of every type for RpcMethods: NULL and empty ones, ones that fill *)
(* or overflow the buffer of a message, known and unknown ids.              *)
(* With it, as a part of its own, what comes before the first call: the     *)
(* connection (Connect), and between the browser and the calls the layer    *)
(* for Konqueror (Thunks).                                                  *)
EXTENDS RpcMethods, Thunks, Connect

VARIABLE part    \* the part that runs

Str(n) == [i \in 1 .. n |-> i]

MCString(f) == <<Str(0), Null, Str(2), Str(20), Str(16), Str(11)>>[f]

MCId(f) == <<Null, 1, 2, 1, 3, 2>>[f]

MCWindow(f) ==
  IF f = 2 THEN Null
  ELSE [window |-> f, x |-> 1, y |-> 2, width |-> 3, height |-> 4, type |-> f,
        clipRect |-> [top |-> 5, left |-> 6, bottom |-> 7, right |-> 8],
        ws_info |-> IF f = 3 THEN Null
                    ELSE [type |-> 1, visual |-> 9, colormap |-> 10, depth |-> 24]]

MCEvent(f) ==
  LET codes == <<13, 9, 7, 6, 4, 3>>
      any == [type |-> codes[f], serial |-> 1, send_event |-> 0, window |-> 2, x |-> 3, y |-> 4]
      pointer == any @@ [root |-> 5, subwindow |-> 6, time |-> 7, x_root |-> 8, y_root |-> 9,
                         state |-> 10, same_screen |-> 1]
  IN  << any @@ [width |-> 30, height |-> 40], any, pointer @@ [mode |-> 1, detail |-> 2, focus |-> 1],
         pointer @@ [is_hint |-> 1], pointer @@ [button |-> 2], pointer @@ [keycode |-> 33] >>[f]

MCPrint(f) ==
  IF f \in {1, 4} THEN [mode |-> NP_FULL, print |-> [pluginPrinted |-> 0, printOne |-> 1]]
  ELSE [mode |-> NP_EMBED, print |-> [window |-> MCWindow(IF f = 2 THEN 3 ELSE f)]]

MCObject(f) ==
  IF f = 1 THEN Null
  ELSE [proxy |-> f \in {2, 4}, id |-> 10 + f, plugin |-> MCId(f), last |-> f = 4]

MCVariant(f) ==
  << [type |-> VariantCode.Void],
     [type |-> VariantCode.Bool, value |-> 1],
     [type |-> VariantCode.Int32, value |-> -7],
     [type |-> VariantCode.String, value |-> [length |-> 20, chars |-> Str(20)]],
     [type |-> VariantCode.Object, value |-> MCObject(4)],
     [type |-> VariantCode.Double,
      value |-> [negative |-> 1, exponent |-> -3, mantissa0 |-> 5, mantissa1 |-> 6]] >>[f]

MCArray(e, f) ==
  IF f = 1 THEN [size |-> 0, p |-> Null]
  ELSE IF f = 2 THEN [size |-> IF e = "STRING" THEN 0 ELSE 2, p |-> Null]
  ELSE IF e = "CHAR" THEN [size |-> Len(MCString(f)), p |-> MCString(f)]
  ELSE [size |-> f - 2,
        p |-> [i \in 1 .. f - 2 |->
                 CASE e = "STRING" -> MCString(7 - i)
                   [] e = "NP_VARIANT" -> MCVariant(7 - i)
                   [] OTHER -> i]]

MCSample(t, f) ==
  CASE t \in {"BOOLEAN", "INT32", "UINT32", "NP_IDENTIFIER"} -> f
    [] t \in {"UINT64", "NP_NOTIFY_DATA"} -> 100 * f
    [] t = "STRING" -> MCString(f)
    [] t = "NP_UTF8" -> MCString(f)
    [] t = "NPW_PLUGIN_INSTANCE" -> MCId(f)
    [] t = "NP_STREAM" -> IF f = 1 THEN Null ELSE [sip |-> IF f = 2 THEN Null ELSE MCId(f)]
    [] t = "NP_BYTE_RANGE" -> [i \in 1 .. f - 1 |-> [offset |-> i, length |-> 2]]
    [] t = "NP_SAVED_DATA" -> MCString(f)
    [] t = "NP_RECT" -> [top |-> 1, left |-> 2, bottom |-> 3, right |-> f]
    [] t = "NP_WINDOW" -> MCWindow(f)
    [] t = "NP_EVENT" -> MCEvent(f)
    [] t = "NP_PRINT" -> MCPrint(f)
    [] t = "NP_PRINT_DATA" -> Str(f)
    [] t \in {"NP_OBJECT", "NP_OBJECT_PASS_REF"} -> MCObject(f)
    [] t = "NP_STRING" -> [length |-> 4 * (f - 1), chars |-> Str(4 * (f - 1))]
    [] t \in {"NP_VARIANT", "NP_VARIANT_PASS_REF"} -> MCVariant(f)
    [] IsArray(t) -> MCArray(ElementType[t], f)

----------------------------------------------------------------------------
(* The layer for Konqueror: sound browsers of both kinds, and its versions  *)
(* with long integers, in a process of their own and in the browser's       *)

MCSound ==
  [qApp |-> FALSE, getvalue |-> TRUE, x_display |-> 7, x_app_context |-> TRUE, name |-> "browser",
   user_agent |-> "Mozilla", npruntime_scripting |-> TRUE, long64 |-> FALSE]

MCKonqueror ==
  [MCSound EXCEPT !.qApp = TRUE, !.name = "nspluginviewer", !.npruntime_scripting = FALSE]

MCBrowsers ==
  {MCSound, [MCSound EXCEPT !.qApp = TRUE, !.npruntime_scripting = FALSE], MCKonqueror,
   [MCKonqueror EXCEPT !.long64 = TRUE],
   [MCKonqueror EXCEPT !.long64 = TRUE, !.name = "konqueror", !.user_agent = "Konqueror"]}

MCNPWindow ==
  [window |-> 3, x |-> 0, y |-> 0, width |-> 50, height |-> 40, clipRect |-> 3 * WordSize + 20,
   ws_info |-> 5, type |-> 1]

MCNPWindows ==
  {MCNPWindow, [MCNPWindow EXCEPT !.x = -1, !.clipRect = 0], [MCNPWindow EXCEPT !.y = 9],
   [MCNPWindow EXCEPT !.clipRect = 1], [MCNPWindow EXCEPT !.width = 0, !.type = 2],
   [MCNPWindow EXCEPT !.ws_info = 0]}

----------------------------------------------------------------------------
(* The connection: two copies of one wrapper in a browser *)

MCFileOf(w) == "plugin"
MCPidOf(w) == 1

MCVtableOf(end) == [i \in 1 .. 9 |-> [id |-> i, callback |-> end \o ToString(i)]]

----------------------------------------------------------------------------

MCInit ==
  /\ Init /\ ThunksInit /\ ConnectInit
  /\ part \in {"methods", "thunks", "connect"}
  /\ part # "thunks" => browser = MCSound

\* A browser may leave a connection alone; after a crash nothing happens.
MCNext ==
  /\ UNCHANGED part
  /\ \/ part = "methods" /\ Next /\ UNCHANGED <<thunkVars, connectVars>>
     \/ part = "thunks" /\ ThunksNext /\ UNCHANGED <<vars, connectVars>>
     \/ part = "thunks" /\ seen.call = "crash" /\ UNCHANGED <<vars, thunkVars, connectVars>>
     \/ part = "connect" /\ ConnectNext /\ UNCHANGED <<vars, thunkVars>>
     \/ part = "connect" /\ UNCHANGED <<vars, thunkVars, connectVars>>

MCSpec == MCInit /\ [][MCNext]_<<vars, thunkVars, connectVars, part>>
============================================================================
