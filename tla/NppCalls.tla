------------------------------ MODULE NppCalls ------------------------------
(* The calls of the browser to the plugin: the callers of npw-wrapper.c and *)
(* the handlers of npw-viewer.c.                                            *)
EXTENDS NpapiCalls

CONSTANT PrintDataMaxSize   \* bytes of the data of an NPPrintData (4096)
ASSUME PrintDataMaxSizeAssumption == PrintDataMaxSize \in Nat \ {0}

NPERR_STREAM_BUFSIZ == 65536

(* The wrapper *)

\* A call on an instance that returns an NPError
InstanceCall(method, args) ==
  Caller(method, <<"NPW_PLUGIN_INSTANCE">> \o args, <<NoInstance(NPERR.INVALID_INSTANCE)>>,
         <<"INT32">>, NPERR.GENERIC)

\* The new instance is passed by its id.
invoke_NPP_New ==
  Caller("NPP_NEW",
         <<"UINT32", "STRING", "INT32", "ARRAY_STRING", "ARRAY_STRING", "NP_SAVED_DATA">>,
         <<>>, <<"INT32">>, NPERR.GENERIC)

\* The saved data is the browser's; a browser that does not want it is not
\* modelled.
invoke_NPP_Destroy ==
  [InstanceCall("NPP_DESTROY", <<>>)
     EXCEPT !.results = <<"INT32", "NP_SAVED_DATA">>, !.disposed = SavedData({2})]

invoke_NPP_SetWindow == InstanceCall("NPP_SET_WINDOW", <<"NP_WINDOW">>)

\* The name and the description of the plugin are answered by the wrapper.
\* A form value is copied and freed, other strings are passed on.
invoke_NPP_GetValue ==
  [Caller("NPP_GET_VALUE", <<"NPW_PLUGIN_INSTANCE", "INT32">>,
          <<NoInstance(NPERR.INVALID_INSTANCE),
            If(2, {v \in 0 .. 30 : rpc_type_of_NPPVariable(v) = "GENERIC"}, NPERR.INVALID_PARAM)>>,
          <<"INT32", "NPPVariable">>, NPERR.GENERIC)
     EXCEPT !.variables = {3, 5, 6, 15, 16, 19}, !.disposed = Strings({2}) \cup Objects({2})]

invoke_NPP_URLNotify ==
  Caller("NPP_URL_NOTIFY", <<"NPW_PLUGIN_INSTANCE", "STRING", "INT32", "NP_NOTIFY_DATA">>,
         <<NoInstance(Void)>>, <<>>, Void)

invoke_NPP_NewStream ==
  [InstanceCall("NPP_NEW_STREAM",
                <<"STRING", "UINT32", "STRING", "UINT32", "UINT32", "NP_NOTIFY_DATA", "STRING",
                  "BOOLEAN">>)
     EXCEPT !.results = <<"INT32", "UINT32", "NP_NOTIFY_DATA">>]

invoke_NPP_DestroyStream == InstanceCall("NPP_DESTROY_STREAM", <<"NP_STREAM", "INT32">>)

invoke_NPP_StreamAsFile ==
  Caller("NPP_STREAM_AS_FILE", <<"NPW_PLUGIN_INSTANCE", "NP_STREAM", "STRING">>,
         <<NoInstance(Void)>>, <<>>, Void)

invoke_NPP_WriteReady ==
  Caller("NPP_WRITE_READY", <<"NPW_PLUGIN_INSTANCE", "NP_STREAM">>, <<NoInstance(0)>>,
         <<"INT32">>, NPERR_STREAM_BUFSIZ)

\* buf is NULL if len <= 0.
invoke_NPP_Write ==
  Caller("NPP_WRITE", <<"NPW_PLUGIN_INSTANCE", "NP_STREAM", "INT32", "ARRAY_CHAR">>,
         <<NoInstance(-1)>>, <<"INT32">>, -1)

\* A print that is neither full nor embedded is ignored.
invoke_NPP_Print ==
  Caller("NPP_PRINT", <<"NPW_PLUGIN_INSTANCE", "UINT32", "NP_PRINT">>,
         <<NoInstance(Void), If(3, {Null}, Void)>>, <<"BOOLEAN">>, Void)

invoke_NPP_HandleEvent ==
  Caller("NPP_HANDLE_EVENT", <<"NPW_PLUGIN_INSTANCE", "NP_EVENT">>,
         <<NoInstance(NPERR.INVALID_INSTANCE)>>, <<"INT32">>, 0)

invoke_NPP_ClearSiteData ==
  Caller("NPP_CLEAR_SITE_DATA", <<"STRING", "UINT64", "UINT64">>, <<>>, <<"INT32">>,
         NPERR.GENERIC)

invoke_NPP_GetSitesWithData ==
  [Caller("NPP_GET_SITES_WITH_DATA", <<>>, <<>>, <<"ARRAY_STRING">>, Null)
     EXCEPT !.disposed = Strings({1}) \cup Arrays({1})]

\* The capabilities of the plugin go into the table of its functions.
invoke_NP_Initialize ==
  [Caller("NP_INITIALIZE", <<"UINT32", "ARRAY_UINT32">>, <<>>,
          <<"INT32", "UINT32", "ARRAY_UINT32">>, NPERR.MODULE_LOAD_FAILED)
     EXCEPT !.disposed = Arrays({3})]

invoke_NP_Shutdown == Caller("NP_SHUTDOWN", <<>>, <<>>, <<"INT32">>, NPERR.GENERIC)

----------------------------------------------------------------------------
(* The viewer *)

\* A missing function of the plugin is an early return after that of a missing
\* instance.
InstanceHandler(args, refusals, results, disposed) ==
  Handler(<<"NPW_PLUGIN_INSTANCE">> \o args,
          <<NoInstance(NPERR.INVALID_INSTANCE), Unable(NPERR.INVALID_FUNCTABLE)>> \o refusals,
          results, disposed)

StreamHandler(args, ret, results, disposed) ==
  Handler(<<"NPW_PLUGIN_INSTANCE", "NP_STREAM">> \o args,
          <<NoInstance(ret), Unable(ret), If(2, {Null}, ret)>>, results, disposed)

handle_NP_GetMIMEDescription == Handler(<<>>, <<Unable(Null)>>, <<"STRING">>, {})

handle_NP_GetValue ==
  Handler(<<"INT32">>, <<Unable(NPERR.INVALID_FUNCTABLE)>>, <<"INT32", "NPPVariable">>, {})

\* The capabilities of the plugin are not initialised if it has no
\* NP_Initialize.
handle_NP_Initialize ==
  [Handler(<<"UINT32", "ARRAY_UINT32">>, <<Unable(NPERR.INVALID_FUNCTABLE)>>,
           <<"INT32", "UINT32", "ARRAY_UINT32">>, Arrays({2}))
     EXCEPT !.undefined = TRUE]

handle_NP_Shutdown == Handler(<<>>, <<Unable(NPERR.INVALID_FUNCTABLE)>>, <<"INT32">>, {})

handle_NPP_New ==
  Handler(<<"UINT32", "STRING", "INT32", "ARRAY_STRING", "ARRAY_STRING", "NP_SAVED_DATA">>,
          <<>>, <<"INT32">>, Strings({2, 4, 5}) \cup Arrays({4, 5}) \cup SavedData({6}))

\* save_area is not initialised if there is no instance.
handle_NPP_Destroy ==
  [Handler(<<"NPW_PLUGIN_INSTANCE">>, <<NoInstance(NPERR.INVALID_INSTANCE)>>,
           <<"INT32", "NP_SAVED_DATA">>, {})
     EXCEPT !.undefined = TRUE]

handle_NPP_SetWindow ==
  InstanceHandler(<<"NP_WINDOW">>, <<>>, <<"INT32">>,
                  {<<2, "window", "malloc">>, <<2, "ws_info", "malloc">>})

handle_NPP_GetValue == InstanceHandler(<<"INT32">>, <<>>, <<"INT32", "NPPVariable">>, {})

handle_NPP_URLNotify ==
  Handler(<<"NPW_PLUGIN_INSTANCE", "STRING", "INT32", "NP_NOTIFY_DATA">>,
          <<NoInstance(Void), Unable(Void)>>, <<>>, Strings({2}))

\* url and headers become the new stream's.
handle_NPP_NewStream ==
  InstanceHandler(<<"STRING", "UINT32", "STRING", "UINT32", "UINT32", "NP_NOTIFY_DATA", "STRING",
                    "BOOLEAN">>,
                  <<>>, <<"INT32", "UINT32", "NP_NOTIFY_DATA">>, Strings({2, 4, 8}))

handle_NPP_DestroyStream ==
  InstanceHandler(<<"NP_STREAM", "INT32">>, <<If(2, {Null}, NPERR.INVALID_PARAM)>>,
                  <<"INT32">>, {})

handle_NPP_WriteReady == StreamHandler(<<>>, 0, <<"INT32">>, {})

handle_NPP_Write == StreamHandler(<<"INT32", "ARRAY_CHAR">>, -1, <<"INT32">>, Arrays({4}))

handle_NPP_StreamAsFile == StreamHandler(<<"STRING">>, Void, <<>>, Strings({3}))

\* What is printed goes back in calls of NPN_PrintData before the reply.
handle_NPP_Print ==
  Handler(<<"NPW_PLUGIN_INSTANCE", "UINT32", "NP_PRINT">>, <<Unable(0)>>, <<"BOOLEAN">>,
          {<<3, "ws_info", "malloc">>})

\* The sizes of the NPPrintData for a file of so many bytes
PrintChunks(file_size) ==
  LET n == file_size \div PrintDataMaxSize IN
  IF file_size = 0 THEN <<>>
  ELSE [i \in 1 .. n + 1 |-> IF i <= n THEN PrintDataMaxSize ELSE file_size % PrintDataMaxSize]

handle_NPP_HandleEvent ==
  Handler(<<"NPW_PLUGIN_INSTANCE", "NP_EVENT">>, <<NoInstance(0), Unable(0)>>, <<"INT32">>, {})

handle_NPP_ClearSiteData ==
  Handler(<<"STRING", "UINT64", "UINT64">>, <<Unable(NPERR.INVALID_FUNCTABLE)>>, <<"INT32">>,
          Strings({1}))

handle_NPP_GetSitesWithData ==
  Handler(<<>>, <<Unable([size |-> 0, p |-> Null])>>, <<"ARRAY_STRING">>, {})

\* What do_main registers for the methods of the plugin
viewer_vtable ==
  [NP_GET_MIME_DESCRIPTION |-> handle_NP_GetMIMEDescription,
   NP_GET_VALUE |-> handle_NP_GetValue,
   NP_INITIALIZE |-> handle_NP_Initialize,
   NP_SHUTDOWN |-> handle_NP_Shutdown,
   NPP_NEW |-> handle_NPP_New,
   NPP_DESTROY |-> handle_NPP_Destroy,
   NPP_GET_VALUE |-> handle_NPP_GetValue,
   NPP_SET_WINDOW |-> handle_NPP_SetWindow,
   NPP_URL_NOTIFY |-> handle_NPP_URLNotify,
   NPP_NEW_STREAM |-> handle_NPP_NewStream,
   NPP_DESTROY_STREAM |-> handle_NPP_DestroyStream,
   NPP_WRITE_READY |-> handle_NPP_WriteReady,
   NPP_WRITE |-> handle_NPP_Write,
   NPP_STREAM_AS_FILE |-> handle_NPP_StreamAsFile,
   NPP_PRINT |-> handle_NPP_Print,
   NPP_HANDLE_EVENT |-> handle_NPP_HandleEvent,
   NPP_CLEAR_SITE_DATA |-> handle_NPP_ClearSiteData,
   NPP_GET_SITES_WITH_DATA |-> handle_NPP_GetSitesWithData]

WrapperCallers ==
  [NPP_New |-> invoke_NPP_New,
   NPP_Destroy |-> invoke_NPP_Destroy,
   NPP_SetWindow |-> invoke_NPP_SetWindow,
   NPP_GetValue |-> invoke_NPP_GetValue,
   NPP_URLNotify |-> invoke_NPP_URLNotify,
   NPP_NewStream |-> invoke_NPP_NewStream,
   NPP_DestroyStream |-> invoke_NPP_DestroyStream,
   NPP_StreamAsFile |-> invoke_NPP_StreamAsFile,
   NPP_WriteReady |-> invoke_NPP_WriteReady,
   NPP_Write |-> invoke_NPP_Write,
   NPP_Print |-> invoke_NPP_Print,
   NPP_HandleEvent |-> invoke_NPP_HandleEvent,
   NPP_ClearSiteData |-> invoke_NPP_ClearSiteData,
   NPP_GetSitesWithData |-> invoke_NPP_GetSitesWithData,
   NP_Initialize |-> invoke_NP_Initialize,
   NP_Shutdown |-> invoke_NP_Shutdown]
============================================================================
