------------------------------ MODULE NpnCalls ------------------------------
(* The calls of the plugin to the browser: the callers of npw-viewer.c and *)
(* the handlers of npw-wrapper.c.                                          *)
EXTENDS NpapiCalls

(* The viewer *)

NPErrorCall(method, args, refusals) ==
  Caller(method, args, <<Unable(NPERR.INVALID_INSTANCE)>> \o refusals, <<"INT32">>, NPERR.GENERIC)

VoidCall(method, args, refusals) ==
  Caller(method, args, <<Unable(Void)>> \o refusals, <<>>, Void)

\* The functions on scriptable objects return FALSE, 0, when they fail.
ScriptCall(method, args, refusals, results) ==
  Caller(method, <<"NPW_PLUGIN_INSTANCE", "NP_OBJECT">> \o args,
         <<Unable(0), NoInstance(0), If(2, {Null}, 0)>> \o refusals, <<"UINT32">> \o results, 0)

\* The result is the plugin's.
VariantCall(method, args, refusals) ==
  [ScriptCall(method, args, refusals, <<"NP_VARIANT_PASS_REF">>)
     EXCEPT !.disposed = Variants({2})]

invoke_NPN_GetURL ==
  NPErrorCall("NPN_GET_URL", <<"NPW_PLUGIN_INSTANCE", "STRING", "STRING">>,
              <<NoInstance(NPERR.INVALID_INSTANCE)>>)

invoke_NPN_GetURLNotify ==
  NPErrorCall("NPN_GET_URL_NOTIFY",
              <<"NPW_PLUGIN_INSTANCE", "STRING", "STRING", "NP_NOTIFY_DATA">>,
              <<NoInstance(NPERR.INVALID_INSTANCE)>>)

\* The variables the browser is asked for; the viewer answers the others.
g_NPN_GetValue == {3, 14, 15, 16, 17, 18, 22}

\* A string is copied for the plugin and freed.
invoke_NPN_GetValue ==
  [Caller("NPN_GET_VALUE", <<"NPW_PLUGIN_INSTANCE", "UINT32">>,
          <<Unable(NPERR.INVALID_INSTANCE), If2(1, {Null}, 2, {3}, NPERR.INVALID_INSTANCE)>>,
          <<"INT32", "NPNVariable">>, NPERR.GENERIC)
     EXCEPT !.variables = g_NPN_GetValue,
            !.disposed = Strings({2}) \cup Objects({2})]

invoke_NPN_InvalidateRect ==
  VoidCall("NPN_INVALIDATE_RECT", <<"NPW_PLUGIN_INSTANCE", "NP_RECT">>,
           <<NoInstance(Void), If(2, {Null}, Void)>>)

invoke_NPN_PostURL ==
  NPErrorCall("NPN_POST_URL",
              <<"NPW_PLUGIN_INSTANCE", "STRING", "STRING", "ARRAY_CHAR", "BOOLEAN">>,
              <<NoInstance(NPERR.INVALID_INSTANCE)>>)

invoke_NPN_PostURLNotify ==
  NPErrorCall("NPN_POST_URL_NOTIFY",
              <<"NPW_PLUGIN_INSTANCE", "STRING", "STRING", "ARRAY_CHAR", "BOOLEAN",
                "NP_NOTIFY_DATA">>,
              <<NoInstance(NPERR.INVALID_INSTANCE)>>)

invoke_NPN_RequestRead ==
  NPErrorCall("NPN_REQUEST_READ", <<"NP_STREAM", "NP_BYTE_RANGE">>,
              <<If(1, {Null, [sip |-> Null]}, NPERR.INVALID_PARAM),
                If(2, {<<>>}, NPERR.INVALID_PARAM)>>)

\* Only Boolean variables can be set.
invoke_NPN_SetValue ==
  [NPErrorCall("NPN_SET_VALUE", <<"NPW_PLUGIN_INSTANCE", "UINT32", "BOOLEAN">>,
               <<NoInstance(NPERR.INVALID_INSTANCE),
                 If(2, {v \in 0 .. 30 : rpc_type_of_NPPVariable(v) # "BOOLEAN"},
                    NPERR.INVALID_PARAM)>>)
     EXCEPT !.variables = {1, 3, 15}]

invoke_NPN_Status == VoidCall("NPN_STATUS", <<"NPW_PLUGIN_INSTANCE", "STRING">>, <<>>)

\* The answer is kept for later calls.
invoke_NPN_UserAgent ==
  [Caller("NPN_USER_AGENT", <<>>, <<Unable(Null)>>, <<"STRING">>, Null)
     EXCEPT !.disposed = Strings({1})]

\* url and headers become the stream's, or are freed if there is none.
invoke_NPN_NewStream ==
  [Caller("NPN_NEW_STREAM", <<"NPW_PLUGIN_INSTANCE", "STRING", "STRING">>,
          <<Unable(NPERR.INVALID_INSTANCE), NoInstance(NPERR.INVALID_INSTANCE)>>,
          <<"INT32", "UINT32", "STRING", "UINT32", "UINT32", "NP_NOTIFY_DATA", "STRING">>,
          NPERR.GENERIC)
     EXCEPT !.unsent = NPERR.OUT_OF_MEMORY, !.disposed = Strings({3, 7})]

invoke_NPN_DestroyStream ==
  NPErrorCall("NPN_DESTROY_STREAM", <<"NPW_PLUGIN_INSTANCE", "NP_STREAM", "INT32">>,
              <<NoInstance(NPERR.INVALID_INSTANCE), If(2, {Null}, NPERR.INVALID_PARAM)>>)

invoke_NPN_Write ==
  Caller("NPN_WRITE", <<"NPW_PLUGIN_INSTANCE", "NP_STREAM", "ARRAY_CHAR">>,
         <<Unable(-1), NoInstance(-1), If(2, {Null}, -1)>>, <<"INT32">>, -1)

invoke_NPN_PushPopupsEnabledState ==
  VoidCall("NPN_PUSH_POPUPS_ENABLED_STATE", <<"NPW_PLUGIN_INSTANCE", "UINT32">>,
           <<NoInstance(Void)>>)

invoke_NPN_PopPopupsEnabledState ==
  VoidCall("NPN_POP_POPUPS_ENABLED_STATE", <<"NPW_PLUGIN_INSTANCE">>, <<NoInstance(Void)>>)

invoke_NPN_Invoke ==
  VariantCall("NPN_INVOKE", <<"NP_IDENTIFIER", "ARRAY_NP_VARIANT">>, <<>>)

invoke_NPN_InvokeDefault ==
  VariantCall("NPN_INVOKE_DEFAULT", <<"ARRAY_NP_VARIANT">>, <<>>)

\* Nothing to evaluate is evaluated: 1 is TRUE.
invoke_NPN_Evaluate ==
  VariantCall("NPN_EVALUATE", <<"NP_STRING">>, <<If(3, {[length |-> 0, chars |-> <<>>]}, 1)>>)

invoke_NPN_GetProperty ==
  VariantCall("NPN_GET_PROPERTY", <<"NP_IDENTIFIER">>, <<>>)

invoke_NPN_SetProperty ==
  ScriptCall("NPN_SET_PROPERTY", <<"NP_IDENTIFIER", "NP_VARIANT">>, <<>>, <<>>)

invoke_NPN_RemoveProperty == ScriptCall("NPN_REMOVE_PROPERTY", <<"NP_IDENTIFIER">>, <<>>, <<>>)

invoke_NPN_HasProperty == ScriptCall("NPN_HAS_PROPERTY", <<"NP_IDENTIFIER">>, <<>>, <<>>)

invoke_NPN_HasMethod == ScriptCall("NPN_HAS_METHOD", <<"NP_IDENTIFIER">>, <<>>, <<>>)

\* The array is copied for the plugin and freed.
invoke_NPN_Enumerate ==
  [ScriptCall("NPN_ENUMERATE", <<>>, <<>>, <<"ARRAY_NP_IDENTIFIER">>)
     EXCEPT !.disposed = Arrays({2})]

invoke_NPN_Construct ==
  VariantCall("NPN_CONSTRUCT", <<"ARRAY_NP_VARIANT">>, <<>>)

invoke_NPN_SetException == VoidCall("NPN_SET_EXCEPTION", <<"NP_OBJECT", "STRING">>, <<>>)

invoke_NPN_GetStringIdentifier ==
  Caller("NPN_GET_STRING_IDENTIFIER", <<"STRING">>, <<Unable(Null), If(1, {Null}, Null)>>,
         <<"NP_IDENTIFIER">>, Null)

invoke_NPN_GetStringIdentifiers ==
  [Caller("NPN_GET_STRING_IDENTIFIERS", <<"ARRAY_STRING">>, <<Unable(Void)>>,
          <<"ARRAY_NP_IDENTIFIER">>, Void)
     EXCEPT !.disposed = Arrays({1})]

invoke_NPN_GetIntIdentifier ==
  Caller("NPN_GET_INT_IDENTIFIER", <<"INT32">>, <<Unable(Null)>>, <<"NP_IDENTIFIER">>, Null)

invoke_NPN_IdentifierIsString ==
  Caller("NPN_IDENTIFIER_IS_STRING", <<"NP_IDENTIFIER">>, <<Unable(0)>>, <<"UINT32">>, 0)

\* The string is the plugin's.
invoke_NPN_UTF8FromIdentifier ==
  [Caller("NPN_UTF8_FROM_IDENTIFIER", <<"NP_IDENTIFIER">>, <<Unable(Null)>>, <<"NP_UTF8">>, Null)
     EXCEPT !.disposed = {<<1, "utf8", "MemAlloc">>}]

invoke_NPN_IntFromIdentifier ==
  Caller("NPN_INT_FROM_IDENTIFIER", <<"NP_IDENTIFIER">>, <<Unable(-1)>>, <<"INT32">>, -1)

invoke_NPN_GetValueForURL ==
  [NPErrorCall("NPN_GET_VALUE_FOR_URL", <<"NPW_PLUGIN_INSTANCE", "UINT32", "STRING">>,
               <<NoInstance(NPERR.INVALID_INSTANCE)>>)
     EXCEPT !.results = <<"INT32", "ARRAY_CHAR">>, !.disposed = Arrays({2})]

invoke_NPN_SetValueForURL ==
  NPErrorCall("NPN_SET_VALUE_FOR_URL",
              <<"NPW_PLUGIN_INSTANCE", "UINT32", "STRING", "ARRAY_CHAR">>,
              <<NoInstance(NPERR.INVALID_INSTANCE)>>)

invoke_NPN_GetAuthenticationInfo ==
  [NPErrorCall("NPN_GET_AUTHENTICATION_INFO",
               <<"NPW_PLUGIN_INSTANCE", "STRING", "STRING", "INT32", "STRING", "STRING">>,
               <<NoInstance(NPERR.INVALID_INSTANCE)>>)
     EXCEPT !.results = <<"INT32", "ARRAY_CHAR", "ARRAY_CHAR">>, !.disposed = Arrays({2, 3})]

invoke_NPN_PrintData ==
  Caller("NPN_PRINT_DATA", <<"UINT32", "NP_PRINT_DATA">>, <<>>, <<>>, Void)

----------------------------------------------------------------------------
(* The wrapper.  A missing function of the browser is an early return; the *)
(* strings, arrays, objects and variants received are freed in every case. *)

NPErrorHandler(args, disposed) ==
  Handler(args, <<Unable(NPERR.INVALID_FUNCTABLE)>>, <<"INT32">>, disposed)

\* What is missing here is not looked for before it is called.
ScriptHandler(args, results, disposed) ==
  Handler(<<"NPW_PLUGIN_INSTANCE", "NP_OBJECT">> \o args, <<>>, <<"UINT32">> \o results,
          Objects({2}) \cup disposed)

handle_NPN_UserAgent == Handler(<<>>, <<Unable(Null)>>, <<"STRING">>, {})

handle_NPN_Status ==
  Handler(<<"NPW_PLUGIN_INSTANCE", "STRING">>, <<Unable(Void)>>, <<>>, Strings({2}))

\* Without an instance the browser is not asked for what depends on one.
handle_NPN_GetValue ==
  Handler(<<"NPW_PLUGIN_INSTANCE", "UINT32">>,
          <<If2(1, {Null}, 2, {3, 15, 16, 18}, NPERR.GENERIC), Unable(NPERR.INVALID_FUNCTABLE)>>,
          <<"INT32", "NPNVariable">>, {})

handle_NPN_SetValue ==
  Handler(<<"NPW_PLUGIN_INSTANCE", "UINT32", "BOOLEAN">>,
          <<NoInstance(NPERR.INVALID_INSTANCE), Unable(NPERR.INVALID_FUNCTABLE)>>, <<"INT32">>, {})

handle_NPN_InvalidateRect ==
  Handler(<<"NPW_PLUGIN_INSTANCE", "NP_RECT">>, <<Unable(Void)>>, <<>>, {})

handle_NPN_GetURL ==
  NPErrorHandler(<<"NPW_PLUGIN_INSTANCE", "STRING", "STRING">>, Strings({2, 3}))

handle_NPN_GetURLNotify ==
  NPErrorHandler(<<"NPW_PLUGIN_INSTANCE", "STRING", "STRING", "NP_NOTIFY_DATA">>,
                 Strings({2, 3}))

\* Mutant: the data to be posted is not freed.
handle_NPN_PostURLKeepsData ==
  NPErrorHandler(<<"NPW_PLUGIN_INSTANCE", "STRING", "STRING", "ARRAY_CHAR", "BOOLEAN">>,
                 Strings({2, 3}))

handle_NPN_PostURL ==
  NPErrorHandler(<<"NPW_PLUGIN_INSTANCE", "STRING", "STRING", "ARRAY_CHAR", "BOOLEAN">>,
                 Strings({2, 3}) \cup Arrays({4}))

handle_NPN_PostURLNotify ==
  NPErrorHandler(<<"NPW_PLUGIN_INSTANCE", "STRING", "STRING", "ARRAY_CHAR", "BOOLEAN",
                   "NP_NOTIFY_DATA">>,
                 Strings({2, 3}) \cup Arrays({4}))

\* A print that is not known, or no longer, is a failure of the RPC.
handle_NPN_PrintData ==
  [Handler(<<"UINT32", "NP_PRINT_DATA">>, <<>>, <<>>, {})
     EXCEPT !.failures = <<If(1, Nat \ KnownIds, Null)>>]

handle_NPN_RequestRead ==
  NPErrorHandler(<<"NP_STREAM", "NP_BYTE_RANGE">>, {<<2, "range", "malloc">>})

\* The stream whose fields are sent is not initialised if the browser has no
\* such function.
handle_NPN_NewStream ==
  [NPErrorHandler(<<"NPW_PLUGIN_INSTANCE", "STRING", "STRING">>, Strings({2, 3}))
     EXCEPT !.results = <<"INT32", "UINT32", "STRING", "UINT32", "UINT32", "NP_NOTIFY_DATA",
                          "STRING">>,
            !.undefined = TRUE]

handle_NPN_DestroyStream ==
  Handler(<<"NPW_PLUGIN_INSTANCE", "NP_STREAM", "INT32">>,
          <<Unable(NPERR.INVALID_FUNCTABLE), If(2, {Null}, NPERR.INVALID_PARAM)>>, <<"INT32">>, {})

handle_NPN_Write ==
  Handler(<<"NPW_PLUGIN_INSTANCE", "NP_STREAM", "ARRAY_CHAR">>,
          <<Unable(-1), If(2, {Null}, -1)>>, <<"INT32">>, Arrays({3}))

handle_NPN_PushPopupsEnabledState ==
  Handler(<<"NPW_PLUGIN_INSTANCE", "UINT32">>, <<Unable(Void)>>, <<>>, {})

handle_NPN_PopPopupsEnabledState ==
  Handler(<<"NPW_PLUGIN_INSTANCE">>, <<Unable(Void)>>, <<>>, {})

handle_NPN_Invoke ==
  ScriptHandler(<<"NP_IDENTIFIER", "ARRAY_NP_VARIANT">>, <<"NP_VARIANT_PASS_REF">>,
                Variants({4}) \cup Arrays({4}))

handle_NPN_InvokeDefault ==
  ScriptHandler(<<"ARRAY_NP_VARIANT">>, <<"NP_VARIANT_PASS_REF">>,
                Variants({3}) \cup Arrays({3}))

handle_NPN_Evaluate ==
  ScriptHandler(<<"NP_STRING">>, <<"NP_VARIANT_PASS_REF">>, {<<3, "chars", "MemAlloc">>})

handle_NPN_GetProperty == ScriptHandler(<<"NP_IDENTIFIER">>, <<"NP_VARIANT_PASS_REF">>, {})

handle_NPN_SetProperty == ScriptHandler(<<"NP_IDENTIFIER", "NP_VARIANT">>, <<>>, Variants({4}))

handle_NPN_RemoveProperty == ScriptHandler(<<"NP_IDENTIFIER">>, <<>>, {})

handle_NPN_HasProperty == ScriptHandler(<<"NP_IDENTIFIER">>, <<>>, {})

handle_NPN_HasMethod == ScriptHandler(<<"NP_IDENTIFIER">>, <<>>, {})

handle_NPN_Enumerate ==
  [ScriptHandler(<<>>, <<"ARRAY_NP_IDENTIFIER">>, {}) EXCEPT !.refusals = <<Unable(0)>>]

handle_NPN_Construct ==
  [ScriptHandler(<<"ARRAY_NP_VARIANT">>, <<"NP_VARIANT_PASS_REF">>,
                 Variants({3}) \cup Arrays({3}))
     EXCEPT !.refusals = <<Unable(0)>>]

handle_NPN_SetException ==
  Handler(<<"NP_OBJECT", "STRING">>, <<>>, <<>>, Objects({1}) \cup Strings({2}))

handle_NPN_GetStringIdentifier ==
  Handler(<<"STRING">>, <<>>, <<"NP_IDENTIFIER">>, Strings({1}))

handle_NPN_GetStringIdentifiers ==
  Handler(<<"ARRAY_STRING">>, <<>>, <<"ARRAY_NP_IDENTIFIER">>, Strings({1}) \cup Arrays({1}))

handle_NPN_GetIntIdentifier == Handler(<<"INT32">>, <<>>, <<"NP_IDENTIFIER">>, {})

handle_NPN_IdentifierIsString == Handler(<<"NP_IDENTIFIER">>, <<>>, <<"UINT32">>, {})

handle_NPN_UTF8FromIdentifier == Handler(<<"NP_IDENTIFIER">>, <<>>, <<"NP_UTF8">>, {})

handle_NPN_IntFromIdentifier == Handler(<<"NP_IDENTIFIER">>, <<>>, <<"INT32">>, {})

handle_NPN_GetValueForURL ==
  [NPErrorHandler(<<"NPW_PLUGIN_INSTANCE", "UINT32", "STRING">>, Strings({3}))
     EXCEPT !.results = <<"INT32", "ARRAY_CHAR">>]

handle_NPN_SetValueForURL ==
  NPErrorHandler(<<"NPW_PLUGIN_INSTANCE", "UINT32", "STRING", "ARRAY_CHAR">>,
                 Strings({3}) \cup Arrays({4}))

handle_NPN_GetAuthenticationInfo ==
  [NPErrorHandler(<<"NPW_PLUGIN_INSTANCE", "STRING", "STRING", "INT32", "STRING", "STRING">>,
                  Strings({2, 3, 5, 6}))
     EXCEPT !.results = <<"INT32", "ARRAY_CHAR", "ARRAY_CHAR">>]

\* What plugin_init registers for the methods of the browser
wrapper_vtable ==
  [NPN_USER_AGENT |-> handle_NPN_UserAgent,
   NPN_GET_VALUE |-> handle_NPN_GetValue,
   NPN_SET_VALUE |-> handle_NPN_SetValue,
   NPN_GET_URL |-> handle_NPN_GetURL,
   NPN_GET_URL_NOTIFY |-> handle_NPN_GetURLNotify,
   NPN_POST_URL |-> handle_NPN_PostURL,
   NPN_POST_URL_NOTIFY |-> handle_NPN_PostURLNotify,
   NPN_STATUS |-> handle_NPN_Status,
   NPN_PRINT_DATA |-> handle_NPN_PrintData,
   NPN_REQUEST_READ |-> handle_NPN_RequestRead,
   NPN_NEW_STREAM |-> handle_NPN_NewStream,
   NPN_DESTROY_STREAM |-> handle_NPN_DestroyStream,
   NPN_WRITE |-> handle_NPN_Write,
   NPN_PUSH_POPUPS_ENABLED_STATE |-> handle_NPN_PushPopupsEnabledState,
   NPN_POP_POPUPS_ENABLED_STATE |-> handle_NPN_PopPopupsEnabledState,
   NPN_INVALIDATE_RECT |-> handle_NPN_InvalidateRect,
   NPN_GET_VALUE_FOR_URL |-> handle_NPN_GetValueForURL,
   NPN_SET_VALUE_FOR_URL |-> handle_NPN_SetValueForURL,
   NPN_GET_AUTHENTICATION_INFO |-> handle_NPN_GetAuthenticationInfo,
   NPN_INVOKE |-> handle_NPN_Invoke,
   NPN_INVOKE_DEFAULT |-> handle_NPN_InvokeDefault,
   NPN_EVALUATE |-> handle_NPN_Evaluate,
   NPN_GET_PROPERTY |-> handle_NPN_GetProperty,
   NPN_SET_PROPERTY |-> handle_NPN_SetProperty,
   NPN_REMOVE_PROPERTY |-> handle_NPN_RemoveProperty,
   NPN_HAS_PROPERTY |-> handle_NPN_HasProperty,
   NPN_HAS_METHOD |-> handle_NPN_HasMethod,
   NPN_ENUMERATE |-> handle_NPN_Enumerate,
   NPN_CONSTRUCT |-> handle_NPN_Construct,
   NPN_SET_EXCEPTION |-> handle_NPN_SetException,
   NPN_GET_STRING_IDENTIFIER |-> handle_NPN_GetStringIdentifier,
   NPN_GET_STRING_IDENTIFIERS |-> handle_NPN_GetStringIdentifiers,
   NPN_GET_INT_IDENTIFIER |-> handle_NPN_GetIntIdentifier,
   NPN_IDENTIFIER_IS_STRING |-> handle_NPN_IdentifierIsString,
   NPN_UTF8_FROM_IDENTIFIER |-> handle_NPN_UTF8FromIdentifier,
   NPN_INT_FROM_IDENTIFIER |-> handle_NPN_IntFromIdentifier]

ViewerCallers ==
  [NPN_GetURL |-> invoke_NPN_GetURL,
   NPN_GetURLNotify |-> invoke_NPN_GetURLNotify,
   NPN_GetValue |-> invoke_NPN_GetValue,
   NPN_InvalidateRect |-> invoke_NPN_InvalidateRect,
   NPN_PostURL |-> invoke_NPN_PostURL,
   NPN_PostURLNotify |-> invoke_NPN_PostURLNotify,
   NPN_RequestRead |-> invoke_NPN_RequestRead,
   NPN_SetValue |-> invoke_NPN_SetValue,
   NPN_Status |-> invoke_NPN_Status,
   NPN_UserAgent |-> invoke_NPN_UserAgent,
   NPN_NewStream |-> invoke_NPN_NewStream,
   NPN_DestroyStream |-> invoke_NPN_DestroyStream,
   NPN_Write |-> invoke_NPN_Write,
   NPN_PushPopupsEnabledState |-> invoke_NPN_PushPopupsEnabledState,
   NPN_PopPopupsEnabledState |-> invoke_NPN_PopPopupsEnabledState,
   NPN_Invoke |-> invoke_NPN_Invoke,
   NPN_InvokeDefault |-> invoke_NPN_InvokeDefault,
   NPN_Evaluate |-> invoke_NPN_Evaluate,
   NPN_GetProperty |-> invoke_NPN_GetProperty,
   NPN_SetProperty |-> invoke_NPN_SetProperty,
   NPN_RemoveProperty |-> invoke_NPN_RemoveProperty,
   NPN_HasProperty |-> invoke_NPN_HasProperty,
   NPN_HasMethod |-> invoke_NPN_HasMethod,
   NPN_Enumerate |-> invoke_NPN_Enumerate,
   NPN_Construct |-> invoke_NPN_Construct,
   NPN_SetException |-> invoke_NPN_SetException,
   NPN_GetStringIdentifier |-> invoke_NPN_GetStringIdentifier,
   NPN_GetStringIdentifiers |-> invoke_NPN_GetStringIdentifiers,
   NPN_GetIntIdentifier |-> invoke_NPN_GetIntIdentifier,
   NPN_IdentifierIsString |-> invoke_NPN_IdentifierIsString,
   NPN_UTF8FromIdentifier |-> invoke_NPN_UTF8FromIdentifier,
   NPN_IntFromIdentifier |-> invoke_NPN_IntFromIdentifier,
   NPN_GetValueForURL |-> invoke_NPN_GetValueForURL,
   NPN_SetValueForURL |-> invoke_NPN_SetValueForURL,
   NPN_GetAuthenticationInfo |-> invoke_NPN_GetAuthenticationInfo,
   NPN_PrintData |-> invoke_NPN_PrintData]
============================================================================
