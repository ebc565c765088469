----------------------------- MODULE NpapiCalls -----------------------------
(* What a remote call of the NPAPI is made of, at both of its ends.         *)
(*                                                                          *)
(* A caller stands for a function g_X that the browser or the plugin calls, *)
(* and the invoke_X that does the RPC: the method, the types it sends, the  *)
(* early returns before anything is sent, the types it expects back, what   *)
(* it returns when the RPC fails, and what becomes of the blocks that came  *)
(* with the reply.  A handler stands for handle_X and the g_X it calls.     *)
EXTENDS Marshal

NPERR ==
  [NO_ERROR |-> 0, GENERIC |-> 1, INVALID_INSTANCE |-> 2, INVALID_FUNCTABLE |-> 3,
   MODULE_LOAD_FAILED |-> 4, OUT_OF_MEMORY |-> 5, INVALID_PARAM |-> 9]

\* A void function returns nothing, whatever happens.
Void == "void"

Methods ==
  <<"NP_GET_VALUE", "NP_GET_MIME_DESCRIPTION", "NP_INITIALIZE", "NP_SHUTDOWN",
    "NPN_USER_AGENT", "NPN_GET_VALUE", "NPN_SET_VALUE", "NPN_GET_URL",
    "NPN_GET_URL_NOTIFY", "NPN_POST_URL", "NPN_POST_URL_NOTIFY", "NPN_STATUS",
    "NPN_PRINT_DATA", "NPN_REQUEST_READ", "NPN_NEW_STREAM", "NPN_DESTROY_STREAM",
    "NPN_WRITE", "NPN_PUSH_POPUPS_ENABLED_STATE", "NPN_POP_POPUPS_ENABLED_STATE",
    "NPN_FORCE_REDRAW", "NPN_INVALIDATE_RECT", "NPN_INVALIDATE_REGION",
    "NPN_GET_VALUE_FOR_URL", "NPN_SET_VALUE_FOR_URL", "NPN_GET_AUTHENTICATION_INFO",
    "NPN_POP_UP_CONTEXT_MENU", "NPN_HANDLE_EVENT", "NPN_UNFOCUS_INSTANCE",
    "NPN_URL_REDIRECT_RESPONSE",
    "NPP_NEW", "NPP_DESTROY", "NPP_SET_WINDOW", "NPP_HANDLE_EVENT", "NPP_GET_VALUE",
    "NPP_SET_VALUE", "NPP_URL_NOTIFY", "NPP_NEW_STREAM", "NPP_DESTROY_STREAM",
    "NPP_WRITE_READY", "NPP_WRITE", "NPP_STREAM_AS_FILE", "NPP_PRINT",
    "NPP_GOT_FOCUS", "NPP_LOST_FOCUS", "NPP_URL_REDIRECT_NOTIFY",
    "NPP_CLEAR_SITE_DATA", "NPP_GET_SITES_WITH_DATA",
    "NPN_CREATE_OBJECT", "NPN_RETAIN_OBJECT", "NPN_RELEASE_OBJECT", "NPN_INVOKE",
    "NPN_INVOKE_DEFAULT", "NPN_EVALUATE", "NPN_GET_PROPERTY", "NPN_SET_PROPERTY",
    "NPN_REMOVE_PROPERTY", "NPN_HAS_PROPERTY", "NPN_HAS_METHOD", "NPN_SET_EXCEPTION",
    "NPN_ENUMERATE", "NPN_CONSTRUCT", "NPN_GET_STRING_IDENTIFIER",
    "NPN_GET_STRING_IDENTIFIERS", "NPN_GET_INT_IDENTIFIER", "NPN_IDENTIFIER_IS_STRING",
    "NPN_UTF8_FROM_IDENTIFIER", "NPN_INT_FROM_IDENTIFIER">>

MethodId(method) == CHOOSE i \in DOMAIN Methods : Methods[i] = method

\* The values that an NPNVariable and an NPPVariable of GetValue may have,
\* by the type of the result; -1 is a variable that neither end knows.
rpc_type_of_NPNVariable(variable) ==
  CASE variable \in {4, 5, 6, 14, 17, 18, 21} -> "BOOLEAN"
    [] variable \in {3, 13} -> "UINT32"
    [] variable = 22 -> "STRING"
    [] variable \in {15, 16} -> "NP_OBJECT_PASS_REF"
    [] OTHER -> "GENERIC"

rpc_type_of_NPPVariable(variable) ==
  CASE variable \in {1, 2, 16, 19} -> "STRING"
    [] variable \in {6, 7} -> "INT32"
    [] variable \in {3, 4, 12, 13, 14, 17, 18, 20, 21, 22} -> "BOOLEAN"
    [] variable = 15 -> "NP_OBJECT_PASS_REF"
    [] OTHER -> "GENERIC"

----------------------------------------------------------------------------
(* Early returns: If(i, S, ret) when argument i is in S, If2 when two are.   *)
(* Unable(ret) when the call is not from the plugin's main thread, for a      *)
(* caller of the viewer (thread_check), and when the function to be called is *)
(* missing, for a handler.                                                    *)

If(i, S, ret) == [when |-> << <<i, S>> >>, ret |-> ret]

If2(i, S, j, T, ret) == [when |-> << <<i, S>>, <<j, T>> >>, ret |-> ret]

Unable(ret) == [when |-> << <<0, {}>> >>, ret |-> ret]

NoInstance(ret) == If(1, {Null}, ret)

\* Whether early return x is taken
Taken(x, vs, able) ==
  \A k \in DOMAIN x.when :
    LET c == x.when[k] IN IF c[1] = 0 THEN ~able ELSE vs[c[1]] \in c[2]

\* fail: what is returned when the RPC fails; unsent: when it already fails
\* in rpc_method_invoke; variables: the values of the variable asked for.
Caller(method, args, refusals, results, fail) ==
  [method |-> method, args |-> args, refusals |-> refusals, results |-> results,
   fail |-> fail, unsent |-> fail, variables |-> {}, disposed |-> {}]

\* undefined: the results after the first are uninitialised when the handler
\* refuses; failures: the early returns that do not reply but fail the RPC.
Handler(args, refusals, results, disposed) ==
  [args |-> args, refusals |-> refusals, results |-> results, disposed |-> disposed,
   undefined |-> FALSE, failures |-> <<>>]

----------------------------------------------------------------------------
(* What is freed, by the function that fits the allocator, or handed on to  *)
(* an owner who does it: the blocks of the arguments or results I.          *)

Strings(I) == {<<i, "string", "malloc">> : i \in I}

Arrays(I) == {<<i, "array", "malloc">> : i \in I}

Objects(I) == {<<i, "object", "reference">> : i \in I}

Variants(I) == Objects(I) \cup {<<i, "chars", "MemAlloc">> : i \in I}

SavedData(I) ==
  {<<i, "saved", "MemAlloc">> : i \in I} \cup {<<i, "saved.buf", "MemAlloc">> : i \in I}

----------------------------------------------------------------------------
\* What the types of results are when they depend on the variable asked for
ResultTypes(e, vs) ==
  [i \in DOMAIN e.results |->
     CASE e.results[i] = "NPNVariable" -> rpc_type_of_NPNVariable(vs[2])
       [] e.results[i] = "NPPVariable" -> rpc_type_of_NPPVariable(vs[Len(vs)])
       [] OTHER -> e.results[i]]

\* What a result is before the function called has set it
Initial(t) ==
  CASE t \in {"STRING", "NP_OBJECT_PASS_REF", "NP_SAVED_DATA", "NP_IDENTIFIER", "NP_UTF8"} -> Null
    [] t = "NP_VARIANT_PASS_REF" -> [type |-> VariantCode.Void]
    [] IsArray(t) -> [size |-> 0, p |-> Null]
    [] OTHER -> 0

\* NPW_ReallocData(ptr, size, out): the copy has size bytes, which are not
\* all of ptr's, or more than that.
NPW_ReallocData(p, size) ==
  IF p = Null THEN Null ELSE [i \in 1 .. size |-> IF i <= Len(p) THEN p[i] ELSE "garbage"]
============================================================================
