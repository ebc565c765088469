---------------------------- MODULE Identifiers ----------------------------
(***************************************************************************)
(* The NPIdentifier cache of the viewer (npw-viewer.c).                    *)
(*                                                                         *)
(* An NPIdentifier is a pointer of the browser that stands for a name or   *)
(* for an integer; the browser gives the same pointer for the same value   *)
(* for as long as it runs.  The viewer remembers what it learned about     *)
(* identifiers in a table of at most NPIDENTIFIER_CACHE_SIZE entries, so   *)
(* that most calls need no RPC.  The table is emptied when it is full.     *)
(*                                                                         *)
(* A call that misses the cache waits for the browser's reply, and during  *)
(* that wait the browser may run plugin code that uses the same table:     *)
(* the waiting calls form a stack, and a reply goes to its top.            *)
(***************************************************************************)
EXTENDS Integers, Sequences, FiniteSets, Functions

CONSTANTS
    Strings,                  \* the names plugins ask for (without NULL)
    Ints,                     \* the integers plugins ask for
    Pointers,                 \* the addresses the browser can hand out
    NULL,
    NPIDENTIFIER_CACHE_SIZE,
    MaxDepth,                 \* bound: calls that wait at the same time
    MaxNames                  \* bound: names of one NPN_GetStringIdentifiers

ASSUME CacheSizeAssumption == NPIDENTIFIER_CACHE_SIZE \in Nat \ {0}
ASSUME NullAssumption == NULL \notin Strings \cup Ints \cup Pointers
ASSUME KindsAssumption == Strings \cap Ints = {}

VARIABLES
    use_cache,    \* npruntime_use_cache(): NPW_NPRUNTIME_CACHE is not "no"
    atoms,        \* browser: what each pointer stands for, NULL when unused
    cache,        \* g_npidentifier_cache: NULL or identifier -> info
    held,         \* the identifiers the plugin has been given
    waiting,      \* the calls of the plugin that wait for a reply
    answer,       \* the call that has just returned and what it returned
    connected,    \* the RPC connection works
    undefined,    \* history: the plugin has asked for the integer of a name
    alive         \* the viewer has not been brought down

vars == <<use_cache, atoms, cache, held, waiting, answer, connected, undefined, alive>>

Values == Strings \cup Ints
Infos == [isString : BOOLEAN, u : Values \cup {-1}]    \* -1: of a failure
Names == UNION {[1..n -> Strings] : n \in 1..MaxNames}

NoTable == [x \in {} |-> NULL]
Return(c, arg, result) == [call |-> c, arg |-> arg, result |-> result]
NoAnswer == Return("none", NULL, NULL)

----------------------------------------------------------------------------
(* The table.  A NULL table answers every question like an empty one.      *)

Table(t) == IF t = NULL THEN NoTable ELSE t

npidentifier_cache_create == NoTable

npidentifier_cache_invalidate(t) == IF t = NULL THEN t ELSE NoTable

\* The table is emptied when the entries to come would not fit.
npidentifier_cache_reserve(t, n_entries) ==
    LET u == IF t = NULL THEN npidentifier_cache_create ELSE t
    IN  IF Cardinality(DOMAIN u) + n_entries > NPIDENTIFIER_CACHE_SIZE
        THEN npidentifier_cache_invalidate(u)
        ELSE u

npidentifier_cache_lookup(t, id) ==
    IF id \in DOMAIN Table(t) THEN Table(t)[id] ELSE NULL

\* g_hash_table_insert: an entry for the same key is replaced.
Insert(t, id, info) ==
    [x \in DOMAIN t \cup {id} |-> IF x = id THEN info ELSE t[x]]

\* As a slip would have it: string_len keeps what the allocation held.
npidentifier_cache_add_intWithoutLength(t, id, value) ==
    IF t = NULL THEN t ELSE Insert(t, id, [isString |-> TRUE, u |-> value])

npidentifier_cache_add_int(t, id, value) ==
    IF t = NULL THEN t ELSE Insert(t, id, [isString |-> FALSE, u |-> value])

npidentifier_cache_add_string(t, id, str) ==
    IF t = NULL THEN t ELSE Insert(t, id, [isString |-> TRUE, u |-> str])

\* As a slip would have it: the kind of the entry is not compared, and the
\* bytes of a name are compared with an integer.
npidentifier_cache_find_infoOfAnyKind(npi, args) ==
    npi.u = args.u \/ npi.isString # args.isString

npidentifier_cache_find_info(npi, args) ==
    npi.isString = args.isString /\ npi.u = args.u

\* The identifiers the table knows for a value: g_hash_table_find stops at
\* the first one it meets, in an order of its own.
npidentifier_cache_find(t, info) ==
    {id \in DOMAIN Table(t) : npidentifier_cache_find_info(Table(t)[id], info)}

npidentifier_cache_has_int(t, value) ==
    npidentifier_cache_find(t, [isString |-> FALSE, u |-> value])

npidentifier_cache_has_string(t, str) ==
    npidentifier_cache_find(t, [isString |-> TRUE, u |-> str])

npidentifier_cache_get_string_copy(t, id) ==
    LET npi == npidentifier_cache_lookup(t, id)
    IN  IF npi = NULL \/ ~npi.isString THEN NULL ELSE npi.u

\* What cached_NPN_GetStringIdentifiers does once it has the identifiers:
\* those that are new to the table are added, one at a time.
AddNames(t, names, identifiers) ==
    LET added[i \in 0..Len(names)] ==
            IF i = 0 THEN t
            ELSE IF npidentifier_cache_lookup(added[i-1], identifiers[i]) # NULL
                 THEN added[i-1]
                 ELSE npidentifier_cache_add_string(
                          npidentifier_cache_reserve(added[i-1], 1),
                          identifiers[i], names[i])
    IN  added[Len(names)]

----------------------------------------------------------------------------
Init ==
    /\ use_cache \in BOOLEAN
    /\ atoms = [p \in Pointers |-> NULL]
    /\ cache = NULL
    /\ held = {}
    /\ waiting = <<>>
    /\ answer = NoAnswer
    /\ connected = TRUE
    /\ undefined = FALSE
    /\ alive = TRUE

\* The browser's side of the calls (external).  A value that has no
\* pointer yet gets an unused one.
Intern(v, at, newAtoms, p) ==
    IF \E q \in Pointers : at[q] = v
    THEN at[p] = v /\ newAtoms = at
    ELSE at[p] = NULL /\ newAtoms = [at EXCEPT ![p] = v]

\* The browser learns of a value by itself and shows the plugin the
\* identifier: as the method name of an NPClass call, for instance.
BrowserShowsIdentifier(p) ==
    /\ alive /\ connected
    /\ \E v \in Values : Intern(v, atoms, atoms', p)
    /\ held' = held \cup {p}
    /\ answer' = NoAnswer
    /\ UNCHANGED <<use_cache, cache, waiting, connected, undefined, alive>>

----------------------------------------------------------------------------
(* The plugin's calls.  One that the cache answers returns at once; one    *)
(* that it does not answer waits for the browser.                          *)

Invoke(c, arg) ==
    /\ Len(waiting) < MaxDepth
    /\ waiting' = Append(waiting, [call |-> c, arg |-> arg])
    /\ answer' = NoAnswer
    /\ UNCHANGED <<use_cache, atoms, cache, held, connected, alive>>

ReturnNow(c, arg, result) ==
    /\ answer' = Return(c, arg, result)
    /\ held' = IF c \in {"GetStringIdentifier", "GetIntIdentifier"} /\ result # NULL
               THEN held \cup {result} ELSE held
    /\ UNCHANGED <<use_cache, atoms, cache, waiting, connected, alive>>

cached_NPN_GetStringIdentifier(name) ==
    LET known == npidentifier_cache_has_string(cache, name)
    IN  /\ alive
        /\ IF use_cache /\ known # {}
           THEN \E id \in known : ReturnNow("GetStringIdentifier", name, id)
           ELSE Invoke("GetStringIdentifier", name)

cached_NPN_GetStringIdentifiers(names) ==
    alive /\ Invoke("GetStringIdentifiers", names)

cached_NPN_GetIntIdentifier(intid) ==
    LET known == npidentifier_cache_has_int(cache, intid)
    IN  /\ alive
        /\ IF use_cache /\ known # {}
           THEN \E id \in known : ReturnNow("GetIntIdentifier", intid, id)
           ELSE Invoke("GetIntIdentifier", intid)

cached_NPN_IdentifierIsString(id) ==
    LET npi == npidentifier_cache_lookup(cache, id)
    IN  /\ alive
        /\ id \in held
        /\ IF use_cache /\ npi # NULL
           THEN ReturnNow("IdentifierIsString", id, npi.isString)
           ELSE Invoke("IdentifierIsString", id)

cached_NPN_UTF8FromIdentifier(id) ==
    LET str == npidentifier_cache_get_string_copy(cache, id)
    IN  /\ alive
        /\ id \in held
        /\ IF use_cache /\ str # NULL
           THEN ReturnNow("UTF8FromIdentifier", id, str)
           ELSE Invoke("UTF8FromIdentifier", id)

\* The assertion in the code ends the viewer when the table has a name.
cached_NPN_IntFromIdentifier(id) ==
    LET npi == npidentifier_cache_lookup(cache, id)
    IN  /\ alive
        /\ id \in held
        /\ undefined' = (undefined \/ atoms[id] \in Strings)
        /\ IF use_cache /\ npi # NULL
           THEN IF npi.isString
                THEN /\ alive' = FALSE
                     /\ UNCHANGED <<use_cache, atoms, cache, held, waiting, answer, connected>>
                ELSE ReturnNow("IntFromIdentifier", id, npi.u)
           ELSE Invoke("IntFromIdentifier", id)

PluginCalls ==
    \/ /\ UNCHANGED undefined
       /\ \/ \E name \in Strings : cached_NPN_GetStringIdentifier(name)
          \/ \E names \in Names : cached_NPN_GetStringIdentifiers(names)
          \/ \E intid \in Ints : cached_NPN_GetIntIdentifier(intid)
          \/ \E id \in held : \/ cached_NPN_IdentifierIsString(id)
                              \/ cached_NPN_UTF8FromIdentifier(id)
    \/ \E id \in held : cached_NPN_IntFromIdentifier(id)

----------------------------------------------------------------------------
(* The reply to the call that waits last, and what the viewer does with    *)
(* it before it returns to the plugin.                                     *)

top == waiting[Len(waiting)]

\* The table after the reply to call c about arg.
Learn(c, arg, result) ==
    CASE c = "GetStringIdentifier" ->
            npidentifier_cache_add_string(npidentifier_cache_reserve(cache, 1), result, arg)
      [] c = "GetStringIdentifiers" -> AddNames(cache, arg, result)
      [] c = "GetIntIdentifier" ->
            npidentifier_cache_add_int(npidentifier_cache_reserve(cache, 1), result, arg)
      [] c = "UTF8FromIdentifier" ->
            npidentifier_cache_add_string(npidentifier_cache_reserve(cache, 1), arg, result)
      [] c = "IntFromIdentifier" ->
            npidentifier_cache_add_int(npidentifier_cache_reserve(cache, 1), arg, result)
      [] OTHER -> cache

Finish(result) ==
    /\ cache' = IF use_cache THEN Learn(top.call, top.arg, result) ELSE cache
    /\ answer' = Return(top.call, top.arg, result)
    /\ waiting' = SubSeq(waiting, 1, Len(waiting) - 1)

Reply ==
    /\ alive /\ connected
    /\ waiting # <<>>
    /\ \/ /\ top.call \in {"GetStringIdentifier", "GetIntIdentifier"}
          /\ \E p \in Pointers : /\ Intern(top.arg, atoms, atoms', p)
                                 /\ held' = held \cup {p}
                                 /\ Finish(p)
       \/ /\ top.call = "GetStringIdentifiers"
          /\ \E ps \in [1..Len(top.arg) -> Pointers] :
                LET new == [p \in Pointers |->
                               IF \E i \in 1..Len(ps) : ps[i] = p
                               THEN top.arg[CHOOSE i \in 1..Len(ps) : ps[i] = p]
                               ELSE atoms[p]]
                IN  /\ \A i \in 1..Len(ps) :
                          /\ new[ps[i]] = top.arg[i]
                          /\ IF \E q \in Pointers : atoms[q] = top.arg[i]
                             THEN atoms[ps[i]] = top.arg[i]
                             ELSE atoms[ps[i]] = NULL
                    /\ \A i, j \in 1..Len(ps) :
                          top.arg[i] = top.arg[j] => ps[i] = ps[j]
                    /\ atoms' = new
                    /\ held' = held \cup Range(ps)
                    /\ Finish(ps)
       \/ /\ top.call = "IdentifierIsString"
          /\ Finish(atoms[top.arg] \in Strings)
          /\ UNCHANGED <<atoms, held>>
       \/ /\ top.call = "UTF8FromIdentifier" /\ atoms[top.arg] \in Strings
          /\ Finish(atoms[top.arg])
          /\ UNCHANGED <<atoms, held>>
       \/ /\ top.call = "IntFromIdentifier"
          /\ \E value \in IF atoms[top.arg] \in Ints THEN {atoms[top.arg]} ELSE Ints \cup {-1} :
                Finish(value)
          /\ UNCHANGED <<atoms, held>>
    /\ UNCHANGED <<use_cache, connected, undefined, alive>>

\* An identifier that stands for an integer has the name NULL, which the browser's
\* end cannot marshal: the error ends the connection.
ReplyWithoutName ==
    /\ alive /\ connected
    /\ waiting # <<>>
    /\ top.call = "UTF8FromIdentifier" /\ atoms[top.arg] \notin Strings
    /\ connected' = FALSE
    /\ answer' = NoAnswer
    /\ UNCHANGED <<use_cache, atoms, cache, held, waiting, undefined, alive>>

\* The connection is lost.
Disconnect ==
    /\ alive /\ connected
    /\ connected' = FALSE
    /\ answer' = NoAnswer
    /\ UNCHANGED <<use_cache, atoms, cache, held, waiting, undefined, alive>>

\* invoke_NPN_*() without a connection, or whose reply never comes: the
\* value that stands for the failure goes into the table like any other.
\* The identifiers of NPN_GetStringIdentifiers are then whatever the
\* caller's array held; the copy of a NULL name ends the viewer.
Fail ==
    /\ alive /\ ~connected
    /\ waiting # <<>>
    /\ \/ /\ top.call \in {"GetStringIdentifier", "GetIntIdentifier"}
          /\ Finish(NULL)
          /\ alive' = alive
       \/ /\ top.call = "GetStringIdentifiers"
          /\ \E ps \in [1..Len(top.arg) -> Pointers \cup {NULL}] : Finish(ps)
          /\ alive' = alive
       \/ /\ top.call = "IdentifierIsString"
          /\ Finish(FALSE)
          /\ alive' = alive
       \/ /\ top.call = "IntFromIdentifier"
          /\ Finish(-1)
          /\ alive' = alive
       \/ /\ top.call = "UTF8FromIdentifier"
          /\ IF use_cache
             THEN /\ alive' = FALSE
                  /\ UNCHANGED <<cache, answer, waiting>>
             ELSE /\ Finish(NULL)
                  /\ alive' = alive
    /\ UNCHANGED <<use_cache, atoms, held, connected, undefined>>

Next ==
    \/ \E p \in Pointers : BrowserShowsIdentifier(p)
    \/ PluginCalls
    \/ Reply
    \/ ReplyWithoutName
    \/ Disconnect
    \/ Fail

Spec == Init /\ [][Next]_vars

----------------------------------------------------------------------------
(* Properties *)

TypeOK ==
    /\ use_cache \in BOOLEAN
    /\ atoms \in [Pointers -> Values \cup {NULL}]
    /\ cache # NULL => \A id \in DOMAIN cache : /\ id \in Pointers \cup {NULL}
                                               /\ cache[id] \in Infos
    /\ held \subseteq Pointers
    /\ Len(waiting) <= MaxDepth
    /\ {connected, undefined} \subseteq BOOLEAN
    /\ alive \in BOOLEAN

\* What the browser would have said.
IsRight(a) ==
    CASE a.call \in {"GetStringIdentifier", "GetIntIdentifier"} -> atoms[a.result] = a.arg
      [] a.call = "GetStringIdentifiers" ->
            \A i \in 1..Len(a.arg) : atoms[a.result[i]] = a.arg[i]
      [] a.call = "IdentifierIsString" -> a.result = (atoms[a.arg] \in Strings)
      [] a.call \in {"UTF8FromIdentifier", "IntFromIdentifier"} -> a.result = atoms[a.arg]
      [] OTHER -> TRUE

\* As long as the connection works, a call that the cache answers gets the
\* answer the browser would give, whatever calls were nested in the wait
\* for the replies the cache was filled from and however often it was
\* emptied (npidentifier_cache_find, npidentifier_cache_get_string_copy).
\* This is for a plugin that has not asked for the integer of a name, of which
\* invoke_NPN_IntFromIdentifier says that "the behavior is undefined": the
\* number it gets is filed for the name.
AnswersAreTheBrowsers == connected /\ ~undefined => IsRight(answer)

\* Nothing that such a plugin asks brings the viewer down but by the loss of the
\* connection: not the assertion of cached_NPN_IntFromIdentifier, and not the
\* copy of a NULL name (npidentifier_cache_add_string).  A name that the browser
\* does not have costs the connection before it can be copied.
NoAbortWhileConnected == connected /\ ~undefined => alive
=============================================================================
