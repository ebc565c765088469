---------------------------- MODULE PlayerBrowser ----------------------------
(***************************************************************************)
(* The browser that the player is to its plugin (npw-player.c): the        *)
(* functions in the table that g_NP_Initialize hands over.  NPRuntime      *)
(* objects are reference counted and belong to their class; a variant      *)
(* that the plugin gets as a result is released by it; an identifier       *)
(* packs a string's quark or an integer into a word.  Most of the rest is  *)
(* not implemented and only says so.                                       *)
(*                                                                         *)
(* The plugin keeps the rules of NPAPI: it uses and releases what it has   *)
(* got.  It may release a variant more often than it was filled.           *)
(***************************************************************************)
EXTENDS Integers, Sequences, FiniteSets

CONSTANTS
    NPObjects,     \* the objects that can be created
    Classes,       \* NPClass structures: each the set of its functions
    Variants,      \* the plugin's NPVariants
    Strings,       \* names of identifiers
    Integers31,    \* integers for identifiers
    WordSize,      \* how many values an identifier has: a power of 2
    MaxRefs,       \* bound: references to an object
    AString,       \* the string in a variant
    NULL           \* a NULL pointer, a void variant

ASSUME PlayerBrowserAssumption ==
    /\ NULL \notin NPObjects /\ AString \notin NPObjects
    /\ IsFiniteSet(Variants) /\ IsFiniteSet(Strings) /\ Integers31 \subseteq Int \ Strings
    /\ WordSize \in Nat /\ WordSize % 4 = 0
    /\ Cardinality(Strings) * 4 + 2 < WordSize    \* there are no more quarks than fit
    /\ \A n \in Integers31 : -WordSize <= 4 * n /\ 4 * n < WordSize

VARIABLES
    npobj,     \* per object: its memory, class and referenceCount
    refs,      \* per object: the references the plugin holds itself
    variant,   \* per variant: NULL (void), an object or a string
    quarks,    \* the strings GLib has interned, in order
    ids,       \* history: the identifiers handed out, with what for
    ret        \* what the last call returned

browserVars == <<npobj, refs, variant, quarks, ids, ret>>

IsObject(v) == v \in NPObjects
Exists(o) == npobj[o].memory = "live"
NoObject == [memory |-> "none", class |-> {}, referenceCount |-> 0]

BrowserInit ==
    /\ npobj = [o \in NPObjects |-> NoObject]
    /\ refs = [o \in NPObjects |-> 0]
    /\ variant = [v \in Variants |-> NULL]
    /\ quarks = <<>> /\ ids = {}
    /\ ret = NULL

----------------------------------------------------------------------------
(* Objects *)

\* allocate, where the class has it, may find no memory.
g_NPN_CreateObject(o, class) ==
    /\ npobj[o].memory = "none"
    /\ \/ /\ npobj' = [npobj EXCEPT ![o] = [memory |-> "live", class |-> class,
                                            referenceCount |-> 1]]
          /\ refs' = [refs EXCEPT ![o] = 1]
          /\ ret' = NULL
       \/ /\ "allocate" \in class
          /\ ret' = NULL
          /\ UNCHANGED <<npobj, refs>>
    /\ UNCHANGED <<variant, quarks, ids>>

Retained(objs, o) == [objs EXCEPT ![o].referenceCount = @ + 1]

\* The last reference: the class's deallocate, or g_free.
Released(objs, o) ==
    IF objs[o].referenceCount = 1
    THEN [objs EXCEPT ![o].referenceCount = 0, ![o].memory = "freed"]
    ELSE [objs EXCEPT ![o].referenceCount = @ - 1]

g_NPN_RetainObject(o) ==
    /\ Exists(o) /\ npobj[o].referenceCount < MaxRefs
    /\ npobj' = Retained(npobj, o)
    /\ refs' = [refs EXCEPT ![o] = @ + 1]
    /\ ret' = NULL
    /\ UNCHANGED <<variant, quarks, ids>>

g_NPN_ReleaseObject(o) ==
    /\ refs[o] > 0
    /\ npobj' = Released(npobj, o)
    /\ refs' = [refs EXCEPT ![o] = @ - 1]
    /\ ret' = NULL
    /\ UNCHANGED <<variant, quarks, ids>>

\* What is called for each function: hasProperty, too, for hasMethod.
Asked(f) == IF f = "hasMethod" THEN "hasProperty" ELSE f

\* g_NPN_Invoke, g_NPN_InvokeDefault, g_NPN_GetProperty, g_NPN_SetProperty,
\* g_NPN_RemoveProperty, g_NPN_HasProperty, g_NPN_HasMethod: FALSE without
\* the function, otherwise what the class answers.  A result that is an
\* object has been retained for the caller.  A class with hasMethod and
\* without hasProperty is left out: g_NPN_HasMethod would call NULL.
g_NPN_CallObject(f, o, v) ==
    /\ Exists(o) /\ variant[v] = NULL
    /\ \/ /\ f \notin npobj[o].class
          /\ ret' = [bool |-> FALSE]
          /\ UNCHANGED <<npobj, variant>>
       \/ /\ f \in npobj[o].class /\ Asked(f) \in npobj[o].class
          /\ \/ /\ f \in {"invoke", "invokeDefault", "getProperty"}
                /\ \E r \in {x \in NPObjects : Exists(x) /\ npobj[x].referenceCount < MaxRefs} :
                      /\ variant' = [variant EXCEPT ![v] = r]
                      /\ npobj' = Retained(npobj, r)
             \/ /\ f \in {"invoke", "invokeDefault", "getProperty"}
                /\ variant' = [variant EXCEPT ![v] = AString]
                /\ UNCHANGED npobj
             \/ UNCHANGED <<npobj, variant>>
          /\ ret' \in [bool : IF variant' = variant THEN BOOLEAN ELSE {TRUE}]
    /\ UNCHANGED <<refs, quarks, ids>>

\* Nothing is evaluated: an empty script is done at once.
g_NPN_Evaluate(v, empty) ==
    /\ variant[v] = NULL
    /\ ret' = [bool |-> empty]
    /\ UNCHANGED <<npobj, refs, variant, quarks, ids>>

\* As a slip would have it: the variant keeps what was released.
g_NPN_ReleaseVariantValueKeeps(v) ==
    /\ npobj' = IF IsObject(variant[v]) THEN Released(npobj, variant[v]) ELSE npobj
    /\ UNCHANGED variant

\* The string is freed, the object released, and the variant void after it.
g_NPN_ReleaseVariantValue(v) ==
    /\ npobj' = IF IsObject(variant[v]) THEN Released(npobj, variant[v]) ELSE npobj
    /\ variant' = [variant EXCEPT ![v] = NULL]

ReleasesVariant(v) ==
    /\ g_NPN_ReleaseVariantValue(v)
    /\ ret' = NULL
    /\ UNCHANGED <<refs, quarks, ids>>

----------------------------------------------------------------------------
(* Identifiers *)

Word(n) == n % WordSize
Signed(n) == IF n >= WordSize \div 2 THEN n - WordSize ELSE n

\* g_quark_from_string
Interned(qs, s) == IF \E i \in 1 .. Len(qs) : qs[i] = s THEN qs ELSE Append(qs, s)
InternedAll(qs, names) ==
    LET of[n \in 0 .. Len(names)] == IF n = 0 THEN qs ELSE Interned(of[n - 1], names[n])
    IN  of[Len(names)]
Quark(qs, s) == CHOOSE i \in 1 .. Len(qs) : qs[i] = s

pack_string_identifier(qs, s) == Word(Quark(qs, s) * 4 + 2)
is_string_identifier(id) == id % 4 = 2
unpack_string_identifier(id) == IF is_string_identifier(id) THEN quarks[id \div 4] ELSE NULL

pack_int_identifier(n) == Word(Word(n) * 2 + 1)
is_int_identifier(id) == id % 2 = 1
unpack_int_identifier(id) == IF is_int_identifier(id) THEN Signed(id) \div 2 ELSE 0

\* g_NPN_GetStringIdentifier, and g_NPN_GetStringIdentifiers for several
g_NPN_GetStringIdentifiers(names) ==
    LET qs == InternedAll(quarks, names)
        new == [i \in 1 .. Len(names) |-> pack_string_identifier(qs, names[i])]
    IN  /\ quarks' = qs
        /\ ids' = ids \cup {[for |-> names[i], id |-> new[i]] : i \in 1 .. Len(names)}
        /\ ret' = [identifiers |-> new]
        /\ UNCHANGED <<npobj, refs, variant>>

g_NPN_GetIntIdentifier(n) ==
    /\ ids' = ids \cup {[for |-> n, id |-> pack_int_identifier(n)]}
    /\ ret' = [identifiers |-> <<pack_int_identifier(n)>>]
    /\ UNCHANGED <<npobj, refs, variant, quarks>>

g_NPN_IdentifierIsString(id) == is_string_identifier(id)
g_NPN_UTF8FromIdentifier(id) == unpack_string_identifier(id)
g_NPN_IntFromIdentifier(id) == unpack_int_identifier(id)

\* The plugin asks about an identifier it has.
Unpacks(i) ==
    /\ ret' = IF g_NPN_IdentifierIsString(i.id) THEN g_NPN_UTF8FromIdentifier(i.id)
              ELSE [int |-> g_NPN_IntFromIdentifier(i.id)]
    /\ UNCHANGED <<npobj, refs, variant, quarks, ids>>

----------------------------------------------------------------------------
(* What the rest answers: void functions nothing, Java NULL *)

StreamFunctions == {"NPN_NewStream", "NPN_DestroyStream", "NPN_Write", "NPN_RequestRead"}
URLFunctions == {"NPN_GetURL", "NPN_PostURL", "NPN_PostURLNotify"}

g_NPN_Unimplemented(f, instance, stream) ==
    CASE f = "NPN_Write" -> "-1"
      [] f = "NPN_RequestRead" -> IF stream THEN "NPERR_GENERIC_ERROR" ELSE "NPERR_INVALID_PARAM"
      [] f \in URLFunctions \cup StreamFunctions /\ ~instance -> "NPERR_INVALID_INSTANCE_ERROR"
      [] f \in StreamFunctions /\ instance /\ ~stream -> "NPERR_INVALID_PARAM"
      [] f = "NPN_SetValue" \/ f \in URLFunctions \cup StreamFunctions -> "NPERR_GENERIC_ERROR"
      [] OTHER -> "none"

g_NPN_GetValue(variable) ==
    CASE variable = "NPNVToolkit" -> "NPNVGtk2"
      [] variable = "NPNVSupportsXEmbedBool" -> "USE_XEMBED"
      [] OTHER -> "NPERR_INVALID_PARAM"

Answers ==
    /\ \/ \E f \in StreamFunctions \cup URLFunctions \cup {"NPN_SetValue", "NPN_Status"},
             instance, stream \in BOOLEAN : ret' = [error |-> g_NPN_Unimplemented(f, instance, stream)]
       \/ \E variable \in {"NPNVToolkit", "NPNVSupportsXEmbedBool", "NPNVjavascriptEnabledBool"} :
             ret' = [error |-> g_NPN_GetValue(variable)]
    /\ UNCHANGED <<npobj, refs, variant, quarks, ids>>

----------------------------------------------------------------------------

\* g_NP_Initialize: the functions in mozilla_funcs.
BrowserNext ==
    \/ \E o \in NPObjects : \/ \E c \in Classes : g_NPN_CreateObject(o, c)
                            \/ g_NPN_RetainObject(o)
                            \/ g_NPN_ReleaseObject(o)
                            \/ \E f \in UNION Classes, v \in Variants : g_NPN_CallObject(f, o, v)
    \/ \E v \in Variants : \/ \E empty \in BOOLEAN : g_NPN_Evaluate(v, empty)
                           \/ ReleasesVariant(v)
    \/ \E n \in 1 .. Cardinality(Strings) : \E names \in [1 .. n -> Strings] :
          g_NPN_GetStringIdentifiers(names)
    \/ \E n \in Integers31 : g_NPN_GetIntIdentifier(n)
    \/ \E i \in ids : Unpacks(i)
    \/ Answers

----------------------------------------------------------------------------
(* Properties *)

\* The player keeps track of what it has handed out.  The count of an object
\* is the number of references that the plugin and its variants hold, and
\* the object lives as long as there is one, also when a variant is released
\* twice (g_NPN_ReleaseVariantValue, g_NPN_ReleaseObject).  And every
\* identifier still tells what it was made for, though integers of 31 bits
\* and strings share a word (pack_string_identifier, pack_int_identifier).
PlayerKeepsTrack ==
    /\ \A o \in NPObjects :
          /\ npobj[o].referenceCount = refs[o] + Cardinality({v \in Variants : variant[v] = o})
          /\ npobj[o].memory = "live" <=> npobj[o].referenceCount > 0
    /\ \A i \in ids :
          /\ g_NPN_IdentifierIsString(i.id) <=> i.for \in Strings
          /\ i.for = IF i.for \in Strings THEN g_NPN_UTF8FromIdentifier(i.id)
                     ELSE g_NPN_IntFromIdentifier(i.id)
=============================================================================
