------------------------- MODULE IdentifiersProofs -------------------------
(* Proofs about Identifiers, for any tables, names and nested calls. *)
EXTENDS Identifiers, DataFacts, TLAPS

-----------------------------------------------------------------------------
(***************************************************************************)
(* The inductive invariant, on values t of cache, at of atoms, w of a      *)
(* waiting call.                                                           *)
(***************************************************************************)
Meanings == [Pointers -> Values \cup {NULL}]

\* The entry the browser's meaning of an identifier calls for.
Entry(v) == IF v \in Strings THEN [isString |-> TRUE, u |-> v] ELSE [isString |-> FALSE, u |-> v]

\* Every entry of the table says what the browser would say.
Right(t, at) ==
    \A id \in DOMAIN Table(t) :
        id \in Pointers /\ at[id] \in Values /\ Table(t)[id] = Entry(at[id])

CallNames == {"GetStringIdentifier", "GetStringIdentifiers", "GetIntIdentifier",
              "IdentifierIsString", "UTF8FromIdentifier", "IntFromIdentifier"}
Calls == [call : CallNames, arg : Strings \cup Ints \cup Pointers \cup Seq(Strings)]

\* A call waits with an argument of its kind.  This is where the plugin counts:
\* it has not asked for the integer of a name.
WellAsked(w, at) ==
    /\ w.call = "GetStringIdentifier" => w.arg \in Strings
    /\ w.call = "GetIntIdentifier" => w.arg \in Ints
    /\ w.call = "GetStringIdentifiers" => w.arg \in Seq(Strings)
    /\ w.call = "IdentifierIsString" => w.arg \in Pointers /\ at[w.arg] \in Values
    /\ w.call = "UTF8FromIdentifier" => w.arg \in Pointers /\ at[w.arg] \in Values
    /\ w.call = "IntFromIdentifier" => w.arg \in Pointers /\ at[w.arg] \in Ints

IdentifiersInvariant ==
    /\ use_cache \in BOOLEAN
    /\ connected \in BOOLEAN
    /\ undefined \in BOOLEAN
    /\ connected /\ ~undefined =>
        /\ alive
        /\ atoms \in Meanings
        /\ \A p \in held : p \in Pointers /\ atoms[p] \in Values
        /\ Right(cache, atoms)
        /\ waiting \in Seq(Calls)
        /\ \A k \in 1..Len(waiting) : WellAsked(waiting[k], atoms)
        /\ IsRight(answer)

-----------------------------------------------------------------------------
(* The table.                                                                *)

\* The browser gives pointers a meaning and never takes one back.
Grows(at, at2) == \A p \in Pointers : at[p] \in Values => at2[p] = at[p]

LEMMA NullIsNoTable == Right(NULL, atoms)
  BY DEF Right, Table, NoTable

LEMMA RightGrows ==
    ASSUME NEW t, NEW at, NEW at2, Right(t, at), Grows(at, at2)
    PROVE  Right(t, at2)
  BY DEF Right, Grows

LEMMA ReserveRight ==
    ASSUME NEW t, NEW at, NEW n, Right(t, at)
    PROVE  Right(npidentifier_cache_reserve(t, n), at)
<1>1. npidentifier_cache_reserve(t, n) \in {t, NoTable}
  BY DEF npidentifier_cache_reserve, npidentifier_cache_invalidate, npidentifier_cache_create
<1>2. Right(NoTable, at)
  BY DEF Right, Table, NoTable
<1> QED
  BY <1>1, <1>2

LEMMA InsertRight ==
    ASSUME NEW t, NEW at, NEW id \in Pointers, at[id] \in Values, Right(t, at), t # NULL,
           Insert(t, id, Entry(at[id])) # NULL
    PROVE  Right(Insert(t, id, Entry(at[id])), at)
<1> DEFINE e == Entry(at[id])
           n == Insert(t, id, e)
<1>1. DOMAIN n = DOMAIN t \cup {id}
  BY DEF Insert
<1>2. \A x \in DOMAIN n : n[x] = IF x = id THEN e ELSE t[x]
  BY DEF Insert
<1>3. Table(n) = n /\ Table(t) = t
  BY DEF Table
<1> HIDE DEF n
<1> QED
  BY <1>1, <1>2, <1>3 DEF Right, n

\* npidentifier_cache_add_string, npidentifier_cache_add_int
LEMMA AddRight ==
    ASSUME NEW t, NEW at, NEW id \in Pointers, Right(t, at)
    PROVE  /\ at[id] \in Strings => Right(npidentifier_cache_add_string(t, id, at[id]), at)
           /\ at[id] \in Ints => Right(npidentifier_cache_add_int(t, id, at[id]), at)
<1>1. /\ at[id] \in Strings => Entry(at[id]) = [isString |-> TRUE, u |-> at[id]]
      /\ at[id] \in Ints => Entry(at[id]) = [isString |-> FALSE, u |-> at[id]]
  BY KindsAssumption DEF Entry
<1>2. ASSUME NEW n PROVE n = NULL => Right(n, at)
  BY DEF Right, Table, NoTable
<1> QED
  BY <1>1, <1>2, InsertRight DEF npidentifier_cache_add_string, npidentifier_cache_add_int, Values

\* The table after the first i names, from the one before.
WithName(t, names, ids, i) ==
    IF npidentifier_cache_lookup(t, ids[i]) # NULL
    THEN t
    ELSE npidentifier_cache_add_string(npidentifier_cache_reserve(t, 1), ids[i], names[i])

\* g is the tables that AddNames goes through, up to name n.
Tables(g, t, names, ids, n) ==
    g = [i \in 0..n |-> IF i = 0 THEN t ELSE WithName(g[i - 1], names, ids, i)]

\* They exist for every n: a least n without them would have the ones of n - 1.
LEMMA TablesExist ==
    ASSUME NEW t, NEW names, NEW ids, NEW n \in Nat
    PROVE  \E g : Tables(g, t, names, ids, n)
<1> DEFINE Bad == {m \in Nat : ~ \E g : Tables(g, t, names, ids, m)}
<1> SUFFICES ASSUME Bad # {} PROVE FALSE
  OBVIOUS
<1>1. PICK m \in Bad : \A k \in Bad : m <= k
  BY LeastNumber
<1>2. m # 0
  <2>1. Tables([i \in 0..0 |-> t], t, names, ids, 0)
    BY DEF Tables
  <2> QED
    BY <2>1
<1>3. m - 1 \in Nat /\ m - 1 \notin Bad
  BY <1>1, <1>2
<1>4. PICK g : Tables(g, t, names, ids, m - 1)
  BY <1>3
<1> DEFINE h == [i \in 0..m |-> IF i = m THEN WithName(g[m - 1], names, ids, m) ELSE g[i]]
<1>5. Tables(h, t, names, ids, m)
  <2>1. ASSUME NEW i \in 0..m
        PROVE  h[i] = IF i = 0 THEN t ELSE WithName(h[i - 1], names, ids, i)
    <3>1. CASE i = m
      BY <1>2, <1>3, <3>1
    <3>2. CASE i # m
      <4>1. i \in 0..(m - 1) /\ h[i] = g[i] /\ (i # 0 => i - 1 \in 0..(m - 1) /\ h[i - 1] = g[i - 1])
        BY <1>3, <3>2
      <4> QED
        BY <1>4, <4>1 DEF Tables
    <3> QED
      BY <3>1, <3>2
  <2>2. h = [i \in 0..m |-> h[i]]
    OBVIOUS
  <2> HIDE DEF h
  <2> QED
    BY <2>1, <2>2 DEF Tables
<1> QED
  BY <1>5

LEMMA AddNamesIsLast ==
    ASSUME NEW t, NEW names, NEW ids, Len(names) \in Nat
    PROVE  \E g : Tables(g, t, names, ids, Len(names)) /\ AddNames(t, names, ids) = g[Len(names)]
<1> DEFINE g == CHOOSE f : Tables(f, t, names, ids, Len(names))
<1>1. Tables(g, t, names, ids, Len(names))
  BY TablesExist, Zenon
<1>2. AddNames(t, names, ids) = g[Len(names)]
  BY Zenon DEF AddNames, Tables, WithName
<1> QED
  BY <1>1, <1>2, Zenon

\* cached_NPN_GetStringIdentifiers
LEMMA AddNamesRight ==
    ASSUME NEW t, NEW at, NEW names \in Seq(Strings), NEW ids \in [1..Len(names) -> Pointers],
           Right(t, at), \A i \in 1..Len(names) : at[ids[i]] = names[i]
    PROVE  Right(AddNames(t, names, ids), at)
<1>1. Len(names) \in Nat
  OBVIOUS
<1>2. PICK g : Tables(g, t, names, ids, Len(names)) /\ AddNames(t, names, ids) = g[Len(names)]
  BY <1>1, AddNamesIsLast
<1> DEFINE N == Len(names)
           Bad == {i \in 0..N : ~ Right(g[i], at)}
<1>3. /\ g[0] = t
      /\ \A i \in 1..N : g[i] = WithName(g[i - 1], names, ids, i)
  BY <1>1, <1>2 DEF Tables
<1>4. Bad = {}
  <2> SUFFICES ASSUME Bad # {} PROVE FALSE
    OBVIOUS
  <2>1. Bad \subseteq Nat
    OBVIOUS
  <2>2. PICK i \in Bad : \A k \in Bad : i <= k
    BY <2>1, LeastNumber
  <2>3. i \in 1..N /\ i - 1 \in 0..N
    BY <1>1, <1>3, <2>2
  <2>4. Right(g[i - 1], at)
    BY <2>2, <2>3
  <2>5. /\ ids[i] \in Pointers /\ at[ids[i]] = names[i] /\ names[i] \in Strings
    BY <2>3
  <2>6. Right(WithName(g[i - 1], names, ids, i), at)
    <3> DEFINE t1 == npidentifier_cache_reserve(g[i - 1], 1)
    <3>1. Right(t1, at)
      BY <2>4, ReserveRight
    <3> HIDE DEF t1
    <3>2. Right(npidentifier_cache_add_string(t1, ids[i], at[ids[i]]), at)
      BY <2>5, <3>1, AddRight
    <3> QED
      BY <2>4, <2>5, <3>2 DEF WithName, t1
  <2> QED
    BY <1>3, <2>2, <2>3, <2>6
<1> QED
  BY <1>1, <1>2, <1>4

-----------------------------------------------------------------------------
(* The steps.                                                                *)

LEMMA InternGrows ==
    ASSUME atoms \in Meanings, NEW v \in Values, NEW p \in Pointers,
           NEW at2, Intern(v, atoms, at2, p)
    PROVE  at2 \in Meanings /\ Grows(atoms, at2) /\ at2[p] = v
<1>1. NULL \notin Values
  BY NullAssumption DEF Values
<1> QED
  BY <1>1 DEF Intern, Meanings, Grows

\* The part of the invariant that holds while the connection works.
Sound(at, t, h, w) ==
    /\ at \in Meanings
    /\ \A p \in h : p \in Pointers /\ at[p] \in Values
    /\ Right(t, at)
    /\ w \in Seq(Calls)
    /\ \A k \in 1..Len(w) : WellAsked(w[k], at)

LEMMA InvariantFromSound ==
    ASSUME use_cache' \in BOOLEAN, connected' \in BOOLEAN, undefined' \in BOOLEAN, alive',
           Sound(atoms', cache', held', waiting'), IsRight(answer)'
    PROVE  IdentifiersInvariant'
  BY DEF IdentifiersInvariant, Sound

LEMMA NoAnswerIsRight == ASSUME answer' = NoAnswer PROVE IsRight(answer)'
  BY DEF IsRight, NoAnswer, Return

LEMMA AskedGrows ==
    ASSUME NEW at, NEW at2, Grows(at, at2), NEW w, WellAsked(w, at)
    PROVE  WellAsked(w, at2)
  BY DEF WellAsked, Grows, Values

LEMMA InvokeStep ==
    ASSUME use_cache \in BOOLEAN, connected, alive, Sound(atoms, cache, held, waiting),
           connected \in BOOLEAN, undefined' \in BOOLEAN,
           NEW c \in CallNames, NEW arg \in Strings \cup Ints \cup Pointers \cup Seq(Strings),
           Invoke(c, arg), WellAsked([call |-> c, arg |-> arg], atoms)
    PROVE  IdentifiersInvariant'
<1> DEFINE w == [call |-> c, arg |-> arg]
<1>1. w \in Calls
  BY DEF Calls
<1>2. WellAsked(w, atoms)
  OBVIOUS
<1>3. /\ waiting' = Append(waiting, w) /\ answer' = NoAnswer
      /\ use_cache' = use_cache /\ atoms' = atoms /\ cache' = cache /\ held' = held
      /\ connected' = connected /\ alive' = alive
  BY DEF Invoke
<1> HIDE DEF w
<1>4. waiting \in Seq(Calls) /\ \A k \in 1..Len(waiting) : WellAsked(waiting[k], atoms)
  BY DEF Sound
<1>5. /\ waiting' \in Seq(Calls) /\ Len(waiting') = Len(waiting) + 1 /\ Len(waiting) \in Nat
      /\ \A i \in 1..Len(waiting) : waiting'[i] = waiting[i]
      /\ waiting'[Len(waiting) + 1] = w
  BY <1>1, <1>3, <1>4, AppendProps
<1>6. \A k \in 1..Len(waiting') : WellAsked(waiting'[k], atoms)
  <2> SUFFICES ASSUME NEW k \in 1..(Len(waiting) + 1) PROVE WellAsked(waiting'[k], atoms)
    BY <1>5
  <2>1. CASE k \in 1..Len(waiting)
    BY <1>4, <1>5, <2>1
  <2>2. CASE k = Len(waiting) + 1
    BY <1>2, <1>5, <2>2
  <2> QED
    BY <1>5, <2>1, <2>2
<1>7. Sound(atoms', cache', held', waiting')
  BY <1>3, <1>5, <1>6 DEF Sound
<1> QED
  BY <1>3, <1>7, InvariantFromSound, NoAnswerIsRight

\* A call that the table answers.
LEMMA ReturnNowStep ==
    ASSUME use_cache \in BOOLEAN, connected, alive, Sound(atoms, cache, held, waiting),
           connected \in BOOLEAN, undefined' \in BOOLEAN, NEW c, NEW arg, NEW result,
           ReturnNow(c, arg, result), IsRight(Return(c, arg, result)),
           c \in {"GetStringIdentifier", "GetIntIdentifier"}
                => result \in Pointers /\ atoms[result] \in Values
    PROVE  IdentifiersInvariant'
<1>1. /\ answer' = Return(c, arg, result)
      /\ \A p \in held' : p \in held
            \/ (c \in {"GetStringIdentifier", "GetIntIdentifier"} /\ p = result)
      /\ use_cache' = use_cache /\ atoms' = atoms /\ cache' = cache /\ waiting' = waiting
      /\ connected' = connected /\ alive' = alive
  BY DEF ReturnNow
<1>2. IsRight(answer)'
  BY <1>1 DEF IsRight
<1>3. Sound(atoms', cache', held', waiting')
  BY <1>1 DEF Sound
<1> QED
  BY <1>1, <1>2, <1>3, InvariantFromSound

LEMMA PluginStep ==
    ASSUME IdentifiersInvariant, connected, ~undefined, ~undefined', undefined' \in BOOLEAN,
           PluginCalls
    PROVE  IdentifiersInvariant'
<1>0. /\ use_cache \in BOOLEAN /\ connected \in BOOLEAN /\ undefined' \in BOOLEAN /\ alive
      /\ Sound(atoms, cache, held, waiting)
  BY DEF IdentifiersInvariant, Sound
<1>t. /\ \A p \in held : p \in Pointers /\ atoms[p] \in Values
      /\ Right(cache, atoms)
  BY <1>0 DEF Sound
<1>e. ASSUME NEW id \in DOMAIN Table(cache)
      PROVE  /\ id \in Pointers /\ atoms[id] \in Values /\ Table(cache)[id].u = atoms[id]
             /\ Table(cache)[id].isString \in BOOLEAN
             /\ Table(cache)[id].isString <=> atoms[id] \in Strings
  <2>1. /\ id \in Pointers /\ atoms[id] \in Values
        /\ Table(cache)[id] = Entry(atoms[id])
    BY <1>t DEF Right
  <2>2. CASE atoms[id] \in Strings
    BY <2>1, <2>2 DEF Entry
  <2>3. CASE atoms[id] \notin Strings
    BY <2>1, <2>3 DEF Entry
  <2> QED
    BY <2>1, <2>2, <2>3
<1>l. ASSUME NEW id, npidentifier_cache_lookup(cache, id) # NULL
      PROVE  id \in DOMAIN Table(cache)
             /\ npidentifier_cache_lookup(cache, id) = Table(cache)[id]
  BY <1>l DEF npidentifier_cache_lookup
<1>n. NULL \notin Values
  BY NullAssumption DEF Values
<1>1. ASSUME NEW name \in Strings, cached_NPN_GetStringIdentifier(name)
      PROVE  IdentifiersInvariant'
  <2>1. \/ \E id \in npidentifier_cache_has_string(cache, name) :
              ReturnNow("GetStringIdentifier", name, id)
        \/ Invoke("GetStringIdentifier", name)
    BY <1>1 DEF cached_NPN_GetStringIdentifier
  <2>2. CASE Invoke("GetStringIdentifier", name)
    <3>1. WellAsked([call |-> "GetStringIdentifier", arg |-> name], atoms)
      BY DEF WellAsked
    <3> QED
      BY <1>0, <2>2, <3>1, InvokeStep DEF CallNames
  <2>3. ASSUME NEW id \in npidentifier_cache_has_string(cache, name),
               ReturnNow("GetStringIdentifier", name, id)
        PROVE  IdentifiersInvariant'
    <3>1. id \in DOMAIN Table(cache) /\ Table(cache)[id].u = name
      BY DEF npidentifier_cache_has_string, npidentifier_cache_find, npidentifier_cache_find_info
    <3>2. id \in Pointers /\ atoms[id] = name /\ atoms[id] \in Values
      BY <1>e, <3>1
    <3>3. IsRight(Return("GetStringIdentifier", name, id))
      BY <3>2 DEF IsRight, Return
    <3> QED
      BY <1>0, <2>3, <3>2, <3>3, ReturnNowStep
  <2> QED
    BY <2>1, <2>2, <2>3
<1>2. ASSUME NEW names \in Names, cached_NPN_GetStringIdentifiers(names)
      PROVE  IdentifiersInvariant'
  <2>1. names \in Seq(Strings)
    <3>1. PICK n \in 1..MaxNames : names \in [1..n -> Strings]
      BY DEF Names
    <3>2. n \in Nat
      BY <3>1
    <3> QED
      BY <3>1, <3>2
  <2>2. Invoke("GetStringIdentifiers", names)
    BY <1>2 DEF cached_NPN_GetStringIdentifiers
  <2>3. WellAsked([call |-> "GetStringIdentifiers", arg |-> names], atoms)
    BY <2>1 DEF WellAsked
  <2> QED
    BY <1>0, <2>1, <2>2, <2>3, InvokeStep DEF CallNames
<1>3. ASSUME NEW intid \in Ints, cached_NPN_GetIntIdentifier(intid)
      PROVE  IdentifiersInvariant'
  <2>1. \/ \E id \in npidentifier_cache_has_int(cache, intid) :
              ReturnNow("GetIntIdentifier", intid, id)
        \/ Invoke("GetIntIdentifier", intid)
    BY <1>3 DEF cached_NPN_GetIntIdentifier
  <2>2. CASE Invoke("GetIntIdentifier", intid)
    <3>1. WellAsked([call |-> "GetIntIdentifier", arg |-> intid], atoms)
      BY DEF WellAsked
    <3> QED
      BY <1>0, <2>2, <3>1, InvokeStep DEF CallNames
  <2>3. ASSUME NEW id \in npidentifier_cache_has_int(cache, intid),
               ReturnNow("GetIntIdentifier", intid, id)
        PROVE  IdentifiersInvariant'
    <3>1. id \in DOMAIN Table(cache) /\ Table(cache)[id].u = intid
      BY DEF npidentifier_cache_has_int, npidentifier_cache_find, npidentifier_cache_find_info
    <3>2. id \in Pointers /\ atoms[id] = intid /\ atoms[id] \in Values
      BY <1>e, <3>1
    <3>3. IsRight(Return("GetIntIdentifier", intid, id))
      BY <3>2 DEF IsRight, Return
    <3> QED
      BY <1>0, <2>3, <3>2, <3>3, ReturnNowStep
  <2> QED
    BY <2>1, <2>2, <2>3
<1>4. ASSUME NEW id \in held, cached_NPN_IdentifierIsString(id)
      PROVE  IdentifiersInvariant'
  <2> DEFINE npi == npidentifier_cache_lookup(cache, id)
  <2>1. \/ npi # NULL /\ ReturnNow("IdentifierIsString", id, npi.isString)
        \/ Invoke("IdentifierIsString", id)
    BY <1>4 DEF cached_NPN_IdentifierIsString
  <2>2. CASE Invoke("IdentifierIsString", id)
    <3>1. WellAsked([call |-> "IdentifierIsString", arg |-> id], atoms)
      BY <1>t DEF WellAsked
    <3> QED
      BY <1>0, <1>t, <2>2, <3>1, InvokeStep DEF CallNames
  <2>3. CASE npi # NULL /\ ReturnNow("IdentifierIsString", id, npi.isString)
    <3>1. npi.isString \in BOOLEAN /\ (npi.isString <=> atoms[id] \in Strings)
      BY <1>e, <1>l, <2>3
    <3> HIDE DEF npi
    <3>2. npi.isString = (atoms[id] \in Strings)
      BY <3>1
    <3>3. IsRight(Return("IdentifierIsString", id, npi.isString))
      BY <3>2 DEF IsRight, Return
    <3> QED
      BY <1>0, <2>3, <3>3, ReturnNowStep
  <2> QED
    BY <2>1, <2>2, <2>3
<1>5. ASSUME NEW id \in held, cached_NPN_UTF8FromIdentifier(id)
      PROVE  IdentifiersInvariant'
  <2> DEFINE str == npidentifier_cache_get_string_copy(cache, id)
  <2>1. \/ str # NULL /\ ReturnNow("UTF8FromIdentifier", id, str)
        \/ Invoke("UTF8FromIdentifier", id)
    BY <1>5 DEF cached_NPN_UTF8FromIdentifier
  <2>2. CASE Invoke("UTF8FromIdentifier", id)
    <3>1. WellAsked([call |-> "UTF8FromIdentifier", arg |-> id], atoms)
      BY <1>t DEF WellAsked
    <3> QED
      BY <1>0, <1>t, <2>2, <3>1, InvokeStep DEF CallNames
  <2>3. CASE str # NULL /\ ReturnNow("UTF8FromIdentifier", id, str)
    <3>1. str = atoms[id]
      BY <1>e, <1>l, <2>3 DEF npidentifier_cache_get_string_copy
    <3> HIDE DEF str
    <3>2. IsRight(Return("UTF8FromIdentifier", id, str))
      BY <3>1 DEF IsRight, Return
    <3> QED
      BY <1>0, <2>3, <3>2, ReturnNowStep
  <2> QED
    BY <2>1, <2>2, <2>3
<1>6. ASSUME NEW id \in held, cached_NPN_IntFromIdentifier(id)
      PROVE  IdentifiersInvariant'
  <2> DEFINE npi == npidentifier_cache_lookup(cache, id)
  <2>1. atoms[id] \in Ints /\ atoms[id] \notin Strings
    BY <1>6, <1>t, KindsAssumption DEF cached_NPN_IntFromIdentifier, Values
  <2>2. npi # NULL => npi.isString \in BOOLEAN /\ ~npi.isString /\ npi.u = atoms[id]
    BY <1>e, <1>l, <2>1
  <2>3. \/ npi # NULL /\ ReturnNow("IntFromIdentifier", id, npi.u)
        \/ Invoke("IntFromIdentifier", id)
    BY <1>6, <2>2 DEF cached_NPN_IntFromIdentifier
  <2>4. CASE Invoke("IntFromIdentifier", id)
    <3>1. WellAsked([call |-> "IntFromIdentifier", arg |-> id], atoms)
      BY <1>t, <2>1 DEF WellAsked
    <3> QED
      BY <1>0, <1>t, <2>4, <3>1, InvokeStep DEF CallNames
  <2>5. CASE npi # NULL /\ ReturnNow("IntFromIdentifier", id, npi.u)
    <3>1. npi.u = atoms[id]
      BY <2>2, <2>5
    <3> HIDE DEF npi
    <3>2. IsRight(Return("IntFromIdentifier", id, npi.u))
      BY <3>1 DEF IsRight, Return
    <3> QED
      BY <1>0, <2>5, <3>2, ReturnNowStep
  <2> QED
    BY <2>3, <2>4, <2>5
<1> QED
  BY <1>1, <1>2, <1>3, <1>4, <1>5, <1>6 DEF PluginCalls

\* The reply to the call on top: what the browser answers is right, and so is
\* the table that learns it.
LEMMA FinishStep ==
    ASSUME use_cache \in BOOLEAN, connected \in BOOLEAN, alive,
           Sound(atoms, cache, held, waiting), waiting # <<>>,
           NEW result, Finish(result),
           atoms' \in Meanings, Grows(atoms, atoms'),
           \A p \in held' : p \in Pointers /\ atoms'[p] \in Values,
           Right(Learn(top.call, top.arg, result), atoms'),
           IsRight(answer)', undefined' \in BOOLEAN,
           use_cache' = use_cache, connected' = connected, alive' = alive
    PROVE  IdentifiersInvariant'
<1>1. /\ waiting \in Seq(Calls) /\ Right(cache, atoms)
      /\ \A k \in 1..Len(waiting) : WellAsked(waiting[k], atoms)
  BY DEF Sound
<1>2. cache' \in {cache, Learn(top.call, top.arg, result)} /\ waiting' = Front(waiting)
  BY DEF Finish, Front
<1>3. Right(cache', atoms')
  BY <1>1, <1>2, RightGrows
<1>4. /\ waiting' \in Seq(Calls) /\ Len(waiting') = Len(waiting) - 1 /\ Len(waiting) \in Nat
      /\ \A i \in 1..Len(waiting') : waiting'[i] = waiting[i]
  BY <1>1, <1>2, FrontProps
<1>5. \A k \in 1..Len(waiting') : WellAsked(waiting'[k], atoms')
  BY <1>1, <1>4, AskedGrows
<1>6. Sound(atoms', cache', held', waiting')
  BY <1>3, <1>4, <1>5 DEF Sound
<1> QED
  BY <1>6, InvariantFromSound

LEMMA ReplyStep ==
    ASSUME IdentifiersInvariant, connected, ~undefined, Reply
    PROVE  IdentifiersInvariant'
<1> DEFINE c == top.call
           arg == top.arg
<1>0. /\ use_cache \in BOOLEAN /\ connected \in BOOLEAN /\ alive
      /\ Sound(atoms, cache, held, waiting)
      /\ atoms \in Meanings /\ Right(cache, atoms)
      /\ \A p \in held : p \in Pointers /\ atoms[p] \in Values
      /\ waiting \in Seq(Calls)
      /\ \A k \in 1..Len(waiting) : WellAsked(waiting[k], atoms)
  BY DEF IdentifiersInvariant, Sound
<1>1. /\ waiting # <<>> /\ use_cache' = use_cache /\ connected' = connected /\ alive' = alive
      /\ undefined' \in BOOLEAN
  <2>1. /\ waiting # <<>> /\ use_cache' = use_cache /\ connected' = connected
        /\ undefined' = undefined
    BY DEF Reply
  <2>2. alive' = alive
    BY Zenon DEF Reply
  <2>3. undefined \in BOOLEAN
    BY Zenon DEF IdentifiersInvariant
  <2> QED
    BY <2>1, <2>2, <2>3, Zenon
<1>2. WellAsked(top, atoms)
  <2>1. Len(waiting) \in 1..Len(waiting)
    BY <1>0, <1>1
  <2> QED
    BY <1>0, <2>1 DEF top
<1>3. Right(npidentifier_cache_reserve(cache, 1), atoms)
  BY <1>0, ReserveRight
<1>4. ASSUME c \in {"GetStringIdentifier", "GetIntIdentifier"}, NEW p \in Pointers,
             Intern(arg, atoms, atoms', p), held' = held \cup {p}, Finish(p)
      PROVE  IdentifiersInvariant'
  <2>1. arg \in Values
    BY <1>2, <1>4 DEF WellAsked, Values
  <2>2. atoms' \in Meanings /\ Grows(atoms, atoms') /\ atoms'[p] = arg
    BY <1>0, <1>4, <2>1, InternGrows
  <2>3. answer' = Return(c, arg, p)
    BY <1>4 DEF Finish
  <2>4. IsRight(answer)'
    BY <1>4, <2>2, <2>3 DEF IsRight, Return
  <2>5. Right(npidentifier_cache_reserve(cache, 1), atoms')
    BY <1>3, <2>2, RightGrows
  <2>6. Right(Learn(c, arg, p), atoms')
    <3>1. CASE c = "GetStringIdentifier"
      <4>1. arg \in Strings
        BY <1>2, <3>1 DEF WellAsked
      <4> QED
        BY <2>2, <2>5, <3>1, <4>1, AddRight DEF Learn
    <3>2. CASE c = "GetIntIdentifier"
      <4>1. arg \in Ints
        BY <1>2, <3>2 DEF WellAsked
      <4> QED
        BY <2>2, <2>5, <3>2, <4>1, AddRight DEF Learn
    <3> QED
      BY <1>4, <3>1, <3>2
  <2>7. \A q \in held' : q \in Pointers /\ atoms'[q] \in Values
    BY <1>0, <1>4, <2>1, <2>2 DEF Grows
  <2> QED
    BY <1>0, <1>1, <1>4, <2>2, <2>4, <2>6, <2>7, FinishStep
<1>5. ASSUME c = "GetStringIdentifiers", NEW ps \in [1..Len(arg) -> Pointers], NEW new,
             new = [p \in Pointers |-> IF \E i \in 1..Len(ps) : ps[i] = p
                                       THEN arg[CHOOSE i \in 1..Len(ps) : ps[i] = p]
                                       ELSE atoms[p]],
             \A i \in 1..Len(ps) :
                /\ new[ps[i]] = arg[i]
                /\ IF \E q \in Pointers : atoms[q] = arg[i]
                   THEN atoms[ps[i]] = arg[i]
                   ELSE atoms[ps[i]] = NULL,
             atoms' = new, held' = held \cup Range(ps), Finish(ps)
      PROVE  IdentifiersInvariant'
  <2>1. arg \in Seq(Strings) /\ Len(arg) \in Nat
    BY <1>2, <1>5 DEF WellAsked
  <2>2. ps \in Seq(Pointers) /\ Len(ps) = Len(arg) /\ Len(ps) \in Nat
    BY <1>5, <2>1
  <2>a. atoms' = new /\ held' = held \cup Range(ps) /\ c = "GetStringIdentifiers"
    BY <1>5
  <2>b. \A i \in 1..Len(ps) : new[ps[i]] = arg[i]
    BY <1>5
  <2>3. \A i \in 1..Len(arg) : ps[i] \in Pointers /\ arg[i] \in Strings /\ atoms'[ps[i]] = arg[i]
    <3> HIDE DEF arg
    <3> QED
      BY <2>1, <2>2, <2>a, <2>b
  <2>4. ASSUME NEW p \in Pointers
        PROVE  \/ \E i \in 1..Len(arg) : ps[i] = p /\ atoms'[p] = arg[i]
               \/ (\A i \in 1..Len(arg) : ps[i] # p) /\ atoms'[p] = atoms[p]
    BY <1>5, <2>2, <2>3
  <2>5. atoms' \in Meanings
    <3>1. DOMAIN atoms' = Pointers /\ atoms' = [p \in Pointers |-> atoms'[p]]
      BY <1>5
    <3>2. ASSUME NEW p \in Pointers PROVE atoms'[p] \in Values \cup {NULL}
      BY <1>0, <2>3, <2>4 DEF Values, Meanings
    <3> QED
      BY <3>1, <3>2 DEF Meanings
  <2>6. Grows(atoms, atoms')
    <3> SUFFICES ASSUME NEW p \in Pointers, atoms[p] \in Values PROVE atoms'[p] = atoms[p]
      BY DEF Grows
    <3>1. atoms[p] # NULL
      BY NullAssumption DEF Values
    <3>2. \A i \in 1..Len(arg) : ps[i] = p => atoms[p] = arg[i]
      <4>1. \A i \in 1..Len(arg) : atoms[ps[i]] = arg[i] \/ atoms[ps[i]] = NULL
        BY <1>5, <2>2
      <4> QED
        BY <3>1, <4>1
    <3> QED
      BY <2>4, <3>2
  <2>7. answer' = Return(c, arg, ps)
    BY <1>5 DEF Finish
  <2>8. IsRight(answer)'
    <3> HIDE DEF arg, c
    <3>1. answer'.call = "GetStringIdentifiers" /\ answer'.arg = arg /\ answer'.result = ps
      BY <2>7, <2>a DEF Return
    <3>2. \A i \in 1..Len(answer'.arg) : atoms'[answer'.result[i]] = answer'.arg[i]
      BY <2>3, <3>1
    <3> QED
      BY <3>1, <3>2 DEF IsRight
  <2>9. Right(Learn(c, arg, ps), atoms')
    <3>1. Right(cache, atoms')
      BY <1>0, <2>6, RightGrows
    <3>2. Right(AddNames(cache, arg, ps), atoms')
      BY <2>1, <2>3, <3>1, <1>5, AddNamesRight
    <3> QED
      BY <1>5, <3>2 DEF Learn
  <2>10. \A q \in held' : q \in Pointers /\ atoms'[q] \in Values
    <3>1. \A q \in Range(ps) : \E i \in 1..Len(arg) : q = ps[i]
      BY DEF Range
    <3> QED
      BY <1>0, <2>3, <2>6, <2>a, <3>1 DEF Grows, Values
  <2> QED
    BY <1>0, <1>1, <1>5, <2>5, <2>6, <2>8, <2>9, <2>10, FinishStep
<1>6. ASSUME c = "IdentifierIsString", Finish(atoms[arg] \in Strings),
             atoms' = atoms, held' = held
      PROVE  IdentifiersInvariant'
  <2> DEFINE r == atoms[arg] \in Strings
  <2>1. answer' = Return(c, arg, r)
    BY <1>6 DEF Finish
  <2>2. IsRight(answer)'
    <3>1. answer'.call = "IdentifierIsString" /\ answer'.arg = arg /\ answer'.result = r
      BY <1>6, <2>1 DEF Return
    <3>2. answer'.result = (atoms'[answer'.arg] \in Strings)
      BY <1>6, <3>1
    <3> HIDE DEF r, arg, c
    <3> QED
      BY <3>1, <3>2 DEF IsRight
  <2>3. Learn(c, arg, r) = cache
    BY <1>6 DEF Learn
  <2> HIDE DEF r
  <2> QED
    BY <1>0, <1>1, <1>6, <2>2, <2>3, FinishStep DEF Grows, r
<1>7. ASSUME \/ c = "UTF8FromIdentifier" /\ atoms[arg] \in Strings
             \/ c = "IntFromIdentifier", Finish(atoms[arg]),
             atoms' = atoms, held' = held
      PROVE  IdentifiersInvariant'
  <2>1. answer' = Return(c, arg, atoms[arg])
    BY <1>7 DEF Finish
  <2>2. IsRight(answer)'
    BY <1>7, <2>1 DEF IsRight, Return
  <2>3. Right(Learn(c, arg, atoms[arg]), atoms)
    <3>1. CASE c = "UTF8FromIdentifier"
      <4>1. arg \in Pointers /\ atoms[arg] \in Strings
        BY <1>2, <1>7, <3>1 DEF WellAsked
      <4> QED
        BY <1>3, <3>1, <4>1, AddRight DEF Learn
    <3>2. CASE c = "IntFromIdentifier"
      <4>1. arg \in Pointers /\ atoms[arg] \in Ints
        BY <1>2, <3>2 DEF WellAsked
      <4> QED
        BY <1>3, <3>2, <4>1, AddRight DEF Learn
    <3> QED
      BY <1>7, <3>1, <3>2
  <2> QED
    BY <1>0, <1>1, <1>7, <2>2, <2>3, FinishStep DEF Grows
<1>8. ASSUME c = "IntFromIdentifier",
             NEW value \in IF atoms[arg] \in Ints THEN {atoms[arg]} ELSE Ints \cup {-1},
             Finish(value)
      PROVE  Finish(atoms[arg])
  <2>1. atoms[arg] \in Ints
    BY <1>2, <1>8 DEF WellAsked
  <2>2. value = atoms[arg]
    BY <2>1
  <2> QED
    BY <1>8, <2>2
<1> QED
  BY <1>4, <1>5, <1>6, <1>7, <1>8 DEF Reply

LEMMA IdentifiersInit == Init => IdentifiersInvariant
<1> SUFFICES ASSUME Init PROVE IdentifiersInvariant
  OBVIOUS
<1>1. Right(cache, atoms)
  BY NullIsNoTable DEF Init
<1>2. atoms \in Meanings /\ waiting \in Seq(Calls) /\ Len(waiting) = 0
  BY DEF Init, Meanings
<1>3. IsRight(answer)
  BY DEF Init, IsRight, NoAnswer, Return
<1> QED
  <2>1. use_cache \in BOOLEAN /\ connected \in BOOLEAN /\ undefined \in BOOLEAN /\ alive
    BY DEF Init
  <2>2. held = {} /\ \A k \in 1..Len(waiting) : FALSE
    BY <1>2 DEF Init
  <2> QED
    BY <1>1, <1>2, <1>3, <2>1, <2>2, Zenon DEF IdentifiersInvariant

LEMMA IdentifiersStep == IdentifiersInvariant /\ [Next]_vars => IdentifiersInvariant'
<1> SUFFICES ASSUME IdentifiersInvariant, [Next]_vars PROVE IdentifiersInvariant'
  OBVIOUS
<1>1. CASE UNCHANGED vars
  BY <1>1 DEF vars, IdentifiersInvariant, IsRight
<1>2. /\ use_cache' = use_cache /\ (connected' = connected \/ connected' = FALSE)
      /\ undefined' \in BOOLEAN /\ (undefined => undefined')
  BY DEF IdentifiersInvariant,
         Next, vars, BrowserShowsIdentifier, PluginCalls, Reply, ReplyWithoutName, Disconnect, Fail, Invoke,
         ReturnNow, cached_NPN_GetStringIdentifier, cached_NPN_GetStringIdentifiers,
         cached_NPN_GetIntIdentifier, cached_NPN_IdentifierIsString,
         cached_NPN_UTF8FromIdentifier, cached_NPN_IntFromIdentifier
<1>3. CASE ~connected' \/ undefined'
  BY <1>2, <1>3 DEF IdentifiersInvariant
<1>4. CASE connected' /\ ~undefined' /\ Next
  <2>1. connected /\ connected' = connected /\ ~undefined
    BY <1>2, <1>4 DEF IdentifiersInvariant
  <2>2. ASSUME NEW p \in Pointers, BrowserShowsIdentifier(p) PROVE IdentifiersInvariant'
    <3>0. /\ Sound(atoms, cache, held, waiting) /\ alive /\ use_cache \in BOOLEAN
          /\ connected \in BOOLEAN
      BY <2>1 DEF IdentifiersInvariant, Sound
    <3>1. PICK v \in Values : Intern(v, atoms, atoms', p)
      BY <2>2 DEF BrowserShowsIdentifier
    <3>2. /\ held' = held \cup {p} /\ answer' = NoAnswer
          /\ use_cache' = use_cache /\ cache' = cache /\ waiting' = waiting /\ alive' = alive
      BY <2>2 DEF BrowserShowsIdentifier
    <3>3. atoms' \in Meanings /\ Grows(atoms, atoms') /\ atoms'[p] = v
      BY <3>0, <3>1, InternGrows DEF Sound
    <3>4. Right(cache, atoms')
      BY <3>0, <3>3, RightGrows DEF Sound
    <3>5. \A k \in 1..Len(waiting) : WellAsked(waiting[k], atoms')
      BY <3>0, <3>3, AskedGrows DEF Sound
    <3>6. Sound(atoms', cache', held', waiting')
      BY <3>0, <3>2, <3>3, <3>4, <3>5 DEF Sound, Grows
    <3> QED
      BY <1>2, <2>1, <3>0, <3>2, <3>6, InvariantFromSound, NoAnswerIsRight
  <2>3. ~Disconnect /\ ~Fail /\ ~ReplyWithoutName
    BY <1>4, <2>1 DEF Disconnect, Fail, ReplyWithoutName
  <2>4. \/ \E p \in Pointers : BrowserShowsIdentifier(p)
        \/ PluginCalls
        \/ Reply
    BY <1>4, <2>3, Zenon DEF Next
  <2>5. CASE PluginCalls
    BY <1>2, <1>4, <2>1, <2>5, PluginStep
  <2>6. CASE Reply
    BY <2>1, <2>6, ReplyStep
  <2> QED
    BY <2>2, <2>4, <2>5, <2>6, Zenon
<1> QED
  BY <1>1, <1>3, <1>4

-----------------------------------------------------------------------------
\* While the connection works, and the plugin has not asked for the integer of a
\* name, the table holds what the browser would say, for names and for integers.
THEOREM CacheIsSound == Spec => []IdentifiersInvariant
  BY IdentifiersInit, IdentifiersStep, PTL DEF Spec

\* As long as the connection works, a call of such a plugin gets the browser's
\* answer, for any size of the table, any order of nested calls and replies.
THEOREM AnswersAlwaysRight == Spec => []AnswersAreTheBrowsers
<1>1. IdentifiersInvariant => AnswersAreTheBrowsers
  BY DEF IdentifiersInvariant, AnswersAreTheBrowsers
<1> QED
  BY <1>1, CacheIsSound, PTL

\* The assertion of cached_NPN_IntFromIdentifier holds for such a plugin as long as
\* the connection works, and no NULL name is copied: asking for the name of an integer
\* identifier costs the connection before the copy (npidentifier_cache_add_string).
THEOREM NeverAbortsConnected == Spec => []NoAbortWhileConnected
<1>1. IdentifiersInvariant => NoAbortWhileConnected
  BY DEF IdentifiersInvariant, NoAbortWhileConnected
<1> QED
  BY <1>1, CacheIsSound, PTL
=============================================================================
