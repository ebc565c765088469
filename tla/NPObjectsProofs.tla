-------------------------- MODULE NPObjectsProofs ---------------------------
(***************************************************************************)
(* Proofs about module NPObjects: reference counts are exact, and a proxy  *)
(* and its stub come and go together, whatever calls nest and whenever the *)
(* viewer is lost.                                                         *)
(***************************************************************************)
EXTENDS NPObjects, DataFacts

-----------------------------------------------------------------------------
(* The inductive invariant, of the bridge b of one end, of the bridges of    *)
(* both, and of the open calls.  x are references that are held by neither   *)
(* the browser nor the plugin itself.                                        *)

Bridge(e) ==
    [referenceCount : [Objects(e) -> Int], owned : [Objects(e) -> Nat], lost : [Objects(e) -> Nat],
     g_stubs : PartialFunctions(Ids(e), Local(e)),
     g_proxies : PartialFunctions(Ids(Other(e)), Proxy(e)),
     is_valid : SUBSET Proxy(e), next_id : 0..MaxId(e), crossed : SUBSET Proxy(e)]

\* The stubs for an object.
CountOf(f, t) == Cardinality({id \in DOMAIN f : f[id] = t})

Exact(e, b, x) ==
    \A t \in Objects(e) : b.referenceCount[t] = b.owned[t] + b.lost[t] + x[t] + CountOf(b.g_stubs, t)

\* One end, while viewer g is the current one: counts are exact, stubs have the ids
\* that were given out, no proxy is of a later viewer, a valid one has a reference.
\* It is of viewer g, and in the table where deactivation finds it, unless it was
\* crossed, which happens to no proxy of a viewer or of the first one.
BridgeOk(e, b, x, g) ==
    /\ b \in Bridge(e)
    /\ Exact(e, b, x)
    /\ DOMAIN b.g_stubs \subseteq 1..b.next_id
    /\ \A p \in Proxy(e) : b.referenceCount[p] > 0 =>
          p.gen <= g /\ (e = "viewer" => p \in b.is_valid)
    /\ \A p \in b.is_valid :
          /\ b.referenceCount[p] > 0
          /\ p \notin b.crossed =>
                p.gen = g /\ p.id \in DOMAIN b.g_proxies /\ b.g_proxies[p.id] = p
    /\ e = "viewer" \/ g = 1 => b.crossed = {}

\* The proxies of b and the stubs of c: no proxy has an id that is still to be given
\* out, valid ones that were not crossed have their stub, and with the first viewer a
\* stub has its proxy.
LinkOk(e, b, c, g) ==
    /\ \A p \in Proxy(e) : b.referenceCount[p] > 0 /\ p.gen = g => p.id <= c.next_id
    /\ \A p \in b.is_valid \ b.crossed : p.id \in DOMAIN c.g_stubs
    /\ g = 1 => \A id \in DOMAIN c.g_stubs : \E p \in b.is_valid : p.id = id

\* Both heaps; a viewer that is gone has nothing.
World(h, x, g, v) ==
    /\ h = [e \in Ends |-> h[e]]
    /\ \A e \in Ends : \A t \in Objects(e) : x[e][t] \in Nat
    /\ \A e \in Ends : BridgeOk(e, h[e], x[e], g)
    /\ v = "up" => \A e \in Ends : LinkOk(e, h[e], h[Other(e)], g)
    /\ v # "up" => h["viewer"] = NewBridge("viewer")
    /\ v = "killed" => h["wrapper"].is_valid \subseteq h["wrapper"].crossed

\* The open calls: the viewer's own end with it.
FrameOk(f, g, v) ==
    /\ f \in Frame /\ f.args \in Seq(Objects(f.callee)) /\ Len(f.args) <= MaxArgs + 1
    /\ f.gen <= g /\ (f.callee = "viewer" => v = "up")

StackOk(s, g, v) ==
    /\ s \in Seq(Frame) /\ Len(s) <= MaxDepth
    /\ \A i \in 1..Len(s) : FrameOk(s[i], g, v)

HeldBy(s) == [e \in Ends |-> [t \in Objects(e) |-> HeldIn(s, e, t)]]

BridgeInvariant ==
    /\ World(heap, HeldBy(stack), gen, viewer)
    /\ StackOk(stack, gen, viewer)
    /\ gen \in 1..MaxGen /\ viewer \in {"up", "dead", "killed"}
    /\ asserted \subseteq {"viewer"}

-----------------------------------------------------------------------------
(* Ends, objects and tables.                                                 *)

LEMMA EndFacts ==
    /\ Other("wrapper") = "viewer" /\ Other("viewer") = "wrapper"
    /\ \A e \in Ends : Other(e) \in Ends /\ Other(e) # e /\ Other(Other(e)) = e
    /\ \A e \in Ends : MaxId(e) \in Nat
<1>1. Other("wrapper") = "viewer"
  BY DEF Other, Ends
<1>2. Other("viewer") = "wrapper"
  BY DEF Other, Ends
<1>3. \A e \in Ends : MaxId(e) \in Nat
  BY ConstantsAssumption DEF MaxId
<1> QED
  BY <1>1, <1>2, <1>3 DEF Ends

LEMMA ProxyFacts ==
    ASSUME NEW e \in Ends
    PROVE  /\ \A p \in Proxy(e) : /\ p.gen \in Nat /\ p.id \in Nat /\ p.id \in Ids(Other(e))
                                  /\ p.gen \in 1..MaxGen /\ p = [gen |-> p.gen, id |-> p.id]
                                  /\ p \notin Local(e) /\ p \in Objects(e)
           /\ \A g \in 1..MaxGen, i \in Ids(Other(e)) : [gen |-> g, id |-> i] \in Proxy(e)
           /\ \A t \in Local(e) : t \notin Proxy(e) /\ t \in Objects(e)
           /\ \A t \in Objects(e) : t \in Local(e) \/ t \in Proxy(e)
<1>1. ASSUME NEW p \in Proxy(e)
      PROVE  /\ p.gen \in Nat /\ p.id \in Nat /\ p.id \in Ids(Other(e))
             /\ p.gen \in 1..MaxGen /\ p = [gen |-> p.gen, id |-> p.id]
             /\ p \in [gen : Nat, id : Nat]
  <2>1. p.gen \in 1..MaxGen /\ p.id \in 1..MaxId(Other(e)) /\ p = [gen |-> p.gen, id |-> p.id]
    BY DEF Proxy, Ids
  <2>2. p.gen \in Nat /\ p.id \in Nat
    BY <2>1
  <2> QED
    BY <2>1, <2>2 DEF Ids
<1>2. \A t \in Local(e) : t \notin [gen : Nat, id : Nat]
  BY ConstantsAssumption DEF Local
<1>3. \A g \in 1..MaxGen, i \in Ids(Other(e)) : [gen |-> g, id |-> i] \in Proxy(e)
  BY DEF Proxy
<1> QED
  BY <1>1, <1>2, <1>3 DEF Objects

LEMMA TableFacts ==
    ASSUME NEW S, NEW T, NEW f \in PartialFunctions(S, T)
    PROVE  DOMAIN f \subseteq S /\ f \in [DOMAIN f -> T]
<1>1. PICK D \in SUBSET S : f \in [D -> T]
  BY DEF PartialFunctions
<1> QED
  BY <1>1

LEMMA InsertFacts ==
    ASSUME NEW S, NEW T, NEW f \in PartialFunctions(S, T), NEW i \in S, NEW t \in T
    PROVE  InsertKey(f, i, t) \in PartialFunctions(S, T)
<1>1. PICK D \in SUBSET S : f \in [D -> T]
  BY DEF PartialFunctions
<1>2. DOMAIN f = D
  BY <1>1
<1>3. InsertKey(f, i, t) \in [D \cup {i} -> T]
  BY <1>1, <1>2 DEF InsertKey
<1>4. D \cup {i} \in SUBSET S
  BY <1>1
<1> QED
  BY <1>3, <1>4 DEF PartialFunctions

LEMMA RemoveFacts ==
    ASSUME NEW S, NEW T, NEW f \in PartialFunctions(S, T), NEW i
    PROVE  RemoveKey(f, i) \in PartialFunctions(S, T)
<1>1. PICK D \in SUBSET S : f \in [D -> T]
  BY DEF PartialFunctions
<1>2. DOMAIN f = D
  BY <1>1
<1>3. RemoveKey(f, i) \in [D \ {i} -> T]
  BY <1>1, <1>2 DEF RemoveKey, Restrict
<1>4. D \ {i} \in SUBSET S
  BY <1>1
<1> QED
  BY <1>3, <1>4 DEF PartialFunctions

One(t, s) == IF s = t THEN 1 ELSE 0

\* S is T with i, and without it.
IsWith(S, T, i) == S = T \cup {i}
IsWithout(S, T, i) == S = T \ {i}

LEMMA CountIsNat ==
    ASSUME NEW m \in Nat, NEW f, DOMAIN f \subseteq 1..m, NEW t
    PROVE  CountOf(f, t) \in Nat /\ IsFiniteSet({id \in DOMAIN f : f[id] = t})
<1>1. IsFiniteSet(1..m)
  BY FS_Interval
<1>2. {id \in DOMAIN f : f[id] = t} \subseteq 1..m
  OBVIOUS
<1>3. IsFiniteSet({id \in DOMAIN f : f[id] = t})
  BY <1>1, <1>2, FS_Subset
<1> QED
  BY <1>3, FS_CardinalityType DEF CountOf

LEMMA CountInsert ==
    ASSUME NEW m \in Nat, NEW f, DOMAIN f \subseteq 1..m, NEW i \in 1..m, i \notin DOMAIN f, NEW u, NEW t
    PROVE  CountOf(InsertKey(f, i, u), t) = CountOf(f, t) + One(u, t)
<1> DEFINE g == InsertKey(f, i, u)
           F == {id \in DOMAIN f : f[id] = t}
           G == {id \in DOMAIN g : g[id] = t}
<1>1. DOMAIN g = DOMAIN f \cup {i} /\ \A z \in DOMAIN f \cup {i} : g[z] = IF z = i THEN u ELSE f[z]
  BY DEF InsertKey
<1>2. IsFiniteSet(F) /\ i \notin F
  BY CountIsNat
<1>3. G = IF t = u THEN F \cup {i} ELSE F
  BY <1>1
<1> HIDE DEF F, G, g
<1>4. Cardinality(F \cup {i}) = Cardinality(F) + 1
  BY <1>2, FS_AddElement
<1>5. Cardinality(F) \in Nat
  BY <1>2, FS_CardinalityType
<1>6. Cardinality(G) = Cardinality(F) + One(u, t)
  BY <1>3, <1>4, <1>5 DEF One
<1> QED
  BY <1>6 DEF CountOf, F, G, g

LEMMA CountRemove ==
    ASSUME NEW m \in Nat, NEW f, DOMAIN f \subseteq 1..m, NEW i \in DOMAIN f, NEW t
    PROVE  CountOf(RemoveKey(f, i), t) = CountOf(f, t) - One(f[i], t)
<1> DEFINE g == RemoveKey(f, i)
           F == {id \in DOMAIN f : f[id] = t}
           G == {id \in DOMAIN g : g[id] = t}
<1>1. DOMAIN g = DOMAIN f \ {i} /\ \A z \in DOMAIN f \ {i} : g[z] = f[z]
  BY DEF RemoveKey, Restrict
<1>2. IsFiniteSet(F)
  BY CountIsNat
<1>3. G = F \ {i} /\ (i \in F <=> t = f[i])
  BY <1>1
<1> HIDE DEF F, G, g
<1>4. Cardinality(F \ {i}) = IF i \in F THEN Cardinality(F) - 1 ELSE Cardinality(F)
  BY <1>2, FS_RemoveElement
<1>5. Cardinality(F) \in Nat
  BY <1>2, FS_CardinalityType
<1>6. Cardinality(G) = Cardinality(F) - One(f[i], t)
  BY <1>3, <1>4, <1>5 DEF One
<1> QED
  BY <1>6 DEF CountOf, F, G, g

-----------------------------------------------------------------------------
(* The bridge of one end: what its members are, and what may change.         *)

LEMMA BridgeFields ==
    ASSUME NEW e \in Ends, NEW b \in Bridge(e)
    PROVE  /\ b.referenceCount \in [Objects(e) -> Int] /\ b.owned \in [Objects(e) -> Nat]
           /\ b.lost \in [Objects(e) -> Nat]
           /\ b.g_stubs \in PartialFunctions(Ids(e), Local(e))
           /\ b.g_proxies \in PartialFunctions(Ids(Other(e)), Proxy(e))
           /\ b.is_valid \in SUBSET Proxy(e) /\ b.next_id \in 0..MaxId(e)
           /\ b.crossed \in SUBSET Proxy(e)
  BY DEF Bridge

LEMMA StubTables ==
    ASSUME NEW e \in Ends, NEW b \in Bridge(e)
    PROVE  /\ \A i \in Ids(e), t \in Local(e) :
                 InsertKey(b.g_stubs, i, t) \in PartialFunctions(Ids(e), Local(e))
           /\ \A i : RemoveKey(b.g_stubs, i) \in PartialFunctions(Ids(e), Local(e))
<1>1. b.g_stubs \in PartialFunctions(Ids(e), Local(e))
  BY BridgeFields
<1>2. \A i \in Ids(e), t \in Local(e) :
         InsertKey(b.g_stubs, i, t) \in PartialFunctions(Ids(e), Local(e))
  BY <1>1, InsertFacts
<1>3. \A i : RemoveKey(b.g_stubs, i) \in PartialFunctions(Ids(e), Local(e))
  BY <1>1, RemoveFacts
<1> QED
  BY <1>2, <1>3

LEMMA ProxyTables ==
    ASSUME NEW e \in Ends, NEW b \in Bridge(e)
    PROVE  /\ \A p \in Proxy(e) :
                 /\ InsertKey(b.g_proxies, p.id, p) \in PartialFunctions(Ids(Other(e)), Proxy(e))
                 /\ p.id \in DOMAIN InsertKey(b.g_proxies, p.id, p)
                 /\ InsertKey(b.g_proxies, p.id, p)[p.id] = p
           /\ \A i : RemoveKey(b.g_proxies, i) \in PartialFunctions(Ids(Other(e)), Proxy(e))
           /\ \A i, y : \A z \in DOMAIN b.g_proxies : z # i =>
                 /\ z \in DOMAIN InsertKey(b.g_proxies, i, y)
                 /\ InsertKey(b.g_proxies, i, y)[z] = b.g_proxies[z]
           /\ \A i : \A z \in DOMAIN b.g_proxies : z # i =>
                 /\ z \in DOMAIN RemoveKey(b.g_proxies, i)
                 /\ RemoveKey(b.g_proxies, i)[z] = b.g_proxies[z]
<1>1. b.g_proxies \in PartialFunctions(Ids(Other(e)), Proxy(e))
  BY BridgeFields
<1>2. \A p \in Proxy(e) : p.id \in Ids(Other(e))
  BY ProxyFacts
<1>3. \A p \in Proxy(e) :
         InsertKey(b.g_proxies, p.id, p) \in PartialFunctions(Ids(Other(e)), Proxy(e))
  BY <1>1, <1>2, InsertFacts
<1>4. \A i : RemoveKey(b.g_proxies, i) \in PartialFunctions(Ids(Other(e)), Proxy(e))
  BY <1>1, RemoveFacts
<1>5. \A p \in Proxy(e) : /\ p.id \in DOMAIN InsertKey(b.g_proxies, p.id, p)
                          /\ InsertKey(b.g_proxies, p.id, p)[p.id] = p
  BY DEF InsertKey
<1>6. \A i, y : \A z \in DOMAIN b.g_proxies : z # i =>
         /\ z \in DOMAIN InsertKey(b.g_proxies, i, y)
         /\ InsertKey(b.g_proxies, i, y)[z] = b.g_proxies[z]
  BY DEF InsertKey
<1>7. \A i : \A z \in DOMAIN b.g_proxies : z # i =>
         /\ z \in DOMAIN RemoveKey(b.g_proxies, i)
         /\ RemoveKey(b.g_proxies, i)[z] = b.g_proxies[z]
  BY DEF RemoveKey, Restrict
<1> QED
  BY <1>3, <1>4, <1>5, <1>6, <1>7

WithCount(b, t, n) == [b EXCEPT !.referenceCount = [@ EXCEPT ![t] = n]]
WithStubs(b, f, n) == [b EXCEPT !.g_stubs = f, !.next_id = n]
WithProxies(b, f, V, K) == [b EXCEPT !.g_proxies = f, !.is_valid = V, !.crossed = K]
WithOwned(b, o) == [b EXCEPT !.owned = o]
WithLost(b, l) == [b EXCEPT !.lost = l]

SameTables(c, b) ==
    /\ c.g_stubs = b.g_stubs /\ c.next_id = b.next_id
    /\ c.g_proxies = b.g_proxies /\ c.is_valid = b.is_valid /\ c.crossed = b.crossed

LEMMA SetCount ==
    ASSUME NEW e \in Ends, NEW b \in Bridge(e), NEW t \in Objects(e), NEW n \in Int
    PROVE  LET c == WithCount(b, t, n)
           IN  /\ c \in Bridge(e) /\ SameTables(c, b) /\ c.owned = b.owned /\ c.lost = b.lost
               /\ c.referenceCount[t] = n
               /\ \A s \in Objects(e) : s # t => c.referenceCount[s] = b.referenceCount[s]
<1> DEFINE r == [b.referenceCount EXCEPT ![t] = n]
           c == [b EXCEPT !.referenceCount = r]
<1>1. r \in [Objects(e) -> Int] /\ r[t] = n
      /\ \A s \in Objects(e) : s # t => r[s] = b.referenceCount[s]
  BY BridgeFields
<1> HIDE DEF r
<1>2. c \in Bridge(e) /\ SameTables(c, b) /\ c.owned = b.owned /\ c.lost = b.lost
      /\ c.referenceCount = r
  BY <1>1 DEF Bridge, SameTables
<1>3. WithCount(b, t, n) = c
  BY DEF WithCount, r
<1> HIDE DEF c
<1> QED
  BY <1>1, <1>2, <1>3

LEMMA SetStubs ==
    ASSUME NEW e \in Ends, NEW b \in Bridge(e), NEW f \in PartialFunctions(Ids(e), Local(e)),
           NEW n \in 0..MaxId(e)
    PROVE  LET c == WithStubs(b, f, n)
           IN  /\ c \in Bridge(e) /\ c.g_stubs = f /\ c.next_id = n
               /\ c.referenceCount = b.referenceCount /\ c.owned = b.owned /\ c.lost = b.lost
               /\ c.g_proxies = b.g_proxies /\ c.is_valid = b.is_valid /\ c.crossed = b.crossed
  BY DEF Bridge, WithStubs

LEMMA SetProxies ==
    ASSUME NEW e \in Ends, NEW b \in Bridge(e),
           NEW f \in PartialFunctions(Ids(Other(e)), Proxy(e)), NEW V \in SUBSET Proxy(e),
           NEW K \in SUBSET Proxy(e)
    PROVE  LET c == WithProxies(b, f, V, K)
           IN  /\ c \in Bridge(e) /\ c.g_proxies = f /\ c.is_valid = V /\ c.crossed = K
               /\ c.referenceCount = b.referenceCount /\ c.owned = b.owned /\ c.lost = b.lost
               /\ c.g_stubs = b.g_stubs /\ c.next_id = b.next_id
  BY DEF Bridge, WithProxies

LEMMA SetOwned ==
    ASSUME NEW e \in Ends, NEW b \in Bridge(e), NEW o \in [Objects(e) -> Nat]
    PROVE  LET c == WithOwned(b, o)
           IN  /\ c \in Bridge(e) /\ SameTables(c, b) /\ c.owned = o
               /\ c.referenceCount = b.referenceCount /\ c.lost = b.lost
  BY DEF Bridge, WithOwned, SameTables

LEMMA SetLost ==
    ASSUME NEW e \in Ends, NEW b \in Bridge(e), NEW o \in [Objects(e) -> Nat]
    PROVE  LET c == WithLost(b, o)
           IN  /\ c \in Bridge(e) /\ SameTables(c, b) /\ c.lost = o
               /\ c.referenceCount = b.referenceCount /\ c.owned = b.owned
  BY DEF Bridge, WithLost, SameTables

Nats(e, x) == \A t \in Objects(e) : x[t] \in Nat

\* y is x with k references to t more.
Adds(e, y, x, t, k) == \A s \in Objects(e) : y[s] = x[s] + (IF s = t THEN k ELSE 0)

LEMMA StubsCounted ==
    ASSUME NEW e \in Ends, NEW b, NEW x, NEW g, BridgeOk(e, b, x, g), NEW t
    PROVE  CountOf(b.g_stubs, t) \in Nat
<1>1. DOMAIN b.g_stubs \subseteq 1..b.next_id /\ b.next_id \in Nat
  BY EndFacts DEF BridgeOk, Bridge
<1> QED
  BY <1>1, CountIsNat

\* A proxy is not what a stub stands for.
LEMMA NoStubForProxy ==
    ASSUME NEW e \in Ends, NEW b, NEW x, NEW g, BridgeOk(e, b, x, g), NEW p \in Proxy(e)
    PROVE  CountOf(b.g_stubs, p) = 0
<1>1. \A id \in DOMAIN b.g_stubs : b.g_stubs[id] \in Local(e)
  BY BridgeFields, TableFacts DEF BridgeOk
<1>2. {id \in DOMAIN b.g_stubs : b.g_stubs[id] = p} = {}
  BY <1>1, ProxyFacts
<1>3. Cardinality({}) = 0
  BY FS_EmptySet
<1> QED
  BY <1>2, <1>3 DEF CountOf

\* Counts are as large as what they count.
LEMMA CountsCover ==
    ASSUME NEW e \in Ends, NEW b, NEW x, NEW g, BridgeOk(e, b, x, g), Nats(e, x),
           NEW t \in Objects(e)
    PROVE  /\ b.referenceCount[t] \in Nat /\ b.owned[t] \in Nat /\ b.lost[t] \in Nat /\ x[t] \in Nat
           /\ b.referenceCount[t] >= b.owned[t] + x[t]
           /\ b.referenceCount[t] = b.owned[t] + b.lost[t] + x[t] + CountOf(b.g_stubs, t)
<1>1. b.owned[t] \in Nat /\ b.lost[t] \in Nat /\ x[t] \in Nat
  BY BridgeFields DEF BridgeOk, Nats
<1>2. CountOf(b.g_stubs, t) \in Nat
  BY StubsCounted
<1>3. b.referenceCount[t] = b.owned[t] + b.lost[t] + x[t] + CountOf(b.g_stubs, t)
  BY DEF BridgeOk, Exact
<1> QED
  BY <1>1, <1>2, <1>3

\* Parts of BridgeOk that do not count.
Proxies(e, b, g) ==
    /\ \A p \in Proxy(e) : b.referenceCount[p] > 0 =>
          p.gen <= g /\ (e = "viewer" => p \in b.is_valid)
    /\ \A p \in b.is_valid :
          /\ b.referenceCount[p] > 0
          /\ p \notin b.crossed =>
                p.gen = g /\ p.id \in DOMAIN b.g_proxies /\ b.g_proxies[p.id] = p
    /\ e = "viewer" \/ g = 1 => b.crossed = {}

LEMMA BridgeParts ==
    ASSUME NEW e, NEW b, NEW x, NEW g
    PROVE  BridgeOk(e, b, x, g) <=> /\ b \in Bridge(e) /\ Exact(e, b, x)
                                    /\ DOMAIN b.g_stubs \subseteq 1..b.next_id
                                    /\ Proxies(e, b, g)
  BY DEF BridgeOk, Proxies

LEMMA SameProxies ==
    ASSUME NEW e, NEW b, NEW c, NEW g, Proxies(e, b, g), b.is_valid \in SUBSET Proxy(e),
           \A p \in Proxy(e) : c.referenceCount[p] = b.referenceCount[p],
           c.is_valid = b.is_valid, c.g_proxies = b.g_proxies, c.crossed = b.crossed
    PROVE  Proxies(e, c, g)
  BY DEF Proxies

\* Another bookkeeping of the same references.
LEMMA SameCounts ==
    ASSUME NEW e \in Ends, NEW b, NEW x, NEW y, NEW g, BridgeOk(e, b, x, g),
           \A s \in Objects(e) : y[s] = x[s]
    PROVE  BridgeOk(e, b, y, g)
  BY DEF BridgeOk, Exact

AddStub(b, t, k) ==
    WithStubs(WithCount(b, t, b.referenceCount[t] + k),
              InsertKey(b.g_stubs, b.next_id + 1, t), b.next_id + 1)

StubAdded(e, b, c) ==
    /\ c.next_id = b.next_id + 1 /\ c.owned = b.owned
    /\ IsWith(DOMAIN c.g_stubs, DOMAIN b.g_stubs, b.next_id + 1)
    /\ c.is_valid = b.is_valid /\ c.crossed = b.crossed
    /\ \A p \in Proxy(e) : c.referenceCount[p] = b.referenceCount[p]

\* npobject_create_stub, with a reference of its own (k = 1) or one given to it.
LEMMA AddStubStep ==
    ASSUME NEW e \in Ends, NEW b, NEW x, NEW y, NEW g, BridgeOk(e, b, x, g), Nats(e, x),
           NEW t \in Local(e), b.next_id < MaxId(e), NEW k \in Nat, NEW j, j = k - 1,
           Adds(e, y, x, t, j)
    PROVE  BridgeOk(e, AddStub(b, t, k), y, g) /\ StubAdded(e, b, AddStub(b, t, k))
<1> DEFINE n == b.next_id + 1
           r == b.referenceCount[t] + k
           d == WithCount(b, t, r)
           f == InsertKey(b.g_stubs, n, t)
           c == WithStubs(d, f, n)
<1>1. /\ b \in Bridge(e) /\ Exact(e, b, x) /\ DOMAIN b.g_stubs \subseteq 1..b.next_id
      /\ Proxies(e, b, g) /\ t \in Objects(e)
  BY BridgeParts, ProxyFacts
<1>2. n \in Ids(e) /\ n \in 0..MaxId(e) /\ n \in Nat /\ n \notin DOMAIN b.g_stubs
      /\ DOMAIN b.g_stubs \subseteq 1..n /\ n \in 1..n
  BY <1>1, BridgeFields, EndFacts DEF Ids
<1>3. r \in Int
  BY <1>1, BridgeFields
<1>4. /\ f \in PartialFunctions(Ids(e), Local(e)) /\ DOMAIN f = DOMAIN b.g_stubs \cup {n}
      /\ \A s : CountOf(f, s) = CountOf(b.g_stubs, s) + One(t, s)
  <2>1. f \in PartialFunctions(Ids(e), Local(e))
    BY <1>1, <1>2, StubTables
  <2>3. DOMAIN f = DOMAIN b.g_stubs \cup {n}
    BY DEF InsertKey
  <2>2. \A s : CountOf(f, s) = CountOf(b.g_stubs, s) + One(t, s)
    BY <1>2, CountInsert
  <2> QED
    BY <2>1, <2>2, <2>3
<1> HIDE DEF r, f, n
<1>5. /\ d \in Bridge(e) /\ SameTables(d, b) /\ d.owned = b.owned /\ d.lost = b.lost
      /\ d.referenceCount[t] = r
      /\ \A s \in Objects(e) : s # t => d.referenceCount[s] = b.referenceCount[s]
  BY <1>1, <1>3, SetCount
<1> HIDE DEF d
<1>6. /\ c \in Bridge(e) /\ c.g_stubs = f /\ c.next_id = n
      /\ c.referenceCount = d.referenceCount /\ c.owned = d.owned /\ c.lost = d.lost
      /\ c.g_proxies = d.g_proxies /\ c.is_valid = d.is_valid /\ c.crossed = d.crossed
  BY <1>2, <1>4, <1>5, SetStubs
<1> HIDE DEF c
<1>7. \A p \in Proxy(e) : c.referenceCount[p] = b.referenceCount[p]
  BY <1>5, <1>6, ProxyFacts
<1>8. Exact(e, c, y)
  <2> SUFFICES ASSUME NEW s \in Objects(e)
               PROVE  c.referenceCount[s] = c.owned[s] + c.lost[s] + y[s] + CountOf(c.g_stubs, s)
    BY DEF Exact
  <2>1. /\ b.owned[s] \in Nat /\ b.lost[s] \in Nat /\ x[s] \in Nat
        /\ b.referenceCount[s] = b.owned[s] + b.lost[s] + x[s] + CountOf(b.g_stubs, s)
    BY CountsCover
  <2>2. CountOf(b.g_stubs, s) \in Nat
    BY StubsCounted
  <2>3. CountOf(c.g_stubs, s) = CountOf(b.g_stubs, s) + One(t, s)
    BY <1>4, <1>6
  <2>4. c.owned[s] = b.owned[s] /\ c.lost[s] = b.lost[s]
        /\ y[s] = x[s] + (IF s = t THEN j ELSE 0) /\ j \in Int /\ k = j + 1
    BY <1>5, <1>6 DEF Adds
  <2>5. CASE s = t
    <3>1. c.referenceCount[s] = b.referenceCount[s] + k
      BY <1>5, <1>6, <2>5 DEF r
    <3>2. /\ y[s] = x[s] + j /\ CountOf(c.g_stubs, s) = CountOf(b.g_stubs, s) + 1
          /\ k = j + 1 /\ j \in Int
      BY <2>3, <2>4, <2>5 DEF One
    <3> QED
      BY <2>1, <2>2, <2>4, <3>1, <3>2
  <2>6. CASE s # t
    <3>1. c.referenceCount[s] = b.referenceCount[s]
      BY <1>5, <1>6, <2>6
    <3> QED
      BY <2>1, <2>2, <2>3, <2>4, <2>6, <3>1 DEF One
  <2> QED
    BY <2>5, <2>6
<1>9. Proxies(e, c, g)
  <2>1. b.is_valid \in SUBSET Proxy(e)
    BY <1>1, BridgeFields
  <2> QED
    BY <1>1, <1>5, <1>6, <1>7, <2>1, SameProxies DEF SameTables
<1>10. DOMAIN c.g_stubs \subseteq 1..c.next_id
  BY <1>2, <1>4, <1>6
<1>11. BridgeOk(e, c, y, g)
  BY <1>6, <1>8, <1>9, <1>10, BridgeParts
<1>12. /\ c.is_valid = b.is_valid /\ c.next_id = n /\ DOMAIN c.g_stubs = DOMAIN b.g_stubs \cup {n}
       /\ c.owned = b.owned /\ c.crossed = b.crossed
  BY <1>4, <1>5, <1>6 DEF SameTables
<1> QED
  BY <1>7, <1>11, <1>12 DEF StubAdded, AddStub, c, d, f, n, r, IsWith

DropStub(b, id, k) ==
    WithStubs(WithCount(b, b.g_stubs[id], b.referenceCount[b.g_stubs[id]] - 1 + k),
              RemoveKey(b.g_stubs, id), b.next_id)

StubDropped(e, b, c, id) ==
    /\ c.next_id = b.next_id
    /\ IsWithout(DOMAIN c.g_stubs, DOMAIN b.g_stubs, id)
    /\ c.is_valid = b.is_valid /\ c.crossed = b.crossed
    /\ \A p \in Proxy(e) : c.referenceCount[p] = b.referenceCount[p]

\* npobject_destroy_stub: its reference is given back, or passed to x (k = 1).
LEMMA DropStubStep ==
    ASSUME NEW e \in Ends, NEW b, NEW x, NEW y, NEW g, BridgeOk(e, b, x, g), Nats(e, x),
           NEW id \in DOMAIN b.g_stubs, NEW k \in Nat, Adds(e, y, x, b.g_stubs[id], k)
    PROVE  BridgeOk(e, DropStub(b, id, k), y, g) /\ StubDropped(e, b, DropStub(b, id, k), id)
<1> DEFINE n == b.next_id
           t == b.g_stubs[id]
           r == b.referenceCount[t] - 1 + k
           d == WithCount(b, t, r)
           f == RemoveKey(b.g_stubs, id)
           c == WithStubs(d, f, n)
<1>1. /\ b \in Bridge(e) /\ Exact(e, b, x) /\ DOMAIN b.g_stubs \subseteq 1..n
      /\ Proxies(e, b, g) /\ t \in Local(e) /\ t \in Objects(e) /\ n \in 0..MaxId(e) /\ n \in Nat
  <2>1. b \in Bridge(e) /\ Exact(e, b, x) /\ DOMAIN b.g_stubs \subseteq 1..n /\ Proxies(e, b, g)
    BY BridgeParts
  <2>2. t \in Local(e) /\ n \in 0..MaxId(e)
    BY <2>1, BridgeFields, TableFacts
  <2> QED
    BY <2>1, <2>2, ProxyFacts, EndFacts
<1>3. r \in Int
  BY <1>1, BridgeFields
<1>4. /\ f \in PartialFunctions(Ids(e), Local(e)) /\ DOMAIN f = DOMAIN b.g_stubs \ {id}
      /\ \A s : CountOf(f, s) = CountOf(b.g_stubs, s) - One(t, s)
  <2>1. f \in PartialFunctions(Ids(e), Local(e))
    BY <1>1, StubTables
  <2>3. DOMAIN f = DOMAIN b.g_stubs \ {id}
    BY DEF RemoveKey, Restrict
  <2>2. \A s : CountOf(f, s) = CountOf(b.g_stubs, s) - One(t, s)
    BY <1>1, CountRemove
  <2> QED
    BY <2>1, <2>2, <2>3
<1> HIDE DEF r, f, n, t
<1>5. /\ d \in Bridge(e) /\ SameTables(d, b) /\ d.owned = b.owned /\ d.lost = b.lost
      /\ d.referenceCount[t] = r
      /\ \A s \in Objects(e) : s # t => d.referenceCount[s] = b.referenceCount[s]
  BY <1>1, <1>3, SetCount
<1> HIDE DEF d
<1>6. /\ c \in Bridge(e) /\ c.g_stubs = f /\ c.next_id = n
      /\ c.referenceCount = d.referenceCount /\ c.owned = d.owned /\ c.lost = d.lost
      /\ c.g_proxies = d.g_proxies /\ c.is_valid = d.is_valid /\ c.crossed = d.crossed
  BY <1>1, <1>4, <1>5, SetStubs
<1> HIDE DEF c
<1>7. \A p \in Proxy(e) : c.referenceCount[p] = b.referenceCount[p]
  BY <1>1, <1>5, <1>6, ProxyFacts
<1>8. Exact(e, c, y)
  <2> SUFFICES ASSUME NEW s \in Objects(e)
               PROVE  c.referenceCount[s] = c.owned[s] + c.lost[s] + y[s] + CountOf(c.g_stubs, s)
    BY DEF Exact
  <2>1. /\ b.owned[s] \in Nat /\ b.lost[s] \in Nat /\ x[s] \in Nat
        /\ b.referenceCount[s] = b.owned[s] + b.lost[s] + x[s] + CountOf(b.g_stubs, s)
    BY CountsCover
  <2>2. CountOf(b.g_stubs, s) \in Nat
    BY StubsCounted
  <2>3. CountOf(c.g_stubs, s) = CountOf(b.g_stubs, s) - One(t, s)
    BY <1>4, <1>6
  <2>4. c.owned[s] = b.owned[s] /\ c.lost[s] = b.lost[s]
        /\ y[s] = x[s] + (IF s = t THEN k ELSE 0)
    BY <1>5, <1>6 DEF Adds, t
  <2>5. CASE s = t
    <3>1. c.referenceCount[s] = b.referenceCount[s] - 1 + k
      BY <1>5, <1>6, <2>5 DEF r
    <3> QED
      BY <2>1, <2>2, <2>3, <2>4, <2>5, <3>1 DEF One
  <2>6. CASE s # t
    <3>1. c.referenceCount[s] = b.referenceCount[s]
      BY <1>5, <1>6, <2>6
    <3> QED
      BY <2>1, <2>2, <2>3, <2>4, <2>6, <3>1 DEF One
  <2> QED
    BY <2>5, <2>6
<1>9. Proxies(e, c, g)
  <2>1. b.is_valid \in SUBSET Proxy(e)
    BY <1>1, BridgeFields
  <2> QED
    BY <1>1, <1>5, <1>6, <1>7, <2>1, SameProxies DEF SameTables
<1>10. DOMAIN c.g_stubs \subseteq 1..c.next_id
  BY <1>1, <1>4, <1>6
<1>11. BridgeOk(e, c, y, g)
  BY <1>6, <1>8, <1>9, <1>10, BridgeParts
<1>12. /\ c.is_valid = b.is_valid /\ c.next_id = n /\ DOMAIN c.g_stubs = DOMAIN b.g_stubs \ {id}
       /\ c.crossed = b.crossed
  BY <1>4, <1>5, <1>6 DEF SameTables
<1> QED
  BY <1>7, <1>11, <1>12 DEF StubDropped, DropStub, c, d, f, n, r, t, IsWithout

LEMMA DropStubQuietly ==
    ASSUME NEW e \in Ends, NEW b, NEW x, NEW y, NEW g, BridgeOk(e, b, x, g), Nats(e, x),
           NEW id \in DOMAIN b.g_stubs, \A s \in Objects(e) : y[s] = x[s]
    PROVE  BridgeOk(e, DropStub(b, id, 0), y, g) /\ StubDropped(e, b, DropStub(b, id, 0), id)
<1>1. Adds(e, y, x, b.g_stubs[id], 0)
  BY DEF Adds, Nats
<1>2. 0 \in Nat
  OBVIOUS
<1> QED
  BY <1>1, <1>2, DropStubStep

\* Other counts with the same tables.
LEMMA Recount ==
    ASSUME NEW e \in Ends, NEW b, NEW x, NEW y, NEW g, BridgeOk(e, b, x, g),
           NEW c \in Bridge(e), SameTables(c, b), Exact(e, c, y),
           \A p \in Proxy(e) : c.referenceCount[p] > 0 <=> b.referenceCount[p] > 0
    PROVE  BridgeOk(e, c, y, g)
<1>1. b \in Bridge(e) /\ DOMAIN b.g_stubs \subseteq 1..b.next_id /\ Proxies(e, b, g)
  BY BridgeParts
<1>2. b.is_valid \in SUBSET Proxy(e)
  BY <1>1, BridgeFields
<1>3. Proxies(e, c, g)
  BY <1>1, <1>2 DEF Proxies, SameTables
<1> QED
  BY <1>1, <1>3, BridgeParts DEF SameTables

\* A reference more or less.  A proxy that is referenced stays so.
LEMMA CountStep ==
    ASSUME NEW e \in Ends, NEW b, NEW x, NEW y, NEW g, BridgeOk(e, b, x, g), Nats(e, x),
           NEW t \in Objects(e), NEW k \in {-1, 1}, Adds(e, y, x, t, k),
           t \in Proxy(e) => b.referenceCount[t] > 0 /\ b.referenceCount[t] + k > 0
    PROVE  LET c == WithCount(b, t, b.referenceCount[t] + k)
           IN  /\ BridgeOk(e, c, y, g) /\ SameTables(c, b) /\ c.owned = b.owned
               /\ \A p \in Proxy(e) : c.referenceCount[p] > 0 <=> b.referenceCount[p] > 0
<1> DEFINE r == b.referenceCount[t] + k
           c == WithCount(b, t, r)
<1>1. b \in Bridge(e)
  BY BridgeParts
<1>2. r \in Int
  BY <1>1, BridgeFields
<1> HIDE DEF r
<1>3. /\ c \in Bridge(e) /\ SameTables(c, b) /\ c.owned = b.owned /\ c.lost = b.lost
      /\ c.referenceCount[t] = r
      /\ \A s \in Objects(e) : s # t => c.referenceCount[s] = b.referenceCount[s]
  BY <1>1, <1>2, SetCount
<1> HIDE DEF c
<1>4. \A p \in Proxy(e) : c.referenceCount[p] > 0 <=> b.referenceCount[p] > 0
  BY <1>3, ProxyFacts DEF r
<1>5. Exact(e, c, y)
  <2> SUFFICES ASSUME NEW s \in Objects(e)
               PROVE  c.referenceCount[s] = c.owned[s] + c.lost[s] + y[s] + CountOf(c.g_stubs, s)
    BY DEF Exact
  <2>1. /\ b.owned[s] \in Nat /\ b.lost[s] \in Nat /\ x[s] \in Nat
        /\ b.referenceCount[s] = b.owned[s] + b.lost[s] + x[s] + CountOf(b.g_stubs, s)
    BY CountsCover
  <2>2. CountOf(b.g_stubs, s) \in Nat /\ CountOf(c.g_stubs, s) = CountOf(b.g_stubs, s)
    BY <1>3, StubsCounted DEF SameTables
  <2>3. c.owned[s] = b.owned[s] /\ c.lost[s] = b.lost[s]
        /\ y[s] = x[s] + (IF s = t THEN k ELSE 0)
    BY <1>3 DEF Adds
  <2>4. c.referenceCount[s] = b.referenceCount[s] + (IF s = t THEN k ELSE 0)
    BY <1>3, <2>1, <2>2 DEF r
  <2> QED
    BY <2>1, <2>2, <2>3, <2>4
<1>6. BridgeOk(e, c, y, g)
  BY <1>3, <1>4, <1>5, Recount
<1> QED
  BY <1>3, <1>4, <1>6 DEF c, r

\* A reference changes hands.
LEMMA OwnedStep ==
    ASSUME NEW e \in Ends, NEW b, NEW x, NEW y, NEW g, BridgeOk(e, b, x, g), Nats(e, x),
           NEW t \in Objects(e), NEW n \in Nat, Adds(e, y, x, t, b.owned[t] - n)
    PROVE  LET c == WithOwned(b, [b.owned EXCEPT ![t] = n])
           IN  /\ BridgeOk(e, c, y, g) /\ SameTables(c, b)
               /\ c.referenceCount = b.referenceCount /\ c.owned = [b.owned EXCEPT ![t] = n]
<1> DEFINE o == [b.owned EXCEPT ![t] = n]
           c == WithOwned(b, o)
<1>1. b \in Bridge(e)
  BY BridgeParts
<1>2. o \in [Objects(e) -> Nat] /\ \A s \in Objects(e) : o[s] = IF s = t THEN n ELSE b.owned[s]
  BY <1>1, BridgeFields
<1> HIDE DEF o
<1>3. /\ c \in Bridge(e) /\ SameTables(c, b) /\ c.owned = o
      /\ c.referenceCount = b.referenceCount /\ c.lost = b.lost
  BY <1>1, <1>2, SetOwned
<1> HIDE DEF c
<1>4. Exact(e, c, y)
  <2> SUFFICES ASSUME NEW s \in Objects(e)
               PROVE  c.referenceCount[s] = c.owned[s] + c.lost[s] + y[s] + CountOf(c.g_stubs, s)
    BY DEF Exact
  <2>1. /\ b.owned[s] \in Nat /\ b.lost[s] \in Nat /\ x[s] \in Nat
        /\ b.referenceCount[s] = b.owned[s] + b.lost[s] + x[s] + CountOf(b.g_stubs, s)
    BY CountsCover
  <2>2. CountOf(b.g_stubs, s) \in Nat /\ CountOf(c.g_stubs, s) = CountOf(b.g_stubs, s)
    BY <1>3, StubsCounted DEF SameTables
  <2>3. c.referenceCount[s] = b.referenceCount[s] /\ c.lost[s] = b.lost[s]
        /\ y[s] = x[s] + (IF s = t THEN b.owned[t] - n ELSE 0)
        /\ c.owned[s] = IF s = t THEN n ELSE b.owned[s]
    BY <1>2, <1>3 DEF Adds
  <2> QED
    BY <2>1, <2>2, <2>3
<1>5. BridgeOk(e, c, y, g)
  BY <1>3, <1>4, Recount
<1> QED
  BY <1>3, <1>5 DEF c, o

LEMMA LostStep ==
    ASSUME NEW e \in Ends, NEW b, NEW x, NEW y, NEW g, BridgeOk(e, b, x, g), Nats(e, x),
           NEW t \in Objects(e), Adds(e, y, x, t, -1)
    PROVE  LET c == WithLost(b, [b.lost EXCEPT ![t] = @ + 1])
           IN  /\ BridgeOk(e, c, y, g) /\ SameTables(c, b)
               /\ c.referenceCount = b.referenceCount /\ c.owned = b.owned
<1> DEFINE o == [b.lost EXCEPT ![t] = @ + 1]
           c == WithLost(b, o)
<1>1. b \in Bridge(e)
  BY BridgeParts
<1>2. /\ o \in [Objects(e) -> Nat]
      /\ \A s \in Objects(e) : o[s] = b.lost[s] + (IF s = t THEN 1 ELSE 0)
  BY <1>1, BridgeFields
<1> HIDE DEF o
<1>3. /\ c \in Bridge(e) /\ SameTables(c, b) /\ c.lost = o
      /\ c.referenceCount = b.referenceCount /\ c.owned = b.owned
  BY <1>1, <1>2, SetLost
<1> HIDE DEF c
<1>4. Exact(e, c, y)
  <2> SUFFICES ASSUME NEW s \in Objects(e)
               PROVE  c.referenceCount[s] = c.owned[s] + c.lost[s] + y[s] + CountOf(c.g_stubs, s)
    BY DEF Exact
  <2>1. /\ b.owned[s] \in Nat /\ b.lost[s] \in Nat /\ x[s] \in Nat
        /\ b.referenceCount[s] = b.owned[s] + b.lost[s] + x[s] + CountOf(b.g_stubs, s)
    BY CountsCover
  <2>2. CountOf(b.g_stubs, s) \in Nat /\ CountOf(c.g_stubs, s) = CountOf(b.g_stubs, s)
    BY <1>3, StubsCounted DEF SameTables
  <2>3. c.referenceCount[s] = b.referenceCount[s] /\ c.owned[s] = b.owned[s]
        /\ y[s] = x[s] + (IF s = t THEN -1 ELSE 0)
        /\ c.lost[s] = b.lost[s] + (IF s = t THEN 1 ELSE 0)
    BY <1>2, <1>3 DEF Adds
  <2> QED
    BY <2>1, <2>2, <2>3
<1>5. BridgeOk(e, c, y, g)
  BY <1>3, <1>4, Recount
<1> QED
  BY <1>3, <1>5 DEF c, o

AddProxy(b, p) ==
    WithProxies(WithCount(b, p, 1), InsertKey(b.g_proxies, p.id, p), b.is_valid \cup {p}, b.crossed)

ProxyAdded(e, b, c, p) ==
    /\ c.g_stubs = b.g_stubs /\ c.next_id = b.next_id /\ c.owned = b.owned
    /\ IsWith(c.is_valid, b.is_valid, p) /\ c.crossed = b.crossed
    /\ \A q \in Proxy(e) : c.referenceCount[q] > 0 <=> q = p \/ b.referenceCount[q] > 0

\* npobject_create_proxy, for an id without a proxy.
LEMMA AddProxyStep ==
    ASSUME NEW e \in Ends, NEW b, NEW x, NEW y, NEW g \in 1..MaxGen, BridgeOk(e, b, x, g), Nats(e, x),
           NEW p \in Proxy(e), p.gen = g, b.referenceCount[p] = 0, Adds(e, y, x, p, 1)
    PROVE  BridgeOk(e, AddProxy(b, p), y, g) /\ ProxyAdded(e, b, AddProxy(b, p), p)
<1> DEFINE d == WithCount(b, p, 1)
           f == InsertKey(b.g_proxies, p.id, p)
           V == b.is_valid \cup {p}
           c == WithProxies(d, f, V, b.crossed)
<1>1. /\ b \in Bridge(e) /\ Exact(e, b, x) /\ DOMAIN b.g_stubs \subseteq 1..b.next_id
      /\ Proxies(e, b, g) /\ p \in Objects(e) /\ b.is_valid \in SUBSET Proxy(e)
      /\ b.crossed \in SUBSET Proxy(e)
  BY BridgeParts, ProxyFacts, BridgeFields
<1>2. /\ f \in PartialFunctions(Ids(Other(e)), Proxy(e))
      /\ p.id \in DOMAIN f /\ f[p.id] = p
      /\ \A z \in DOMAIN b.g_proxies : z # p.id => z \in DOMAIN f /\ f[z] = b.g_proxies[z]
  <2>1. f \in PartialFunctions(Ids(Other(e)), Proxy(e))
    BY <1>1, ProxyTables
  <2>2. p.id \in DOMAIN f /\ f[p.id] = p
    BY <1>1, ProxyTables
  <2>3. \A z \in DOMAIN b.g_proxies : z # p.id => z \in DOMAIN f /\ f[z] = b.g_proxies[z]
    BY DEF InsertKey
  <2> QED
    BY <2>1, <2>2, <2>3
<1>3. V \in SUBSET Proxy(e) /\ \A q : q \in V <=> q \in b.is_valid \/ q = p
  BY <1>1
<1> HIDE DEF f, V
<1>5. /\ d \in Bridge(e) /\ SameTables(d, b) /\ d.owned = b.owned /\ d.lost = b.lost
      /\ d.referenceCount[p] = 1
      /\ \A s \in Objects(e) : s # p => d.referenceCount[s] = b.referenceCount[s]
  BY <1>1, SetCount
<1> HIDE DEF d
<1>6. /\ c \in Bridge(e) /\ c.g_proxies = f /\ c.is_valid = V /\ c.crossed = b.crossed
      /\ c.referenceCount = d.referenceCount /\ c.owned = d.owned /\ c.lost = d.lost
      /\ c.g_stubs = d.g_stubs /\ c.next_id = d.next_id
  BY <1>1, <1>2, <1>3, <1>5, SetProxies
<1> HIDE DEF c
<1>7. \A q \in Proxy(e) : c.referenceCount[q] > 0 <=> q = p \/ b.referenceCount[q] > 0
  BY <1>5, <1>6, ProxyFacts
<1>8. Exact(e, c, y)
  <2> SUFFICES ASSUME NEW s \in Objects(e)
               PROVE  c.referenceCount[s] = c.owned[s] + c.lost[s] + y[s] + CountOf(c.g_stubs, s)
    BY DEF Exact
  <2>1. /\ b.referenceCount[s] \in Nat
        /\ b.owned[s] \in Nat /\ b.lost[s] \in Nat /\ x[s] \in Nat
        /\ b.referenceCount[s] = b.owned[s] + b.lost[s] + x[s] + CountOf(b.g_stubs, s)
    BY CountsCover
  <2>2. CountOf(b.g_stubs, s) \in Nat /\ CountOf(c.g_stubs, s) = CountOf(b.g_stubs, s)
    BY <1>5, <1>6, StubsCounted DEF SameTables
  <2>3. c.owned[s] = b.owned[s] /\ c.lost[s] = b.lost[s]
        /\ y[s] = x[s] + (IF s = p THEN 1 ELSE 0)
    BY <1>5, <1>6 DEF Adds
  <2>4. c.referenceCount[s] = b.referenceCount[s] + (IF s = p THEN 1 ELSE 0)
    BY <1>5, <1>6, <2>1
  <2> QED
    BY <2>1, <2>2, <2>3, <2>4
<1>9. Proxies(e, c, g)
  <2>1. ASSUME NEW q \in Proxy(e), c.referenceCount[q] > 0
        PROVE  q.gen <= g /\ (e = "viewer" => q \in c.is_valid)
    BY <1>1, <1>3, <1>6, <1>7, <2>1 DEF Proxies
  <2>2. ASSUME NEW q \in c.is_valid
        PROVE  c.referenceCount[q] > 0
    BY <1>1, <1>3, <1>6, <1>7 DEF Proxies
  <2>3. ASSUME NEW q \in c.is_valid, q \notin c.crossed
        PROVE  q.gen = g /\ q.id \in DOMAIN c.g_proxies /\ c.g_proxies[q.id] = q
    <3>1. CASE q = p
      BY <1>2, <1>6, <3>1
    <3>2. CASE q # p
      <4>1. q \in b.is_valid /\ q \in Proxy(e) /\ q \notin b.crossed
        BY <1>1, <1>3, <1>6, <2>3, <3>2
      <4>2. q.gen = g /\ q.id \in DOMAIN b.g_proxies /\ b.g_proxies[q.id] = q
        BY <1>1, <4>1 DEF Proxies
      <4>3. q.id # p.id
        BY <3>2, <4>1, <4>2, ProxyFacts
      <4> QED
        BY <1>2, <1>6, <4>2, <4>3
    <3> QED
      BY <3>1, <3>2
  <2>4. e = "viewer" \/ g = 1 => c.crossed = {}
    BY <1>1, <1>6 DEF Proxies
  <2> QED
    BY <2>1, <2>2, <2>3, <2>4 DEF Proxies
<1>10. DOMAIN c.g_stubs \subseteq 1..c.next_id
  BY <1>1, <1>5, <1>6 DEF SameTables
<1>11. BridgeOk(e, c, y, g)
  BY <1>6, <1>8, <1>9, <1>10, BridgeParts
<1>12. /\ c.g_stubs = b.g_stubs /\ c.next_id = b.next_id /\ c.owned = b.owned
       /\ c.is_valid = b.is_valid \cup {p} /\ c.crossed = b.crossed
  BY <1>5, <1>6 DEF SameTables, V
<1> QED
  BY <1>7, <1>11, <1>12 DEF ProxyAdded, AddProxy, c, d, f, V, IsWith

DropProxy(b, p) ==
    WithProxies(WithCount(b, p, 0), RemoveKey(b.g_proxies, p.id), b.is_valid \ {p},
                b.crossed \cup Namesakes(b, p))

ProxyDropped(e, b, c, p) ==
    /\ c.g_stubs = b.g_stubs /\ c.next_id = b.next_id /\ c.owned = b.owned
    /\ IsWithout(c.is_valid, b.is_valid, p) /\ c.crossed = b.crossed \cup Namesakes(b, p)
    /\ \A q \in Proxy(e) : c.referenceCount[q] > 0 <=> q # p /\ b.referenceCount[q] > 0

\* npobject_destroy_proxy, with the last reference.
LEMMA DropProxyStep ==
    ASSUME NEW e \in Ends, NEW b, NEW x, NEW y, NEW g, BridgeOk(e, b, x, g), Nats(e, x),
           NEW p \in Proxy(e), b.referenceCount[p] = 1, x[p] >= 1, Adds(e, y, x, p, -1)
    PROVE  BridgeOk(e, DropProxy(b, p), y, g) /\ ProxyDropped(e, b, DropProxy(b, p), p)
<1> DEFINE d == WithCount(b, p, 0)
           f == RemoveKey(b.g_proxies, p.id)
           V == b.is_valid \ {p}
           K == b.crossed \cup Namesakes(b, p)
           c == WithProxies(d, f, V, K)
<1>1. /\ b \in Bridge(e) /\ Exact(e, b, x) /\ DOMAIN b.g_stubs \subseteq 1..b.next_id
      /\ Proxies(e, b, g) /\ p \in Objects(e) /\ b.is_valid \in SUBSET Proxy(e)
  BY BridgeParts, ProxyFacts, BridgeFields
<1>2. /\ f \in PartialFunctions(Ids(Other(e)), Proxy(e))
      /\ \A z \in DOMAIN b.g_proxies : z # p.id => z \in DOMAIN f /\ f[z] = b.g_proxies[z]
  BY <1>1, ProxyTables
<1>3. V \in SUBSET Proxy(e) /\ \A q : q \in V <=> q \in b.is_valid /\ q # p
  BY <1>1
<1>4. /\ K \in SUBSET Proxy(e)
      /\ \A q \in b.is_valid : q \notin K => q \notin b.crossed /\ (q = p \/ q.id # p.id)
      /\ \A q \in K : q \in b.crossed \/ (q \in b.is_valid /\ q.id = p.id /\ q # p)
  <2>1. b.crossed \in SUBSET Proxy(e)
    BY <1>1, BridgeFields
  <2> QED
    BY <1>1, <2>1 DEF Namesakes
<1> HIDE DEF f, V, K
<1>5. /\ d \in Bridge(e) /\ SameTables(d, b) /\ d.owned = b.owned /\ d.lost = b.lost
      /\ d.referenceCount[p] = 0
      /\ \A s \in Objects(e) : s # p => d.referenceCount[s] = b.referenceCount[s]
  BY <1>1, SetCount
<1> HIDE DEF d
<1>6. /\ c \in Bridge(e) /\ c.g_proxies = f /\ c.is_valid = V /\ c.crossed = K
      /\ c.referenceCount = d.referenceCount /\ c.owned = d.owned /\ c.lost = d.lost
      /\ c.g_stubs = d.g_stubs /\ c.next_id = d.next_id
  BY <1>2, <1>3, <1>4, <1>5, SetProxies
<1> HIDE DEF c
<1>7. \A q \in Proxy(e) : c.referenceCount[q] > 0 <=> q # p /\ b.referenceCount[q] > 0
  BY <1>5, <1>6, ProxyFacts
<1>8. Exact(e, c, y)
  <2> SUFFICES ASSUME NEW s \in Objects(e)
               PROVE  c.referenceCount[s] = c.owned[s] + c.lost[s] + y[s] + CountOf(c.g_stubs, s)
    BY DEF Exact
  <2>1. /\ b.referenceCount[s] \in Nat
        /\ b.owned[s] \in Nat /\ b.lost[s] \in Nat /\ x[s] \in Nat
        /\ b.referenceCount[s] = b.owned[s] + b.lost[s] + x[s] + CountOf(b.g_stubs, s)
    BY CountsCover
  <2>2. CountOf(b.g_stubs, s) \in Nat /\ CountOf(c.g_stubs, s) = CountOf(b.g_stubs, s)
    BY <1>5, <1>6, StubsCounted DEF SameTables
  <2>3. c.owned[s] = b.owned[s] /\ c.lost[s] = b.lost[s]
        /\ y[s] = x[s] + (IF s = p THEN -1 ELSE 0)
    BY <1>5, <1>6 DEF Adds
  <2>4. c.referenceCount[s] = b.referenceCount[s] + (IF s = p THEN -1 ELSE 0)
    BY <1>5, <1>6, <2>1
  <2> QED
    BY <2>1, <2>2, <2>3, <2>4
<1>9. Proxies(e, c, g)
  <2>1. ASSUME NEW q \in Proxy(e), c.referenceCount[q] > 0
        PROVE  q.gen <= g /\ (e = "viewer" => q \in c.is_valid)
    BY <1>1, <1>3, <1>6, <1>7, <2>1 DEF Proxies
  <2>2. ASSUME NEW q \in c.is_valid
        PROVE  c.referenceCount[q] > 0
    BY <1>1, <1>3, <1>6, <1>7 DEF Proxies
  <2>3. ASSUME NEW q \in c.is_valid, q \notin c.crossed
        PROVE  q.gen = g /\ q.id \in DOMAIN c.g_proxies /\ c.g_proxies[q.id] = q
    <3>1. q \in b.is_valid /\ q \notin b.crossed /\ q.id # p.id
      BY <1>3, <1>4, <1>6, <2>3
    <3>2. q.gen = g /\ q.id \in DOMAIN b.g_proxies /\ b.g_proxies[q.id] = q
      BY <1>1, <3>1 DEF Proxies
    <3> QED
      BY <1>2, <1>6, <3>1, <3>2
  <2>4. ASSUME e = "viewer" \/ g = 1 PROVE c.crossed = {}
    <3> SUFFICES ASSUME NEW q \in c.crossed PROVE FALSE
      OBVIOUS
    <3>1. b.crossed = {} /\ b.referenceCount[p] > 0
      BY <1>1, <2>4 DEF Proxies
    <3>2. q \in b.is_valid /\ q.id = p.id /\ q # p /\ q \in Proxy(e)
      BY <1>1, <1>4, <1>6, <3>1
    <3>3. q.gen = g
      BY <1>1, <3>1, <3>2 DEF Proxies
    <3>4. p.gen = g
      <4>1. CASE e = "viewer"
        BY <1>1, <3>1, <4>1 DEF Proxies
      <4>2. CASE g = 1
        <5>1. p.gen <= g
          BY <1>1, <3>1 DEF Proxies
        <5> QED
          BY <4>2, <5>1, ProxyFacts
      <4> QED
        BY <2>4, <4>1, <4>2
    <3> QED
      BY <3>2, <3>3, <3>4, ProxyFacts
  <2> QED
    BY <2>1, <2>2, <2>3, <2>4 DEF Proxies
<1>10. DOMAIN c.g_stubs \subseteq 1..c.next_id
  BY <1>1, <1>5, <1>6 DEF SameTables
<1>11. BridgeOk(e, c, y, g)
  BY <1>6, <1>8, <1>9, <1>10, BridgeParts
<1>12. /\ c.g_stubs = b.g_stubs /\ c.next_id = b.next_id /\ c.owned = b.owned
       /\ c.is_valid = b.is_valid \ {p} /\ c.crossed = K
  BY <1>5, <1>6 DEF SameTables, V
<1> QED
  BY <1>7, <1>11, <1>12 DEF ProxyDropped, DropProxy, c, d, f, V, K, IsWithout

\* g_NPClass_Invalidate and npruntime_deactivate: proxies that are no longer valid.
LEMMA InvalidStep ==
    ASSUME NEW b, NEW x, NEW g, BridgeOk("wrapper", b, x, g), NEW V \in SUBSET b.is_valid,
           NEW K \in SUBSET Proxy("wrapper"), b.crossed \subseteq K, g = 1 => K = {}
    PROVE  LET c == WithProxies(b, b.g_proxies, V, K)
           IN  /\ BridgeOk("wrapper", c, x, g) /\ c.is_valid = V /\ c.crossed = K
               /\ c.g_stubs = b.g_stubs /\ c.next_id = b.next_id
               /\ c.referenceCount = b.referenceCount
<1> DEFINE c == WithProxies(b, b.g_proxies, V, K)
<1>1. b \in Bridge("wrapper") /\ b.is_valid \in SUBSET Proxy("wrapper") /\ "wrapper" \in Ends
      /\ b.g_proxies \in PartialFunctions(Ids(Other("wrapper")), Proxy("wrapper"))
  BY BridgeParts, BridgeFields DEF Ends
<1>2. V \in SUBSET Proxy("wrapper")
  BY <1>1
<1>3. /\ c \in Bridge("wrapper") /\ c.g_proxies = b.g_proxies /\ c.is_valid = V /\ c.crossed = K
      /\ c.referenceCount = b.referenceCount /\ c.owned = b.owned /\ c.lost = b.lost
      /\ c.g_stubs = b.g_stubs /\ c.next_id = b.next_id
  BY <1>1, <1>2, SetProxies
<1> HIDE DEF c
<1>4. Exact("wrapper", c, x)
  BY <1>3, BridgeParts DEF Exact
<1>5. Proxies("wrapper", c, g)
  BY <1>3, BridgeParts DEF Proxies
<1>6. DOMAIN c.g_stubs \subseteq 1..c.next_id
  BY <1>3, BridgeParts
<1>7. BridgeOk("wrapper", c, x, g)
  BY <1>3, <1>4, <1>5, <1>6, BridgeParts
<1> QED
  BY <1>3, <1>7 DEF c

\* Whose namesakes are crossed: nobody's while the first viewer is up.
LEMMA FirstHasNoNamesakes ==
    ASSUME NEW e \in Ends, NEW b, NEW x, BridgeOk(e, b, x, 1), NEW p \in b.is_valid
    PROVE  Namesakes(b, p) = {}
<1> SUFFICES ASSUME NEW q \in b.is_valid, q.id = p.id, q # p PROVE FALSE
  BY DEF Namesakes
<1>1. p \in Proxy(e) /\ q \in Proxy(e)
  BY BridgeFields DEF BridgeOk
<1>2. p.gen = 1 /\ q.gen = 1
  BY DEF BridgeOk
<1> QED
  BY <1>1, <1>2, ProxyFacts

-----------------------------------------------------------------------------
(* The heaps of both ends: b at e and c at the other, as npruntime.c leaves  *)
(* them.                                                                     *)

Heap2(e, b, c) == [d \in Ends |-> IF d = e THEN b ELSE c]

LEMMA Heap2Facts ==
    ASSUME NEW e \in Ends, NEW b, NEW c
    PROVE  /\ Heap2(e, b, c)[e] = b /\ Heap2(e, b, c)[Other(e)] = c
           /\ Heap2(Other(e), c, b) = Heap2(e, b, c)
           /\ DOMAIN Heap2(e, b, c) = Ends
<1>1. Other(e) \in Ends /\ Other(e) # e /\ \A d \in Ends : d = e \/ d = Other(e)
  BY EndFacts DEF Ends
<1> QED
  BY <1>1 DEF Heap2

LEMMA Heap2Shape ==
    ASSUME NEW e \in Ends, NEW h, h = [d \in Ends |-> h[d]], NEW b, NEW c
    PROVE  /\ [h EXCEPT ![e] = b] = Heap2(e, b, h[Other(e)])
           /\ h = Heap2(e, h[e], h[Other(e)])
           /\ [Heap2(e, b, h[Other(e)]) EXCEPT ![Other(e)] = c] = Heap2(e, b, c)
<1>1. Other(e) \in Ends /\ Other(e) # e /\ \A d \in Ends : d = e \/ d = Other(e)
  BY EndFacts DEF Ends
<1> QED
  BY <1>1 DEF Heap2

LEMMA RetainShape ==
    ASSUME NEW e \in Ends, NEW h, h = [d \in Ends |-> h[d]], h[e] \in Bridge(e), NEW t \in Objects(e)
    PROVE  RetainObject(h, e, t) = Heap2(e, WithCount(h[e], t, h[e].referenceCount[t] + 1), h[Other(e)])
<1>1. RetainObject(h, e, t) = [h EXCEPT ![e] = WithCount(h[e], t, h[e].referenceCount[t] + 1)]
  BY DEF RetainObject, WithCount
<1> QED
  BY <1>1, Heap2Shape

LEMMA CreateStubShape ==
    ASSUME NEW e \in Ends, NEW h, h = [d \in Ends |-> h[d]], h[e] \in Bridge(e), NEW t \in Objects(e)
    PROVE  CreateStub(h, e, t) = Heap2(e, AddStub(h[e], t, 1), h[Other(e)])
<1>1. CreateStub(h, e, t) = [h EXCEPT ![e] = AddStub(h[e], t, 1)]
  BY DEF CreateStub, RetainObject, AddStub, WithStubs, WithCount, Bridge
<1> QED
  BY <1>1, Heap2Shape

LEMMA DestroyStubShape ==
    ASSUME NEW e \in Ends, NEW h, h = [d \in Ends |-> h[d]], h[e] \in Bridge(e),
           NEW id \in DOMAIN h[e].g_stubs
    PROVE  DestroyStub(h, e, id) = Heap2(e, DropStub(h[e], id, 0), h[Other(e)])
<1> DEFINE b == h[e]
           t == b.g_stubs[id]
<1>1. t \in Objects(e)
  BY BridgeFields, TableFacts, ProxyFacts
<1>2. b.referenceCount[t] \in Int
  BY <1>1, BridgeFields
<1>3. b.referenceCount[t] - 1 + 0 = b.referenceCount[t] - 1
  BY <1>2
<1> HIDE DEF t
<1>4. DropStub(b, id, 0) = WithStubs(WithCount(b, t, b.referenceCount[t] - 1),
                                     RemoveKey(b.g_stubs, id), b.next_id)
  BY <1>3 DEF DropStub, t
<1>5. DestroyStub(h, e, id) = [h EXCEPT ![e] = DropStub(b, id, 0)]
  BY <1>4 DEF DestroyStub, WithStubs, WithCount, Bridge, t
<1> QED
  BY <1>5, Heap2Shape

LEMMA CreateProxyShape ==
    ASSUME NEW e \in Ends, NEW h, h = [d \in Ends |-> h[d]], h[e] \in Bridge(e), NEW id
    PROVE  CreateProxy(h, e, id) = Heap2(e, AddProxy(h[e], [gen |-> gen, id |-> id]), h[Other(e)])
<1>1. CreateProxy(h, e, id) = [h EXCEPT ![e] = AddProxy(h[e], [gen |-> gen, id |-> id])]
  BY DEF CreateProxy, AddProxy, WithProxies, WithCount, Bridge
<1> QED
  BY <1>1, Heap2Shape

LEMMA DestroyProxyShape ==
    ASSUME NEW e \in Ends, NEW h, h = [d \in Ends |-> h[d]], h[e] \in Bridge(e), NEW p
    PROVE  DestroyProxy(h, e, p, FALSE) = Heap2(e, DropProxy(h[e], p), h[Other(e)])
<1>1. DestroyProxy(h, e, p, FALSE) = [h EXCEPT ![e] = DropProxy(h[e], p)]
  BY DEF DestroyProxy, DropProxy, WithProxies, WithCount, Bridge
<1> QED
  BY <1>1, Heap2Shape

LEMMA DestroyProxyIsDrop ==
    ASSUME NEW e \in Ends, NEW h, h = [d \in Ends |-> h[d]], NEW p
    PROVE  /\ p \in h[e].is_valid /\ viewer = "up" /\ p.id \in DOMAIN h[Other(e)].g_stubs =>
                 DestroyProxy(h, e, p, TRUE) = DestroyProxy(DestroyStub(h, Other(e), p.id), e, p, FALSE)
           /\ ~ (p \in h[e].is_valid /\ viewer = "up" /\ p.id \in DOMAIN h[Other(e)].g_stubs) =>
                 DestroyProxy(h, e, p, TRUE) = DestroyProxy(h, e, p, FALSE)
<1> DEFINE h1 == DestroyStub(h, Other(e), p.id)
<1>1. h1[e] = h[e]
  <2>1. Other(e) # e /\ e \in DOMAIN h
    BY EndFacts
  <2> DEFINE f == Other(e)
             i == p.id
  <2>2. f # e /\ h1 = DestroyStub(h, f, i)
    BY <2>1
  <2> HIDE DEF f, i, h1
  <2> QED
    BY <2>1, <2>2 DEF DestroyStub
<1> HIDE DEF h1
<1>2. ASSUME p \in h[e].is_valid, viewer = "up", p.id \in DOMAIN h[Other(e)].g_stubs
      PROVE  DestroyProxy(h, e, p, TRUE) = DestroyProxy(h1, e, p, FALSE)
  <2>1. Deallocate(h, e, p) = h1
    BY <1>2 DEF Deallocate, h1
  <2> QED
    BY <1>1, <1>2, <2>1 DEF DestroyProxy
<1>3. ~ (p \in h[e].is_valid /\ viewer = "up" /\ p.id \in DOMAIN h[Other(e)].g_stubs) =>
         DestroyProxy(h, e, p, TRUE) = DestroyProxy(h, e, p, FALSE)
  BY DEF DestroyProxy, Deallocate
<1> QED
  BY <1>2, <1>3 DEF h1

LEMMA DestroyProxyBothShape ==
    ASSUME NEW e \in Ends, NEW h, h = [d \in Ends |-> h[d]], \A d \in Ends : h[d] \in Bridge(d),
           NEW p \in h[e].is_valid, viewer = "up", p.id \in DOMAIN h[Other(e)].g_stubs
    PROVE  DestroyProxy(h, e, p, TRUE) =
              Heap2(e, DropProxy(h[e], p), DropStub(h[Other(e)], p.id, 0))
<1> DEFINE f == Other(e)
           c == DropStub(h[f], p.id, 0)
           h1 == DestroyStub(h, f, p.id)
<1>1. f \in Ends /\ Other(f) = e
  BY EndFacts
<1>2. DestroyProxy(h, e, p, TRUE) = DestroyProxy(h1, e, p, FALSE)
  BY DestroyProxyIsDrop
<1>3. h1 = Heap2(f, c, h[e])
  BY <1>1, DestroyStubShape
<1> HIDE DEF h1, c
<1>4. h1 = Heap2(e, h[e], c)
  BY <1>1, <1>3, Heap2Facts
<1> HIDE DEF f
<1>5. h1 = [d \in Ends |-> h1[d]] /\ h1[e] = h[e] /\ h1[f] = c
  <2>1. h1 = [d \in Ends |-> h1[d]]
    BY <1>4 DEF Heap2
  <2>2. h1[e] = h[e] /\ h1[f] = c
    BY <1>4, Heap2Facts DEF f
  <2> QED
    BY <2>1, <2>2
<1>6. DestroyProxy(h1, e, p, FALSE) = Heap2(e, DropProxy(h1[e], p), h1[f])
  BY <1>5, DestroyProxyShape DEF f
<1> QED
  BY <1>2, <1>5, <1>6 DEF c, f

-----------------------------------------------------------------------------
(* Both ends.  y is x with k references to t of e more.                      *)

Moves(e, x, y, t, k) ==
    /\ Adds(e, y[e], x[e], t, k) /\ Nats(e, y[e])
    /\ \A s \in Objects(Other(e)) : y[Other(e)][s] = x[Other(e)][s]

LEMMA WorldParts ==
    ASSUME NEW h, NEW x, NEW g, NEW v, World(h, x, g, v), NEW e \in Ends
    PROVE  /\ h = [d \in Ends |-> h[d]] /\ Nats(e, x[e]) /\ BridgeOk(e, h[e], x[e], g)
           /\ h[e] \in Bridge(e) /\ (v = "up" => LinkOk(e, h[e], h[Other(e)], g))
           /\ Other(e) \in Ends /\ Other(Other(e)) = e
  BY EndFacts, BridgeParts DEF World, Nats

LEMMA PairParts ==
    ASSUME NEW e \in Ends, NEW b, NEW c, NEW x, NEW g, NEW v, World(Heap2(e, b, c), x, g, v)
    PROVE  /\ Nats(e, x[e]) /\ BridgeOk(e, b, x[e], g) /\ b \in Bridge(e)
           /\ Nats(Other(e), x[Other(e)]) /\ BridgeOk(Other(e), c, x[Other(e)], g)
           /\ c \in Bridge(Other(e))
           /\ Other(e) \in Ends /\ Other(Other(e)) = e
           /\ v = "up" => LinkOk(e, b, c, g) /\ LinkOk(Other(e), c, b, g)
<1> DEFINE h == Heap2(e, b, c)
<1>1. h[e] = b /\ h[Other(e)] = c
  BY Heap2Facts
<1> HIDE DEF h
<1>2. World(h, x, g, v)
  BY DEF h
<1>3. Other(e) \in Ends /\ Other(Other(e)) = e
  BY EndFacts
<1>4. Nats(e, x[e]) /\ BridgeOk(e, h[e], x[e], g) /\ h[e] \in Bridge(e)
      /\ (v = "up" => LinkOk(e, h[e], h[Other(e)], g))
  BY <1>2, WorldParts
<1>5. /\ Nats(Other(e), x[Other(e)]) /\ BridgeOk(Other(e), h[Other(e)], x[Other(e)], g)
      /\ h[Other(e)] \in Bridge(Other(e))
      /\ (v = "up" => LinkOk(Other(e), h[Other(e)], h[Other(Other(e))], g))
  BY <1>2, <1>3, WorldParts
<1> QED
  BY <1>1, <1>3, <1>4, <1>5

LEMMA WorldFromParts ==
    ASSUME NEW e \in Ends, NEW b, NEW c, NEW x, NEW g,
           BridgeOk(e, b, x[e], g), BridgeOk(Other(e), c, x[Other(e)], g),
           Nats(e, x[e]), Nats(Other(e), x[Other(e)]),
           LinkOk(e, b, c, g), LinkOk(Other(e), c, b, g)
    PROVE  World(Heap2(e, b, c), x, g, "up")
<1> DEFINE f == Other(e)
           h == Heap2(e, b, c)
<1>1. f \in Ends /\ Other(f) = e /\ \A d \in Ends : d = e \/ d = f
  BY EndFacts DEF Ends
<1>2. h[e] = b /\ h[f] = c
  BY Heap2Facts
<1>3. h = [d \in Ends |-> h[d]]
  BY DEF Heap2
<1> HIDE DEF h
<1>4. \A d \in Ends : \A t \in Objects(d) : x[d][t] \in Nat
  BY <1>1 DEF Nats
<1>5. \A d \in Ends : BridgeOk(d, h[d], x[d], g)
  BY <1>1, <1>2
<1>6. \A d \in Ends : LinkOk(d, h[d], h[Other(d)], g)
  BY <1>1, <1>2
<1> QED
  BY <1>3, <1>4, <1>5, <1>6 DEF World, h

\* What the links see of the ends.
LEMMA LinkKept ==
    ASSUME NEW e, NEW b, NEW c, NEW b2, NEW c2, NEW g, LinkOk(e, b, c, g),
           \A p \in Proxy(e) : b2.referenceCount[p] > 0 => b.referenceCount[p] > 0,
           b2.is_valid = b.is_valid, b2.crossed = b.crossed,
           c2.next_id = c.next_id, DOMAIN c2.g_stubs = DOMAIN c.g_stubs
    PROVE  LinkOk(e, b2, c2, g)
  BY DEF LinkOk

\* While no viewer is up only the browser's end changes.
LEMMA WorldDown ==
    ASSUME NEW h, NEW x, NEW y, NEW g, NEW v, World(h, x, g, v), v # "up",
           NEW b, BridgeOk("wrapper", b, y["wrapper"], g), b.is_valid \subseteq h["wrapper"].is_valid,
           h["wrapper"].crossed \subseteq b.crossed,
           Nats("wrapper", y["wrapper"]), \A s \in Objects("viewer") : y["viewer"][s] = x["viewer"][s]
    PROVE  World(Heap2("wrapper", b, h["viewer"]), y, g, v)
<1> DEFINE h2 == Heap2("wrapper", b, h["viewer"])
<1>1. "wrapper" \in Ends /\ "viewer" \in Ends /\ Other("wrapper") = "viewer"
      /\ \A d \in Ends : d = "wrapper" \/ d = "viewer"
  BY EndFacts DEF Ends
<1>2. h2["wrapper"] = b /\ h2["viewer"] = h["viewer"]
  BY <1>1, Heap2Facts
<1>3. h2 = [d \in Ends |-> h2[d]]
  BY DEF Heap2
<1> HIDE DEF h2
<1>4. BridgeOk("viewer", h["viewer"], y["viewer"], g)
  BY <1>1, WorldParts, SameCounts
<1>5. \A d \in Ends : \A t \in Objects(d) : y[d][t] \in Nat
  <2>1. \A t \in Objects("viewer") : y["viewer"][t] \in Nat
    BY <1>1, WorldParts DEF Nats
  <2> QED
    BY <1>1, <2>1 DEF Nats
<1>6. \A d \in Ends : BridgeOk(d, h2[d], y[d], g)
  BY <1>1, <1>2, <1>4
<1>7. h["viewer"] = NewBridge("viewer")
      /\ (v = "killed" => h["wrapper"].is_valid \subseteq h["wrapper"].crossed)
  BY DEF World
<1> QED
  BY <1>2, <1>3, <1>5, <1>6, <1>7 DEF World, h2

LEMMA WorldRecount ==
    ASSUME NEW h, NEW x, NEW y, NEW g, NEW v, World(h, x, g, v), NEW e \in Ends,
           v = "up" \/ e = "wrapper",
           NEW b, BridgeOk(e, b, y[e], g), SameTables(b, h[e]), Nats(e, y[e]),
           \A p \in Proxy(e) : b.referenceCount[p] > 0 => h[e].referenceCount[p] > 0,
           \A s \in Objects(Other(e)) : y[Other(e)][s] = x[Other(e)][s]
    PROVE  World(Heap2(e, b, h[Other(e)]), y, g, v)
<1> DEFINE f == Other(e)
<1>1. f \in Ends /\ Other(f) = e
  BY EndFacts
<1>2. CASE v = "up"
  <2>1. LinkOk(e, h[e], h[f], g) /\ LinkOk(f, h[f], h[e], g)
    BY <1>1, <1>2, WorldParts
  <2>2. LinkOk(e, b, h[f], g)
    BY <2>1, LinkKept DEF SameTables
  <2>3. LinkOk(f, h[f], b, g)
    BY <2>1, LinkKept DEF SameTables
  <2>4. BridgeOk(f, h[f], y[f], g)
    BY <1>1, WorldParts, SameCounts
  <2>5. Nats(f, y[f])
    BY <1>1, WorldParts DEF Nats
  <2> QED
    BY <1>2, <2>2, <2>3, <2>4, <2>5, WorldFromParts
<1>3. CASE v # "up"
  <2>1. e = "wrapper" /\ f = "viewer"
    BY <1>3, EndFacts
  <2>2. b.is_valid \subseteq h["wrapper"].is_valid /\ h["wrapper"].crossed \subseteq b.crossed
    BY <2>1 DEF SameTables
  <2> QED
    BY <1>3, <2>1, <2>2, WorldDown
<1> QED
  BY <1>2, <1>3

\* A proxy goes with the stub that has its id, or where there is none.
LEMMA LinkWithoutBoth ==
    ASSUME NEW e \in Ends, NEW b, NEW c, NEW b2, NEW c2, NEW g, LinkOk(e, b, c, g), NEW p,
           \A q \in Proxy(e) : b2.referenceCount[q] > 0 => b.referenceCount[q] > 0,
           IsWithout(b2.is_valid, b.is_valid, p), b2.crossed = b.crossed \cup Namesakes(b, p),
           c2.next_id = c.next_id, IsWithout(DOMAIN c2.g_stubs, DOMAIN c.g_stubs, p.id)
    PROVE  LinkOk(e, b2, c2, g)
<1> USE DEF IsWithout
<1>1. \A q \in Proxy(e) : b2.referenceCount[q] > 0 /\ q.gen = g => q.id <= c2.next_id
  BY DEF LinkOk
<1>2. ASSUME NEW q \in b2.is_valid \ b2.crossed
      PROVE  q.id \in DOMAIN c2.g_stubs
  <2>1. q \in b.is_valid /\ q # p /\ q \notin b.crossed
    OBVIOUS
  <2>2. q.id # p.id
    BY <2>1 DEF Namesakes
  <2> QED
    BY <2>1, <2>2 DEF LinkOk
<1>3. ASSUME g = 1, NEW id \in DOMAIN c2.g_stubs
      PROVE  \E q \in b2.is_valid : q.id = id
  <2>1. id \in DOMAIN c.g_stubs /\ id # p.id
    OBVIOUS
  <2>2. PICK q \in b.is_valid : q.id = id
    BY <1>3, <2>1 DEF LinkOk
  <2> QED
    BY <2>1, <2>2
<1> QED
  BY <1>1, <1>2, <1>3 DEF LinkOk

LEMMA LinkWithout ==
    ASSUME NEW e \in Ends, NEW b, NEW c, NEW b2, NEW g, LinkOk(e, b, c, g), NEW p,
           p \notin b.is_valid \/ p.id \notin DOMAIN c.g_stubs,
           \A q \in Proxy(e) : b2.referenceCount[q] > 0 => b.referenceCount[q] > 0,
           IsWithout(b2.is_valid, b.is_valid, p), b.crossed \subseteq b2.crossed
    PROVE  LinkOk(e, b2, c, g)
<1> USE DEF IsWithout
<1>1. \A q \in Proxy(e) : b2.referenceCount[q] > 0 /\ q.gen = g => q.id <= c.next_id
  BY DEF LinkOk
<1>2. \A q \in b2.is_valid \ b2.crossed : q.id \in DOMAIN c.g_stubs
  BY DEF LinkOk
<1>3. ASSUME g = 1, NEW id \in DOMAIN c.g_stubs
      PROVE  \E q \in b2.is_valid : q.id = id
  <2>1. PICK q \in b.is_valid : q.id = id
    BY <1>3 DEF LinkOk
  <2> QED
    BY <2>1
<1> QED
  BY <1>1, <1>2, <1>3 DEF LinkOk

LEMMA HeldMeansUp ==
    ASSUME NEW h, NEW x, NEW g, NEW v, World(h, x, g, v), NEW e \in Ends, NEW t \in Objects(e),
           h[e].referenceCount[t] > 0
    PROVE  v = "up" \/ e = "wrapper"
<1> SUFFICES ASSUME v # "up", e = "viewer" PROVE FALSE
  BY DEF Ends
<1>1. h[e] = NewBridge("viewer")
  BY DEF World
<1>2. h[e].referenceCount[t] = 0
  BY <1>1 DEF NewBridge
<1> QED
  BY <1>2

LEMMA RetainWorld ==
    ASSUME NEW h, NEW x, NEW y, NEW g, NEW v, World(h, x, g, v), NEW e \in Ends,
           v = "up" \/ e = "wrapper", NEW t \in Objects(e),
           t \in Proxy(e) => h[e].referenceCount[t] > 0, Moves(e, x, y, t, 1)
    PROVE  LET h2 == RetainObject(h, e, t)
           IN  /\ World(h2, y, g, v) /\ SameTables(h2[e], h[e]) /\ h2[e].owned = h[e].owned
               /\ h2[Other(e)] = h[Other(e)]
<1> DEFINE c == WithCount(h[e], t, h[e].referenceCount[t] + 1)
           h2 == RetainObject(h, e, t)
<1>1. h = [d \in Ends |-> h[d]] /\ Nats(e, x[e]) /\ BridgeOk(e, h[e], x[e], g) /\ h[e] \in Bridge(e)
  BY WorldParts
<1>2. h2 = Heap2(e, c, h[Other(e)])
  BY <1>1, RetainShape
<1>3. /\ BridgeOk(e, c, y[e], g) /\ SameTables(c, h[e]) /\ c.owned = h[e].owned
      /\ \A p \in Proxy(e) : c.referenceCount[p] > 0 <=> h[e].referenceCount[p] > 0
  <2>1. t \in Proxy(e) => h[e].referenceCount[t] > 0 /\ h[e].referenceCount[t] + 1 > 0
    BY <1>1, BridgeFields
  <2>2. Adds(e, y[e], x[e], t, 1)
    BY DEF Moves
  <2> QED
    BY <1>1, <2>1, <2>2, CountStep
<1> HIDE DEF c, h2
<1>4. World(Heap2(e, c, h[Other(e)]), y, g, v)
  BY <1>3, WorldRecount DEF Moves
<1> QED
  BY <1>2, <1>3, <1>4, Heap2Facts DEF h2

\* npclass release: the reference x counts is given up.
LEMMA ReleaseWorld ==
    ASSUME NEW h, NEW x, NEW y, NEW g, World(h, x, g, viewer), NEW e \in Ends,
           NEW t \in Objects(e), x[e][t] >= 1, Moves(e, x, y, t, -1)
    PROVE  LET h2 == ReleaseObject(h, e, t)
           IN  /\ World(h2, y, g, viewer) /\ h2[e].owned = h[e].owned
               /\ h2[e].next_id = h[e].next_id
               /\ \A p \in h[e].is_valid : y[e][p] > 0 => p \in h2[e].is_valid
<1> DEFINE f == Other(e)
           b == h[e]
           h2 == ReleaseObject(h, e, t)
<1>1. /\ h = [d \in Ends |-> h[d]] /\ Nats(e, x[e]) /\ BridgeOk(e, b, x[e], g) /\ b \in Bridge(e)
      /\ f \in Ends /\ Other(f) = e /\ BridgeOk(f, h[f], x[f], g) /\ Nats(f, x[f])
      /\ h[f] \in Bridge(f)
  BY WorldParts
<1>2. b.referenceCount[t] \in Nat /\ b.referenceCount[t] >= 1
  BY <1>1, CountsCover
<1>3. viewer = "up" \/ e = "wrapper"
  BY <1>2, HeldMeansUp
<1>4. Adds(e, y[e], x[e], t, -1) /\ Nats(e, y[e])
      /\ \A s \in Objects(f) : y[f][s] = x[f][s]
  BY DEF Moves
<1>5. CASE ~ (npobject_is_proxy(e, t) /\ b.referenceCount[t] = 1)
  <2> DEFINE c == WithCount(b, t, b.referenceCount[t] + (-1))
  <2>1. h2 = Heap2(e, c, h[f])
    <3>1. b.referenceCount[t] + (-1) = b.referenceCount[t] - 1
      BY <1>2
    <3>2. h2 = [h EXCEPT ![e] = WithCount(b, t, b.referenceCount[t] - 1)]
      BY <1>5 DEF ReleaseObject, WithCount
    <3> QED
      BY <1>1, <3>1, <3>2, Heap2Shape
  <2>2. t \in Proxy(e) => b.referenceCount[t] > 0 /\ b.referenceCount[t] + (-1) > 0
    BY <1>2, <1>5, ProxyFacts DEF npobject_is_proxy
  <2>3. /\ BridgeOk(e, c, y[e], g) /\ SameTables(c, b) /\ c.owned = b.owned
        /\ \A p \in Proxy(e) : c.referenceCount[p] > 0 <=> b.referenceCount[p] > 0
    <3>1. -1 \in {-1, 1}
      OBVIOUS
    <3> QED
      BY <1>1, <1>4, <2>2, <3>1, CountStep
  <2> HIDE DEF c, h2, b
  <2>4. World(Heap2(e, c, h[f]), y, g, viewer)
    BY <1>3, <1>4, <2>3, WorldRecount DEF b
  <2>5. h2[e] = c
    BY <2>1, Heap2Facts
  <2> QED
    BY <2>1, <2>3, <2>4, <2>5 DEF SameTables, h2, b
<1>6. CASE npobject_is_proxy(e, t) /\ b.referenceCount[t] = 1
  <2>1. t \in Proxy(e) /\ h2 = DestroyProxy(h, e, t, TRUE)
    BY <1>6, ProxyFacts DEF npobject_is_proxy, ReleaseObject
  <2> DEFINE c == DropProxy(b, t)
  <2>2. /\ BridgeOk(e, c, y[e], g)
        /\ c.g_stubs = b.g_stubs /\ c.next_id = b.next_id /\ c.owned = b.owned
        /\ IsWithout(c.is_valid, b.is_valid, t) /\ c.crossed = b.crossed \cup Namesakes(b, t)
        /\ \A q \in Proxy(e) : c.referenceCount[q] > 0 <=> q # t /\ b.referenceCount[q] > 0
    <3>1. BridgeOk(e, c, y[e], g) /\ ProxyDropped(e, b, c, t)
      BY <1>1, <1>4, <1>6, <2>1, DropProxyStep
    <3> QED
      BY <3>1 DEF ProxyDropped
  <2> HIDE DEF c
  <2>3. \A p \in b.is_valid : y[e][p] > 0 => p \in c.is_valid
    <3>1. y[e][t] = x[e][t] - 1 /\ x[e][t] \in Nat /\ x[e][t] <= 1
      <4>1. b.referenceCount[t] >= b.owned[t] + x[e][t] /\ b.owned[t] \in Nat /\ x[e][t] \in Nat
        BY <1>1, CountsCover
      <4>2. y[e][t] = x[e][t] + (-1)
        BY <1>4 DEF Adds
      <4> QED
        BY <1>6, <4>1, <4>2
    <3> QED
      BY <2>2, <3>1 DEF IsWithout
  <2>4. CASE t \in b.is_valid /\ viewer = "up" /\ t.id \in DOMAIN h[f].g_stubs
    <3> DEFINE d == DropStub(h[f], t.id, 0)
    <3>1. h2 = Heap2(e, c, d)
      <4>1. \A d1 \in Ends : h[d1] \in Bridge(d1)
        BY WorldParts
      <4> QED
        BY <1>1, <2>1, <2>4, <4>1, DestroyProxyBothShape DEF c
    <3>2. /\ BridgeOk(f, d, y[f], g)
          /\ d.next_id = h[f].next_id
          /\ IsWithout(DOMAIN d.g_stubs, DOMAIN h[f].g_stubs, t.id)
          /\ d.is_valid = h[f].is_valid /\ d.crossed = h[f].crossed
          /\ \A p \in Proxy(f) : d.referenceCount[p] = h[f].referenceCount[p]
      <4> QED
        BY <1>1, <1>4, <2>4, DropStubQuietly DEF StubDropped
    <3> HIDE DEF d, h2
    <3>3. LinkOk(e, b, h[f], g) /\ LinkOk(f, h[f], b, g)
      BY <1>1, <2>4, WorldParts
    <3>4. LinkOk(e, c, d, g)
      BY <2>2, <3>2, <3>3, LinkWithoutBoth
    <3>5. LinkOk(f, d, c, g)
      BY <1>1, <2>2, <3>2, <3>3, LinkKept
    <3>6. Nats(f, y[f])
      BY <1>1, <1>4 DEF Nats
    <3>7. World(Heap2(e, c, d), y, g, "up")
      BY <1>4, <2>2, <3>2, <3>4, <3>5, <3>6, WorldFromParts
    <3>8. h2[e] = c
      BY <3>1, Heap2Facts
    <3> QED
      BY <2>2, <2>3, <2>4, <3>1, <3>7, <3>8 DEF h2
  <2>5. CASE ~ (t \in b.is_valid /\ viewer = "up" /\ t.id \in DOMAIN h[f].g_stubs)
    <3>1. h2 = Heap2(e, c, h[f])
      <4>1. h2 = DestroyProxy(h, e, t, FALSE)
        BY <1>1, <2>1, <2>5, DestroyProxyIsDrop
      <4> QED
        BY <1>1, <4>1, DestroyProxyShape DEF c
    <3> HIDE DEF h2
    <3>2. World(Heap2(e, c, h[f]), y, g, viewer)
      <4>1. CASE viewer = "up"
        <5>1. LinkOk(e, b, h[f], g) /\ LinkOk(f, h[f], b, g)
          BY <1>1, <4>1, WorldParts
        <5>2. LinkOk(e, c, h[f], g)
          BY <2>2, <2>5, <4>1, <5>1, LinkWithout
        <5>3. LinkOk(f, h[f], c, g)
          BY <1>1, <2>2, <5>1, LinkKept
        <5>4. BridgeOk(f, h[f], y[f], g) /\ Nats(f, y[f])
          BY <1>1, <1>4, SameCounts DEF Nats
        <5> QED
          BY <1>4, <2>2, <4>1, <5>2, <5>3, <5>4, WorldFromParts
      <4>2. CASE viewer # "up"
        <5>1. e = "wrapper" /\ f = "viewer"
          BY <1>3, <4>2, EndFacts
        <5>2. c.is_valid \subseteq b.is_valid /\ b.crossed \subseteq c.crossed
          BY <2>2 DEF IsWithout
        <5> QED
          BY <1>4, <2>2, <4>2, <5>1, <5>2, WorldDown
      <4> QED
        BY <4>1, <4>2
    <3>3. h2[e] = c
      BY <3>1, Heap2Facts
    <3> QED
      BY <2>2, <2>3, <3>1, <3>2, <3>3 DEF h2
  <2> QED
    BY <2>4, <2>5
<1> QED
  BY <1>5, <1>6

Give(h, e, t, n) == [h EXCEPT ![e] = WithOwned(h[e], [h[e].owned EXCEPT ![t] = n])]

\* A reference comes to, or leaves, the browser or the plugin.
LEMMA OwnedWorld ==
    ASSUME NEW h, NEW x, NEW y, NEW g, NEW v, World(h, x, g, v), NEW e \in Ends,
           v = "up" \/ e = "wrapper", NEW t \in Objects(e), NEW n \in Nat,
           Moves(e, x, y, t, h[e].owned[t] - n)
    PROVE  LET h2 == Give(h, e, t, n)
           IN  /\ World(h2, y, g, v) /\ SameTables(h2[e], h[e])
               /\ h2[e].referenceCount = h[e].referenceCount
               /\ h2[e].owned = [h[e].owned EXCEPT ![t] = n]
               /\ h2[Other(e)] = h[Other(e)]
<1> DEFINE c == WithOwned(h[e], [h[e].owned EXCEPT ![t] = n])
           h2 == Give(h, e, t, n)
<1>1. h = [d \in Ends |-> h[d]] /\ Nats(e, x[e]) /\ BridgeOk(e, h[e], x[e], g) /\ h[e] \in Bridge(e)
  BY WorldParts
<1>2. h2 = Heap2(e, c, h[Other(e)])
  BY <1>1, Heap2Shape DEF Give
<1>3. /\ BridgeOk(e, c, y[e], g) /\ SameTables(c, h[e])
      /\ c.referenceCount = h[e].referenceCount /\ c.owned = [h[e].owned EXCEPT ![t] = n]
  BY <1>1, OwnedStep DEF Moves
<1> HIDE DEF c, h2
<1>4. World(Heap2(e, c, h[Other(e)]), y, g, v)
  <2>1. \A p \in Proxy(e) : c.referenceCount[p] > 0 => h[e].referenceCount[p] > 0
    BY <1>3
  <2> QED
    BY <1>3, <2>1, WorldRecount DEF Moves
<1> QED
  BY <1>2, <1>3, <1>4, Heap2Facts DEF h2

Lose(h, t) == [h EXCEPT !["wrapper"] = WithLost(h["wrapper"], [h["wrapper"].lost EXCEPT ![t] = @ + 1])]

\* The reference of a result that cannot be sent.
LEMMA LostWorld ==
    ASSUME NEW h, NEW x, NEW y, NEW g, NEW v, World(h, x, g, v),
           NEW t \in Objects("wrapper"), Moves("wrapper", x, y, t, -1)
    PROVE  World(Lose(h, t), y, g, v)
<1> DEFINE e == "wrapper"
           c == WithLost(h[e], [h[e].lost EXCEPT ![t] = @ + 1])
           h2 == Lose(h, t)
<1>e. e \in Ends
  BY DEF Ends
<1>1. h = [d \in Ends |-> h[d]] /\ Nats(e, x[e]) /\ BridgeOk(e, h[e], x[e], g) /\ h[e] \in Bridge(e)
  BY <1>e, WorldParts
<1>2. h2 = Heap2(e, c, h[Other(e)])
  BY <1>e, <1>1, Heap2Shape DEF Lose
<1>3. /\ BridgeOk(e, c, y[e], g) /\ SameTables(c, h[e])
      /\ c.referenceCount = h[e].referenceCount
  BY <1>e, <1>1, LostStep DEF Moves
<1> HIDE DEF c, h2
<1>4. World(Heap2(e, c, h[Other(e)]), y, g, v)
  <2>1. \A p \in Proxy(e) : c.referenceCount[p] > 0 => h[e].referenceCount[p] > 0
    BY <1>3
  <2> QED
    BY <1>e, <1>3, <2>1, WorldRecount DEF Moves
<1> QED
  BY <1>2, <1>4 DEF h2

-----------------------------------------------------------------------------
(* An object is sent and received.                                           *)

\* The sender keeps k references.
Keeps(pass_ref, k) == (pass_ref = TRUE /\ k = 0) \/ (pass_ref = FALSE /\ k = 1)
FreshProxy(b) == [gen |-> gen, id |-> b.next_id + 1]

Posted(h, m) == [heap |-> h, message |-> m]
StubMessage(b) == Message("SENDER_OWNED", b.next_id + 1, FALSE)

LEMMA SendLocalShape ==
    ASSUME NEW e \in Ends, NEW b \in Bridge(e), NEW c,
           NEW t \in Local(e), NEW pass_ref, NEW k, Keeps(pass_ref, k)
    PROVE  SendNPObject(Heap2(e, b, c), e, t, pass_ref) =
              Posted(Heap2(e, AddStub(b, t, k), c), StubMessage(b))
<1> DEFINE h == Heap2(e, b, c)
           h1 == CreateStub(h, e, t)
<1>0. h = [d \in Ends |-> h[d]] /\ h[e] = b /\ h[Other(e)] = c
  <2>1. h = [d \in Ends |-> h[d]]
    BY DEF Heap2
  <2>2. h[e] = b /\ h[Other(e)] = c
    BY Heap2Facts
  <2> QED
    BY <2>1, <2>2
<1> HIDE DEF h
<1>1. t \in Objects(e) /\ ~npobject_is_proxy(e, t)
  BY ProxyFacts DEF npobject_is_proxy
<1>2. h1 = Heap2(e, AddStub(b, t, 1), c)
  BY <1>0, <1>1, CreateStubShape
<1> HIDE DEF h1
<1>3. /\ h1[e] = AddStub(b, t, 1) /\ h1[e].next_id = b.next_id + 1
      /\ h1 = [d \in Ends |-> h1[d]] /\ h1[Other(e)] = c
  <2>1. h1[e] = AddStub(b, t, 1) /\ h1[Other(e)] = c
    BY <1>2, Heap2Facts
  <2>2. AddStub(b, t, 1).next_id = b.next_id + 1
    BY DEF AddStub, WithStubs, WithCount, Bridge
  <2>3. h1 = [d \in Ends |-> h1[d]]
    BY <1>2 DEF Heap2
  <2> QED
    BY <2>1, <2>2, <2>3
<1>4. ReleaseObject(h1, e, t) = Heap2(e, AddStub(b, t, 0), c)
  <2>1. ReleaseObject(h1, e, t) = [h1 EXCEPT ![e] = WithCount(h1[e], t, h1[e].referenceCount[t] - 1)]
    BY <1>1 DEF ReleaseObject, WithCount
  <2>2. b.referenceCount[t] \in Int /\ b.referenceCount \in [Objects(e) -> Int]
    BY <1>1, BridgeFields
  <2> DEFINE r == b.referenceCount[t]
             m == WithStubs(WithCount(b, t, r + 1), InsertKey(b.g_stubs, b.next_id + 1, t), b.next_id + 1)
  <2>3. AddStub(b, t, 1) = m /\ m.referenceCount[t] = r + 1
    BY <1>1, <2>2 DEF AddStub, WithStubs, WithCount, Bridge
  <2>4. r \in Int /\ r + 1 - 1 = r /\ r + 0 = r
    BY <2>2
  <2>5. WithCount(m, t, r) =
          WithStubs(WithCount(b, t, r), InsertKey(b.g_stubs, b.next_id + 1, t), b.next_id + 1)
    BY <1>1, <2>2 DEF WithStubs, WithCount, Bridge
  <2>6. AddStub(b, t, 0) =
          WithStubs(WithCount(b, t, r), InsertKey(b.g_stubs, b.next_id + 1, t), b.next_id + 1)
    BY <2>4 DEF AddStub
  <2> HIDE DEF m, r
  <2>7. WithCount(h1[e], t, h1[e].referenceCount[t] - 1) = AddStub(b, t, 0)
    <3>1. h1[e] = m
      BY <1>3, <2>3
    <3>2. h1[e].referenceCount[t] = r + 1
      BY <2>3, <3>1, Zenon
    <3>3. h1[e].referenceCount[t] - 1 = r
      BY <2>4, <3>2
    <3> QED
      BY <2>5, <2>6, <3>1, <3>3, Zenon
  <2> QED
    BY <1>3, <2>1, <2>7, Heap2Shape
<1>5. CASE pass_ref = TRUE /\ k = 0
  BY <1>1, <1>3, <1>4, <1>5, Zenon DEF SendNPObject, Posted, StubMessage, h1, h
<1>6. CASE pass_ref = FALSE /\ k = 1
  BY <1>1, <1>2, <1>3, <1>6, Zenon DEF SendNPObject, Posted, StubMessage, h1, h
<1> QED
  BY <1>5, <1>6 DEF Keeps, h

Sent(h, s) == [ok |-> TRUE, heap |-> h, got |-> s]

LEMMA TransferLocalShape ==
    ASSUME NEW e \in Ends, NEW b \in Bridge(e), NEW c \in Bridge(Other(e)), NEW s,
           NEW t \in Local(e), NEW pass_ref, NEW k, Keeps(pass_ref, k)
    PROVE  LET p == FreshProxy(b)
           IN  Transfer(Sent(Heap2(e, b, c), s), e, t, pass_ref) =
                  Sent(Heap2(e, AddStub(b, t, k), AddProxy(c, p)), Append(s, p))
<1> DEFINE f == Other(e)
           p == FreshProxy(b)
           b2 == AddStub(b, t, k)
           m == StubMessage(b)
           h == Heap2(e, b, c)
           h1 == Heap2(e, b2, c)
<1>1. SendNPObject(h, e, t, pass_ref) = Posted(h1, m)
  BY SendLocalShape
<1>2. m.type = "SENDER_OWNED" /\ m.id = b.next_id + 1
  BY DEF Message, StubMessage
<1>3. f \in Ends /\ Other(f) = e
  BY EndFacts
<1>4. h1 = [d \in Ends |-> h1[d]]
  BY DEF Heap2
<1>5. h1[f] = c /\ h1[e] = b2
  BY Heap2Facts
<1> HIDE DEF h, h1, m, f, b2
<1>6. CreateProxy(h1, f, m.id) = Heap2(f, AddProxy(c, [gen |-> gen, id |-> m.id]), b2)
  <2>1. h1[f] \in Bridge(f)
    BY <1>5 DEF f
  <2> QED
    BY <1>3, <1>4, <1>5, <2>1, CreateProxyShape
<1>7. [gen |-> gen, id |-> m.id] = p
  BY <1>2 DEF FreshProxy
<1> HIDE DEF p
<1>8. RecvNPObject(h1, f, m) = Heap2(e, b2, AddProxy(c, p))
  <2>1. RecvNPObject(h1, f, m) = CreateProxy(h1, f, m.id)
    BY <1>2 DEF RecvNPObject
  <2>2. Heap2(f, AddProxy(c, p), b2) = Heap2(e, b2, AddProxy(c, p))
    BY <1>3, Heap2Facts
  <2> QED
    BY <1>6, <1>7, <2>1, <2>2
<1>9. Received(h1, f, m) = p /\ Resolves(h1, f, m)
  BY <1>2, <1>7 DEF Received, Resolves
<1>10. Transfer(Sent(h, s), e, t, pass_ref) = Sent(RecvNPObject(h1, f, m), Append(s, Received(h1, f, m)))
  <2>1. SendNPObject(h, e, t, pass_ref).heap = h1
        /\ SendNPObject(h, e, t, pass_ref).message = m
    BY <1>1 DEF Posted
  <2>2. Sent(h, s).ok = TRUE /\ Sent(h, s).heap = h /\ Sent(h, s).got = s
    BY DEF Sent
  <2> QED
    BY <1>9, <2>1, <2>2, Zenon DEF Transfer, f, Sent
<1> QED
  BY <1>8, <1>9, <1>10 DEF p, b2, f, h

\* A stub and its proxy.
LEMMA LinkWith ==
    ASSUME NEW e \in Ends, NEW b, NEW c, NEW b2, NEW c2, NEW g, LinkOk(e, b, c, g),
           NEW p \in Proxy(e), p.gen = g, NEW n \in Nat, p.id = n + 1, c.next_id = n, c2.next_id = n + 1,
           \A q \in Proxy(e) : b2.referenceCount[q] > 0 <=> q = p \/ b.referenceCount[q] > 0,
           IsWith(b2.is_valid, b.is_valid, p), b2.crossed = b.crossed,
           IsWith(DOMAIN c2.g_stubs, DOMAIN c.g_stubs, n + 1)
    PROVE  LinkOk(e, b2, c2, g)
<1>1. ASSUME NEW q \in Proxy(e), b2.referenceCount[q] > 0, q.gen = g
      PROVE  q.id <= c2.next_id
  <2>1. CASE q = p
    BY <2>1
  <2>2. CASE q # p
    <3>1. q.id <= n /\ q.id \in Nat
      BY <1>1, <2>2, ProxyFacts DEF LinkOk
    <3> QED
      BY <3>1
  <2> QED
    BY <2>1, <2>2
<1>2. ASSUME NEW q \in b2.is_valid \ b2.crossed
      PROVE  q.id \in DOMAIN c2.g_stubs
  <2>1. CASE q = p
    BY <2>1 DEF IsWith
  <2>2. CASE q # p
    BY <1>2, <2>2 DEF LinkOk, IsWith
  <2> QED
    BY <2>1, <2>2
<1>3. ASSUME g = 1, NEW id \in DOMAIN c2.g_stubs
      PROVE  \E q \in b2.is_valid : q.id = id
  <2>1. CASE id = n + 1
    BY <2>1 DEF IsWith
  <2>2. CASE id # n + 1
    <3>1. PICK q \in b.is_valid : q.id = id
      BY <1>3, <2>2 DEF LinkOk, IsWith
    <3> QED
      BY <3>1 DEF IsWith
  <2> QED
    BY <2>1, <2>2
<1> QED
  BY <1>1, <1>2, <1>3 DEF LinkOk

\* More stubs were made, none of them is gone.
LEMMA LinkLater ==
    ASSUME NEW e \in Ends, NEW b, NEW c, NEW b2, NEW c2, NEW g, LinkOk(e, b, c, g),
           \A q \in Proxy(e) : b2.referenceCount[q] > 0 => b.referenceCount[q] > 0,
           b2.is_valid = b.is_valid, b2.crossed = b.crossed, c2.next_id = c.next_id,
           c2.g_stubs = c.g_stubs
    PROVE  LinkOk(e, b2, c2, g)
  BY LinkKept

LEMMA TransferLocalWorld ==
    ASSUME NEW e \in Ends, NEW b, NEW c, NEW s, NEW x, NEW y,
           World(Heap2(e, b, c), x, gen, "up"), gen \in 1..MaxGen,
           NEW t \in Local(e), NEW pass_ref, NEW k \in Nat, Keeps(pass_ref, k), b.next_id < MaxId(e),
           NEW j, j = k - 1, Adds(e, y[e], x[e], t, j), Nats(e, y[e]),
           Adds(Other(e), y[Other(e)], x[Other(e)], FreshProxy(b), 1)
    PROVE  LET p == FreshProxy(b)
               b2 == AddStub(b, t, k)
               h2 == Heap2(e, b2, AddProxy(c, p))
           IN  /\ p \in Objects(Other(e))
               /\ Transfer(Sent(Heap2(e, b, c), s), e, t, pass_ref) = Sent(h2, Append(s, p))
               /\ World(h2, y, gen, "up")
               /\ b2.owned = b.owned /\ b2.next_id = b.next_id + 1
<1> DEFINE f == Other(e)
           p == FreshProxy(b)
           b2 == AddStub(b, t, k)
           c2 == AddProxy(c, p)
           n == b.next_id
<1>1. /\ Nats(e, x[e]) /\ BridgeOk(e, b, x[e], gen) /\ b \in Bridge(e)
      /\ f \in Ends /\ Other(f) = e /\ BridgeOk(f, c, x[f], gen) /\ Nats(f, x[f]) /\ c \in Bridge(f)
      /\ LinkOk(e, b, c, gen) /\ LinkOk(f, c, b, gen)
  BY PairParts
<1>2. n \in Nat /\ n + 1 \in Ids(e)
  BY <1>1, BridgeFields, EndFacts DEF Ids
<1>3. p \in Proxy(f) /\ p.gen = gen /\ p.id = n + 1 /\ p \in Objects(f)
  <2>1. p.gen = gen /\ p.id = n + 1
    BY DEF FreshProxy
  <2>2. p \in Proxy(f)
    BY <1>1, <1>2 DEF FreshProxy, Proxy
  <2> QED
    BY <1>1, <2>1, <2>2, ProxyFacts
<1>4. c.referenceCount[p] = 0
  <2>1. c.referenceCount[p] \in Nat
    BY <1>1, <1>3, CountsCover
  <2>2. c.referenceCount[p] > 0 => n + 1 <= n
    BY <1>1, <1>3 DEF LinkOk
  <2> QED
    BY <1>2, <2>1, <2>2
<1>5. Transfer(Sent(Heap2(e, b, c), s), e, t, pass_ref) = Sent(Heap2(e, b2, c2), Append(s, p))
  BY <1>1, TransferLocalShape
<1>6. /\ BridgeOk(e, b2, y[e], gen)
      /\ b2.next_id = n + 1 /\ b2.owned = b.owned
      /\ IsWith(DOMAIN b2.g_stubs, DOMAIN b.g_stubs, n + 1)
      /\ b2.is_valid = b.is_valid /\ b2.crossed = b.crossed
      /\ \A q \in Proxy(e) : b2.referenceCount[q] = b.referenceCount[q]
  <2>1. BridgeOk(e, b, x[e], gen) /\ Nats(e, x[e]) /\ n = b.next_id
    BY <1>1
  <2>2. BridgeOk(e, b2, y[e], gen) /\ StubAdded(e, b, b2)
    BY <2>1, AddStubStep
  <2> HIDE DEF b2
  <2> QED
    BY <2>2 DEF StubAdded
<1> HIDE DEF p, n
<1>7. /\ BridgeOk(f, c2, y[f], gen)
      /\ c2.g_stubs = c.g_stubs /\ c2.next_id = c.next_id
      /\ IsWith(c2.is_valid, c.is_valid, p) /\ c2.crossed = c.crossed
      /\ \A q \in Proxy(f) : c2.referenceCount[q] > 0 <=> q = p \/ c.referenceCount[q] > 0
  <2>1. BridgeOk(f, c2, y[f], gen) /\ ProxyAdded(f, c, c2, p)
    <3>1. BridgeOk(f, c, x[f], gen) /\ Nats(f, x[f]) /\ f \in Ends
      BY <1>1
    <3>2. p \in Proxy(f) /\ p.gen = gen /\ c.referenceCount[p] = 0 /\ Adds(f, y[f], x[f], p, 1)
      BY <1>3, <1>4 DEF p
    <3> HIDE DEF f
    <3> QED
      BY <3>1, <3>2, AddProxyStep
  <2> HIDE DEF c2
  <2> QED
    BY <2>1 DEF ProxyAdded
<1> HIDE DEF c2, b2
<1>8. LinkOk(f, c2, b2, gen)
  <2>1. b.next_id = n
    BY DEF n
  <2> QED
    BY <1>1, <1>2, <1>3, <1>6, <1>7, <2>1, LinkWith
<1>9. LinkOk(e, b2, c2, gen)
  <2>1. \A q \in Proxy(e) : b2.referenceCount[q] > 0 => b.referenceCount[q] > 0
    BY <1>6
  <2> QED
    BY <1>1, <1>6, <1>7, <2>1, LinkLater
<1>10. Nats(f, y[f])
  <2> SUFFICES ASSUME NEW q \in Objects(f) PROVE y[f][q] \in Nat
    BY DEF Nats
  <2>1. x[f][q] \in Nat
    BY <1>1 DEF Nats
  <2>2. y[f][q] = x[f][q] + (IF q = p THEN 1 ELSE 0)
    BY DEF Adds, p
  <2> QED
    BY <2>1, <2>2
<1>11. World(Heap2(e, b2, c2), y, gen, "up")
  BY <1>1, <1>6, <1>7, <1>8, <1>9, <1>10, WorldFromParts
<1> QED
  BY <1>3, <1>5, <1>6, <1>11 DEF n, p, b2, c2

\* A proxy is sent: with its last reference it is destroyed, and the stub as well.
IsLast(b, t, pass_ref) == pass_ref = TRUE /\ b.referenceCount[t] = 1
SentProxy(b, t, pass_ref) ==
    IF pass_ref = FALSE THEN b
    ELSE IF b.referenceCount[t] = 1 THEN DropProxy(b, t)
    ELSE WithCount(b, t, b.referenceCount[t] - 1)
StubOfProxy(c, id, last) ==
    IF last THEN DropStub(c, id, 1)
    ELSE WithCount(c, c.g_stubs[id], c.referenceCount[c.g_stubs[id]] + 1)
ProxyMessage(b, t, pass_ref) == Message("RECEIVER_OWNED", t.id, IsLast(b, t, pass_ref))

LEMMA SendProxyShape ==
    ASSUME NEW e \in Ends, NEW b \in Bridge(e), NEW c, NEW t \in Proxy(e),
           NEW pass_ref, NEW k, Keeps(pass_ref, k)
    PROVE  SendNPObject(Heap2(e, b, c), e, t, pass_ref) =
              Posted(Heap2(e, SentProxy(b, t, pass_ref), c), ProxyMessage(b, t, pass_ref))
<1> DEFINE h == Heap2(e, b, c)
<1>0. h = [d \in Ends |-> h[d]] /\ h[e] = b /\ h[Other(e)] = c
  <2>1. h = [d \in Ends |-> h[d]]
    BY DEF Heap2
  <2>2. h[e] = b /\ h[Other(e)] = c
    BY Heap2Facts
  <2> QED
    BY <2>1, <2>2
<1>h. h = Heap2(e, b, c)
  OBVIOUS
<1> HIDE DEF h
<1>1. npobject_is_proxy(e, t) /\ npobject_get_proxy_id(t) = t.id
  BY ProxyFacts DEF npobject_is_proxy, npobject_get_proxy_id
<1>2. DestroyProxy(h, e, t, FALSE) = Heap2(e, DropProxy(b, t), c)
  BY <1>0, DestroyProxyShape
<1>3. b.referenceCount[t] # 1 =>
         ReleaseObject(h, e, t) = Heap2(e, WithCount(b, t, b.referenceCount[t] - 1), c)
  <2> SUFFICES ASSUME b.referenceCount[t] # 1
               PROVE  ReleaseObject(h, e, t) = Heap2(e, WithCount(b, t, b.referenceCount[t] - 1), c)
    OBVIOUS
  <2>1. ReleaseObject(h, e, t) = [h EXCEPT ![e] = WithCount(h[e], t, h[e].referenceCount[t] - 1)]
    BY <1>0 DEF ReleaseObject, WithCount
  <2> QED
    BY <1>0, <2>1, Heap2Shape
<1> DEFINE m == ProxyMessage(b, t, pass_ref)
<1>4. CASE pass_ref = FALSE
  <2>1. m = Message("RECEIVER_OWNED", t.id, FALSE)
    BY <1>4 DEF ProxyMessage, IsLast
  <2>2. SendNPObject(h, e, t, pass_ref) = [heap |-> h, message |-> m]
    BY <1>0, <1>1, <1>4, <2>1, Zenon DEF SendNPObject
  <2>3. SentProxy(b, t, pass_ref) = b
    BY <1>4 DEF SentProxy
  <2> QED
    BY <1>h, <2>2, <2>3, Zenon DEF Posted
<1>5. CASE pass_ref = TRUE /\ b.referenceCount[t] = 1
  <2>1. m = Message("RECEIVER_OWNED", t.id, TRUE)
    BY <1>5 DEF ProxyMessage, IsLast
  <2>2. SendNPObject(h, e, t, pass_ref) = [heap |-> DestroyProxy(h, e, t, FALSE), message |-> m]
    BY <1>0, <1>1, <1>5, <2>1, Zenon DEF SendNPObject
  <2>3. SentProxy(b, t, pass_ref) = DropProxy(b, t)
    BY <1>5 DEF SentProxy
  <2> QED
    BY <1>h, <1>2, <2>2, <2>3, Zenon DEF Posted
<1>6. CASE pass_ref = TRUE /\ b.referenceCount[t] # 1
  <2>1. m = Message("RECEIVER_OWNED", t.id, FALSE)
    BY <1>6 DEF ProxyMessage, IsLast
  <2>2. SendNPObject(h, e, t, pass_ref) = [heap |-> ReleaseObject(h, e, t), message |-> m]
    BY <1>0, <1>1, <1>6, <2>1, Zenon DEF SendNPObject
  <2>3. SentProxy(b, t, pass_ref) = WithCount(b, t, b.referenceCount[t] - 1)
    BY <1>6 DEF SentProxy
  <2> QED
    BY <1>h, <1>3, <1>6, <2>2, <2>3, Zenon DEF Posted
<1> QED
  BY <1>4, <1>5, <1>6 DEF Keeps

LEMMA RecvStubShape ==
    ASSUME NEW e \in Ends, NEW b, NEW c \in Bridge(Other(e)), NEW m, m.type = "RECEIVER_OWNED",
           m.id \in DOMAIN c.g_stubs
    PROVE  RecvNPObject(Heap2(e, b, c), Other(e), m) =
              Heap2(e, b, StubOfProxy(c, m.id, m.release_stub))
<1> DEFINE f == Other(e)
           h == Heap2(e, b, c)
           id == m.id
           o == c.g_stubs[id]
           r == c.referenceCount[o]
           d == WithCount(c, o, r + 1)
           h1 == RetainObject(h, f, o)
<1>1. f \in Ends /\ Other(f) = e
  BY EndFacts
<1>2. h = [i \in Ends |-> h[i]] /\ h[e] = b /\ h[f] = c
  <2>1. h = [i \in Ends |-> h[i]]
    BY DEF Heap2
  <2>2. h[e] = b /\ h[f] = c
    BY Heap2Facts
  <2> QED
    BY <2>1, <2>2
<1>h. h = Heap2(e, b, c)
  OBVIOUS
<1> HIDE DEF h, f
<1>3. o \in Objects(f) /\ c \in Bridge(f)
  <2>1. c \in Bridge(f)
    BY DEF f
  <2>2. o \in Local(f)
    BY <1>1, <2>1, BridgeFields, TableFacts
  <2> QED
    BY <1>1, <2>1, <2>2, ProxyFacts
<1>4. r \in Int /\ r + 1 \in Int /\ c.referenceCount \in [Objects(f) -> Int]
  BY <1>1, <1>3, BridgeFields
<1>5. h1 = Heap2(f, d, b)
  BY <1>1, <1>2, <1>3, RetainShape
<1>6. d \in Bridge(f) /\ d.g_stubs = c.g_stubs /\ d.next_id = c.next_id /\ d.referenceCount[o] = r + 1
  BY <1>1, <1>3, <1>4, SetCount DEF SameTables
<1>7. WithCount(d, o, r) = WithCount(c, o, r)
  BY <1>3, <1>4 DEF WithCount, Bridge
<1>8. DropStub(d, id, 0) = DropStub(c, id, 1)
  <2>1. d.referenceCount[d.g_stubs[id]] - 1 + 0 = r /\ c.referenceCount[c.g_stubs[id]] - 1 + 1 = r
    <3>1. d.referenceCount[d.g_stubs[id]] = r + 1
      BY <1>6
    <3> HIDE DEF d, r
    <3> QED
      BY <1>4, <3>1 DEF r
  <2>2. DropStub(d, id, 0) = WithStubs(WithCount(d, o, r), RemoveKey(c.g_stubs, id), c.next_id)
    BY <1>6, <2>1 DEF DropStub
  <2>3. DropStub(c, id, 1) = WithStubs(WithCount(c, o, r), RemoveKey(c.g_stubs, id), c.next_id)
    BY <2>1 DEF DropStub
  <2> HIDE DEF d, r, o
  <2> QED
    BY <1>7, <2>2, <2>3
<1> HIDE DEF d, h1
<1>9. DestroyStub(h1, f, id) = Heap2(f, DropStub(d, id, 0), b)
  <2>1. h1 = [i \in Ends |-> h1[i]]
    BY <1>5 DEF Heap2
  <2>2. h1[f] = d /\ h1[Other(f)] = b
    BY <1>1, <1>5, Heap2Facts
  <2>3. id \in DOMAIN d.g_stubs
    BY <1>6
  <2> QED
    BY <1>1, <1>6, <2>1, <2>2, <2>3, DestroyStubShape
<1>10. RecvNPObject(h, f, m) = IF m.release_stub THEN DestroyStub(h1, f, id) ELSE h1
  BY <1>2 DEF RecvNPObject, h1
<1>11. \A k : Heap2(f, k, b) = Heap2(e, b, k)
  BY <1>1, Heap2Facts
<1>12. CASE m.release_stub
  <2>1. RecvNPObject(h, f, m) = Heap2(e, b, DropStub(c, id, 1))
    BY <1>8, <1>9, <1>10, <1>11, <1>12
  <2>2. StubOfProxy(c, m.id, m.release_stub) = DropStub(c, id, 1)
    BY <1>12 DEF StubOfProxy
  <2> QED
    BY <1>h, <2>1, <2>2 DEF f
<1>13. CASE ~m.release_stub
  <2>1. RecvNPObject(h, f, m) = Heap2(e, b, d)
    BY <1>5, <1>10, <1>11, <1>13
  <2>2. StubOfProxy(c, m.id, m.release_stub) = d
    BY <1>13 DEF StubOfProxy, d
  <2> QED
    BY <1>h, <2>1, <2>2 DEF f
<1> QED
  BY <1>12, <1>13

NotSent(h, s) == [ok |-> FALSE, heap |-> h, got |-> s]

LEMMA TransferProxyShape ==
    ASSUME NEW e \in Ends, NEW b \in Bridge(e), NEW c \in Bridge(Other(e)), NEW s,
           NEW t \in Proxy(e), NEW pass_ref, NEW k, Keeps(pass_ref, k)
    PROVE  LET b2 == SentProxy(b, t, pass_ref)
               c2 == StubOfProxy(c, t.id, IsLast(b, t, pass_ref))
               r == Transfer(Sent(Heap2(e, b, c), s), e, t, pass_ref)
           IN  /\ t.id \in DOMAIN c.g_stubs =>
                     r = Sent(Heap2(e, b2, c2), Append(s, c.g_stubs[t.id]))
               /\ t.id \notin DOMAIN c.g_stubs => r = NotSent(Heap2(e, b2, c), s)
<1> DEFINE f == Other(e)
           b2 == SentProxy(b, t, pass_ref)
           m == ProxyMessage(b, t, pass_ref)
           c2 == StubOfProxy(c, m.id, m.release_stub)
           h == Heap2(e, b, c)
           h1 == Heap2(e, b2, c)
<1>1. SendNPObject(h, e, t, pass_ref) = Posted(h1, m)
  BY SendProxyShape
<1>2. m.type = "RECEIVER_OWNED" /\ m.id = t.id /\ m.release_stub = IsLast(b, t, pass_ref)
  BY DEF Message, ProxyMessage
<1>3. h1[f] = c
  BY Heap2Facts
<1>4. m.id \in DOMAIN c.g_stubs => RecvNPObject(h1, f, m) = Heap2(e, b2, c2)
  <2> HIDE DEF m, b2
  <2> QED
    BY <1>2, RecvStubShape
<1> HIDE DEF h, h1, m, f, b2
<1>5. SendNPObject(h, e, t, pass_ref).heap = h1 /\ SendNPObject(h, e, t, pass_ref).message = m
  BY <1>1 DEF Posted
<1>6. Sent(h, s).ok = TRUE /\ Sent(h, s).heap = h /\ Sent(h, s).got = s
  BY DEF Sent
<1>7. Resolves(h1, f, m) <=> t.id \in DOMAIN c.g_stubs
  BY <1>2, <1>3 DEF Resolves
<1>8. Received(h1, f, m) = c.g_stubs[t.id]
  BY <1>2, <1>3 DEF Received
<1>9. ASSUME t.id \in DOMAIN c.g_stubs
      PROVE  Transfer(Sent(h, s), e, t, pass_ref) = Sent(Heap2(e, b2, c2), Append(s, c.g_stubs[t.id]))
  <2>1. RecvNPObject(h1, f, m) = Heap2(e, b2, c2)
    BY <1>2, <1>4, <1>9
  <2>2. Transfer(Sent(h, s), e, t, pass_ref) = Sent(RecvNPObject(h1, f, m), Append(s, Received(h1, f, m)))
    BY <1>5, <1>6, <1>7, <1>9, Zenon DEF Transfer, f, Sent
  <2> QED
    BY <1>8, <2>1, <2>2
<1>10. ASSUME t.id \notin DOMAIN c.g_stubs
       PROVE  Transfer(Sent(h, s), e, t, pass_ref) = NotSent(h1, s)
  <2>1. Transfer(Sent(h, s), e, t, pass_ref) = [Sent(h, s) EXCEPT !.ok = FALSE, !.heap = h1]
    BY <1>5, <1>6, <1>7, <1>10, Zenon DEF Transfer, f
  <2> QED
    BY <2>1 DEF Sent, NotSent
<1>11. c2 = StubOfProxy(c, t.id, IsLast(b, t, pass_ref))
  BY <1>2, Zenon
<1> HIDE DEF c2
<1>12. h = Heap2(e, b, c) /\ h1 = Heap2(e, b2, c)
  BY DEF h, h1
<1> QED
  BY <1>9, <1>10, <1>11, <1>12 DEF b2

\* The sender's end, when a proxy is passed on.
LEMMA SentProxyStep ==
    ASSUME NEW e \in Ends, NEW b, NEW x, NEW y, NEW g, BridgeOk(e, b, x, g), Nats(e, x),
           NEW t \in Proxy(e), NEW pass_ref, NEW k, Keeps(pass_ref, k),
           NEW j, j = k - 1, Adds(e, y, x, t, j), Nats(e, y)
    PROVE  LET c == SentProxy(b, t, pass_ref)
           IN  /\ BridgeOk(e, c, y, g)
               /\ c.g_stubs = b.g_stubs /\ c.next_id = b.next_id /\ c.owned = b.owned
               /\ IF IsLast(b, t, pass_ref)
                  THEN IsWithout(c.is_valid, b.is_valid, t) /\ c.crossed = b.crossed \cup Namesakes(b, t)
                  ELSE c.is_valid = b.is_valid /\ c.crossed = b.crossed
               /\ \A q \in Proxy(e) : c.referenceCount[q] > 0 => b.referenceCount[q] > 0
<1> DEFINE c == SentProxy(b, t, pass_ref)
<1>1. t \in Objects(e) /\ b \in Bridge(e)
  BY ProxyFacts, BridgeParts
<1>2. CASE pass_ref = FALSE /\ k = 1
  <2>1. c = b /\ IsLast(b, t, pass_ref) = FALSE
    BY <1>2 DEF SentProxy, IsLast
  <2>2. \A q \in Objects(e) : y[q] = x[q]
    <3> SUFFICES ASSUME NEW q \in Objects(e) PROVE y[q] = x[q]
      OBVIOUS
    <3>1. y[q] = x[q] + (IF q = t THEN j ELSE 0) /\ x[q] \in Nat
      BY DEF Adds, Nats
    <3>2. j = 0
      BY <1>2
    <3> QED
      BY <3>1, <3>2
  <2>3. BridgeOk(e, b, y, g)
    BY <2>2, SameCounts
  <2> HIDE DEF c
  <2> QED
    BY <2>1, <2>3 DEF c
<1>3. ASSUME pass_ref = TRUE, k = 0 PROVE Adds(e, y, x, t, -1) /\ x[t] >= 1 /\ x[t] \in Nat
  <2>1. j = -1
    BY <1>3
  <2>2. y[t] = x[t] + j /\ y[t] \in Nat /\ x[t] \in Nat
    BY <1>1 DEF Adds, Nats
  <2> QED
    BY <2>1, <2>2
<1>4. CASE pass_ref = TRUE /\ k = 0 /\ b.referenceCount[t] = 1
  <2>1. c = DropProxy(b, t) /\ IsLast(b, t, pass_ref) = TRUE
    BY <1>4 DEF SentProxy, IsLast
  <2>2. Adds(e, y, x, t, -1) /\ x[t] >= 1 /\ b.referenceCount[t] = 1
    BY <1>3, <1>4
  <2>3. BridgeOk(e, DropProxy(b, t), y, g) /\ ProxyDropped(e, b, DropProxy(b, t), t)
    BY <2>2, DropProxyStep
  <2> HIDE DEF c
  <2>4. BridgeOk(e, c, y, g) /\ ProxyDropped(e, b, c, t)
    BY <2>1, <2>3
  <2> QED
    BY <2>1, <2>4 DEF ProxyDropped, c
<1>5. CASE pass_ref = TRUE /\ k = 0 /\ b.referenceCount[t] # 1
  <2>1. b.referenceCount[t] \in Nat /\ b.referenceCount[t] > 1
    <3>1. b.referenceCount[t] \in Nat /\ b.owned[t] \in Nat /\ b.referenceCount[t] >= b.owned[t] + x[t]
      BY <1>1, CountsCover
    <3>2. x[t] >= 1 /\ x[t] \in Nat
      BY <1>3, <1>5
    <3> QED
      BY <1>5, <3>1, <3>2
  <2> DEFINE r == b.referenceCount[t]
  <2>2. c = WithCount(b, t, r + (-1)) /\ IsLast(b, t, pass_ref) = FALSE
    <3>1. r + (-1) = r - 1
      BY <2>1
    <3> QED
      BY <1>5, <3>1 DEF SentProxy, IsLast
  <2>3. /\ BridgeOk(e, WithCount(b, t, r + (-1)), y, g) /\ SameTables(WithCount(b, t, r + (-1)), b)
        /\ WithCount(b, t, r + (-1)).owned = b.owned
        /\ \A p \in Proxy(e) : WithCount(b, t, r + (-1)).referenceCount[p] > 0 <=> b.referenceCount[p] > 0
    <3>1. -1 \in {-1, 1} /\ r > 0 /\ r + (-1) > 0
      BY <2>1
    <3>2. Adds(e, y, x, t, -1)
      BY <1>3, <1>5
    <3> QED
      BY <1>1, <3>1, <3>2, CountStep
  <2> HIDE DEF c
  <2> QED
    BY <2>2, <2>3 DEF SameTables, c
<1> QED
  BY <1>2, <1>4, <1>5 DEF Keeps

StubUsed(e, b, c, id, last) ==
    /\ c.next_id = b.next_id
    /\ c.is_valid = b.is_valid /\ c.crossed = b.crossed
    /\ IF last THEN IsWithout(DOMAIN c.g_stubs, DOMAIN b.g_stubs, id)
       ELSE DOMAIN c.g_stubs = DOMAIN b.g_stubs
    /\ \A p \in Proxy(e) : c.referenceCount[p] > 0 => b.referenceCount[p] > 0

\* The receiver's end.
LEMMA StubOfProxyStep ==
    ASSUME NEW e \in Ends, NEW b, NEW x, NEW y, NEW g, BridgeOk(e, b, x, g), Nats(e, x),
           NEW id \in DOMAIN b.g_stubs, NEW last, Adds(e, y, x, b.g_stubs[id], 1)
    PROVE  BridgeOk(e, StubOfProxy(b, id, last), y, g) /\ StubUsed(e, b, StubOfProxy(b, id, last), id, last)
<1> DEFINE o == b.g_stubs[id]
           r == b.referenceCount[o]
<1>1. o \in Objects(e) /\ o \notin Proxy(e) /\ b \in Bridge(e)
  <2>1. o \in Local(e) /\ b \in Bridge(e)
    BY BridgeParts, BridgeFields, TableFacts
  <2> QED
    BY <2>1, ProxyFacts
<1>2. CASE last
  <2>1. StubOfProxy(b, id, last) = DropStub(b, id, 1)
    BY <1>2 DEF StubOfProxy
  <2>2. BridgeOk(e, DropStub(b, id, 1), y, g) /\ StubDropped(e, b, DropStub(b, id, 1), id)
    <3>1. 1 \in Nat
      OBVIOUS
    <3> QED
      BY <3>1, DropStubStep
  <2>3. StubUsed(e, b, DropStub(b, id, 1), id, last)
    BY <1>2, <2>2 DEF StubUsed, StubDropped
  <2> QED
    BY <2>1, <2>2, <2>3
<1>3. CASE ~last
  <2> DEFINE c == WithCount(b, o, r + 1)
  <2>1. StubOfProxy(b, id, last) = c
    BY <1>3 DEF StubOfProxy
  <2>2. /\ BridgeOk(e, c, y, g) /\ SameTables(c, b)
        /\ \A p \in Proxy(e) : c.referenceCount[p] > 0 <=> b.referenceCount[p] > 0
    <3>1. 1 \in {-1, 1} /\ Adds(e, y, x, o, 1)
      OBVIOUS
    <3> HIDE DEF o
    <3> QED
      BY <1>1, <3>1, CountStep
  <2> HIDE DEF c
  <2>3. StubUsed(e, b, c, id, last)
    BY <1>3, <2>2 DEF StubUsed, SameTables
  <2> QED
    BY <2>1, <2>2, <2>3
<1> QED
  BY <1>2, <1>3

\* What a transfer comes to.
ComesTo(r, result) == r = result

LEMMA TransferProxyWorld ==
    ASSUME NEW e \in Ends, NEW b, NEW c, NEW s, NEW x, NEW y,
           World(Heap2(e, b, c), x, gen, "up"), gen \in 1..MaxGen,
           NEW t \in Proxy(e), NEW pass_ref, NEW k \in Nat, Keeps(pass_ref, k),
           b.referenceCount[t] > 0,
           NEW j, j = k - 1, Adds(e, y[e], x[e], t, j), Nats(e, y[e]),
           t.id \in DOMAIN c.g_stubs, Adds(Other(e), y[Other(e)], x[Other(e)], c.g_stubs[t.id], 1)
    PROVE  LET o == c.g_stubs[t.id]
               b2 == SentProxy(b, t, pass_ref)
               h2 == Heap2(e, b2, StubOfProxy(c, t.id, IsLast(b, t, pass_ref)))
           IN  /\ o \in Objects(Other(e))
               /\ ComesTo(Transfer(Sent(Heap2(e, b, c), s), e, t, pass_ref), Sent(h2, Append(s, o)))
               /\ World(h2, y, gen, "up")
               /\ b2.owned = b.owned /\ b2.next_id = b.next_id
<1> DEFINE f == Other(e)
           o == c.g_stubs[t.id]
           last == IsLast(b, t, pass_ref)
           b2 == SentProxy(b, t, pass_ref)
           c2 == StubOfProxy(c, t.id, last)
<1>1. /\ Nats(e, x[e]) /\ BridgeOk(e, b, x[e], gen) /\ b \in Bridge(e)
      /\ f \in Ends /\ Other(f) = e /\ BridgeOk(f, c, x[f], gen) /\ Nats(f, x[f]) /\ c \in Bridge(f)
      /\ LinkOk(e, b, c, gen) /\ LinkOk(f, c, b, gen)
  BY PairParts
<1>2. o \in Objects(f)
  <2>1. o \in Local(f)
    BY <1>1, BridgeFields, TableFacts
  <2> QED
    BY <1>1, <2>1, ProxyFacts
<1>3. Transfer(Sent(Heap2(e, b, c), s), e, t, pass_ref) = Sent(Heap2(e, b2, c2), Append(s, o))
  BY <1>1, TransferProxyShape
<1>4. /\ BridgeOk(e, b2, y[e], gen)
      /\ b2.g_stubs = b.g_stubs /\ b2.next_id = b.next_id /\ b2.owned = b.owned
      /\ IF last THEN IsWithout(b2.is_valid, b.is_valid, t) /\ b2.crossed = b.crossed \cup Namesakes(b, t)
         ELSE b2.is_valid = b.is_valid /\ b2.crossed = b.crossed
      /\ \A q \in Proxy(e) : b2.referenceCount[q] > 0 => b.referenceCount[q] > 0
  <2>1. BridgeOk(e, b, x[e], gen) /\ Nats(e, x[e])
    BY <1>1
  <2> QED
    BY <2>1, SentProxyStep
<1>5. BridgeOk(f, c2, y[f], gen) /\ StubUsed(f, c, c2, t.id, last)
  <2>1. BridgeOk(f, c, x[f], gen) /\ Nats(f, x[f]) /\ f \in Ends /\ t.id \in DOMAIN c.g_stubs
        /\ Adds(f, y[f], x[f], c.g_stubs[t.id], 1)
    BY <1>1
  <2> HIDE DEF f, last
  <2> QED
    BY <2>1, StubOfProxyStep
<1> HIDE DEF b2, c2, last
<1>6. /\ c2.next_id = c.next_id /\ c2.is_valid = c.is_valid /\ c2.crossed = c.crossed
      /\ IF last THEN IsWithout(DOMAIN c2.g_stubs, DOMAIN c.g_stubs, t.id)
         ELSE DOMAIN c2.g_stubs = DOMAIN c.g_stubs
      /\ \A p \in Proxy(f) : c2.referenceCount[p] > 0 => c.referenceCount[p] > 0
  BY <1>5 DEF StubUsed
<1>7. LinkOk(f, c2, b2, gen)
  <2>1. DOMAIN b2.g_stubs = DOMAIN b.g_stubs
    BY <1>4
  <2> QED
    BY <1>1, <1>4, <1>6, <2>1, LinkKept
<1>8. LinkOk(e, b2, c2, gen)
  <2>1. CASE ~last
    BY <1>1, <1>4, <1>6, <2>1, LinkKept
  <2>2. CASE last
    BY <1>1, <1>4, <1>6, <2>2, LinkWithoutBoth
  <2> QED
    BY <2>1, <2>2
<1>9. Nats(f, y[f])
  <2> SUFFICES ASSUME NEW q \in Objects(f) PROVE y[f][q] \in Nat
    BY DEF Nats
  <2>1. x[f][q] \in Nat
    BY <1>1 DEF Nats
  <2>2. y[f][q] = x[f][q] + (IF q = o THEN 1 ELSE 0)
    BY DEF Adds
  <2> QED
    BY <2>1, <2>2
<1>10. World(Heap2(e, b2, c2), y, gen, "up")
  BY <1>1, <1>4, <1>5, <1>7, <1>8, <1>9, WorldFromParts
<1> QED
  BY <1>2, <1>3, <1>4, <1>10 DEF b2, c2, last, ComesTo

\* The stub is not found: only of a proxy of the browser.
LEMMA TransferAborts ==
    ASSUME NEW e \in Ends, NEW b, NEW c, NEW s, NEW x, NEW y,
           World(Heap2(e, b, c), x, gen, "up"), gen \in 1..MaxGen,
           NEW t \in Proxy(e), NEW pass_ref, NEW k \in Nat, Keeps(pass_ref, k),
           b.referenceCount[t] > 0,
           NEW j, j = k - 1, Adds(e, y[e], x[e], t, j), Nats(e, y[e]),
           t.id \notin DOMAIN c.g_stubs
    PROVE  LET b2 == SentProxy(b, t, pass_ref)
           IN  /\ ComesTo(Transfer(Sent(Heap2(e, b, c), s), e, t, pass_ref), NotSent(Heap2(e, b2, c), s))
               /\ e = "wrapper" /\ BridgeOk(e, b2, y[e], gen) /\ b2.next_id = b.next_id
<1> DEFINE f == Other(e)
           b2 == SentProxy(b, t, pass_ref)
<1>1. /\ Nats(e, x[e]) /\ BridgeOk(e, b, x[e], gen) /\ b \in Bridge(e) /\ c \in Bridge(f)
      /\ LinkOk(e, b, c, gen)
  BY PairParts
<1>2. Transfer(Sent(Heap2(e, b, c), s), e, t, pass_ref) = NotSent(Heap2(e, b2, c), s)
  BY <1>1, TransferProxyShape
<1>3. BridgeOk(e, b2, y[e], gen) /\ b2.next_id = b.next_id
  BY <1>1, SentProxyStep
<1>4. e = "wrapper"
  <2> SUFFICES ASSUME e = "viewer" PROVE FALSE
    BY DEF Ends
  <2>1. t \in b.is_valid /\ b.crossed = {}
    BY <1>1 DEF BridgeOk
  <2> QED
    BY <1>1, <2>1 DEF LinkOk
<1> QED
  BY <1>2, <1>3, <1>4 DEF ComesTo

\* One object passed by e, y the references to its objects then: o came of it.
Passed(e, x, y, o) ==
    [d \in Ends |-> IF d = e THEN y ELSE [u \in Objects(d) |-> x[d][u] + One(o, u)]]

Stubs(e, t) == IF t \in Local(e) THEN 1 ELSE 0

\* The sender's end after that.
SenderAfter(e, b, b2, t, pass_ref) ==
    /\ b2.owned = b.owned /\ b2.next_id = b.next_id + Stubs(e, t)
    /\ pass_ref = FALSE => /\ b2.is_valid = b.is_valid
                           /\ \A p \in Proxy(e) : b2.referenceCount[p] = b.referenceCount[p]

Arrived(e, b2, x, y, s, r) ==
    \E c2 : \E o \in Objects(Other(e)) :
        r = Sent(Heap2(e, b2, c2), Append(s, o)) /\ World(Heap2(e, b2, c2), Passed(e, x, y, o), gen, "up")
Aborted(e, b2, y, s, r) ==
    \E c2 : r = NotSent(Heap2(e, b2, c2), s) /\ e = "wrapper" /\ BridgeOk(e, b2, y, gen)

Transferred(e, b, x, y, s, t, pass_ref, r) ==
    \E b2 : /\ SenderAfter(e, b, b2, t, pass_ref)
            /\ Arrived(e, b2, x, y, s, r) \/ Aborted(e, b2, y, s, r)

\* What may be sent: a proxy has a reference.  Nobody looks whether it is valid.
Sendable(e, b, t) == t \in Proxy(e) => b.referenceCount[t] > 0

LEMMA PassedIs ==
    ASSUME NEW e \in Ends, NEW x, NEW y, NEW o \in Objects(Other(e))
    PROVE  Passed(e, x, y, o)[e] = y
           /\ Adds(Other(e), Passed(e, x, y, o)[Other(e)], x[Other(e)], o, 1)
<1>1. Other(e) \in Ends /\ Other(e) # e
  BY EndFacts
<1> QED
  BY <1>1 DEF Passed, Adds, One

LEMMA TransferStep ==
    ASSUME NEW e \in Ends, NEW b, NEW c, NEW s, NEW x, NEW y,
           World(Heap2(e, b, c), x, gen, "up"), gen \in 1..MaxGen,
           NEW t \in Objects(e), NEW pass_ref, NEW k \in Nat, Keeps(pass_ref, k),
           Sendable(e, b, t), b.next_id + Stubs(e, t) <= MaxId(e),
           NEW j, j = k - 1, Adds(e, y, x[e], t, j), Nats(e, y)
    PROVE  Transferred(e, b, x, y, s, t, pass_ref, Transfer(Sent(Heap2(e, b, c), s), e, t, pass_ref))
<1> DEFINE f == Other(e)
           r == Transfer(Sent(Heap2(e, b, c), s), e, t, pass_ref)
<1>1. BridgeOk(e, b, x[e], gen) /\ Nats(e, x[e]) /\ b \in Bridge(e) /\ f \in Ends
  BY PairParts
<1>2. CASE t \in Local(e)
  <2> DEFINE o == FreshProxy(b)
             z == Passed(e, x, y, o)
             b2 == AddStub(b, t, k)
             c2 == AddProxy(c, o)
  <2>1. b.next_id < MaxId(e) /\ Stubs(e, t) = 1
    BY <1>1, <1>2, BridgeFields, EndFacts DEF Stubs
  <2>2. o \in Objects(f)
    <3>1. b.next_id + 1 \in Ids(e)
      BY <1>1, <2>1, BridgeFields, EndFacts DEF Ids
    <3>2. Other(f) = e
      BY EndFacts
    <3>3. o \in Proxy(f)
      BY <3>1, <3>2 DEF FreshProxy, Proxy
    <3> QED
      BY <1>1, <3>3, ProxyFacts
  <2>3. z[e] = y /\ Adds(f, z[f], x[f], o, 1)
    BY <2>2, PassedIs
  <2>4. StubAdded(e, b, b2)
    BY <1>1, <1>2, <2>1, AddStubStep
  <2> HIDE DEF z
  <2>5. /\ r = Sent(Heap2(e, b2, c2), Append(s, o))
        /\ World(Heap2(e, b2, c2), z, gen, "up")
    <3>1. Adds(e, z[e], x[e], t, j) /\ Nats(e, z[e]) /\ Adds(Other(e), z[Other(e)], x[Other(e)], FreshProxy(b), 1)
      BY <2>3
    <3> QED
      BY <1>2, <2>1, <3>1, TransferLocalWorld
  <2> HIDE DEF b2, c2, o, r
  <2>6. SenderAfter(e, b, b2, t, pass_ref)
    BY <2>1, <2>4 DEF SenderAfter, StubAdded
  <2>7. Arrived(e, b2, x, y, s, r)
    BY <2>2, <2>5 DEF Arrived, z
  <2> QED
    BY <2>6, <2>7 DEF Transferred, r
<1>3. CASE t \in Proxy(e)
  <2> DEFINE b2 == SentProxy(b, t, pass_ref)
  <2>1. b.referenceCount[t] > 0 /\ Stubs(e, t) = 0
    BY <1>1, <1>3, ProxyFacts DEF Sendable, Stubs
  <2>2. b2.next_id = b.next_id /\ b2.owned = b.owned
    BY <1>1, <1>3, SentProxyStep
  <2>3. SenderAfter(e, b, b2, t, pass_ref)
    <3>1. b.next_id \in Nat
      BY <1>1, BridgeFields, EndFacts
    <3>2. b2.next_id = b.next_id + Stubs(e, t)
      BY <2>1, <2>2, <3>1
    <3>3. pass_ref = FALSE => b2 = b
      BY DEF SentProxy
    <3> HIDE DEF b2
    <3> QED
      BY <2>2, <3>2, <3>3 DEF SenderAfter
  <2>4. CASE t.id \in DOMAIN c.g_stubs
    <3> DEFINE o == c.g_stubs[t.id]
               z == Passed(e, x, y, o)
               c2 == StubOfProxy(c, t.id, IsLast(b, t, pass_ref))
    <3>1. o \in Objects(f)
      <4>1. c \in Bridge(f)
        BY PairParts
      <4>2. o \in Local(f)
        BY <1>1, <2>4, <4>1, BridgeFields, TableFacts
      <4> QED
        BY <1>1, <4>2, ProxyFacts
    <3>2. z[e] = y /\ Adds(f, z[f], x[f], o, 1)
      BY <3>1, PassedIs
    <3> HIDE DEF z
    <3>3. /\ ComesTo(r, Sent(Heap2(e, b2, c2), Append(s, o)))
          /\ World(Heap2(e, b2, c2), z, gen, "up")
      <4>1. Adds(e, z[e], x[e], t, j) /\ Nats(e, z[e])
            /\ Adds(Other(e), z[Other(e)], x[Other(e)], c.g_stubs[t.id], 1)
        BY <3>2
      <4> QED
        BY <1>3, <2>1, <2>4, <4>1, TransferProxyWorld
    <3> HIDE DEF b2, c2, o, r
    <3>4. Arrived(e, b2, x, y, s, r)
      BY <3>1, <3>3 DEF Arrived, z, ComesTo
    <3> QED
      BY <2>3, <3>4 DEF Transferred, r
  <2>5. CASE t.id \notin DOMAIN c.g_stubs
    <3> DEFINE z == [d \in Ends |-> y]
    <3>1. z[e] = y
      OBVIOUS
    <3> HIDE DEF z
    <3>2. /\ ComesTo(r, NotSent(Heap2(e, b2, c), s))
          /\ e = "wrapper" /\ BridgeOk(e, b2, y, gen)
      <4>1. Adds(e, z[e], x[e], t, j) /\ Nats(e, z[e])
        BY <3>1
      <4>2. ComesTo(r, NotSent(Heap2(e, b2, c), s)) /\ e = "wrapper" /\ BridgeOk(e, b2, z[e], gen)
        BY <1>3, <2>1, <2>5, <4>1, TransferAborts
      <4> QED
        BY <3>1, <4>2
    <3> HIDE DEF b2, r
    <3>3. Aborted(e, b2, y, s, r)
      BY <3>2 DEF Aborted, ComesTo
    <3> QED
      BY <2>3, <3>3 DEF Transferred, r
  <2> QED
    BY <2>4, <2>5
<1> QED
  BY <1>2, <1>3, ProxyFacts

-----------------------------------------------------------------------------
(* Argument by argument, frame by frame: the functions that are recursive.   *)

PassArg(acc, e, t) == Transfer(acc, e, t, FALSE)

\* What TransferAll makes of the heaps, argument by argument.
Transfers(g, h, e, args, n) ==
    g = [i \in 0..n |-> IF i = 0 THEN Sent(h, <<>>) ELSE PassArg(g[i - 1], e, args[i])]

LEMMA TransfersExists ==
    ASSUME NEW h, NEW e, NEW args, NEW n \in Nat
    PROVE  \E g : Transfers(g, h, e, args, n)
<1> DEFINE Bad == {m \in Nat : ~ \E g : Transfers(g, h, e, args, m)}
<1> SUFFICES ASSUME Bad # {} PROVE FALSE
  OBVIOUS
<1>1. PICK m \in Bad : \A k \in Bad : m <= k
  BY LeastNumber
<1>2. m # 0
  <2>1. Transfers([i \in 0..0 |-> Sent(h, <<>>)], h, e, args, 0)
    BY DEF Transfers
  <2> QED
    BY <2>1
<1>3. m - 1 \in Nat /\ m - 1 \notin Bad
  BY <1>1, <1>2
<1>4. PICK g : Transfers(g, h, e, args, m - 1)
  BY <1>3
<1> DEFINE l == [i \in 0..m |-> IF i = m THEN PassArg(g[m - 1], e, args[m]) ELSE g[i]]
<1>5. Transfers(l, h, e, args, m)
  <2>1. ASSUME NEW i \in 0..m
        PROVE  l[i] = IF i = 0 THEN Sent(h, <<>>) ELSE PassArg(l[i - 1], e, args[i])
    <3>1. CASE i = m
      BY <1>2, <1>3, <3>1
    <3>2. CASE i # m
      <4>1. i \in 0..(m - 1) /\ l[i] = g[i] /\ (i # 0 => i - 1 \in 0..(m - 1) /\ l[i - 1] = g[i - 1])
        BY <1>3, <3>2
      <4> QED
        BY <1>4, <4>1 DEF Transfers
    <3> QED
      BY <3>1, <3>2
  <2>2. l = [i \in 0..m |-> l[i]]
    OBVIOUS
  <2> HIDE DEF l
  <2> QED
    BY <2>1, <2>2 DEF Transfers
<1> QED
  BY <1>5

LEMMA TransferAllIsLast ==
    ASSUME NEW h, NEW e, NEW args, Len(args) \in Nat
    PROVE  \E g : Transfers(g, h, e, args, Len(args)) /\ TransferAll(h, e, args) = g[Len(args)]
<1> DEFINE g == CHOOSE l : Transfers(l, h, e, args, Len(args))
<1>1. Transfers(g, h, e, args, Len(args))
  BY TransfersExists, Zenon
<1>2. TransferAll(h, e, args) = g[Len(args)]
  BY Zenon DEF TransferAll, Transfers, Sent, PassArg
<1> QED
  BY <1>1, <1>2, Zenon

\* And ReleaseAll.
Releases(g, h, e, args, n) ==
    g = [i \in 0..n |-> IF i = 0 THEN h ELSE ReleaseObject(g[i - 1], e, args[i])]

LEMMA ReleasesExists ==
    ASSUME NEW h, NEW e, NEW args, NEW n \in Nat
    PROVE  \E g : Releases(g, h, e, args, n)
<1> DEFINE Bad == {m \in Nat : ~ \E g : Releases(g, h, e, args, m)}
<1> SUFFICES ASSUME Bad # {} PROVE FALSE
  OBVIOUS
<1>1. PICK m \in Bad : \A k \in Bad : m <= k
  BY LeastNumber
<1>2. m # 0
  <2>1. Releases([i \in 0..0 |-> h], h, e, args, 0)
    BY DEF Releases
  <2> QED
    BY <2>1
<1>3. m - 1 \in Nat /\ m - 1 \notin Bad
  BY <1>1, <1>2
<1>4. PICK g : Releases(g, h, e, args, m - 1)
  BY <1>3
<1> DEFINE l == [i \in 0..m |-> IF i = m THEN ReleaseObject(g[m - 1], e, args[m]) ELSE g[i]]
<1>5. Releases(l, h, e, args, m)
  <2>1. ASSUME NEW i \in 0..m
        PROVE  l[i] = IF i = 0 THEN h ELSE ReleaseObject(l[i - 1], e, args[i])
    <3>1. CASE i = m
      BY <1>2, <1>3, <3>1
    <3>2. CASE i # m
      <4>1. i \in 0..(m - 1) /\ l[i] = g[i] /\ (i # 0 => i - 1 \in 0..(m - 1) /\ l[i - 1] = g[i - 1])
        BY <1>3, <3>2
      <4> QED
        BY <1>4, <4>1 DEF Releases
    <3> QED
      BY <3>1, <3>2
  <2>2. l = [i \in 0..m |-> l[i]]
    OBVIOUS
  <2> HIDE DEF l
  <2> QED
    BY <2>1, <2>2 DEF Releases
<1> QED
  BY <1>5

LEMMA ReleaseAllIsLast ==
    ASSUME NEW h, NEW e, NEW args, Len(args) \in Nat
    PROVE  \E g : Releases(g, h, e, args, Len(args)) /\ ReleaseAll(h, e, args) = g[Len(args)]
<1> DEFINE g == CHOOSE l : Releases(l, h, e, args, Len(args))
<1>1. Releases(g, h, e, args, Len(args))
  BY ReleasesExists, Zenon
<1>2. ReleaseAll(h, e, args) = g[Len(args)]
  BY Zenon DEF ReleaseAll, Releases
<1> QED
  BY <1>1, <1>2, Zenon

KeepOrphan(s, frame) == IF frame.callee = "wrapper" THEN Append(s, frame) ELSE s

\* And the frames that outlive the viewer.
OrphansOf(g, s, n) ==
    g = [i \in 0..n |-> IF i = 0 THEN <<>> ELSE KeepOrphan(g[i - 1], s[i])]

LEMMA OrphansOfExists ==
    ASSUME NEW s, NEW n \in Nat
    PROVE  \E g : OrphansOf(g, s, n)
<1> DEFINE Bad == {m \in Nat : ~ \E g : OrphansOf(g, s, m)}
<1> SUFFICES ASSUME Bad # {} PROVE FALSE
  OBVIOUS
<1>1. PICK m \in Bad : \A k \in Bad : m <= k
  BY LeastNumber
<1>2. m # 0
  <2>1. OrphansOf([i \in 0..0 |-> <<>>], s, 0)
    BY DEF OrphansOf
  <2> QED
    BY <2>1
<1>3. m - 1 \in Nat /\ m - 1 \notin Bad
  BY <1>1, <1>2
<1>4. PICK g : OrphansOf(g, s, m - 1)
  BY <1>3
<1> DEFINE l == [i \in 0..m |-> IF i = m THEN KeepOrphan(g[m - 1], s[m]) ELSE g[i]]
<1>5. OrphansOf(l, s, m)
  <2>1. ASSUME NEW i \in 0..m
        PROVE  l[i] = IF i = 0 THEN <<>> ELSE KeepOrphan(l[i - 1], s[i])
    <3>1. CASE i = m
      BY <1>2, <1>3, <3>1
    <3>2. CASE i # m
      <4>1. i \in 0..(m - 1) /\ l[i] = g[i] /\ (i # 0 => i - 1 \in 0..(m - 1) /\ l[i - 1] = g[i - 1])
        BY <1>3, <3>2
      <4> QED
        BY <1>4, <4>1 DEF OrphansOf
    <3> QED
      BY <3>1, <3>2
  <2>2. l = [i \in 0..m |-> l[i]]
    OBVIOUS
  <2> HIDE DEF l
  <2> QED
    BY <2>1, <2>2 DEF OrphansOf
<1> QED
  BY <1>5

LEMMA OrphansIsLast ==
    ASSUME NEW s, Len(s) \in Nat
    PROVE  \E g : OrphansOf(g, s, Len(s)) /\ Orphans(s) = g[Len(s)]
<1> DEFINE g == CHOOSE l : OrphansOf(l, s, Len(s))
<1>1. OrphansOf(g, s, Len(s))
  BY OrphansOfExists, Zenon
<1>2. Orphans(s) = g[Len(s)]
  BY Zenon DEF Orphans, OrphansOf, KeepOrphan
<1> QED
  BY <1>1, <1>2, Zenon

LEMMA WorldSame ==
    ASSUME NEW h, NEW x, NEW y, NEW g, NEW v, World(h, x, g, v),
           \A e \in Ends : \A t \in Objects(e) : y[e][t] = x[e][t]
    PROVE  World(h, y, g, v)
<1>1. \A e \in Ends : BridgeOk(e, h[e], y[e], g)
  <2> SUFFICES ASSUME NEW e \in Ends PROVE BridgeOk(e, h[e], y[e], g)
    OBVIOUS
  <2>1. BridgeOk(e, h[e], x[e], g)
    BY WorldParts
  <2> QED
    BY <2>1, SameCounts
<1> QED
  BY <1>1 DEF World

LEMMA CountAppend ==
    ASSUME NEW S, NEW s \in Seq(S), NEW o \in S, NEW u
    PROVE  CountOf(Append(s, o), u) = CountOf(s, u) + One(o, u)
<1> DEFINE n == Len(s) + 1
           a == Append(s, o)
<1>1. /\ Len(s) \in Nat /\ n \in Nat /\ DOMAIN s = 1..Len(s) /\ DOMAIN a = 1..n
      /\ \A i \in 1..Len(s) : a[i] = s[i]
      /\ a[n] = o /\ a = [i \in 1..n |-> a[i]]
  <2>1. a \in Seq(S) /\ Len(a) = n
    BY AppendProps
  <2>2. a \in [1..n -> S]
    <3> HIDE DEF a, n
    <3> QED
      BY <2>1, LenProperties
  <2>3. Len(s) \in Nat /\ n \in Nat /\ DOMAIN s = 1..Len(s)
    OBVIOUS
  <2>4. (\A i \in 1..Len(s) : a[i] = s[i]) /\ a[n] = o
    BY AppendProps
  <2> HIDE DEF a, n
  <2> QED
    BY <2>2, <2>3, <2>4
<1>2. a = InsertKey(s, n, o)
  <2>1. DOMAIN s \cup {n} = 1..n
    BY <1>1
  <2>2. \A i \in 1..n : a[i] = IF i = n THEN o ELSE s[i]
    BY <1>1
  <2> HIDE DEF a, n
  <2> QED
    BY <1>1, <2>1, <2>2 DEF InsertKey
<1>3. DOMAIN s \subseteq 1..n /\ n \in 1..n /\ n \notin DOMAIN s
  BY <1>1
<1> HIDE DEF a, n
<1>4. CountOf(InsertKey(s, n, o), u) = CountOf(s, u) + One(o, u)
  BY <1>1, <1>3, CountInsert
<1> QED
  BY <1>2, <1>4 DEF a

LEMMA CountOfSeq ==
    ASSUME NEW S, NEW s \in Seq(S), NEW u
    PROVE  CountOf(s, u) \in Nat
<1>1. Len(s) \in Nat /\ DOMAIN s \subseteq 1..Len(s)
  OBVIOUS
<1> QED
  BY <1>1, CountIsNat

\* The references that have arrived with s, when e sent it.
Got(e, x, s) ==
    [d \in Ends |-> IF d = e THEN x[d] ELSE [u \in Objects(d) |-> x[d][u] + CountOf(s, u)]]

LocalsTo(e, args, i) == Cardinality({k \in 1..i : args[k] \in Local(e)})

LEMMA LocalsToFacts ==
    ASSUME NEW e, NEW args, NEW i \in Nat
    PROVE  /\ LocalsTo(e, args, 0) = 0 /\ LocalsTo(e, args, i) \in Nat
           /\ LocalsTo(e, args, i + 1) = LocalsTo(e, args, i) + Stubs(e, args[i + 1])
           /\ \A n \in Nat : i <= n => LocalsTo(e, args, i) <= LocalsTo(e, args, n)
<1> DEFINE L(n) == {k \in 1..n : args[k] \in Local(e)}
<1>1. \A n \in Nat : IsFiniteSet(L(n)) /\ Cardinality(L(n)) \in Nat
  <2> SUFFICES ASSUME NEW n \in Nat PROVE IsFiniteSet(L(n)) /\ Cardinality(L(n)) \in Nat
    OBVIOUS
  <2>1. IsFiniteSet(1..n) /\ L(n) \subseteq 1..n
    BY FS_Interval
  <2>2. IsFiniteSet(L(n))
    BY <2>1, FS_Subset
  <2> QED
    BY <2>2, FS_CardinalityType
<1>2. LocalsTo(e, args, 0) = 0
  <2>1. L(0) = {}
    OBVIOUS
  <2> QED
    BY <2>1, FS_EmptySet DEF LocalsTo
<1>3. LocalsTo(e, args, i + 1) = LocalsTo(e, args, i) + Stubs(e, args[i + 1])
  <2>1. i + 1 \notin L(i) /\ L(i + 1) = IF args[i + 1] \in Local(e) THEN L(i) \cup {i + 1} ELSE L(i)
    OBVIOUS
  <2>2. IsFiniteSet(L(i)) /\ Cardinality(L(i)) \in Nat
    BY <1>1
  <2>3. LocalsTo(e, args, i) = Cardinality(L(i)) /\ LocalsTo(e, args, i + 1) = Cardinality(L(i + 1))
    BY DEF LocalsTo
  <2> HIDE DEF L
  <2>4. Cardinality(L(i) \cup {i + 1}) = Cardinality(L(i)) + 1
    BY <2>1, <2>2, FS_AddElement
  <2> QED
    BY <2>1, <2>2, <2>3, <2>4 DEF Stubs
<1>4. ASSUME NEW n \in Nat, i <= n PROVE LocalsTo(e, args, i) <= LocalsTo(e, args, n)
  <2>1. L(i) \subseteq L(n) /\ IsFiniteSet(L(n))
    BY <1>1, <1>4
  <2>2. Cardinality(L(i)) <= Cardinality(L(n))
    BY <2>1, FS_Subset
  <2> QED
    BY <2>2 DEF LocalsTo
<1> QED
  BY <1>1, <1>2, <1>3, <1>4 DEF LocalsTo

AllArrived(e, b, x, i, r) ==
    \E c : \E s \in Seq(Objects(Other(e))) :
        Len(s) = i /\ r = Sent(Heap2(e, b, c), s) /\ World(Heap2(e, b, c), Got(e, x, s), gen, "up")
SomeAborted(e, b, x, r) ==
    \E c, s : r = NotSent(Heap2(e, b, c), s) /\ e = "wrapper" /\ BridgeOk(e, b, x[e], gen)

LEMMA PassArgArrived ==
    ASSUME NEW e \in Ends, NEW b, NEW x, NEW i \in Nat, NEW r, AllArrived(e, b, x, i, r),
           gen \in 1..MaxGen, NEW t \in Objects(e), Sendable(e, b, t),
           b.next_id + Stubs(e, t) <= MaxId(e), Nats(e, x[e]), Nats(Other(e), x[Other(e)])
    PROVE  \E b2 : /\ SenderAfter(e, b, b2, t, FALSE)
                   /\ AllArrived(e, b2, x, i + 1, PassArg(r, e, t)) \/ SomeAborted(e, b2, x, PassArg(r, e, t))
<1> DEFINE f == Other(e)
<1>1. PICK c : \E s \in Seq(Objects(f)) :
         Len(s) = i /\ r = Sent(Heap2(e, b, c), s) /\ World(Heap2(e, b, c), Got(e, x, s), gen, "up")
  BY DEF AllArrived
<1>0. PICK s \in Seq(Objects(f)) :
         Len(s) = i /\ r = Sent(Heap2(e, b, c), s) /\ World(Heap2(e, b, c), Got(e, x, s), gen, "up")
  BY <1>1
<1> DEFINE z == Got(e, x, s)
           q == PassArg(r, e, t)
<1>2. z[e] = x[e]
  BY DEF Got
<1>3. \A o \in Objects(f) : \A d \in Ends : \A u \in Objects(d) :
         Got(e, x, Append(s, o))[d][u] = Passed(e, z, x[e], o)[d][u]
  <2> SUFFICES ASSUME NEW o \in Objects(f), NEW d \in Ends, NEW u \in Objects(d)
               PROVE  Got(e, x, Append(s, o))[d][u] = Passed(e, z, x[e], o)[d][u]
    OBVIOUS
  <2>1. CASE d = e
    BY <2>1 DEF Got, Passed
  <2>2. CASE d # e
    <3>1. Got(e, x, Append(s, o))[d][u] = x[d][u] + CountOf(Append(s, o), u)
      BY <2>2 DEF Got
    <3>2. Passed(e, z, x[e], o)[d][u] = (x[d][u] + CountOf(s, u)) + One(o, u)
      BY <2>2 DEF Got, Passed
    <3>3. CountOf(Append(s, o), u) = CountOf(s, u) + One(o, u) /\ CountOf(s, u) \in Nat
      BY CountAppend, CountOfSeq
    <3>4. x[d][u] \in Nat
      <4>1. d = f
        BY <2>2, EndFacts DEF Ends
      <4> QED
        BY <4>1 DEF Nats
    <3>5. One(o, u) \in Nat
      BY DEF One
    <3> QED
      BY <3>1, <3>2, <3>3, <3>4, <3>5
  <2> QED
    BY <2>1, <2>2
<1> HIDE DEF z
<1>4. PICK pass_ref : pass_ref = FALSE
  OBVIOUS
<1>5. q = Transfer(Sent(Heap2(e, b, c), s), e, t, pass_ref)
  BY <1>0, <1>4 DEF PassArg
<1>6. Transferred(e, b, z, x[e], s, t, pass_ref, q)
  <2>1. World(Heap2(e, b, c), z, gen, "up")
    BY <1>0 DEF z
  <2>2. 1 \in Nat /\ Keeps(pass_ref, 1) /\ 0 = 1 - 1
    BY <1>4 DEF Keeps
  <2>3. Adds(e, x[e], z[e], t, 0)
    BY <1>2 DEF Adds, Nats
  <2> HIDE DEF q
  <2> QED
    BY <1>5, <2>1, <2>2, <2>3, TransferStep
<1> HIDE DEF q
<1>7. PICK b2 : /\ SenderAfter(e, b, b2, t, pass_ref)
                /\ Arrived(e, b2, z, x[e], s, q) \/ Aborted(e, b2, x[e], s, q)
  BY <1>6 DEF Transferred
<1>8. ASSUME Arrived(e, b2, z, x[e], s, q) PROVE AllArrived(e, b2, x, i + 1, q)
  <2>0. PICK c2 : \E o \in Objects(f) :
           q = Sent(Heap2(e, b2, c2), Append(s, o)) /\ World(Heap2(e, b2, c2), Passed(e, z, x[e], o), gen, "up")
    BY <1>8 DEF Arrived
  <2>1. PICK o \in Objects(f) :
           q = Sent(Heap2(e, b2, c2), Append(s, o)) /\ World(Heap2(e, b2, c2), Passed(e, z, x[e], o), gen, "up")
    BY <2>0
  <2> DEFINE k == Heap2(e, b2, c2)
             y == Passed(e, z, x[e], o)
             w == Got(e, x, Append(s, o))
  <2>2. Append(s, o) \in Seq(Objects(f)) /\ Len(Append(s, o)) = i + 1
    BY <1>0, AppendProps
  <2>3. \A d \in Ends : \A u \in Objects(d) : w[d][u] = y[d][u]
    BY <1>3
  <2>4. World(k, y, gen, "up")
    BY <2>1
  <2> HIDE DEF k, y, w
  <2>5. World(k, w, gen, "up")
    BY <2>3, <2>4, WorldSame
  <2> QED
    BY <2>1, <2>2, <2>5 DEF AllArrived, k, w
<1>9. ASSUME Aborted(e, b2, x[e], s, q) PROVE SomeAborted(e, b2, x, q)
  BY <1>9 DEF Aborted, SomeAborted
<1> QED
  BY <1>4, <1>7, <1>8, <1>9 DEF q

LEMMA PassArgAborted ==
    ASSUME NEW e \in Ends, NEW b, NEW x, NEW r, SomeAborted(e, b, x, r),
           NEW t \in Objects(e), b.next_id + Stubs(e, t) <= MaxId(e), Nats(e, x[e])
    PROVE  \E b2 : SenderAfter(e, b, b2, t, FALSE) /\ SomeAborted(e, b2, x, PassArg(r, e, t))
<1>1. PICK c, s : r = NotSent(Heap2(e, b, c), s) /\ e = "wrapper" /\ BridgeOk(e, b, x[e], gen)
  BY DEF SomeAborted
<1>2. b \in Bridge(e)
  BY <1>1, BridgeParts
<1> DEFINE h == Heap2(e, b, c)
           q == PassArg(r, e, t)
<1>3. PICK pass_ref : pass_ref = FALSE
  OBVIOUS
<1>4. Keeps(pass_ref, 1)
  BY <1>3 DEF Keeps
<1> DEFINE p == SendNPObject(h, e, t, pass_ref)
<1>5. q = NotSent(p.heap, s)
  <2>1. q = Transfer(NotSent(h, s), e, t, pass_ref)
    BY <1>1, <1>3 DEF PassArg
  <2>2. NotSent(h, s).ok = FALSE /\ NotSent(h, s).heap = h
    BY DEF NotSent
  <2> HIDE DEF h, q
  <2>3. q = [NotSent(h, s) EXCEPT !.ok = FALSE, !.heap = p.heap]
    BY <2>1, <2>2, Zenon DEF Transfer
  <2> QED
    BY <2>3 DEF NotSent
<1>6. CASE t \in Local(e)
  <2> DEFINE b2 == AddStub(b, t, 1)
  <2>1. p = Posted(Heap2(e, b2, c), StubMessage(b))
    BY <1>2, <1>4, <1>6, SendLocalShape
  <2>2. Stubs(e, t) = 1 /\ b.next_id < MaxId(e)
    BY <1>2, <1>6, BridgeFields, EndFacts DEF Stubs
  <2>3. BridgeOk(e, b2, x[e], gen) /\ StubAdded(e, b, b2)
    <3>1. Adds(e, x[e], x[e], t, 0) /\ 1 \in Nat /\ 0 = 1 - 1
      BY DEF Adds, Nats
    <3> QED
      BY <1>1, <1>6, <2>2, <3>1, AddStubStep
  <2> HIDE DEF b2, p
  <2>4. SenderAfter(e, b, b2, t, FALSE)
    BY <2>2, <2>3 DEF SenderAfter, StubAdded
  <2>5. q = NotSent(Heap2(e, b2, c), s)
    <3>1. p.heap = Heap2(e, b2, c)
      BY <2>1 DEF Posted
    <3> HIDE DEF q
    <3> QED
      BY <1>5, <3>1
  <2> HIDE DEF q
  <2>6. SomeAborted(e, b2, x, q)
    BY <1>1, <2>3, <2>5 DEF SomeAborted
  <2> QED
    BY <2>4, <2>6 DEF q
<1>7. CASE t \in Proxy(e)
  <2>1. SentProxy(b, t, pass_ref) = b
    BY <1>3 DEF SentProxy
  <2>2. p = Posted(Heap2(e, b, c), ProxyMessage(b, t, pass_ref))
    <3>1. p = Posted(Heap2(e, SentProxy(b, t, pass_ref), c), ProxyMessage(b, t, pass_ref))
      BY <1>2, <1>4, <1>7, SendProxyShape
    <3> QED
      BY <2>1, <3>1
  <2> HIDE DEF p
  <2>3. SenderAfter(e, b, b, t, FALSE)
    <3>1. Stubs(e, t) = 0
      BY <1>7, ProxyFacts DEF Stubs
    <3>2. b.next_id \in Nat
      BY <1>2, BridgeFields, EndFacts
    <3> QED
      BY <3>1, <3>2 DEF SenderAfter
  <2>4. q = NotSent(Heap2(e, b, c), s)
    <3>1. p.heap = Heap2(e, b, c)
      BY <2>2 DEF Posted
    <3> HIDE DEF q
    <3> QED
      BY <1>5, <3>1
  <2> HIDE DEF q
  <2>5. SomeAborted(e, b, x, q)
    BY <1>1, <2>4 DEF SomeAborted
  <2> QED
    BY <2>3, <2>5 DEF q
<1> QED
  BY <1>6, <1>7, ProxyFacts

\* After i arguments, a being the sender's end before them.
Through(e, a, x, args, i, r) ==
    \E b : /\ b.owned = a.owned /\ b.next_id = a.next_id + LocalsTo(e, args, i)
           /\ b.is_valid = a.is_valid
           /\ \A p \in Proxy(e) : b.referenceCount[p] = a.referenceCount[p]
           /\ AllArrived(e, b, x, i, r) \/ SomeAborted(e, b, x, r)

LEMMA ThroughNone ==
    ASSUME NEW e \in Ends, NEW h, NEW x, World(h, x, gen, "up"), NEW args
    PROVE  Through(e, h[e], x, args, 0, Sent(h, <<>>))
<1> DEFINE b == h[e]
           c == h[Other(e)]
           s == <<>>
           z == Got(e, x, s)
<1>1. h = Heap2(e, b, c) /\ b \in Bridge(e)
  BY WorldParts, Heap2Shape
<1>2. s \in Seq(Objects(Other(e))) /\ Len(s) = 0
  OBVIOUS
<1>3. \A u : CountOf(s, u) = 0
  <2>1. \A u : {id \in DOMAIN s : s[id] = u} = {}
    OBVIOUS
  <2> QED
    BY <2>1, FS_EmptySet DEF CountOf
<1> HIDE DEF s
<1>4. \A d \in Ends : \A u \in Objects(d) : z[d][u] = x[d][u]
  <2> SUFFICES ASSUME NEW d \in Ends, NEW u \in Objects(d) PROVE z[d][u] = x[d][u]
    OBVIOUS
  <2>1. x[d][u] \in Nat
    BY DEF World
  <2>2. z[d][u] = IF d = e THEN x[d][u] ELSE x[d][u] + CountOf(s, u)
    BY DEF Got
  <2> QED
    BY <1>3, <2>1, <2>2
<1> HIDE DEF z
<1>5. World(h, z, gen, "up")
  BY <1>4, WorldSame
<1> HIDE DEF b, c
<1>6. AllArrived(e, b, x, 0, Sent(h, s))
  BY <1>1, <1>2, <1>5 DEF AllArrived, z
<1>7. b.next_id = b.next_id + LocalsTo(e, args, 0)
  <2>1. b.next_id \in Nat
    BY <1>1, BridgeFields, EndFacts
  <2>2. LocalsTo(e, args, 0) = 0
    BY LocalsToFacts
  <2> QED
    BY <2>1, <2>2
<1> QED
  BY <1>6, <1>7 DEF Through, b, s

LEMMA ThroughNext ==
    ASSUME NEW e \in Ends, NEW a \in Bridge(e), NEW x, NEW args, NEW n \in Nat, NEW i \in Nat, i < n,
           NEW r, Through(e, a, x, args, i, r),
           gen \in 1..MaxGen, args[i + 1] \in Objects(e), Sendable(e, a, args[i + 1]),
           a.next_id + LocalsTo(e, args, n) <= MaxId(e), Nats(e, x[e]), Nats(Other(e), x[Other(e)])
    PROVE  Through(e, a, x, args, i + 1, PassArg(r, e, args[i + 1]))
<1> DEFINE t == args[i + 1]
           q == PassArg(r, e, t)
<1>1. PICK b : /\ b.owned = a.owned /\ b.next_id = a.next_id + LocalsTo(e, args, i)
               /\ b.is_valid = a.is_valid
               /\ \A p \in Proxy(e) : b.referenceCount[p] = a.referenceCount[p]
               /\ AllArrived(e, b, x, i, r) \/ SomeAborted(e, b, x, r)
  BY DEF Through
<1>2. /\ LocalsTo(e, args, i + 1) = LocalsTo(e, args, i) + Stubs(e, t)
      /\ LocalsTo(e, args, i + 1) <= LocalsTo(e, args, n)
      /\ LocalsTo(e, args, i) \in Nat /\ LocalsTo(e, args, n) \in Nat /\ LocalsTo(e, args, i + 1) \in Nat
      /\ a.next_id \in Nat /\ MaxId(e) \in Nat /\ Stubs(e, t) \in Nat
  <2>1. a.next_id \in Nat /\ MaxId(e) \in Nat
    BY BridgeFields, EndFacts
  <2>2. Stubs(e, t) \in Nat
    BY DEF Stubs
  <2>3. i + 1 \in Nat /\ i + 1 <= n
    OBVIOUS
  <2> QED
    BY <2>1, <2>2, <2>3, LocalsToFacts
<1> HIDE DEF t
<1>3. b.next_id + Stubs(e, t) = a.next_id + LocalsTo(e, args, i + 1) /\ b.next_id + Stubs(e, t) <= MaxId(e)
  BY <1>1, <1>2
<1>4. t \in Objects(e) /\ Sendable(e, b, t)
  BY <1>1 DEF Sendable, t
<1>5. \E b2 : /\ SenderAfter(e, b, b2, t, FALSE)
              /\ AllArrived(e, b2, x, i + 1, q) \/ SomeAborted(e, b2, x, q)
  <2>1. CASE AllArrived(e, b, x, i, r)
    BY <1>3, <1>4, <2>1, PassArgArrived
  <2>2. CASE SomeAborted(e, b, x, r)
    <3>1. \E b2 : SenderAfter(e, b, b2, t, FALSE) /\ SomeAborted(e, b2, x, q)
      BY <1>3, <1>4, <2>2, PassArgAborted
    <3> QED
      BY <3>1
  <2> QED
    BY <1>1, <2>1, <2>2
<1> HIDE DEF q
<1>6. PICK b2 : /\ SenderAfter(e, b, b2, t, FALSE)
                /\ AllArrived(e, b2, x, i + 1, q) \/ SomeAborted(e, b2, x, q)
  BY <1>5
<1>7. /\ b2.owned = a.owned /\ b2.next_id = a.next_id + LocalsTo(e, args, i + 1)
      /\ b2.is_valid = a.is_valid
      /\ \A p \in Proxy(e) : b2.referenceCount[p] = a.referenceCount[p]
  BY <1>1, <1>3, <1>6 DEF SenderAfter
<1> QED
  BY <1>6, <1>7 DEF Through, q, t

LEMMA TransferAllWorld ==
    ASSUME NEW e \in Ends, NEW h, NEW x, World(h, x, gen, "up"), gen \in 1..MaxGen,
           NEW args \in Seq(Objects(e)), \A i \in 1..Len(args) : Sendable(e, h[e], args[i]),
           h[e].next_id + LocalsTo(e, args, Len(args)) <= MaxId(e)
    PROVE  Through(e, h[e], x, args, Len(args), TransferAll(h, e, args))
<1> DEFINE n == Len(args)
<1>1. n \in Nat
  OBVIOUS
<1>2. PICK g : Transfers(g, h, e, args, n) /\ TransferAll(h, e, args) = g[n]
  BY <1>1, TransferAllIsLast
<1> DEFINE Bad == {i \in 0..n : ~ Through(e, h[e], x, args, i, g[i])}
<1>3. /\ g[0] = Sent(h, <<>>)
      /\ \A i \in 1..n : g[i] = PassArg(g[i - 1], e, args[i])
  <2>1. 0 \in 0..n /\ \A i \in 1..n : i \in 0..n /\ i # 0
    BY <1>1
  <2>2. g = [i \in 0..n |-> IF i = 0 THEN Sent(h, <<>>) ELSE PassArg(g[i - 1], e, args[i])]
    BY <1>2 DEF Transfers
  <2> HIDE DEF n
  <2>3. \A i \in 0..n : g[i] = IF i = 0 THEN Sent(h, <<>>) ELSE PassArg(g[i - 1], e, args[i])
    BY <2>2, Zenon
  <2> QED
    BY <2>1, <2>3
<1>4. h[e] \in Bridge(e) /\ Nats(e, x[e]) /\ Nats(Other(e), x[Other(e)])
  BY WorldParts
<1>5. Bad = {}
  <2> SUFFICES ASSUME Bad # {} PROVE FALSE
    OBVIOUS
  <2>1. Bad \subseteq Nat
    OBVIOUS
  <2>2. PICK i \in Bad : \A k \in Bad : i <= k
    BY <2>1, LeastNumber
  <2>3. Through(e, h[e], x, args, 0, g[0])
    BY <1>3, ThroughNone
  <2>4. i \in 1..n /\ i - 1 \in 0..n /\ i - 1 \in Nat /\ i - 1 < n /\ i - 1 + 1 = i
    BY <1>1, <2>2, <2>3
  <2> DEFINE m == i - 1
  <2>5. Through(e, h[e], x, args, m, g[m])
    BY <2>2, <2>4
  <2>6. m \in Nat /\ m < n /\ args[m + 1] \in Objects(e) /\ Sendable(e, h[e], args[m + 1]) /\ m + 1 = i
    <3>1. args[i] \in Objects(e) /\ Sendable(e, h[e], args[i])
      BY <2>4
    <3> QED
      BY <2>4, <3>1
  <2> HIDE DEF m, n
  <2>7. Through(e, h[e], x, args, m + 1, PassArg(g[m], e, args[m + 1]))
    <3>1. h[e].next_id + LocalsTo(e, args, n) <= MaxId(e)
      BY DEF n
    <3>2. h[e] \in Bridge(e) /\ n \in Nat
      BY <1>1, <1>4
    <3> DEFINE a == h[e]
               r == g[m]
    <3>3. Through(e, a, x, args, m, r) /\ a \in Bridge(e) /\ Sendable(e, a, args[m + 1])
          /\ a.next_id + LocalsTo(e, args, n) <= MaxId(e)
      BY <2>5, <2>6, <3>1, <3>2
    <3> HIDE DEF a, r
    <3>4. Through(e, a, x, args, m + 1, PassArg(r, e, args[m + 1]))
      BY <1>4, <2>6, <3>2, <3>3, ThroughNext
    <3> QED
      BY <3>4 DEF a, r
  <2>8. g[i] = PassArg(g[m], e, args[m + 1])
    BY <1>3, <2>4, <2>6 DEF m, n
  <2> QED
    BY <2>2, <2>6, <2>7, <2>8
<1>6. Through(e, h[e], x, args, n, g[n])
  BY <1>1, <1>5
<1> QED
  BY <1>2, <1>6

CountFrom(args, i, u) == Cardinality({k \in (i + 1)..Len(args) : args[k] = u})

LEMMA CountFromFacts ==
    ASSUME NEW S, NEW args \in Seq(S), NEW u
    PROVE  /\ CountFrom(args, 0, u) = CountOf(args, u) /\ CountFrom(args, Len(args), u) = 0
           /\ \A i \in 0..Len(args) : CountFrom(args, i, u) \in Nat
           /\ \A i \in 0..Len(args) : i < Len(args) =>
                 CountFrom(args, i, u) = CountFrom(args, i + 1, u) + One(args[i + 1], u)
<1> DEFINE n == Len(args)
           R(i) == {k \in (i + 1)..n : args[k] = u}
<1>1. n \in Nat /\ DOMAIN args = 1..n
  OBVIOUS
<1>2. \A i \in Nat : IsFiniteSet(R(i)) /\ Cardinality(R(i)) \in Nat
  <2> SUFFICES ASSUME NEW i \in Nat PROVE IsFiniteSet(R(i)) /\ Cardinality(R(i)) \in Nat
    OBVIOUS
  <2>1. IsFiniteSet(1..n) /\ R(i) \subseteq 1..n
    BY <1>1, FS_Interval
  <2>2. IsFiniteSet(R(i))
    BY <2>1, FS_Subset
  <2> QED
    BY <2>2, FS_CardinalityType
<1>3. CountFrom(args, 0, u) = CountOf(args, u)
  <2>1. R(0) = {id \in DOMAIN args : args[id] = u}
    BY <1>1
  <2> QED
    BY <2>1 DEF CountFrom, CountOf
<1>4. CountFrom(args, n, u) = 0
  <2>1. R(n) = {}
    BY <1>1
  <2> QED
    BY <2>1, FS_EmptySet DEF CountFrom
<1>5. ASSUME NEW i \in 0..n, i < n
      PROVE  CountFrom(args, i, u) = CountFrom(args, i + 1, u) + One(args[i + 1], u)
  <2>1. i + 1 \notin R(i + 1) /\ R(i) = IF args[i + 1] = u THEN R(i + 1) \cup {i + 1} ELSE R(i + 1)
    BY <1>1, <1>5
  <2>2. IsFiniteSet(R(i + 1)) /\ Cardinality(R(i + 1)) \in Nat
    <3>1. i + 1 \in Nat
      OBVIOUS
    <3> HIDE DEF R
    <3> QED
      BY <1>2, <3>1
  <2>3. CountFrom(args, i, u) = Cardinality(R(i)) /\ CountFrom(args, i + 1, u) = Cardinality(R(i + 1))
    BY DEF CountFrom
  <2> HIDE DEF R
  <2>4. Cardinality(R(i + 1) \cup {i + 1}) = Cardinality(R(i + 1)) + 1
    BY <2>1, <2>2, FS_AddElement
  <2> QED
    BY <2>1, <2>2, <2>3, <2>4 DEF One
<1>6. \A i \in 0..n : CountFrom(args, i, u) \in Nat
  <2>1. \A i \in 0..n : i \in Nat /\ CountFrom(args, i, u) = Cardinality(R(i))
    BY DEF CountFrom
  <2> HIDE DEF R
  <2> QED
    BY <1>2, <2>1
<1> QED
  BY <1>3, <1>4, <1>5, <1>6

\* The references when the arguments after i still have theirs.
Left(e, y, args, i) ==
    [d \in Ends |-> IF d = e THEN [u \in Objects(d) |-> y[d][u] + CountFrom(args, i, u)] ELSE y[d]]

Released(e, h, y, g, args, i, k) ==
    /\ World(k, Left(e, y, args, i), g, viewer)
    /\ k[e].owned = h[e].owned /\ k[e].next_id = h[e].next_id
    /\ \A p \in h[e].is_valid : y[e][p] > 0 => p \in k[e].is_valid

LEMMA ReleasedNext ==
    ASSUME NEW e \in Ends, NEW h, h[e].is_valid \subseteq Objects(e), NEW y, NEW g,
           NEW args \in Seq(Objects(e)), NEW i \in Nat, i < Len(args),
           NEW k, Released(e, h, y, g, args, i, k), Nats(e, y[e])
    PROVE  Released(e, h, y, g, args, i + 1, ReleaseObject(k, e, args[i + 1]))
<1> DEFINE t == args[i + 1]
           x == Left(e, y, args, i)
           z == Left(e, y, args, i + 1)
           q == ReleaseObject(k, e, t)
<1>1. t \in Objects(e) /\ i \in 0..Len(args) /\ i + 1 \in 0..Len(args)
  OBVIOUS
<1>2. \A u \in Objects(e) :
         /\ y[e][u] \in Nat /\ CountFrom(args, i + 1, u) \in Nat
         /\ CountFrom(args, i, u) = CountFrom(args, i + 1, u) + One(t, u)
         /\ x[e][u] = y[e][u] + CountFrom(args, i, u) /\ z[e][u] = y[e][u] + CountFrom(args, i + 1, u)
  <2> SUFFICES ASSUME NEW u \in Objects(e)
               PROVE  /\ y[e][u] \in Nat /\ CountFrom(args, i + 1, u) \in Nat
                      /\ CountFrom(args, i, u) = CountFrom(args, i + 1, u) + One(t, u)
                      /\ x[e][u] = y[e][u] + CountFrom(args, i, u)
                      /\ z[e][u] = y[e][u] + CountFrom(args, i + 1, u)
    OBVIOUS
  <2>1. y[e][u] \in Nat
    BY DEF Nats
  <2>2. /\ CountFrom(args, i + 1, u) \in Nat
        /\ CountFrom(args, i, u) = CountFrom(args, i + 1, u) + One(t, u)
    BY <1>1, CountFromFacts
  <2>3. /\ x[e][u] = y[e][u] + CountFrom(args, i, u)
        /\ z[e][u] = y[e][u] + CountFrom(args, i + 1, u)
    BY DEF Left
  <2> QED
    BY <2>1, <2>2, <2>3
<1>3. \A s \in Objects(Other(e)) : z[Other(e)][s] = x[Other(e)][s]
  BY EndFacts DEF Left
<1> HIDE DEF x, z, t
<1>4. x[e][t] >= 1
  BY <1>1, <1>2 DEF One
<1>5. Nats(e, z[e])
  BY <1>2 DEF Nats
<1>6. Adds(e, z[e], x[e], t, -1)
  <2> SUFFICES ASSUME NEW u \in Objects(e) PROVE z[e][u] = x[e][u] + (IF u = t THEN -1 ELSE 0)
    BY DEF Adds
  <2> QED
    BY <1>2 DEF One
<1>7. Moves(e, x, z, t, -1)
  BY <1>3, <1>5, <1>6 DEF Moves
<1>8. /\ World(k, x, g, viewer)
      /\ k[e].owned = h[e].owned /\ k[e].next_id = h[e].next_id
      /\ \A p \in h[e].is_valid : y[e][p] > 0 => p \in k[e].is_valid
  BY DEF Released, x
<1>9. /\ World(q, z, g, viewer) /\ q[e].owned = k[e].owned /\ q[e].next_id = k[e].next_id
      /\ \A p \in k[e].is_valid : z[e][p] > 0 => p \in q[e].is_valid
  BY <1>1, <1>4, <1>7, <1>8, ReleaseWorld
<1> HIDE DEF q
<1>10. \A p \in h[e].is_valid : y[e][p] > 0 => p \in q[e].is_valid
  <2> SUFFICES ASSUME NEW p \in h[e].is_valid, y[e][p] > 0 PROVE p \in q[e].is_valid
    OBVIOUS
  <2>1. p \in Objects(e)
    OBVIOUS
  <2>2. z[e][p] > 0
    BY <1>2, <2>1
  <2> QED
    BY <1>8, <1>9, <2>2
<1> QED
  BY <1>8, <1>9, <1>10 DEF Released, q, z, t

\* The references that the arguments of a handler hold are given up.
LEMMA ReleaseAllWorld ==
    ASSUME NEW e \in Ends, NEW h, NEW x, NEW y, NEW g, World(h, x, g, viewer),
           NEW args \in Seq(Objects(e)), Nats(e, y[e]),
           \A u \in Objects(e) : x[e][u] = y[e][u] + CountOf(args, u),
           \A u \in Objects(Other(e)) : x[Other(e)][u] = y[Other(e)][u]
    PROVE  LET k == ReleaseAll(h, e, args)
           IN  /\ World(k, y, g, viewer) /\ k[e].owned = h[e].owned /\ k[e].next_id = h[e].next_id
               /\ \A p \in h[e].is_valid : y[e][p] > 0 => p \in k[e].is_valid
<1> DEFINE n == Len(args)
<1>1. n \in Nat
  OBVIOUS
<1>2. PICK r : Releases(r, h, e, args, n) /\ ReleaseAll(h, e, args) = r[n]
  BY <1>1, ReleaseAllIsLast
<1> DEFINE Bad == {i \in 0..n : ~ Released(e, h, y, g, args, i, r[i])}
<1>3. /\ r[0] = h
      /\ \A i \in 1..n : r[i] = ReleaseObject(r[i - 1], e, args[i])
  <2>1. 0 \in 0..n /\ \A i \in 1..n : i \in 0..n /\ i # 0
    BY <1>1
  <2>2. r = [i \in 0..n |-> IF i = 0 THEN h ELSE ReleaseObject(r[i - 1], e, args[i])]
    BY <1>2 DEF Releases
  <2> HIDE DEF n
  <2>3. \A i \in 0..n : r[i] = IF i = 0 THEN h ELSE ReleaseObject(r[i - 1], e, args[i])
    BY <2>2, Zenon
  <2> QED
    BY <2>1, <2>3
<1>4. h[e].is_valid \subseteq Objects(e)
  <2>1. h[e].is_valid \in SUBSET Proxy(e)
    BY WorldParts, BridgeFields
  <2> QED
    BY <2>1, ProxyFacts
<1>5. \A d \in Ends : d = e \/ d = Other(e)
  BY EndFacts DEF Ends
<1>6. Released(e, h, y, g, args, 0, h)
  <2> DEFINE z == Left(e, y, args, 0)
  <2>1. \A d \in Ends : \A u \in Objects(d) : z[d][u] = x[d][u]
    <3> SUFFICES ASSUME NEW d \in Ends, NEW u \in Objects(d) PROVE z[d][u] = x[d][u]
      OBVIOUS
    <3>1. CASE d = e
      <4>1. z[d][u] = y[e][u] + CountFrom(args, 0, u)
        BY <3>1 DEF Left
      <4>2. CountFrom(args, 0, u) = CountOf(args, u)
        BY CountFromFacts
      <4> QED
        BY <3>1, <4>1, <4>2
    <3>2. CASE d # e
      BY <1>5, <3>2 DEF Left
    <3> QED
      BY <3>1, <3>2
  <2> HIDE DEF z
  <2>2. World(h, z, g, viewer)
    BY <2>1, WorldSame
  <2> QED
    BY <2>2 DEF Released, z, World, BridgeOk
<1>7. Bad = {}
  <2> SUFFICES ASSUME Bad # {} PROVE FALSE
    OBVIOUS
  <2>1. Bad \subseteq Nat
    OBVIOUS
  <2>2. PICK i \in Bad : \A k \in Bad : i <= k
    BY <2>1, LeastNumber
  <2>3. Released(e, h, y, g, args, 0, r[0])
    BY <1>3, <1>6
  <2>4. i \in 1..n /\ i - 1 \in 0..n /\ i - 1 \in Nat /\ i - 1 < n /\ i - 1 + 1 = i
    BY <1>1, <2>2, <2>3
  <2> DEFINE m == i - 1
             k == r[m]
  <2>5. Released(e, h, y, g, args, m, k) /\ m \in Nat /\ m < Len(args) /\ m + 1 = i
    BY <2>2, <2>4
  <2>6. r[i] = ReleaseObject(k, e, args[m + 1])
    BY <1>3, <2>4
  <2> HIDE DEF m, k
  <2>7. Released(e, h, y, g, args, m + 1, ReleaseObject(k, e, args[m + 1]))
    BY <1>4, <2>5, ReleasedNext
  <2> QED
    BY <2>2, <2>5, <2>6, <2>7
<1>8. Released(e, h, y, g, args, n, r[n])
  BY <1>1, <1>7
<1> DEFINE z == Left(e, y, args, n)
           k == r[n]
<1>9. \A d \in Ends : \A u \in Objects(d) : y[d][u] = z[d][u]
  <2> SUFFICES ASSUME NEW d \in Ends, NEW u \in Objects(d) PROVE y[d][u] = z[d][u]
    OBVIOUS
  <2>1. CASE d = e
    <3>1. z[d][u] = y[e][u] + CountFrom(args, n, u)
      BY <2>1 DEF Left
    <3>2. CountFrom(args, n, u) = 0
      BY CountFromFacts
    <3>3. y[e][u] \in Nat
      BY <2>1 DEF Nats
    <3> QED
      BY <2>1, <3>1, <3>2, <3>3
  <2>2. CASE d # e
    BY <1>5, <2>2 DEF Left
  <2> QED
    BY <2>1, <2>2
<1>10. World(k, z, g, viewer) /\ k[e].owned = h[e].owned /\ k[e].next_id = h[e].next_id
       /\ \A p \in h[e].is_valid : y[e][p] > 0 => p \in k[e].is_valid
  BY <1>8 DEF Released
<1> HIDE DEF k, z
<1>11. World(k, y, g, viewer)
  BY <1>9, <1>10, WorldSame
<1> QED
  BY <1>2, <1>10, <1>11 DEF k

-----------------------------------------------------------------------------
(* The references that the open calls hold.                                  *)

Slots == (1..MaxDepth) \X (1..MaxArgs + 1)
HeldAt(s, e, t) == {a \in Slots : /\ a[1] \in DOMAIN s /\ s[a[1]].callee = e
                                  /\ a[2] \in DOMAIN s[a[1]].args /\ s[a[1]].args[a[2]] = t}

LEMMA HeldIsNat ==
    ASSUME NEW s, NEW e, NEW t
    PROVE  /\ IsFiniteSet(HeldAt(s, e, t)) /\ HeldIn(s, e, t) \in Nat
           /\ HeldIn(s, e, t) = Cardinality(HeldAt(s, e, t))
<1>1. IsFiniteSet(1..MaxDepth) /\ IsFiniteSet(1..MaxArgs + 1)
  BY ConstantsAssumption, FS_Interval
<1>2. IsFiniteSet(Slots)
  BY <1>1, FS_Product DEF Slots
<1>3. HeldAt(s, e, t) \subseteq Slots
  BY DEF HeldAt
<1>4. IsFiniteSet(HeldAt(s, e, t))
  BY <1>2, <1>3, FS_Subset
<1>5. HeldIn(s, e, t) = Cardinality(HeldAt(s, e, t))
  BY DEF HeldIn, HeldAt, Slots
<1> QED
  BY <1>4, <1>5, FS_CardinalityType

LEMMA HeldNone ==
    ASSUME NEW e, NEW t
    PROVE  HeldIn(<<>>, e, t) = 0
<1>1. HeldAt(<<>>, e, t) = {}
  BY DEF HeldAt
<1> QED
  BY <1>1, HeldIsNat, FS_EmptySet

LEMMA HeldAppend ==
    ASSUME NEW s \in Seq(Frame), NEW frame \in Frame, Len(s) < MaxDepth,
           NEW S, frame.args \in Seq(S), Len(frame.args) <= MaxArgs + 1, NEW e, NEW t
    PROVE  HeldIn(Append(s, frame), e, t) =
              HeldIn(s, e, t) + (IF frame.callee = e THEN CountOf(frame.args, t) ELSE 0)
<1> DEFINE n == Len(s) + 1
           q == Append(s, frame)
           I == {i \in DOMAIN frame.args : frame.args[i] = t}
           A == HeldAt(s, e, t)
           B == IF frame.callee = e THEN {n} \X I ELSE {}
<1>1. /\ Len(s) \in Nat /\ n \in 1..MaxDepth /\ DOMAIN s = 1..Len(s) /\ DOMAIN q = 1..n
      /\ \A i \in 1..Len(s) : q[i] = s[i]
      /\ q[n] = frame /\ MaxDepth \in Nat /\ MaxArgs \in Nat
  <2>1. q \in Seq(Frame) /\ Len(q) = n /\ (\A i \in 1..Len(s) : q[i] = s[i]) /\ q[n] = frame
    BY AppendProps
  <2>2. Len(s) \in Nat /\ DOMAIN s = 1..Len(s) /\ MaxDepth \in Nat /\ MaxArgs \in Nat
    BY ConstantsAssumption
  <2>3. n \in 1..MaxDepth
    BY <2>2
  <2> HIDE DEF q, n
  <2> QED
    BY <2>1, <2>2, <2>3
<1> HIDE DEF q
<1>2. DOMAIN frame.args = 1..Len(frame.args) /\ Len(frame.args) \in Nat
  OBVIOUS
<1>3. I \subseteq 1..MaxArgs + 1 /\ IsFiniteSet(I)
  <2>1. I \subseteq 1..MaxArgs + 1
    BY <1>1, <1>2
  <2> HIDE DEF I
  <2>2. IsFiniteSet(1..MaxArgs + 1)
    BY <1>1, FS_Interval
  <2> QED
    BY <2>1, <2>2, FS_Subset
<1>4. Cardinality(I) = CountOf(frame.args, t)
  BY DEF CountOf
<1>5. \A a \in Slots : a \in HeldAt(q, e, t) <=> a \in A \/ a \in B
  <2> SUFFICES ASSUME NEW a \in Slots PROVE a \in HeldAt(q, e, t) <=> a \in A \/ a \in B
    OBVIOUS
  <2>1. a[1] \in DOMAIN q <=> a[1] \in DOMAIN s \/ a[1] = n
    BY <1>1
  <2>2. CASE a[1] \in DOMAIN s
    <3>1. q[a[1]] = s[a[1]] /\ a[1] # n /\ a[1] \in DOMAIN q
      BY <1>1, <2>2
    <3>2. a \notin B
      BY <3>1
    <3> HIDE DEF B
    <3> QED
      BY <2>2, <3>1, <3>2 DEF HeldAt
  <2>3. CASE a[1] \notin DOMAIN s /\ a[1] = n
    <3>1. q[a[1]] = frame /\ a[1] \in DOMAIN q /\ a = <<a[1], a[2]>>
      BY <1>1, <2>3 DEF Slots
    <3>2. a \in B <=> frame.callee = e /\ a[2] \in I
      BY <2>3, <3>1
    <3>3. a \notin A
      BY <2>3 DEF HeldAt
    <3> HIDE DEF B
    <3>4. a \in HeldAt(q, e, t) <=> frame.callee = e /\ a[2] \in DOMAIN frame.args /\ frame.args[a[2]] = t
      BY <3>1 DEF HeldAt
    <3> QED
      BY <3>2, <3>3, <3>4
  <2>4. CASE a[1] \notin DOMAIN s /\ a[1] # n
    <3>1. a \notin B
      BY <2>4
    <3> HIDE DEF B
    <3> QED
      BY <2>1, <2>4, <3>1 DEF HeldAt
  <2> QED
    BY <2>2, <2>3, <2>4
<1>6. A \subseteq Slots /\ B \subseteq Slots /\ HeldAt(q, e, t) \subseteq Slots
  BY <1>1, <1>3 DEF HeldAt, Slots
<1>7. HeldAt(q, e, t) = A \cup B
  <2> HIDE DEF A, B
  <2> QED
    BY <1>5, <1>6
<1>8. A \cap B = {}
  <2> SUFFICES ASSUME NEW a \in A, a \in B PROVE FALSE
    OBVIOUS
  <2>1. a[1] = n
    OBVIOUS
  <2>2. a[1] \in DOMAIN s
    BY DEF HeldAt
  <2> QED
    BY <1>1, <2>1, <2>2
<1>9. IsFiniteSet(B) /\ Cardinality(B) = IF frame.callee = e THEN Cardinality(I) ELSE 0
  <2>1. IsFiniteSet({n}) /\ Cardinality({n}) = 1 /\ Cardinality(I) \in Nat
    BY <1>3, FS_Singleton, FS_CardinalityType
  <2>2. IsFiniteSet({n} \X I) /\ Cardinality({n} \X I) = 1 * Cardinality(I)
    BY <1>3, <2>1, FS_Product
  <2>3. IsFiniteSet({}) /\ Cardinality({}) = 0
    BY FS_EmptySet
  <2> HIDE DEF I, n
  <2> QED
    BY <2>1, <2>2, <2>3
<1> HIDE DEF A, B, I
<1>10. IsFiniteSet(A) /\ HeldIn(s, e, t) = Cardinality(A) /\ HeldIn(q, e, t) = Cardinality(A \cup B)
  BY <1>7, HeldIsNat DEF A
<1>11. Cardinality(A \cup B) = Cardinality(A) + Cardinality(B)
  <2>1. Cardinality(A \cup B) = Cardinality(A) + Cardinality(B) - Cardinality(A \cap B)
    BY <1>9, <1>10, FS_Union
  <2>2. Cardinality(A \cap B) = 0 /\ Cardinality(A) \in Nat /\ Cardinality(B) \in Nat
    BY <1>8, <1>9, <1>10, FS_EmptySet, FS_CardinalityType
  <2> QED
    BY <2>1, <2>2
<1> QED
  BY <1>4, <1>9, <1>10, <1>11 DEF q

Arguments(frame, e, t) == IF frame.callee = e THEN CountOf(frame.args, t) ELSE 0

LEMMA StackAppend ==
    ASSUME NEW s, NEW g, NEW v, StackOk(s, g, v), NEW frame, FrameOk(frame, g, v), Len(s) < MaxDepth
    PROVE  /\ StackOk(Append(s, frame), g, v)
           /\ \A e, t : HeldIn(Append(s, frame), e, t) = HeldIn(s, e, t) + Arguments(frame, e, t)
<1> DEFINE q == Append(s, frame)
<1>1. s \in Seq(Frame) /\ frame \in Frame /\ \A i \in 1..Len(s) : FrameOk(s[i], g, v)
  BY DEF StackOk, FrameOk
<1>2. /\ q \in Seq(Frame) /\ Len(q) = Len(s) + 1
      /\ \A i \in 1..Len(s) : q[i] = s[i]
      /\ q[Len(s) + 1] = frame
  BY <1>1, AppendProps
<1>3. Len(s) \in Nat /\ MaxDepth \in Nat
  BY <1>1, ConstantsAssumption
<1> HIDE DEF q
<1>4. StackOk(q, g, v)
  <2>1. ASSUME NEW i \in 1..Len(q) PROVE FrameOk(q[i], g, v)
    <3>1. CASE i = Len(s) + 1
      BY <1>2, <3>1
    <3>2. CASE i # Len(s) + 1
      <4>1. i \in 1..Len(s)
        BY <1>2, <1>3, <3>2
      <4>2. q[i] = s[i] /\ FrameOk(s[i], g, v)
        BY <1>1, <1>2, <4>1
      <4> QED
        BY <4>2
    <3> QED
      BY <3>1, <3>2
  <2>2. Len(q) <= MaxDepth
    BY <1>2, <1>3
  <2> QED
    BY <1>2, <2>1, <2>2 DEF StackOk
<1>5. ASSUME NEW e, NEW t PROVE HeldIn(q, e, t) = HeldIn(s, e, t) + Arguments(frame, e, t)
  <2>1. frame.args \in Seq(Objects(frame.callee)) /\ Len(frame.args) <= MaxArgs + 1
    BY DEF FrameOk
  <2> QED
    BY <1>1, <2>1, HeldAppend DEF Arguments, q
<1> QED
  BY <1>4, <1>5 DEF q

LEMMA StackFront ==
    ASSUME NEW s, NEW g, NEW v, StackOk(s, g, v), s # <<>>
    PROVE  /\ StackOk(Front(s), g, v) /\ FrameOk(Last(s), g, v)
           /\ \A e, t : HeldIn(s, e, t) = HeldIn(Front(s), e, t) + Arguments(Last(s), e, t)
<1> DEFINE q == Front(s)
           l == Last(s)
<1>1. s \in Seq(Frame) /\ Len(s) <= MaxDepth /\ \A i \in 1..Len(s) : FrameOk(s[i], g, v)
  BY DEF StackOk
<1>2. /\ q \in Seq(Frame) /\ Len(q) = Len(s) - 1
      /\ \A i \in 1..Len(q) : q[i] = s[i]
      /\ Len(s) \in Nat /\ Len(s) > 0 /\ l = s[Len(s)] /\ l \in Frame
  BY <1>1, FrontProps
<1>3. MaxDepth \in Nat
  BY ConstantsAssumption
<1>4. s = Append(q, l)
  <2> DEFINE a == Append(q, l)
  <2>1. /\ a \in Seq(Frame) /\ Len(a) = Len(q) + 1 /\ (\A i \in 1..Len(q) : a[i] = q[i])
        /\ a[Len(q) + 1] = l
    BY <1>2, AppendProps
  <2> HIDE DEF a, q, l
  <2>2. Len(a) = Len(s) /\ Len(a) \in Nat
    BY <1>2, <2>1
  <2>3. ASSUME NEW i \in 1..Len(s) PROVE a[i] = s[i]
    <3>1. CASE i = Len(s)
      BY <1>2, <2>1, <3>1
    <3>2. CASE i # Len(s)
      <4>1. i \in 1..Len(q)
        BY <1>2, <3>2
      <4> QED
        BY <1>2, <2>1, <4>1
    <3> QED
      BY <3>1, <3>2
  <2>4. a \in [1..Len(s) -> Frame] /\ s \in [1..Len(s) -> Frame]
    BY <1>1, <2>1, <2>2, LenProperties
  <2>5. a = s
    BY <2>3, <2>4
  <2> QED
    BY <2>5 DEF a
<1> HIDE DEF q, l
<1>5. StackOk(q, g, v)
  <2>1. ASSUME NEW i \in 1..Len(q) PROVE FrameOk(q[i], g, v)
    <3>1. i \in 1..Len(s) /\ q[i] = s[i]
      BY <1>2
    <3> QED
      BY <1>1, <3>1
  <2>2. Len(q) <= MaxDepth
    BY <1>1, <1>2, <1>3
  <2> QED
    BY <1>2, <2>1, <2>2 DEF StackOk
<1>6. FrameOk(l, g, v)
  BY <1>1, <1>2
<1>7. ASSUME NEW e, NEW t PROVE HeldIn(s, e, t) = HeldIn(q, e, t) + Arguments(l, e, t)
  <2>1. Len(q) < MaxDepth
    BY <1>1, <1>2, <1>3
  <2>2. HeldIn(Append(q, l), e, t) = HeldIn(q, e, t) + Arguments(l, e, t)
    BY <1>5, <1>6, <2>1, StackAppend
  <2> QED
    BY <1>4, <2>2
<1> QED
  BY <1>5, <1>6, <1>7 DEF q, l

\* The frames of the browser outlive the viewer.
LEMMA StackLater ==
    ASSUME NEW s, NEW g \in Nat, NEW v, StackOk(s, g, v), v # "up", NEW g2 \in Nat, g <= g2, NEW w
    PROVE  StackOk(s, g2, w)
<1>1. s \in Seq(Frame) /\ Len(s) <= MaxDepth /\ \A i \in 1..Len(s) : FrameOk(s[i], g, v)
  BY DEF StackOk
<1>2. ASSUME NEW i \in 1..Len(s) PROVE FrameOk(s[i], g2, w)
  <2>1. FrameOk(s[i], g, v) /\ s[i] \in Frame
    BY <1>1
  <2>2. s[i].gen \in 1..MaxGen
    BY <2>1 DEF Frame
  <2>3. s[i].gen <= g2
    BY <2>1, <2>2, ConstantsAssumption DEF FrameOk
  <2> QED
    BY <2>1, <2>3 DEF FrameOk
<1> QED
  BY <1>1, <1>2 DEF StackOk

First(s, i) == [k \in 1..i |-> s[k]]

LEMMA FirstNext ==
    ASSUME NEW S, NEW s \in Seq(S), NEW i \in Nat, i < Len(s)
    PROVE  /\ First(s, i) \in Seq(S) /\ Len(First(s, i)) = i
           /\ First(s, i + 1) = Append(First(s, i), s[i + 1])
           /\ First(s, 0) = <<>> /\ First(s, Len(s)) = s
<1>1. First(s, i) \in Seq(S) /\ Len(First(s, i)) = i
  <2>1. \A k \in 1..i : s[k] \in S
    OBVIOUS
  <2> QED
    BY <2>1 DEF First
<1>2. First(s, i + 1) = Append(First(s, i), s[i + 1])
  <2> DEFINE a == Append(First(s, i), s[i + 1])
  <2>0. s[i + 1] \in S
    OBVIOUS
  <2>1. /\ a \in Seq(S) /\ Len(a) = i + 1 /\ (\A k \in 1..i : a[k] = First(s, i)[k])
        /\ a[i + 1] = s[i + 1]
    BY <1>1, <2>0, AppendProps
  <2> HIDE DEF a
  <2>2. a \in [1..(i + 1) -> S]
    BY <2>1, LenProperties
  <2>3. \A k \in 1..(i + 1) : a[k] = s[k]
    <3> SUFFICES ASSUME NEW k \in 1..(i + 1) PROVE a[k] = s[k]
      OBVIOUS
    <3>1. CASE k = i + 1
      BY <2>1, <3>1
    <3>2. CASE k # i + 1
      <4>1. k \in 1..i
        BY <3>2
      <4> QED
        BY <2>1, <4>1 DEF First
    <3> QED
      BY <3>1, <3>2
  <2>4. First(s, i + 1) = a
    BY <2>2, <2>3 DEF First
  <2> QED
    BY <2>4 DEF a
<1>3. First(s, 0) = <<>>
  BY DEF First
<1>4. First(s, Len(s)) = s
  BY LenProperties DEF First
<1> QED
  BY <1>1, <1>2, <1>3, <1>4

\* l is what is left of the first i frames of s.
Orphaned(s, g, w, i, l) ==
    /\ l \in Seq(Frame) /\ Len(l) <= i /\ \A j \in 1..Len(l) : FrameOk(l[j], g, w)
    /\ \A t : HeldIn(l, "wrapper", t) = HeldIn(First(s, i), "wrapper", t) /\ HeldIn(l, "viewer", t) = 0

LEMMA OrphanedNext ==
    ASSUME NEW s, NEW g, NEW v, StackOk(s, g, v), NEW w, NEW i \in Nat, i < Len(s),
           NEW l, Orphaned(s, g, w, i, l)
    PROVE  Orphaned(s, g, w, i + 1, KeepOrphan(l, s[i + 1]))
<1> DEFINE f == s[i + 1]
           q == KeepOrphan(l, f)
           p == First(s, i)
<1>1. s \in Seq(Frame) /\ Len(s) <= MaxDepth /\ FrameOk(f, g, v) /\ Len(s) \in Nat /\ MaxDepth \in Nat
  BY ConstantsAssumption DEF StackOk
<1>2. p \in Seq(Frame) /\ Len(p) = i /\ First(s, i + 1) = Append(p, f)
  BY <1>1, FirstNext
<1>3. f \in Frame /\ f.args \in Seq(Objects(f.callee)) /\ Len(f.args) <= MaxArgs + 1 /\ Len(p) < MaxDepth
  BY <1>1, <1>2 DEF FrameOk
<1> HIDE DEF p, f
<1>4. \A e, t : HeldIn(First(s, i + 1), e, t) = HeldIn(p, e, t) + Arguments(f, e, t)
  <2> SUFFICES ASSUME NEW e, NEW t
               PROVE  HeldIn(First(s, i + 1), e, t) = HeldIn(p, e, t) + Arguments(f, e, t)
    OBVIOUS
  <2>1. HeldIn(Append(p, f), e, t) = HeldIn(p, e, t) + Arguments(f, e, t)
    BY <1>2, <1>3, HeldAppend DEF Arguments
  <2> QED
    BY <1>2, <2>1
<1>5. /\ l \in Seq(Frame) /\ Len(l) <= i /\ \A j \in 1..Len(l) : FrameOk(l[j], g, w)
      /\ \A t : HeldIn(l, "wrapper", t) = HeldIn(p, "wrapper", t) /\ HeldIn(l, "viewer", t) = 0
      /\ Len(l) \in Nat
  BY DEF Orphaned, p
<1>6. CASE f.callee = "wrapper"
  <2>1. q = Append(l, f) /\ Len(l) < MaxDepth
    BY <1>1, <1>5, <1>6 DEF KeepOrphan
  <2> HIDE DEF q
  <2>2. /\ q \in Seq(Frame) /\ Len(q) = Len(l) + 1 /\ (\A j \in 1..Len(l) : q[j] = l[j])
        /\ q[Len(l) + 1] = f
    BY <1>3, <1>5, <2>1, AppendProps
  <2>3. FrameOk(f, g, w)
    BY <1>1, <1>6 DEF FrameOk
  <2>4. ASSUME NEW j \in 1..Len(q) PROVE FrameOk(q[j], g, w)
    <3>1. CASE j = Len(l) + 1
      BY <2>2, <2>3, <3>1
    <3>2. CASE j # Len(l) + 1
      <4>1. j \in 1..Len(l) /\ q[j] = l[j]
        BY <1>5, <2>2, <3>2
      <4>2. FrameOk(l[j], g, w)
        BY <1>5, <4>1
      <4> QED
        BY <4>1, <4>2
    <3> QED
      BY <3>1, <3>2
  <2>5. \A e, t : HeldIn(q, e, t) = HeldIn(l, e, t) + Arguments(f, e, t)
    BY <1>3, <1>5, <2>1, HeldAppend DEF Arguments
  <2>6. ASSUME NEW t
        PROVE  HeldIn(q, "wrapper", t) = HeldIn(First(s, i + 1), "wrapper", t) /\ HeldIn(q, "viewer", t) = 0
    <3>1. HeldIn(q, "wrapper", t) = HeldIn(First(s, i + 1), "wrapper", t)
      BY <1>4, <1>5, <2>5
    <3>2. Arguments(f, "viewer", t) = 0
      BY <1>6 DEF Arguments
    <3> QED
      BY <1>5, <2>5, <3>1, <3>2
  <2>7. Len(q) <= i + 1
    BY <1>5, <2>2
  <2> QED
    BY <2>2, <2>4, <2>6, <2>7 DEF Orphaned, q, f
<1>7. CASE f.callee # "wrapper"
  <2>1. q = l
    BY <1>7 DEF KeepOrphan
  <2> HIDE DEF q
  <2>2. ASSUME NEW t PROVE HeldIn(First(s, i + 1), "wrapper", t) = HeldIn(p, "wrapper", t)
    <3>1. Arguments(f, "wrapper", t) = 0
      BY <1>7 DEF Arguments
    <3> QED
      BY <1>4, <3>1, HeldIsNat
  <2>3. Len(l) <= i + 1
    BY <1>5
  <2> QED
    BY <1>5, <2>1, <2>2, <2>3 DEF Orphaned, q, f
<1> QED
  BY <1>6, <1>7

\* The frames that outlive the viewer hold what the browser's frames held.
LEMMA OrphansKeep ==
    ASSUME NEW s, NEW g, NEW v, StackOk(s, g, v), NEW w
    PROVE  /\ StackOk(Orphans(s), g, w)
           /\ \A t : HeldIn(Orphans(s), "wrapper", t) = HeldIn(s, "wrapper", t)
                     /\ HeldIn(Orphans(s), "viewer", t) = 0
<1> DEFINE n == Len(s)
<1>1. s \in Seq(Frame) /\ n \in Nat /\ n <= MaxDepth /\ MaxDepth \in Nat
  BY ConstantsAssumption DEF StackOk
<1>2. PICK r : OrphansOf(r, s, n) /\ Orphans(s) = r[n]
  BY <1>1, OrphansIsLast
<1> DEFINE Bad == {i \in 0..n : ~ Orphaned(s, g, w, i, r[i])}
<1>3. /\ r[0] = <<>>
      /\ \A i \in 1..n : r[i] = KeepOrphan(r[i - 1], s[i])
  <2>1. 0 \in 0..n /\ \A i \in 1..n : i \in 0..n /\ i # 0
    BY <1>1
  <2>2. r = [i \in 0..n |-> IF i = 0 THEN <<>> ELSE KeepOrphan(r[i - 1], s[i])]
    BY <1>2 DEF OrphansOf
  <2> HIDE DEF n
  <2>3. \A i \in 0..n : r[i] = IF i = 0 THEN <<>> ELSE KeepOrphan(r[i - 1], s[i])
    BY <2>2, Zenon
  <2> QED
    BY <2>1, <2>3
<1>4. Orphaned(s, g, w, 0, r[0])
  <2>1. First(s, 0) = <<>>
    BY DEF First
  <2>2. r[0] \in Seq(Frame) /\ Len(r[0]) = 0
    BY <1>3
  <2> QED
    BY <1>3, <2>1, <2>2, HeldNone DEF Orphaned
<1>5. Bad = {}
  <2> SUFFICES ASSUME Bad # {} PROVE FALSE
    OBVIOUS
  <2>1. Bad \subseteq Nat
    OBVIOUS
  <2>2. PICK i \in Bad : \A k \in Bad : i <= k
    BY <2>1, LeastNumber
  <2>4. i \in 1..n /\ i - 1 \in 0..n /\ i - 1 \in Nat /\ i - 1 < n /\ i - 1 + 1 = i
    BY <1>1, <1>4, <2>2
  <2> DEFINE m == i - 1
             l == r[m]
  <2>5. Orphaned(s, g, w, m, l) /\ m \in Nat /\ m < Len(s) /\ m + 1 = i
    BY <2>2, <2>4
  <2>6. r[i] = KeepOrphan(l, s[m + 1])
    BY <1>3, <2>4
  <2> HIDE DEF m, l
  <2>7. Orphaned(s, g, w, m + 1, KeepOrphan(l, s[m + 1]))
    BY <2>5, OrphanedNext
  <2> QED
    BY <2>2, <2>5, <2>6, <2>7
<1>6. Orphaned(s, g, w, n, r[n])
  BY <1>1, <1>5
<1>7. First(s, n) = s
  BY <1>1, LenProperties DEF First
<1> DEFINE l == r[n]
<1>8. /\ l \in Seq(Frame) /\ Len(l) <= n /\ (\A j \in 1..Len(l) : FrameOk(l[j], g, w))
      /\ \A t : HeldIn(l, "wrapper", t) = HeldIn(s, "wrapper", t) /\ HeldIn(l, "viewer", t) = 0
  BY <1>6, <1>7 DEF Orphaned
<1>9. l = Orphans(s)
  BY <1>2
<1> HIDE DEF l, n
<1>10. Len(l) <= MaxDepth
  BY <1>1, <1>8
<1>11. StackOk(l, g, w)
  BY <1>8, <1>10 DEF StackOk
<1> QED
  BY <1>8, <1>9, <1>11

-----------------------------------------------------------------------------
(* The viewer is lost and restarted.                                         *)

LEMMA NewBridgeOk ==
    ASSUME NEW e \in Ends, NEW x, \A t \in Objects(e) : x[t] = 0, NEW g
    PROVE  /\ BridgeOk(e, NewBridge(e), x, g)
           /\ \A t \in Objects(e) : NewBridge(e).referenceCount[t] = 0
           /\ NewBridge(e).crossed = {}
           /\ NewBridge(e).is_valid = {} /\ NewBridge(e).g_stubs = <<>> /\ NewBridge(e).next_id = 0
<1> DEFINE b == NewBridge(e)
<1>1. /\ b.referenceCount = [t \in Objects(e) |-> 0] /\ b.owned = [t \in Objects(e) |-> 0]
      /\ b.lost = [t \in Objects(e) |-> 0] /\ b.g_stubs = <<>> /\ b.g_proxies = <<>>
      /\ b.is_valid = {} /\ b.next_id = 0 /\ b.crossed = {}
  BY DEF NewBridge
<1>2. \A S, T : <<>> \in PartialFunctions(S, T)
  <2> SUFFICES ASSUME NEW S, NEW T PROVE <<>> \in PartialFunctions(S, T)
    OBVIOUS
  <2>1. <<>> \in [{} -> T] /\ {} \in SUBSET S
    OBVIOUS
  <2> QED
    BY <2>1 DEF PartialFunctions
<1>3. 0 \in 0..MaxId(e)
  BY EndFacts
<1>4. b \in Bridge(e)
  <2>1. [t \in Objects(e) |-> 0] \in [Objects(e) -> Int] /\ [t \in Objects(e) |-> 0] \in [Objects(e) -> Nat]
    OBVIOUS
  <2>2. {} \in SUBSET Proxy(e)
    OBVIOUS
  <2> QED
    BY <1>2, <1>3, <2>1, <2>2 DEF Bridge, NewBridge
<1>5. \A t : CountOf(b.g_stubs, t) = 0
  <2>1. \A t : {id \in DOMAIN b.g_stubs : b.g_stubs[id] = t} = {}
    BY <1>1
  <2> QED
    BY <2>1, FS_EmptySet DEF CountOf
<1>6. \A t \in Objects(e) : b.referenceCount[t] = 0 /\ b.owned[t] = 0 /\ b.lost[t] = 0
  BY <1>1
<1> HIDE DEF b
<1>7. Exact(e, b, x)
  BY <1>5, <1>6 DEF Exact
<1>8. \A p \in Proxy(e) : b.referenceCount[p] = 0
  BY <1>6, ProxyFacts
<1>9. BridgeOk(e, b, x, g)
  BY <1>1, <1>4, <1>7, <1>8 DEF BridgeOk
<1> QED
  BY <1>1, <1>6, <1>9 DEF b

LEMMA GoneWorld ==
    ASSUME NEW b, NEW y, NEW g, NEW v, BridgeOk("wrapper", b, y["wrapper"], g),
           Nats("wrapper", y["wrapper"]), \A t \in Objects("viewer") : y["viewer"][t] = 0,
           v # "up", v = "killed" => b.is_valid \subseteq b.crossed
    PROVE  World(Heap2("wrapper", b, NewBridge("viewer")), y, g, v)
<1> DEFINE n == NewBridge("viewer")
           h == Heap2("wrapper", b, n)
<1>1. "wrapper" \in Ends /\ "viewer" \in Ends /\ Other("wrapper") = "viewer"
      /\ \A d \in Ends : d = "wrapper" \/ d = "viewer"
  BY EndFacts DEF Ends
<1>2. BridgeOk("viewer", n, y["viewer"], g)
  BY <1>1, NewBridgeOk
<1>3. h["wrapper"] = b /\ h["viewer"] = n
  BY <1>1, Heap2Facts
<1>4. h = [d \in Ends |-> h[d]]
  BY DEF Heap2
<1> HIDE DEF h
<1>5. \A d \in Ends : \A t \in Objects(d) : y[d][t] \in Nat
  BY <1>1 DEF Nats
<1>6. \A d \in Ends : BridgeOk(d, h[d], y[d], g)
  BY <1>1, <1>2, <1>3
<1> QED
  BY <1>3, <1>4, <1>5, <1>6 DEF World, h

LEMMA GoneShape ==
    ASSUME NEW b, NEW c
    PROVE  ViewerGone(Heap2("wrapper", b, c)) = Heap2("wrapper", b, NewBridge("viewer"))
  BY DEF ViewerGone, Heap2, Ends

\* What npruntime_deactivate leaves of the browser's end.
StubsFor(w, t, I) == Cardinality({id \in I : w.g_stubs[id] = t})
Deactivated(w, S) ==
    [npobject_bridge_destroy(w) EXCEPT
        !.is_valid = @ \ Range(w.g_proxies),
        !.referenceCount = [t \in DOMAIN @ |-> @[t] - StubsFor(w, t, S)],
        !.lost = [t \in DOMAIN @ |-> @[t] + StubsFor(w, t, DOMAIN w.g_stubs \ S)]]

LEMMA DeactivateShape ==
    ASSUME NEW w, NEW c, NEW S
    PROVE  Deactivate(Heap2("wrapper", w, c), S) = Heap2("wrapper", Deactivated(w, S), c)
<1> DEFINE h == Heap2("wrapper", w, c)
<1>1. "wrapper" \in Ends /\ h["wrapper"] = w /\ h[Other("wrapper")] = c /\ h = [d \in Ends |-> h[d]]
  <2>1. "wrapper" \in Ends
    BY DEF Ends
  <2>2. h["wrapper"] = w /\ h[Other("wrapper")] = c
    BY <2>1, Heap2Facts
  <2>3. h = [d \in Ends |-> h[d]]
    BY DEF Heap2
  <2> QED
    BY <2>1, <2>2, <2>3
<1> HIDE DEF h
<1>2. Deactivate(h, S) = [h EXCEPT !["wrapper"] = Deactivated(w, S)]
  BY <1>1, Zenon DEF Deactivate, Deactivated, StubsFor
<1> QED
  BY <1>1, <1>2, Heap2Shape DEF h

LEMMA StubsSplit ==
    ASSUME NEW x, NEW g, NEW w, BridgeOk("wrapper", w, x, g), NEW S \in SUBSET DOMAIN w.g_stubs, NEW t
    PROVE  /\ StubsFor(w, t, S) \in Nat /\ StubsFor(w, t, DOMAIN w.g_stubs \ S) \in Nat
           /\ CountOf(w.g_stubs, t) = StubsFor(w, t, S) + StubsFor(w, t, DOMAIN w.g_stubs \ S)
<1> DEFINE D == DOMAIN w.g_stubs
           A == {id \in S : w.g_stubs[id] = t}
           B == {id \in D \ S : w.g_stubs[id] = t}
           C == {id \in D : w.g_stubs[id] = t}
<1>1. IsFiniteSet(C)
  <2>1. D \subseteq 1..w.next_id /\ w.next_id \in Nat
    BY EndFacts DEF BridgeOk, Bridge
  <2> QED
    BY <2>1, CountIsNat
<1>2. A \subseteq C /\ B \subseteq C /\ C = A \cup B /\ A \cap B = {}
  OBVIOUS
<1>3. /\ StubsFor(w, t, S) = Cardinality(A) /\ StubsFor(w, t, D \ S) = Cardinality(B)
      /\ CountOf(w.g_stubs, t) = Cardinality(C)
  BY DEF StubsFor, CountOf
<1> HIDE DEF A, B, C
<1>4. IsFiniteSet(A) /\ IsFiniteSet(B)
  BY <1>1, <1>2, FS_Subset
<1>5. Cardinality(A) \in Nat /\ Cardinality(B) \in Nat /\ Cardinality({}) = 0
  BY <1>4, FS_CardinalityType, FS_EmptySet
<1>6. Cardinality(A \cup B) = Cardinality(A) + Cardinality(B) - Cardinality(A \cap B)
  BY <1>4, FS_Union
<1> QED
  BY <1>2, <1>3, <1>5, <1>6

LEMMA DeactivatedOk ==
    ASSUME NEW w, NEW x, NEW g, BridgeOk("wrapper", w, x, g), Nats("wrapper", x),
           NEW S \in SUBSET DOMAIN w.g_stubs
    PROVE  /\ BridgeOk("wrapper", Deactivated(w, S), x, g)
           /\ Deactivated(w, S).is_valid \subseteq w.is_valid
           /\ Deactivated(w, S).is_valid \subseteq Deactivated(w, S).crossed
<1> DEFINE e == "wrapper"
           D == DOMAIN w.g_stubs
           rc == [t \in Objects(e) |-> w.referenceCount[t] - StubsFor(w, t, S)]
           lo == [t \in Objects(e) |-> w.lost[t] + StubsFor(w, t, D \ S)]
           V == w.is_valid \ Range(w.g_proxies)
           b == Deactivated(w, S)
<1>1. e \in Ends /\ w \in Bridge(e) /\ Exact(e, w, x) /\ Proxies(e, w, g)
  BY BridgeParts DEF Ends
<1>2. /\ w.referenceCount \in [Objects(e) -> Int] /\ w.owned \in [Objects(e) -> Nat]
      /\ w.lost \in [Objects(e) -> Nat] /\ w.is_valid \in SUBSET Proxy(e) /\ w.next_id \in 0..MaxId(e)
      /\ w.crossed \in SUBSET Proxy(e)
  BY <1>1, BridgeFields
<1>3. \A t : StubsFor(w, t, S) \in Nat /\ StubsFor(w, t, D \ S) \in Nat
             /\ CountOf(w.g_stubs, t) = StubsFor(w, t, S) + StubsFor(w, t, D \ S)
  BY StubsSplit
<1>4. rc \in [Objects(e) -> Int] /\ lo \in [Objects(e) -> Nat] /\ V \in SUBSET Proxy(e)
  <2>1. \A t \in Objects(e) : w.referenceCount[t] - StubsFor(w, t, S) \in Int
    BY <1>2, <1>3
  <2>2. \A t \in Objects(e) : w.lost[t] + StubsFor(w, t, D \ S) \in Nat
    <3> SUFFICES ASSUME NEW t \in Objects(e) PROVE w.lost[t] + StubsFor(w, t, D \ S) \in Nat
      OBVIOUS
    <3>1. w.lost[t] \in Nat /\ StubsFor(w, t, D \ S) \in Nat
      BY <1>2, <1>3
    <3> HIDE DEF D
    <3> QED
      BY <3>1
  <2> HIDE DEF D
  <2> QED
    BY <1>2, <2>1, <2>2
<1>5. \A A, B : <<>> \in PartialFunctions(A, B)
  <2> SUFFICES ASSUME NEW A, NEW B PROVE <<>> \in PartialFunctions(A, B)
    OBVIOUS
  <2>1. <<>> \in [{} -> B] /\ {} \in SUBSET A
    OBVIOUS
  <2> QED
    BY <2>1 DEF PartialFunctions
<1> DEFINE v == npobject_bridge_destroy(w)
<1>a. /\ v \in Bridge(e) /\ v.referenceCount = w.referenceCount /\ v.owned = w.owned
      /\ v.lost = w.lost /\ v.g_stubs = <<>> /\ v.g_proxies = <<>>
      /\ v.is_valid = w.is_valid /\ v.next_id = w.next_id /\ v.crossed = w.crossed
  BY <1>1, <1>5 DEF npobject_bridge_destroy, Bridge
<1>b. b = [v EXCEPT !.is_valid = V, !.referenceCount = rc, !.lost = lo]
  <2>2. DOMAIN w.referenceCount = Objects(e) /\ DOMAIN w.lost = Objects(e)
    BY <1>2
  <2>4. /\ v.is_valid \ Range(w.g_proxies) = V
        /\ [t \in DOMAIN v.referenceCount |-> v.referenceCount[t] - StubsFor(w, t, S)] = rc
        /\ [t \in DOMAIN v.lost |-> v.lost[t] + StubsFor(w, t, D \ S)] = lo
    BY <1>a, <2>2
  <2> QED
    BY <2>4, Zenon DEF Deactivated
<1>6. /\ b \in Bridge(e) /\ b.referenceCount = rc /\ b.owned = w.owned /\ b.lost = lo
      /\ b.g_stubs = <<>> /\ b.is_valid = V /\ b.next_id = w.next_id /\ b.crossed = w.crossed
  <2> HIDE DEF rc, lo, V, v, b
  <2> QED
    BY <1>4, <1>a, <1>b DEF Bridge
<1>8. \A t : CountOf(b.g_stubs, t) = 0
  <2>1. \A t : {id \in DOMAIN b.g_stubs : b.g_stubs[id] = t} = {}
    BY <1>6
  <2> QED
    BY <2>1, FS_EmptySet DEF CountOf
<1>9. Exact(e, b, x)
  <2> SUFFICES ASSUME NEW t \in Objects(e)
               PROVE  b.referenceCount[t] = b.owned[t] + b.lost[t] + x[t] + CountOf(b.g_stubs, t)
    BY DEF Exact
  <2>1. /\ w.owned[t] \in Nat /\ w.lost[t] \in Nat /\ x[t] \in Nat
        /\ w.referenceCount[t] = w.owned[t] + w.lost[t] + x[t] + CountOf(w.g_stubs, t)
    BY <1>1, CountsCover
  <2>2. b.referenceCount[t] = w.referenceCount[t] - StubsFor(w, t, S)
        /\ b.owned[t] = w.owned[t] /\ b.lost[t] = w.lost[t] + StubsFor(w, t, D \ S)
    BY <1>6
  <2>3. /\ StubsFor(w, t, S) \in Nat /\ StubsFor(w, t, D \ S) \in Nat
        /\ CountOf(w.g_stubs, t) = StubsFor(w, t, S) + StubsFor(w, t, D \ S)
    BY <1>3
  <2>4. CountOf(b.g_stubs, t) = 0
    BY <1>8
  <2> HIDE DEF b, D
  <2> QED
    BY <2>1, <2>2, <2>3, <2>4
<1>10. \A p \in Proxy(e) : b.referenceCount[p] = w.referenceCount[p]
  <2> SUFFICES ASSUME NEW p \in Proxy(e) PROVE b.referenceCount[p] = w.referenceCount[p]
    OBVIOUS
  <2>1. CountOf(w.g_stubs, p) = 0
    BY <1>1, NoStubForProxy
  <2>2. StubsFor(w, p, S) = 0
    BY <1>3, <2>1
  <2>3. p \in Objects(e)
    BY <1>1, ProxyFacts
  <2>4. w.referenceCount[p] \in Int
    BY <1>2, <2>3
  <2> QED
    BY <1>6, <2>2, <2>3, <2>4
<1>11. V \subseteq w.crossed
  <2> SUFFICES ASSUME NEW p \in V, p \notin w.crossed PROVE FALSE
    OBVIOUS
  <2>1. p.id \in DOMAIN w.g_proxies /\ w.g_proxies[p.id] = p
    BY <1>1 DEF Proxies
  <2>2. p \in Range(w.g_proxies)
    BY <2>1 DEF Range
  <2> QED
    BY <2>2
<1> HIDE DEF b, V
<1>12. V \subseteq w.is_valid
  BY DEF V
<1>13. Proxies(e, b, g)
  <2>1. ASSUME NEW p \in Proxy(e), b.referenceCount[p] > 0
        PROVE  p.gen <= g
    BY <1>1, <1>10, <2>1 DEF Proxies
  <2>2. ASSUME NEW p \in b.is_valid
        PROVE  b.referenceCount[p] > 0 /\ p \in b.crossed
    <3>1. p \in w.is_valid /\ p \in Proxy(e)
      BY <1>2, <1>6, <1>12
    <3>2. w.referenceCount[p] > 0
      BY <1>1, <3>1 DEF Proxies
    <3> QED
      BY <1>6, <1>10, <1>11, <3>1, <3>2
  <2>3. g = 1 => b.crossed = {}
    BY <1>1, <1>6 DEF Proxies
  <2> QED
    BY <2>1, <2>2, <2>3 DEF Proxies
<1>14. BridgeOk(e, b, x, g)
  <2>1. DOMAIN b.g_stubs \subseteq 1..b.next_id
    BY <1>6
  <2> QED
    BY <1>6, <1>9, <1>13, <2>1, BridgeParts
<1> QED
  BY <1>6, <1>11, <1>12, <1>14 DEF b

-----------------------------------------------------------------------------
(* The steps: one lemma per action.                                          *)

\* x with k references to t of e more.
Plus(e, x, t, k) ==
    [d \in Ends |-> [u \in Objects(d) |-> x[d][u] + (IF d = e /\ u = t THEN k ELSE 0)]]

LEMMA PlusMoves ==
    ASSUME NEW e \in Ends, NEW x, \A d \in Ends : Nats(d, x[d]), NEW t \in Objects(e),
           NEW k \in Int, x[e][t] + k \in Nat
    PROVE  LET y == Plus(e, x, t, k)
           IN  /\ Moves(e, x, y, t, k) /\ Moves(e, y, x, t, -k)
               /\ \A d \in Ends : Nats(d, y[d])
               /\ y[e][t] = x[e][t] + k
<1> DEFINE y == Plus(e, x, t, k)
<1>1. \A d \in Ends : \A u \in Objects(d) : y[d][u] = x[d][u] + (IF d = e /\ u = t THEN k ELSE 0)
  BY DEF Plus
<1>2. \A d \in Ends : \A u \in Objects(d) : x[d][u] \in Nat
  BY DEF Nats
<1> HIDE DEF y
<1>3. \A u \in Objects(e) : y[e][u] = x[e][u] + (IF u = t THEN k ELSE 0)
  BY <1>1
<1>4. \A u \in Objects(Other(e)) : y[Other(e)][u] = x[Other(e)][u]
  BY <1>1, <1>2, EndFacts
<1>5. \A u \in Objects(e) : y[e][u] \in Nat /\ x[e][u] = y[e][u] + (IF u = t THEN -k ELSE 0)
  BY <1>2, <1>3
<1>6. Other(e) \in Ends /\ \A d \in Ends : d = e \/ d = Other(e)
  BY EndFacts DEF Ends
<1>7. \A d \in Ends : Nats(d, y[d])
  BY <1>2, <1>4, <1>5, <1>6 DEF Nats
<1>8. Moves(e, x, y, t, k)
  BY <1>3, <1>4, <1>7 DEF Moves, Adds
<1>9. Moves(e, y, x, t, -k)
  BY <1>5, <1>4 DEF Moves, Adds
<1> QED
  BY <1>3, <1>7, <1>8, <1>9 DEF y

LEMMA InvariantParts ==
    ASSUME BridgeInvariant
    PROVE  /\ World(heap, HeldBy(stack), gen, viewer) /\ StackOk(stack, gen, viewer)
           /\ gen \in 1..MaxGen /\ gen \in Nat
           /\ \A d \in Ends : Nats(d, HeldBy(stack)[d])
           /\ \A e \in Ends : Control(e) => viewer = "up" \/ e = "wrapper"
           /\ \A e \in Ends : \A t \in Objects(e) : HeldBy(stack)[e][t] = Held(e, t)
           /\ \A e \in Ends : \A t \in InUse(e) : t \in Objects(e) /\ heap[e].referenceCount[t] > 0
           /\ \A e \in Ends : \A t \in Objects(e) : heap[e].owned[t] \in Nat
<1> DEFINE x == HeldBy(stack)
<1>1. World(heap, x, gen, viewer) /\ StackOk(stack, gen, viewer) /\ gen \in 1..MaxGen
  BY DEF BridgeInvariant
<1>2. gen \in Nat
  BY <1>1, ConstantsAssumption
<1>3. \A e \in Ends : Control(e) => viewer = "up" \/ e = "wrapper"
  BY DEF Control, Ends
<1>4. \A e \in Ends : \A t \in Objects(e) : x[e][t] = Held(e, t)
  BY DEF HeldBy, Held
<1> HIDE DEF x
<1>5. \A d \in Ends : Nats(d, x[d])
  BY <1>1, WorldParts
<1>6. ASSUME NEW e \in Ends, NEW t \in Objects(e)
      PROVE  /\ heap[e].owned[t] \in Nat
             /\ heap[e].owned[t] > 0 \/ Held(e, t) > 0 => heap[e].referenceCount[t] > 0
  <2>1. BridgeOk(e, heap[e], x[e], gen) /\ Nats(e, x[e])
    BY <1>1, WorldParts
  <2>2. /\ heap[e].referenceCount[t] \in Nat /\ heap[e].owned[t] \in Nat /\ x[e][t] \in Nat
        /\ heap[e].referenceCount[t] >= heap[e].owned[t] + x[e][t]
    BY <2>1, CountsCover
  <2> QED
    BY <2>2, <1>4
<1> QED
  BY <1>1, <1>2, <1>3, <1>4, <1>5, <1>6 DEF x, InUse

\* What is left to show of a step that asserts nothing.
LEMMA InvariantKept ==
    ASSUME BridgeInvariant, NEW h, NEW s, heap' = h, stack' = s, UNCHANGED <<gen, viewer, asserted>>,
           World(h, HeldBy(s), gen, viewer), StackOk(s, gen, viewer)
    PROVE  BridgeInvariant'
<1>1. World(heap', HeldBy(stack'), gen', viewer') /\ StackOk(stack', gen', viewer')
  OBVIOUS
<1>2. gen' \in 1..MaxGen /\ viewer' \in {"up", "dead", "killed"} /\ asserted' \subseteq {"viewer"}
  BY DEF BridgeInvariant
<1> QED
  BY <1>1, <1>2 DEF BridgeInvariant

LEMMA GiveShape ==
    ASSUME NEW e \in Ends, NEW h, h = [d \in Ends |-> h[d]], h[e] \in Bridge(e), NEW t, NEW n
    PROVE  [h EXCEPT ![e].owned[t] = n] = Give(h, e, t, n)
  BY BridgeFields DEF Give, WithOwned

LEMMA CreateShape ==
    ASSUME NEW e \in Ends, NEW h, h = [d \in Ends |-> h[d]], h[e] \in Bridge(e), NEW t \in Objects(e),
           h[e].referenceCount[t] = 0
    PROVE  [h EXCEPT ![e].referenceCount[t] = 1, ![e].owned[t] = 1] = Give(RetainObject(h, e, t), e, t, 1)
<1> DEFINE r == RetainObject(h, e, t)
           b == WithCount(h[e], t, h[e].referenceCount[t] + 1)
<1>1. r = Heap2(e, b, h[Other(e)])
  BY RetainShape
<1>2. b = WithCount(h[e], t, 1)
  OBVIOUS
<1>3. r[e] = b /\ r = [h EXCEPT ![e] = b]
  BY <1>1, Heap2Facts, Heap2Shape
<1>4. [h EXCEPT ![e].referenceCount[t] = 1, ![e].owned[t] = 1]
        = [h EXCEPT ![e] = WithOwned(WithCount(h[e], t, 1), [h[e].owned EXCEPT ![t] = 1])]
  BY DEF WithOwned, WithCount
<1>5. b.owned = h[e].owned
  BY <1>2, BridgeFields DEF WithCount, Bridge
<1> HIDE DEF r, b
<1>6. Give(r, e, t, 1) = [r EXCEPT ![e] = WithOwned(b, [b.owned EXCEPT ![t] = 1])]
  BY <1>3 DEF Give
<1>7. [r EXCEPT ![e] = WithOwned(b, [b.owned EXCEPT ![t] = 1])]
        = [h EXCEPT ![e] = WithOwned(b, [b.owned EXCEPT ![t] = 1])]
  BY <1>3
<1> QED
  BY <1>2, <1>4, <1>5, <1>6, <1>7 DEF r

LEMMA CreateObjectStep ==
    ASSUME BridgeInvariant, NEW e \in Ends, NEW t \in Local(e), CreateObject(e, t)
    PROVE  BridgeInvariant'
<1> DEFINE x == HeldBy(stack)
           y == Plus(e, x, t, 1)
           h1 == RetainObject(heap, e, t)
           h2 == Give(h1, e, t, 1)
<1>1. /\ World(heap, x, gen, viewer) /\ StackOk(stack, gen, viewer)
      /\ \A d \in Ends : Nats(d, x[d]) /\ (viewer = "up" \/ e = "wrapper")
  BY InvariantParts DEF CreateObject
<1>2. t \in Objects(e) /\ t \notin Proxy(e)
  BY ProxyFacts
<1> HIDE DEF x
<1>3. Moves(e, x, y, t, 1) /\ Moves(e, y, x, t, -1)
  <2>1. x[e][t] + 1 \in Nat
    BY <1>1, <1>2 DEF Nats
  <2> QED
    BY <1>1, <1>2, <2>1, PlusMoves
<1> HIDE DEF y
<1>4. World(h1, y, gen, viewer) /\ h1[e].owned = heap[e].owned
  BY <1>1, <1>2, <1>3, RetainWorld
<1>5. heap[e].referenceCount[t] = 0 /\ heap[e].owned[t] = 0
  <2>1. BridgeOk(e, heap[e], x[e], gen) /\ Nats(e, x[e])
    BY <1>1, WorldParts
  <2>2. /\ heap[e].referenceCount[t] \in Nat /\ heap[e].owned[t] \in Nat /\ x[e][t] \in Nat
        /\ heap[e].referenceCount[t] >= heap[e].owned[t] + x[e][t]
    BY <1>2, <2>1, CountsCover
  <2>3. heap[e].referenceCount[t] = 0
    BY DEF CreateObject
  <2> QED
    BY <2>2, <2>3
<1>6. heap' = h2
  <2>1. heap = [d \in Ends |-> heap[d]] /\ heap[e] \in Bridge(e)
    BY <1>1, WorldParts
  <2> QED
    BY <1>2, <1>5, <2>1, CreateShape DEF CreateObject
<1>7. World(h2, x, gen, viewer)
  <2>1. Moves(e, y, x, t, h1[e].owned[t] - 1)
    BY <1>3, <1>4, <1>5
  <2> HIDE DEF h1
  <2> QED
    BY <1>1, <1>2, <1>4, <2>1, OwnedWorld
<1> HIDE DEF h1, h2
<1>8. stack' = stack /\ UNCHANGED <<gen, viewer, asserted>>
  BY DEF CreateObject
<1> QED
  BY <1>1, <1>6, <1>7, <1>8, InvariantKept DEF x

LEMMA RetainStep ==
    ASSUME BridgeInvariant, NEW e \in Ends, NEW t \in Objects(e), Retain(e, t)
    PROVE  BridgeInvariant'
<1> DEFINE x == HeldBy(stack)
           y == Plus(e, x, t, 1)
           n == heap[e].owned[t] + 1
           h1 == RetainObject(heap, e, t)
           h2 == Give(h1, e, t, n)
<1>1. /\ World(heap, x, gen, viewer) /\ StackOk(stack, gen, viewer)
      /\ \A d \in Ends : Nats(d, x[d]) /\ (viewer = "up" \/ e = "wrapper")
      /\ heap[e].referenceCount[t] > 0 /\ heap[e].owned[t] \in Nat
  BY InvariantParts DEF Retain
<1> HIDE DEF x
<1>2. Moves(e, x, y, t, 1) /\ Moves(e, y, x, t, -1)
  <2>1. x[e][t] + 1 \in Nat
    BY <1>1 DEF Nats
  <2> QED
    BY <1>1, <2>1, PlusMoves
<1> HIDE DEF y
<1>3. World(h1, y, gen, viewer) /\ h1[e].owned = heap[e].owned
  BY <1>1, <1>2, RetainWorld
<1>4. heap' = h2
  <2>1. h1 = [d \in Ends |-> h1[d]] /\ h1[e] \in Bridge(e)
    BY <1>3, WorldParts
  <2>2. heap' = [h1 EXCEPT ![e].owned[t] = h1[e].owned[t] + 1]
    BY DEF Retain
  <2> HIDE DEF h1
  <2> QED
    BY <1>3, <2>1, <2>2, GiveShape
<1>5. n \in Nat /\ Moves(e, y, x, t, h1[e].owned[t] - n)
  <2>1. h1[e].owned[t] - n = -1
    BY <1>1, <1>3
  <2> QED
    BY <1>1, <1>2, <2>1
<1> HIDE DEF h1, n
<1>6. World(h2, x, gen, viewer)
  BY <1>1, <1>3, <1>5, OwnedWorld
<1> HIDE DEF h2
<1>7. stack' = stack /\ UNCHANGED <<gen, viewer, asserted>>
  BY DEF Retain
<1> QED
  BY <1>1, <1>4, <1>6, <1>7, InvariantKept DEF x

\* A reference of the browser or the plugin, that is about to go.
LEMMA TakeWorld ==
    ASSUME NEW h, NEW x, NEW g, NEW v, World(h, x, g, v), NEW e \in Ends, v = "up" \/ e = "wrapper",
           NEW t \in Objects(e), h[e].owned[t] > 0
    PROVE  LET o == [h[e].owned EXCEPT ![t] = @ - 1]
               h1 == [h EXCEPT ![e].owned = o]
               y == Plus(e, x, t, 1)
           IN  /\ World(h1, y, g, v) /\ [h EXCEPT ![e].owned[t] = @ - 1] = h1
               /\ SameTables(h1[e], h[e]) /\ h1[e].referenceCount = h[e].referenceCount
               /\ Moves(e, x, y, t, 1) /\ Moves(e, y, x, t, -1) /\ y[e][t] >= 1
               /\ \A d \in Ends : Nats(d, x[d]) /\ Nats(d, y[d])
<1> DEFINE y == Plus(e, x, t, 1)
           n == h[e].owned[t] - 1
           o == [h[e].owned EXCEPT ![t] = n]
           h1 == Give(h, e, t, n)
<1>1. /\ h = [d \in Ends |-> h[d]] /\ h[e] \in Bridge(e) /\ \A d \in Ends : Nats(d, x[d])
  BY WorldParts
<1>2. h[e].owned[t] \in Nat /\ n \in Nat /\ h[e].owned[t] - n = 1
  BY <1>1, BridgeFields
<1>3. /\ Moves(e, x, y, t, 1) /\ Moves(e, y, x, t, -1) /\ y[e][t] >= 1
      /\ \A d \in Ends : Nats(d, y[d])
  <2>1. x[e][t] \in Nat /\ x[e][t] + 1 \in Nat
    BY <1>1 DEF Nats
  <2>2. y[e][t] = x[e][t] + 1 /\ Moves(e, x, y, t, 1) /\ Moves(e, y, x, t, -1)
        /\ \A d \in Ends : Nats(d, y[d])
    BY <1>1, <2>1, PlusMoves
  <2> HIDE DEF y
  <2> QED
    BY <2>1, <2>2
<1> HIDE DEF y
<1>4. Moves(e, x, y, t, h[e].owned[t] - n)
  BY <1>2, <1>3
<1> HIDE DEF n, o
<1>5. World(h1, y, g, v) /\ SameTables(h1[e], h[e]) /\ h1[e].referenceCount = h[e].referenceCount
  <2>1. World(h, x, g, v) /\ (v = "up" \/ e = "wrapper") /\ n \in Nat
    BY <1>2
  <2>2. LET h2 == Give(h, e, t, n)
        IN  /\ World(h2, y, g, v) /\ SameTables(h2[e], h[e])
            /\ h2[e].referenceCount = h[e].referenceCount
            /\ h2[e].owned = [h[e].owned EXCEPT ![t] = n]
            /\ h2[Other(e)] = h[Other(e)]
    BY <2>1, <1>4, OwnedWorld
  <2> QED
    BY <2>2
<1>6. [h EXCEPT ![e].owned[t] = n] = h1
  BY <1>1, GiveShape
<1> USE DEF o
<1>7. [h EXCEPT ![e].owned[t] = n] = [h EXCEPT ![e].owned = o]
  OBVIOUS
<1>8. [h EXCEPT ![e].owned[t] = @ - 1] = [h EXCEPT ![e].owned[t] = n]
  BY DEF n
<1>9. o = [h[e].owned EXCEPT ![t] = @ - 1]
  BY DEF n
<1> HIDE DEF h1
<1> QED
  BY <1>1, <1>3, <1>5, <1>6, <1>7, <1>8, <1>9 DEF y

LEMMA ReleaseStep ==
    ASSUME BridgeInvariant, NEW e \in Ends, NEW t \in Objects(e), Release(e, t)
    PROVE  BridgeInvariant'
<1> DEFINE x == HeldBy(stack)
           y == Plus(e, x, t, 1)
           h1 == [heap EXCEPT ![e].owned[t] = @ - 1]
           h2 == ReleaseObject(h1, e, t)
<1>1. /\ World(heap, x, gen, viewer) /\ StackOk(stack, gen, viewer)
      /\ (viewer = "up" \/ e = "wrapper") /\ heap[e].owned[t] > 0
  BY InvariantParts DEF Release
<1> HIDE DEF x
<1>2. /\ World(h1, y, gen, viewer) /\ Moves(e, y, x, t, -1) /\ y[e][t] >= 1
  BY <1>1, TakeWorld
<1> HIDE DEF y, h1
<1>3. World(h2, x, gen, viewer)
  BY <1>2, ReleaseWorld
<1>4. heap' = h2 /\ stack' = stack /\ UNCHANGED <<gen, viewer, asserted>>
  BY DEF Release, h1
<1> HIDE DEF h2
<1> QED
  BY <1>1, <1>3, <1>4, InvariantKept DEF x

Invalidated(h, p) ==
    [h EXCEPT !["wrapper"].is_valid = @ \ {p},
              !["wrapper"].crossed = @ \cup Namesakes(h["wrapper"], p)]

LEMMA InvalidateShape ==
    ASSUME NEW w \in Bridge("wrapper"), NEW c \in Bridge("viewer"), NEW p
    PROVE  LET b == WithProxies(w, w.g_proxies, w.is_valid \ {p}, w.crossed \cup Namesakes(w, p))
               h1 == Invalidated(Heap2("wrapper", w, c), p)
           IN  /\ viewer = "up" /\ p.id \in DOMAIN c.g_stubs =>
                     Deallocate(h1, "wrapper", p) = Heap2("wrapper", b, DropStub(c, p.id, 0))
               /\ ~ (viewer = "up" /\ p.id \in DOMAIN c.g_stubs) =>
                     Deallocate(h1, "wrapper", p) = Heap2("wrapper", b, c)
<1> DEFINE b == WithProxies(w, w.g_proxies, w.is_valid \ {p}, w.crossed \cup Namesakes(w, p))
           h1 == Invalidated(Heap2("wrapper", w, c), p)
           h2 == Heap2("wrapper", b, c)
<1>1. "wrapper" \in Ends /\ "viewer" \in Ends /\ Other("wrapper") = "viewer" /\ Other("viewer") = "wrapper"
  BY EndFacts DEF Ends
<1>2. h1 = h2
  <2> DEFINE b1 == [w EXCEPT !.is_valid = @ \ {p}, !.crossed = @ \cup Namesakes(w, p)]
  <2>1. b1 = b
    BY DEF WithProxies, Bridge
  <2>2. Heap2("wrapper", w, c) = [d \in Ends |-> IF d = "wrapper" THEN w ELSE c]
    BY DEF Heap2
  <2>3. h1 = [d \in Ends |-> IF d = "wrapper" THEN b1 ELSE c]
    BY <1>1, <2>2 DEF Invalidated
  <2> HIDE DEF b, b1
  <2> QED
    BY <2>1, <2>3 DEF Heap2
<1> HIDE DEF b
<1>3. /\ h2["viewer"] = c /\ h2["wrapper"] = b /\ h2 = [d \in Ends |-> h2[d]]
  <2>1. h2 = [d \in Ends |-> h2[d]]
    BY DEF Heap2
  <2> QED
    BY <1>1, <2>1, Heap2Facts
<1>4. ASSUME viewer = "up", p.id \in DOMAIN c.g_stubs
      PROVE  Deallocate(h1, "wrapper", p) = Heap2("wrapper", b, DropStub(c, p.id, 0))
  <2>1. Deallocate(h1, "wrapper", p) = DestroyStub(h2, "viewer", p.id)
    BY <1>1, <1>2, <1>3, <1>4 DEF Deallocate
  <2> HIDE DEF h2
  <2>2. DestroyStub(h2, "viewer", p.id) = Heap2("viewer", DropStub(c, p.id, 0), b)
    BY <1>1, <1>3, <1>4, DestroyStubShape
  <2>3. Heap2(Other("wrapper"), DropStub(c, p.id, 0), b) = Heap2("wrapper", b, DropStub(c, p.id, 0))
    BY <1>1, Heap2Facts
  <2> QED
    BY <1>1, <2>1, <2>2, <2>3
<1>5. ASSUME ~ (viewer = "up" /\ p.id \in DOMAIN c.g_stubs)
      PROVE  Deallocate(h1, "wrapper", p) = Heap2("wrapper", b, c)
  BY <1>1, <1>2, <1>3, <1>5 DEF Deallocate
<1> QED
  BY <1>4, <1>5 DEF b

LEMMA InvalidateStep ==
    ASSUME BridgeInvariant, NEW p \in Proxy("wrapper"), Invalidate(p)
    PROVE  BridgeInvariant'
<1> DEFINE x == HeldBy(stack)
           w == heap["wrapper"]
           c == heap["viewer"]
           V == w.is_valid \ {p}
           K == w.crossed \cup Namesakes(w, p)
           b == WithProxies(w, w.g_proxies, V, K)
           h1 == Invalidated(heap, p)
           h2 == Deallocate(h1, "wrapper", p)
<1>1. /\ World(heap, x, gen, viewer) /\ StackOk(stack, gen, viewer)
      /\ \A d \in Ends : Nats(d, x[d])
  BY InvariantParts
<1>2. "wrapper" \in Ends /\ "viewer" \in Ends /\ Other("wrapper") = "viewer" /\ Other("viewer") = "wrapper"
  BY EndFacts DEF Ends
<1> HIDE DEF x
<1>3. /\ heap = [d \in Ends |-> heap[d]]
      /\ w \in Bridge("wrapper") /\ BridgeOk("wrapper", w, x["wrapper"], gen)
      /\ c \in Bridge("viewer") /\ BridgeOk("viewer", c, x["viewer"], gen)
      /\ viewer = "up" => LinkOk("wrapper", w, c, gen) /\ LinkOk("viewer", c, w, gen)
  BY <1>1, <1>2, WorldParts
<1>4. p \in w.is_valid /\ w.is_valid \in SUBSET Proxy("wrapper")
  BY <1>2, <1>3, BridgeFields DEF Invalidate
<1>5. heap' = h2 /\ stack' = stack /\ UNCHANGED <<gen, viewer, asserted>>
  BY DEF Invalidate, Invalidated
<1>6. /\ viewer = "up" /\ p.id \in DOMAIN c.g_stubs => h2 = Heap2("wrapper", b, DropStub(c, p.id, 0))
      /\ ~ (viewer = "up" /\ p.id \in DOMAIN c.g_stubs) => h2 = Heap2("wrapper", b, c)
  <2>1. heap = Heap2("wrapper", w, c)
    BY <1>2, <1>3, Heap2Shape
  <2>2. h1 = Invalidated(Heap2("wrapper", w, c), p)
    BY <2>1
  <2> HIDE DEF h1, w, c
  <2>3. LET h3 == Invalidated(Heap2("wrapper", w, c), p)
        IN  /\ viewer = "up" /\ p.id \in DOMAIN c.g_stubs =>
                  Deallocate(h3, "wrapper", p) = Heap2("wrapper", b, DropStub(c, p.id, 0))
            /\ ~ (viewer = "up" /\ p.id \in DOMAIN c.g_stubs) =>
                  Deallocate(h3, "wrapper", p) = Heap2("wrapper", b, c)
    BY <1>3, InvalidateShape
  <2> QED
    BY <2>2, <2>3
<1> HIDE DEF h1, h2, w, c
<1>7. /\ BridgeOk("wrapper", b, x["wrapper"], gen) /\ b.is_valid = V /\ b.crossed = K
      /\ b.g_stubs = w.g_stubs /\ b.next_id = w.next_id /\ b.referenceCount = w.referenceCount
  <2>1. V \in SUBSET w.is_valid
    OBVIOUS
  <2>2. K \in SUBSET Proxy("wrapper") /\ w.crossed \subseteq K
    <3>1. w.crossed \in SUBSET Proxy("wrapper")
      BY <1>2, <1>3, BridgeFields
    <3> QED
      BY <1>4, <3>1 DEF Namesakes
  <2>3. gen = 1 => K = {}
    <3> SUFFICES ASSUME gen = 1 PROVE K = {}
      OBVIOUS
    <3>1. BridgeOk("wrapper", w, x["wrapper"], 1)
      BY <1>3
    <3>2. Namesakes(w, p) = {}
      BY <1>2, <1>4, <3>1, FirstHasNoNamesakes
    <3>3. w.crossed = {}
      BY <3>1 DEF BridgeOk
    <3> QED
      BY <3>2, <3>3
  <2> HIDE DEF V, K
  <2> QED
    BY <1>3, <2>1, <2>2, <2>3, InvalidStep
<1>8. /\ IsWithout(b.is_valid, w.is_valid, p) /\ b.is_valid \subseteq w.is_valid
      /\ b.crossed = w.crossed \cup Namesakes(w, p)
  BY <1>7 DEF IsWithout
<1> HIDE DEF b, V, K
<1>9. \A q \in Proxy("wrapper") : b.referenceCount[q] > 0 => w.referenceCount[q] > 0
  BY <1>7
<1>10. World(h2, x, gen, viewer)
  <2>1. CASE viewer = "up" /\ p.id \in DOMAIN c.g_stubs
    <3> DEFINE c2 == DropStub(c, p.id, 0)
    <3>1. BridgeOk("viewer", c2, x["viewer"], gen) /\ StubDropped("viewer", c, c2, p.id)
      BY <1>1, <1>2, <1>3, <2>1, DropStubQuietly
    <3> HIDE DEF c2
    <3>2. /\ c2.next_id = c.next_id /\ IsWithout(DOMAIN c2.g_stubs, DOMAIN c.g_stubs, p.id)
          /\ c2.is_valid = c.is_valid /\ c2.crossed = c.crossed
          /\ \A q \in Proxy("viewer") : c2.referenceCount[q] > 0 => c.referenceCount[q] > 0
      BY <3>1 DEF StubDropped
    <3>3. LinkOk("wrapper", b, c2, gen)
      BY <1>2, <1>3, <1>8, <1>9, <2>1, <3>2, LinkWithoutBoth
    <3>4. LinkOk("viewer", c2, b, gen)
      BY <1>2, <1>3, <1>7, <2>1, <3>2, LinkKept
    <3>5. World(Heap2("wrapper", b, c2), x, gen, "up")
      BY <1>1, <1>2, <1>7, <3>1, <3>3, <3>4, WorldFromParts
    <3> QED
      BY <1>6, <2>1, <3>5 DEF c2
  <2>2. CASE viewer = "up" /\ p.id \notin DOMAIN c.g_stubs
    <3>1. LinkOk("wrapper", b, c, gen)
      BY <1>2, <1>3, <1>8, <1>9, <2>2, LinkWithout
    <3>2. LinkOk("viewer", c, b, gen)
      BY <1>2, <1>3, <1>7, <2>2, LinkKept
    <3>3. World(Heap2("wrapper", b, c), x, gen, "up")
      BY <1>1, <1>2, <1>3, <1>7, <3>1, <3>2, WorldFromParts
    <3> QED
      BY <1>6, <2>2, <3>3
  <2>3. CASE viewer # "up"
    <3>1. World(Heap2("wrapper", b, heap["viewer"]), x, gen, viewer)
      BY <1>1, <1>2, <1>7, <1>8, <2>3, WorldDown DEF w
    <3> QED
      BY <1>6, <2>3, <3>1 DEF c
  <2> QED
    BY <2>1, <2>2, <2>3
<1> QED
  BY <1>1, <1>5, <1>10, InvariantKept DEF x

\* And of one after which the viewer is gone.
LEMMA InvariantWithout ==
    ASSUME BridgeInvariant, NEW h, NEW s, NEW v \in {"dead", "killed"}, heap' = h, stack' = s,
           viewer' = v, gen' = gen, asserted' \subseteq {"viewer"},
           World(h, HeldBy(s), gen, v), StackOk(s, gen, v)
    PROVE  BridgeInvariant'
<1>1. World(heap', HeldBy(stack'), gen', viewer') /\ StackOk(stack', gen', viewer')
  OBVIOUS
<1>2. gen' \in 1..MaxGen /\ viewer' \in {"up", "dead", "killed"} /\ asserted' \subseteq {"viewer"}
  BY DEF BridgeInvariant
<1> QED
  BY <1>1, <1>2 DEF BridgeInvariant

LEMMA HeldByIs ==
    ASSUME NEW s
    PROVE  /\ \A e \in Ends : \A t \in Objects(e) : HeldBy(s)[e][t] = HeldIn(s, e, t)
           /\ \A e \in Ends : Nats(e, HeldBy(s)[e])
<1>1. \A e \in Ends : \A t \in Objects(e) : HeldBy(s)[e][t] = HeldIn(s, e, t)
  BY DEF HeldBy
<1>2. \A e \in Ends : \A t \in Objects(e) : HeldIn(s, e, t) \in Nat
  BY HeldIsNat
<1> QED
  BY <1>1, <1>2 DEF Nats

\* The viewer's process ends; the browser is left with b.
LEMMA OrphanedWorld ==
    ASSUME NEW s, NEW g, NEW u, StackOk(s, g, u), NEW b, NEW c,
           BridgeOk("wrapper", b, HeldBy(s)["wrapper"], g),
           NEW v, v # "up", v = "killed" => b.is_valid \subseteq b.crossed
    PROVE  /\ World(ViewerGone(Heap2("wrapper", b, c)), HeldBy(Orphans(s)), g, v)
           /\ StackOk(Orphans(s), g, v)
<1> DEFINE y == HeldBy(Orphans(s))
           o == Orphans(s)
<1>1. /\ StackOk(o, g, v)
      /\ \A t : HeldIn(o, "wrapper", t) = HeldIn(s, "wrapper", t) /\ HeldIn(o, "viewer", t) = 0
  BY OrphansKeep
<1>2. "wrapper" \in Ends /\ "viewer" \in Ends
  BY DEF Ends
<1> HIDE DEF o
<1>3. /\ \A t \in Objects("wrapper") : HeldBy(o)["wrapper"][t] = HeldBy(s)["wrapper"][t]
      /\ \A t \in Objects("viewer") : HeldBy(o)["viewer"][t] = 0
      /\ Nats("wrapper", HeldBy(o)["wrapper"])
  BY <1>1, <1>2, HeldByIs
<1>4. BridgeOk("wrapper", b, HeldBy(o)["wrapper"], g)
  BY <1>2, <1>3, SameCounts
<1>5. World(Heap2("wrapper", b, NewBridge("viewer")), HeldBy(o), g, v)
  BY <1>3, <1>4, GoneWorld
<1> QED
  BY <1>1, <1>5, GoneShape DEF o

LEMMA CallFacts ==
    ASSUME BridgeInvariant, NEW e \in Ends, NEW c \in Calls(e)
    PROVE  /\ c[1].result \in BOOLEAN
           /\ c[2] \in Seq(Objects(e)) /\ Len(c[2]) <= MaxArgs + 1
           /\ \A i \in 1..Len(c[2]) : Sendable(e, heap[e], c[2][i])
           /\ heap[e].next_id + LocalsTo(e, c[2], Len(c[2])) <= MaxId(e)
<1> DEFINE args == c[2]
<1>1. c[1] \in Methods(e) /\ args \in BoundedSeq(InUse(e), MaxArgs + 1) /\ Fits(e, args)
  BY DEF Calls
<1>2. \A m \in Methods(e) : m.result \in BOOLEAN
  <2>1. \A t, v : Method(t, v, TRUE).result \in BOOLEAN /\ Method(t, v, FALSE).result \in BOOLEAN
    BY DEF Method
  <2>2. \A m \in Methods("wrapper") : m.result \in BOOLEAN
    BY <2>1 DEF Methods, NPClass_HasMethod, NPClass_Invoke, NPClass_InvokeDefault,
         NPClass_HasProperty, NPClass_GetProperty, NPClass_SetProperty, NPClass_RemoveProperty,
         NPClass_Enumerate, NPClass_Construct, NPP_GetValue
  <2>3. \A m \in Methods("viewer") : m.result \in BOOLEAN
    BY <2>1 DEF Methods, NPN_Invoke, NPN_InvokeDefault, NPN_Evaluate, NPN_GetProperty,
         NPN_SetProperty, NPN_RemoveProperty, NPN_HasProperty, NPN_HasMethod, NPN_Enumerate,
         NPN_Construct, NPN_SetException, NPN_GetValue
  <2> QED
    BY <2>2, <2>3 DEF Ends
<1>3. args \in Seq(InUse(e)) /\ Len(args) <= MaxArgs + 1
  <2>1. PICK m \in 0..(MaxArgs + 1) : args \in [1..m -> InUse(e)]
    BY <1>1 DEF BoundedSeq, SeqOf
  <2>2. m \in Nat /\ m <= MaxArgs + 1
    BY <2>1, ConstantsAssumption
  <2> QED
    BY <2>1, <2>2
<1> HIDE DEF args
<1>4. \A t \in InUse(e) : t \in Objects(e) /\ Sendable(e, heap[e], t)
  <2>1. \A t \in InUse(e) : t \in Objects(e) /\ heap[e].referenceCount[t] > 0
    BY InvariantParts
  <2> QED
    BY <2>1 DEF Sendable
<1>5. args \in Seq(Objects(e)) /\ Len(args) \in Nat /\ DOMAIN args = 1..Len(args)
      /\ \A i \in 1..Len(args) : args[i] \in InUse(e)
  BY <1>3, <1>4
<1>6. heap[e].next_id + LocalsTo(e, args, Len(args)) <= MaxId(e)
  BY <1>1, <1>5 DEF Fits, LocalsTo
<1> QED
  BY <1>1, <1>2, <1>3, <1>4, <1>5, <1>6 DEF args

LEMMA CallWorld ==
    ASSUME BridgeInvariant, NEW e \in Ends, viewer = "up", NEW c \in Calls(e)
    PROVE  Through(e, heap[e], HeldBy(stack), c[2], Len(c[2]), TransferAll(heap, e, c[2]))
<1>1. World(heap, HeldBy(stack), gen, "up") /\ gen \in 1..MaxGen
  BY InvariantParts
<1>2. /\ c[2] \in Seq(Objects(e)) /\ \A i \in 1..Len(c[2]) : Sendable(e, heap[e], c[2][i])
      /\ heap[e].next_id + LocalsTo(e, c[2], Len(c[2])) <= MaxId(e)
  BY CallFacts
<1> QED
  BY <1>1, <1>2, TransferAllWorld

LEMMA CallAbortsStep ==
    ASSUME BridgeInvariant, NEW e \in Ends, CallAborts(e)
    PROVE  BridgeInvariant'
<1> DEFINE x == HeldBy(stack)
<1>1. PICK d \in Calls(e) : LET t == TransferAll(heap, e, d[2]) IN ~t.ok /\ Abort(Other(e), t.heap)
  BY DEF CallAborts
<1> DEFINE t == TransferAll(heap, e, d[2])
<1>2. viewer = "up" /\ stack' = Orphans(stack) /\ ~t.ok /\ Abort(Other(e), t.heap)
  BY <1>1 DEF CallAborts
<1>3. Through(e, heap[e], x, d[2], Len(d[2]), t)
  BY <1>2, CallWorld
<1>4. StackOk(stack, gen, viewer) /\ Other("wrapper") = "viewer"
  BY InvariantParts, EndFacts
<1> HIDE DEF t, x
<1>5. PICK b : AllArrived(e, b, x, Len(d[2]), t) \/ SomeAborted(e, b, x, t)
  BY <1>3 DEF Through
<1>6. SomeAborted(e, b, x, t)
  BY <1>2, <1>5 DEF AllArrived, Sent
<1>7. PICK c, s : t = NotSent(Heap2(e, b, c), s) /\ e = "wrapper" /\ BridgeOk(e, b, x[e], gen)
  BY <1>6 DEF SomeAborted
<1>8. t.heap = Heap2("wrapper", b, c)
  BY <1>7 DEF NotSent
<1> DEFINE h == ViewerGone(Heap2("wrapper", b, c))
<1>9. World(h, HeldBy(Orphans(stack)), gen, "dead") /\ StackOk(Orphans(stack), gen, "dead")
  BY <1>4, <1>7, OrphanedWorld DEF x
<1>10. heap' = h /\ viewer' = "dead" /\ gen' = gen /\ asserted' = asserted \cup {"viewer"}
  BY <1>2, <1>4, <1>7, <1>8 DEF Abort
<1>11. asserted' \subseteq {"viewer"}
  BY <1>10 DEF BridgeInvariant
<1> HIDE DEF h
<1> QED
  BY <1>2, <1>9, <1>10, <1>11, InvariantWithout

LEMMA CallStep ==
    ASSUME BridgeInvariant, NEW e \in Ends, Call(e)
    PROVE  BridgeInvariant'
<1> DEFINE x == HeldBy(stack)
<1>1. PICK d \in Calls(e) :
        LET t == TransferAll(heap, e, d[2])
        IN  /\ t.ok /\ heap' = t.heap
            /\ stack' = Append(stack, [callee |-> Other(e), gen |-> gen,
                                       result |-> d[1].result, args |-> t.got])
  BY DEF Call
<1> DEFINE t == TransferAll(heap, e, d[2])
           frame == [callee |-> Other(e), gen |-> gen, result |-> d[1].result, args |-> t.got]
<1>2. /\ viewer = "up" /\ Len(stack) < MaxDepth /\ t.ok /\ heap' = t.heap
      /\ stack' = Append(stack, frame) /\ UNCHANGED <<gen, viewer, asserted>>
  BY <1>1 DEF Call
<1>3. Through(e, heap[e], x, d[2], Len(d[2]), t) /\ d[1].result \in BOOLEAN /\ Len(d[2]) <= MaxArgs + 1
  BY <1>2, CallWorld, CallFacts
<1>4. StackOk(stack, gen, viewer) /\ Other(e) \in Ends /\ Other(e) # e /\ gen \in 1..MaxGen /\ gen \in Nat
  BY InvariantParts, EndFacts
<1> HIDE DEF t, x
<1>5. PICK b : AllArrived(e, b, x, Len(d[2]), t) \/ SomeAborted(e, b, x, t)
  BY <1>3 DEF Through
<1>6. AllArrived(e, b, x, Len(d[2]), t)
  BY <1>2, <1>5 DEF SomeAborted, NotSent
<1>7. PICK c : \E s \in Seq(Objects(Other(e))) :
         Len(s) = Len(d[2]) /\ t = Sent(Heap2(e, b, c), s) /\ World(Heap2(e, b, c), Got(e, x, s), gen, "up")
  BY <1>6 DEF AllArrived
<1>8. PICK s \in Seq(Objects(Other(e))) :
         Len(s) = Len(d[2]) /\ t = Sent(Heap2(e, b, c), s) /\ World(Heap2(e, b, c), Got(e, x, s), gen, "up")
  BY <1>7
<1> DEFINE h == Heap2(e, b, c)
<1>9. t.heap = h /\ t.got = s
  BY <1>8 DEF Sent
<1>10. FrameOk(frame, gen, viewer) /\ frame.callee = Other(e) /\ frame.args = s
  <2>1. s \in UNION {Seq(Objects(f)) : f \in Ends}
    BY <1>4, <1>8
  <2>2. frame \in Frame
    BY <1>3, <1>4, <1>9, <2>1 DEF Frame
  <2> QED
    BY <1>2, <1>3, <1>4, <1>8, <1>9, <2>2 DEF FrameOk
<1> HIDE DEF frame, h
<1>11. /\ StackOk(Append(stack, frame), gen, viewer)
       /\ \A f, u : HeldIn(Append(stack, frame), f, u) = HeldIn(stack, f, u) + Arguments(frame, f, u)
  BY <1>2, <1>4, <1>10, StackAppend
<1>12. \A f \in Ends : \A u \in Objects(f) : HeldBy(Append(stack, frame))[f][u] = Got(e, x, s)[f][u]
  <2> SUFFICES ASSUME NEW f \in Ends, NEW u \in Objects(f)
               PROVE  HeldBy(Append(stack, frame))[f][u] = Got(e, x, s)[f][u]
    OBVIOUS
  <2>1. HeldBy(Append(stack, frame))[f][u] = x[f][u] + Arguments(frame, f, u) /\ x[f][u] \in Nat
    BY <1>11, HeldByIs DEF x, Nats
  <2>2. CASE f = e
    <3>1. Arguments(frame, f, u) = 0 /\ Got(e, x, s)[f] = x[f]
      BY <1>4, <1>10, <2>2 DEF Arguments, Got
    <3> QED
      BY <2>1, <3>1
  <2>3. CASE f # e
    <3>1. f = Other(e)
      BY <1>4, <2>3 DEF Ends
    <3>2. Arguments(frame, f, u) = CountOf(s, u) /\ Got(e, x, s)[f][u] = x[f][u] + CountOf(s, u)
      BY <1>4, <1>10, <2>3, <3>1 DEF Arguments, Got
    <3> QED
      BY <2>1, <3>2
  <2> QED
    BY <2>2, <2>3
<1>13. World(h, HeldBy(Append(stack, frame)), gen, viewer)
  BY <1>2, <1>8, <1>12, WorldSame DEF h
<1>14. heap' = h
  BY <1>2, <1>9
<1> QED
  BY <1>2, <1>11, <1>13, <1>14, InvariantKept

\* The frame of the handler that runs.
LEMMA TopFacts ==
    ASSUME BridgeInvariant, NEW e \in Ends, Control(e), stack # <<>>
    PROVE  LET x == HeldBy(stack)
               y == HeldBy(Front(stack))
           IN  /\ StackOk(Front(stack), gen, viewer)
               /\ Top.args \in Seq(Objects(e)) /\ Top.gen \in 1..MaxGen /\ Top.gen <= gen
               /\ \A u \in Objects(e) : x[e][u] = y[e][u] + CountOf(Top.args, u)
               /\ \A u \in Objects(Other(e)) : x[Other(e)][u] = y[Other(e)][u]
               /\ \A d \in Ends : Nats(d, x[d]) /\ Nats(d, y[d])
<1> DEFINE x == HeldBy(stack)
           y == HeldBy(Front(stack))
<1>1. StackOk(stack, gen, viewer)
  BY InvariantParts
<1>2. Top.callee = e /\ Other(e) \in Ends /\ Other(e) # e
  BY EndFacts DEF Control
<1>3. /\ StackOk(Front(stack), gen, viewer) /\ FrameOk(Top, gen, viewer)
      /\ \A d, u : HeldIn(stack, d, u) = HeldIn(Front(stack), d, u) + Arguments(Top, d, u)
  BY <1>1, StackFront DEF Top
<1>4. Top.args \in Seq(Objects(e)) /\ Top.gen <= gen /\ Top \in Frame
  BY <1>2, <1>3 DEF FrameOk
<1>5. Top.gen \in 1..MaxGen
  BY <1>4 DEF Frame
<1>6. \A d \in Ends : Nats(d, x[d]) /\ Nats(d, y[d])
  BY HeldByIs
<1>7. \A d \in Ends : \A u \in Objects(d) : x[d][u] = y[d][u] + Arguments(Top, d, u)
  BY <1>3, HeldByIs
<1> HIDE DEF x, y
<1>8. \A u \in Objects(e) : x[e][u] = y[e][u] + CountOf(Top.args, u)
  BY <1>2, <1>7 DEF Arguments
<1>9. \A u \in Objects(Other(e)) : x[Other(e)][u] = y[Other(e)][u]
  <2> SUFFICES ASSUME NEW u \in Objects(Other(e)) PROVE x[Other(e)][u] = y[Other(e)][u]
    OBVIOUS
  <2>1. x[Other(e)][u] = y[Other(e)][u] + Arguments(Top, Other(e), u)
    BY <1>2, <1>7
  <2>2. Arguments(Top, Other(e), u) = 0 /\ y[Other(e)][u] \in Nat
    BY <1>2, <1>6 DEF Arguments, Nats
  <2> QED
    BY <2>1, <2>2
<1> QED
  BY <1>3, <1>4, <1>5, <1>6, <1>8, <1>9 DEF x, y

\* The arguments are released, and there is no result to send.
LEMMA AfterCallWorld ==
    ASSUME BridgeInvariant, NEW e \in Ends, Control(e), stack # <<>>
    PROVE  World(AfterCall(e, heap[e].owned), HeldBy(Front(stack)), gen, viewer)
<1> DEFINE x == HeldBy(stack)
           y == HeldBy(Front(stack))
<1>1. /\ Top.args \in Seq(Objects(e)) /\ Nats(e, y[e])
      /\ \A u \in Objects(e) : x[e][u] = y[e][u] + CountOf(Top.args, u)
      /\ \A u \in Objects(Other(e)) : x[Other(e)][u] = y[Other(e)][u]
  BY TopFacts
<1>2. World(heap, x, gen, viewer)
  BY InvariantParts
<1>3. [heap EXCEPT ![e].owned = heap[e].owned] = heap
  <2>1. heap = [d \in Ends |-> heap[d]] /\ heap[e] \in Bridge(e)
    BY <1>2, WorldParts
  <2>2. [heap[e] EXCEPT !.owned = heap[e].owned] = heap[e]
    BY <2>1 DEF Bridge
  <2> QED
    BY <2>1, <2>2
<1> HIDE DEF x, y
<1>4. World(ReleaseAll(heap, e, Top.args), y, gen, viewer)
  <2>1. PICK args \in Seq(Objects(e)) : args = Top.args
    BY <1>1
  <2>2. LET k == ReleaseAll(heap, e, args)
        IN  /\ World(k, y, gen, viewer) /\ k[e].owned = heap[e].owned /\ k[e].next_id = heap[e].next_id
            /\ \A p \in heap[e].is_valid : y[e][p] > 0 => p \in k[e].is_valid
    BY <1>1, <1>2, <2>1, ReleaseAllWorld
  <2> QED
    BY <2>1, <2>2
<1> QED
  BY <1>3, <1>4 DEF AfterCall, y

\* The arguments are released, and t is about to be sent with its reference.
LEMMA ResultWorld ==
    ASSUME BridgeInvariant, NEW e \in Ends, Control(e), stack # <<>>, NEW t \in Results(e)
    PROVE  LET y == HeldBy(Front(stack))
               z == Plus(e, y, t, 1)
               k == AfterCall(e, PassedOn(e, t))
           IN  /\ t \in Objects(e) /\ World(k, z, gen, viewer) /\ Moves(e, z, y, t, -1)
               /\ Sendable(e, k[e], t) /\ k[e].referenceCount[t] > 0
               /\ k[e].next_id + Stubs(e, t) <= MaxId(e)
               /\ \A d \in Ends : Nats(d, y[d])
<1> DEFINE x == HeldBy(stack)
           y == HeldBy(Front(stack))
           x1 == Plus(e, x, t, 1)
           z == Plus(e, y, t, 1)
           h1 == [heap EXCEPT ![e].owned = PassedOn(e, t)]
           k == ReleaseAll(h1, e, Top.args)
<1>1. /\ Top.args \in Seq(Objects(e))
      /\ \A u \in Objects(e) : x[e][u] = y[e][u] + CountOf(Top.args, u)
      /\ \A u \in Objects(Other(e)) : x[Other(e)][u] = y[Other(e)][u]
      /\ \A d \in Ends : Nats(d, x[d]) /\ Nats(d, y[d])
  BY TopFacts
<1>2. World(heap, x, gen, viewer) /\ (viewer = "up" \/ e = "wrapper")
  BY InvariantParts
<1>3. t \in Objects(e) /\ heap[e].owned[t] > 0 /\ t \in InUse(e) /\ Fits(e, <<t>>)
  BY InvariantParts DEF Results
<1> HIDE DEF x, y
<1>4. /\ World(h1, x1, gen, viewer) /\ SameTables(h1[e], heap[e]) /\ Moves(e, x, x1, t, 1)
  BY <1>2, <1>3, TakeWorld DEF PassedOn
<1>5. Moves(e, y, z, t, 1) /\ Moves(e, z, y, t, -1) /\ z[e][t] = y[e][t] + 1 /\ y[e][t] \in Nat
      /\ Nats(e, z[e])
  <2>1. y[e][t] \in Nat /\ y[e][t] + 1 \in Nat
    BY <1>1, <1>3 DEF Nats
  <2> QED
    BY <1>1, <1>3, <2>1, PlusMoves
<1> HIDE DEF h1, x1, z
<1>6. /\ \A u \in Objects(e) : x1[e][u] = z[e][u] + CountOf(Top.args, u)
      /\ \A u \in Objects(Other(e)) : x1[Other(e)][u] = z[Other(e)][u]
  <2>1. \A u \in Objects(e) : CountOf(Top.args, u) \in Nat
    BY <1>1, CountOfSeq
  <2>2. \A u \in Objects(e) : y[e][u] \in Nat
    BY <1>1 DEF Nats
  <2>3. \A u \in Objects(e) : x1[e][u] = x[e][u] + (IF u = t THEN 1 ELSE 0)
                              /\ z[e][u] = y[e][u] + (IF u = t THEN 1 ELSE 0)
    BY <1>4, <1>5 DEF Moves, Adds
  <2>4. \A u \in Objects(Other(e)) : x1[Other(e)][u] = x[Other(e)][u] /\ z[Other(e)][u] = y[Other(e)][u]
    BY <1>4, <1>5 DEF Moves
  <2> QED
    BY <1>1, <2>1, <2>2, <2>3, <2>4
<1>7. /\ World(k, z, gen, viewer) /\ k[e].next_id = h1[e].next_id
      /\ \A p \in h1[e].is_valid : z[e][p] > 0 => p \in k[e].is_valid
  <2>1. PICK args \in Seq(Objects(e)) : args = Top.args
    BY <1>1
  <2>2. LET k2 == ReleaseAll(h1, e, args)
        IN  /\ World(k2, z, gen, viewer) /\ k2[e].owned = h1[e].owned /\ k2[e].next_id = h1[e].next_id
            /\ \A p \in h1[e].is_valid : z[e][p] > 0 => p \in k2[e].is_valid
    <3>1. /\ \A u \in Objects(e) : x1[e][u] = z[e][u] + CountOf(args, u)
          /\ \A u \in Objects(Other(e)) : x1[Other(e)][u] = z[Other(e)][u]
      BY <1>6, <2>1
    <3>2. World(h1, x1, gen, viewer) /\ Nats(e, z[e])
      BY <1>4, <1>5
    <3> QED
      BY <3>1, <3>2, ReleaseAllWorld
  <2> QED
    BY <2>1, <2>2
<1>8. k = AfterCall(e, PassedOn(e, t))
  BY DEF AfterCall, h1
<1> HIDE DEF k
<1>9. k[e].referenceCount[t] > 0
  <2>1. BridgeOk(e, k[e], z[e], gen) /\ Nats(e, z[e])
    BY <1>7, WorldParts
  <2>2. /\ k[e].referenceCount[t] \in Nat /\ k[e].owned[t] \in Nat /\ z[e][t] \in Nat
        /\ k[e].referenceCount[t] >= k[e].owned[t] + z[e][t]
    BY <1>3, <2>1, CountsCover
  <2> QED
    BY <1>5, <2>2
<1>10. Sendable(e, k[e], t)
  BY <1>9 DEF Sendable
<1>11. k[e].next_id + Stubs(e, t) <= MaxId(e)
  <2>1. k[e].next_id = heap[e].next_id
    BY <1>4, <1>7 DEF SameTables
  <2>2. heap[e].next_id + Cardinality({i \in DOMAIN <<t>> : <<t>>[i] \in Local(e)}) <= MaxId(e)
    BY <1>3 DEF Fits
  <2>3. {i \in DOMAIN <<t>> : <<t>>[i] \in Local(e)} = IF t \in Local(e) THEN {1} ELSE {}
    OBVIOUS
  <2>4. Cardinality({1}) = 1 /\ Cardinality({}) = 0
    BY FS_Singleton, FS_EmptySet
  <2> QED
    BY <2>1, <2>2, <2>3, <2>4 DEF Stubs
<1> QED
  BY <1>1, <1>3, <1>5, <1>7, <1>8, <1>9, <1>10, <1>11 DEF z, y

\* What becomes of the result.
LEMMA ReplyWorld ==
    ASSUME BridgeInvariant, NEW e \in Ends, Control(e), stack # <<>>, viewer = "up", NEW t \in Results(e)
    PROVE  LET y == HeldBy(Front(stack))
           IN  \E b : \/ Arrived(e, b, Plus(e, y, t, 1), y[e], <<>>, Reply(e, t))
                      \/ Aborted(e, b, y[e], <<>>, Reply(e, t))
<1> DEFINE y == HeldBy(Front(stack))
           z == Plus(e, y, t, 1)
           k == AfterCall(e, PassedOn(e, t))
           b == k[e]
           c == k[Other(e)]
           r == Reply(e, t)
<1>1. /\ t \in Objects(e) /\ World(k, z, gen, viewer) /\ Moves(e, z, y, t, -1)
      /\ Sendable(e, b, t) /\ b.next_id + Stubs(e, t) <= MaxId(e) /\ Nats(e, y[e])
  BY ResultWorld
<1>2. r = Transfer(Sent(k, <<>>), e, t, TRUE)
  BY DEF Reply, Sent
<1> HIDE DEF r, k, z, y
<1>3. k = Heap2(e, b, c)
  BY <1>1, WorldParts, Heap2Shape
<1>4. World(Heap2(e, b, c), z, gen, "up") /\ gen \in 1..MaxGen
  BY <1>1, <1>3, InvariantParts
<1> HIDE DEF b, c
<1>5. PICK pass_ref : pass_ref = TRUE
  OBVIOUS
<1>6. PICK n \in Nat : n = 0
  OBVIOUS
<1>7. PICK j \in Int : j = -1
  OBVIOUS
<1>8. Keeps(pass_ref, n) /\ j = n - 1 /\ Adds(e, y[e], z[e], t, j)
  BY <1>1, <1>5, <1>6, <1>7 DEF Keeps, Moves
<1>9. r = Transfer(Sent(Heap2(e, b, c), <<>>), e, t, pass_ref)
  BY <1>2, <1>3, <1>5
<1>10. PICK s : s = <<>>
  OBVIOUS
<1>11. PICK w : w = y[e]
  OBVIOUS
<1>12. Transferred(e, b, z, w, s, t, pass_ref, Transfer(Sent(Heap2(e, b, c), s), e, t, pass_ref))
  <2>1. Adds(e, w, z[e], t, j) /\ Nats(e, w)
    BY <1>1, <1>8, <1>11
  <2> QED
    BY <1>1, <1>4, <1>8, <2>1, TransferStep
<1>13. Transferred(e, b, z, y[e], <<>>, t, pass_ref, r)
  BY <1>9, <1>10, <1>11, <1>12
<1> QED
  BY <1>13 DEF Transferred, r, z, y

LEMMA ReplyAbortsStep ==
    ASSUME BridgeInvariant, NEW e \in Ends, ReplyAborts(e)
    PROVE  BridgeInvariant'
<1> DEFINE y == HeldBy(Front(stack))
           s == Front(stack)
<1>1. PICK t \in Results(e) : ~Reply(e, t).ok /\ Abort(Other(e), Reply(e, t).heap)
  BY DEF ReplyAborts
<1>2. Control(e) /\ stack # <<>> /\ viewer = "up" /\ stack' = Orphans(s)
  BY DEF ReplyAborts, Running
<1> DEFINE r == Reply(e, t)
<1>3. PICK b : \/ Arrived(e, b, Plus(e, y, t, 1), y[e], <<>>, r)
               \/ Aborted(e, b, y[e], <<>>, r)
  BY <1>2, ReplyWorld
<1>4. StackOk(s, gen, viewer) /\ Other("wrapper") = "viewer"
  BY <1>2, TopFacts, EndFacts
<1>5. ~r.ok /\ Abort(Other(e), r.heap)
  BY <1>1
<1> HIDE DEF r, y, s
<1>6. Aborted(e, b, y[e], <<>>, r)
  BY <1>3, <1>5 DEF Arrived, Sent
<1>7. PICK c : r = NotSent(Heap2(e, b, c), <<>>) /\ e = "wrapper" /\ BridgeOk(e, b, y[e], gen)
  BY <1>6 DEF Aborted
<1>8. r.heap = Heap2("wrapper", b, c)
  BY <1>7 DEF NotSent
<1> DEFINE h == ViewerGone(Heap2("wrapper", b, c))
<1>9. World(h, HeldBy(Orphans(s)), gen, "dead") /\ StackOk(Orphans(s), gen, "dead")
  <2>1. BridgeOk("wrapper", b, HeldBy(s)["wrapper"], gen)
    BY <1>7 DEF y, s
  <2> QED
    BY <1>4, <2>1, OrphanedWorld
<1>10. heap' = h /\ viewer' = "dead" /\ gen' = gen /\ asserted' = asserted \cup {"viewer"}
  BY <1>4, <1>5, <1>7, <1>8 DEF Abort
<1>11. asserted' \subseteq {"viewer"}
  BY <1>10 DEF BridgeInvariant
<1> HIDE DEF h
<1> QED
  BY <1>2, <1>9, <1>10, <1>11, InvariantWithout

\* The caller owns the result it is given.
LEMMA ResultOwned ==
    ASSUME NEW e \in Ends, NEW h, NEW z, NEW y, \A d \in Ends : Nats(d, y[d]),
           NEW o \in Objects(Other(e)), World(h, Passed(e, z, y[e], o), gen, "up"),
           \A u \in Objects(Other(e)) : z[Other(e)][u] = y[Other(e)][u]
    PROVE  World([h EXCEPT ![Other(e)].owned[o] = @ + 1], y, gen, "up")
<1> DEFINE f == Other(e)
           x == Passed(e, z, y[e], o)
           n == h[f].owned[o] + 1
           h2 == Give(h, f, o, n)
<1>1. f \in Ends /\ f # e /\ Other(f) = e
  BY EndFacts
<1>2. /\ x[e] = y[e] /\ Adds(f, x[f], z[f], o, 1)
  BY PassedIs
<1> HIDE DEF x
<1>3. h = [d \in Ends |-> h[d]] /\ h[f] \in Bridge(f)
  BY <1>1, WorldParts DEF x
<1>4. h[f].owned[o] \in Nat
  BY <1>1, <1>3, BridgeFields
<1>5. n \in Nat /\ h[f].owned[o] - n = -1
  BY <1>4
<1>6. Moves(f, x, y, o, -1)
  <2>1. \A u \in Objects(f) : y[f][u] \in Nat
    BY <1>1 DEF Nats
  <2>2. \A u \in Objects(f) : x[f][u] = y[f][u] + (IF u = o THEN 1 ELSE 0)
    BY <1>2 DEF Adds
  <2>3. \A u \in Objects(f) : y[f][u] = x[f][u] + (IF u = o THEN -1 ELSE 0)
    BY <2>1, <2>2
  <2> QED
    BY <1>1, <1>2, <2>3 DEF Moves, Adds
<1>7. [h EXCEPT ![f].owned[o] = @ + 1] = h2
  <2>1. [h EXCEPT ![f].owned[o] = @ + 1] = [h EXCEPT ![f].owned[o] = n]
    OBVIOUS
  <2> HIDE DEF n
  <2> QED
    BY <1>1, <1>3, <2>1, GiveShape
<1> HIDE DEF n
<1>8. World(h2, y, gen, "up")
  <2>1. World(h, x, gen, "up")
    BY DEF x
  <2>2. Moves(f, x, y, o, h[f].owned[o] - n)
    BY <1>5, <1>6
  <2> HIDE DEF f
  <2>3. PICK v : v = "up"
    OBVIOUS
  <2>4. LET h3 == Give(h, f, o, n)
        IN  /\ World(h3, y, gen, v) /\ SameTables(h3[f], h[f])
            /\ h3[f].referenceCount = h[f].referenceCount
            /\ h3[f].owned = [h[f].owned EXCEPT ![o] = n]
            /\ h3[Other(f)] = h[Other(f)]
    <3>1. World(h, x, gen, v) /\ (v = "up" \/ f = "wrapper") /\ o \in Objects(f)
      BY <2>1, <2>3 DEF f
    <3> QED
      BY <1>1, <1>5, <2>2, <3>1, OwnedWorld
  <2> QED
    BY <2>3, <2>4
<1> HIDE DEF h2
<1> QED
  BY <1>7, <1>8

LEMMA ReturnStep ==
    ASSUME BridgeInvariant, NEW e \in Ends, Return(e)
    PROVE  BridgeInvariant'
<1> DEFINE s == Front(stack)
           y == HeldBy(s)
<1>1. /\ Control(e) /\ stack # <<>> /\ viewer = "up" /\ stack' = s
      /\ UNCHANGED <<gen, viewer, asserted>>
  BY DEF Return, Running
<1>2. StackOk(s, gen, viewer)
  BY <1>1, TopFacts
<1>3. CASE heap' = AfterCall(e, heap[e].owned)
  BY <1>1, <1>2, <1>3, AfterCallWorld, InvariantKept
<1>4. CASE \E t \in Results(e) :
             LET r == Reply(e, t)
             IN  r.ok /\ heap' = [r.heap EXCEPT ![Other(e)].owned[Last(r.got)] = @ + 1]
  <2>1. PICK t \in Results(e) :
             LET r == Reply(e, t)
             IN  r.ok /\ heap' = [r.heap EXCEPT ![Other(e)].owned[Last(r.got)] = @ + 1]
    BY <1>4
  <2> DEFINE r == Reply(e, t)
             z == Plus(e, y, t, 1)
  <2>2. r.ok /\ heap' = [r.heap EXCEPT ![Other(e)].owned[Last(r.got)] = @ + 1]
    BY <2>1
  <2>3. PICK b : Arrived(e, b, z, y[e], <<>>, r) \/ Aborted(e, b, y[e], <<>>, r)
    BY <1>1, ReplyWorld
  <2>4. Moves(e, z, y, t, -1) /\ \A d \in Ends : Nats(d, y[d])
    BY <1>1, ResultWorld
  <2> HIDE DEF r, z, y, s
  <2>5. Arrived(e, b, z, y[e], <<>>, r)
    BY <2>2, <2>3 DEF Aborted, NotSent
  <2>6. PICK c : \E o \in Objects(Other(e)) :
           /\ r = Sent(Heap2(e, b, c), Append(<<>>, o))
           /\ World(Heap2(e, b, c), Passed(e, z, y[e], o), gen, "up")
    BY <2>5 DEF Arrived
  <2>7. PICK o \in Objects(Other(e)) :
           /\ r = Sent(Heap2(e, b, c), Append(<<>>, o))
           /\ World(Heap2(e, b, c), Passed(e, z, y[e], o), gen, "up")
    BY <2>6
  <2> DEFINE h == Heap2(e, b, c)
  <2>8. r.heap = h /\ Last(r.got) = o
    <3>1. r.heap = h /\ r.got = Append(<<>>, o)
      BY <2>7 DEF Sent
    <3>2. Append(<<>>, o) = <<o>> /\ Last(<<o>>) = o
      BY DEF Last
    <3> QED
      BY <3>1, <3>2
  <2> HIDE DEF h
  <2>9. World([h EXCEPT ![Other(e)].owned[o] = @ + 1], y, gen, "up")
    <3>1. \A u \in Objects(Other(e)) : z[Other(e)][u] = y[Other(e)][u]
      BY <2>4 DEF Moves
    <3>2. World(h, Passed(e, z, y[e], o), gen, "up")
      BY <2>7 DEF h
    <3> QED
      BY <2>4, <3>1, <3>2, ResultOwned
  <2> DEFINE h2 == [h EXCEPT ![Other(e)].owned[o] = @ + 1]
  <2>10. heap' = h2
    BY <2>2, <2>8
  <2>11. World(h2, HeldBy(s), gen, viewer)
    BY <1>1, <2>9 DEF y
  <2> HIDE DEF h2
  <2> QED
    BY <1>1, <1>2, <2>10, <2>11, InvariantKept
<1> QED
  BY <1>3, <1>4 DEF Return

LEMMA ViewerDiesStep ==
    ASSUME BridgeInvariant, ViewerDies
    PROVE  BridgeInvariant'
<1> DEFINE w == heap["wrapper"]
           c == heap["viewer"]
           h == ViewerGone(Heap2("wrapper", w, c))
<1>1. /\ World(heap, HeldBy(stack), gen, viewer) /\ StackOk(stack, gen, viewer)
      /\ "wrapper" \in Ends /\ Other("wrapper") = "viewer"
  BY InvariantParts, EndFacts DEF Ends
<1>2. heap = Heap2("wrapper", w, c) /\ BridgeOk("wrapper", w, HeldBy(stack)["wrapper"], gen)
  <2>1. heap = [d \in Ends |-> heap[d]] /\ BridgeOk("wrapper", w, HeldBy(stack)["wrapper"], gen)
    BY <1>1, WorldParts
  <2> QED
    BY <1>1, <2>1, Heap2Shape
<1>3. heap' = h /\ viewer' = "dead" /\ stack' = Orphans(stack) /\ gen' = gen /\ asserted' \subseteq {"viewer"}
  BY <1>2 DEF ViewerDies, BridgeInvariant
<1> HIDE DEF w, c
<1>4. World(h, HeldBy(Orphans(stack)), gen, "dead") /\ StackOk(Orphans(stack), gen, "dead")
  BY <1>1, <1>2, OrphanedWorld
<1> HIDE DEF h
<1> QED
  BY <1>3, <1>4, InvariantWithout

LEMMA ReachedStubs ==
    ASSUME NEW h, NEW S \in Reached(h)
    PROVE  S \in SUBSET DOMAIN h["wrapper"].g_stubs
  BY DEF Reached

LEMMA PluginKillStep ==
    ASSUME BridgeInvariant, PluginKill
    PROVE  BridgeInvariant'
<1> DEFINE x == HeldBy(stack)
           w == heap["wrapper"]
           c == heap["viewer"]
<1>1. /\ World(heap, x, gen, viewer) /\ StackOk(stack, gen, viewer) /\ gen \in Nat
      /\ "wrapper" \in Ends /\ "viewer" \in Ends /\ Other("wrapper") = "viewer"
      /\ \A d \in Ends : Nats(d, x[d])
  BY InvariantParts, EndFacts DEF Ends
<1>2. PICK S \in Reached(heap) : heap' = Deactivate(heap, S)
  BY DEF PluginKill
<1>3. viewer = "dead" /\ viewer' = "killed" /\ stack' = stack /\ gen' = gen /\ asserted' \subseteq {"viewer"}
  BY DEF PluginKill, BridgeInvariant
<1> HIDE DEF x
<1>4. /\ heap = Heap2("wrapper", w, c) /\ BridgeOk("wrapper", w, x["wrapper"], gen)
      /\ c = NewBridge("viewer") /\ BridgeOk("viewer", c, x["viewer"], gen)
  <2>1. heap = [d \in Ends |-> heap[d]] /\ BridgeOk("wrapper", w, x["wrapper"], gen)
        /\ BridgeOk("viewer", c, x["viewer"], gen)
    BY <1>1, WorldParts
  <2>2. c = NewBridge("viewer")
    BY <1>1, <1>3 DEF World
  <2> QED
    BY <1>1, <2>1, <2>2, Heap2Shape
<1>5. S \in SUBSET DOMAIN w.g_stubs
  BY ReachedStubs
<1> HIDE DEF w, c
<1>6. \A t \in Objects("viewer") : x["viewer"][t] = 0
  <2> SUFFICES ASSUME NEW t \in Objects("viewer") PROVE x["viewer"][t] = 0
    OBVIOUS
  <2>1. /\ c.referenceCount[t] \in Nat /\ c.owned[t] \in Nat /\ x["viewer"][t] \in Nat
        /\ c.referenceCount[t] >= c.owned[t] + x["viewer"][t]
    BY <1>1, <1>4, CountsCover
  <2>2. c.referenceCount[t] = 0
    BY <1>4 DEF NewBridge
  <2> QED
    BY <2>1, <2>2
<1> DEFINE d == Deactivated(w, S)
           h == Heap2("wrapper", d, c)
<1>7. BridgeOk("wrapper", d, x["wrapper"], gen) /\ d.is_valid \subseteq d.crossed
  BY <1>1, <1>4, <1>5, DeactivatedOk
<1>8. heap' = h
  BY <1>2, <1>4, DeactivateShape
<1> HIDE DEF d
<1>9. World(h, x, gen, "killed")
  BY <1>1, <1>4, <1>6, <1>7, GoneWorld
<1>10. StackOk(stack, gen, "killed")
  BY <1>1, <1>3, StackLater
<1> HIDE DEF h
<1> QED
  BY <1>3, <1>8, <1>9, <1>10, InvariantWithout DEF x

LEMMA LaterBridge ==
    ASSUME NEW e \in Ends, NEW b, NEW x, NEW g \in Nat, g # 0, BridgeOk(e, b, x, g),
           b.is_valid \subseteq b.crossed, e = "viewer" => b.crossed = {}
    PROVE  BridgeOk(e, b, x, g + 1)
<1>1. b \in Bridge(e) /\ Exact(e, b, x) /\ DOMAIN b.g_stubs \subseteq 1..b.next_id /\ Proxies(e, b, g)
  BY BridgeParts
<1>2. Proxies(e, b, g + 1)
  <2>1. \A p \in Proxy(e) : p.gen \in Nat
    BY ProxyFacts
  <2>2. g + 1 # 1 /\ \A p \in Proxy(e) : p.gen <= g => p.gen <= g + 1
    BY <2>1
  <2> QED
    BY <1>1, <2>2 DEF Proxies
<1> QED
  BY <1>1, <1>2, BridgeParts

LEMMA StartedWorld ==
    ASSUME NEW h, NEW x, NEW g \in 1..MaxGen, g < MaxGen, World(h, x, g, "killed")
    PROVE  World(h, x, g + 1, "up")
<1> DEFINE w == h["wrapper"]
           c == h["viewer"]
<1>1. /\ "wrapper" \in Ends /\ "viewer" \in Ends /\ Other("wrapper") = "viewer"
      /\ Other("viewer") = "wrapper" /\ g \in Nat /\ g # 0 /\ MaxGen \in Nat
  BY EndFacts, ConstantsAssumption DEF Ends
<1>2. /\ h = [d \in Ends |-> h[d]] /\ Nats("wrapper", x["wrapper"]) /\ Nats("viewer", x["viewer"])
      /\ BridgeOk("wrapper", w, x["wrapper"], g) /\ BridgeOk("viewer", c, x["viewer"], g)
      /\ w \in Bridge("wrapper")
  BY <1>1, WorldParts
<1>3. c = NewBridge("viewer") /\ w.is_valid \subseteq w.crossed
  BY DEF World
<1>4. h = Heap2("wrapper", w, c)
  BY <1>1, <1>2, Heap2Shape
<1> HIDE DEF w, c
<1>5. BridgeOk("wrapper", w, x["wrapper"], g + 1) /\ BridgeOk("viewer", c, x["viewer"], g + 1)
  <2>1. c.is_valid = {} /\ c.crossed = {}
    BY <1>3 DEF NewBridge
  <2> QED
    BY <1>1, <1>2, <1>3, <2>1, LaterBridge
<1>6. LinkOk("wrapper", w, c, g + 1)
  <2>1. \A p \in Proxy("wrapper") : p.gen \in Nat
    BY <1>1, ProxyFacts
  <2>2. \A p \in Proxy("wrapper") : w.referenceCount[p] > 0 => p.gen <= g
    BY <1>2 DEF BridgeOk
  <2>3. w.is_valid \ w.crossed = {}
    BY <1>3
  <2>4. g + 1 # 1
    BY <1>1
  <2>5. \A p \in Proxy("wrapper") : w.referenceCount[p] > 0 => p.gen # g + 1
    BY <1>1, <2>1, <2>2
  <2> QED
    BY <2>3, <2>4, <2>5 DEF LinkOk
<1>7. LinkOk("viewer", c, w, g + 1)
  <2>1. \A p \in Proxy("viewer") : c.referenceCount[p] = 0
    BY <1>3, <1>1, ProxyFacts DEF NewBridge
  <2>2. c.is_valid = {} /\ g + 1 # 1
    BY <1>1, <1>3 DEF NewBridge
  <2> QED
    BY <2>1, <2>2 DEF LinkOk
<1>8. World(Heap2("wrapper", w, c), x, g + 1, "up")
  <2>1. PICK k : k = g + 1
    OBVIOUS
  <2> QED
    BY <1>1, <1>2, <1>5, <1>6, <1>7, <2>1, WorldFromParts
<1> QED
  BY <1>4, <1>8

LEMMA PluginStartStep ==
    ASSUME BridgeInvariant, PluginStart
    PROVE  BridgeInvariant'
<1>1. /\ World(heap, HeldBy(stack), gen, viewer) /\ StackOk(stack, gen, viewer)
      /\ gen \in 1..MaxGen /\ gen \in Nat
  BY InvariantParts
<1>2. /\ viewer = "killed" /\ gen < MaxGen /\ gen' = gen + 1 /\ viewer' = "up"
      /\ heap' = heap /\ stack' = stack /\ asserted' = asserted
  BY DEF PluginStart
<1>3. World(heap, HeldBy(stack), gen + 1, "up")
  BY <1>1, <1>2, StartedWorld
<1>4. StackOk(stack, gen + 1, "up")
  <2>1. PICK k \in Nat : k = gen + 1
    BY <1>1
  <2>2. gen <= k /\ viewer # "up"
    BY <1>1, <1>2, <2>1
  <2> QED
    BY <1>1, <2>1, <2>2, StackLater
<1>5. gen' \in 1..MaxGen
  BY <1>1, <1>2, ConstantsAssumption
<1>6. World(heap', HeldBy(stack'), gen', viewer') /\ StackOk(stack', gen', viewer')
  BY <1>2, <1>3, <1>4
<1>7. asserted' \subseteq {"viewer"}
  BY <1>2 DEF BridgeInvariant
<1> QED
  BY <1>2, <1>5, <1>6, <1>7 DEF BridgeInvariant

\* A stub that nobody has a proxy for yet.
LEMMA SentLocalWorld ==
    ASSUME NEW b, NEW c, NEW x, NEW y, NEW g, NEW v, World(Heap2("wrapper", b, c), x, g, v),
           v # "up" \/ g # 1, NEW t \in Local("wrapper"), b.next_id < MaxId("wrapper"),
           Moves("wrapper", x, y, t, -1)
    PROVE  World(Heap2("wrapper", AddStub(b, t, 0), c), y, g, v)
<1> DEFINE b2 == AddStub(b, t, 0)
<1>1. /\ "wrapper" \in Ends /\ Other("wrapper") = "viewer"
      /\ Nats("wrapper", y["wrapper"]) /\ Adds("wrapper", y["wrapper"], x["wrapper"], t, -1)
      /\ \A s \in Objects("viewer") : y["viewer"][s] = x["viewer"][s]
  BY EndFacts DEF Ends, Moves
<1>2. /\ Nats("wrapper", x["wrapper"]) /\ BridgeOk("wrapper", b, x["wrapper"], g) /\ b \in Bridge("wrapper")
      /\ Nats("viewer", x["viewer"]) /\ BridgeOk("viewer", c, x["viewer"], g)
      /\ v = "up" => LinkOk("wrapper", b, c, g) /\ LinkOk("viewer", c, b, g)
  BY <1>1, PairParts
<1>3. BridgeOk("wrapper", b2, y["wrapper"], g) /\ StubAdded("wrapper", b, b2)
  <2>1. PICK k \in Nat : k = 0
    OBVIOUS
  <2>2. PICK j \in Int : j = -1
    OBVIOUS
  <2>3. j = k - 1 /\ Adds("wrapper", y["wrapper"], x["wrapper"], t, j)
    BY <1>1, <2>1, <2>2
  <2> QED
    BY <1>1, <1>2, <2>1, <2>3, AddStubStep
<1> HIDE DEF b2
<1>4. /\ b2.next_id = b.next_id + 1 /\ b2.is_valid = b.is_valid /\ b2.crossed = b.crossed
      /\ DOMAIN b2.g_stubs = DOMAIN b.g_stubs \cup {b.next_id + 1}
      /\ \A p \in Proxy("wrapper") : b2.referenceCount[p] = b.referenceCount[p]
  BY <1>3 DEF StubAdded, IsWith
<1>5. CASE v = "up"
  <2>1. LinkOk("wrapper", b2, c, g)
    BY <1>2, <1>4, <1>5, LinkKept
  <2>2. LinkOk("viewer", c, b2, g)
    <3>1. \A p \in Proxy("viewer") : p.id \in Nat
      BY ProxyFacts DEF Ends
    <3>2. b.next_id \in Nat
      BY <1>1, <1>2, BridgeFields, EndFacts
    <3>3. \A p \in Proxy("viewer") : c.referenceCount[p] > 0 /\ p.gen = g => p.id <= b2.next_id
      BY <1>2, <1>4, <1>5, <3>1, <3>2 DEF LinkOk
    <3>4. \A p \in c.is_valid \ c.crossed : p.id \in DOMAIN b2.g_stubs
      BY <1>2, <1>4, <1>5 DEF LinkOk
    <3>5. g # 1
      BY <1>5
    <3> QED
      BY <3>3, <3>4, <3>5 DEF LinkOk
  <2>3. BridgeOk("viewer", c, y["viewer"], g) /\ Nats("viewer", y["viewer"])
    <3>1. "viewer" \in Ends
      BY DEF Ends
    <3> QED
      BY <1>1, <1>2, <3>1, SameCounts DEF Nats
  <2>4. World(Heap2("wrapper", b2, c), y, g, "up")
    BY <1>1, <1>3, <2>1, <2>2, <2>3, WorldFromParts
  <2> QED
    BY <1>5, <2>4 DEF b2
<1>6. CASE v # "up"
  <2>1. World(Heap2("wrapper", b2, Heap2("wrapper", b, c)["viewer"]), y, g, v)
    <3>1. PICK h : h = Heap2("wrapper", b, c)
      OBVIOUS
    <3>2. h["wrapper"] = b
      BY <1>1, <3>1, Heap2Facts
    <3>3. b2.is_valid \subseteq h["wrapper"].is_valid /\ h["wrapper"].crossed \subseteq b2.crossed /\ World(h, x, g, v)
      BY <1>4, <3>1, <3>2
    <3>4. World(Heap2("wrapper", b2, h["viewer"]), y, g, v)
      BY <1>1, <1>3, <1>6, <3>3, WorldDown
    <3> QED
      BY <3>1, <3>4
  <2>2. Heap2("wrapper", b, c)["viewer"] = c
    BY <1>1, Heap2Facts
  <2> QED
    BY <2>1, <2>2 DEF b2
<1> QED
  BY <1>5, <1>6

\* A proxy that is dropped without a word to its stub.
LEMMA SentProxyWorld ==
    ASSUME NEW b, NEW c, NEW x, NEW y, NEW g, NEW v, World(Heap2("wrapper", b, c), x, g, v),
           v # "up" \/ g # 1, NEW t \in Proxy("wrapper"), NEW pass_ref, NEW k \in Nat, k = 0, Keeps(pass_ref, k),
           Moves("wrapper", x, y, t, -1)
    PROVE  World(Heap2("wrapper", SentProxy(b, t, pass_ref), c), y, g, v)
<1> DEFINE b2 == SentProxy(b, t, pass_ref)
<1>1. /\ "wrapper" \in Ends /\ "viewer" \in Ends /\ Other("wrapper") = "viewer"
      /\ Nats("wrapper", y["wrapper"]) /\ Adds("wrapper", y["wrapper"], x["wrapper"], t, -1)
      /\ \A s \in Objects("viewer") : y["viewer"][s] = x["viewer"][s]
  BY EndFacts DEF Ends, Moves
<1>2. /\ Nats("wrapper", x["wrapper"]) /\ BridgeOk("wrapper", b, x["wrapper"], g) /\ b \in Bridge("wrapper")
      /\ Nats("viewer", x["viewer"]) /\ BridgeOk("viewer", c, x["viewer"], g)
      /\ v = "up" => LinkOk("wrapper", b, c, g) /\ LinkOk("viewer", c, b, g)
  BY <1>1, PairParts
<1>3. /\ BridgeOk("wrapper", b2, y["wrapper"], g)
      /\ b2.g_stubs = b.g_stubs /\ b2.next_id = b.next_id
      /\ IF IsLast(b, t, pass_ref)
         THEN IsWithout(b2.is_valid, b.is_valid, t) /\ b2.crossed = b.crossed \cup Namesakes(b, t)
         ELSE b2.is_valid = b.is_valid /\ b2.crossed = b.crossed
      /\ \A q \in Proxy("wrapper") : b2.referenceCount[q] > 0 => b.referenceCount[q] > 0
  <2>2. PICK j \in Int : j = -1
    OBVIOUS
  <2>3. j = k - 1 /\ Adds("wrapper", y["wrapper"], x["wrapper"], t, j)
    BY <1>1, <2>2
  <2>4. LET d == SentProxy(b, t, pass_ref)
        IN  /\ BridgeOk("wrapper", d, y["wrapper"], g)
            /\ d.g_stubs = b.g_stubs /\ d.next_id = b.next_id /\ d.owned = b.owned
            /\ IF IsLast(b, t, pass_ref)
               THEN IsWithout(d.is_valid, b.is_valid, t) /\ d.crossed = b.crossed \cup Namesakes(b, t)
               ELSE d.is_valid = b.is_valid /\ d.crossed = b.crossed
            /\ \A q \in Proxy("wrapper") : d.referenceCount[q] > 0 => b.referenceCount[q] > 0
    BY <1>1, <1>2, <2>3, SentProxyStep
  <2> QED
    BY <2>4
<1> HIDE DEF b2
<1>4. b2.is_valid \subseteq b.is_valid /\ b.crossed \subseteq b2.crossed
  BY <1>3 DEF IsWithout
<1>5. CASE v = "up"
  <2>1. LinkOk("wrapper", b2, c, g)
    <3>1. g # 1
      BY <1>5
    <3> QED
      BY <1>2, <1>3, <1>4, <1>5, <3>1 DEF LinkOk
  <2>2. LinkOk("viewer", c, b2, g)
    BY <1>2, <1>3, <1>5, LinkKept
  <2>3. BridgeOk("viewer", c, y["viewer"], g) /\ Nats("viewer", y["viewer"])
    BY <1>1, <1>2, SameCounts DEF Nats
  <2>4. World(Heap2("wrapper", b2, c), y, g, "up")
    BY <1>1, <1>3, <2>1, <2>2, <2>3, WorldFromParts
  <2> QED
    BY <1>5, <2>4 DEF b2
<1>6. CASE v # "up"
  <2>1. PICK h : h = Heap2("wrapper", b, c)
    OBVIOUS
  <2>2. h["wrapper"] = b /\ h["viewer"] = c
    BY <1>1, <2>1, Heap2Facts
  <2>3. b2.is_valid \subseteq h["wrapper"].is_valid /\ h["wrapper"].crossed \subseteq b2.crossed /\ World(h, x, g, v)
    BY <1>4, <2>1, <2>2
  <2>4. World(Heap2("wrapper", b2, h["viewer"]), y, g, v)
    BY <1>1, <1>3, <1>6, <2>3, WorldDown
  <2> QED
    BY <2>2, <2>4 DEF b2
<1> QED
  BY <1>5, <1>6

\* What a handler whose reply fails leaves behind.
LEMMA FailedReplyWorld ==
    ASSUME BridgeInvariant, HandlerFails, NEW h \in FailedReplies
    PROVE  World(h, HeldBy(Front(stack)), gen, viewer)
<1> DEFINE y == HeldBy(Front(stack))
<1>1. /\ "wrapper" \in Ends /\ Other("wrapper") = "viewer"
      /\ Control("wrapper") /\ stack # <<>> /\ (Top.gen # gen \/ viewer # "up")
  BY EndFacts DEF Ends, HandlerFails, Running
<1>2. viewer # "up" \/ gen # 1
  <2>1. Top.gen \in 1..MaxGen /\ Top.gen <= gen /\ gen \in Nat
    BY <1>1, TopFacts, InvariantParts
  <2> QED
    BY <1>1, <2>1, ConstantsAssumption
<1>3. CASE h = AfterCall("wrapper", heap["wrapper"].owned)
  BY <1>1, <1>3, AfterCallWorld
<1>4. CASE \E t \in Results("wrapper") :
             \/ h = [AfterCall("wrapper", PassedOn("wrapper", t)) EXCEPT !["wrapper"].lost[t] = @ + 1]
             \/ h = SendNPObject(AfterCall("wrapper", PassedOn("wrapper", t)), "wrapper", t, TRUE).heap
  <2>1. PICK t \in Results("wrapper") :
             \/ h = [AfterCall("wrapper", PassedOn("wrapper", t)) EXCEPT !["wrapper"].lost[t] = @ + 1]
             \/ h = SendNPObject(AfterCall("wrapper", PassedOn("wrapper", t)), "wrapper", t, TRUE).heap
    BY <1>4
  <2> DEFINE k == AfterCall("wrapper", PassedOn("wrapper", t))
             z == Plus("wrapper", y, t, 1)
             b == k["wrapper"]
             c == k["viewer"]
  <2>2. /\ t \in Objects("wrapper") /\ World(k, z, gen, viewer) /\ Moves("wrapper", z, y, t, -1)
        /\ b.next_id + Stubs("wrapper", t) <= MaxId("wrapper")
    BY <1>1, ResultWorld
  <2>3. \/ h = [k EXCEPT !["wrapper"].lost[t] = @ + 1]
        \/ h = SendNPObject(k, "wrapper", t, TRUE).heap
    BY <2>1
  <2> HIDE DEF k, z, y
  <2>4. k = [d \in Ends |-> k[d]] /\ b \in Bridge("wrapper") /\ k = Heap2("wrapper", b, c)
    BY <1>1, <2>2, WorldParts, Heap2Shape
  <2>5. CASE h = [k EXCEPT !["wrapper"].lost[t] = @ + 1]
    <3>1. [k EXCEPT !["wrapper"].lost[t] = @ + 1] = Lose(k, t)
      BY <2>4, BridgeFields DEF Lose, WithLost
    <3>2. World(Lose(k, t), y, gen, viewer)
      BY <2>2, LostWorld
    <3> QED
      BY <2>5, <3>1, <3>2 DEF y
  <2>6. CASE h = SendNPObject(k, "wrapper", t, TRUE).heap
    <3>1. PICK pass_ref : pass_ref = TRUE
      OBVIOUS
    <3>2. PICK n \in Nat : n = 0
      OBVIOUS
    <3>3. Keeps(pass_ref, n)
      BY <3>1, <3>2 DEF Keeps
    <3>4. h = SendNPObject(Heap2("wrapper", b, c), "wrapper", t, pass_ref).heap
      BY <2>4, <2>6, <3>1
    <3>5. World(Heap2("wrapper", b, c), z, gen, viewer)
      BY <2>2, <2>4
    <3> HIDE DEF b, c
    <3>6. CASE t \in Local("wrapper")
      <4>1. SendNPObject(Heap2("wrapper", b, c), "wrapper", t, pass_ref) =
               Posted(Heap2("wrapper", AddStub(b, t, n), c), StubMessage(b))
        BY <1>1, <2>4, <3>3, <3>6, SendLocalShape DEF b
      <4>2. h = Heap2("wrapper", AddStub(b, t, 0), c)
        BY <3>2, <3>4, <4>1 DEF Posted
      <4>3. b.next_id < MaxId("wrapper")
        <5>1. b.next_id \in Nat /\ MaxId("wrapper") \in Nat
          BY <1>1, <2>4, BridgeFields, EndFacts DEF b
        <5> QED
          BY <2>2, <3>6, <5>1 DEF Stubs, b
      <4>4. World(Heap2("wrapper", AddStub(b, t, 0), c), y, gen, viewer)
        BY <1>2, <2>2, <3>5, <3>6, <4>3, SentLocalWorld
      <4> QED
        BY <4>2, <4>4 DEF y
    <3>7. CASE t \in Proxy("wrapper")
      <4>1. SendNPObject(Heap2("wrapper", b, c), "wrapper", t, pass_ref) =
               Posted(Heap2("wrapper", SentProxy(b, t, pass_ref), c), ProxyMessage(b, t, pass_ref))
        BY <1>1, <2>4, <3>3, <3>7, SendProxyShape DEF b
      <4>2. h = Heap2("wrapper", SentProxy(b, t, pass_ref), c)
        BY <3>4, <4>1 DEF Posted
      <4>3. World(Heap2("wrapper", SentProxy(b, t, pass_ref), c), y, gen, viewer)
        BY <1>2, <2>2, <3>2, <3>3, <3>5, <3>7, SentProxyWorld
      <4> QED
        BY <4>2, <4>3 DEF y
    <3> QED
      BY <1>1, <2>2, <3>6, <3>7, ProxyFacts
  <2> QED
    BY <2>3, <2>5, <2>6
<1> QED
  BY <1>3, <1>4 DEF FailedReplies

LEMMA HandlerFailsStep ==
    ASSUME BridgeInvariant, HandlerFails
    PROVE  BridgeInvariant'
<1> DEFINE s == Front(stack)
           y == HeldBy(s)
<1>1. PICK h \in FailedReplies :
        \/ heap' = h /\ stack' = s /\ UNCHANGED viewer
        \/ /\ \E S \in Reached(h) : heap' = ViewerGone(Deactivate(h, S))
           /\ stack' = Orphans(s) /\ viewer' = "killed"
  BY DEF HandlerFails
<1>2. gen' = gen /\ asserted' = asserted /\ asserted' \subseteq {"viewer"}
  BY DEF HandlerFails, BridgeInvariant
<1>3. StackOk(s, gen, viewer)
  <2>1. "wrapper" \in Ends /\ Control("wrapper") /\ stack # <<>>
    BY DEF HandlerFails, Running, Ends
  <2> QED
    BY <2>1, TopFacts
<1>4. World(h, y, gen, viewer)
  BY FailedReplyWorld
<1> HIDE DEF s
<1>5. CASE heap' = h /\ stack' = s /\ UNCHANGED viewer
  BY <1>2, <1>3, <1>4, <1>5, InvariantKept
<1>6. CASE /\ \E S \in Reached(h) : heap' = ViewerGone(Deactivate(h, S))
           /\ stack' = Orphans(s) /\ viewer' = "killed"
  <2>1. PICK S \in Reached(h) : heap' = ViewerGone(Deactivate(h, S))
    BY <1>6
  <2> DEFINE w == h["wrapper"]
             c == h["viewer"]
             d == Deactivated(w, S)
             h2 == ViewerGone(Heap2("wrapper", d, c))
  <2>2. "wrapper" \in Ends /\ Other("wrapper") = "viewer"
    BY EndFacts DEF Ends
  <2>3. h = [e \in Ends |-> h[e]] /\ BridgeOk("wrapper", w, y["wrapper"], gen) /\ Nats("wrapper", y["wrapper"])
    BY <1>4, <2>2, WorldParts
  <2>4. h = Heap2("wrapper", w, c) /\ S \in SUBSET DOMAIN w.g_stubs
    BY <2>2, <2>3, Heap2Shape, ReachedStubs
  <2> HIDE DEF w, c, y
  <2>5. BridgeOk("wrapper", d, y["wrapper"], gen) /\ d.is_valid \subseteq d.crossed
    BY <2>3, <2>4, DeactivatedOk
  <2>6. heap' = h2
    BY <2>1, <2>4, DeactivateShape
  <2> HIDE DEF d
  <2>7. World(h2, HeldBy(Orphans(s)), gen, "killed") /\ StackOk(Orphans(s), gen, "killed")
    <3>1. BridgeOk("wrapper", d, HeldBy(s)["wrapper"], gen)
      BY <2>5 DEF y
    <3> QED
      BY <1>3, <2>5, <3>1, OrphanedWorld
  <2> HIDE DEF h2
  <2> QED
    BY <1>2, <1>6, <2>6, <2>7, InvariantWithout
<1> QED
  BY <1>1, <1>5, <1>6

LEMMA InvariantAtFirst ==
    ASSUME Init
    PROVE  BridgeInvariant
<1> DEFINE x == HeldBy(stack)
<1>1. /\ heap = [e \in Ends |-> NewBridge(e)] /\ stack = <<>> /\ gen = 1 /\ viewer = "up" /\ asserted = {}
  BY DEF Init
<1>2. \A e \in Ends : \A t \in Objects(e) : x[e][t] = 0
  BY <1>1, HeldByIs, HeldNone
<1>3. heap = [e \in Ends |-> heap[e]] /\ \A e \in Ends : heap[e] = NewBridge(e)
  BY <1>1
<1> HIDE DEF x
<1>4. \A e \in Ends : BridgeOk(e, NewBridge(e), x[e], gen)
  BY <1>2, NewBridgeOk
<1>5. ASSUME NEW e \in Ends
      PROVE  LinkOk(e, NewBridge(e), NewBridge(Other(e)), 1)
  <2>1. Other(e) \in Ends
    BY EndFacts
  <2>2. \A p \in Proxy(e) : NewBridge(e).referenceCount[p] = 0
    BY ProxyFacts DEF NewBridge
  <2>3. NewBridge(e).is_valid = {} /\ NewBridge(Other(e)).g_stubs = <<>>
    BY DEF NewBridge
  <2> QED
    BY <2>2, <2>3 DEF LinkOk
<1>6. World(heap, x, gen, viewer)
  <2>1. \A e \in Ends : Other(e) \in Ends
    BY EndFacts
  <2>2. \A e \in Ends : LinkOk(e, heap[e], heap[Other(e)], gen)
    BY <1>1, <1>3, <1>5, <2>1
  <2>3. \A e \in Ends : \A t \in Objects(e) : x[e][t] \in Nat
    BY <1>2
  <2>4. \A e \in Ends : BridgeOk(e, heap[e], x[e], gen)
    BY <1>3, <1>4
  <2> QED
    BY <1>1, <1>3, <2>2, <2>3, <2>4 DEF World
<1>7. StackOk(stack, gen, viewer)
  <2>1. stack \in Seq(Frame) /\ Len(stack) = 0
    BY <1>1
  <2> QED
    BY <2>1, ConstantsAssumption DEF StackOk
<1>8. gen \in 1..MaxGen
  BY <1>1, ConstantsAssumption
<1> QED
  BY <1>1, <1>6, <1>7, <1>8 DEF BridgeInvariant, x

LEMMA InvariantNext ==
    ASSUME BridgeInvariant, [Next]_vars
    PROVE  BridgeInvariant'
<1>1. CASE \E e \in Ends : \E t \in Local(e) : CreateObject(e, t)
  BY <1>1, CreateObjectStep
<1>2. CASE \E e \in Ends : \E t \in Objects(e) : Retain(e, t)
  BY <1>2, RetainStep
<1>3. CASE \E e \in Ends : \E t \in Objects(e) : Release(e, t)
  BY <1>3, ReleaseStep
<1>4. CASE \E e \in Ends : Call(e)
  BY <1>4, CallStep
<1>5. CASE \E e \in Ends : Return(e)
  BY <1>5, ReturnStep
<1>6. CASE \E e \in Ends : CallAborts(e)
  BY <1>6, CallAbortsStep
<1>7. CASE \E e \in Ends : ReplyAborts(e)
  BY <1>7, ReplyAbortsStep
<1>8. CASE \E p \in Proxy("wrapper") : Invalidate(p)
  BY <1>8, InvalidateStep
<1>9. CASE ViewerDies
  BY <1>9, ViewerDiesStep
<1>10. CASE PluginKill
  BY <1>10, PluginKillStep
<1>11. CASE PluginStart
  BY <1>11, PluginStartStep
<1>12. CASE HandlerFails
  BY <1>12, HandlerFailsStep
<1>13. CASE UNCHANGED vars
  <2>1. heap' = heap /\ stack' = stack /\ UNCHANGED <<gen, viewer, asserted>>
    BY <1>13 DEF vars
  <2> QED
    BY <2>1, InvariantParts, InvariantKept
<1> QED
  BY <1>1, <1>2, <1>3, <1>4, <1>5, <1>6, <1>7, <1>8, <1>9, <1>10, <1>11, <1>12, <1>13 DEF Next

\* Whatever calls nest, and whenever the viewer is lost.
LEMMA BridgeIsSound == Spec => []BridgeInvariant
<1>1. Init => BridgeInvariant
  BY InvariantAtFirst
<1>2. BridgeInvariant /\ [Next]_vars => BridgeInvariant'
  BY InvariantNext
<1> QED
  BY <1>1, <1>2, PTL DEF Spec

LEMMA InvariantIsTyped ==
    ASSUME BridgeInvariant
    PROVE  TypeOK
<1>1. /\ World(heap, HeldBy(stack), gen, viewer) /\ StackOk(stack, gen, viewer)
      /\ gen \in 1..MaxGen /\ viewer \in {"up", "dead", "killed"} /\ asserted \subseteq {"viewer"}
  BY DEF BridgeInvariant
<1>2. heap = [e \in Ends |-> heap[e]]
  BY <1>1 DEF World
<1>3. ASSUME NEW e \in Ends
      PROVE  /\ heap[e].referenceCount \in [Objects(e) -> Nat]
             /\ heap[e].owned \in [Objects(e) -> Nat]
             /\ heap[e].lost \in [Objects(e) -> Nat]
             /\ heap[e].g_stubs \in PartialFunctions(Ids(e), Local(e))
             /\ heap[e].g_proxies \in PartialFunctions(Ids(Other(e)), Proxy(e))
             /\ heap[e].is_valid \subseteq Proxy(e)
             /\ heap[e].crossed \subseteq Proxy(e)
             /\ heap[e].next_id \in 0..MaxId(e)
  <2>1. BridgeOk(e, heap[e], HeldBy(stack)[e], gen) /\ Nats(e, HeldBy(stack)[e]) /\ heap[e] \in Bridge(e)
    BY <1>1, WorldParts
  <2>2. \A t \in Objects(e) : heap[e].referenceCount[t] \in Nat
    BY <2>1, CountsCover
  <2>3. heap[e].referenceCount \in [Objects(e) -> Int]
    BY <2>1, BridgeFields
  <2> QED
    BY <2>1, <2>2, <2>3, BridgeFields
<1>4. DOMAIN heap = Ends
  BY <1>2
<1>5. stack \in Seq(Frame) /\ asserted \subseteq Ends
  BY <1>1 DEF StackOk, Ends
<1> QED
  BY <1>1, <1>3, <1>4, <1>5 DEF TypeOK

\* Type correctness: the tables of npruntime.c hold what they are declared to, no
\* count falls below 0, and no id is given out beyond the bound.
THEOREM BridgeIsTyped == Spec => []TypeOK
<1>1. BridgeInvariant => TypeOK
  BY InvariantIsTyped
<1> QED
  BY <1>1, BridgeIsSound, PTL

LEMMA InvariantCounts ==
    ASSUME BridgeInvariant
    PROVE  RefCountsAreExact
<1> SUFFICES ASSUME NEW e \in Ends, NEW t \in Objects(e)
             PROVE  heap[e].referenceCount[t] =
                       heap[e].owned[t] + heap[e].lost[t] + Held(e, t)
                       + Cardinality({id \in DOMAIN heap[e].g_stubs : heap[e].g_stubs[id] = t})
  BY DEF RefCountsAreExact
<1>1. World(heap, HeldBy(stack), gen, viewer) /\ HeldBy(stack)[e][t] = Held(e, t)
  BY InvariantParts
<1>2. Exact(e, heap[e], HeldBy(stack)[e])
  BY <1>1, WorldParts DEF BridgeOk
<1> QED
  BY <1>1, <1>2 DEF Exact, CountOf

\* The reference counts that npruntime.c keeps by hand are exact, at both ends: an
\* object's count is the number of references that exist to it, through nested
\* calls, results that are passed on, invalidated proxies, lost and restarted
\* viewers.
THEOREM CountsStayExact == Spec => []RefCountsAreExact
<1>1. BridgeInvariant => RefCountsAreExact
  BY InvariantCounts
<1> QED
  BY <1>1, BridgeIsSound, PTL

LEMMA InvariantMatches ==
    ASSUME BridgeInvariant
    PROVE  StubsMatchProxies
<1>1. World(heap, HeldBy(stack), gen, viewer) /\ "wrapper" \notin asserted
  BY DEF BridgeInvariant
<1>2. ASSUME gen = 1, viewer = "up", NEW e \in Ends
      PROVE  DOMAIN heap[e].g_stubs = {p.id : p \in Live(Other(e))}
  <2> DEFINE f == Other(e)
  <2>1. f \in Ends /\ Other(f) = e
    BY EndFacts
  <2>2. BridgeOk(f, heap[f], HeldBy(stack)[f], gen) /\ LinkOk(f, heap[f], heap[e], 1)
    BY <1>1, <1>2, <2>1, WorldParts
  <2>3. \A p \in heap[f].is_valid : heap[f].referenceCount[p] > 0
    BY <2>2 DEF BridgeOk
  <2>4. \A p \in heap[f].is_valid : p.id \in DOMAIN heap[e].g_stubs
    <3>1. heap[f].crossed = {}
      BY <1>2, <2>2 DEF BridgeOk
    <3> QED
      BY <2>2, <3>1 DEF LinkOk
  <2>5. \A id \in DOMAIN heap[e].g_stubs : \E p \in heap[f].is_valid : p.id = id
    BY <2>2 DEF LinkOk
  <2> QED
    BY <2>3, <2>4, <2>5 DEF Live
<1> QED
  BY <1>1, <1>2 DEF StubsMatchProxies

\* Proxies and stubs come and go together: as long as the first viewer is up, each
\* proxy of one end has its stub at the other, and each stub its proxy, so the
\* assert on a received id never fails in the browser's process.
THEOREM StubsStayMatched == Spec => []StubsMatchProxies
<1>1. BridgeInvariant => StubsMatchProxies
  BY InvariantMatches
<1> QED
  BY <1>1, BridgeIsSound, PTL

LEMMA InvariantResolves ==
    ASSUME BridgeInvariant
    PROVE  ProxiesResolve
<1>1. World(heap, HeldBy(stack), gen, viewer)
  BY DEF BridgeInvariant
<1>2. ASSUME viewer = "up", NEW e \in Ends, NEW p \in Live(e), p \notin heap[e].crossed
      PROVE  p.gen = gen /\ p.id \in DOMAIN heap[Other(e)].g_stubs
  <2>1. LinkOk(e, heap[e], heap[Other(e)], gen) /\ BridgeOk(e, heap[e], HeldBy(stack)[e], gen)
    BY <1>1, <1>2, WorldParts
  <2> QED
    BY <1>2, <2>1 DEF LinkOk, BridgeOk, Live
<1> QED
  BY <1>2 DEF ProxiesResolve

\* Over any number of restarts, whatever proxies the browser holds on to and hands
\* on: every valid proxy is one of the viewer that is up, and its id is that of a
\* stub, but for a proxy of which a namesake of an earlier viewer was destroyed or
\* invalidated.
THEOREM ProxiesAlwaysResolve == Spec => []ProxiesResolve
<1>1. BridgeInvariant => ProxiesResolve
  BY InvariantResolves
<1> QED
  BY <1>1, BridgeIsSound, PTL

\* An id that the plugin sends to the browser always has its stub: the assert in
\* do_recv_NPObject_helper never ends the browser's process, over any restarts.
THEOREM BrowserNeverAsserts == Spec => []("wrapper" \notin asserted)
<1>1. BridgeInvariant => "wrapper" \notin asserted
  BY DEF BridgeInvariant
<1> QED
  BY <1>1, BridgeIsSound, PTL

\* "Invalidate any proxies the wrapper may still be holding on to": npruntime_deactivate
\* misses the crossed ones alone, and while the first viewer is the current one,
\* and at the viewer's end ever, there are none.
THEOREM DeactivationMissesTheCrossed ==
    Spec => [](DeactivatedProxiesAreInvalid /\ NoneCrossedAtFirst)
<1>1. ASSUME BridgeInvariant PROVE DeactivatedProxiesAreInvalid
  BY <1>1 DEF BridgeInvariant, World, DeactivatedProxiesAreInvalid, Live
<1>2. ASSUME BridgeInvariant PROVE NoneCrossedAtFirst
  <2>1. World(heap, HeldBy(stack), gen, viewer) /\ "wrapper" \in Ends /\ "viewer" \in Ends
    BY <1>2 DEF BridgeInvariant, Ends
  <2>2. /\ BridgeOk("wrapper", heap["wrapper"], HeldBy(stack)["wrapper"], gen)
        /\ BridgeOk("viewer", heap["viewer"], HeldBy(stack)["viewer"], gen)
    BY <2>1, WorldParts
  <2> QED
    BY <2>2 DEF BridgeOk, NoneCrossedAtFirst
<1> QED
  BY <1>1, <1>2, BridgeIsSound, PTL
=============================================================================
