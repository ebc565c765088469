-------------------------- MODULE InstancesProofs --------------------------
(***************************************************************************)
(* Proofs about Instances: whatever calls nest in which, for any number of *)
(* instances, streams and objects and any depth, the references to an      *)
(* instance are exactly those that need it, so that nothing but the known  *)
(* functions touches freed memory; the three processes agree on every      *)
(* stream; and no timer or asynchronous call reaches the plugin for an     *)
(* instance that the browser has destroyed.                                *)
(***************************************************************************)
EXTENDS Instances, DataFacts

-----------------------------------------------------------------------------
(* The inductive invariant.  Its parts are operators on values, so that the  *)
(* lemmas about them speak of any state.                                     *)

Plugins == PluginInstance \cup {NONE, Freed}
Source == [i : Instances, id : Nat]

RefOf(x) == IF x \in PluginInstance THEN x.refcount ELSE 0
IsValid(x) == x \in PluginInstance /\ x.is_valid = TRUE
One(x) == IF IsValid(x) THEN 1 ELSE 0

\* The calls of a sequence that are in F.
CountIf(s, F) == Cardinality({k \in 1..Len(s) : s[k] \in F})

NpnOf(i) == {c \in Calls : c.op \in NPN /\ c.i = i}
EndedOf(i, srcs) == {c \in Calls : c.op = "timer" /\ c.i = i /\ [i |-> i, id |-> c.s] \notin srcs}
SourcesOf(i, srcs) == {x \in srcs : x.i = i}

\* The references that the viewer itself holds to instance i: those of calls,
\* sources, removed sources whose callback runs, and asynchronous calls.
Held(stk, srcs, a, i) ==
    CountIf(stk, NpnOf(i)) + Cardinality(SourcesOf(i, srcs)) + CountIf(stk, EndedOf(i, srcs)) + a

\* The reference count of an instance, freed ones included, is what is held,
\* and one for the browser.
Counted(p, stk, srcs, as) ==
    \A i \in Instances : RefOf(p[i]) = Held(stk, srcs, as[i], i) + One(p[i])

\* What the browser knows of an instance and what the viewer has of it: an
\* instance that NPP_New has refused stays valid, with nothing scheduled.
Matched(n, p, srcs, as) ==
    \A i \in Instances :
        /\ (n[i] = "none") <=> (p[i] = NONE)
        /\ n[i] = "live" => IsValid(p[i])
        /\ n[i] = "dead" /\ IsValid(p[i]) => as[i] = 0 /\ SourcesOf(i, srcs) = {}

\* Key n belongs to a timer that the instance x has scheduled.
Keyed(x, n) ==
    IF x.tables = TRUE THEN n < MaxTimers => n < x.next_timer_id
    ELSE n >= MaxTimers /\ n < MaxTimers + x.next_timer_id

\* What is known of the instance of call c, the k-th.
CallOk(c, k, n, p, as) ==
    /\ c.op \in {"timer", "async"} => k = 1
    /\ c.op = "async" => as[c.i] > 0
    /\ c.op = "timer" /\ p[c.i] \in PluginInstance => p[c.i].tables = TRUE /\ Keyed(p[c.i], c.s)
    /\ c.op = "NPP_New" => n[c.i] = "live" /\ p[c.i] \in PluginInstance /\ p[c.i].tables = FALSE
    /\ c.op = "NPP_Destroy" => n[c.i] = "live"

StackOk(stk, n, p, as) == \A k \in 1..Len(stk) : CallOk(stk[k], k, n, p, as)

\* Two calls that exclude each other.
Rival(c, d) == c.op \in {"NPP_New", "NPP_Destroy"} /\ d.op \in {"NPP_New", "NPP_Destroy"} /\ c.i = d.i
NoRivals(stk) == \A j, k \in 1..Len(stk) : Rival(stk[j], stk[k]) => j = k

\* The timers of an instance are numbered below its next id.
Numbered(p, tm) ==
    \A i \in Instances :
        /\ p[i] \in PluginInstance =>
              \A t \in tm[i] : p[i].tables = TRUE /\ t.id < p[i].next_timer_id
        /\ p[i] \notin PluginInstance => tm[i] = {}

\* The owner of an object that is in a table is the instance of that table,
\* and is valid.
Owned(p, objs) ==
    \A o \in NPObjects :
        objs[o] # NONE /\ objs[o].npobjects # NONE /\ objs[o].owner # NONE =>
            objs[o].owner = objs[o].npobjects /\ IsValid(p[objs[o].owner])

\* A stream outside the calls that close it, in a state u of the viewer; busy
\* says that the plugin is closing it.
StreamOk(x, u, busy) ==
    /\ x.vdata = "live" => u = TRUE
    /\ x.by = "browser" =>
          /\ x.browser = "open" => x.wdata = TRUE /\ x.refused = FALSE /\ (u = TRUE => x.vdata = "live")
          /\ x.browser = "gone" /\ x.refused = FALSE => x.wdata = FALSE /\ x.vdata # "live"
    /\ x.by = "plugin" =>
          /\ x.refused = FALSE /\ x.browser \in {"open", "gone"}
          /\ x.browser = "open" /\ ~busy => x.wdata = TRUE /\ (u = TRUE => x.vdata = "live")
          /\ x.browser = "gone" => x.wdata = FALSE /\ x.vdata # "live"

Busy(stk, s) == \E k \in 1..Len(stk) : stk[k].op = "NPN_DestroyStream" /\ stk[k].s = s

\* The stream x of a call that opens or closes one.
ClosingOk(c, x, u) ==
    /\ c.op \in {"NPP_NewStream", "NPP_DestroyStream"} => x # NONE /\ x.by = "browser"
    /\ c.op = "NPP_DestroyStream" => x.browser = "closing" /\ (u = TRUE => x.vdata = "live")
    /\ c.op = "NPN_DestroyStream" => x # NONE /\ (x.by = "plugin" => x.wdata = FALSE)

Closes(c, d) == c.op \in {"NPP_DestroyStream", "NPN_DestroyStream"} /\ d.op = c.op /\ d.s = c.s

StreamsOk(stk, st, u) ==
    /\ \A s \in Streams : st[s] # NONE => StreamOk(st[s], u, Busy(stk, s))
    /\ \A k \in 1..Len(stk) : ClosingOk(stk[k], st[stk[k].s], u)
    /\ \A j, k \in 1..Len(stk) : Closes(stk[j], stk[k]) => j = k

\* While the viewer lives.
Alive ==
    /\ Counted(plugin, stack, sources, async)
    /\ Matched(npp, plugin, sources, async)
    /\ StackOk(stack, npp, plugin, async)
    /\ NoRivals(stack)
    /\ Numbered(plugin, timers)
    /\ Owned(plugin, npobjs)

InstanceInvariant ==
    /\ TypeOK
    /\ StreamsOk(stack, stream, up)
    /\ fault \subseteq KnownFaults
    /\ up => Alive
    /\ ~up => \A i \in Instances : plugin[i] = NONE

\* So that the next timer of an instance has a key that no source has.
KeyInvariant ==
    up => \A src \in sources : plugin[src.i] \in PluginInstance => Keyed(plugin[src.i], src.id)

-----------------------------------------------------------------------------
(* Counting calls                                                            *)

LEMMA PositionsFinite ==
    ASSUME NEW S, NEW s \in Seq(S), NEW F
    PROVE  /\ IsFiniteSet({k \in 1..Len(s) : s[k] \in F})
           /\ CountIf(s, F) \in Nat
<1>1. Len(s) \in Nat
  OBVIOUS
<1>2. IsFiniteSet(1..Len(s))
  BY <1>1, FS_Interval
<1>3. IsFiniteSet({k \in 1..Len(s) : s[k] \in F})
  BY <1>2, FS_Subset
<1> QED
  BY <1>3, FS_CardinalityType DEF CountIf

LEMMA CountAppend ==
    ASSUME NEW S, NEW s \in Seq(S), NEW x \in S, NEW F
    PROVE  CountIf(Append(s, x), F) = CountIf(s, F) + IF x \in F THEN 1 ELSE 0
<1> DEFINE t == Append(s, x)
           A == {k \in 1..Len(s) : s[k] \in F}
           B == {k \in 1..Len(t) : t[k] \in F}
           n == Len(s) + 1
<1>1. /\ Len(s) \in Nat /\ Len(t) = n /\ t[n] = x
      /\ \A k \in 1..Len(s) : t[k] = s[k]
  BY AppendProps
<1> HIDE DEF t
<1>2. IsFiniteSet(A) /\ CountIf(s, F) \in Nat
  BY PositionsFinite
<1>3. CASE x \in F
  <2>1. B = A \cup {n} /\ n \notin A
    BY <1>1, <1>3
  <2>2. Cardinality(B) = Cardinality(A) + 1
    BY <1>2, <2>1, FS_AddElement
  <2> QED
    BY <1>3, <2>2 DEF CountIf, t
<1>4. CASE x \notin F
  <2>1. B = A
    BY <1>1, <1>4
  <2>2. CountIf(Append(s, x), F) = CountIf(s, F)
    BY <2>1 DEF CountIf, t
  <2> QED
    BY <1>2, <1>4, <2>2
<1> QED
  BY <1>3, <1>4

LEMMA CountFront ==
    ASSUME NEW S, NEW s \in Seq(S), s # <<>>, NEW F
    PROVE  CountIf(s, F) = CountIf(Front(s), F) + IF Last(s) \in F THEN 1 ELSE 0
<1> DEFINE t == Front(s)  x == Last(s)
<1>1. /\ t \in Seq(S) /\ Len(t) = Len(s) - 1 /\ x = s[Len(s)] /\ x \in S
      /\ \A k \in 1..Len(t) : t[k] = s[k]
      /\ Len(s) \in Nat /\ Len(s) > 0
  BY FrontProps
<1> HIDE DEF t, x
<1>2. CountIf(Append(t, x), F) = CountIf(t, F) + IF x \in F THEN 1 ELSE 0
  BY <1>1, CountAppend
<1>3. /\ Len(Append(t, x)) = Len(s)
      /\ \A k \in 1..Len(s) : Append(t, x)[k] = s[k]
  <2>1. /\ Len(Append(t, x)) = Len(t) + 1 /\ Append(t, x)[Len(t) + 1] = x
        /\ \A k \in 1..Len(t) : Append(t, x)[k] = t[k]
    BY <1>1, AppendProps
  <2> QED
    BY <1>1, <2>1
<1>4. CountIf(Append(t, x), F) = CountIf(s, F)
  <2>1. {k \in 1..Len(Append(t, x)) : Append(t, x)[k] \in F} = {k \in 1..Len(s) : s[k] \in F}
    BY <1>3
  <2> QED
    BY <2>1 DEF CountIf
<1> QED
  BY <1>2, <1>4 DEF t, x

LEMMA CountEmpty ==
    ASSUME NEW F PROVE CountIf(<<>>, F) = 0
<1>1. {k \in 1..Len(<<>>) : <<>>[k] \in F} = {}
  OBVIOUS
<1> QED
  BY <1>1, FS_EmptySet DEF CountIf

LEMMA HeldType ==
    ASSUME NEW stk \in Seq(Calls), NEW srcs \in SUBSET Source, IsFiniteSet(srcs),
           NEW a \in Nat, NEW i \in Instances
    PROVE  /\ Held(stk, srcs, a, i) \in Nat
           /\ CountIf(stk, NpnOf(i)) \in Nat /\ CountIf(stk, EndedOf(i, srcs)) \in Nat
           /\ Cardinality(SourcesOf(i, srcs)) \in Nat /\ IsFiniteSet(SourcesOf(i, srcs))
<1>1. CountIf(stk, NpnOf(i)) \in Nat /\ CountIf(stk, EndedOf(i, srcs)) \in Nat
  BY PositionsFinite
<1>2. IsFiniteSet(SourcesOf(i, srcs)) /\ Cardinality(SourcesOf(i, srcs)) \in Nat
  BY FS_Subset, FS_CardinalityType DEF SourcesOf
<1> QED
  BY <1>1, <1>2 DEF Held

\* What a call that is pushed adds to what is held.
Adds(c, srcs, i) == IF c \in NpnOf(i) \cup EndedOf(i, srcs) THEN 1 ELSE 0

LEMMA HeldPush ==
    ASSUME NEW stk \in Seq(Calls), NEW srcs \in SUBSET Source, IsFiniteSet(srcs),
           NEW a \in Nat, NEW i \in Instances, NEW c \in Calls
    PROVE  Held(Append(stk, c), srcs, a, i) = Held(stk, srcs, a, i) + Adds(c, srcs, i)
<1>1. c \in NpnOf(i) => c \notin EndedOf(i, srcs)
  BY DEF NpnOf, EndedOf, NPN
<1>2. CountIf(Append(stk, c), NpnOf(i)) = CountIf(stk, NpnOf(i)) + IF c \in NpnOf(i) THEN 1 ELSE 0
  BY CountAppend
<1>3. CountIf(Append(stk, c), EndedOf(i, srcs)) =
        CountIf(stk, EndedOf(i, srcs)) + IF c \in EndedOf(i, srcs) THEN 1 ELSE 0
  BY CountAppend
<1>4. /\ CountIf(stk, NpnOf(i)) \in Nat /\ CountIf(stk, EndedOf(i, srcs)) \in Nat
      /\ Cardinality(SourcesOf(i, srcs)) \in Nat
  BY HeldType
<1> QED
  BY <1>1, <1>2, <1>3, <1>4 DEF Held, Adds

LEMMA HeldPop ==
    ASSUME NEW stk \in Seq(Calls), stk # <<>>, NEW srcs \in SUBSET Source, IsFiniteSet(srcs),
           NEW a \in Nat, NEW i \in Instances
    PROVE  /\ Held(stk, srcs, a, i) = Held(Front(stk), srcs, a, i) + Adds(Last(stk), srcs, i)
           /\ Held(Front(stk), srcs, a, i) \in Nat
<1> DEFINE c == Last(stk)
<1>1. c \in NpnOf(i) => c \notin EndedOf(i, srcs)
  BY DEF NpnOf, EndedOf, NPN
<1>2. CountIf(stk, NpnOf(i)) = CountIf(Front(stk), NpnOf(i)) + IF c \in NpnOf(i) THEN 1 ELSE 0
  BY CountFront
<1>3. CountIf(stk, EndedOf(i, srcs)) =
        CountIf(Front(stk), EndedOf(i, srcs)) + IF c \in EndedOf(i, srcs) THEN 1 ELSE 0
  BY CountFront
<1>4. Front(stk) \in Seq(Calls)
  BY FrontProps
<1>5. /\ Held(Front(stk), srcs, a, i) \in Nat
      /\ CountIf(Front(stk), NpnOf(i)) \in Nat /\ CountIf(Front(stk), EndedOf(i, srcs)) \in Nat
      /\ Cardinality(SourcesOf(i, srcs)) \in Nat
  BY <1>4, HeldType
<1> QED
  BY <1>1, <1>2, <1>3, <1>5 DEF Held, Adds

LEMMA HeldEmpty ==
    ASSUME NEW srcs \in SUBSET Source, IsFiniteSet(srcs), NEW a \in Nat, NEW i \in Instances
    PROVE  /\ Held(<<>>, srcs, a, i) = Cardinality(SourcesOf(i, srcs)) + a
           /\ Cardinality(SourcesOf(i, srcs)) \in Nat
<1>1. Cardinality(SourcesOf(i, srcs)) \in Nat
  BY FS_Subset, FS_CardinalityType DEF SourcesOf
<1>2. CountIf(<<>>, NpnOf(i)) = 0 /\ CountIf(<<>>, EndedOf(i, srcs)) = 0
  BY CountEmpty
<1> QED
  BY <1>1, <1>2 DEF Held

\* A source that is removed: one fewer for its instance.
LEMMA SourceRemoved ==
    ASSUME NEW srcs \in SUBSET Source, IsFiniteSet(srcs), NEW x \in srcs, NEW i \in Instances
    PROVE  /\ Cardinality(SourcesOf(i, srcs)) =
                Cardinality(SourcesOf(i, srcs \ {x})) + IF x.i = i THEN 1 ELSE 0
           /\ Cardinality(SourcesOf(i, srcs \ {x})) \in Nat
           /\ IsFiniteSet(srcs \ {x})
<1> DEFINE A == SourcesOf(i, srcs)  B == SourcesOf(i, srcs \ {x})
<1>1. IsFiniteSet(A) /\ IsFiniteSet(srcs \ {x})
  BY FS_Subset DEF SourcesOf
<1>2. IsFiniteSet(B) /\ Cardinality(B) \in Nat
  BY <1>1, FS_Subset, FS_CardinalityType DEF SourcesOf
<1>3. CASE x.i = i
  <2>1. A = B \cup {x} /\ x \notin B
    BY <1>3 DEF SourcesOf
  <2>2. Cardinality(A) = Cardinality(B) + 1
    BY <1>2, <2>1, FS_AddElement
  <2> QED
    BY <1>1, <1>2, <1>3, <2>2
<1>4. CASE x.i # i
  <2>1. A = B
    BY <1>4 DEF SourcesOf
  <2> QED
    BY <1>1, <1>2, <1>4, <2>1
<1> QED
  BY <1>3, <1>4

\* Without a callback that runs for it, a source that is removed is one
\* reference fewer.
LEMMA HeldWithout ==
    ASSUME NEW stk \in Seq(Calls), NEW srcs \in SUBSET Source, IsFiniteSet(srcs),
           NEW a \in Nat, NEW i \in Instances, NEW x \in srcs,
           \A k \in 1..Len(stk) : ~(stk[k].op = "timer" /\ stk[k].i = x.i /\ stk[k].s = x.id)
    PROVE  Held(stk, srcs, a, i) = Held(stk, srcs \ {x}, a, i) + IF x.i = i THEN 1 ELSE 0
<1>1. CountIf(stk, EndedOf(i, srcs)) = CountIf(stk, EndedOf(i, srcs \ {x}))
  <2>1. ASSUME NEW k \in 1..Len(stk)
        PROVE  stk[k] \in EndedOf(i, srcs) <=> stk[k] \in EndedOf(i, srcs \ {x})
    <3>1. ASSUME stk[k] \in EndedOf(i, srcs \ {x}), stk[k] \notin EndedOf(i, srcs) PROVE FALSE
      <4>1. stk[k].op = "timer" /\ stk[k].i = i /\ [i |-> i, id |-> stk[k].s] = x
        BY <3>1 DEF EndedOf
      <4>2. x.i = i /\ x.id = stk[k].s
        BY <4>1
      <4> QED
        BY <4>1, <4>2
    <3>2. stk[k] \in EndedOf(i, srcs) => stk[k] \in EndedOf(i, srcs \ {x})
      BY DEF EndedOf
    <3> QED
      BY <3>1, <3>2
  <2>2. {k \in 1..Len(stk) : stk[k] \in EndedOf(i, srcs)} =
        {k \in 1..Len(stk) : stk[k] \in EndedOf(i, srcs \ {x})}
    BY <2>1
  <2> QED
    BY <2>2 DEF CountIf
<1>2. CountIf(stk, NpnOf(i)) \in Nat /\ CountIf(stk, EndedOf(i, srcs)) \in Nat
  BY HeldType
<1>3. /\ Cardinality(SourcesOf(i, srcs)) =
           Cardinality(SourcesOf(i, srcs \ {x})) + IF x.i = i THEN 1 ELSE 0
      /\ Cardinality(SourcesOf(i, srcs \ {x})) \in Nat
  BY SourceRemoved
<1> QED
  BY <1>1, <1>2, <1>3 DEF Held

\* While its callback runs, the reference goes over to the call.
LEMMA HeldOver ==
    ASSUME NEW stk \in Seq(Calls), NEW srcs \in SUBSET Source, IsFiniteSet(srcs),
           NEW a \in Nat, NEW i \in Instances, NEW x \in srcs,
           \A k \in 1..Len(stk) : stk[k].op = "timer" => k = 1,
           stk # <<>>, stk[1].op = "timer", stk[1].i = x.i, stk[1].s = x.id
    PROVE  Held(stk, srcs, a, i) = Held(stk, srcs \ {x}, a, i)
<1> DEFINE A == {k \in 1..Len(stk) : stk[k] \in EndedOf(i, srcs)}
           B == {k \in 1..Len(stk) : stk[k] \in EndedOf(i, srcs \ {x})}
<1>1. /\ Cardinality(SourcesOf(i, srcs)) =
           Cardinality(SourcesOf(i, srcs \ {x})) + IF x.i = i THEN 1 ELSE 0
      /\ Cardinality(SourcesOf(i, srcs \ {x})) \in Nat
  BY SourceRemoved
<1>2. Len(stk) \in Nat /\ 1 \in 1..Len(stk) /\ stk[1] \in Calls
  OBVIOUS
<1>3. [i |-> x.i, id |-> x.id] = x
  BY DEF Source
<1>4. A = {}
  <2>1. ASSUME NEW k \in A PROVE FALSE
    <3>1. k = 1 /\ stk[1] \in EndedOf(i, srcs)
      BY <2>1 DEF EndedOf
    <3> QED
      BY <1>3, <3>1 DEF EndedOf
  <2> QED
    BY <2>1
<1>5. B = IF x.i = i THEN {1} ELSE {}
  <2>1. ASSUME NEW k \in B PROVE k = 1 /\ x.i = i
    BY <2>1 DEF EndedOf
  <2>2. x.i = i => 1 \in B
    BY <1>2, <1>3 DEF EndedOf
  <2> QED
    BY <2>1, <2>2
<1>6. Cardinality(A) = 0 /\ Cardinality(B) = IF x.i = i THEN 1 ELSE 0
  BY <1>4, <1>5, FS_EmptySet, FS_Singleton
<1>7. CountIf(stk, NpnOf(i)) \in Nat
  BY PositionsFinite
<1> QED
  BY <1>1, <1>6, <1>7 DEF Held, CountIf
-----------------------------------------------------------------------------
(* Changes of the reference counts                                           *)

\* q is p up to reference counts: no valid instance is freed.
Mild(p, q) ==
    \A j \in Instances :
        \/ q[j] = p[j]
        \/ /\ p[j] \in PluginInstance
           /\ \/ q[j] = Freed /\ ~IsValid(p[j])
              \/ /\ q[j] \in PluginInstance
                 /\ q[j].is_valid = p[j].is_valid
                 /\ q[j].tables = p[j].tables
                 /\ q[j].next_timer_id >= p[j].next_timer_id

LEMMA PluginTypes ==
    /\ NONE \notin PluginInstance /\ Freed \notin PluginInstance /\ NONE # Freed
    /\ NONE \notin StreamInstance /\ NONE \notin NPObject /\ NONE \notin Instances
    /\ MaxTimers \in Nat /\ MaxTimers > 0
  BY InstancesAssumption

LEMMA MembersOfPlugin ==
    ASSUME NEW x \in PluginInstance
    PROVE  /\ x.refcount \in Nat /\ x.refcount > 0
           /\ x.is_valid \in BOOLEAN /\ x.tables \in BOOLEAN
           /\ x.next_timer_id \in Nat /\ x.next_timer_id <= MaxTimers
           /\ x \notin {NONE, Freed}
           /\ RefOf(x) = x.refcount /\ RefOf(x) >= 1
  BY PluginTypes DEF PluginInstance, RefOf

LEMMA RefEffect ==
    ASSUME NEW p \in [Instances -> Plugins], NEW i \in Instances, p[i] \in PluginInstance,
           NEW q, q = npw_plugin_instance_ref(p, i)
    PROVE  /\ q \in [Instances -> Plugins]
           /\ Mild(p, q)
           /\ \A j \in Instances : /\ RefOf(q[j]) = RefOf(p[j]) + IF j = i THEN 1 ELSE 0
                                   /\ One(q[j]) = One(p[j])
                                   /\ q[j] = Freed => p[j] = Freed
<1> DEFINE x == p[i]  y == [p[i] EXCEPT !.refcount = @ + 1]
<1>1. /\ y \in PluginInstance /\ y.refcount = x.refcount + 1 /\ y.is_valid = x.is_valid
      /\ y.tables = x.tables /\ y.next_timer_id = x.next_timer_id
  BY DEF PluginInstance
<1>2. q = [p EXCEPT ![i] = y]
  BY DEF npw_plugin_instance_ref
<1> HIDE DEF y
<1>3. q \in [Instances -> Plugins] /\ q[i] = y /\ \A j \in Instances : j # i => q[j] = p[j]
  BY <1>1, <1>2 DEF Plugins
<1>4. x.next_timer_id <= y.next_timer_id
  BY <1>1, MembersOfPlugin
<1>5. Mild(p, q)
  BY <1>1, <1>3, <1>4 DEF Mild
<1>6. RefOf(q[i]) = RefOf(p[i]) + 1 /\ One(q[i]) = One(p[i])
  BY <1>1, <1>3 DEF RefOf, One, IsValid
<1>7. \A j \in Instances : RefOf(p[j]) \in Nat
  BY MembersOfPlugin DEF RefOf
<1> QED
  BY <1>1, <1>3, <1>5, <1>6, <1>7, PluginTypes

LEMMA UnrefEffect ==
    ASSUME NEW p \in [Instances -> Plugins], NEW i \in Instances,
           RefOf(p[i]) >= 1 + One(p[i]),
           NEW q, q = npw_plugin_instance_unref(p, i)
    PROVE  /\ q \in [Instances -> Plugins]
           /\ Mild(p, q)
           /\ \A j \in Instances : /\ RefOf(q[j]) = RefOf(p[j]) - IF j = i THEN 1 ELSE 0
                                   /\ One(q[j]) = One(p[j])
           /\ p[i] \in PluginInstance
<1> DEFINE x == p[i]  y == [p[i] EXCEPT !.refcount = @ - 1]
<1>1. x \in PluginInstance
  BY DEF RefOf, One
<1>2. /\ x.refcount \in Nat /\ x.refcount > 0 /\ x \notin {NONE, Freed} /\ RefOf(x) = x.refcount
      /\ x.next_timer_id \in Nat
  BY <1>1, MembersOfPlugin
<1>3. \A j \in Instances : RefOf(p[j]) \in Nat
  BY MembersOfPlugin DEF RefOf
<1>4. CASE x.refcount = 1
  <2>1. q = [p EXCEPT ![i] = Freed]
    BY <1>2, <1>4 DEF npw_plugin_instance_unref
  <2>2. q \in [Instances -> Plugins] /\ q[i] = Freed /\ \A j \in Instances : j # i => q[j] = p[j]
    BY <2>1 DEF Plugins
  <2>3. ~IsValid(x)
    BY <1>2, <1>4 DEF One
  <2>4. Mild(p, q)
    BY <1>1, <2>2, <2>3 DEF Mild
  <2>5. RefOf(q[i]) = 0 /\ One(q[i]) = 0 /\ One(x) = 0
    BY <2>2, <2>3, PluginTypes DEF RefOf, One, IsValid
  <2> QED
    BY <1>1, <1>2, <1>3, <1>4, <2>2, <2>4, <2>5
<1>5. CASE x.refcount # 1
  <2>1. /\ y \in PluginInstance /\ y.refcount = x.refcount - 1 /\ y.is_valid = x.is_valid
        /\ y.tables = x.tables /\ y.next_timer_id = x.next_timer_id
    BY <1>1, <1>2, <1>5 DEF PluginInstance
  <2>2. q = [p EXCEPT ![i] = y]
    BY <1>2, <1>5 DEF npw_plugin_instance_unref
  <2> HIDE DEF y
  <2>3. q \in [Instances -> Plugins] /\ q[i] = y /\ \A j \in Instances : j # i => q[j] = p[j]
    BY <2>1, <2>2 DEF Plugins
  <2>4. Mild(p, q)
    BY <1>1, <1>2, <2>1, <2>3 DEF Mild
  <2>5. RefOf(q[i]) = RefOf(p[i]) - 1 /\ One(q[i]) = One(p[i])
    BY <1>1, <1>2, <2>1, <2>3 DEF RefOf, One, IsValid
  <2> QED
    BY <1>1, <1>3, <2>3, <2>4, <2>5
<1> QED
  BY <1>4, <1>5

LEMMA MildMatched ==
    ASSUME NEW n, NEW p, NEW q, NEW srcs, NEW as, NEW srcs2, NEW as2,
           Matched(n, p, srcs, as), Mild(p, q),
           \A i \in Instances : n[i] = "dead" /\ IsValid(p[i]) => as2[i] = 0 /\ SourcesOf(i, srcs2) = {}
    PROVE  Matched(n, q, srcs2, as2)
<1> SUFFICES ASSUME NEW i \in Instances
             PROVE  /\ (n[i] = "none") <=> (q[i] = NONE)
                    /\ n[i] = "live" => IsValid(q[i])
                    /\ n[i] = "dead" /\ IsValid(q[i]) => as2[i] = 0 /\ SourcesOf(i, srcs2) = {}
  BY DEF Matched
<1>1. /\ (q[i] = NONE) <=> (p[i] = NONE)
      /\ IsValid(q[i]) <=> IsValid(p[i])
  BY PluginTypes DEF Mild, IsValid
<1> QED
  BY <1>1 DEF Matched

LEMMA MembersOfCall ==
    ASSUME NEW c \in Calls
    PROVE  /\ c.op \in NPN \cup NPP \cup {"timer", "async"} /\ c.i \in Instances
           /\ c = [op |-> c.op, i |-> c.i, s |-> c.s]
  BY DEF Calls

LEMMA MildStack ==
    ASSUME NEW n, NEW p, NEW q, NEW as, NEW as2, NEW stk \in Seq(Calls),
           StackOk(stk, n, p, as), Mild(p, q),
           \A i \in Instances : n[i] = "live" => IsValid(p[i]),
           \A i \in Instances : as[i] \in Nat /\ as2[i] \in Nat /\ as2[i] >= as[i],
           \A k \in 1..Len(stk) : stk[k].op = "timer" => stk[k].s \in Nat
    PROVE  StackOk(stk, n, q, as2)
<1> SUFFICES ASSUME NEW k \in 1..Len(stk)
             PROVE  CallOk(stk[k], k, n, q, as2)
  BY DEF StackOk
<1> DEFINE c == stk[k]
<1>1. c \in Calls /\ c.i \in Instances
  <2>1. stk[k] \in Calls
    OBVIOUS
  <2> QED
    BY <2>1, MembersOfCall
<1>2. CallOk(c, k, n, p, as)
  BY DEF StackOk
<1> HIDE DEF c
<1>3. c.op = "async" => as2[c.i] > 0
  <2> SUFFICES ASSUME c.op = "async" PROVE as2[c.i] > 0
    OBVIOUS
  <2> DEFINE a == as[c.i]  b == as2[c.i]
  <2>1. a > 0
    BY <1>2 DEF CallOk
  <2>2. a \in Nat /\ b \in Nat /\ b >= a
    BY <1>1
  <2> HIDE DEF a, b
  <2>3. b > 0
    BY <2>1, <2>2
  <2> QED
    BY <2>3 DEF b
<1>4. c.op = "timer" /\ q[c.i] \in PluginInstance => q[c.i].tables = TRUE /\ Keyed(q[c.i], c.s)
  <2> SUFFICES ASSUME c.op = "timer", q[c.i] \in PluginInstance
               PROVE  q[c.i].tables = TRUE /\ Keyed(q[c.i], c.s)
    OBVIOUS
  <2>1. /\ p[c.i] \in PluginInstance /\ q[c.i].tables = p[c.i].tables
        /\ q[c.i].next_timer_id >= p[c.i].next_timer_id
    BY <1>1, PluginTypes, MembersOfPlugin DEF Mild
  <2>2. p[c.i].tables = TRUE /\ Keyed(p[c.i], c.s)
    BY <1>2, <2>1 DEF CallOk
  <2>3. p[c.i].next_timer_id \in Nat /\ q[c.i].next_timer_id \in Nat /\ c.s \in Nat
    BY <2>1, MembersOfPlugin DEF c
  <2> QED
    BY <2>1, <2>2, <2>3, PluginTypes DEF Keyed
<1>5. c.op = "NPP_New" => q[c.i] \in PluginInstance /\ q[c.i].tables = FALSE
  <2> SUFFICES ASSUME c.op = "NPP_New" PROVE q[c.i] \in PluginInstance /\ q[c.i].tables = FALSE
    OBVIOUS
  <2>1. p[c.i] \in PluginInstance /\ p[c.i].tables = FALSE /\ IsValid(p[c.i])
    BY <1>1, <1>2 DEF CallOk
  <2> QED
    BY <1>1, <2>1, PluginTypes DEF Mild
<1> QED
  BY <1>2, <1>3, <1>4, <1>5 DEF CallOk, c

LEMMA MildNumbered ==
    ASSUME NEW p, NEW q, NEW tm, NEW tm2,
           Numbered(p, tm), Mild(p, q),
           \A j \in Instances : tm[j] \subseteq Timer,
           \A j \in Instances : /\ q[j] = Freed => tm2[j] = {}
                                /\ \A t \in tm2[j] : \E u \in tm[j] : u.id = t.id
    PROVE  Numbered(q, tm2)
<1> SUFFICES ASSUME NEW i \in Instances
             PROVE  /\ q[i] \in PluginInstance =>
                          \A t \in tm2[i] : q[i].tables = TRUE /\ t.id < q[i].next_timer_id
                    /\ q[i] \notin PluginInstance => tm2[i] = {}
  BY DEF Numbered
<1>1. ASSUME q[i] \in PluginInstance, NEW t \in tm2[i]
      PROVE  q[i].tables = TRUE /\ t.id < q[i].next_timer_id
  <2>1. PICK u \in tm[i] : u.id = t.id
    OBVIOUS
  <2>2. /\ p[i] \in PluginInstance /\ q[i].tables = p[i].tables
        /\ q[i].next_timer_id >= p[i].next_timer_id
    BY <1>1, PluginTypes, MembersOfPlugin DEF Mild
  <2>3. p[i].tables = TRUE /\ u.id < p[i].next_timer_id
    BY <2>1, <2>2 DEF Numbered
  <2>4. p[i].next_timer_id \in Nat /\ q[i].next_timer_id \in Nat
    BY <1>1, <2>2, MembersOfPlugin
  <2>5. u.id \in Nat
    BY <2>1 DEF Timer
  <2> QED
    BY <2>1, <2>2, <2>3, <2>4, <2>5
<1>2. ASSUME q[i] \notin PluginInstance PROVE tm2[i] = {}
  <2>1. q[i] = Freed \/ (q[i] = p[i] /\ tm[i] = {})
    BY <1>2 DEF Mild, Numbered
  <2> QED
    BY <2>1
<1> QED
  BY <1>1, <1>2

LEMMA MildOwned ==
    ASSUME NEW p, NEW q, NEW objs \in [NPObjects -> NPObject \cup {NONE}],
           Owned(p, objs), Mild(p, q)
    PROVE  Owned(q, objs)
<1> SUFFICES ASSUME NEW o \in NPObjects,
                    objs[o] # NONE, objs[o].npobjects # NONE, objs[o].owner # NONE
             PROVE  objs[o].owner = objs[o].npobjects /\ IsValid(q[objs[o].owner])
  BY DEF Owned
<1>1. objs[o].owner = objs[o].npobjects /\ IsValid(p[objs[o].owner])
  BY DEF Owned
<1>2. objs[o].owner \in Instances
  BY DEF NPObject
<1> QED
  BY <1>1, <1>2 DEF Mild, IsValid

-----------------------------------------------------------------------------
(* Calls that begin and end                                                  *)

\* What TypeOK says of a call.
Typed(c) ==
    /\ c.op \in {"NPP_NewStream", "NPP_Write", "NPP_DestroyStream", "NPN_NewStream", "NPN_DestroyStream"}
          => c.s \in Streams
    /\ c.op = "timer" => c.s \in Nat

LEMMA StackPush ==
    ASSUME NEW n, NEW p, NEW as, NEW stk \in Seq(Calls), NEW c \in Calls,
           StackOk(stk, n, p, as), CallOk(c, Len(stk) + 1, n, p, as)
    PROVE  StackOk(Append(stk, c), n, p, as)
<1>1. /\ Len(Append(stk, c)) = Len(stk) + 1 /\ Append(stk, c)[Len(stk) + 1] = c
      /\ \A k \in 1..Len(stk) : Append(stk, c)[k] = stk[k]
      /\ Len(stk) \in Nat
  BY AppendProps
<1>2. ASSUME NEW k \in 1..Len(Append(stk, c)) PROVE CallOk(Append(stk, c)[k], k, n, p, as)
  <2>1. CASE k \in 1..Len(stk)
    BY <1>1, <2>1, Zenon DEF StackOk
  <2>2. k \notin 1..Len(stk) => k = Len(stk) + 1
    BY <1>1
  <2>3. CASE k = Len(stk) + 1
    BY <1>1, <2>3, Zenon
  <2> QED
    BY <2>1, <2>2, <2>3
<1> QED
  BY <1>2 DEF StackOk

LEMMA StackPop ==
    ASSUME NEW n, NEW p, NEW as, NEW stk \in Seq(Calls), stk # <<>>, StackOk(stk, n, p, as)
    PROVE  StackOk(Front(stk), n, p, as)
<1>1. /\ Len(Front(stk)) = Len(stk) - 1 /\ Len(stk) \in Nat
      /\ \A k \in 1..Len(Front(stk)) : Front(stk)[k] = stk[k]
  BY FrontProps
<1>2. \A k \in 1..Len(Front(stk)) : k \in 1..Len(stk)
  BY <1>1
<1> QED
  BY <1>1, <1>2, Zenon DEF StackOk

LEMMA RivalsPush ==
    ASSUME NEW stk \in Seq(Calls), NEW c \in Calls, NoRivals(stk),
           \A k \in 1..Len(stk) : ~Rival(stk[k], c)
    PROVE  NoRivals(Append(stk, c))
<1> DEFINE t == Append(stk, c)  m == Len(stk) + 1
<1>1. /\ Len(t) = m /\ t[m] = c
      /\ \A k \in 1..Len(stk) : t[k] = stk[k]
      /\ Len(stk) \in Nat
  BY AppendProps
<1> HIDE DEF t
<1>2. \A k \in 1..Len(t) : k \in 1..Len(stk) \/ k = m
  BY <1>1
<1>3. \A k \in 1..Len(stk) : ~Rival(c, stk[k])
  BY DEF Rival
<1>4. ASSUME NEW j \in 1..Len(t), NEW k \in 1..Len(t), Rival(t[j], t[k]) PROVE j = k
  <2>1. CASE j \in 1..Len(stk) /\ k \in 1..Len(stk)
    <3>1. Rival(stk[j], stk[k])
      BY <1>1, <1>4, <2>1, Zenon
    <3> QED
      BY <2>1, <3>1 DEF NoRivals
  <2>2. CASE j \in 1..Len(stk) /\ k = m
    <3>1. Rival(stk[j], c)
      BY <1>1, <1>4, <2>2, Zenon
    <3> QED
      BY <2>2, <3>1
  <2>3. CASE j = m /\ k \in 1..Len(stk)
    <3>1. Rival(c, stk[k])
      BY <1>1, <1>4, <2>3, Zenon
    <3> QED
      BY <1>3, <2>3, <3>1
  <2> QED
    BY <1>2, <2>1, <2>2, <2>3
<1> QED
  BY <1>4 DEF NoRivals, t

LEMMA RivalsPop ==
    ASSUME NEW stk \in Seq(Calls), stk # <<>>, NoRivals(stk)
    PROVE  /\ NoRivals(Front(stk))
           /\ \A k \in 1..Len(Front(stk)) : ~Rival(Front(stk)[k], Last(stk))
<1> DEFINE t == Front(stk)
<1>1. /\ Len(t) = Len(stk) - 1 /\ Len(stk) \in Nat /\ Len(stk) > 0 /\ Last(stk) = stk[Len(stk)]
      /\ \A k \in 1..Len(t) : t[k] = stk[k]
  BY FrontProps
<1> HIDE DEF t
<1>2. \A k \in 1..Len(t) : k \in 1..Len(stk) /\ k # Len(stk) /\ Len(stk) \in 1..Len(stk)
  BY <1>1
<1>3. ASSUME NEW j \in 1..Len(t), NEW k \in 1..Len(t), Rival(t[j], t[k]) PROVE j = k
  <2>1. Rival(stk[j], stk[k])
    BY <1>1, <1>3, Zenon
  <2> QED
    BY <1>2, <2>1 DEF NoRivals
<1>4. ASSUME NEW k \in 1..Len(t), Rival(t[k], Last(stk)) PROVE FALSE
  <2>1. Rival(stk[k], stk[Len(stk)])
    BY <1>1, <1>4, Zenon
  <2> QED
    BY <1>2, <2>1 DEF NoRivals
<1> QED
  BY <1>3, <1>4 DEF NoRivals, t

LEMMA TypedPush ==
    ASSUME NEW stk \in Seq(Calls), NEW c \in Calls, Typed(c),
           \A k \in 1..Len(stk) : Typed(stk[k])
    PROVE  /\ Append(stk, c) \in Seq(Calls)
           /\ \A k \in 1..Len(Append(stk, c)) : Typed(Append(stk, c)[k])
<1> DEFINE t == Append(stk, c)  m == Len(stk) + 1
<1>1. /\ t \in Seq(Calls) /\ Len(t) = m /\ t[m] = c
      /\ \A k \in 1..Len(stk) : t[k] = stk[k]
      /\ Len(stk) \in Nat
  BY AppendProps
<1> HIDE DEF t
<1>2. \A k \in 1..Len(t) : k \in 1..Len(stk) \/ k = m
  BY <1>1
<1>3. \A k \in 1..Len(t) : Typed(t[k])
  BY <1>1, <1>2, Zenon
<1> QED
  BY <1>1, <1>3 DEF t

LEMMA TypedPop ==
    ASSUME NEW stk \in Seq(Calls), stk # <<>>,
           \A k \in 1..Len(stk) : Typed(stk[k])
    PROVE  /\ Front(stk) \in Seq(Calls)
           /\ \A k \in 1..Len(Front(stk)) : Typed(Front(stk)[k])
           /\ Last(stk) \in Calls /\ Typed(Last(stk)) /\ Last(stk).i \in Instances
<1>1. /\ Front(stk) \in Seq(Calls) /\ Len(Front(stk)) = Len(stk) - 1 /\ Len(stk) \in Nat /\ Len(stk) > 0
      /\ Last(stk) = stk[Len(stk)] /\ Last(stk) \in Calls
      /\ \A k \in 1..Len(Front(stk)) : Front(stk)[k] = stk[k]
  BY FrontProps
<1>2. /\ \A k \in 1..Len(Front(stk)) : k \in 1..Len(stk)
      /\ Len(stk) \in 1..Len(stk)
  BY <1>1
<1>3. \A k \in 1..Len(Front(stk)) : Typed(Front(stk)[k])
  BY <1>1, <1>2, Zenon
<1>4. Typed(Last(stk))
  BY <1>1, <1>2, Zenon
<1> QED
  BY <1>1, <1>3, <1>4, MembersOfCall

-----------------------------------------------------------------------------
(* Streams                                                                   *)

LEMMA StreamsPush ==
    ASSUME NEW st, NEW u, NEW stk \in Seq(Calls), NEW c \in Calls,
           StreamsOk(stk, st, u), ClosingOk(c, st[c.s], u),
           \A k \in 1..Len(stk) : ~Closes(stk[k], c)
    PROVE  StreamsOk(Append(stk, c), st, u)
<1> DEFINE t == Append(stk, c)  m == Len(stk) + 1
<1>1. /\ Len(t) = m /\ t[m] = c
      /\ \A k \in 1..Len(stk) : t[k] = stk[k]
      /\ Len(stk) \in Nat
  BY AppendProps
<1> HIDE DEF t
<1>2. /\ \A k \in 1..Len(t) : k \in 1..Len(stk) \/ k = m
      /\ \A k \in 1..Len(stk) : k \in 1..Len(t)
  BY <1>1
<1>3. ASSUME NEW s \in Streams, st[s] # NONE PROVE StreamOk(st[s], u, Busy(t, s))
  <2>1. Busy(stk, s) => Busy(t, s)
    BY <1>1, <1>2 DEF Busy
  <2>2. StreamOk(st[s], u, Busy(stk, s))
    BY <1>3 DEF StreamsOk
  <2> QED
    BY <2>1, <2>2 DEF StreamOk
<1>4. ASSUME NEW k \in 1..Len(t) PROVE ClosingOk(t[k], st[t[k].s], u)
  <2>1. CASE k \in 1..Len(stk)
    <3>1. ClosingOk(stk[k], st[stk[k].s], u)
      BY <2>1 DEF StreamsOk
    <3> QED
      BY <1>1, <2>1, <3>1, Zenon
  <2>2. CASE k = m
    BY <1>1, <2>2, Zenon
  <2> QED
    BY <1>2, <2>1, <2>2
<1>5. \A k \in 1..Len(stk) : ~Closes(c, stk[k])
  BY DEF Closes
<1>6. ASSUME NEW j \in 1..Len(t), NEW k \in 1..Len(t), Closes(t[j], t[k]) PROVE j = k
  <2>1. CASE j \in 1..Len(stk) /\ k \in 1..Len(stk)
    <3>1. Closes(stk[j], stk[k])
      BY <1>1, <1>6, <2>1, Zenon
    <3> QED
      BY <2>1, <3>1 DEF StreamsOk
  <2>2. CASE j \in 1..Len(stk) /\ k = m
    <3>1. Closes(stk[j], c)
      BY <1>1, <1>6, <2>2, Zenon
    <3> QED
      BY <2>2, <3>1
  <2>3. CASE j = m /\ k \in 1..Len(stk)
    <3>1. Closes(c, stk[k])
      BY <1>1, <1>6, <2>3, Zenon
    <3> QED
      BY <1>5, <2>3, <3>1
  <2> QED
    BY <1>2, <2>1, <2>2, <2>3
<1> QED
  BY <1>3, <1>4, <1>6 DEF StreamsOk, t

\* When the plugin's own call to close a stream ends, the stream is gone.
LEMMA StreamsPop ==
    ASSUME NEW st, NEW u, NEW stk \in Seq(Calls), stk # <<>>, StreamsOk(stk, st, u),
           Last(stk).op = "NPN_DestroyStream" /\ st[Last(stk).s].by = "plugin"
              => st[Last(stk).s].browser = "gone"
    PROVE  /\ StreamsOk(Front(stk), st, u)
           /\ ClosingOk(Last(stk), st[Last(stk).s], u)
           /\ \A k \in 1..Len(Front(stk)) : ~Closes(Front(stk)[k], Last(stk))
<1> DEFINE t == Front(stk)  m == Len(stk)
<1>1. /\ Len(t) = m - 1 /\ m \in Nat /\ m > 0 /\ Last(stk) = stk[m]
      /\ \A k \in 1..Len(t) : t[k] = stk[k]
  BY FrontProps
<1> HIDE DEF t
<1>2. /\ \A k \in 1..Len(t) : k \in 1..m /\ k # m
      /\ \A k \in 1..m : k \in 1..Len(t) \/ k = m
      /\ m \in 1..m
  BY <1>1
<1>3. ASSUME NEW s \in Streams, st[s] # NONE PROVE StreamOk(st[s], u, Busy(t, s))
  <2>1. StreamOk(st[s], u, Busy(stk, s))
    BY <1>3 DEF StreamsOk
  <2>2. CASE stk[m].op = "NPN_DestroyStream" /\ stk[m].s = s
    <3>1. st[s].by = "plugin" => st[s].browser = "gone"
      BY <1>1, <2>2
    <3> QED
      BY <2>1, <3>1 DEF StreamOk
  <2>3. CASE ~(stk[m].op = "NPN_DestroyStream" /\ stk[m].s = s)
    <3>1. Busy(stk, s) => Busy(t, s)
      BY <1>1, <1>2, <2>3 DEF Busy
    <3> QED
      BY <2>1, <3>1 DEF StreamOk
  <2> QED
    BY <2>2, <2>3
<1>4. ASSUME NEW k \in 1..Len(t) PROVE ClosingOk(t[k], st[t[k].s], u)
  <2>1. ClosingOk(stk[k], st[stk[k].s], u)
    BY <1>2 DEF StreamsOk
  <2> QED
    BY <1>1, <2>1, Zenon
<1>5. ASSUME NEW j \in 1..Len(t), NEW k \in 1..Len(t), Closes(t[j], t[k]) PROVE j = k
  <2>1. Closes(stk[j], stk[k])
    BY <1>1, <1>5, Zenon
  <2> QED
    BY <1>2, <2>1 DEF StreamsOk
<1>6. ASSUME NEW k \in 1..Len(t), Closes(t[k], Last(stk)) PROVE FALSE
  <2>1. Closes(stk[k], stk[m])
    BY <1>1, <1>6, Zenon
  <2> QED
    BY <1>2, <2>1 DEF StreamsOk
<1>7. ClosingOk(Last(stk), st[Last(stk).s], u)
  <2>1. ClosingOk(stk[m], st[stk[m].s], u)
    BY <1>2 DEF StreamsOk
  <2> QED
    BY <1>1, <2>1, Zenon
<1> QED
  BY <1>3, <1>4, <1>5, <1>6, <1>7 DEF StreamsOk, t

\* A change of one stream.
LEMMA StreamsSet ==
    ASSUME NEW st, NEW st2, NEW u, NEW stk \in Seq(Calls), NEW s \in Streams,
           StreamsOk(stk, st, u),
           \A k \in 1..Len(stk) : Typed(stk[k]),
           \A r \in Streams : r # s => st2[r] = st[r],
           StreamOk(st2[s], u, Busy(stk, s)),
           \A k \in 1..Len(stk) : stk[k].s = s => ClosingOk(stk[k], st2[s], u)
    PROVE  StreamsOk(stk, st2, u)
<1>1. ASSUME NEW r \in Streams, st2[r] # NONE PROVE StreamOk(st2[r], u, Busy(stk, r))
  <2>1. CASE r = s
    BY <2>1
  <2>2. CASE r # s
    <3>1. st2[r] = st[r] /\ st[r] # NONE
      BY <1>1, <2>2, Zenon
    <3>2. StreamOk(st[r], u, Busy(stk, r))
      BY <3>1, Zenon DEF StreamsOk
    <3> QED
      BY <3>1, <3>2, Zenon
  <2> QED
    BY <2>1, <2>2
<1>2. ASSUME NEW k \in 1..Len(stk) PROVE ClosingOk(stk[k], st2[stk[k].s], u)
  <2>1. CASE stk[k].s = s
    BY <2>1, Zenon
  <2>2. CASE stk[k].s # s /\ stk[k].s \notin Streams
    <3>1. stk[k].op \notin {"NPP_NewStream", "NPP_DestroyStream", "NPN_DestroyStream"}
      BY <2>2 DEF Typed
    <3> QED
      BY <3>1 DEF ClosingOk
  <2>3. CASE stk[k].s # s /\ stk[k].s \in Streams
    <3>1. st2[stk[k].s] = st[stk[k].s]
      BY <2>3, Zenon
    <3>2. ClosingOk(stk[k], st[stk[k].s], u)
      BY Zenon DEF StreamsOk
    <3> QED
      BY <3>1, <3>2, Zenon
  <2> QED
    BY <2>1, <2>2, <2>3
<1>3. \A j, k \in 1..Len(stk) : Closes(stk[j], stk[k]) => j = k
  BY DEF StreamsOk
<1> QED
  BY <1>1, <1>2, <1>3, Zenon DEF StreamsOk

-----------------------------------------------------------------------------
(* Steps of the state                                                        *)

LEMMA TypeFacts ==
    ASSUME TypeOK
    PROVE  /\ plugin \in [Instances -> Plugins]
           /\ sources \in SUBSET Source
           /\ \A k \in 1..Len(stack) : Typed(stack[k])
<1>1. plugin \in [Instances -> Plugins] /\ sources \in SUBSET Source
  BY DEF TypeOK, Plugins, Source
<1>2. \A k \in 1..Len(stack) : Typed(stack[k])
  BY DEF TypeOK, Typed
<1> QED
  BY <1>1, <1>2

LEMMA CallerIsLast ==
    ASSUME TypeOK, Caller.op # "none"
    PROVE  /\ stack # <<>> /\ Caller = Last(stack) /\ Caller \in Calls
           /\ Caller.i \in Instances /\ Typed(Caller)
           /\ Front(stack) \in Seq(Calls)
           /\ \A k \in 1..Len(Front(stack)) : Typed(Front(stack)[k])
<1>1. stack # <<>> /\ Caller = Last(stack)
  BY DEF Caller, Call
<1>2. stack \in Seq(Calls) /\ \A k \in 1..Len(stack) : Typed(stack[k])
  BY TypeFacts DEF TypeOK
<1> QED
  BY <1>1, <1>2, TypedPop

LEMMA HeldNow ==
    ASSUME TypeOK, NEW i \in Instances
    PROVE  Held(stack, sources, async[i], i) \in Nat
  BY TypeFacts, HeldType DEF TypeOK

\* A call that holds no reference begins.
LEMMA QuietPush ==
    ASSUME TypeOK, Alive, NEW c \in Calls, Typed(c), stack' = Append(stack, c),
           c.op \notin NPN \cup {"timer", "async", "NPP_New"},
           c.op = "NPP_Destroy" => npp[c.i] = "live" /\ \A k \in 1..Len(stack) : ~Rival(stack[k], c),
           UNCHANGED <<npp, plugin, timers, sources, async, npobjs>>
    PROVE  Alive'
<1>1. stack \in Seq(Calls) /\ sources \in SUBSET Source /\ IsFiniteSet(sources) /\ async \in [Instances -> Nat]
  BY TypeFacts DEF TypeOK
<1>2. Counted(plugin, Append(stack, c), sources, async)
  <2> SUFFICES ASSUME NEW i \in Instances
               PROVE  RefOf(plugin[i]) = Held(Append(stack, c), sources, async[i], i) + One(plugin[i])
    BY DEF Counted
  <2>1. Held(Append(stack, c), sources, async[i], i) = Held(stack, sources, async[i], i) + Adds(c, sources, i)
    BY <1>1, HeldPush
  <2>2. Adds(c, sources, i) = 0
    BY DEF Adds, NpnOf, EndedOf
  <2>3. Held(stack, sources, async[i], i) \in Nat
    BY HeldNow
  <2>4. RefOf(plugin[i]) = Held(stack, sources, async[i], i) + One(plugin[i])
    BY DEF Alive, Counted
  <2> QED
    BY <2>1, <2>2, <2>3, <2>4
<1>3. CallOk(c, Len(stack) + 1, npp, plugin, async)
  BY DEF CallOk
<1>4. StackOk(Append(stack, c), npp, plugin, async)
  BY <1>1, <1>3, StackPush DEF Alive
<1>5. \A k \in 1..Len(stack) : ~Rival(stack[k], c)
  BY DEF Rival
<1>6. NoRivals(Append(stack, c))
  BY <1>1, <1>5, RivalsPush DEF Alive
<1> QED
  BY <1>2, <1>4, <1>6 DEF Alive

\* A call that holds no reference ends.
LEMMA QuietPop ==
    ASSUME TypeOK, Alive, Caller.op \notin NPN \cup {"timer", "async", "none"}, stack' = Front(stack),
           UNCHANGED <<npp, plugin, timers, sources, async, npobjs>>
    PROVE  Alive'
<1>1. stack \in Seq(Calls) /\ sources \in SUBSET Source /\ IsFiniteSet(sources) /\ async \in [Instances -> Nat]
  BY TypeFacts DEF TypeOK
<1>2. stack # <<>> /\ Caller = Last(stack)
  BY CallerIsLast
<1>3. Counted(plugin, Front(stack), sources, async)
  <2> SUFFICES ASSUME NEW i \in Instances
               PROVE  RefOf(plugin[i]) = Held(Front(stack), sources, async[i], i) + One(plugin[i])
    BY DEF Counted
  <2>1. /\ Held(stack, sources, async[i], i) = Held(Front(stack), sources, async[i], i) + Adds(Caller, sources, i)
        /\ Held(Front(stack), sources, async[i], i) \in Nat
    BY <1>1, <1>2, HeldPop
  <2>2. Adds(Caller, sources, i) = 0
    BY DEF Adds, NpnOf, EndedOf
  <2>3. RefOf(plugin[i]) = Held(stack, sources, async[i], i) + One(plugin[i])
    BY DEF Alive, Counted
  <2> QED
    BY <2>1, <2>2, <2>3
<1>4. StackOk(Front(stack), npp, plugin, async)
  BY <1>1, <1>2, StackPop DEF Alive
<1>5. NoRivals(Front(stack))
  BY <1>1, <1>2, RivalsPop DEF Alive
<1> QED
  BY <1>3, <1>4, <1>5 DEF Alive

\* A call of the plugin begins, and takes a reference.
LEMMA EnterAlive ==
    ASSUME TypeOK, Alive, NEW c \in Calls, Typed(c), stack' = Append(stack, c), c.op \in NPN,
           plugin[c.i] \in PluginInstance, plugin' = npw_plugin_instance_ref(plugin, c.i),
           UNCHANGED <<npp, timers, sources, async, npobjs>>
    PROVE  Alive' /\ plugin' \in [Instances -> Plugins]
<1>1. /\ stack \in Seq(Calls) /\ sources \in SUBSET Source /\ IsFiniteSet(sources) /\ async \in [Instances -> Nat]
      /\ plugin \in [Instances -> Plugins] /\ c.i \in Instances
      /\ timers \in [Instances -> SUBSET Timer] /\ npobjs \in [NPObjects -> NPObject \cup {NONE}]
      /\ \A k \in 1..Len(stack) : Typed(stack[k])
  BY TypeFacts, MembersOfCall DEF TypeOK
<1>2. /\ plugin' \in [Instances -> Plugins]
      /\ Mild(plugin, plugin')
      /\ \A j \in Instances : /\ RefOf(plugin'[j]) = RefOf(plugin[j]) + IF j = c.i THEN 1 ELSE 0
                              /\ One(plugin'[j]) = One(plugin[j])
                              /\ plugin'[j] = Freed => plugin[j] = Freed
  <2> DEFINE h == c.i
  <2>1. h \in Instances /\ plugin[h] \in PluginInstance /\ plugin' = npw_plugin_instance_ref(plugin, h)
    BY <1>1
  <2> HIDE DEF h
  <2>2. /\ plugin' \in [Instances -> Plugins]
        /\ Mild(plugin, plugin')
        /\ \A j \in Instances : /\ RefOf(plugin'[j]) = RefOf(plugin[j]) + IF j = h THEN 1 ELSE 0
                                /\ One(plugin'[j]) = One(plugin[j])
                                /\ plugin'[j] = Freed => plugin[j] = Freed
    BY <1>1, <2>1, RefEffect
  <2> QED
    BY <2>2 DEF h
<1>3. Counted(plugin', Append(stack, c), sources, async)
  <2> SUFFICES ASSUME NEW i \in Instances
               PROVE  RefOf(plugin'[i]) = Held(Append(stack, c), sources, async[i], i) + One(plugin'[i])
    BY DEF Counted
  <2>1. Held(Append(stack, c), sources, async[i], i) = Held(stack, sources, async[i], i) + Adds(c, sources, i)
    BY <1>1, HeldPush
  <2>2. Adds(c, sources, i) = IF i = c.i THEN 1 ELSE 0
    BY DEF Adds, NpnOf, EndedOf, NPN
  <2>3. Held(stack, sources, async[i], i) \in Nat
    BY HeldNow
  <2>4. RefOf(plugin[i]) = Held(stack, sources, async[i], i) + One(plugin[i])
    BY DEF Alive, Counted
  <2>5. One(plugin[i]) \in Nat
    BY DEF One
  <2>6. RefOf(plugin'[i]) = RefOf(plugin[i]) + (IF i = c.i THEN 1 ELSE 0) /\ One(plugin'[i]) = One(plugin[i])
    BY <1>2
  <2> QED
    BY <2>1, <2>2, <2>3, <2>4, <2>5, <2>6
<1>4. Matched(npp, plugin', sources, async)
  <2>1. Matched(npp, plugin, sources, async)
    BY DEF Alive
  <2>2. \A i \in Instances : npp[i] = "dead" /\ IsValid(plugin[i]) => async[i] = 0 /\ SourcesOf(i, sources) = {}
    BY <2>1 DEF Matched
  <2> QED
    BY <1>2, <2>1, <2>2, MildMatched
<1>5. StackOk(stack, npp, plugin', async)
  <2>1. \A i \in Instances : npp[i] = "live" => IsValid(plugin[i])
    BY DEF Alive, Matched
  <2>2. \A i \in Instances : async[i] \in Nat /\ async[i] >= async[i]
    BY <1>1
  <2>3. \A k \in 1..Len(stack) : stack[k].op = "timer" => stack[k].s \in Nat
    BY <1>1 DEF Typed
  <2> QED
    BY <1>1, <1>2, <2>1, <2>2, <2>3, MildStack DEF Alive
<1>6. StackOk(Append(stack, c), npp, plugin', async)
  <2>1. CallOk(c, Len(stack) + 1, npp, plugin', async)
    BY DEF CallOk, NPN
  <2> QED
    BY <1>1, <1>5, <2>1, StackPush
<1>7. NoRivals(Append(stack, c))
  <2>1. \A k \in 1..Len(stack) : ~Rival(stack[k], c)
    BY DEF Rival, NPN
  <2> QED
    BY <1>1, <2>1, RivalsPush DEF Alive
<1>8. Numbered(plugin', timers)
  <2>1. \A j \in Instances : /\ plugin'[j] = Freed => timers[j] = {}
                             /\ \A t \in timers[j] : \E u \in timers[j] : u.id = t.id
    BY <1>2, PluginTypes DEF Alive, Numbered
  <2>2. \A j \in Instances : timers[j] \subseteq Timer
    BY <1>1
  <2>3. Numbered(plugin, timers)
    BY DEF Alive
  <2> QED
    BY <1>2, <2>1, <2>2, <2>3, MildNumbered
<1>9. Owned(plugin', npobjs)
  BY <1>1, <1>2, MildOwned DEF Alive
<1> QED
  BY <1>2, <1>3, <1>4, <1>6, <1>7, <1>8, <1>9 DEF Alive

\* When an instance is finalized its timers go.
Kept(tm, tm2, q) ==
    \A j \in Instances : /\ q[j] = Freed => tm2[j] = {}
                         /\ \A t \in tm2[j] : \E u \in tm[j] : u.id = t.id

LEMMA Finalized ==
    ASSUME TypeOK, timers' = plugin_instance_finalize(plugin')
    PROVE  timers' \in [Instances -> SUBSET Timer] /\ Kept(timers, timers', plugin')
  BY DEF TypeOK, plugin_instance_finalize, Kept

LEMMA MildStackNow ==
    ASSUME TypeOK, Alive, Mild(plugin, plugin'), async' \in [Instances -> Nat],
           \A i \in Instances : async'[i] >= async[i]
    PROVE  StackOk(stack, npp, plugin', async')
<1>1. \A i \in Instances : npp[i] = "live" => IsValid(plugin[i])
  BY DEF Alive, Matched
<1>2. \A i \in Instances : async[i] \in Nat /\ async'[i] \in Nat /\ async'[i] >= async[i]
  BY DEF TypeOK
<1>3. \A k \in 1..Len(stack) : stack[k].op = "timer" => stack[k].s \in Nat
  BY DEF TypeOK
<1>4. stack \in Seq(Calls) /\ StackOk(stack, npp, plugin, async)
  BY DEF TypeOK, Alive
<1> QED
  BY <1>1, <1>2, <1>3, <1>4, MildStack

LEMMA MildAlive ==
    ASSUME TypeOK, Alive, Mild(plugin, plugin'), UNCHANGED <<npp, npobjs>>,
           Counted(plugin', stack', sources', async'),
           StackOk(stack', npp, plugin', async'),
           NoRivals(stack'),
           \A i \in Instances : npp[i] = "dead" /\ IsValid(plugin[i]) =>
                                   async'[i] = 0 /\ SourcesOf(i, sources') = {},
           Kept(timers, timers', plugin')
    PROVE  Alive'
<1>1. Matched(npp, plugin', sources', async')
  <2>1. Matched(npp, plugin, sources, async)
    BY DEF Alive
  <2> QED
    BY <2>1, MildMatched
<1>2. Numbered(plugin', timers')
  <2>1. \A j \in Instances : timers[j] \subseteq Timer
    BY DEF TypeOK
  <2>2. Numbered(plugin, timers)
    BY DEF Alive
  <2>3. \A j \in Instances : /\ plugin'[j] = Freed => timers'[j] = {}
                             /\ \A t \in timers'[j] : \E u \in timers[j] : u.id = t.id
    BY DEF Kept
  <2> QED
    BY <2>1, <2>2, <2>3, MildNumbered
<1>3. Owned(plugin', npobjs)
  BY MildOwned DEF Alive, TypeOK
<1> QED
  BY <1>1, <1>2, <1>3 DEF Alive

\* An instance that something is held of is there, and unreferencing it frees
\* no valid instance.
LEMMA DropNow ==
    ASSUME TypeOK, Alive, NEW i \in Instances, Held(stack, sources, async[i], i) >= 1,
           plugin' = npw_plugin_instance_unref(plugin, i)
    PROVE  /\ plugin' \in [Instances -> Plugins]
           /\ Mild(plugin, plugin')
           /\ \A j \in Instances : /\ RefOf(plugin'[j]) = RefOf(plugin[j]) - IF j = i THEN 1 ELSE 0
                                   /\ One(plugin'[j]) = One(plugin[j])
           /\ plugin[i] \in PluginInstance
<1>1. RefOf(plugin[i]) = Held(stack, sources, async[i], i) + One(plugin[i])
  BY DEF Alive, Counted
<1>2. Held(stack, sources, async[i], i) \in Nat /\ One(plugin[i]) \in Nat
  BY HeldNow DEF One
<1>3. RefOf(plugin[i]) >= 1 + One(plugin[i])
  BY <1>1, <1>2
<1>4. plugin \in [Instances -> Plugins]
  BY TypeFacts
<1> QED
  BY <1>3, <1>4, UnrefEffect

LEMMA LeaveAlive ==
    ASSUME TypeOK, Alive, Caller.op \in NPN, stack' = Front(stack),
           plugin' = npw_plugin_instance_unref(plugin, Caller.i),
           timers' = plugin_instance_finalize(plugin'),
           UNCHANGED <<npp, sources, async, npobjs>>
    PROVE  /\ Alive' /\ plugin' \in [Instances -> Plugins]
           /\ timers' \in [Instances -> SUBSET Timer]
           /\ plugin[Caller.i] # Freed
<1> DEFINE h == Caller.i
<1>1. /\ stack \in Seq(Calls) /\ sources \in SUBSET Source /\ IsFiniteSet(sources) /\ async \in [Instances -> Nat]
  BY TypeFacts DEF TypeOK
<1>2. stack # <<>> /\ Caller = Last(stack) /\ Caller \in Calls /\ h \in Instances
  BY CallerIsLast DEF NPN
<1>3. ASSUME NEW i \in Instances
      PROVE  /\ Held(stack, sources, async[i], i) =
                   Held(Front(stack), sources, async[i], i) + IF i = h THEN 1 ELSE 0
             /\ Held(Front(stack), sources, async[i], i) \in Nat
  <2>1. /\ Held(stack, sources, async[i], i) = Held(Front(stack), sources, async[i], i) + Adds(Caller, sources, i)
        /\ Held(Front(stack), sources, async[i], i) \in Nat
    BY <1>1, <1>2, HeldPop
  <2>2. Adds(Caller, sources, i) = IF i = h THEN 1 ELSE 0
    BY <1>2 DEF Adds, NpnOf, EndedOf, NPN
  <2> QED
    BY <2>1, <2>2
<1> HIDE DEF h
<1>4. Held(stack, sources, async[h], h) >= 1
  BY <1>2, <1>3
<1>5. plugin' = npw_plugin_instance_unref(plugin, h)
  BY DEF h
<1>6. /\ plugin' \in [Instances -> Plugins]
      /\ Mild(plugin, plugin')
      /\ \A j \in Instances : /\ RefOf(plugin'[j]) = RefOf(plugin[j]) - IF j = h THEN 1 ELSE 0
                              /\ One(plugin'[j]) = One(plugin[j])
      /\ plugin[h] \in PluginInstance
  BY <1>2, <1>4, <1>5, DropNow
<1>7. Counted(plugin', stack', sources', async')
  <2> SUFFICES ASSUME NEW i \in Instances
               PROVE  RefOf(plugin'[i]) = Held(Front(stack), sources, async[i], i) + One(plugin'[i])
    BY DEF Counted
  <2>1. RefOf(plugin[i]) = Held(stack, sources, async[i], i) + One(plugin[i])
    BY DEF Alive, Counted
  <2>2. One(plugin[i]) \in Nat
    BY DEF One
  <2>3. RefOf(plugin'[i]) = RefOf(plugin[i]) - (IF i = h THEN 1 ELSE 0) /\ One(plugin'[i]) = One(plugin[i])
    BY <1>6
  <2> QED
    BY <1>3, <2>1, <2>2, <2>3
<1>8. StackOk(stack', npp, plugin', async')
  <2>1. \A i \in Instances : async'[i] >= async[i]
    BY <1>1
  <2>2. async' \in [Instances -> Nat]
    BY <1>1
  <2>3. StackOk(stack, npp, plugin', async')
    BY <1>6, <2>1, <2>2, MildStackNow
  <2> QED
    BY <1>1, <1>2, <2>3, StackPop
<1>9. NoRivals(stack')
  BY <1>1, <1>2, RivalsPop DEF Alive
<1>10. \A i \in Instances : npp[i] = "dead" /\ IsValid(plugin[i]) =>
                               async'[i] = 0 /\ SourcesOf(i, sources') = {}
  BY DEF Alive, Matched
<1>11. timers' \in [Instances -> SUBSET Timer] /\ Kept(timers, timers', plugin')
  BY Finalized
<1>12. Alive'
  BY <1>6, <1>7, <1>8, <1>9, <1>10, <1>11, MildAlive
<1> QED
  BY <1>6, <1>11, <1>12, PluginTypes DEF h

-----------------------------------------------------------------------------
(* The actions, one by one.                                                  *)

LEMMA InvariantFacts ==
    ASSUME InstanceInvariant
    PROVE  /\ TypeOK /\ StreamsOk(stack, stream, up) /\ fault \subseteq KnownFaults
           /\ up => Alive
           /\ ~up => \A i \in Instances : plugin[i] = NONE
           /\ stack \in Seq(Calls) /\ \A k \in 1..Len(stack) : Typed(stack[k])
           /\ stream \in [Streams -> StreamInstance \cup {NONE}]
           /\ up \in BOOLEAN
  BY TypeFacts DEF InstanceInvariant, TypeOK

LEMMA ExistsIs ==
    ASSUME TypeOK, NEW i \in Instances
    PROVE  /\ Exists(i) <=> plugin[i] \in PluginInstance
           /\ npw_plugin_instance_is_valid(i) <=> IsValid(plugin[i])
<1>1. Exists(i) <=> plugin[i] \in PluginInstance
  BY PluginTypes DEF Exists, TypeOK
<1>2. plugin[i] \in PluginInstance => (plugin[i].is_valid <=> plugin[i].is_valid = TRUE)
  BY MembersOfPlugin
<1> QED
  BY <1>1, <1>2, Zenon DEF npw_plugin_instance_is_valid, IsValid

\* A call about no stream, or one that leaves the streams alone.
LEMMA PushStreams ==
    ASSUME InstanceInvariant, NEW c \in Calls, Typed(c), stack' = Append(stack, c),
           c.op \notin {"NPP_NewStream", "NPP_DestroyStream", "NPN_DestroyStream"},
           UNCHANGED <<stream, up>>
    PROVE  StreamsOk(stack', stream', up')
<1>1. ClosingOk(c, stream[c.s], up)
  BY DEF ClosingOk
<1>2. \A k \in 1..Len(stack) : ~Closes(stack[k], c)
  BY DEF Closes
<1>3. StreamsOk(Append(stack, c), stream, up)
  BY <1>1, <1>2, InvariantFacts, StreamsPush
<1> QED
  BY <1>3

LEMMA PopStreams ==
    ASSUME InstanceInvariant, Caller.op \notin {"none", "NPN_DestroyStream"}, stack' = Front(stack),
           UNCHANGED <<stream, up>>
    PROVE  StreamsOk(stack', stream', up')
<1>1. stack # <<>> /\ Last(stack).op # "NPN_DestroyStream"
  BY CallerIsLast, InvariantFacts
<1>2. StreamsOk(Front(stack), stream, up)
  BY <1>1, InvariantFacts, StreamsPop
<1> QED
  BY <1>2

LEMMA SetWindowStep ==
    ASSUME InstanceInvariant, NEW i \in Instances, NPP_SetWindow(i) \/ NPP_Print(i)
    PROVE  InstanceInvariant'
<1>1. PICK op \in {"NPP_SetWindow", "NPP_Print"} :
          /\ up /\ stack' = Append(stack, Call(op, i, NONE))
          /\ UNCHANGED <<up, npp, wplugin, plugin, timers, sources, async, npobjs, stream, fault>>
  BY DEF NPP_SetWindow, NPP_Print, Push, viewer
<1> DEFINE c == Call(op, i, NONE)
<1>2. c \in Calls /\ Typed(c) /\ c.op \in {"NPP_SetWindow", "NPP_Print"} /\ stack' = Append(stack, c)
  BY <1>1 DEF Calls, Call, Typed, NPP
<1> HIDE DEF c
<1>3. stack' \in Seq(Calls) /\ \A k \in 1..Len(stack') : Typed(stack'[k])
  BY <1>2, InvariantFacts, TypedPush
<1>4. TypeOK'
  BY <1>1, <1>3, InvariantFacts DEF TypeOK, Typed
<1>5. StreamsOk(stack', stream', up')
  BY <1>1, <1>2, PushStreams
<1>6. Alive'
  BY <1>1, <1>2, InvariantFacts, QuietPush DEF NPN
<1> QED
  BY <1>1, <1>4, <1>5, <1>6, InvariantFacts DEF InstanceInvariant

LEMMA SetWindowReturn ==
    ASSUME InstanceInvariant,
           NPP_SetWindow_return \/ NPP_Write_return \/ \E printed \in BOOLEAN : NPP_Print_return(printed)
    PROVE  InstanceInvariant'
<1>1. /\ up /\ stack' = Front(stack) /\ Caller.op \in {"NPP_SetWindow", "NPP_Write", "NPP_Print"}
      /\ UNCHANGED <<up, npp, wplugin, plugin, timers, sources, async, npobjs, stream>>
  BY DEF NPP_SetWindow_return, NPP_Write_return, NPP_Print_return, Pop, PluginTurn, viewer
<1>2. fault' \subseteq KnownFaults
  BY InvariantFacts DEF NPP_SetWindow_return, NPP_Write_return, NPP_Print_return, Touch, KnownFaults
<1>3. stack' \in Seq(Calls) /\ \A k \in 1..Len(stack') : Typed(stack'[k])
  BY <1>1, InvariantFacts, CallerIsLast
<1>4. TypeOK'
  BY <1>1, <1>3, InvariantFacts DEF TypeOK, Typed
<1>5. StreamsOk(stack', stream', up')
  BY <1>1, PopStreams
<1>6. Alive'
  BY <1>1, InvariantFacts, QuietPop DEF NPN
<1> QED
  BY <1>1, <1>2, <1>4, <1>5, <1>6, InvariantFacts DEF InstanceInvariant

LEMMA WriteStep ==
    ASSUME InstanceInvariant, NEW s \in Streams, NPP_Write(s)
    PROVE  InstanceInvariant'
<1> DEFINE c == Call("NPP_Write", stream[s].i, s)
<1>1. /\ up /\ stack' = Append(stack, c) /\ Usable(s)
      /\ UNCHANGED <<up, npp, wplugin, plugin, timers, sources, async, npobjs, stream>>
  BY DEF NPP_Write, Push, viewer
<1>2. stream[s] \in StreamInstance /\ stream[s] # NONE /\ stream[s].by = "browser" /\ stream[s].browser = "open"
  BY <1>1, InvariantFacts DEF Usable
<1>3. c \in Calls /\ Typed(c) /\ c.op = "NPP_Write"
  BY <1>2 DEF Calls, Call, Typed, NPP, StreamInstance
<1> HIDE DEF c
<1>4. stack' \in Seq(Calls) /\ \A k \in 1..Len(stack') : Typed(stack'[k])
  BY <1>1, <1>3, InvariantFacts, TypedPush
<1>5. TypeOK'
  BY <1>1, <1>4, InvariantFacts DEF TypeOK, Typed
<1>6. StreamsOk(stack', stream', up')
  BY <1>1, <1>3, PushStreams
<1>7. Alive'
  BY <1>1, <1>3, InvariantFacts, QuietPush DEF NPN
<1>8. fault' \subseteq KnownFaults
  <2>1. StreamOk(stream[s], up, Busy(stack, s))
    BY <1>2, InvariantFacts DEF StreamsOk
  <2>2. stream[s].vdata = "live"
    BY <1>1, <1>2, <2>1 DEF StreamOk
  <2> QED
    BY <2>2, InvariantFacts DEF NPP_Write
<1> QED
  BY <1>1, <1>5, <1>6, <1>7, <1>8, InvariantFacts DEF InstanceInvariant

\* What is known of the stream of a call.
LEMMA StreamOfCall ==
    ASSUME InstanceInvariant, NEW k \in 1..Len(stack)
    PROVE  ClosingOk(stack[k], stream[stack[k].s], up)
  BY InvariantFacts DEF StreamsOk

LEMMA NewStreamStep ==
    ASSUME InstanceInvariant, NEW i \in Instances, NEW s \in Streams, NPP_NewStream(i, s)
    PROVE  InstanceInvariant'
<1> DEFINE c == Call("NPP_NewStream", i, s)
           x == [by |-> "browser", i |-> i, browser |-> "open",
                 refused |-> FALSE, wdata |-> TRUE, vdata |-> "live"]
<1>1. c \in Calls /\ Typed(c) /\ c.op = "NPP_NewStream" /\ c.s = s
  BY DEF Calls, Call, Typed, NPP
<1>2. /\ up /\ stack' = Append(stack, c) /\ stream[s] = NONE
      /\ stream' = [stream EXCEPT ![s] = x]
      /\ UNCHANGED <<up, npp, wplugin, plugin, timers, sources, async, npobjs, fault>>
  BY DEF NPP_NewStream, Push, viewer
<1>3. x \in StreamInstance /\ x # NONE /\ StreamOk(x, up, Busy(stack, s)) /\ x.by = "browser"
  <2>1. x \in StreamInstance
    BY DEF StreamInstance
  <2> QED
    BY <1>2, <2>1, PluginTypes DEF StreamOk
<1> HIDE DEF c, x
<1>4. stack' \in Seq(Calls) /\ \A k \in 1..Len(stack') : Typed(stack'[k])
  BY <1>1, <1>2, InvariantFacts, TypedPush
<1>5. stream' \in [Streams -> StreamInstance \cup {NONE}] /\ stream'[s] = x
      /\ \A r \in Streams : r # s => stream'[r] = stream[r]
  BY <1>2, <1>3, InvariantFacts
<1>6. TypeOK'
  BY <1>2, <1>4, <1>5, InvariantFacts DEF TypeOK, Typed
<1>7. ASSUME NEW k \in 1..Len(stack), stack[k].s = s
      PROVE  /\ stack[k].op \notin {"NPP_DestroyStream", "NPN_DestroyStream"}
             /\ ClosingOk(stack[k], stream'[s], up)
  <2>1. ClosingOk(stack[k], stream[s], up)
    BY <1>7, StreamOfCall
  <2> QED
    BY <1>2, <1>3, <1>5, <2>1 DEF ClosingOk
<1>8. StreamsOk(stack, stream', up)
  BY <1>3, <1>5, <1>7, InvariantFacts, StreamsSet
<1>9. StreamsOk(stack', stream', up')
  <2>1. ClosingOk(c, stream'[c.s], up)
    BY <1>1, <1>3, <1>5 DEF ClosingOk
  <2>2. \A k \in 1..Len(stack) : ~Closes(stack[k], c)
    BY <1>1 DEF Closes
  <2>3. StreamsOk(Append(stack, c), stream', up)
    BY <1>1, <1>8, <2>1, <2>2, InvariantFacts, StreamsPush
  <2> QED
    BY <1>2, <2>3
<1>10. Alive'
  BY <1>1, <1>2, InvariantFacts, QuietPush DEF NPN
<1> QED
  BY <1>2, <1>6, <1>9, <1>10, InvariantFacts DEF InstanceInvariant

\* The browser's own streams: the call at the top of the stack ends, and its
\* stream may be refused.
LEMMA RefusedStream ==
    ASSUME InstanceInvariant, Caller.op = "NPP_NewStream", stack' = Front(stack), up' = up,
           \/ stream' = stream
           \/ stream' = [stream EXCEPT ![Caller.s].browser = "gone", ![Caller.s].refused = TRUE]
              /\ stream[Caller.s].browser = "open"
    PROVE  /\ StreamsOk(stack', stream', up')
           /\ stream' \in [Streams -> StreamInstance \cup {NONE}]
<1>1. CASE stream' = stream
  BY <1>1, PopStreams, InvariantFacts
<1>2. CASE /\ stream' = [stream EXCEPT ![Caller.s].browser = "gone", ![Caller.s].refused = TRUE]
           /\ stream[Caller.s].browser = "open"
  <2> DEFINE s == Caller.s  t == Front(stack)
             x == [stream[s] EXCEPT !.browser = "gone", !.refused = TRUE]
  <2>1. /\ stack # <<>> /\ Caller = Last(stack) /\ s \in Streams
        /\ t \in Seq(Calls) /\ \A k \in 1..Len(t) : Typed(t[k])
    BY CallerIsLast, InvariantFacts DEF Typed
  <2>2. /\ StreamsOk(t, stream, up) /\ ClosingOk(Caller, stream[s], up)
    BY <2>1, InvariantFacts, StreamsPop
  <2>3. stream[s] # NONE /\ stream[s].by = "browser" /\ stream[s] \in StreamInstance
    BY <2>1, <2>2, InvariantFacts DEF ClosingOk
  <2>4. /\ x \in StreamInstance /\ x # NONE /\ x.by = "browser" /\ x.refused = TRUE
        /\ x.browser = "gone" /\ x.vdata = stream[s].vdata
    BY <2>3, PluginTypes DEF StreamInstance
  <2>5. stream' = [stream EXCEPT ![s] = x]
    BY <1>2, <2>1, InvariantFacts
  <2>6. StreamOk(stream[s], up, Busy(t, s))
    BY <2>1, <2>2, <2>3 DEF StreamsOk
  <2>7. StreamOk(x, up, Busy(t, s))
    BY <2>4, <2>6 DEF StreamOk
  <2> HIDE DEF x, t, s
  <2>8. stream' \in [Streams -> StreamInstance \cup {NONE}] /\ stream'[s] = x
        /\ \A r \in Streams : r # s => stream'[r] = stream[r]
    BY <2>1, <2>4, <2>5, InvariantFacts
  <2>9. ASSUME NEW k \in 1..Len(t), t[k].s = s PROVE ClosingOk(t[k], stream'[s], up)
    <3>1. ClosingOk(t[k], stream[s], up)
      BY <2>2, <2>9 DEF StreamsOk
    <3>2. t[k].op # "NPP_DestroyStream"
      BY <1>2, <3>1 DEF ClosingOk, s
    <3> QED
      BY <2>4, <2>8, <3>1, <3>2 DEF ClosingOk
  <2>10. StreamsOk(t, stream', up)
    BY <2>1, <2>2, <2>7, <2>8, <2>9, StreamsSet
  <2> QED
    BY <2>8, <2>10 DEF t
<1> QED
  BY <1>1, <1>2

LEMMA NewStreamReturn ==
    ASSUME InstanceInvariant, NEW ok \in BOOLEAN, NPP_NewStream_return(ok)
    PROVE  InstanceInvariant'
<1>1. /\ up /\ stack' = Front(stack) /\ Caller.op = "NPP_NewStream"
      /\ UNCHANGED <<up, npp, wplugin, plugin, timers, sources, async, npobjs>>
  BY DEF NPP_NewStream_return, Pop, PluginTurn, viewer
<1>6. fault' \subseteq KnownFaults
  BY InvariantFacts DEF NPP_NewStream_return, KnownFaults
<1>2. /\ StreamsOk(stack', stream', up')
      /\ stream' \in [Streams -> StreamInstance \cup {NONE}]
  BY <1>1, RefusedStream DEF NPP_NewStream_return
<1>3. stack' \in Seq(Calls) /\ \A k \in 1..Len(stack') : Typed(stack'[k])
  BY <1>1, InvariantFacts, CallerIsLast
<1>4. TypeOK'
  BY <1>1, <1>2, <1>3, InvariantFacts DEF TypeOK, Typed
<1>5. Alive'
  BY <1>1, InvariantFacts, QuietPop DEF NPN
<1> QED
  BY <1>1, <1>2, <1>4, <1>5, <1>6, InvariantFacts DEF InstanceInvariant

\* The stream of an NPP_DestroyStream call that ends: nothing is left of it.
LEMMA ClosedStream ==
    ASSUME InstanceInvariant, Caller.op = "NPP_DestroyStream", stack' = Front(stack), up' = up,
           \/ up /\ stream' = [WrapperForgets(stream, Caller.s) EXCEPT ![Caller.s].vdata = "freed"]
           \/ ~up /\ stream' = WrapperForgets(stream, Caller.s)
    PROVE  /\ StreamsOk(stack', stream', up')
           /\ stream' \in [Streams -> StreamInstance \cup {NONE}]
           /\ up => stream[Caller.s].vdata = "live"
<1> DEFINE s == Caller.s  t == Front(stack)
           v == IF up THEN "freed" ELSE stream[s].vdata
           x == [stream[s] EXCEPT !.wdata = FALSE, !.browser = "gone", !.vdata = v]
<1>1. /\ stack # <<>> /\ Caller = Last(stack) /\ s \in Streams
      /\ t \in Seq(Calls) /\ \A k \in 1..Len(t) : Typed(t[k])
  BY CallerIsLast, InvariantFacts DEF Typed
<1>2. /\ StreamsOk(t, stream, up) /\ ClosingOk(Caller, stream[s], up)
      /\ \A k \in 1..Len(t) : ~Closes(t[k], Caller)
  BY <1>1, InvariantFacts, StreamsPop
<1>3. /\ stream[s] # NONE /\ stream[s].by = "browser" /\ stream[s] \in StreamInstance
      /\ up => stream[s].vdata = "live"
  BY <1>1, <1>2, InvariantFacts DEF ClosingOk
<1>4. StreamOk(stream[s], up, Busy(t, s))
  BY <1>1, <1>2, <1>3 DEF StreamsOk
<1>5. v \in {"none", "freed"}
  BY <1>3, <1>4 DEF StreamOk, StreamInstance
<1>6. stream' = [stream EXCEPT ![s] = x]
  <2>1. CASE up
    BY <1>1, <1>3, <2>1, InvariantFacts DEF WrapperForgets, StreamInstance
  <2>2. CASE ~up
    <3>1. stream' = [stream EXCEPT ![s] = [@ EXCEPT !.wdata = FALSE, !.browser = "gone"]]
      BY <1>1, <2>2 DEF WrapperForgets
    <3>2. x = [stream[s] EXCEPT !.wdata = FALSE, !.browser = "gone"]
      BY <1>3, <2>2 DEF StreamInstance
    <3> QED
      BY <3>1, <3>2, Zenon
  <2> QED
    BY <2>1, <2>2
<1> HIDE DEF v
<1>7. /\ x \in StreamInstance /\ x # NONE /\ x.by = "browser" /\ x.wdata = FALSE
      /\ x.browser = "gone" /\ x.vdata # "live"
  BY <1>3, <1>5, PluginTypes DEF StreamInstance
<1>8. StreamOk(x, up, Busy(t, s))
  BY <1>7 DEF StreamOk
<1> HIDE DEF x, t, s
<1>9. stream' \in [Streams -> StreamInstance \cup {NONE}] /\ stream'[s] = x
      /\ \A r \in Streams : r # s => stream'[r] = stream[r]
  BY <1>1, <1>6, <1>7, InvariantFacts
<1>10. ASSUME NEW k \in 1..Len(t), t[k].s = s PROVE ClosingOk(t[k], stream'[s], up)
  <2>1. t[k].op # "NPP_DestroyStream"
    BY <1>2, <1>10 DEF Closes, s
  <2> QED
    BY <1>7, <1>9, <2>1 DEF ClosingOk
<1>11. StreamsOk(t, stream', up)
  BY <1>1, <1>2, <1>8, <1>9, <1>10, StreamsSet
<1> QED
  BY <1>3, <1>9, <1>11 DEF t, s

LEMMA DestroyStreamReturn ==
    ASSUME InstanceInvariant, NPP_DestroyStream_return
    PROVE  InstanceInvariant'
<1>1. /\ up /\ stack' = Front(stack) /\ Caller.op = "NPP_DestroyStream"
      /\ UNCHANGED <<up, npp, wplugin, plugin, timers, sources, async, npobjs>>
  BY DEF NPP_DestroyStream_return, Pop, PluginTurn, viewer
<1>2. /\ StreamsOk(stack', stream', up')
      /\ stream' \in [Streams -> StreamInstance \cup {NONE}]
      /\ stream[Caller.s].vdata = "live"
  BY <1>1, ClosedStream DEF NPP_DestroyStream_return
<1>3. stack' \in Seq(Calls) /\ \A k \in 1..Len(stack') : Typed(stack'[k])
  BY <1>1, InvariantFacts, CallerIsLast
<1>4. TypeOK'
  BY <1>1, <1>2, <1>3, InvariantFacts DEF TypeOK, Typed
<1>5. Alive'
  BY <1>1, InvariantFacts, QuietPop DEF NPN
<1>6. fault' \subseteq KnownFaults
  BY <1>2, InvariantFacts DEF NPP_DestroyStream_return
<1> QED
  BY <1>1, <1>2, <1>4, <1>5, <1>6, InvariantFacts DEF InstanceInvariant

LEMMA DestroyStreamStep ==
    ASSUME InstanceInvariant, NEW s \in Streams, NPP_DestroyStream(s)
    PROVE  InstanceInvariant'
<1> DEFINE c == Call("NPP_DestroyStream", stream[s].i, s)
           y == [stream[s] EXCEPT !.browser = "closing"]
           z == [stream[s] EXCEPT !.wdata = FALSE, !.browser = "gone"]
           x == IF up THEN y ELSE z
<1>1. /\ UNCHANGED <<up, npp, wplugin, plugin, timers, sources, async, npobjs, fault>>
      /\ Usable(s)
  BY DEF NPP_DestroyStream, viewer
<1>2. stream[s] \in StreamInstance /\ stream[s] # NONE /\ stream[s].by = "browser" /\ stream[s].browser = "open"
  BY <1>1, InvariantFacts DEF Usable
<1>3. c \in Calls /\ Typed(c) /\ c.op = "NPP_DestroyStream" /\ c.s = s
  BY <1>2 DEF Calls, Call, Typed, NPP, StreamInstance
<1>4. StreamOk(stream[s], up, Busy(stack, s))
  BY <1>2, InvariantFacts DEF StreamsOk
<1>5. stream' = [stream EXCEPT ![s] = x]
  BY <1>2, InvariantFacts DEF NPP_DestroyStream, WrapperForgets, StreamInstance
<1>6. /\ x \in StreamInstance /\ x # NONE /\ x.by = "browser" /\ StreamOk(x, up, Busy(stack, s))
      /\ up => x.browser = "closing" /\ x.vdata = "live"
  <2>1. x \in StreamInstance /\ x.by = "browser" /\ x.vdata = stream[s].vdata
    BY <1>2 DEF StreamInstance
  <2>2. CASE up
    BY <1>2, <1>4, <2>1, <2>2, PluginTypes DEF StreamOk, StreamInstance
  <2>3. CASE ~up
    BY <1>2, <1>4, <2>1, <2>3, PluginTypes DEF StreamOk, StreamInstance
  <2> QED
    BY <2>2, <2>3
<1> HIDE DEF c, x
<1>7. stream' \in [Streams -> StreamInstance \cup {NONE}] /\ stream'[s] = x
      /\ \A r \in Streams : r # s => stream'[r] = stream[r]
  BY <1>5, <1>6, InvariantFacts
<1>8. ASSUME NEW k \in 1..Len(stack), stack[k].s = s
      PROVE  stack[k].op # "NPP_DestroyStream" /\ ClosingOk(stack[k], stream'[s], up)
  <2>1. ClosingOk(stack[k], stream[s], up)
    BY <1>8, StreamOfCall
  <2>2. stack[k].op # "NPP_DestroyStream"
    BY <1>2, <2>1 DEF ClosingOk
  <2> QED
    BY <1>6, <1>7, <2>1, <2>2 DEF ClosingOk
<1>9. StreamsOk(stack, stream', up)
  BY <1>6, <1>7, <1>8, InvariantFacts, StreamsSet
<1>10. CASE up
  <2>1. stack' = Append(stack, c)
    BY <1>10 DEF NPP_DestroyStream, Push, c
  <2>2. stack' \in Seq(Calls) /\ \A k \in 1..Len(stack') : Typed(stack'[k])
    BY <1>3, <2>1, InvariantFacts, TypedPush
  <2>3. TypeOK'
    BY <1>1, <1>7, <2>2, InvariantFacts DEF TypeOK, Typed
  <2>4. StreamsOk(stack', stream', up')
    <3>1. ClosingOk(c, stream'[c.s], up)
      BY <1>3, <1>6, <1>7, <1>10 DEF ClosingOk
    <3>2. \A k \in 1..Len(stack) : ~Closes(stack[k], c)
      BY <1>3, <1>8 DEF Closes
    <3>3. StreamsOk(Append(stack, c), stream', up)
      BY <1>3, <1>9, <3>1, <3>2, InvariantFacts, StreamsPush
    <3> QED
      BY <1>1, <2>1, <3>3
  <2>5. Alive'
    BY <1>1, <1>3, <1>10, <2>1, InvariantFacts, QuietPush DEF NPN
  <2> QED
    BY <1>1, <1>10, <2>3, <2>4, <2>5, InvariantFacts DEF InstanceInvariant
<1>11. CASE ~up
  <2>1. stack' = stack
    BY <1>11 DEF NPP_DestroyStream
  <2>2. TypeOK'
    BY <1>1, <1>7, <2>1, InvariantFacts DEF TypeOK
  <2>3. StreamsOk(stack', stream', up')
    BY <1>1, <1>9, <2>1
  <2> QED
    BY <1>1, <1>11, <2>2, <2>3, InvariantFacts DEF InstanceInvariant
<1> QED
  BY <1>10, <1>11

\* A call of the plugin hands the browser an NPP that it still has.
LEMMA NppIsLive ==
    ASSUME InstanceInvariant, up, NEW i \in Instances, Exists(i),
           npp[i] # "dead" \/ ~npw_plugin_instance_is_valid(i)
    PROVE  HandsOut(i) = fault
<1>1. plugin[i] \in PluginInstance
  BY InvariantFacts, ExistsIs
<1>2. npp[i] \in {"live", "dead"}
  BY <1>1, InvariantFacts, PluginTypes DEF Alive, Matched, TypeOK
<1> QED
  BY <1>2, PluginTypes DEF HandsOut, do_recv_NPW_PluginInstance

LEMMA EnterFacts ==
    ASSUME InstanceInvariant, up, NEW i \in Instances, Exists(i),
           npp[i] # "dead" \/ ~npw_plugin_instance_is_valid(i),
           NEW op \in NPN, NEW s, s \in Streams \/ (op = "NPN_Write" /\ s = NONE),
           Enter(op, i, s),
           UNCHANGED <<up, npp, wplugin, timers, sources, async, npobjs>>
    PROVE  /\ Call(op, i, s) \in Calls /\ Typed(Call(op, i, s))
           /\ stack' = Append(stack, Call(op, i, s))
           /\ stack' \in Seq(Calls) /\ \A k \in 1..Len(stack') : Typed(stack'[k])
           /\ plugin' \in [Instances -> Plugins]
           /\ fault' = fault /\ Alive'
<1> DEFINE c == Call(op, i, s)
<1>1. c \in Calls /\ Typed(c) /\ c.op = op /\ c.i = i
  BY DEF Calls, Call, Typed, NPN
<1>2. /\ stack' = Append(stack, c) /\ plugin' = npw_plugin_instance_ref(plugin, i) /\ fault' = fault
  BY NppIsLive DEF Enter, Push
<1>3. plugin[i] \in PluginInstance
  BY InvariantFacts, ExistsIs
<1> HIDE DEF c
<1>4. stack' \in Seq(Calls) /\ \A k \in 1..Len(stack') : Typed(stack'[k])
  BY <1>1, <1>2, InvariantFacts, TypedPush
<1>5. plugin[c.i] \in PluginInstance /\ plugin' = npw_plugin_instance_ref(plugin, c.i) /\ c.op \in NPN
  BY <1>1, <1>2, <1>3
<1>6. Alive' /\ plugin' \in [Instances -> Plugins]
  BY <1>1, <1>2, <1>5, InvariantFacts, EnterAlive
<1> QED
  BY <1>1, <1>2, <1>4, <1>6 DEF c

LEMMA LeaveFacts ==
    ASSUME InstanceInvariant, Caller.op \in NPN, stack' = Front(stack), Leave(Caller.i),
           UNCHANGED <<up, npp, wplugin, sources, async, npobjs>>
    PROVE  /\ stack' \in Seq(Calls) /\ \A k \in 1..Len(stack') : Typed(stack'[k])
           /\ plugin' \in [Instances -> Plugins] /\ timers' \in [Instances -> SUBSET Timer]
           /\ LeaveFault("npw_plugin_instance_unref", Caller.i) = fault
           /\ up => Alive'
           /\ ~up => \A i \in Instances : plugin'[i] = NONE
<1>1. Caller.op # "none"
  BY DEF NPN
<1>2. stack' \in Seq(Calls) /\ \A k \in 1..Len(stack') : Typed(stack'[k])
  BY <1>1, InvariantFacts, CallerIsLast
<1>3. CASE up
  <2>1. plugin' = npw_plugin_instance_unref(plugin, Caller.i) /\ timers' = plugin_instance_finalize(plugin')
    BY <1>3 DEF Leave
  <2>2. /\ Alive' /\ plugin' \in [Instances -> Plugins]
        /\ timers' \in [Instances -> SUBSET Timer]
        /\ plugin[Caller.i] # Freed
    BY <1>3, <2>1, InvariantFacts, LeaveAlive
  <2> QED
    BY <1>2, <1>3, <2>2 DEF LeaveFault, Touch
<1>4. CASE ~up
  <2>1. plugin' = plugin /\ timers' = timers
    BY <1>4 DEF Leave
  <2> QED
    BY <1>2, <1>4, <2>1, InvariantFacts, TypeFacts DEF LeaveFault, TypeOK
<1> QED
  BY <1>3, <1>4

LEMMA NpnWriteStep ==
    ASSUME InstanceInvariant, NEW i \in Instances, NPN_Write(i)
    PROVE  InstanceInvariant'
<1> DEFINE c == Call("NPN_Write", i, NONE)
<1>1. /\ up /\ Exists(i) /\ (npp[i] # "dead" \/ ~npw_plugin_instance_is_valid(i))
      /\ Enter("NPN_Write", i, NONE)
      /\ UNCHANGED <<up, npp, wplugin, timers, sources, async, stream, npobjs>>
  BY DEF NPN_Write, PluginTurn
<1>2. "NPN_Write" \in NPN
  BY DEF NPN
<1>3. /\ c \in Calls /\ Typed(c) /\ stack' = Append(stack, c)
      /\ stack' \in Seq(Calls) /\ \A k \in 1..Len(stack') : Typed(stack'[k])
      /\ plugin' \in [Instances -> Plugins]
      /\ fault' = fault /\ Alive'
  BY <1>1, <1>2, EnterFacts
<1>4. TypeOK'
  BY <1>1, <1>3, InvariantFacts DEF TypeOK, Typed, Plugins
<1>5. c.op = "NPN_Write"
  BY DEF Call
<1> HIDE DEF c
<1>6. StreamsOk(stack', stream', up')
  BY <1>1, <1>3, <1>5, PushStreams
<1> QED
  BY <1>1, <1>3, <1>4, <1>6, InvariantFacts DEF InstanceInvariant

LEMMA NpnWriteReturn ==
    ASSUME InstanceInvariant, NPN_Write_return
    PROVE  InstanceInvariant'
<1>1. /\ Caller.op = "NPN_Write" /\ stack' = Front(stack) /\ Leave(Caller.i)
      /\ fault' = LeaveFault("npw_plugin_instance_unref", Caller.i)
      /\ UNCHANGED <<up, npp, wplugin, sources, async, stream, npobjs>>
  BY DEF NPN_Write_return, Pop
<1>2. Caller.op \in NPN
  BY <1>1 DEF NPN
<1>3. /\ stack' \in Seq(Calls) /\ \A k \in 1..Len(stack') : Typed(stack'[k])
      /\ plugin' \in [Instances -> Plugins] /\ timers' \in [Instances -> SUBSET Timer]
      /\ LeaveFault("npw_plugin_instance_unref", Caller.i) = fault
      /\ up => Alive'
      /\ ~up => \A i \in Instances : plugin'[i] = NONE
  BY <1>1, <1>2, LeaveFacts
<1>4. TypeOK'
  BY <1>1, <1>3, InvariantFacts DEF TypeOK, Typed, Plugins
<1>5. StreamsOk(stack', stream', up')
  BY <1>1, PopStreams
<1> QED
  BY <1>1, <1>3, <1>4, <1>5, InvariantFacts DEF InstanceInvariant

LEMMA NpnNewStreamStep ==
    ASSUME InstanceInvariant, NEW i \in Instances, NEW s \in Streams, NPN_NewStream(i, s)
    PROVE  InstanceInvariant'
<1> DEFINE c == Call("NPN_NewStream", i, s)
<1>1. /\ up /\ Exists(i) /\ npp[i] # "dead"
      /\ Enter("NPN_NewStream", i, s)
      /\ UNCHANGED <<up, npp, wplugin, timers, sources, async, stream, npobjs>>
  BY DEF NPN_NewStream, PluginTurn
<1>2. "NPN_NewStream" \in NPN
  BY DEF NPN
<1>3. /\ c \in Calls /\ Typed(c) /\ stack' = Append(stack, c)
      /\ stack' \in Seq(Calls) /\ \A k \in 1..Len(stack') : Typed(stack'[k])
      /\ plugin' \in [Instances -> Plugins]
      /\ fault' = fault /\ Alive'
  BY <1>1, <1>2, EnterFacts
<1>4. TypeOK'
  BY <1>1, <1>3, InvariantFacts DEF TypeOK, Typed, Plugins
<1>5. c.op = "NPN_NewStream"
  BY DEF Call
<1> HIDE DEF c
<1>6. StreamsOk(stack', stream', up')
  BY <1>1, <1>3, <1>5, PushStreams
<1> QED
  BY <1>1, <1>3, <1>4, <1>6, InvariantFacts DEF InstanceInvariant

LEMMA NpnNewStreamReturn ==
    ASSUME InstanceInvariant, NEW ok \in BOOLEAN, NPN_NewStream_return(ok)
    PROVE  InstanceInvariant'
<1> DEFINE s == Caller.s  t == Front(stack)
           x == [by |-> "plugin", i |-> Caller.i, browser |-> "open",
                 refused |-> FALSE, wdata |-> TRUE, vdata |-> IF up THEN "live" ELSE "none"]
<1>1. /\ Caller.op = "NPN_NewStream" /\ stack' = Front(stack) /\ Leave(Caller.i)
      /\ fault' = LeaveFault("npw_plugin_instance_unref", Caller.i)
      /\ UNCHANGED <<up, npp, wplugin, sources, async, npobjs>>
  BY DEF NPN_NewStream_return, Pop
<1>2. Caller.op \in NPN
  BY <1>1 DEF NPN
<1>3. /\ stack' \in Seq(Calls) /\ \A k \in 1..Len(stack') : Typed(stack'[k])
      /\ plugin' \in [Instances -> Plugins] /\ timers' \in [Instances -> SUBSET Timer]
      /\ LeaveFault("npw_plugin_instance_unref", Caller.i) = fault
      /\ up => Alive'
      /\ ~up => \A i \in Instances : plugin'[i] = NONE
  BY <1>1, <1>2, LeaveFacts
<1>4. /\ stack # <<>> /\ Caller = Last(stack) /\ s \in Streams /\ Caller.i \in Instances
      /\ t \in Seq(Calls) /\ \A k \in 1..Len(t) : Typed(t[k])
  BY <1>1, CallerIsLast, InvariantFacts DEF Typed
<1>5. StreamsOk(t, stream, up)
  BY <1>1, <1>4, InvariantFacts, StreamsPop
<1>6. CASE stream' = stream
  <2>1. TypeOK'
    BY <1>1, <1>3, <1>6, InvariantFacts DEF TypeOK, Typed, Plugins
  <2> QED
    BY <1>1, <1>3, <1>5, <1>6, <2>1, InvariantFacts DEF InstanceInvariant
<1>7. CASE stream[s] = NONE /\ stream' = [stream EXCEPT ![s] = x]
  <2>1. x \in StreamInstance /\ x # NONE /\ StreamOk(x, up, Busy(t, s))
    <3>1. x \in StreamInstance
      BY <1>4 DEF StreamInstance
    <3> QED
      BY <3>1, InvariantFacts, PluginTypes DEF StreamOk
  <2> HIDE DEF x, t, s
  <2>2. stream' \in [Streams -> StreamInstance \cup {NONE}] /\ stream'[s] = x
        /\ \A r \in Streams : r # s => stream'[r] = stream[r]
    BY <1>4, <1>7, <2>1, InvariantFacts
  <2>3. ASSUME NEW k \in 1..Len(t), t[k].s = s PROVE ClosingOk(t[k], stream'[s], up)
    <3>1. ClosingOk(t[k], stream[s], up)
      BY <1>5, <2>3 DEF StreamsOk
    <3> QED
      BY <1>7, <3>1 DEF ClosingOk
  <2>4. StreamsOk(t, stream', up)
    BY <1>4, <1>5, <2>1, <2>2, <2>3, StreamsSet
  <2>5. TypeOK'
    BY <1>1, <1>3, <2>2, InvariantFacts DEF TypeOK, Typed, Plugins
  <2> QED
    BY <1>1, <1>3, <2>4, <2>5, InvariantFacts DEF InstanceInvariant, t
<1> QED
  BY <1>6, <1>7 DEF NPN_NewStream_return

\* A call begins that changes its stream.
LEMMA StreamsPushSet ==
    ASSUME NEW st, NEW st2, NEW u, NEW stk \in Seq(Calls), NEW s \in Streams, NEW c \in Calls,
           StreamsOk(stk, st, u), c.s = s,
           \A k \in 1..Len(stk) : Typed(stk[k]) /\ ~Closes(stk[k], c),
           \A r \in Streams : r # s => st2[r] = st[r],
           StreamOk(st2[s], u, Busy(Append(stk, c), s)),
           \A k \in 1..Len(stk) : stk[k].s = s => ClosingOk(stk[k], st2[s], u),
           ClosingOk(c, st2[s], u)
    PROVE  StreamsOk(Append(stk, c), st2, u)
<1> DEFINE t == Append(stk, c)  m == Len(stk) + 1
<1>1. /\ Len(t) = m /\ t[m] = c
      /\ \A k \in 1..Len(stk) : t[k] = stk[k]
      /\ Len(stk) \in Nat
  BY AppendProps
<1>2. /\ \A k \in 1..Len(t) : k \in 1..Len(stk) \/ k = m
      /\ \A k \in 1..Len(stk) : k \in 1..Len(t)
  BY <1>1
<1>3. StreamOk(st2[s], u, Busy(t, s))
  OBVIOUS
<1> HIDE DEF t
<1>4. ASSUME NEW r \in Streams, r # s, st2[r] # NONE PROVE StreamOk(st2[r], u, Busy(t, r))
  <2>1. Busy(stk, r) => Busy(t, r)
    BY <1>1, <1>2 DEF Busy
  <2>2. st2[r] = st[r]
    BY <1>4
  <2>3. StreamOk(st[r], u, Busy(stk, r))
    BY <1>4, <2>2 DEF StreamsOk
  <2>4. StreamOk(st[r], u, Busy(t, r))
    BY <2>1, <2>3 DEF StreamOk
  <2> QED
    BY <2>2, <2>4, Zenon
<1>5. ASSUME NEW k \in 1..Len(t) PROVE ClosingOk(t[k], st2[t[k].s], u)
  <2>1. CASE k = m
    BY <1>1, <2>1, Zenon
  <2>2. CASE k \in 1..Len(stk)
    <3>1. ClosingOk(stk[k], st[stk[k].s], u) /\ Typed(stk[k])
      BY <2>2, Zenon DEF StreamsOk
    <3>2. ClosingOk(stk[k], st2[stk[k].s], u)
      <4>1. CASE stk[k].s = s
        BY <2>2, <4>1, Zenon
      <4>2. CASE stk[k].s # s /\ stk[k].s \in Streams
        BY <3>1, <4>2, Zenon
      <4>3. CASE stk[k].s \notin Streams
        BY <3>1, <4>3 DEF Typed, ClosingOk
      <4> QED
        BY <4>1, <4>2, <4>3
    <3> QED
      BY <1>1, <2>2, <3>2, Zenon
  <2> QED
    BY <1>2, <2>1, <2>2
<1>6. \A k \in 1..Len(stk) : ~Closes(c, stk[k])
  BY DEF Closes
<1>7. ASSUME NEW j \in 1..Len(t), NEW k \in 1..Len(t), Closes(t[j], t[k]) PROVE j = k
  <2>1. CASE j \in 1..Len(stk) /\ k \in 1..Len(stk)
    <3>1. Closes(stk[j], stk[k])
      BY <1>1, <1>7, <2>1, Zenon
    <3> QED
      BY <2>1, <3>1 DEF StreamsOk
  <2>2. CASE j \in 1..Len(stk) /\ k = m
    <3>1. Closes(stk[j], c)
      BY <1>1, <1>7, <2>2, Zenon
    <3> QED
      BY <2>2, <3>1
  <2>3. CASE j = m /\ k \in 1..Len(stk)
    <3>1. Closes(c, stk[k])
      BY <1>1, <1>7, <2>3, Zenon
    <3> QED
      BY <1>6, <2>3, <3>1
  <2> QED
    BY <1>2, <2>1, <2>2, <2>3
<1>8. ASSUME NEW r \in Streams, st2[r] # NONE PROVE StreamOk(st2[r], u, Busy(t, r))
  BY <1>3, <1>4, <1>8
<1> QED
  BY <1>5, <1>7, <1>8, Zenon DEF StreamsOk, t

LEMMA NpnDestroyStreamStep ==
    ASSUME InstanceInvariant, NEW i \in Instances, NEW s \in Streams, NPN_DestroyStream(i, s)
    PROVE  InstanceInvariant'
<1> DEFINE c == Call("NPN_DestroyStream", i, s)
           x == IF stream[s].by = "plugin" THEN [stream[s] EXCEPT !.wdata = FALSE] ELSE stream[s]
<1>1. /\ up /\ Exists(i) /\ npp[i] # "dead"
      /\ Enter("NPN_DestroyStream", i, s)
      /\ stream[s] # NONE /\ stream[s].vdata = "live" /\ ~About({"NPN_DestroyStream"}, s)
      /\ UNCHANGED <<up, npp, wplugin, timers, sources, async, npobjs>>
  BY DEF NPN_DestroyStream, PluginTurn
<1>2. "NPN_DestroyStream" \in NPN
  BY DEF NPN
<1>3. /\ c \in Calls /\ Typed(c) /\ stack' = Append(stack, c)
      /\ stack' \in Seq(Calls) /\ \A k \in 1..Len(stack') : Typed(stack'[k])
      /\ plugin' \in [Instances -> Plugins]
      /\ fault' = fault /\ Alive'
  BY <1>1, <1>2, EnterFacts
<1>4. c.op = "NPN_DestroyStream" /\ c.s = s
  BY DEF Call
<1>5. stream[s] \in StreamInstance
  BY <1>1, InvariantFacts
<1>6. stream' = [stream EXCEPT ![s] = x]
  BY <1>5, InvariantFacts DEF NPN_DestroyStream
<1>7. /\ x \in StreamInstance /\ x # NONE /\ x.by = stream[s].by /\ x.browser = stream[s].browser
      /\ x.vdata = "live" /\ x.refused = stream[s].refused
      /\ x.by = "plugin" => x.wdata = FALSE
      /\ x.by = "browser" => x.wdata = stream[s].wdata
  BY <1>1, <1>5, PluginTypes DEF StreamInstance
<1> HIDE DEF c, x
<1>8. stream' \in [Streams -> StreamInstance \cup {NONE}] /\ stream'[s] = x
      /\ \A r \in Streams : r # s => stream'[r] = stream[r]
  BY <1>6, <1>7, InvariantFacts
<1>9. TypeOK'
  BY <1>1, <1>3, <1>8, InvariantFacts DEF TypeOK, Typed, Plugins
<1>10. Busy(Append(stack, c), s)
  <2>1. Len(stack) + 1 \in 1..Len(Append(stack, c)) /\ Append(stack, c)[Len(stack) + 1] = c
    BY <1>3, InvariantFacts, AppendProps
  <2> QED
    BY <1>4, <2>1 DEF Busy
<1>11. StreamOk(x, up, Busy(Append(stack, c), s))
  <2>1. StreamOk(stream[s], up, Busy(stack, s))
    BY <1>1, InvariantFacts DEF StreamsOk
  <2> QED
    BY <1>1, <1>7, <1>10, <2>1 DEF StreamOk
<1>12. ASSUME NEW k \in 1..Len(stack), stack[k].s = s PROVE ClosingOk(stack[k], stream'[s], up)
  <2>1. ClosingOk(stack[k], stream[s], up)
    BY <1>12, StreamOfCall
  <2> QED
    BY <1>7, <1>8, <2>1 DEF ClosingOk
<1>13. ClosingOk(c, stream'[s], up)
  BY <1>4, <1>7, <1>8 DEF ClosingOk
<1>14. \A k \in 1..Len(stack) : Typed(stack[k]) /\ ~Closes(stack[k], c)
  BY <1>1, <1>4, InvariantFacts DEF Closes, About
<1>15. StreamsOk(Append(stack, c), stream', up)
  BY <1>3, <1>4, <1>8, <1>11, <1>12, <1>13, <1>14, InvariantFacts, StreamsPushSet
<1> QED
  BY <1>1, <1>3, <1>9, <1>15, InvariantFacts DEF InstanceInvariant

LEMMA NpnDestroyStreamReturn ==
    ASSUME InstanceInvariant, NPN_DestroyStream_return
    PROVE  InstanceInvariant'
<1> DEFINE s == Caller.s  t == Front(stack)
           x == IF stream[s].by = "browser" THEN stream[s]
                ELSE [stream[s] EXCEPT !.browser = "gone", !.vdata = IF up THEN "freed" ELSE @]
<1>1. /\ Caller.op = "NPN_DestroyStream" /\ stack' = Front(stack) /\ Leave(Caller.i)
      /\ UNCHANGED <<up, npp, wplugin, sources, async, npobjs>>
  BY DEF NPN_DestroyStream_return, Pop
<1>2. Caller.op \in NPN
  BY <1>1 DEF NPN
<1>3. /\ stack' \in Seq(Calls) /\ \A k \in 1..Len(stack') : Typed(stack'[k])
      /\ plugin' \in [Instances -> Plugins] /\ timers' \in [Instances -> SUBSET Timer]
      /\ LeaveFault("npw_plugin_instance_unref", Caller.i) = fault
      /\ up => Alive'
      /\ ~up => \A i \in Instances : plugin'[i] = NONE
  BY <1>1, <1>2, LeaveFacts
<1>4. /\ stack # <<>> /\ Caller = Last(stack) /\ s \in Streams
      /\ t \in Seq(Calls) /\ \A k \in 1..Len(t) : Typed(t[k])
      /\ Len(stack) \in 1..Len(stack) /\ stack[Len(stack)] = Caller
  BY <1>1, CallerIsLast, InvariantFacts, FrontProps DEF Typed
<1>5. fault' \subseteq KnownFaults
  BY <1>3, InvariantFacts DEF NPN_DestroyStream_return, KnownFaults
<1>6. ClosingOk(Caller, stream[s], up)
  BY <1>4, StreamOfCall
<1>7. stream[s] \in StreamInstance /\ (stream[s].by = "plugin" => stream[s].wdata = FALSE)
  BY <1>1, <1>4, <1>6, InvariantFacts DEF ClosingOk
<1>8. StreamOk(stream[s], up, Busy(stack, s))
  BY <1>4, <1>7, InvariantFacts, PluginTypes DEF StreamsOk
<1>9. stream' = [stream EXCEPT ![s] = x]
  <2>1. CASE stream[s].by = "browser"
    <3>1. stream' = stream
      BY <2>1 DEF NPN_DestroyStream_return
    <3> QED
      BY <1>4, <2>1, <3>1, InvariantFacts
  <2>2. CASE stream[s].by # "browser" /\ up
    BY <1>4, <1>7, <2>2, InvariantFacts DEF NPN_DestroyStream_return, StreamInstance
  <2>3. CASE stream[s].by # "browser" /\ ~up
    BY <1>4, <1>7, <2>3, InvariantFacts DEF NPN_DestroyStream_return, StreamInstance
  <2> QED
    BY <2>1, <2>2, <2>3
<1>10. /\ x \in StreamInstance /\ x # NONE /\ x.by = stream[s].by /\ x.refused = stream[s].refused
       /\ x.wdata = stream[s].wdata
       /\ x.by = "browser" => x = stream[s]
       /\ x.by = "plugin" => x.browser = "gone" /\ (x.vdata = "freed" \/ (x.vdata = stream[s].vdata /\ ~up))
  BY <1>7, PluginTypes DEF StreamInstance
<1> HIDE DEF x, t, s
<1>11. stream' \in [Streams -> StreamInstance \cup {NONE}] /\ stream'[s] = x
       /\ \A r \in Streams : r # s => stream'[r] = stream[r]
  BY <1>4, <1>9, <1>10, InvariantFacts
<1>12. StreamOk(x, up, Busy(stack, s))
  <2>1. CASE stream[s].by = "browser"
    BY <1>8, <1>10, <2>1
  <2>2. CASE stream[s].by = "plugin"
    BY <1>7, <1>8, <1>10, <2>2 DEF StreamOk
  <2> QED
    BY <1>7, <2>1, <2>2 DEF StreamInstance
<1>13. ASSUME NEW k \in 1..Len(stack), stack[k].s = s PROVE ClosingOk(stack[k], stream'[s], up)
  <2>1. ClosingOk(stack[k], stream[s], up)
    BY <1>13, StreamOfCall
  <2>2. CASE stream[s].by = "browser"
    BY <1>10, <1>11, <2>1, <2>2
  <2>3. CASE stream[s].by = "plugin"
    BY <1>10, <1>11, <2>1, <2>3 DEF ClosingOk
  <2> QED
    BY <1>7, <2>2, <2>3 DEF StreamInstance
<1>14. StreamsOk(stack, stream', up)
  BY <1>4, <1>11, <1>12, <1>13, InvariantFacts, StreamsSet
<1>15. Last(stack).op = "NPN_DestroyStream" /\ stream'[Last(stack).s].by = "plugin"
          => stream'[Last(stack).s].browser = "gone"
  BY <1>4, <1>10, <1>11 DEF s
<1>16. StreamsOk(Front(stack), stream', up)
  BY <1>4, <1>14, <1>15, InvariantFacts, StreamsPop
<1>17. TypeOK'
  BY <1>1, <1>3, <1>11, InvariantFacts DEF TypeOK, Typed, Plugins
<1> QED
  BY <1>1, <1>3, <1>5, <1>16, <1>17, InvariantFacts DEF InstanceInvariant

-----------------------------------------------------------------------------
(* Objects                                                                   *)

LEMMA ObjectStep ==
    ASSUME InstanceInvariant, up, UNCHANGED <<up, npp, wplugin, plugin, timers, sources, async, stream, stack>>,
           npobjs' \in [NPObjects -> NPObject \cup {NONE}], Owned(plugin, npobjs'),
           fault' \subseteq KnownFaults
    PROVE  InstanceInvariant'
<1>1. TypeOK'
  BY InvariantFacts DEF TypeOK
<1>2. Alive'
  BY InvariantFacts DEF Alive
<1> QED
  BY <1>1, <1>2, InvariantFacts DEF InstanceInvariant

LEMMA LiveIsValid ==
    ASSUME InstanceInvariant, up, NEW i \in Instances, Exists(i), npp[i] # "dead"
    PROVE  npp[i] = "live" /\ IsValid(plugin[i]) /\ plugin[i] \in PluginInstance
<1>1. plugin[i] \in PluginInstance /\ plugin[i] # NONE
  BY InvariantFacts, ExistsIs, PluginTypes
<1>2. npp[i] = "live"
  BY <1>1, InvariantFacts DEF Alive, Matched, TypeOK
<1> QED
  BY <1>1, <1>2, InvariantFacts DEF Alive, Matched

LEMMA CreateObjectStep ==
    ASSUME InstanceInvariant, NEW i \in Instances, NEW o \in NPObjects, g_NPN_CreateObject(i, o)
    PROVE  InstanceInvariant'
<1> DEFINE x == npobject_register(i)
<1>1. /\ up /\ Exists(i) /\ npp[i] # "dead" /\ npobjs' = [npobjs EXCEPT ![o] = x]
      /\ UNCHANGED <<up, npp, wplugin, plugin, timers, sources, async, stream, stack, fault>>
  BY DEF g_NPN_CreateObject, PluginTurn
<1>2. IsValid(plugin[i])
  BY <1>1, LiveIsValid
<1>3. x \in NPObject /\ x.owner = i /\ x.npobjects \in {i, NONE}
  BY DEF npobject_register, NPObject
<1> HIDE DEF x
<1>4. npobjs \in [NPObjects -> NPObject \cup {NONE}] /\ Owned(plugin, npobjs)
  BY <1>1, InvariantFacts DEF TypeOK, Alive
<1>5. npobjs' \in [NPObjects -> NPObject \cup {NONE}] /\ npobjs'[o] = x
      /\ \A r \in NPObjects : r # o => npobjs'[r] = npobjs[r]
  BY <1>1, <1>3, <1>4
<1>6. Owned(plugin, npobjs')
  BY <1>2, <1>3, <1>4, <1>5 DEF Owned
<1> QED
  BY <1>1, <1>5, <1>6, InvariantFacts, ObjectStep

LEMMA RetainObjectStep ==
    ASSUME InstanceInvariant, NEW o \in NPObjects, g_NPN_RetainObject(o)
    PROVE  InstanceInvariant'
<1> DEFINE x == [npobjs[o] EXCEPT !.refs = @ + 1]
<1>1. /\ up /\ npobjs[o] # NONE /\ npobjs' = [npobjs EXCEPT ![o] = x]
      /\ UNCHANGED <<up, npp, wplugin, plugin, timers, sources, async, stream, stack, fault>>
  BY DEF g_NPN_RetainObject, PluginTurn
<1>2. npobjs \in [NPObjects -> NPObject \cup {NONE}] /\ Owned(plugin, npobjs)
  BY <1>1, InvariantFacts DEF TypeOK, Alive
<1>3. npobjs[o] \in NPObject
  BY <1>1, <1>2
<1>4. x \in NPObject /\ x.owner = npobjs[o].owner /\ x.npobjects = npobjs[o].npobjects
  BY <1>3 DEF NPObject
<1> HIDE DEF x
<1>5. npobjs' \in [NPObjects -> NPObject \cup {NONE}] /\ npobjs'[o] = x
      /\ \A r \in NPObjects : r # o => npobjs'[r] = npobjs[r]
  BY <1>1, <1>2, <1>4
<1>6. Owned(plugin, npobjs')
  BY <1>1, <1>2, <1>4, <1>5 DEF Owned
<1> QED
  BY <1>1, <1>5, <1>6, InvariantFacts, ObjectStep

LEMMA ReleaseObjectStep ==
    ASSUME InstanceInvariant, NEW o \in NPObjects, g_NPN_ReleaseObject(o)
    PROVE  InstanceInvariant'
<1> DEFINE y == [npobjs[o] EXCEPT !.refs = @ - 1]
           x == IF npobjs[o].refs = 1 THEN NONE ELSE y
<1>1. /\ up /\ npobjs[o] # NONE /\ npobjs' = [npobjs EXCEPT ![o] = x]
      /\ UNCHANGED <<up, npp, wplugin, plugin, timers, sources, async, stream, stack>>
  BY DEF g_NPN_ReleaseObject
<1>2. npobjs \in [NPObjects -> NPObject \cup {NONE}] /\ Owned(plugin, npobjs)
  BY <1>1, InvariantFacts DEF TypeOK, Alive
<1>3. npobjs[o] \in NPObject
  BY <1>1, <1>2
<1>4. x \in NPObject \cup {NONE} /\ (x # NONE => x.owner = npobjs[o].owner /\ x.npobjects = npobjs[o].npobjects)
  BY <1>3 DEF NPObject
<1> HIDE DEF x
<1>5. npobjs' \in [NPObjects -> NPObject \cup {NONE}] /\ npobjs'[o] = x
      /\ \A r \in NPObjects : r # o => npobjs'[r] = npobjs[r]
  BY <1>1, <1>2, <1>4
<1>6. Owned(plugin, npobjs')
  BY <1>1, <1>2, <1>4, <1>5 DEF Owned
<1>7. fault' \subseteq KnownFaults
  <2>1. CASE npobjs[o].npobjects = NONE
    BY <2>1, InvariantFacts DEF g_NPN_ReleaseObject, Touch, KnownFaults
  <2>2. CASE npobjs[o].npobjects # NONE /\ npobjs[o].owner # NONE
    <3>1. IsValid(plugin[npobjs[o].owner])
      BY <1>1, <1>2, <2>2 DEF Owned
    <3>2. plugin[npobjs[o].owner] # Freed
      BY <3>1, PluginTypes DEF IsValid
    <3> QED
      BY <2>2, <3>2, InvariantFacts DEF g_NPN_ReleaseObject, Touch, npobject_get_owner
  <2>3. CASE npobjs[o].owner = NONE
    BY <2>3, InvariantFacts DEF g_NPN_ReleaseObject, npobject_get_owner
  <2> QED
    BY <2>1, <2>2, <2>3
<1> QED
  BY <1>1, <1>5, <1>6, <1>7, ObjectStep

-----------------------------------------------------------------------------
(* Asynchronous calls and timers                                             *)

LEMMA SameIsMild ==
    ASSUME NEW p PROVE Mild(p, p)
  BY DEF Mild

\* The main loop of the viewer makes a call.
LEMMA LoopPush ==
    ASSUME TypeOK, Alive, stack = <<>>, NEW c \in Calls, c.op \in {"timer", "async"},
           stack' = Append(stack, c),
           \A i \in Instances : Adds(c, sources, i) = 0,
           CallOk(c, 1, npp, plugin, async),
           UNCHANGED <<npp, plugin, timers, sources, async, npobjs>>
    PROVE  Alive'
<1>1. stack \in Seq(Calls) /\ sources \in SUBSET Source /\ IsFiniteSet(sources) /\ async \in [Instances -> Nat]
  BY TypeFacts DEF TypeOK
<1>2. Counted(plugin, Append(stack, c), sources, async)
  <2> SUFFICES ASSUME NEW i \in Instances
               PROVE  RefOf(plugin[i]) = Held(Append(stack, c), sources, async[i], i) + One(plugin[i])
    BY DEF Counted
  <2>1. Held(Append(stack, c), sources, async[i], i) = Held(stack, sources, async[i], i) + Adds(c, sources, i)
    BY <1>1, HeldPush
  <2>2. Held(stack, sources, async[i], i) \in Nat
    BY HeldNow
  <2>3. RefOf(plugin[i]) = Held(stack, sources, async[i], i) + One(plugin[i])
    BY DEF Alive, Counted
  <2> QED
    BY <2>1, <2>2, <2>3
<1>3. Len(stack) + 1 = 1
  OBVIOUS
<1>4. CallOk(c, Len(stack) + 1, npp, plugin, async)
  BY <1>3, Zenon
<1>5. StackOk(Append(stack, c), npp, plugin, async)
  BY <1>1, <1>4, StackPush DEF Alive
<1>6. \A k \in 1..Len(stack) : ~Rival(stack[k], c)
  BY DEF Rival
<1>7. NoRivals(Append(stack, c))
  BY <1>1, <1>6, RivalsPush DEF Alive
<1> QED
  BY <1>2, <1>5, <1>7 DEF Alive

\* The main loop of the viewer is back, with references dropped.
LEMMA EmptyAlive ==
    ASSUME TypeOK, Alive, Mild(plugin, plugin'), UNCHANGED <<npp, npobjs>>,
           Counted(plugin', <<>>, sources', async'), stack' = <<>>,
           sources' \subseteq sources,
           \A i \in Instances : async'[i] \in Nat /\ async'[i] <= async[i],
           Kept(timers, timers', plugin')
    PROVE  Alive'
<1>1. StackOk(stack', npp, plugin', async') /\ NoRivals(stack')
  BY DEF StackOk, NoRivals
<1>2. ASSUME NEW i \in Instances, npp[i] = "dead", IsValid(plugin[i])
      PROVE  async'[i] = 0 /\ SourcesOf(i, sources') = {}
  <2>1. async[i] = 0 /\ SourcesOf(i, sources) = {}
    BY <1>2 DEF Alive, Matched
  <2> QED
    BY <2>1 DEF SourcesOf
<1>3. Counted(plugin', stack', sources', async')
  OBVIOUS
<1> QED
  BY <1>1, <1>2, <1>3, MildAlive

\* The same when one reference of i is dropped.
LEMMA LoopDrop ==
    ASSUME TypeOK, Alive, NEW i \in Instances,
           plugin' = npw_plugin_instance_unref(plugin, i),
           UNCHANGED <<npp, npobjs>>, stack' = <<>>,
           \A j \in Instances : /\ Held(<<>>, sources', async'[j], j) \in Nat
                                /\ Held(stack, sources, async[j], j) =
                                      Held(<<>>, sources', async'[j], j) + IF j = i THEN 1 ELSE 0,
           sources' \subseteq sources,
           \A j \in Instances : async'[j] \in Nat /\ async'[j] <= async[j],
           timers' = plugin_instance_finalize(plugin') \/
              \A q \in [Instances -> Plugins] :
                 q = plugin' => Kept(timers, timers', q) /\ timers' \in [Instances -> SUBSET Timer]
    PROVE  /\ Alive' /\ plugin' \in [Instances -> Plugins] /\ plugin[i] \in PluginInstance
           /\ timers' \in [Instances -> SUBSET Timer]
<1>1. Held(stack, sources, async[i], i) >= 1
  OBVIOUS
<1>2. /\ plugin' \in [Instances -> Plugins]
      /\ Mild(plugin, plugin')
      /\ \A j \in Instances : /\ RefOf(plugin'[j]) = RefOf(plugin[j]) - IF j = i THEN 1 ELSE 0
                              /\ One(plugin'[j]) = One(plugin[j])
      /\ plugin[i] \in PluginInstance
  BY <1>1, DropNow
<1>3. Counted(plugin', <<>>, sources', async')
  <2> SUFFICES ASSUME NEW j \in Instances
               PROVE  RefOf(plugin'[j]) = Held(<<>>, sources', async'[j], j) + One(plugin'[j])
    BY DEF Counted
  <2>1. RefOf(plugin[j]) = Held(stack, sources, async[j], j) + One(plugin[j])
    BY DEF Alive, Counted
  <2>2. One(plugin[j]) \in Nat
    BY DEF One
  <2>3. RefOf(plugin'[j]) = RefOf(plugin[j]) - (IF j = i THEN 1 ELSE 0) /\ One(plugin'[j]) = One(plugin[j])
    BY <1>2
  <2> QED
    BY <2>1, <2>2, <2>3
<1>4. Kept(timers, timers', plugin') /\ timers' \in [Instances -> SUBSET Timer]
  BY <1>2, Finalized
<1> QED
  BY <1>2, <1>3, <1>4, EmptyAlive

LEMMA AsyncCallStep ==
    ASSUME InstanceInvariant, NEW i \in Instances, g_NPN_PluginThreadAsyncCall(i)
    PROVE  InstanceInvariant'
<1>1. /\ up /\ Exists(i) /\ npp[i] = "live"
      /\ async' = [async EXCEPT ![i] = @ + 1] /\ plugin' = npw_plugin_instance_ref(plugin, i)
      /\ UNCHANGED <<up, npp, wplugin, timers, sources, stream, stack, fault, npobjs>>
  BY DEF g_NPN_PluginThreadAsyncCall
<1>2. plugin[i] \in PluginInstance /\ plugin \in [Instances -> Plugins] /\ async \in [Instances -> Nat]
  BY <1>1, InvariantFacts, ExistsIs, TypeFacts DEF TypeOK
<1>3. /\ plugin' \in [Instances -> Plugins]
      /\ Mild(plugin, plugin')
      /\ \A j \in Instances : /\ RefOf(plugin'[j]) = RefOf(plugin[j]) + IF j = i THEN 1 ELSE 0
                              /\ One(plugin'[j]) = One(plugin[j])
                              /\ plugin'[j] = Freed => plugin[j] = Freed
  BY <1>1, <1>2, RefEffect
<1>4. async' \in [Instances -> Nat] /\ \A j \in Instances : async'[j] = async[j] + IF j = i THEN 1 ELSE 0
  BY <1>1, <1>2
<1>5. TypeOK'
  BY <1>1, <1>3, <1>4, InvariantFacts DEF TypeOK, Plugins
<1>6. Counted(plugin', stack', sources', async')
  <2> SUFFICES ASSUME NEW j \in Instances
               PROVE  RefOf(plugin'[j]) = Held(stack, sources, async'[j], j) + One(plugin'[j])
    BY <1>1 DEF Counted
  <2>1. RefOf(plugin[j]) = Held(stack, sources, async[j], j) + One(plugin[j])
    BY <1>1, InvariantFacts DEF Alive, Counted
  <2>2. One(plugin[j]) \in Nat /\ Held(stack, sources, async[j], j) \in Nat
    BY InvariantFacts, HeldNow DEF One
  <2>3. Held(stack, sources, async'[j], j) = Held(stack, sources, async[j], j) + IF j = i THEN 1 ELSE 0
    <3>1. /\ CountIf(stack, NpnOf(j)) \in Nat /\ CountIf(stack, EndedOf(j, sources)) \in Nat
          /\ Cardinality(SourcesOf(j, sources)) \in Nat
      BY <1>2, InvariantFacts, TypeFacts, HeldType DEF TypeOK
    <3> QED
      BY <1>2, <1>4, <3>1 DEF Held
  <2>4. RefOf(plugin'[j]) = RefOf(plugin[j]) + (IF j = i THEN 1 ELSE 0) /\ One(plugin'[j]) = One(plugin[j])
    BY <1>3
  <2> QED
    BY <2>1, <2>2, <2>3, <2>4
<1>7. StackOk(stack', npp, plugin', async')
  <2>1. \A j \in Instances : async'[j] >= async[j]
    BY <1>2, <1>4
  <2> QED
    BY <1>1, <1>3, <1>4, <2>1, InvariantFacts, MildStackNow
<1>8. NoRivals(stack')
  BY <1>1, InvariantFacts DEF Alive
<1>9. \A j \in Instances : npp[j] = "dead" /\ IsValid(plugin[j]) =>
                              async'[j] = 0 /\ SourcesOf(j, sources') = {}
  BY <1>1, <1>2, <1>4, InvariantFacts DEF Alive, Matched
<1>10. Kept(timers, timers', plugin')
  BY <1>1, <1>3, InvariantFacts, PluginTypes DEF Kept, Alive, Numbered
<1>11. Alive'
  BY <1>1, <1>3, <1>6, <1>7, <1>8, <1>9, <1>10, InvariantFacts, MildAlive
<1> QED
  BY <1>1, <1>5, <1>11, InvariantFacts DEF InstanceInvariant

\* The numbers when an asynchronous call is done.
LEMMA AsyncDoneHeld ==
    ASSUME TypeOK, NEW i \in Instances, async[i] > 0, async' = [async EXCEPT ![i] = @ - 1],
           sources' = sources,
           \A j \in Instances : Held(stack, sources, async[j], j) = Held(<<>>, sources, async[j], j)
    PROVE  /\ async' \in [Instances -> Nat]
           /\ \A j \in Instances : async'[j] \in Nat /\ async'[j] <= async[j]
           /\ \A j \in Instances : /\ Held(<<>>, sources', async'[j], j) \in Nat
                                   /\ Held(stack, sources, async[j], j) =
                                         Held(<<>>, sources', async'[j], j) + IF j = i THEN 1 ELSE 0
<1>1. async \in [Instances -> Nat] /\ sources \in SUBSET Source /\ IsFiniteSet(sources)
  BY TypeFacts DEF TypeOK
<1>2. /\ async' \in [Instances -> Nat]
      /\ \A j \in Instances : async'[j] \in Nat /\ async[j] = async'[j] + IF j = i THEN 1 ELSE 0
  BY <1>1
<1>3. ASSUME NEW j \in Instances
      PROVE  /\ Held(<<>>, sources, async'[j], j) \in Nat
             /\ Held(stack, sources, async[j], j) =
                   Held(<<>>, sources, async'[j], j) + IF j = i THEN 1 ELSE 0
  <2>1. /\ Held(<<>>, sources, async[j], j) = Cardinality(SourcesOf(j, sources)) + async[j]
        /\ Held(<<>>, sources, async'[j], j) = Cardinality(SourcesOf(j, sources)) + async'[j]
        /\ Cardinality(SourcesOf(j, sources)) \in Nat
    <3>1. async[j] \in Nat /\ async'[j] \in Nat
      BY <1>1, <1>2
    <3> QED
      BY <1>1, <3>1, HeldEmpty, Zenon
  <2> QED
    BY <1>1, <1>2, <2>1
<1> QED
  BY <1>1, <1>2, <1>3

LEMMA AsyncRunStep ==
    ASSUME InstanceInvariant, NEW i \in Instances, async_call_run(i)
    PROVE  InstanceInvariant'
<1>1. /\ up /\ stack = <<>> /\ async[i] > 0 /\ fault' = Touch("async_call_free", i)
      /\ UNCHANGED <<up, npp, wplugin, sources, stream, npobjs>>
  BY DEF async_call_run
<1>2. async \in [Instances -> Nat] /\ sources \in SUBSET Source /\ IsFiniteSet(sources)
  BY InvariantFacts, TypeFacts DEF TypeOK
<1>3. fault' = fault
  <2>1. /\ Held(stack, sources, async[i], i) = Cardinality(SourcesOf(i, sources)) + async[i]
        /\ Cardinality(SourcesOf(i, sources)) \in Nat
    BY <1>1, <1>2, HeldEmpty
  <2>2. RefOf(plugin[i]) = Held(stack, sources, async[i], i) + One(plugin[i]) /\ One(plugin[i]) \in Nat
    BY <1>1, InvariantFacts DEF Alive, Counted, One
  <2>3. RefOf(plugin[i]) > 0
    BY <1>1, <1>2, <2>1, <2>2
  <2>4. plugin[i] # Freed
    BY <2>3, PluginTypes DEF RefOf
  <2> QED
    BY <1>1, <2>4 DEF Touch
<1>4. CASE /\ npw_plugin_instance_is_valid(i) /\ Push(Call("async", i, NONE))
           /\ UNCHANGED <<plugin, timers, async>>
  <2> DEFINE c == Call("async", i, NONE)
  <2>1. c \in Calls /\ Typed(c) /\ c.op = "async" /\ c.i = i
    BY DEF Calls, Call, Typed
  <2>2. stack' = Append(stack, c)
    BY <1>4 DEF Push
  <2> HIDE DEF c
  <2>3. stack' \in Seq(Calls) /\ \A k \in 1..Len(stack') : Typed(stack'[k])
    BY <2>1, <2>2, InvariantFacts, TypedPush
  <2>4. TypeOK'
    BY <1>1, <1>4, <2>3, InvariantFacts DEF TypeOK, Typed
  <2>5. StreamsOk(stack', stream', up')
    BY <1>1, <2>1, <2>2, PushStreams
  <2>6. CallOk(c, 1, npp, plugin, async)
    BY <1>1, <2>1 DEF CallOk
  <2>7. \A j \in Instances : Adds(c, sources, j) = 0
    BY <2>1 DEF Adds, NpnOf, EndedOf, NPN
  <2>8. Alive'
    BY <1>1, <1>4, <2>1, <2>2, <2>6, <2>7, InvariantFacts, LoopPush
  <2> QED
    BY <1>1, <1>3, <2>4, <2>5, <2>8, InvariantFacts DEF InstanceInvariant
<1>5. CASE ~npw_plugin_instance_is_valid(i) /\ AsyncDone(i) /\ UNCHANGED stack
  <2>1. /\ async' = [async EXCEPT ![i] = @ - 1] /\ plugin' = npw_plugin_instance_unref(plugin, i)
        /\ timers' = plugin_instance_finalize(plugin') /\ stack' = <<>>
    BY <1>1, <1>5 DEF AsyncDone
  <2>2. \A j \in Instances : Held(stack, sources, async[j], j) = Held(<<>>, sources, async[j], j)
    BY <1>1
  <2>3. /\ async' \in [Instances -> Nat]
        /\ \A j \in Instances : async'[j] \in Nat /\ async'[j] <= async[j]
        /\ \A j \in Instances : /\ Held(<<>>, sources', async'[j], j) \in Nat
                                /\ Held(stack, sources, async[j], j) =
                                      Held(<<>>, sources', async'[j], j) + IF j = i THEN 1 ELSE 0
    BY <1>1, <2>1, <2>2, InvariantFacts, AsyncDoneHeld
  <2>4. /\ Alive' /\ plugin' \in [Instances -> Plugins] /\ timers' \in [Instances -> SUBSET Timer]
    BY <1>1, <2>1, <2>3, InvariantFacts, LoopDrop
  <2>5. TypeOK'
    BY <1>1, <1>5, <2>3, <2>4, InvariantFacts DEF TypeOK, Plugins
  <2> QED
    BY <1>1, <1>3, <1>5, <2>4, <2>5, InvariantFacts DEF InstanceInvariant
<1> QED
  BY <1>4, <1>5 DEF async_call_run

\* The call of the main loop is the only one on the stack when it ends.
LEMMA LoopCallEnds ==
    ASSUME InstanceInvariant, up, Caller.op \in {"timer", "async"}
    PROVE  /\ stack # <<>> /\ Caller = Last(stack) /\ Front(stack) = <<>>
           /\ Caller.i \in Instances /\ Caller \in Calls /\ Typed(Caller)
           /\ CallOk(Caller, 1, npp, plugin, async)
           /\ \A j \in Instances : Held(stack, sources, async[j], j) =
                                      Held(<<>>, sources, async[j], j) + Adds(Caller, sources, j)
<1>1. stack # <<>> /\ Caller = Last(stack) /\ Caller.i \in Instances /\ Caller \in Calls /\ Typed(Caller)
  BY InvariantFacts, CallerIsLast
<1>2. /\ Len(stack) \in 1..Len(stack) /\ stack[Len(stack)] = Caller
      /\ Front(stack) \in Seq(Calls) /\ Len(Front(stack)) = Len(stack) - 1
  BY <1>1, InvariantFacts, FrontProps
<1>3. CallOk(stack[Len(stack)], Len(stack), npp, plugin, async)
  BY <1>2, InvariantFacts DEF Alive, StackOk
<1>4. Len(stack) = 1
  BY <1>2, <1>3 DEF CallOk
<1>5. Front(stack) = <<>>
  BY <1>2, <1>4
<1>6. CallOk(Caller, 1, npp, plugin, async)
  BY <1>2, <1>3, <1>4, Zenon
<1>7. \A j \in Instances : Held(stack, sources, async[j], j) =
                              Held(Front(stack), sources, async[j], j) + Adds(Caller, sources, j)
  BY <1>1, InvariantFacts, TypeFacts, HeldPop DEF TypeOK
<1> QED
  BY <1>1, <1>5, <1>6, <1>7

LEMMA AsyncRunReturn ==
    ASSUME InstanceInvariant, async_call_run_return
    PROVE  InstanceInvariant'
<1> DEFINE i == Caller.i
<1>1. /\ up /\ Caller.op = "async" /\ AsyncDone(i) /\ fault' = Touch("async_call_free", i)
      /\ stack' = Front(stack) /\ UNCHANGED <<up, npp, wplugin, sources, stream, npobjs>>
  BY DEF async_call_run_return, PluginTurn, Pop
<1>2. /\ stack # <<>> /\ Caller = Last(stack) /\ stack' = <<>>
      /\ i \in Instances /\ Caller \in Calls
      /\ CallOk(Caller, 1, npp, plugin, async)
      /\ \A j \in Instances : Held(stack, sources, async[j], j) =
                                 Held(<<>>, sources, async[j], j) + Adds(Caller, sources, j)
  BY <1>1, LoopCallEnds
<1>3. async[i] > 0
  BY <1>1, <1>2 DEF CallOk
<1>4. ASSUME NEW j \in Instances
      PROVE  Held(stack, sources, async[j], j) = Held(<<>>, sources, async[j], j)
  <2>1. Adds(Caller, sources, j) = 0
    BY <1>1 DEF Adds, NpnOf, EndedOf, NPN
  <2>2. <<>> \in Seq(Calls)
    OBVIOUS
  <2>3. Held(<<>>, sources, async[j], j) \in Nat
    BY <2>2, InvariantFacts, TypeFacts, HeldType DEF TypeOK
  <2> QED
    BY <1>2, <2>1, <2>3
<1>5. StreamsOk(stack', stream', up')
  BY <1>1, PopStreams
<1> HIDE DEF i
<1>6. /\ async' = [async EXCEPT ![i] = @ - 1] /\ plugin' = npw_plugin_instance_unref(plugin, i)
      /\ timers' = plugin_instance_finalize(plugin')
  BY <1>1 DEF AsyncDone
<1>7. /\ async' \in [Instances -> Nat]
      /\ \A j \in Instances : async'[j] \in Nat /\ async'[j] <= async[j]
      /\ \A j \in Instances : /\ Held(<<>>, sources', async'[j], j) \in Nat
                              /\ Held(stack, sources, async[j], j) =
                                    Held(<<>>, sources', async'[j], j) + IF j = i THEN 1 ELSE 0
  BY <1>1, <1>2, <1>3, <1>4, <1>6, InvariantFacts, AsyncDoneHeld
<1>8. /\ Alive' /\ plugin' \in [Instances -> Plugins] /\ timers' \in [Instances -> SUBSET Timer]
      /\ plugin[i] \in PluginInstance
  BY <1>1, <1>2, <1>6, <1>7, InvariantFacts, LoopDrop
<1>9. stack' \in Seq(Calls) /\ \A k \in 1..Len(stack') : Typed(stack'[k])
  BY <1>2
<1>10. TypeOK'
  BY <1>1, <1>7, <1>8, <1>9, InvariantFacts DEF TypeOK, Typed, Plugins
<1>11. fault' = fault
  BY <1>1, <1>8, PluginTypes DEF Touch
<1> QED
  BY <1>1, <1>5, <1>8, <1>10, <1>11, InvariantFacts DEF InstanceInvariant

\* Sources whose number is one lower for one instance.
LEMMA SourceDoneHeld ==
    ASSUME TypeOK, NEW x \in sources, sources' = sources \ {x}, async' = async
    PROVE  /\ sources' \in SUBSET Source /\ IsFiniteSet(sources') /\ x.i \in Instances
           /\ \A j \in Instances : async'[j] \in Nat /\ async'[j] <= async[j]
           /\ \A j \in Instances : /\ Held(<<>>, sources', async'[j], j) \in Nat
                                   /\ Held(<<>>, sources, async[j], j) =
                                         Held(<<>>, sources', async'[j], j) + IF j = x.i THEN 1 ELSE 0
<1>1. async \in [Instances -> Nat] /\ sources \in SUBSET Source /\ IsFiniteSet(sources)
  BY TypeFacts DEF TypeOK
<1>2. sources' \in SUBSET Source /\ IsFiniteSet(sources') /\ x.i \in Instances
  <2>1. x \in Source
    BY <1>1
  <2> QED
    BY <1>1, <2>1, FS_Subset DEF Source
<1>3. ASSUME NEW j \in Instances
      PROVE  /\ Held(<<>>, sources', async[j], j) \in Nat
             /\ Held(<<>>, sources, async[j], j) =
                   Held(<<>>, sources', async[j], j) + IF j = x.i THEN 1 ELSE 0
  <2>1. async[j] \in Nat
    BY <1>1
  <2>2. /\ Held(<<>>, sources, async[j], j) = Cardinality(SourcesOf(j, sources)) + async[j]
        /\ Held(<<>>, sources', async[j], j) = Cardinality(SourcesOf(j, sources')) + async[j]
    BY <1>1, <1>2, <2>1, HeldEmpty
  <2>3. /\ Cardinality(SourcesOf(j, sources)) =
             Cardinality(SourcesOf(j, sources')) + IF x.i = j THEN 1 ELSE 0
        /\ Cardinality(SourcesOf(j, sources')) \in Nat
    BY <1>1, SourceRemoved
  <2> QED
    BY <2>1, <2>2, <2>3
<1>4. \A j \in Instances : async'[j] \in Nat /\ async'[j] <= async[j]
  BY <1>1
<1>5. ASSUME NEW j \in Instances
      PROVE  /\ Held(<<>>, sources', async'[j], j) \in Nat
             /\ Held(<<>>, sources, async[j], j) =
                   Held(<<>>, sources', async'[j], j) + IF j = x.i THEN 1 ELSE 0
  BY <1>3
<1> QED
  BY <1>2, <1>4, <1>5

LEMMA TimerRunStep ==
    ASSUME InstanceInvariant, NEW src \in sources, timer_data_run(src)
    PROVE  InstanceInvariant'
<1> DEFINE i == src.i
<1>1. /\ up /\ stack = <<>> /\ fault' = Touch("timer_data_free", i)
      /\ UNCHANGED <<up, npp, wplugin, stream, npobjs>>
  BY DEF timer_data_run
<1>2. async \in [Instances -> Nat] /\ sources \in SUBSET Source /\ IsFiniteSet(sources)
  BY InvariantFacts, TypeFacts DEF TypeOK
<1>3. i \in Instances /\ src.id \in Nat /\ src = [i |-> i, id |-> src.id]
  <2>1. src \in Source
    BY <1>2
  <2> QED
    BY <2>1 DEF Source
<1>4. fault' = fault
  <2> DEFINE n == Cardinality(SourcesOf(i, sources))
  <2>1. Held(stack, sources, async[i], i) = n + async[i] /\ n \in Nat
    BY <1>1, <1>2, <1>3, HeldEmpty
  <2>2. n = Cardinality(SourcesOf(i, sources \ {src})) + 1 /\ Cardinality(SourcesOf(i, sources \ {src})) \in Nat
    BY <1>2, <1>3, SourceRemoved
  <2>3. RefOf(plugin[i]) = Held(stack, sources, async[i], i) + One(plugin[i]) /\ One(plugin[i]) \in Nat
    BY <1>1, <1>3, InvariantFacts DEF Alive, Counted, One
  <2> HIDE DEF n
  <2>4. RefOf(plugin[i]) > 0
    BY <1>2, <1>3, <2>1, <2>2, <2>3
  <2>5. plugin[i] # Freed
    BY <2>4, PluginTypes DEF RefOf
  <2> QED
    BY <1>1, <2>5 DEF Touch
<1>5. CASE RunsTimer(src) /\ Push(Call("timer", src.i, src.id)) /\ UNCHANGED viewer
  <2> DEFINE c == Call("timer", i, src.id)
  <2>1. c \in Calls /\ Typed(c) /\ c.op = "timer" /\ c.i = i /\ c.s = src.id
    BY <1>3 DEF Calls, Call, Typed
  <2>2. /\ stack' = Append(stack, c) /\ UNCHANGED <<plugin, timers, sources, async, npobjs>>
    BY <1>5 DEF Push, viewer
  <2>3. plugin[i] \in PluginInstance => plugin[i].tables = TRUE /\ Keyed(plugin[i], src.id)
    <3>1. PICK t \in timers[i] : t.id = TimerId(src.id)
      BY <1>5 DEF RunsTimer, TimerOf
    <3>2. plugin[i] \in PluginInstance => plugin[i].tables = TRUE /\ t.id < plugin[i].next_timer_id
      BY <1>1, <1>3, <3>1, InvariantFacts DEF Alive, Numbered
    <3> QED
      BY <1>3, <3>1, <3>2, PluginTypes DEF TimerId, Keyed
  <2>4. \A j \in Instances : Adds(c, sources, j) = 0
    BY <1>3, <2>1 DEF Adds, NpnOf, EndedOf, NPN
  <2> HIDE DEF c
  <2>5. stack' \in Seq(Calls) /\ \A k \in 1..Len(stack') : Typed(stack'[k])
    BY <2>1, <2>2, InvariantFacts, TypedPush
  <2>6. TypeOK'
    BY <1>1, <2>2, <2>5, InvariantFacts DEF TypeOK, Typed
  <2>7. StreamsOk(stack', stream', up')
    BY <1>1, <2>1, <2>2, PushStreams
  <2>8. CallOk(c, 1, npp, plugin, async)
    BY <2>1, <2>3 DEF CallOk
  <2>9. Alive'
    BY <1>1, <2>1, <2>2, <2>4, <2>8, InvariantFacts, LoopPush
  <2> QED
    BY <1>1, <1>4, <2>6, <2>7, <2>9, InvariantFacts DEF InstanceInvariant
<1>6. CASE /\ ~RunsTimer(src)
           /\ plugin' = npw_plugin_instance_unref(plugin, i) /\ timers' = plugin_instance_finalize(plugin')
           /\ sources' = sources \ {src} /\ UNCHANGED <<async, stack>>
  <2>1. /\ sources' \in SUBSET Source /\ IsFiniteSet(sources')
        /\ \A j \in Instances : async'[j] \in Nat /\ async'[j] <= async[j]
        /\ \A j \in Instances : /\ Held(<<>>, sources', async'[j], j) \in Nat
                                /\ Held(<<>>, sources, async[j], j) =
                                      Held(<<>>, sources', async'[j], j) + IF j = src.i THEN 1 ELSE 0
    BY <1>6, InvariantFacts, SourceDoneHeld
  <2> HIDE DEF i
  <2>2. \A j \in Instances : /\ Held(<<>>, sources', async'[j], j) \in Nat
                             /\ Held(stack, sources, async[j], j) =
                                   Held(<<>>, sources', async'[j], j) + IF j = i THEN 1 ELSE 0
    BY <1>1, <2>1 DEF i
  <2>3. sources' \subseteq sources /\ stack' = <<>>
    BY <1>1, <1>6
  <2>4. /\ Alive' /\ plugin' \in [Instances -> Plugins] /\ timers' \in [Instances -> SUBSET Timer]
    BY <1>1, <1>3, <1>6, <2>1, <2>2, <2>3, InvariantFacts, LoopDrop
  <2>5. TypeOK'
    BY <1>1, <1>6, <2>1, <2>4, InvariantFacts DEF TypeOK, Plugins, Source
  <2> QED
    BY <1>1, <1>4, <1>6, <2>4, <2>5, InvariantFacts DEF InstanceInvariant
<1> QED
  BY <1>5, <1>6 DEF timer_data_run

\* The timers after the callback of one of them, t, is done.
Marked(fin, i, t) == [fin EXCEPT ![i] = {IF x \in t THEN [x EXCEPT !.source = FALSE] ELSE x : x \in @}]

LEMMA TimersAfterRun ==
    ASSUME NEW tm \in [Instances -> SUBSET Timer], NEW q, NEW i \in Instances, NEW t, NEW fin, NEW tm2,
           fin = [j \in Instances |-> IF q[j] = Freed THEN {} ELSE tm[j]],
           tm2 = Marked(fin, i, t)
    PROVE  Kept(tm, tm2, q) /\ tm2 \in [Instances -> SUBSET Timer]
<1> DEFINE g(x) == IF x \in t THEN [x EXCEPT !.source = FALSE] ELSE x
<1>1. ASSUME NEW x \in Timer PROVE g(x) \in Timer /\ g(x).id = x.id
  BY DEF Timer
<1>2. /\ tm2 = [j \in Instances |-> IF j = i THEN {g(x) : x \in fin[i]} ELSE fin[j]]
  BY Zenon DEF Marked
<1> HIDE DEF g
<1>3. \A j \in Instances : fin[j] \subseteq tm[j] /\ (q[j] = Freed => fin[j] = {})
  OBVIOUS
<1>4. ASSUME NEW j \in Instances
      PROVE  /\ q[j] = Freed => tm2[j] = {}
             /\ \A v \in tm2[j] : \E u \in tm[j] : u.id = v.id
             /\ tm2[j] \subseteq Timer
  <2>1. CASE j = i
    <3>1. tm2[j] = {g(x) : x \in fin[i]}
      BY <1>2, <2>1
    <3> QED
      BY <1>1, <1>3, <2>1, <3>1
  <2>2. CASE j # i
    <3>1. tm2[j] = fin[j]
      BY <1>2, <2>2
    <3> QED
      BY <1>3, <3>1
  <2> QED
    BY <2>1, <2>2
<1>5. tm2 \in [Instances -> SUBSET Timer]
  <2>1. tm2 = [j \in Instances |-> tm2[j]]
    BY <1>2, Zenon
  <2> QED
    BY <1>4, <2>1
<1> QED
  BY <1>4, <1>5 DEF Kept

LEMMA TimerRunReturn ==
    ASSUME InstanceInvariant, timer_data_run_return
    PROVE  InstanceInvariant'
<1> DEFINE i == Caller.i
           src == [i |-> i, id |-> Caller.s]
           t == TimerOf(i, TimerId(Caller.s))
           again == src \in sources /\ t # {} /\ \A x \in t : x.repeat
<1>1. /\ up /\ Caller.op = "timer" /\ stack' = Front(stack)
      /\ plugin' = IF again THEN plugin ELSE npw_plugin_instance_unref(plugin, i)
      /\ sources' = IF again THEN sources ELSE sources \ {src}
      /\ fault' = IF t = {} THEN fault \cup {"timer_data_run"} ELSE fault
      /\ UNCHANGED <<up, npp, wplugin, async, stream, npobjs>>
  BY DEF timer_data_run_return, PluginTurn, Pop
<1>2. timers' = IF again THEN timers
                ELSE [plugin_instance_finalize(plugin') EXCEPT ![i] =
                        {IF x \in t THEN [x EXCEPT !.source = FALSE] ELSE x : x \in @}]
  BY Zenon DEF timer_data_run_return
<1>3. /\ stack # <<>> /\ Caller = Last(stack) /\ stack' = <<>>
      /\ i \in Instances /\ Caller \in Calls /\ Caller.s \in Nat
      /\ \A j \in Instances : Held(stack, sources, async[j], j) =
                                 Held(<<>>, sources, async[j], j) + Adds(Caller, sources, j)
  BY <1>1, LoopCallEnds DEF Typed
<1>4. ASSUME NEW j \in Instances
      PROVE  Adds(Caller, sources, j) = IF j = i /\ src \notin sources THEN 1 ELSE 0
  BY <1>1, <1>3 DEF Adds, NpnOf, EndedOf, NPN
<1>5. async \in [Instances -> Nat] /\ sources \in SUBSET Source /\ IsFiniteSet(sources)
      /\ timers \in [Instances -> SUBSET Timer] /\ plugin \in [Instances -> Plugins]
  BY InvariantFacts, TypeFacts DEF TypeOK
<1>6. fault' \subseteq KnownFaults
  BY <1>1, InvariantFacts DEF KnownFaults
<1>7. StreamsOk(stack', stream', up')
  BY <1>1, PopStreams
<1>8. ASSUME NEW j \in Instances PROVE Held(<<>>, sources, async[j], j) \in Nat
  <2>1. <<>> \in Seq(Calls)
    OBVIOUS
  <2> QED
    BY <1>5, <2>1, HeldType
<1>9. stack' \in Seq(Calls) /\ \A k \in 1..Len(stack') : Typed(stack'[k])
  BY <1>3
<1>10. src.i = i /\ src \in Source
  BY <1>3 DEF Source
<1> HIDE DEF i, src, t, again
<1>11. CASE again
  <2>1. UNCHANGED <<plugin, sources, timers>> /\ src \in sources
    BY <1>1, <1>2, <1>11 DEF again
  <2>2. Counted(plugin', <<>>, sources', async')
    <3> SUFFICES ASSUME NEW j \in Instances
                 PROVE  RefOf(plugin[j]) = Held(<<>>, sources, async[j], j) + One(plugin[j])
      BY <1>1, <2>1 DEF Counted
    <3>1. Held(stack, sources, async[j], j) = Held(<<>>, sources, async[j], j)
      BY <1>3, <1>4, <1>8, <2>1
    <3> QED
      BY <1>1, <3>1, InvariantFacts DEF Alive, Counted
  <2>3. Mild(plugin, plugin') /\ sources' \subseteq sources
    BY <2>1, SameIsMild
  <2>4. \A j \in Instances : async'[j] \in Nat /\ async'[j] <= async[j]
    BY <1>1, <1>5
  <2>5. Kept(timers, timers', plugin')
    BY <1>1, <2>1, InvariantFacts, PluginTypes DEF Kept, Alive, Numbered
  <2>6. Alive'
    BY <1>1, <1>3, <2>2, <2>3, <2>4, <2>5, InvariantFacts, EmptyAlive
  <2>7. TypeOK'
    BY <1>1, <1>9, <2>1, InvariantFacts DEF TypeOK, Typed
  <2> QED
    BY <1>1, <1>6, <1>7, <2>6, <2>7, InvariantFacts DEF InstanceInvariant
<1>12. CASE ~again
  <2>1. plugin' = npw_plugin_instance_unref(plugin, i) /\ sources' = sources \ {src}
    BY <1>1, <1>12
  <2>2. /\ sources' \in SUBSET Source /\ IsFiniteSet(sources')
        /\ \A j \in Instances : async'[j] \in Nat /\ async'[j] <= async[j]
    BY <1>1, <1>5, <2>1, FS_Subset
  <2>3. ASSUME NEW j \in Instances
        PROVE  /\ Held(<<>>, sources', async'[j], j) \in Nat
               /\ Held(stack, sources, async[j], j) =
                     Held(<<>>, sources', async'[j], j) + IF j = i THEN 1 ELSE 0
    <3>1. CASE src \in sources
      <4>1. /\ Held(<<>>, sources', async'[j], j) \in Nat
            /\ Held(<<>>, sources, async[j], j) =
                  Held(<<>>, sources', async'[j], j) + IF j = src.i THEN 1 ELSE 0
        BY <1>1, <2>1, <3>1, InvariantFacts, SourceDoneHeld
      <4>2. Held(stack, sources, async[j], j) = Held(<<>>, sources, async[j], j)
        BY <1>3, <1>4, <1>8, <3>1
      <4> QED
        BY <1>10, <4>1, <4>2
    <3>2. CASE src \notin sources
      <4>1. sources' = sources
        BY <2>1, <3>2
      <4> QED
        BY <1>1, <1>3, <1>4, <1>8, <3>2, <4>1
    <3> QED
      BY <3>1, <3>2
  <2>4. ASSUME NEW q \in [Instances -> Plugins], q = plugin'
        PROVE  Kept(timers, timers', q) /\ timers' \in [Instances -> SUBSET Timer]
    <3>1. plugin_instance_finalize(q) = [j \in Instances |-> IF q[j] = Freed THEN {} ELSE timers[j]]
      BY DEF plugin_instance_finalize
    <3>2. timers' = Marked(plugin_instance_finalize(q), i, t)
      BY <1>2, <1>12, <2>4, Zenon DEF Marked
    <3> QED
      BY <1>3, <1>5, <3>1, <3>2, TimersAfterRun
  <2>5. sources' \subseteq sources
    BY <2>1
  <2>6. i \in Instances /\ stack' = <<>>
    BY <1>3
  <2>7. /\ Alive' /\ plugin' \in [Instances -> Plugins] /\ timers' \in [Instances -> SUBSET Timer]
    BY <1>1, <2>1, <2>2, <2>3, <2>4, <2>5, <2>6, InvariantFacts, LoopDrop
  <2>8. TypeOK'
    BY <1>1, <1>9, <2>2, <2>7, InvariantFacts DEF TypeOK, Plugins, Typed, Source
  <2> QED
    BY <1>1, <1>6, <1>7, <2>7, <2>8, InvariantFacts DEF InstanceInvariant
<1> QED
  BY <1>11, <1>12

LEMMA ScheduleTimerStep ==
    ASSUME InstanceInvariant, KeyInvariant, NEW i \in Instances, NEW repeat \in BOOLEAN, g_NPN_ScheduleTimer(i, repeat)
    PROVE  InstanceInvariant'
<1> DEFINE id == plugin[i].next_timer_id
           key == IF plugin[i].tables THEN id ELSE MaxTimers + id
           src == [i |-> i, id |-> key]
           new == [id |-> id, repeat |-> repeat, source |-> TRUE]
           r == [plugin[i] EXCEPT !.refcount = @ + 1]
           y == [r EXCEPT !.next_timer_id = @ + 1]
<1>1. /\ up /\ Exists(i) /\ npp[i] # "dead" /\ id < MaxTimers
      /\ timers' = IF plugin[i].tables THEN [timers EXCEPT ![i] = @ \cup {new}] ELSE timers
      /\ sources' = sources \cup {src}
      /\ plugin' = [npw_plugin_instance_ref(plugin, i) EXCEPT ![i].next_timer_id = @ + 1]
      /\ UNCHANGED <<up, npp, wplugin, async, stream, stack, fault, npobjs>>
  BY DEF g_NPN_ScheduleTimer, PluginTurn
<1>2. npp[i] = "live" /\ IsValid(plugin[i]) /\ plugin[i] \in PluginInstance
  BY <1>1, LiveIsValid
<1>3. /\ async \in [Instances -> Nat] /\ sources \in SUBSET Source /\ IsFiniteSet(sources)
      /\ timers \in [Instances -> SUBSET Timer] /\ plugin \in [Instances -> Plugins]
      /\ npobjs \in [NPObjects -> NPObject \cup {NONE}]
  BY InvariantFacts, TypeFacts DEF TypeOK
<1>4. id \in Nat
  BY <1>2, MembersOfPlugin
<1>5. /\ y \in PluginInstance /\ y.refcount = plugin[i].refcount + 1 /\ y.is_valid = plugin[i].is_valid
      /\ y.tables = plugin[i].tables /\ y.next_timer_id = id + 1
  <2>1. /\ r \in PluginInstance /\ r.refcount = plugin[i].refcount + 1 /\ r.is_valid = plugin[i].is_valid
        /\ r.tables = plugin[i].tables /\ r.next_timer_id = id
    BY <1>2 DEF PluginInstance
  <2> HIDE DEF r
  <2>2. id + 1 \in 0..MaxTimers
    BY <1>1, <1>4, PluginTypes
  <2>3. r.next_timer_id + 1 = id + 1
    BY <2>1
  <2> HIDE DEF id
  <2> DEFINE m == r.next_timer_id + 1
  <2>4. m \in 0..MaxTimers /\ y = [r EXCEPT !.next_timer_id = m]
    BY <2>2, <2>3
  <2> HIDE DEF m, y
  <2>5. /\ y \in PluginInstance /\ y.refcount = r.refcount /\ y.is_valid = r.is_valid
        /\ y.tables = r.tables /\ y.next_timer_id = m
    BY <2>1, <2>4 DEF PluginInstance
  <2> QED
    BY <2>1, <2>3, <2>5 DEF m
<1>6. plugin' = [plugin EXCEPT ![i] = y]
  BY <1>1, <1>2, <1>3 DEF npw_plugin_instance_ref, PluginInstance
<1>7. src \in Source /\ new \in Timer /\ src.i = i /\ src.id = key /\ new.id = id /\ key \in Nat
  BY <1>4, PluginTypes DEF Source, Timer
<1> HIDE DEF y, src, new
<1>21. ~Keyed(plugin[i], key) /\ plugin[i].tables \in BOOLEAN
  <2>1. plugin[i].tables \in BOOLEAN
    BY <1>2, MembersOfPlugin
  <2>2. CASE plugin[i].tables = TRUE
    BY <1>1, <1>4, <2>1, <2>2 DEF Keyed
  <2>3. CASE plugin[i].tables = FALSE
    BY <1>1, <1>4, <2>1, <2>3, PluginTypes DEF Keyed
  <2> QED
    BY <2>1, <2>2, <2>3
<1> HIDE DEF key
<1>22. src \notin sources
  BY <1>1, <1>2, <1>7, <1>21 DEF KeyInvariant
<1>8. plugin' \in [Instances -> Plugins] /\ plugin'[i] = y /\ \A j \in Instances : j # i => plugin'[j] = plugin[j]
  BY <1>3, <1>5, <1>6 DEF Plugins
<1>9. Mild(plugin, plugin')
  BY <1>2, <1>4, <1>5, <1>8 DEF Mild
<1>10. ASSUME NEW j \in Instances
       PROVE  /\ RefOf(plugin'[j]) = RefOf(plugin[j]) + IF j = i THEN 1 ELSE 0
              /\ One(plugin'[j]) = One(plugin[j])
  <2>1. RefOf(plugin[j]) \in Nat
    BY <1>3, MembersOfPlugin DEF RefOf
  <2>2. CASE j = i
    BY <1>2, <1>5, <1>8, <2>2 DEF RefOf, One, IsValid
  <2> QED
    BY <1>8, <2>1, <2>2
<1>11. sources' \in SUBSET Source /\ IsFiniteSet(sources') /\ src \in sources' /\ sources' \ {src} = sources
  BY <1>1, <1>3, <1>7, <1>22, FS_AddElement
<1>12. ASSUME NEW k \in 1..Len(stack), stack[k].op = "timer", stack[k].i = src.i, stack[k].s = src.id
       PROVE  FALSE
  <2>1. CallOk(stack[k], k, npp, plugin, async)
    BY <1>1, InvariantFacts DEF Alive, StackOk
  <2>2. Keyed(plugin[i], stack[k].s)
    BY <1>2, <1>7, <1>12, <2>1 DEF CallOk
  <2> QED
    BY <1>7, <1>12, <1>21, <2>2
<1>13. Counted(plugin', stack', sources', async')
  <2> SUFFICES ASSUME NEW j \in Instances
               PROVE  RefOf(plugin'[j]) = Held(stack, sources', async[j], j) + One(plugin'[j])
    BY <1>1 DEF Counted
  <2>1. RefOf(plugin[j]) = Held(stack, sources, async[j], j) + One(plugin[j])
    BY <1>1, InvariantFacts DEF Alive, Counted
  <2>2. One(plugin[j]) \in Nat /\ Held(stack, sources, async[j], j) \in Nat
    BY InvariantFacts, HeldNow DEF One
  <2>3. Held(stack, sources', async[j], j) =
           Held(stack, sources' \ {src}, async[j], j) + IF src.i = j THEN 1 ELSE 0
    <3>1. stack \in Seq(Calls) /\ async[j] \in Nat
      BY <1>3, InvariantFacts
    <3>2. \A k \in 1..Len(stack) :
            ~(stack[k].op = "timer" /\ stack[k].i = src.i /\ stack[k].s = src.id)
      BY <1>12
    <3> QED
      BY <1>11, <3>1, <3>2, HeldWithout
  <2>4. Held(stack, sources', async[j], j) = Held(stack, sources, async[j], j) + IF j = i THEN 1 ELSE 0
    BY <1>7, <1>11, <2>3
  <2> QED
    BY <1>10, <2>1, <2>2, <2>4
<1>14. Matched(npp, plugin', sources', async')
  <2>1. Matched(npp, plugin, sources, async)
    BY <1>1, InvariantFacts DEF Alive
  <2>2. ASSUME NEW j \in Instances, npp[j] = "dead", IsValid(plugin[j])
        PROVE  async'[j] = 0 /\ SourcesOf(j, sources') = {}
    <3>1. j # i /\ async[j] = 0 /\ SourcesOf(j, sources) = {}
      BY <1>2, <2>1, <2>2 DEF Matched
    <3> QED
      BY <1>1, <1>7, <3>1 DEF SourcesOf
  <2> QED
    BY <1>9, <2>1, <2>2, MildMatched
<1>15. StackOk(stack, npp, plugin', async')
  <2>1. async' \in [Instances -> Nat] /\ \A j \in Instances : async'[j] >= async[j]
    BY <1>1, <1>3
  <2> QED
    BY <1>1, <1>9, <2>1, InvariantFacts, MildStackNow
<1>16. timers' \in [Instances -> SUBSET Timer] /\ Numbered(plugin', timers')
  <2>1. Numbered(plugin, timers)
    BY <1>1, InvariantFacts DEF Alive
  <2>2. timers' \in [Instances -> SUBSET Timer]
    BY <1>1, <1>3, <1>7
  <2>3. \A j \in Instances : j # i => timers'[j] = timers[j]
    BY <1>1, <1>3
  <2>4. ASSUME NEW t \in timers'[i] PROVE y.tables = TRUE /\ t.id < y.next_timer_id
    <3>1. t \in timers[i] \/ (t = new /\ plugin[i].tables = TRUE)
      BY <1>1, <1>2, <1>3, MembersOfPlugin
    <3>2. CASE t \in timers[i]
      <4>1. plugin[i].tables = TRUE /\ t.id < id /\ t.id \in Nat
        BY <1>2, <1>3, <2>1, <3>2 DEF Numbered, Timer
      <4> QED
        BY <1>4, <1>5, <4>1
    <3>3. CASE t = new /\ plugin[i].tables = TRUE
      BY <1>4, <1>5, <1>7, <3>3
    <3> QED
      BY <3>1, <3>2, <3>3
  <2>5. ASSUME NEW j \in Instances
        PROVE  /\ plugin'[j] \in PluginInstance =>
                     \A t \in timers'[j] : plugin'[j].tables = TRUE /\ t.id < plugin'[j].next_timer_id
               /\ plugin'[j] \notin PluginInstance => timers'[j] = {}
    <3>1. CASE j = i
      BY <1>5, <1>8, <2>4, <3>1
    <3>2. CASE j # i
      <4>1. plugin'[j] = plugin[j] /\ timers'[j] = timers[j]
        BY <1>8, <2>3, <3>2
      <4> QED
        BY <2>1, <4>1 DEF Numbered
    <3> QED
      BY <3>1, <3>2
  <2> QED
    BY <2>2, <2>5 DEF Numbered
<1>17. Owned(plugin', npobjs)
  BY <1>1, <1>3, <1>9, InvariantFacts, MildOwned DEF Alive
<1>18. Alive'
  BY <1>1, <1>13, <1>14, <1>15, <1>16, <1>17, InvariantFacts DEF Alive
<1>19. TypeOK'
  BY <1>1, <1>8, <1>11, <1>16, InvariantFacts DEF TypeOK, Plugins, Source
<1> QED
  BY <1>1, <1>18, <1>19, InvariantFacts DEF InstanceInvariant

Running(stk, x) == \E k \in 1..Len(stk) : stk[k].op = "timer" /\ stk[k].i = x.i /\ stk[k].s = x.id

LEMMA HeldLess ==
    ASSUME NEW stk \in Seq(Calls), NEW srcs \in SUBSET Source, IsFiniteSet(srcs),
           NEW a \in Nat, NEW i \in Instances, NEW x \in srcs, ~Running(stk, x),
           NEW less, less = srcs \ {x}
    PROVE  Held(stk, srcs, a, i) = Held(stk, less, a, i) + IF x.i = i THEN 1 ELSE 0
<1>1. \A k \in 1..Len(stk) : ~(stk[k].op = "timer" /\ stk[k].i = x.i /\ stk[k].s = x.id)
  BY DEF Running
<1> QED
  BY <1>1, HeldWithout

LEMMA UnscheduleTimerStep ==
    ASSUME InstanceInvariant, NEW i \in Instances, NEW t \in timers[i], g_NPN_UnscheduleTimer(i, t)
    PROVE  InstanceInvariant'
<1> DEFINE src == [i |-> i, id |-> t.id]
           runs == \E k \in 1..Len(stack) : stack[k] = Call("timer", i, t.id)
<1>1. /\ up /\ Exists(i) /\ npp[i] # "dead"
      /\ sources' = IF t.source THEN sources \ {src} ELSE sources
      /\ timers' = [timers EXCEPT ![i] = @ \ {t}]
      /\ plugin' = IF t.source /\ src \in sources /\ ~runs
                   THEN npw_plugin_instance_unref(plugin, i) ELSE plugin
      /\ UNCHANGED <<up, npp, wplugin, async, stream, stack, fault, npobjs>>
  BY DEF g_NPN_UnscheduleTimer, PluginTurn
<1>2. npp[i] = "live" /\ IsValid(plugin[i]) /\ plugin[i] \in PluginInstance
  BY <1>1, LiveIsValid
<1>3. /\ async \in [Instances -> Nat] /\ sources \in SUBSET Source /\ IsFiniteSet(sources)
      /\ timers \in [Instances -> SUBSET Timer] /\ plugin \in [Instances -> Plugins]
  BY InvariantFacts, TypeFacts DEF TypeOK
<1>4. t \in Timer /\ t.id \in Nat /\ src \in Source /\ src.i = i /\ src.id = t.id
  BY <1>3 DEF Timer, Source
<1>5. timers' \in [Instances -> SUBSET Timer] /\ \A j \in Instances : timers'[j] \subseteq timers[j]
  BY <1>1, <1>3
<1>6. sources' \subseteq sources /\ sources' \in SUBSET Source /\ IsFiniteSet(sources')
  BY <1>1, <1>3, FS_Subset
<1> HIDE DEF src
<1>14. stack \in Seq(Calls)
  BY InvariantFacts
<1>7. /\ plugin' \in [Instances -> Plugins] /\ Mild(plugin, plugin')
      /\ Counted(plugin', stack, sources', async)
  <2>1. CASE ~(t.source /\ src \in sources)
    <3>1. plugin' = plugin /\ sources' = sources
      BY <1>1, <2>1
    <3> QED
      BY <1>1, <1>3, <3>1, InvariantFacts, SameIsMild DEF Alive
  <2>2. CASE t.source /\ src \in sources /\ runs
    <3>1. plugin' = plugin /\ sources' = sources \ {src}
      BY <1>1, <2>2
    <3>2. PICK k \in 1..Len(stack) : stack[k] = Call("timer", i, t.id)
      BY <2>2
    <3>3. stack[k].op = "timer" /\ stack[k].i = i /\ stack[k].s = t.id
      BY <3>2 DEF Call
    <3>4. \A m \in 1..Len(stack) : stack[m].op = "timer" => m = 1
      BY <1>1, InvariantFacts DEF Alive, StackOk, CallOk
    <3>5. k = 1 /\ stack # <<>>
      BY <3>3, <3>4
    <3>6. stack[1].op = "timer" /\ stack[1].i = src.i /\ stack[1].s = src.id
      BY <1>4, <3>3, <3>5
    <3>8. src \in sources
      BY <2>2
    <3>7. ASSUME NEW j \in Instances
          PROVE  Held(stack, sources, async[j], j) = Held(stack, sources \ {src}, async[j], j)
      <4>1. async[j] \in Nat /\ sources \in SUBSET Source /\ IsFiniteSet(sources)
        BY <1>3
      <4>2. stack # <<>>
        BY <3>5
      <4> QED
        BY <1>14, <3>8, <3>4, <3>6, <4>1, <4>2, HeldOver
    <3> QED
      BY <1>1, <1>3, <3>1, <3>7, InvariantFacts, SameIsMild DEF Alive, Counted
  <2>3. CASE t.source /\ src \in sources /\ ~runs
    <3>1. plugin' = npw_plugin_instance_unref(plugin, i) /\ sources' = sources \ {src}
      BY <1>1, <2>3
    <3>2. ASSUME NEW k \in 1..Len(stack), stack[k].op = "timer", stack[k].i = src.i, stack[k].s = src.id
          PROVE  FALSE
      <4>1. stack[k] \in Calls
        BY InvariantFacts
      <4>2. stack[k] = [op |-> stack[k].op, i |-> stack[k].i, s |-> stack[k].s]
        BY <4>1, MembersOfCall
      <4>3. stack[k] = Call("timer", i, t.id)
        BY <1>4, <3>2, <4>2 DEF Call
      <4> QED
        BY <2>3, <4>3
    <3>7. src \in sources
      BY <2>3
    <3>8. ~Running(stack, src)
      BY <3>2 DEF Running
    <3> HIDE DEF runs
    <3>3. ASSUME NEW j \in Instances
          PROVE  /\ Held(stack, sources, async[j], j) =
                       Held(stack, sources', async[j], j) + IF j = i THEN 1 ELSE 0
                 /\ Held(stack, sources', async[j], j) \in Nat
      <4>1. async[j] \in Nat
        BY <1>3
      <4>2. Held(stack, sources, async[j], j) =
               Held(stack, sources', async[j], j) + IF src.i = j THEN 1 ELSE 0
        BY <1>3, <1>14, <3>1, <3>7, <3>8, <4>1, HeldLess
      <4>3. Held(stack, sources', async[j], j) \in Nat
        BY <1>6, <4>1, InvariantFacts, HeldType
      <4> QED
        BY <1>4, <3>1, <4>2, <4>3
    <3>4. Held(stack, sources, async[i], i) >= 1
      BY <3>3
    <3>5. /\ plugin' \in [Instances -> Plugins]
          /\ Mild(plugin, plugin')
          /\ \A j \in Instances : /\ RefOf(plugin'[j]) = RefOf(plugin[j]) - IF j = i THEN 1 ELSE 0
                                  /\ One(plugin'[j]) = One(plugin[j])
      BY <1>1, <3>1, <3>4, InvariantFacts, DropNow
    <3>6. ASSUME NEW j \in Instances
          PROVE  RefOf(plugin'[j]) = Held(stack, sources', async[j], j) + One(plugin'[j])
      <4>1. RefOf(plugin[j]) = Held(stack, sources, async[j], j) + One(plugin[j]) /\ One(plugin[j]) \in Nat
        BY <1>1, InvariantFacts DEF Alive, Counted, One
      <4> QED
        BY <3>3, <3>5, <4>1
    <3> QED
      BY <3>5, <3>6 DEF Counted
  <2> QED
    BY <2>1, <2>2, <2>3
<1>8. StackOk(stack, npp, plugin', async')
  <2>1. async' \in [Instances -> Nat] /\ \A j \in Instances : async'[j] >= async[j]
    BY <1>1, <1>3
  <2> QED
    BY <1>1, <1>7, <2>1, InvariantFacts, MildStackNow
<1>9. \A j \in Instances : npp[j] = "dead" /\ IsValid(plugin[j]) =>
                              async'[j] = 0 /\ SourcesOf(j, sources') = {}
  BY <1>1, <1>6, InvariantFacts DEF Alive, Matched, SourcesOf
<1>10. Kept(timers, timers', plugin')
  <2>1. ASSUME NEW j \in Instances, plugin'[j] = Freed PROVE timers'[j] = {}
    <3>1. plugin'[j] = plugin[j] \/ j # i
      BY <1>2, <1>7, <2>1, PluginTypes DEF Mild
    <3>2. plugin[j] = Freed
      BY <1>1, <1>3, <2>1, <3>1, PluginTypes DEF npw_plugin_instance_unref
    <3> QED
      BY <1>1, <1>5, <3>2, InvariantFacts, PluginTypes DEF Alive, Numbered
  <2> QED
    BY <1>5, <2>1 DEF Kept
<1>11. NoRivals(stack') /\ Counted(plugin', stack', sources', async') /\ StackOk(stack', npp, plugin', async')
  BY <1>1, <1>7, <1>8, InvariantFacts DEF Alive
<1>12. Alive'
  BY <1>1, <1>7, <1>9, <1>10, <1>11, InvariantFacts, MildAlive
<1>13. TypeOK'
  BY <1>1, <1>5, <1>6, <1>7, InvariantFacts DEF TypeOK, Plugins, Source
<1> QED
  BY <1>1, <1>12, <1>13, InvariantFacts DEF InstanceInvariant

-----------------------------------------------------------------------------
(* The instances                                                             *)

LEMMA NewInstance ==
    LET x == npw_plugin_instance_new
    IN  /\ x \in PluginInstance /\ x.refcount = 1 /\ x.is_valid = TRUE
        /\ x.tables = FALSE /\ x.next_timer_id = 0
<1> DEFINE x == npw_plugin_instance_new
           a == plugin_instance_allocate
           b == [a EXCEPT !.refcount = 1]
           R == [refcount : Nat, is_valid : BOOLEAN, tables : BOOLEAN, next_timer_id : 0..MaxTimers]
<1>1. 0 \in 0..MaxTimers
  BY PluginTypes
<1>2. a \in R
  BY <1>1 DEF plugin_instance_allocate
<1>3. a.tables = FALSE /\ a.next_timer_id = 0
  BY DEF plugin_instance_allocate
<1>4. x = [b EXCEPT !.is_valid = TRUE]
  BY DEF npw_plugin_instance_new
<1> HIDE DEF a
<1>5. b \in PluginInstance /\ b.refcount = 1 /\ b.tables = a.tables /\ b.next_timer_id = a.next_timer_id
  BY <1>2 DEF PluginInstance
<1> HIDE DEF b, x
<1>6. /\ x \in PluginInstance /\ x.refcount = b.refcount /\ x.is_valid = TRUE
      /\ x.tables = b.tables /\ x.next_timer_id = b.next_timer_id
  BY <1>4, <1>5 DEF PluginInstance
<1> QED
  BY <1>3, <1>5, <1>6 DEF x

\* A call of a timer holds a reference, by its source or by itself.
LEMMA TimerCallHolds ==
    ASSUME TypeOK, NEW k \in 1..Len(stack), stack[k].op = "timer"
    PROVE  Held(stack, sources, async[stack[k].i], stack[k].i) >= 1 /\ stack[k].i \in Instances
<1> DEFINE c == stack[k]  i == c.i
<1>1. c \in Calls
  BY DEF TypeOK
<1>2. i \in Instances
  BY <1>1, MembersOfCall
<1>3. /\ stack \in Seq(Calls) /\ sources \in SUBSET Source /\ IsFiniteSet(sources) /\ async[i] \in Nat
  BY <1>2, TypeFacts DEF TypeOK
<1>4. /\ CountIf(stack, NpnOf(i)) \in Nat /\ CountIf(stack, EndedOf(i, sources)) \in Nat
      /\ Cardinality(SourcesOf(i, sources)) \in Nat /\ IsFiniteSet(SourcesOf(i, sources))
  BY <1>2, <1>3, HeldType
<1>5. CASE [i |-> i, id |-> c.s] \in sources
  <2>1. [i |-> i, id |-> c.s] \in SourcesOf(i, sources)
    BY <1>5 DEF SourcesOf
  <2>2. Cardinality(SourcesOf(i, sources)) # 0
    BY <1>4, <2>1, FS_EmptySet
  <2> QED
    BY <1>2, <1>3, <1>4, <2>2 DEF Held
<1>6. CASE [i |-> i, id |-> c.s] \notin sources
  <2> DEFINE A == {m \in 1..Len(stack) : stack[m] \in EndedOf(i, sources)}
  <2>1. k \in A
    BY <1>1, <1>6 DEF EndedOf
  <2>2. IsFiniteSet(A)
    BY <1>3, PositionsFinite
  <2>3. Cardinality(A) # 0
    BY <2>1, <2>2, FS_EmptySet
  <2>4. CountIf(stack, EndedOf(i, sources)) # 0
    BY <2>3 DEF CountIf
  <2> QED
    BY <1>2, <1>3, <1>4, <2>4 DEF Held
<1> QED
  BY <1>5, <1>6

LEMMA NewStep ==
    ASSUME InstanceInvariant, NEW i \in Instances, NPP_New(i)
    PROVE  InstanceInvariant'
<1> DEFINE c == Call("NPP_New", i, NONE)  x == npw_plugin_instance_new
<1>1. c \in Calls /\ Typed(c) /\ c.op = "NPP_New" /\ c.i = i
  BY DEF Calls, Call, Typed, NPP
<1>2. /\ up /\ npp[i] = "none" /\ stack' = Append(stack, c)
      /\ npp' = [npp EXCEPT ![i] = "live"] /\ wplugin' = [wplugin EXCEPT ![i] = "valid"]
      /\ plugin' = [plugin EXCEPT ![i] = x]
      /\ UNCHANGED <<up, timers, sources, async, stream, fault, npobjs>>
  BY DEF NPP_New, Push
<1>3. x \in PluginInstance /\ RefOf(x) = 1 /\ One(x) = 1 /\ IsValid(x) /\ x.tables = FALSE
  BY NewInstance DEF RefOf, One, IsValid
<1> HIDE DEF c, x
<1>4. TypeOK /\ Alive /\ stack \in Seq(Calls) /\ npp \in [Instances -> {"none", "live", "dead"}]
      /\ plugin \in [Instances -> Plugins] /\ sources \in SUBSET Source /\ IsFiniteSet(sources)
      /\ async \in [Instances -> Nat]
  BY <1>2, InvariantFacts, TypeFacts DEF TypeOK
<1>5. plugin[i] = NONE /\ plugin[i] \notin PluginInstance /\ ~IsValid(plugin[i])
  BY <1>2, <1>4, PluginTypes DEF Alive, Matched, IsValid
<1>6. /\ plugin' \in [Instances -> Plugins] /\ plugin'[i] = x
      /\ npp' \in [Instances -> {"none", "live", "dead"}] /\ npp'[i] = "live"
      /\ \A j \in Instances : j # i => plugin'[j] = plugin[j] /\ npp'[j] = npp[j]
  BY <1>2, <1>3, <1>4 DEF Plugins
<1>7. stack' \in Seq(Calls) /\ \A k \in 1..Len(stack') : Typed(stack'[k])
  BY <1>1, <1>2, InvariantFacts, TypedPush
<1>8. TypeOK'
  BY <1>2, <1>6, <1>7, InvariantFacts DEF TypeOK, Typed, Plugins
<1>9. StreamsOk(stack', stream', up')
  BY <1>1, <1>2, PushStreams
<1>10. Held(stack, sources, async[i], i) = 0
  <2>1. RefOf(plugin[i]) = Held(stack, sources, async[i], i) + One(plugin[i])
    BY <1>4 DEF Alive, Counted
  <2>2. RefOf(plugin[i]) = 0 /\ One(plugin[i]) = 0
    BY <1>5 DEF RefOf, One
  <2>3. Held(stack, sources, async[i], i) \in Nat
    BY <1>4, HeldNow
  <2> QED
    BY <2>1, <2>2, <2>3
<1>11. Counted(plugin', stack', sources', async')
  <2> SUFFICES ASSUME NEW j \in Instances
               PROVE  RefOf(plugin'[j]) = Held(Append(stack, c), sources, async[j], j) + One(plugin'[j])
    BY <1>2 DEF Counted
  <2>1. Held(Append(stack, c), sources, async[j], j) = Held(stack, sources, async[j], j) + Adds(c, sources, j)
    BY <1>1, <1>4, HeldPush
  <2>2. Adds(c, sources, j) = 0
    BY <1>1 DEF Adds, NpnOf, EndedOf, NPN
  <2>3. Held(stack, sources, async[j], j) \in Nat
    BY <1>4, HeldNow
  <2>4. RefOf(plugin[j]) = Held(stack, sources, async[j], j) + One(plugin[j])
    BY <1>4 DEF Alive, Counted
  <2>5. CASE j = i
    BY <1>3, <1>6, <1>10, <2>1, <2>2, <2>5
  <2>6. CASE j # i
    BY <1>6, <2>1, <2>2, <2>3, <2>4, <2>6
  <2> QED
    BY <2>5, <2>6
<1>12. Matched(npp', plugin', sources', async')
  <2> SUFFICES ASSUME NEW j \in Instances
               PROVE  /\ (npp'[j] = "none") <=> (plugin'[j] = NONE)
                      /\ npp'[j] = "live" => IsValid(plugin'[j])
                      /\ npp'[j] = "dead" /\ IsValid(plugin'[j]) => async[j] = 0 /\ SourcesOf(j, sources) = {}
    BY <1>2 DEF Matched
  <2>1. CASE j = i
    BY <1>3, <1>6, <2>1, PluginTypes
  <2>2. CASE j # i
    BY <1>4, <1>6, <2>2 DEF Alive, Matched
  <2> QED
    BY <2>1, <2>2
<1>13. ASSUME NEW k \in 1..Len(stack)
       PROVE  CallOk(stack[k], k, npp', plugin', async) /\ ~Rival(stack[k], c)
  <2> DEFINE d == stack[k]
  <2>1. CallOk(d, k, npp, plugin, async)
    BY <1>4 DEF Alive, StackOk
  <2>2. d \in Calls
    BY <1>4
  <2>3. d.i \in Instances
    BY <2>2, MembersOfCall
  <2>4. d.i = i => d.op # "timer"
    <3>1. d.op = "timer" => Held(stack, sources, async[d.i], d.i) >= 1
      BY <1>4, TimerCallHolds
    <3>2. ASSUME d.i = i, d.op = "timer" PROVE FALSE
      <4>1. Held(stack, sources, async[i], i) >= 1
        BY <3>1, <3>2
      <4> QED
        BY <1>10, <4>1
    <3> QED
      BY <3>2
  <2> HIDE DEF d
  <2>5. d.i = i => d.op \notin {"NPP_New", "NPP_Destroy"}
    BY <1>2, <2>1 DEF CallOk
  <2>6. CallOk(d, k, npp', plugin', async)
    <3>1. CASE d.i = i
      BY <2>1, <2>4, <2>5, <3>1 DEF CallOk
    <3>2. CASE d.i # i
      <4>1. plugin'[d.i] = plugin[d.i] /\ npp'[d.i] = npp[d.i]
        BY <1>6, <2>3, <3>2
      <4> QED
        BY <2>1, <4>1 DEF CallOk
    <3> QED
      BY <3>1, <3>2
  <2> QED
    BY <1>1, <2>5, <2>6 DEF Rival, d
<1>14. StackOk(stack', npp', plugin', async')
  <2>1. StackOk(stack, npp', plugin', async)
    BY <1>13 DEF StackOk
  <2>2. CallOk(c, Len(stack) + 1, npp', plugin', async)
    BY <1>1, <1>3, <1>6 DEF CallOk
  <2>3. StackOk(Append(stack, c), npp', plugin', async)
    BY <1>1, <1>4, <2>1, <2>2, StackPush
  <2> QED
    BY <1>2, <2>3
<1>15. NoRivals(stack')
  BY <1>1, <1>2, <1>4, <1>13, RivalsPush DEF Alive
<1>16. Numbered(plugin', timers')
  <2> SUFFICES ASSUME NEW j \in Instances
               PROVE  /\ plugin'[j] \in PluginInstance =>
                            \A t \in timers[j] : plugin'[j].tables = TRUE /\ t.id < plugin'[j].next_timer_id
                      /\ plugin'[j] \notin PluginInstance => timers[j] = {}
    BY <1>2 DEF Numbered
  <2>1. CASE j = i
    <3>1. timers[i] = {}
      BY <1>4, <1>5 DEF Alive, Numbered
    <3> QED
      BY <2>1, <3>1
  <2>2. CASE j # i
    <3>1. plugin'[j] = plugin[j]
      BY <1>6, <2>2
    <3> QED
      BY <1>4, <3>1 DEF Alive, Numbered
  <2> QED
    BY <2>1, <2>2
<1>17. Owned(plugin', npobjs')
  <2> SUFFICES ASSUME NEW o \in NPObjects,
                      npobjs[o] # NONE, npobjs[o].npobjects # NONE, npobjs[o].owner # NONE
               PROVE  npobjs[o].owner = npobjs[o].npobjects /\ IsValid(plugin'[npobjs[o].owner])
    BY <1>2 DEF Owned
  <2>1. npobjs[o].owner = npobjs[o].npobjects /\ IsValid(plugin[npobjs[o].owner])
    BY <1>4 DEF Alive, Owned
  <2>2. npobjs[o].owner \in Instances
    BY <1>4 DEF TypeOK, NPObject
  <2> QED
    BY <1>5, <1>6, <2>1, <2>2
<1>18. Alive'
  BY <1>11, <1>12, <1>14, <1>15, <1>16, <1>17 DEF Alive
<1> QED
  BY <1>2, <1>8, <1>9, <1>18, InvariantFacts DEF InstanceInvariant

\* The instance of a call of NPP_New or NPP_Destroy that ends: no other such
\* call is about it.
LEMMA TopCall ==
    ASSUME InstanceInvariant, up, Caller.op \in {"NPP_New", "NPP_Destroy"}
    PROVE  /\ stack # <<>> /\ Caller = Last(stack) /\ Caller.i \in Instances
           /\ Front(stack) \in Seq(Calls) /\ \A k \in 1..Len(Front(stack)) : Typed(Front(stack)[k])
           /\ CallOk(Caller, Len(stack), npp, plugin, async)
           /\ StackOk(Front(stack), npp, plugin, async)
           /\ NoRivals(Front(stack))
           /\ \A k \in 1..Len(Front(stack)) :
                 Front(stack)[k].op \in {"NPP_New", "NPP_Destroy"} => Front(stack)[k].i # Caller.i
           /\ \A j \in Instances : /\ Held(stack, sources, async[j], j) = Held(Front(stack), sources, async[j], j)
                                   /\ Held(stack, sources, async[j], j) \in Nat
<1>1. /\ TypeOK /\ Alive /\ stack \in Seq(Calls)
      /\ sources \in SUBSET Source /\ IsFiniteSet(sources) /\ async \in [Instances -> Nat]
  BY InvariantFacts, TypeFacts DEF TypeOK
<1>2. /\ stack # <<>> /\ Caller = Last(stack) /\ Caller.i \in Instances
      /\ Front(stack) \in Seq(Calls) /\ \A k \in 1..Len(Front(stack)) : Typed(Front(stack)[k])
  BY <1>1, CallerIsLast
<1>3. Len(stack) \in 1..Len(stack) /\ Caller = stack[Len(stack)]
  BY <1>1, <1>2, FrontProps
<1>4. CallOk(Caller, Len(stack), npp, plugin, async)
  BY <1>1, <1>3 DEF Alive, StackOk
<1>5. StackOk(Front(stack), npp, plugin, async)
  BY <1>1, <1>2, StackPop DEF Alive
<1>6. NoRivals(Front(stack)) /\ \A k \in 1..Len(Front(stack)) : ~Rival(Front(stack)[k], Last(stack))
  BY <1>1, <1>2, RivalsPop DEF Alive
<1>7. \A k \in 1..Len(Front(stack)) :
         Front(stack)[k].op \in {"NPP_New", "NPP_Destroy"} => Front(stack)[k].i # Caller.i
  BY <1>2, <1>6 DEF Rival
<1>8. ASSUME NEW j \in Instances
      PROVE  /\ Held(stack, sources, async[j], j) = Held(Front(stack), sources, async[j], j)
             /\ Held(stack, sources, async[j], j) \in Nat
  <2>1. async[j] \in Nat
    BY <1>1
  <2>2. /\ Held(stack, sources, async[j], j) = Held(Front(stack), sources, async[j], j) + Adds(Caller, sources, j)
        /\ Held(Front(stack), sources, async[j], j) \in Nat
    BY <1>1, <1>2, <2>1, HeldPop
  <2>3. Adds(Caller, sources, j) = 0
    BY DEF Adds, NpnOf, EndedOf, NPN
  <2> QED
    BY <2>2, <2>3
<1> QED
  BY <1>2, <1>4, <1>5, <1>6, <1>7, <1>8

LEMMA NewReturn ==
    ASSUME InstanceInvariant, NEW ok \in BOOLEAN, NPP_New_return(ok)
    PROVE  InstanceInvariant'
<1> DEFINE i == Caller.i  s == Front(stack)
           r == [plugin[i] EXCEPT !.tables = TRUE]
           y == [r EXCEPT !.next_timer_id = 1]
<1>1. /\ up /\ Caller.op = "NPP_New" /\ stack' = s
      /\ ok = TRUE \/ (async[i] = 0 /\ ~\E src \in sources : src.i = i)
      /\ plugin' = [plugin EXCEPT ![i].tables = TRUE, ![i].next_timer_id = 1]
      /\ npp' = IF ok THEN npp ELSE [npp EXCEPT ![i] = "dead"]
      /\ UNCHANGED <<up, wplugin, timers, sources, async, stream, fault, npobjs>>
  BY DEF NPP_New_return, PluginTurn, Pop
<1>2. /\ TypeOK /\ Alive /\ npp \in [Instances -> {"none", "live", "dead"}]
      /\ plugin \in [Instances -> Plugins] /\ sources \in SUBSET Source /\ async \in [Instances -> Nat]
  BY <1>1, InvariantFacts, TypeFacts DEF TypeOK
<1>3. /\ i \in Instances /\ s \in Seq(Calls) /\ \A k \in 1..Len(s) : Typed(s[k])
      /\ CallOk(Caller, Len(stack), npp, plugin, async)
      /\ StackOk(s, npp, plugin, async) /\ NoRivals(s)
      /\ \A k \in 1..Len(s) : s[k].op \in {"NPP_New", "NPP_Destroy"} => s[k].i # i
      /\ \A j \in Instances : /\ Held(stack, sources, async[j], j) = Held(s, sources, async[j], j)
                              /\ Held(stack, sources, async[j], j) \in Nat
  BY <1>1, TopCall
<1>4. npp[i] = "live" /\ plugin[i] \in PluginInstance /\ plugin[i].tables = FALSE
  BY <1>1, <1>3 DEF CallOk
<1>5. StreamsOk(stack', stream', up')
  BY <1>1, PopStreams
<1>6. /\ y \in PluginInstance /\ y.refcount = plugin[i].refcount /\ y.is_valid = plugin[i].is_valid
  <2>1. r \in PluginInstance /\ r.refcount = plugin[i].refcount /\ r.is_valid = plugin[i].is_valid
    BY <1>4 DEF PluginInstance
  <2> HIDE DEF r
  <2>2. 1 \in 0..MaxTimers
    BY PluginTypes
  <2>3. y \in PluginInstance /\ y.refcount = r.refcount /\ y.is_valid = r.is_valid
    BY <2>1, <2>2 DEF PluginInstance
  <2> QED
    BY <2>1, <2>3
<1>7. plugin' = [plugin EXCEPT ![i] = y]
  BY <1>1, <1>2, <1>3
<1> HIDE DEF y, i, s
<1>8. /\ plugin' \in [Instances -> Plugins] /\ plugin'[i] = y
      /\ \A j \in Instances : j # i => plugin'[j] = plugin[j]
  BY <1>2, <1>3, <1>6, <1>7 DEF Plugins
<1>9. /\ npp' \in [Instances -> {"none", "live", "dead"}]
      /\ npp'[i] = IF ok THEN "live" ELSE "dead"
      /\ \A j \in Instances : j # i => npp'[j] = npp[j]
  BY <1>1, <1>2, <1>3, <1>4
<1>10. \A j \in Instances : /\ RefOf(plugin'[j]) = RefOf(plugin[j]) /\ One(plugin'[j]) = One(plugin[j])
                            /\ IsValid(plugin'[j]) <=> IsValid(plugin[j])
                            /\ (plugin'[j] = NONE) <=> (plugin[j] = NONE)
  BY <1>4, <1>6, <1>8, PluginTypes DEF RefOf, One, IsValid
<1>11. TypeOK'
  BY <1>1, <1>3, <1>8, <1>9, InvariantFacts DEF TypeOK, Typed, Plugins
<1>12. Counted(plugin', stack', sources', async')
  BY <1>1, <1>2, <1>3, <1>10 DEF Alive, Counted
<1>13. Matched(npp', plugin', sources', async')
  <2> SUFFICES ASSUME NEW j \in Instances
               PROVE  /\ (npp'[j] = "none") <=> (plugin'[j] = NONE)
                      /\ npp'[j] = "live" => IsValid(plugin'[j])
                      /\ npp'[j] = "dead" /\ IsValid(plugin'[j]) => async[j] = 0 /\ SourcesOf(j, sources) = {}
    BY <1>1 DEF Matched
  <2>1. /\ (npp[j] = "none") <=> (plugin[j] = NONE)
        /\ npp[j] = "live" => IsValid(plugin[j])
        /\ npp[j] = "dead" /\ IsValid(plugin[j]) => async[j] = 0 /\ SourcesOf(j, sources) = {}
    BY <1>2 DEF Alive, Matched
  <2>2. CASE j = i
    <3>1. ok = FALSE => async[i] = 0 /\ SourcesOf(i, sources) = {}
      BY <1>1 DEF SourcesOf
    <3> QED
      BY <1>4, <1>9, <1>10, <2>1, <2>2, <3>1
  <2>3. CASE j # i
    BY <1>9, <1>10, <2>1, <2>3
  <2> QED
    BY <2>2, <2>3
<1>14. StackOk(stack', npp', plugin', async')
  <2> SUFFICES ASSUME NEW k \in 1..Len(s) PROVE CallOk(s[k], k, npp', plugin', async)
    BY <1>1 DEF StackOk
  <2> DEFINE d == s[k]
  <2>1. CallOk(d, k, npp, plugin, async)
    BY <1>3 DEF StackOk
  <2>2. d \in Calls
    BY <1>3
  <2>3. d.i \in Instances
    BY <2>2, MembersOfCall
  <2>4. d.op \in {"NPP_New", "NPP_Destroy"} => d.i # i
    BY <1>3
  <2> HIDE DEF d
  <2>5. CASE d.i = i
    <3>1. d.op # "timer"
      BY <1>4, <2>1, <2>5 DEF CallOk
    <3> QED
      BY <2>1, <2>4, <2>5, <3>1 DEF CallOk, d
  <2>6. CASE d.i # i
    <3>1. plugin'[d.i] = plugin[d.i] /\ npp'[d.i] = npp[d.i]
      BY <1>8, <1>9, <2>3, <2>6
    <3> QED
      BY <2>1, <3>1 DEF CallOk, d
  <2> QED
    BY <2>5, <2>6
<1>15. NoRivals(stack')
  BY <1>1, <1>3
<1>16. Numbered(plugin', timers')
  <2> SUFFICES ASSUME NEW j \in Instances
               PROVE  /\ plugin'[j] \in PluginInstance =>
                            \A t \in timers[j] : plugin'[j].tables = TRUE /\ t.id < plugin'[j].next_timer_id
                      /\ plugin'[j] \notin PluginInstance => timers[j] = {}
    BY <1>1 DEF Numbered
  <2>1. CASE j = i
    <3>1. timers[i] = {}
      BY <1>2, <1>3, <1>4 DEF Alive, Numbered
    <3> QED
      BY <2>1, <3>1
  <2>2. CASE j # i
    <3>1. plugin'[j] = plugin[j]
      BY <1>8, <2>2
    <3> QED
      BY <1>2, <3>1 DEF Alive, Numbered
  <2> QED
    BY <2>1, <2>2
<1>17. Owned(plugin', npobjs')
  <2> SUFFICES ASSUME NEW o \in NPObjects,
                      npobjs[o] # NONE, npobjs[o].npobjects # NONE, npobjs[o].owner # NONE
               PROVE  npobjs[o].owner = npobjs[o].npobjects /\ IsValid(plugin'[npobjs[o].owner])
    BY <1>1 DEF Owned
  <2>1. npobjs[o].owner = npobjs[o].npobjects /\ IsValid(plugin[npobjs[o].owner])
    BY <1>2 DEF Alive, Owned
  <2>2. npobjs[o].owner \in Instances
    BY <1>2 DEF TypeOK, NPObject
  <2> QED
    BY <1>10, <2>1, <2>2
<1>18. Alive'
  BY <1>12, <1>13, <1>14, <1>15, <1>16, <1>17 DEF Alive
<1> QED
  BY <1>1, <1>5, <1>11, <1>18, InvariantFacts DEF InstanceInvariant

LEMMA DestroyStep ==
    ASSUME InstanceInvariant, NEW i \in Instances, NPP_Destroy(i)
    PROVE  InstanceInvariant'
<1> DEFINE c == Call("NPP_Destroy", i, NONE)
<1>1. c \in Calls /\ Typed(c) /\ c.op = "NPP_Destroy" /\ c.i = i
  BY DEF Calls, Call, Typed, NPP
<1>2. /\ npp[i] = "live" /\ ~Within({"NPP_New", "NPP_Destroy"}, i)
      /\ UNCHANGED <<up, plugin, timers, sources, async, npobjs, stream, fault>>
  BY DEF NPP_Destroy, viewer
<1>3. CASE up
  <2>1. stack' = Append(stack, c) /\ UNCHANGED <<npp, wplugin>>
    BY <1>3 DEF NPP_Destroy, Push
  <2> HIDE DEF c
  <2>2. \A k \in 1..Len(stack) : ~Rival(stack[k], c)
    BY <1>1, <1>2 DEF Rival, Within
  <2>3. stack' \in Seq(Calls) /\ \A k \in 1..Len(stack') : Typed(stack'[k])
    BY <1>1, <2>1, InvariantFacts, TypedPush
  <2>4. TypeOK'
    BY <1>2, <2>1, <2>3, InvariantFacts DEF TypeOK, Typed
  <2>5. StreamsOk(stack', stream', up')
    BY <1>1, <1>2, <2>1, PushStreams
  <2>6. Alive'
    BY <1>1, <1>2, <1>3, <2>1, <2>2, InvariantFacts, QuietPush DEF NPN
  <2> QED
    BY <1>2, <1>3, <2>4, <2>5, <2>6, InvariantFacts DEF InstanceInvariant
<1>4. CASE ~up
  <2>1. stack' = stack /\ g_NPP_Destroy(i)
    BY <1>4 DEF NPP_Destroy
  <2>2. TypeOK'
    BY <1>2, <2>1, InvariantFacts DEF TypeOK, g_NPP_Destroy
  <2> QED
    BY <1>2, <1>4, <2>1, <2>2, InvariantFacts DEF InstanceInvariant
<1> QED
  BY <1>3, <1>4

LEMMA DestroyReturn ==
    ASSUME InstanceInvariant, NPP_Destroy_return
    PROVE  InstanceInvariant'
<1> DEFINE i == Caller.i  s == Front(stack)
           y == [plugin[i] EXCEPT !.is_valid = FALSE]
           p == [plugin EXCEPT ![i] = y]
<1>1. /\ up /\ Caller.op = "NPP_Destroy" /\ stack' = s
      /\ plugin' = npw_plugin_instance_unref(npw_plugin_instance_invalidate(plugin, i), i)
      /\ timers' = plugin_instance_finalize(plugin')
      /\ npobjs' = invalidate_npobject(i)
      /\ g_NPP_Destroy(i)
      /\ UNCHANGED <<up, sources, async, stream, fault>>
  BY DEF NPP_Destroy_return, PluginTurn, Pop
<1>2. /\ TypeOK /\ Alive /\ npp \in [Instances -> {"none", "live", "dead"}]
      /\ wplugin \in [Instances -> {"none", "valid", "freed"}]
      /\ plugin \in [Instances -> Plugins] /\ sources \in SUBSET Source /\ async \in [Instances -> Nat]
      /\ npobjs \in [NPObjects -> NPObject \cup {NONE}] /\ timers \in [Instances -> SUBSET Timer]
  BY <1>1, InvariantFacts, TypeFacts DEF TypeOK
<1>3. /\ i \in Instances /\ s \in Seq(Calls) /\ \A k \in 1..Len(s) : Typed(s[k])
      /\ CallOk(Caller, Len(stack), npp, plugin, async)
      /\ StackOk(s, npp, plugin, async) /\ NoRivals(s)
      /\ \A k \in 1..Len(s) : s[k].op \in {"NPP_New", "NPP_Destroy"} => s[k].i # i
      /\ \A j \in Instances : /\ Held(stack, sources, async[j], j) = Held(s, sources, async[j], j)
                              /\ Held(stack, sources, async[j], j) \in Nat
  BY <1>1, TopCall
<1>4. npp[i] = "live" /\ IsValid(plugin[i]) /\ plugin[i] \in PluginInstance
  BY <1>1, <1>2, <1>3 DEF CallOk, Alive, Matched, IsValid
<1>5. StreamsOk(stack', stream', up')
  <2>1. StreamsOk(Front(stack), stream, up)
    BY <1>1, InvariantFacts, CallerIsLast, StreamsPop
  <2> QED
    BY <1>1, <2>1
<1>6. /\ y \in PluginInstance /\ y.refcount = plugin[i].refcount /\ y.is_valid = FALSE
      /\ y.tables = plugin[i].tables /\ y.next_timer_id = plugin[i].next_timer_id
  BY <1>4 DEF PluginInstance
<1>7. npw_plugin_instance_invalidate(plugin, i) = p
  BY <1>2, <1>3 DEF npw_plugin_instance_invalidate
<1>8. plugin' = npw_plugin_instance_unref(p, i)
  BY <1>1, <1>7
<1> HIDE DEF y, i, s
<1>9. /\ p \in [Instances -> Plugins] /\ p[i] = y
      /\ \A j \in Instances : j # i => p[j] = plugin[j]
  BY <1>2, <1>3, <1>6 DEF Plugins
<1> HIDE DEF p
<1>10. RefOf(p[i]) = RefOf(plugin[i]) /\ One(p[i]) = 0 /\ One(plugin[i]) = 1 /\ RefOf(p[i]) >= 1 /\ ~IsValid(p[i])
  BY <1>4, <1>6, <1>9, MembersOfPlugin DEF RefOf, One, IsValid
<1>11. /\ plugin' \in [Instances -> Plugins]
       /\ Mild(p, plugin')
       /\ \A j \in Instances : /\ RefOf(plugin'[j]) = RefOf(p[j]) - IF j = i THEN 1 ELSE 0
                               /\ One(plugin'[j]) = One(p[j])
  BY <1>3, <1>8, <1>9, <1>10, UnrefEffect
<1>12. /\ npp' \in [Instances -> {"none", "live", "dead"}] /\ npp'[i] = "dead"
       /\ \A j \in Instances : j # i => npp'[j] = npp[j]
       /\ wplugin' \in [Instances -> {"none", "valid", "freed"}]
  BY <1>1, <1>2, <1>3 DEF g_NPP_Destroy
<1>13. timers' \in [Instances -> SUBSET Timer] /\ Kept(timers, timers', plugin')
  BY <1>1, <1>2, Finalized
<1>14. /\ npobjs' \in [NPObjects -> NPObject \cup {NONE}]
       /\ \A o \in NPObjects : npobjs'[o] = npobjs[o] \/ (npobjs'[o].owner = NONE /\ npobjs[o] # NONE)
       /\ \A o \in NPObjects : npobjs[o] # NONE /\ npobjs[o].npobjects = i => npobjs'[o].owner = NONE
  <2> DEFINE u(x) == [x EXCEPT !.owner = NONE]
  <2>1. \A x \in NPObject : u(x) \in NPObject /\ u(x).owner = NONE
    BY DEF NPObject
  <2>2. npobjs' = [o \in NPObjects |-> IF npobjs[o] # NONE /\ npobjs[o].npobjects = i
                                       THEN u(npobjs[o]) ELSE npobjs[o]]
    BY <1>1 DEF invalidate_npobject, npobject_unregister
  <2> HIDE DEF u
  <2> QED
    BY <1>2, <2>1, <2>2
<1>15. TypeOK'
  BY <1>1, <1>3, <1>11, <1>12, <1>13, <1>14, InvariantFacts DEF TypeOK, Typed, Plugins
<1>16. Counted(plugin', stack', sources', async')
  <2> SUFFICES ASSUME NEW j \in Instances
               PROVE  RefOf(plugin'[j]) = Held(s, sources, async[j], j) + One(plugin'[j])
    BY <1>1 DEF Counted
  <2>1. RefOf(plugin[j]) = Held(stack, sources, async[j], j) + One(plugin[j])
    BY <1>2 DEF Alive, Counted
  <2>2. One(plugin[j]) \in Nat
    BY DEF One
  <2>3. CASE j = i
    <3>1. RefOf(plugin'[i]) = RefOf(plugin[i]) - 1 /\ One(plugin'[i]) = 0
      BY <1>3, <1>10, <1>11
    <3> QED
      BY <1>3, <1>10, <2>1, <2>3, <3>1
  <2>4. CASE j # i
    <3>1. RefOf(plugin'[j]) = RefOf(plugin[j]) /\ One(plugin'[j]) = One(plugin[j])
      <4>1. RefOf(plugin[j]) \in Nat
        BY <1>2, MembersOfPlugin DEF RefOf
      <4> QED
        BY <1>9, <1>11, <2>4, <4>1
    <3> QED
      BY <1>3, <2>1, <3>1
  <2> QED
    BY <2>3, <2>4
<1>17. Matched(npp', p, sources, async)
  <2> SUFFICES ASSUME NEW j \in Instances
               PROVE  /\ (npp'[j] = "none") <=> (p[j] = NONE)
                      /\ npp'[j] = "live" => IsValid(p[j])
                      /\ npp'[j] = "dead" /\ IsValid(p[j]) => async[j] = 0 /\ SourcesOf(j, sources) = {}
    BY DEF Matched
  <2>1. CASE j = i
    BY <1>6, <1>9, <1>10, <1>12, <2>1, PluginTypes
  <2>2. CASE j # i
    BY <1>2, <1>9, <1>12, <2>2 DEF Alive, Matched
  <2> QED
    BY <2>1, <2>2
<1>18. Matched(npp', plugin', sources', async')
  <2>1. \A j \in Instances : npp'[j] = "dead" /\ IsValid(p[j]) => async[j] = 0 /\ SourcesOf(j, sources) = {}
    BY <1>17 DEF Matched
  <2>2. Matched(npp', plugin', sources, async)
    BY <1>11, <1>17, <2>1, MildMatched
  <2> QED
    BY <1>1, <2>2
<1>19. StackOk(s, npp', p, async)
  <2> SUFFICES ASSUME NEW k \in 1..Len(s) PROVE CallOk(s[k], k, npp', p, async)
    BY DEF StackOk
  <2> DEFINE d == s[k]
  <2>1. CallOk(d, k, npp, plugin, async)
    BY <1>3 DEF StackOk
  <2>2. d \in Calls
    BY <1>3
  <2>3. d.i \in Instances
    BY <2>2, MembersOfCall
  <2>4. d.op \in {"NPP_New", "NPP_Destroy"} => d.i # i
    BY <1>3
  <2> HIDE DEF d
  <2>5. CASE d.i = i
    BY <1>4, <1>6, <1>9, <2>1, <2>4, <2>5 DEF CallOk, Keyed, d
  <2>6. CASE d.i # i
    <3>1. p[d.i] = plugin[d.i] /\ npp'[d.i] = npp[d.i]
      BY <1>9, <1>12, <2>3, <2>6
    <3> QED
      BY <2>1, <3>1 DEF CallOk, d
  <2> QED
    BY <2>5, <2>6
<1>20. StackOk(stack', npp', plugin', async')
  <2>1. \A j \in Instances : npp'[j] = "live" => IsValid(p[j])
    BY <1>17 DEF Matched
  <2>2. \A j \in Instances : async[j] \in Nat /\ async[j] >= async[j]
    BY <1>2
  <2>3. \A k \in 1..Len(s) : s[k].op = "timer" => s[k].s \in Nat
    BY <1>3 DEF Typed
  <2>4. StackOk(s, npp', plugin', async)
    BY <1>3, <1>11, <1>19, <2>1, <2>2, <2>3, MildStack
  <2> QED
    BY <1>1, <2>4
<1>21. NoRivals(stack')
  BY <1>1, <1>3
<1>22. Numbered(plugin', timers')
  <2>1. Numbered(p, timers)
    <3> SUFFICES ASSUME NEW j \in Instances
                 PROVE  /\ p[j] \in PluginInstance =>
                              \A t \in timers[j] : p[j].tables = TRUE /\ t.id < p[j].next_timer_id
                        /\ p[j] \notin PluginInstance => timers[j] = {}
      BY DEF Numbered
    <3>1. CASE j = i
      BY <1>2, <1>4, <1>6, <1>9, <3>1 DEF Alive, Numbered
    <3>2. CASE j # i
      <4>1. p[j] = plugin[j]
        BY <1>9, <3>2
      <4> QED
        BY <1>2, <4>1 DEF Alive, Numbered
    <3> QED
      BY <3>1, <3>2
  <2>2. \A j \in Instances : timers[j] \subseteq Timer
    BY <1>2
  <2>3. \A j \in Instances : /\ plugin'[j] = Freed => timers'[j] = {}
                             /\ \A t \in timers'[j] : \E u \in timers[j] : u.id = t.id
    BY <1>13 DEF Kept
  <2> QED
    BY <1>11, <2>1, <2>2, <2>3, MildNumbered
<1>23. Owned(plugin', npobjs')
  <2>1. Owned(p, npobjs')
    <3> SUFFICES ASSUME NEW o \in NPObjects,
                        npobjs'[o] # NONE, npobjs'[o].npobjects # NONE, npobjs'[o].owner # NONE
                 PROVE  npobjs'[o].owner = npobjs'[o].npobjects /\ IsValid(p[npobjs'[o].owner])
      BY DEF Owned
    <3>1. npobjs'[o] = npobjs[o] /\ npobjs[o].npobjects # i
      BY <1>14
    <3>2. npobjs[o].owner = npobjs[o].npobjects /\ IsValid(plugin[npobjs[o].owner])
      BY <1>2, <3>1 DEF Alive, Owned
    <3>3. npobjs[o].owner \in Instances
      BY <1>2, <3>1 DEF NPObject
    <3> QED
      BY <1>9, <3>1, <3>2, <3>3
  <2> QED
    BY <1>11, <1>14, <2>1, MildOwned
<1>24. Alive'
  BY <1>16, <1>18, <1>20, <1>21, <1>22, <1>23 DEF Alive
<1> QED
  BY <1>1, <1>5, <1>15, <1>24, InvariantFacts DEF InstanceInvariant

-----------------------------------------------------------------------------
(* The viewer dies                                                           *)

\* The call that the main loop makes has no caller: the rest of the stack is
\* left to return.
LEMMA StreamsTail ==
    ASSUME NEW st, NEW u, NEW stk \in Seq(Calls), stk # <<>>, StreamsOk(stk, st, u),
           Head(stk).op \in {"timer", "async"}
    PROVE  StreamsOk(Tail(stk), st, u)
<1> DEFINE t == Tail(stk)
<1>1. /\ Len(t) = Len(stk) - 1 /\ Len(stk) \in Nat /\ Len(stk) > 0 /\ Head(stk) = stk[1]
      /\ \A k \in 1..Len(t) : t[k] = stk[k + 1]
  BY TailProps
<1> HIDE DEF t
<1>2. /\ \A k \in 1..Len(t) : k + 1 \in 1..Len(stk)
      /\ \A k \in 1..Len(stk) : k # 1 => k - 1 \in 1..Len(t) /\ t[k - 1] = stk[k]
  <2>1. \A k \in 1..Len(t) : k + 1 \in 1..Len(stk)
    BY <1>1
  <2>2. ASSUME NEW k \in 1..Len(stk), k # 1 PROVE k - 1 \in 1..Len(t) /\ t[k - 1] = stk[k]
    <3>1. k - 1 \in 1..Len(t) /\ (k - 1) + 1 = k
      BY <1>1, <2>2
    <3>2. t[k - 1] = stk[(k - 1) + 1]
      BY <1>1, <3>1, Zenon
    <3> QED
      BY <3>1, <3>2
  <2> QED
    BY <2>1, <2>2
<1>3. ASSUME NEW s \in Streams, st[s] # NONE PROVE StreamOk(st[s], u, Busy(t, s))
  <2>1. Busy(stk, s) => Busy(t, s)
    <3> SUFFICES ASSUME NEW k \in 1..Len(stk), stk[k].op = "NPN_DestroyStream", stk[k].s = s
                 PROVE  Busy(t, s)
      BY DEF Busy
    <3>1. k # 1
      BY <1>1
    <3> QED
      BY <1>2, <3>1 DEF Busy
  <2>2. StreamOk(st[s], u, Busy(stk, s))
    BY <1>3 DEF StreamsOk
  <2> QED
    BY <2>1, <2>2 DEF StreamOk
<1>4. ASSUME NEW k \in 1..Len(t) PROVE ClosingOk(t[k], st[t[k].s], u)
  <2>1. ClosingOk(stk[k + 1], st[stk[k + 1].s], u)
    BY <1>2 DEF StreamsOk
  <2> QED
    BY <1>1, <2>1, Zenon
<1>5. ASSUME NEW j \in 1..Len(t), NEW k \in 1..Len(t), Closes(t[j], t[k]) PROVE j = k
  <2>1. Closes(stk[j + 1], stk[k + 1])
    BY <1>1, <1>5, Zenon
  <2>2. j + 1 = k + 1
    BY <1>2, <2>1 DEF StreamsOk
  <2> QED
    BY <2>2
<1> QED
  BY <1>3, <1>4, <1>5 DEF StreamsOk, t

LEMMA DieStep ==
    ASSUME InstanceInvariant, Die
    PROVE  InstanceInvariant'
<1> DEFINE n(x) == [x EXCEPT !.vdata = "none"]
<1>1. \A x \in StreamInstance :
         /\ n(x) \in StreamInstance /\ n(x).vdata = "none" /\ n(x).by = x.by /\ n(x).browser = x.browser
         /\ n(x).refused = x.refused /\ n(x).wdata = x.wdata
  BY DEF StreamInstance
<1>2. /\ up /\ up' = FALSE /\ fault' = fault /\ npp' = npp /\ wplugin' = wplugin
      /\ plugin' = [i \in Instances |-> NONE]
      /\ timers' = [i \in Instances |-> {}]
      /\ sources' = {}
      /\ async' = [i \in Instances |-> 0]
      /\ npobjs' = [o \in NPObjects |-> NONE]
      /\ stream' = [s \in Streams |-> IF stream[s] = NONE THEN NONE ELSE n(stream[s])]
      /\ \/ stack' = stack
         \/ stack # <<>> /\ Head(stack).op \in {"timer", "async"} /\ stack' = Tail(stack)
  BY DEF Die
<1> HIDE DEF n
<1>3. /\ stream' \in [Streams -> StreamInstance \cup {NONE}]
      /\ \A s \in Streams : stream[s] = NONE => stream'[s] = NONE
      /\ \A s \in Streams : stream[s] # NONE =>
            stream[s] \in StreamInstance /\ stream'[s] = n(stream[s]) /\ stream'[s] # NONE
  BY <1>1, <1>2, InvariantFacts, PluginTypes
<1>4. StreamsOk(stack, stream', FALSE)
  <2>1. ASSUME NEW s \in Streams, stream'[s] # NONE PROVE StreamOk(stream'[s], FALSE, Busy(stack, s))
    <3> DEFINE x == stream[s]  y == stream'[s]
    <3>1. /\ x \in StreamInstance /\ y.vdata = "none" /\ y.by = x.by /\ y.browser = x.browser
          /\ y.refused = x.refused /\ y.wdata = x.wdata /\ x # NONE
      BY <1>1, <1>3, <2>1
    <3>2. StreamOk(x, up, Busy(stack, s))
      BY <3>1, InvariantFacts DEF StreamsOk
    <3> HIDE DEF x, y
    <3>3. StreamOk(y, FALSE, Busy(stack, s))
      BY <3>1, <3>2 DEF StreamOk
    <3> QED
      BY <3>3 DEF y
  <2>2. ASSUME NEW k \in 1..Len(stack) PROVE ClosingOk(stack[k], stream'[stack[k].s], FALSE)
    <3> DEFINE c == stack[k]
    <3>1. ClosingOk(c, stream[c.s], up) /\ Typed(c)
      BY InvariantFacts DEF StreamsOk
    <3> HIDE DEF c
    <3>2. CASE c.op \in {"NPP_NewStream", "NPP_DestroyStream", "NPN_DestroyStream"}
      <4>1. c.s \in Streams /\ stream[c.s] # NONE
        BY <3>1, <3>2 DEF Typed, ClosingOk
      <4> DEFINE x == stream[c.s]  y == stream'[c.s]
      <4>2. y.by = x.by /\ y.browser = x.browser /\ y.wdata = x.wdata /\ y # NONE
        BY <1>1, <1>3, <4>1
      <4>3. ClosingOk(c, x, up)
        BY <3>1
      <4> HIDE DEF x, y
      <4>4. ClosingOk(c, y, FALSE)
        BY <4>2, <4>3 DEF ClosingOk
      <4> QED
        BY <4>4 DEF y, c
    <3>3. CASE c.op \notin {"NPP_NewStream", "NPP_DestroyStream", "NPN_DestroyStream"}
      BY <3>3 DEF ClosingOk, c
    <3> QED
      BY <3>2, <3>3
  <2>3. \A j, k \in 1..Len(stack) : Closes(stack[j], stack[k]) => j = k
    BY InvariantFacts DEF StreamsOk
  <2> QED
    BY <2>1, <2>2, <2>3 DEF StreamsOk
<1>5. StreamsOk(stack', stream', up')
  <2>1. CASE stack' = stack
    BY <1>2, <1>4, <2>1
  <2>2. CASE stack # <<>> /\ Head(stack).op \in {"timer", "async"} /\ stack' = Tail(stack)
    <3>1. stack \in Seq(Calls)
      BY InvariantFacts
    <3>2. StreamsOk(Tail(stack), stream', FALSE)
      BY <1>4, <2>2, <3>1, StreamsTail
    <3> QED
      BY <1>2, <2>2, <3>2
  <2> QED
    BY <1>2, <2>1, <2>2
<1>6. stack' \in Seq(Calls) /\ \A k \in 1..Len(stack') : Typed(stack'[k])
  <2>1. CASE stack' = stack
    BY <2>1, InvariantFacts
  <2>2. CASE stack # <<>> /\ stack' = Tail(stack)
    <3>1. /\ stack' \in Seq(Calls) /\ Len(stack') = Len(stack) - 1 /\ Len(stack) \in Nat
          /\ \A k \in 1..Len(stack') : stack'[k] = stack[k + 1]
      BY <2>2, InvariantFacts, TailProps
    <3>2. \A k \in 1..Len(stack') : k + 1 \in 1..Len(stack)
      BY <3>1
    <3>3. \A k \in 1..Len(stack') : Typed(stack[k + 1])
      BY <3>2, InvariantFacts
    <3> QED
      BY <3>1, <3>3, Zenon
  <2> QED
    BY <1>2, <2>1, <2>2
<1>7. TypeOK'
  <2>1. IsFiniteSet({})
    BY FS_EmptySet
  <2>2. /\ sources' \subseteq [i : Instances, id : Nat] /\ IsFiniteSet(sources')
        /\ timers' \in [Instances -> SUBSET Timer] /\ async' \in [Instances -> Nat]
        /\ plugin' \in [Instances -> PluginInstance \cup {NONE, Freed}]
        /\ npobjs' \in [NPObjects -> NPObject \cup {NONE}] /\ up' \in BOOLEAN
    BY <1>2, <2>1
  <2> QED
    BY <1>2, <1>3, <1>6, <2>2, InvariantFacts DEF TypeOK, Typed
<1> QED
  BY <1>2, <1>5, <1>7, InvariantFacts DEF InstanceInvariant

\* The wrapper's side of a call that the viewer does not answer any more.
LEMMA FailsStep ==
    ASSUME InstanceInvariant, NPP_fails
    PROVE  InstanceInvariant'
<1> DEFINE i == Caller.i  s == Caller.s
<1>1. /\ ~up /\ Caller.op \in NPP /\ stack' = Front(stack)
      /\ UNCHANGED <<up, plugin, timers, sources, async, npobjs, fault>>
  BY DEF NPP_fails, Pop, viewer
<1>2. /\ i \in Instances
      /\ npp \in [Instances -> {"none", "live", "dead"}]
      /\ wplugin \in [Instances -> {"none", "valid", "freed"}]
      /\ stack' \in Seq(Calls) /\ \A k \in 1..Len(stack') : Typed(stack'[k])
  BY <1>1, InvariantFacts, CallerIsLast DEF TypeOK, NPP
<1>3. /\ StreamsOk(stack', stream', up')
      /\ stream' \in [Streams -> StreamInstance \cup {NONE}]
      /\ npp' \in [Instances -> {"none", "live", "dead"}]
      /\ wplugin' \in [Instances -> {"none", "valid", "freed"}]
  <2>1. CASE Caller.op = "NPP_Destroy"
    <3>1. g_NPP_Destroy(i) /\ stream' = stream
      BY <2>1 DEF NPP_fails
    <3>2. StreamsOk(stack', stream', up')
      BY <1>1, <2>1, <3>1, PopStreams
    <3> QED
      BY <1>2, <3>1, <3>2, InvariantFacts DEF g_NPP_Destroy
  <2>2. CASE Caller.op = "NPP_New"
    <3>1. npp' = [npp EXCEPT ![i] = "dead"] /\ wplugin' = wplugin /\ stream' = stream
      BY <2>2 DEF NPP_fails
    <3>2. StreamsOk(stack', stream', up')
      BY <1>1, <2>2, <3>1, PopStreams
    <3> QED
      BY <1>2, <3>1, <3>2, InvariantFacts
  <2>3. CASE Caller.op = "NPP_DestroyStream"
    <3>1. stream' = WrapperForgets(stream, Caller.s) /\ npp' = npp /\ wplugin' = wplugin
      BY <2>3 DEF NPP_fails
    <3> QED
      BY <1>1, <1>2, <2>3, <3>1, ClosedStream
  <2>4. CASE Caller.op = "NPP_NewStream"
    <3>1. /\ \/ stream' = stream
             \/ stream' = [stream EXCEPT ![Caller.s].browser = "gone", ![Caller.s].refused = TRUE]
                /\ stream[Caller.s].browser = "open"
          /\ npp' = npp /\ wplugin' = wplugin
      BY <2>4 DEF NPP_fails
    <3> QED
      BY <1>1, <1>2, <2>4, <3>1, RefusedStream
  <2>5. CASE Caller.op \notin {"NPP_Destroy", "NPP_New", "NPP_DestroyStream", "NPP_NewStream"}
    <3>1. npp' = npp /\ wplugin' = wplugin /\ stream' = stream
      BY <2>5 DEF NPP_fails
    <3>2. Caller.op \notin {"none", "NPN_DestroyStream"}
      BY <1>1 DEF NPP
    <3>3. StreamsOk(stack', stream', up')
      BY <1>1, <3>1, <3>2, PopStreams
    <3> QED
      BY <1>2, <3>1, <3>3, InvariantFacts
  <2> QED
    BY <2>1, <2>2, <2>3, <2>4, <2>5
<1>4. TypeOK'
  BY <1>1, <1>2, <1>3, InvariantFacts DEF TypeOK, Typed
<1> QED
  BY <1>1, <1>3, <1>4, InvariantFacts DEF InstanceInvariant

-----------------------------------------------------------------------------
(* The specification                                                         *)

LEMMA InitHolds ==
    ASSUME Init PROVE InstanceInvariant
<1>1. /\ up = TRUE /\ stack = <<>> /\ sources = {} /\ fault = {}
      /\ npp = [i \in Instances |-> "none"]
      /\ wplugin = [i \in Instances |-> "none"]
      /\ plugin = [i \in Instances |-> NONE]
      /\ timers = [i \in Instances |-> {}]
      /\ async = [i \in Instances |-> 0]
      /\ npobjs = [o \in NPObjects |-> NONE]
      /\ stream = [s \in Streams |-> NONE]
  BY DEF Init
<1>2. /\ stack \in Seq(Calls) /\ 1..Len(stack) = {} /\ IsFiniteSet(sources)
  BY <1>1, FS_EmptySet
<1>3. TypeOK
  BY <1>1, <1>2 DEF TypeOK
<1>4. StreamsOk(stack, stream, up)
  BY <1>1, <1>2 DEF StreamsOk
<1>5. Counted(plugin, stack, sources, async)
  <2> SUFFICES ASSUME NEW i \in Instances
               PROVE  RefOf(plugin[i]) = Held(stack, sources, async[i], i) + One(plugin[i])
    BY DEF Counted
  <2>1. RefOf(plugin[i]) = 0 /\ One(plugin[i]) = 0 /\ async[i] = 0
    BY <1>1, PluginTypes DEF RefOf, One, IsValid
  <2>2. sources \in SUBSET Source
    BY <1>1
  <2>3. Held(<<>>, sources, 0, i) = Cardinality(SourcesOf(i, sources)) + 0
    BY <1>2, <2>2, HeldEmpty
  <2>4. SourcesOf(i, sources) = {}
    BY <1>1 DEF SourcesOf
  <2>5. Cardinality(SourcesOf(i, sources)) = 0
    BY <2>4, FS_EmptySet
  <2>6. Held(stack, sources, async[i], i) = Held(<<>>, sources, 0, i)
    BY <1>1, <2>1
  <2> QED
    BY <2>1, <2>3, <2>5, <2>6
<1>6. Matched(npp, plugin, sources, async)
  BY <1>1, PluginTypes DEF Matched, IsValid
<1>7. StackOk(stack, npp, plugin, async) /\ NoRivals(stack)
  BY <1>2 DEF StackOk, NoRivals
<1>8. Numbered(plugin, timers) /\ Owned(plugin, npobjs)
  BY <1>1, PluginTypes DEF Numbered, Owned
<1> QED
  BY <1>1, <1>3, <1>4, <1>5, <1>6, <1>7, <1>8 DEF InstanceInvariant, Alive

LEMMA ReturnStep ==
    ASSUME InstanceInvariant, Return PROVE InstanceInvariant'
<1>1. CASE \E ok \in BOOLEAN : NPP_New_return(ok) \/ NPP_NewStream_return(ok) \/ NPN_NewStream_return(ok)
  BY <1>1, NewReturn, NewStreamReturn, NpnNewStreamReturn
<1>2. CASE \/ NPP_Destroy_return \/ NPP_SetWindow_return \/ NPP_Write_return \/ NPP_DestroyStream_return
           \/ \E printed \in BOOLEAN : NPP_Print_return(printed)
  BY <1>2, DestroyReturn, SetWindowReturn, DestroyStreamReturn
<1>3. CASE NPN_Write_return \/ NPN_DestroyStream_return
  BY <1>3, NpnWriteReturn, NpnDestroyStreamReturn
<1>4. CASE timer_data_run_return \/ async_call_run_return
  BY <1>4, TimerRunReturn, AsyncRunReturn
<1>5. CASE NPP_fails
  BY <1>5, FailsStep
<1> QED
  BY <1>1, <1>2, <1>3, <1>4, <1>5 DEF Return

LEMMA StepOfInstance ==
    ASSUME InstanceInvariant, KeyInvariant, NEW i \in Instances,
           \/ NPP_New(i) \/ NPP_Destroy(i) \/ NPP_SetWindow(i) \/ NPP_Print(i)
           \/ NPN_Write(i)
           \/ \E s \in Streams : NPP_NewStream(i, s) \/ NPN_NewStream(i, s) \/ NPN_DestroyStream(i, s)
           \/ \E repeat \in BOOLEAN : g_NPN_ScheduleTimer(i, repeat)
           \/ \E t \in timers[i] : g_NPN_UnscheduleTimer(i, t)
           \/ g_NPN_PluginThreadAsyncCall(i)
           \/ async_call_run(i)
           \/ \E o \in NPObjects : g_NPN_CreateObject(i, o)
    PROVE  InstanceInvariant'
<1>1. CASE NPP_New(i) \/ NPP_Destroy(i) \/ NPP_SetWindow(i) \/ NPP_Print(i)
  BY <1>1, NewStep, DestroyStep, SetWindowStep
<1>2. CASE NPN_Write(i)
  BY <1>2, NpnWriteStep
<1>3. CASE \E s \in Streams : NPP_NewStream(i, s) \/ NPN_NewStream(i, s) \/ NPN_DestroyStream(i, s)
  BY <1>3, NewStreamStep, NpnNewStreamStep, NpnDestroyStreamStep
<1>4. CASE \E repeat \in BOOLEAN : g_NPN_ScheduleTimer(i, repeat)
  BY <1>4, ScheduleTimerStep
<1>5. CASE \E t \in timers[i] : g_NPN_UnscheduleTimer(i, t)
  BY <1>5, UnscheduleTimerStep
<1>6. CASE g_NPN_PluginThreadAsyncCall(i) \/ async_call_run(i)
  BY <1>6, AsyncCallStep, AsyncRunStep
<1>7. CASE \E o \in NPObjects : g_NPN_CreateObject(i, o)
  BY <1>7, CreateObjectStep
<1> QED
  BY <1>1, <1>2, <1>3, <1>4, <1>5, <1>6, <1>7

LEMMA StepHolds ==
    ASSUME InstanceInvariant, KeyInvariant, [Next]_vars PROVE InstanceInvariant'
<1>1. CASE UNCHANGED vars
  BY <1>1 DEF vars, InstanceInvariant, TypeOK, Alive
<1>2. CASE \E o \in NPObjects : g_NPN_RetainObject(o) \/ g_NPN_ReleaseObject(o)
  BY <1>2, RetainObjectStep, ReleaseObjectStep
<1>3. CASE \E s \in Streams : NPP_Write(s) \/ NPP_DestroyStream(s)
  BY <1>3, WriteStep, DestroyStreamStep
<1>4. CASE \E src \in sources : timer_data_run(src)
  BY <1>4, TimerRunStep
<1>5. CASE Return \/ Die
  BY <1>5, ReturnStep, DieStep
<1> QED
  BY <1>1, <1>2, <1>3, <1>4, <1>5, StepOfInstance DEF Next

-----------------------------------------------------------------------------
(* The keys of the sources                                                   *)

\* q keeps of p what the keys are about.
Steady(p, q) ==
    \A j \in Instances : q[j] \in PluginInstance =>
        /\ p[j] \in PluginInstance /\ q[j].tables = p[j].tables
        /\ q[j].next_timer_id >= p[j].next_timer_id

LEMMA EditIsSteady ==
    ASSUME NEW p \in [Instances -> Plugins], NEW i \in Instances, NEW x,
           x \in PluginInstance => /\ p[i] \in PluginInstance /\ x.tables = p[i].tables
                                   /\ x.next_timer_id >= p[i].next_timer_id
    PROVE  Steady(p, p) /\ Steady(p, [p EXCEPT ![i] = x])
<1>1. ASSUME NEW j \in Instances, p[j] \in PluginInstance PROVE p[j].next_timer_id >= p[j].next_timer_id
  BY <1>1, MembersOfPlugin
<1>2. Steady(p, p)
  BY <1>1 DEF Steady
<1>3. \A j \in Instances : [p EXCEPT ![i] = x][j] = IF j = i THEN x ELSE p[j]
  OBVIOUS
<1> QED
  BY <1>1, <1>2, <1>3 DEF Steady

LEMMA CountIsSteady ==
    ASSUME NEW p \in [Instances -> Plugins], NEW i \in Instances
    PROVE  /\ Steady(p, npw_plugin_instance_unref(p, i))
           /\ p[i] \in PluginInstance => Steady(p, npw_plugin_instance_ref(p, i))
<1> DEFINE x == [p[i] EXCEPT !.refcount = @ + 1]  y == [p[i] EXCEPT !.refcount = @ - 1]
<1>1. ASSUME p[i] \in PluginInstance
      PROVE  /\ x.tables = p[i].tables /\ x.next_timer_id >= p[i].next_timer_id
             /\ y.tables = p[i].tables /\ y.next_timer_id >= p[i].next_timer_id
  <2>1. /\ x.tables = p[i].tables /\ x.next_timer_id = p[i].next_timer_id
        /\ y.tables = p[i].tables /\ y.next_timer_id = p[i].next_timer_id
    BY <1>1 DEF PluginInstance
  <2> QED
    BY <1>1, <2>1, MembersOfPlugin
<1> HIDE DEF x, y
<1>2. p[i] \in PluginInstance => Steady(p, npw_plugin_instance_ref(p, i))
  <2> SUFFICES ASSUME p[i] \in PluginInstance PROVE Steady(p, npw_plugin_instance_ref(p, i))
    OBVIOUS
  <2>1. Steady(p, [p EXCEPT ![i] = x])
    BY <1>1, EditIsSteady
  <2> QED
    BY <2>1 DEF npw_plugin_instance_ref, x
<1>3. CASE p[i] \notin {NONE, Freed}
  <2>1. p[i] \in PluginInstance
    BY <1>3 DEF Plugins
  <2>2. Steady(p, [p EXCEPT ![i] = y])
    BY <1>1, <2>1, EditIsSteady
  <2>3. Steady(p, [p EXCEPT ![i] = Freed])
    BY EditIsSteady, PluginTypes
  <2>4. npw_plugin_instance_unref(p, i) =
           IF p[i].refcount = 1 THEN [p EXCEPT ![i] = Freed] ELSE [p EXCEPT ![i] = y]
    BY <1>3 DEF npw_plugin_instance_unref, y
  <2> QED
    BY <1>2, <2>2, <2>3, <2>4
<1>4. CASE p[i] \in {NONE, Freed}
  <2>1. npw_plugin_instance_unref(p, i) = p
    BY <1>4 DEF npw_plugin_instance_unref
  <2>2. Steady(p, p)
    BY EditIsSteady, PluginTypes
  <2> QED
    BY <1>2, <2>1, <2>2
<1> QED
  BY <1>3, <1>4

LEMMA KeysKept ==
    ASSUME InstanceInvariant, KeyInvariant, up' => up, sources' \subseteq sources, Steady(plugin, plugin')
    PROVE  KeyInvariant'
<1> SUFFICES ASSUME up', NEW src \in sources', plugin'[src.i] \in PluginInstance
             PROVE  Keyed(plugin'[src.i], src.id)
  BY DEF KeyInvariant
<1> DEFINE x == plugin[src.i]  y == plugin'[src.i]
<1>1. src.i \in Instances /\ src.id \in Nat
  <2>1. src \in Source
    BY InvariantFacts, TypeFacts
  <2> QED
    BY <2>1 DEF Source
<1>2. /\ x \in PluginInstance /\ y \in PluginInstance /\ y.tables = x.tables
      /\ y.next_timer_id >= x.next_timer_id
  BY <1>1 DEF Steady
<1>3. Keyed(x, src.id)
  BY <1>2 DEF KeyInvariant
<1> HIDE DEF x, y
<1>4. x.next_timer_id \in Nat /\ y.next_timer_id \in Nat
  BY <1>2, MembersOfPlugin
<1>5. Keyed(y, src.id)
  BY <1>1, <1>2, <1>3, <1>4, PluginTypes DEF Keyed
<1> QED
  BY <1>5 DEF y

\* The steps that leave the instances and the sources alone.
LEMMA KeysOfQuiet ==
    ASSUME InstanceInvariant, KeyInvariant, UNCHANGED <<up, plugin, sources>>
    PROVE  KeyInvariant'
  BY DEF KeyInvariant

\* The steps that take or drop a reference.
LEMMA KeysOfCounts ==
    ASSUME InstanceInvariant, KeyInvariant, UNCHANGED up, sources' \subseteq sources, NEW i \in Instances,
           \/ UNCHANGED plugin
           \/ plugin' = npw_plugin_instance_unref(plugin, i)
           \/ plugin' = npw_plugin_instance_ref(plugin, i) /\ Exists(i)
    PROVE  KeyInvariant'
<1>1. plugin \in [Instances -> Plugins] /\ (Exists(i) => plugin[i] \in PluginInstance)
  BY InvariantFacts, TypeFacts, ExistsIs
<1>2. Steady(plugin, plugin)
  BY <1>1, EditIsSteady, PluginTypes
<1>3. Steady(plugin, plugin')
  BY <1>1, <1>2, CountIsSteady
<1> QED
  BY <1>3, KeysKept

\* An instance that is made has no sources yet.
LEMMA KeysOfNew ==
    ASSUME InstanceInvariant, KeyInvariant, NEW i \in Instances, NPP_New(i)
    PROVE  KeyInvariant'
<1>1. /\ up /\ npp[i] = "none" /\ plugin' = [plugin EXCEPT ![i] = npw_plugin_instance_new]
      /\ sources' = sources
  BY DEF NPP_New
<1>2. TypeOK /\ Alive /\ plugin \in [Instances -> Plugins] /\ async[i] \in Nat
      /\ sources \in SUBSET Source /\ IsFiniteSet(sources)
  BY <1>1, InvariantFacts, TypeFacts DEF TypeOK
<1>3. plugin[i] = NONE
  BY <1>1, <1>2 DEF Alive, Matched
<1>4. RefOf(plugin[i]) = 0 /\ One(plugin[i]) = 0
  BY <1>3, PluginTypes DEF RefOf, One, IsValid
<1>5. Held(stack, sources, async[i], i) = 0
  <2>1. RefOf(plugin[i]) = Held(stack, sources, async[i], i) + One(plugin[i])
    BY <1>2 DEF Alive, Counted
  <2>2. Held(stack, sources, async[i], i) \in Nat
    BY <1>2, HeldNow
  <2> QED
    BY <1>4, <2>1, <2>2
<1>6. /\ CountIf(stack, NpnOf(i)) \in Nat /\ CountIf(stack, EndedOf(i, sources)) \in Nat
      /\ Cardinality(SourcesOf(i, sources)) \in Nat /\ IsFiniteSet(SourcesOf(i, sources))
  BY <1>2, InvariantFacts, HeldType
<1>7. Cardinality(SourcesOf(i, sources)) = 0
  BY <1>2, <1>5, <1>6 DEF Held
<1>8. SourcesOf(i, sources) = {}
  BY <1>6, <1>7, FS_EmptySet
<1>9. \A src \in sources : src.i # i /\ src.i \in Instances
  BY <1>2, <1>8 DEF SourcesOf, Source
<1>10. \A j \in Instances : j # i => plugin'[j] = plugin[j]
  BY <1>1, <1>2
<1> QED
  BY <1>1, <1>9, <1>10 DEF KeyInvariant

\* When the tables are made, the keys of the sources are all beyond the ids.
LEMMA KeysOfNewReturn ==
    ASSUME InstanceInvariant, KeyInvariant, NEW ok \in BOOLEAN, NPP_New_return(ok)
    PROVE  KeyInvariant'
<1> DEFINE i == Caller.i  x == plugin[i]  y == plugin'[i]
<1>1. /\ up /\ up' = up /\ Caller.op = "NPP_New" /\ sources' = sources
      /\ plugin' = [plugin EXCEPT ![i].tables = TRUE, ![i].next_timer_id = 1]
  BY DEF NPP_New_return, PluginTurn
<1>2. i \in Instances /\ plugin \in [Instances -> Plugins] /\ sources \in SUBSET Source
  BY <1>1, InvariantFacts, TypeFacts, CallerIsLast
<1>3. x \in PluginInstance /\ x.tables = FALSE
  BY <1>1, TopCall DEF CallOk
<1>4. y.tables = TRUE
  BY <1>1, <1>2, <1>3 DEF PluginInstance
<1>5. \A j \in Instances : j # i => plugin'[j] = plugin[j]
  BY <1>1, <1>2
<1> HIDE DEF i, x, y
<1> SUFFICES ASSUME NEW src \in sources', plugin'[src.i] \in PluginInstance
             PROVE  Keyed(plugin'[src.i], src.id)
  BY DEF KeyInvariant
<1>6. src \in sources /\ src.i \in Instances /\ src.id \in Nat
  BY <1>1, <1>2 DEF Source
<1>7. CASE src.i = i
  <2>1. Keyed(x, src.id)
    BY <1>1, <1>3, <1>6, <1>7 DEF KeyInvariant, x
  <2>2. src.id >= MaxTimers
    BY <1>3, <2>1 DEF Keyed
  <2>3. Keyed(y, src.id)
    BY <1>4, <1>6, <2>2, PluginTypes DEF Keyed
  <2> QED
    BY <1>7, <2>3 DEF y
<1>8. CASE src.i # i
  BY <1>1, <1>5, <1>6, <1>8 DEF KeyInvariant
<1> QED
  BY <1>7, <1>8

LEMMA KeysOfDestroy ==
    ASSUME InstanceInvariant, KeyInvariant, NPP_Destroy_return
    PROVE  KeyInvariant'
<1> DEFINE i == Caller.i  q == npw_plugin_instance_invalidate(plugin, i)
           x == [plugin[i] EXCEPT !.is_valid = FALSE]
<1>1. /\ up /\ up' = up /\ Caller.op = "NPP_Destroy" /\ sources' = sources
      /\ plugin' = npw_plugin_instance_unref(q, i)
  BY DEF NPP_Destroy_return, PluginTurn
<1>2. i \in Instances /\ plugin \in [Instances -> Plugins] /\ Alive
  BY <1>1, InvariantFacts, TypeFacts, CallerIsLast
<1>3. plugin[i] \in PluginInstance
  <2>1. npp[i] = "live"
    BY <1>1, TopCall DEF CallOk
  <2> QED
    BY <1>2, <2>1 DEF Alive, Matched, IsValid
<1>4. /\ x \in PluginInstance /\ x.tables = plugin[i].tables
      /\ x.next_timer_id = plugin[i].next_timer_id
  BY <1>3 DEF PluginInstance
<1>5. q = [plugin EXCEPT ![i] = x]
  BY DEF npw_plugin_instance_invalidate
<1> HIDE DEF x, i, q
<1>6. q \in [Instances -> Plugins]
  BY <1>2, <1>4, <1>5 DEF Plugins
<1>7. Steady(plugin, q)
  <2>1. x.next_timer_id >= plugin[i].next_timer_id
    BY <1>3, <1>4, MembersOfPlugin
  <2> QED
    BY <1>2, <1>3, <1>4, <1>5, <2>1, EditIsSteady
<1>8. Steady(q, plugin')
  BY <1>1, <1>2, <1>6, CountIsSteady
<1>9. Steady(plugin, plugin')
  <2> SUFFICES ASSUME NEW j \in Instances, plugin'[j] \in PluginInstance
               PROVE  /\ plugin[j] \in PluginInstance /\ plugin'[j].tables = plugin[j].tables
                      /\ plugin'[j].next_timer_id >= plugin[j].next_timer_id
    BY DEF Steady
  <2> DEFINE a == plugin[j]  b == q[j]  c == plugin'[j]
  <2>1. b \in PluginInstance /\ c.tables = b.tables /\ c.next_timer_id >= b.next_timer_id
    BY <1>8 DEF Steady
  <2>2. a \in PluginInstance /\ b.tables = a.tables /\ b.next_timer_id >= a.next_timer_id
    BY <1>7, <2>1 DEF Steady
  <2>3. /\ a.next_timer_id \in Nat /\ b.next_timer_id \in Nat /\ c.next_timer_id \in Nat
    BY <2>1, <2>2, MembersOfPlugin
  <2> HIDE DEF a, b, c
  <2>4. a \in PluginInstance /\ c.tables = a.tables /\ c.next_timer_id >= a.next_timer_id
    BY <2>1, <2>2, <2>3
  <2> QED
    BY <2>4 DEF a, c
<1> QED
  BY <1>1, <1>9, KeysKept

\* A timer's key is used once its id is: the ids below the next are.
LEMMA KeysOfSchedule ==
    ASSUME InstanceInvariant, KeyInvariant, NEW i \in Instances, NEW repeat \in BOOLEAN,
           g_NPN_ScheduleTimer(i, repeat)
    PROVE  KeyInvariant'
<1> DEFINE x == plugin[i]  id == x.next_timer_id  y == plugin'[i]
           key == IF x.tables THEN id ELSE MaxTimers + id
           new == [i |-> i, id |-> key]
           r == [x EXCEPT !.refcount = @ + 1]
<1>1. /\ up /\ Exists(i) /\ up' = up /\ sources' = sources \cup {new}
      /\ plugin' = [npw_plugin_instance_ref(plugin, i) EXCEPT ![i].next_timer_id = @ + 1]
  BY DEF g_NPN_ScheduleTimer, PluginTurn
<1>2. x \in PluginInstance /\ plugin \in [Instances -> Plugins] /\ sources \in SUBSET Source
  BY <1>1, InvariantFacts, TypeFacts, ExistsIs
<1>3. id \in Nat /\ x.tables \in BOOLEAN /\ new.i = i /\ new.id = key
  BY <1>2, MembersOfPlugin
<1>4. /\ r.tables = x.tables /\ r.next_timer_id = id
      /\ [r EXCEPT !.next_timer_id = @ + 1].tables = x.tables
      /\ [r EXCEPT !.next_timer_id = @ + 1].next_timer_id = id + 1
  BY <1>2 DEF PluginInstance
<1>5. plugin' = [plugin EXCEPT ![i] = [r EXCEPT !.next_timer_id = @ + 1]]
  BY <1>1, <1>2 DEF npw_plugin_instance_ref
<1>6. /\ y.tables = x.tables /\ y.next_timer_id = id + 1
      /\ \A j \in Instances : j # i => plugin'[j] = plugin[j]
  BY <1>2, <1>4, <1>5
<1>7. Keyed(y, key)
  <2> HIDE DEF y, x
  <2> QED
    BY <1>3, <1>6, PluginTypes DEF Keyed
<1> HIDE DEF new, key, y, r
<1> SUFFICES ASSUME NEW src \in sources', plugin'[src.i] \in PluginInstance
             PROVE  Keyed(plugin'[src.i], src.id)
  BY DEF KeyInvariant
<1>8. CASE src = new
  BY <1>3, <1>7, <1>8 DEF y
<1>9. CASE src \in sources /\ src.i = i
  <2>1. Keyed(x, src.id) /\ src.id \in Nat
    BY <1>1, <1>2, <1>9 DEF KeyInvariant, Source
  <2> HIDE DEF x
  <2>2. Keyed(y, src.id)
    BY <1>3, <1>6, <2>1, PluginTypes DEF Keyed
  <2> QED
    BY <1>9, <2>2 DEF y
<1>10. CASE src \in sources /\ src.i # i
  <2>1. src.i \in Instances
    BY <1>2, <1>10 DEF Source
  <2> QED
    BY <1>1, <1>6, <1>10, <2>1 DEF KeyInvariant
<1> QED
  BY <1>1, <1>8, <1>9, <1>10

LEMMA KeysOfReturn ==
    ASSUME InstanceInvariant, KeyInvariant, Return PROVE KeyInvariant'
<1>1. Caller.op # "none" => Caller.i \in Instances
  BY InvariantFacts, CallerIsLast
<1>2. ASSUME NEW ok \in BOOLEAN, NPP_New_return(ok) \/ NPP_NewStream_return(ok) \/ NPN_NewStream_return(ok)
      PROVE  KeyInvariant'
  <2>1. CASE NPP_NewStream_return(ok)
    BY <2>1, KeysOfQuiet DEF NPP_NewStream_return, viewer
  <2>2. CASE NPN_NewStream_return(ok)
    BY <1>1, <2>2, KeysOfCounts DEF NPN_NewStream_return, Leave
  <2> QED
    BY <1>2, <2>1, <2>2, KeysOfNewReturn
<1>3. ASSUME NEW printed \in BOOLEAN, NPP_Print_return(printed) PROVE KeyInvariant'
  BY <1>3, KeysOfQuiet DEF NPP_Print_return, viewer
<1>4. CASE NPP_SetWindow_return \/ NPP_Write_return \/ NPP_DestroyStream_return \/ NPP_fails
  BY <1>4, KeysOfQuiet DEF NPP_SetWindow_return, NPP_Write_return, NPP_DestroyStream_return, NPP_fails, viewer
<1>5. CASE NPN_Write_return
  BY <1>1, <1>5, KeysOfCounts DEF NPN_Write_return, Leave
<1>6. CASE NPN_DestroyStream_return
  BY <1>1, <1>6, KeysOfCounts DEF NPN_DestroyStream_return, Leave
<1>7. CASE timer_data_run_return
  <2>1. /\ UNCHANGED up /\ sources' \subseteq sources /\ Caller.op = "timer"
        /\ UNCHANGED plugin \/ plugin' = npw_plugin_instance_unref(plugin, Caller.i)
    BY <1>7 DEF timer_data_run_return
  <2> QED
    BY <1>1, <2>1, KeysOfCounts
<1>8. CASE async_call_run_return
  BY <1>1, <1>8, KeysOfCounts DEF async_call_run_return, AsyncDone
<1> QED
  BY <1>2, <1>3, <1>4, <1>5, <1>6, <1>7, <1>8, KeysOfDestroy DEF Return

LEMMA KeysStep ==
    ASSUME InstanceInvariant, KeyInvariant, [Next]_vars PROVE KeyInvariant'
<1>1. CASE UNCHANGED vars
  BY <1>1, KeysOfQuiet DEF vars
<1>2. ASSUME NEW i \in Instances, NPP_New(i) \/ NPP_Destroy(i) \/ NPP_SetWindow(i) \/ NPP_Print(i)
      PROVE  KeyInvariant'
  <2>1. CASE NPP_Destroy(i) \/ NPP_SetWindow(i) \/ NPP_Print(i)
    BY <2>1, KeysOfQuiet DEF NPP_Destroy, NPP_SetWindow, NPP_Print, viewer
  <2> QED
    BY <1>2, <2>1, KeysOfNew
<1>3. ASSUME NEW i \in Instances, NEW s \in Streams,
             NPN_Write(i) \/ NPP_NewStream(i, s) \/ NPN_NewStream(i, s) \/ NPN_DestroyStream(i, s)
      PROVE  KeyInvariant'
  <2>1. CASE NPP_NewStream(i, s)
    BY <2>1, KeysOfQuiet DEF NPP_NewStream, viewer
  <2>2. CASE NPN_Write(i) \/ NPN_NewStream(i, s) \/ NPN_DestroyStream(i, s)
    BY <2>2, KeysOfCounts DEF NPN_Write, NPN_NewStream, NPN_DestroyStream, Enter
  <2> QED
    BY <1>3, <2>1, <2>2
<1>4. ASSUME NEW i \in Instances, NPN_Write(i) PROVE KeyInvariant'
  BY <1>4, KeysOfCounts DEF NPN_Write, Enter
<1>5. ASSUME NEW i \in Instances, NEW t \in timers[i], g_NPN_UnscheduleTimer(i, t) PROVE KeyInvariant'
  <2>1. /\ UNCHANGED up /\ sources' \subseteq sources
        /\ UNCHANGED plugin \/ plugin' = npw_plugin_instance_unref(plugin, i)
    BY <1>5 DEF g_NPN_UnscheduleTimer
  <2> QED
    BY <2>1, KeysOfCounts
<1>6. ASSUME NEW i \in Instances, g_NPN_PluginThreadAsyncCall(i) \/ async_call_run(i) PROVE KeyInvariant'
  BY <1>6, KeysOfCounts DEF g_NPN_PluginThreadAsyncCall, async_call_run, AsyncDone
<1>7. ASSUME NEW o \in NPObjects,
             \/ \E i \in Instances : g_NPN_CreateObject(i, o)
             \/ g_NPN_RetainObject(o) \/ g_NPN_ReleaseObject(o)
      PROVE  KeyInvariant'
  BY <1>7, KeysOfQuiet DEF g_NPN_CreateObject, g_NPN_RetainObject, g_NPN_ReleaseObject
<1>8. ASSUME NEW s \in Streams, NPP_Write(s) \/ NPP_DestroyStream(s) PROVE KeyInvariant'
  BY <1>8, KeysOfQuiet DEF NPP_Write, NPP_DestroyStream, viewer
<1>9. ASSUME NEW src \in sources, timer_data_run(src) PROVE KeyInvariant'
  <2>1. src.i \in Instances
    BY InvariantFacts, TypeFacts DEF Source
  <2>2. /\ UNCHANGED up /\ sources' \subseteq sources
        /\ UNCHANGED plugin \/ plugin' = npw_plugin_instance_unref(plugin, src.i)
    BY <1>9 DEF timer_data_run, viewer
  <2> QED
    BY <2>1, <2>2, KeysOfCounts
<1>10. CASE Die
  BY <1>10 DEF Die, KeyInvariant
<1> QED
  BY <1>1, <1>2, <1>3, <1>4, <1>5, <1>6, <1>7, <1>8, <1>9, <1>10, KeysOfReturn, KeysOfSchedule DEF Next

\* Whatever the browser, the plugin and the loss of the viewer do, the counts
\* of the PluginInstances, the state of the streams, the timers and the objects
\* stay what the functions of npw-wrapper.c and npw-viewer.c rely on.
THEOREM InstancesAreSound == Spec => []InstanceInvariant
<1>1. Init => InstanceInvariant /\ KeyInvariant
  BY InitHolds DEF Init, KeyInvariant
<1>2. InstanceInvariant /\ KeyInvariant /\ [Next]_vars => (InstanceInvariant /\ KeyInvariant)'
  BY StepHolds, KeysStep
<1> QED
  BY <1>1, <1>2, PTL DEF Spec

\* The reference count is the one that the calls, timers and asynchronous calls
\* account for, and freed memory is touched only where it is known to be
\* (npw_plugin_instance_ref, npw_plugin_instance_unref): for any number of
\* instances, streams and objects, and any depth of nested calls.
THEOREM MemoryAlwaysLive == Spec => []MemoryIsLive
<1>1. InstanceInvariant => MemoryIsLive
  <2> SUFFICES ASSUME InstanceInvariant PROVE MemoryIsLive
    OBVIOUS
  <2>1. fault \subseteq KnownFaults
    BY InvariantFacts
  <2>2. ASSUME NEW i \in Instances, Exists(i) PROVE plugin[i].refcount = References(i)
    <3>1. TypeOK /\ Alive
      <4>1. TypeOK /\ (up => Alive) /\ (~up => plugin[i] = NONE)
        BY InvariantFacts
      <4> QED
        BY <2>2, <4>1 DEF Exists
    <3>2. plugin[i] \in PluginInstance /\ (npw_plugin_instance_is_valid(i) <=> IsValid(plugin[i]))
      BY <2>2, <3>1, ExistsIs
    <3>3. plugin[i].refcount = Held(stack, sources, async[i], i) + One(plugin[i])
      BY <3>1, <3>2 DEF Alive, Counted, RefOf
    <3>4. \A k \in 1..Len(stack) : stack[k] \in Calls
      BY <3>1 DEF TypeOK
    <3>5. {k \in 1..Len(stack) : stack[k].op \in NPN /\ stack[k].i = i}
             = {k \in 1..Len(stack) : stack[k] \in NpnOf(i)}
      BY <3>4 DEF NpnOf
    <3>6. {k \in 1..Len(stack) : stack[k].op = "timer" /\ stack[k].i = i
                                    /\ [i |-> i, id |-> stack[k].s] \notin sources}
             = {k \in 1..Len(stack) : stack[k] \in EndedOf(i, sources)}
      BY <3>4 DEF EndedOf
    <3>7. References(i) =
             CountIf(stack, NpnOf(i)) + Cardinality(SourcesOf(i, sources))
               + CountIf(stack, EndedOf(i, sources)) + async[i] + One(plugin[i])
      BY <3>2, <3>5, <3>6 DEF References, CountIf, SourcesOf, One
    <3> QED
      BY <3>3, <3>7 DEF Held
  <2>3. ASSUME NEW i \in Instances, plugin[i] = Freed PROVE npp[i] = "dead"
    <3>1. Matched(npp, plugin, sources, async)
      <4>1. (up => Alive) /\ (~up => plugin[i] = NONE)
        BY InvariantFacts
      <4> QED
        BY <2>3, <4>1, PluginTypes DEF Alive
    <3>2. npp[i] \in {"none", "live", "dead"}
      BY InvariantFacts DEF TypeOK
    <3> QED
      BY <2>3, <3>1, <3>2, PluginTypes DEF Matched, IsValid
  <2> QED
    BY <2>1, <2>2, <2>3 DEF MemoryIsLive
<1> QED
  BY <1>1, InstancesAreSound, PTL

\* Outside the calls that close it, an open stream is known to the wrapper and
\* the viewer, and nothing is left of a closed one (id_create, id_link,
\* id_remove), for any number of streams and any nesting of calls.
THEOREM StreamsAlwaysAgree == Spec => []StreamsAgree
<1>1. InstanceInvariant => StreamsAgree
  <2> SUFFICES ASSUME InstanceInvariant, NEW s \in Streams, stream[s] # NONE,
                      ~About({"NPP_DestroyStream", "NPN_DestroyStream"}, s)
               PROVE  /\ stream[s].browser = "open" => stream[s].wdata /\ (up => stream[s].vdata = "live")
                      /\ stream[s].browser = "gone" /\ ~stream[s].refused
                            => ~stream[s].wdata /\ stream[s].vdata # "live"
    BY DEF StreamsAgree
  <2> DEFINE x == stream[s]
  <2>1. x \in StreamInstance /\ StreamOk(x, up, Busy(stack, s)) /\ up \in BOOLEAN
    BY InvariantFacts DEF StreamsOk
  <2>2. ~Busy(stack, s)
    BY DEF About, Busy
  <2>3. /\ x.by \in {"browser", "plugin"} /\ x.refused \in BOOLEAN /\ x.wdata \in BOOLEAN
    BY <2>1 DEF StreamInstance
  <2> HIDE DEF x
  <2>4. /\ x.browser = "open" => x.wdata = TRUE /\ (up = TRUE => x.vdata = "live")
        /\ x.browser = "gone" /\ x.refused = FALSE => x.wdata = FALSE /\ x.vdata # "live"
    BY <2>1, <2>2, <2>3 DEF StreamOk
  <2> QED
    BY <2>1, <2>3, <2>4 DEF x
<1> QED
  BY <1>1, InstancesAreSound, PTL

\* A source that the main loop comes to on its own, with nothing under way, is
\* that of an instance the browser still has.
LEMMA CallbackIsTimely ==
    ASSUME InstanceInvariant, up, NEW i \in Instances, npw_plugin_instance_is_valid(i),
           async[i] > 0 \/ \E src \in sources : src.i = i
    PROVE  npp[i] = "live"
<1>1. TypeOK /\ Alive /\ npp[i] \in {"none", "live", "dead"} /\ async[i] \in Nat
  BY InvariantFacts DEF TypeOK
<1>2. IsValid(plugin[i]) /\ plugin[i] # NONE
  BY <1>1, ExistsIs, PluginTypes DEF IsValid
<1>3. /\ (npp[i] = "none") <=> (plugin[i] = NONE)
      /\ npp[i] = "dead" => async[i] = 0 /\ SourcesOf(i, sources) = {}
  BY <1>1, <1>2 DEF Alive, Matched
<1>4. async[i] # 0 \/ SourcesOf(i, sources) # {}
  BY <1>1 DEF SourcesOf
<1> QED
  BY <1>1, <1>2, <1>3, <1>4

\* What another step can do to an empty stack: leave it, or push a call that is
\* not the main loop's.
Other(stk) == \/ stk = <<>>
              \/ \E c \in Calls : stk = Append(<<>>, c) /\ c.op \notin {"timer", "async"}

LEMMA OneCall ==
    ASSUME NEW c
    PROVE  Append(<<>>, c)[1] = c /\ Append(<<>>, c) # <<>>
  OBVIOUS

LEMMA OtherCalls ==
    ASSUME NEW op \in NPN \cup NPP, NEW i \in Instances, NEW s \in Streams \cup {NONE},
           Push(Call(op, i, s)), stack = <<>>
    PROVE  Other(stack')
<1>1. Call(op, i, s) \in Calls /\ Call(op, i, s).op \notin {"timer", "async"}
  BY DEF Call, Calls, NPN, NPP
<1> QED
  BY <1>1 DEF Other, Push

\* A return has a call to return from.
LEMMA NoReturn ==
    ASSUME stack = <<>>, Return PROVE FALSE
<1>1. Caller.op = "none"
  BY DEF Caller, Call
<1>2. ASSUME NEW ok \in BOOLEAN, NPP_New_return(ok) \/ NPP_NewStream_return(ok) \/ NPN_NewStream_return(ok)
      PROVE  FALSE
  BY <1>1, <1>2 DEF NPP_New_return, NPP_NewStream_return, NPN_NewStream_return
<1>6. ASSUME NEW printed \in BOOLEAN, NPP_Print_return(printed) PROVE FALSE
  BY <1>1, <1>6 DEF NPP_Print_return
<1>3. CASE NPP_Destroy_return \/ NPP_SetWindow_return \/ NPP_Write_return \/ NPP_DestroyStream_return
  BY <1>1, <1>3 DEF NPP_Destroy_return, NPP_SetWindow_return, NPP_Write_return, NPP_DestroyStream_return
<1>4. CASE NPN_Write_return \/ NPN_DestroyStream_return
  BY <1>1, <1>4 DEF NPN_Write_return, NPN_DestroyStream_return
<1>5. CASE timer_data_run_return \/ async_call_run_return \/ NPP_fails
  BY <1>1, <1>5 DEF timer_data_run_return, async_call_run_return, NPP_fails, NPP
<1> QED
  BY <1>2, <1>3, <1>4, <1>5, <1>6 DEF Return

LEMMA LoopCalls ==
    ASSUME InstanceInvariant, [Next]_vars, stack = <<>>, ~Other(stack')
    PROVE  \/ \E i \in Instances : async_call_run(i)
           \/ \E src \in sources : timer_data_run(src)
<1>1. ASSUME stack' = stack PROVE FALSE
  BY <1>1 DEF Other
<1>2. stack' # stack
  BY <1>1
<1>3. ~UNCHANGED vars
  BY <1>2 DEF vars
<1>4. ASSUME NEW i \in Instances, NPP_New(i) \/ NPP_Destroy(i) \/ NPP_SetWindow(i) \/ NPP_Print(i) \/ NPN_Write(i)
      PROVE  FALSE
  <2>1. \/ Push(Call("NPP_New", i, NONE)) \/ Push(Call("NPP_Destroy", i, NONE))
        \/ Push(Call("NPP_SetWindow", i, NONE)) \/ Push(Call("NPP_Print", i, NONE))
        \/ Push(Call("NPN_Write", i, NONE))
    BY <1>2, <1>4 DEF NPP_New, NPP_Destroy, NPP_SetWindow, NPP_Print, NPN_Write, Enter
  <2> QED
    BY <2>1, OtherCalls DEF NPN, NPP
<1>5. ASSUME NEW i \in Instances, NEW s \in Streams,
             NPP_NewStream(i, s) \/ NPN_NewStream(i, s) \/ NPN_DestroyStream(i, s)
      PROVE  FALSE
  <2>1. \/ Push(Call("NPP_NewStream", i, s)) \/ Push(Call("NPN_NewStream", i, s))
        \/ Push(Call("NPN_DestroyStream", i, s))
    BY <1>5 DEF NPP_NewStream, NPN_NewStream, NPN_DestroyStream, Enter
  <2> QED
    BY <2>1, OtherCalls DEF NPN, NPP
<1>6. ASSUME NEW i \in Instances,
             \/ \E repeat \in BOOLEAN : g_NPN_ScheduleTimer(i, repeat)
             \/ \E t \in timers[i] : g_NPN_UnscheduleTimer(i, t)
             \/ g_NPN_PluginThreadAsyncCall(i)
             \/ \E o \in NPObjects : g_NPN_CreateObject(i, o)
      PROVE  FALSE
  BY <1>2, <1>6 DEF g_NPN_ScheduleTimer, g_NPN_UnscheduleTimer, g_NPN_PluginThreadAsyncCall, g_NPN_CreateObject
<1>7. ASSUME \E o \in NPObjects : g_NPN_RetainObject(o) \/ g_NPN_ReleaseObject(o) PROVE FALSE
  BY <1>2, <1>7 DEF g_NPN_RetainObject, g_NPN_ReleaseObject
<1>8. ASSUME NEW s \in Streams, NPP_Write(s) \/ NPP_DestroyStream(s) PROVE FALSE
  <2>1. /\ stream[s] # NONE
        /\ \/ Push(Call("NPP_Write", stream[s].i, s)) \/ Push(Call("NPP_DestroyStream", stream[s].i, s))
    BY <1>2, <1>8 DEF NPP_Write, NPP_DestroyStream, Usable
  <2>2. stream[s].i \in Instances
    BY <2>1, InvariantFacts DEF StreamInstance
  <2> QED
    BY <2>1, <2>2, OtherCalls DEF NPN, NPP
<1>9. ASSUME Die PROVE FALSE
  BY <1>2, <1>9 DEF Die
<1> QED
  BY <1>3, <1>4, <1>5, <1>6, <1>7, <1>8, <1>9, NoReturn DEF Next

\* A timer or an asynchronous call that comes up after the browser has
\* destroyed the instance does not call the plugin (timer_data_run,
\* async_call_run).
THEOREM NeverCalledLate == Spec => NoLateCallback
<1> DEFINE Timely(i) == Len(stack') = 1 /\ stack = <<>> /\ stack'[1].op \in {"timer", "async"} /\ stack'[1].i = i
                            => npp[i] = "live"
<1>1. InstanceInvariant /\ [Next]_vars => [\A i \in Instances : Timely(i)]_vars
  <2> SUFFICES ASSUME InstanceInvariant, [Next]_vars, NEW i \in Instances,
                      Len(stack') = 1, stack = <<>>, stack'[1].op \in {"timer", "async"}, stack'[1].i = i
               PROVE  npp[i] = "live"
    OBVIOUS
  <2>1. ~Other(stack')
    <3>1. stack' # <<>>
      OBVIOUS
    <3>2. ASSUME NEW c \in Calls, stack' = Append(<<>>, c), c.op \notin {"timer", "async"} PROVE FALSE
      <4>1. stack'[1] = c
        BY <3>2, OneCall
      <4> QED
        BY <3>2, <4>1
    <3> QED
      BY <3>1, <3>2, Zenon DEF Other
  <2>2. CASE \E j \in Instances : async_call_run(j)
    <3>1. PICK j \in Instances : async_call_run(j)
      BY <2>2
    <3>2. up /\ async[j] > 0 /\ (stack' = stack \/ (npw_plugin_instance_is_valid(j) /\ Push(Call("async", j, NONE))))
      BY <3>1 DEF async_call_run
    <3>3. npw_plugin_instance_is_valid(j) /\ stack' = Append(<<>>, Call("async", j, NONE))
      BY <3>2 DEF Push
    <3>4. j = i
      BY <3>3, OneCall DEF Call
    <3> QED
      BY <3>2, <3>3, <3>4, CallbackIsTimely
  <2>3. CASE \E src \in sources : timer_data_run(src)
    <3>1. PICK src \in sources : timer_data_run(src)
      BY <2>3
    <3>2. up /\ (stack' = stack \/ (npw_plugin_instance_is_valid(src.i) /\ Push(Call("timer", src.i, src.id))))
      BY <3>1 DEF timer_data_run, RunsTimer
    <3>3. npw_plugin_instance_is_valid(src.i) /\ stack' = Append(<<>>, Call("timer", src.i, src.id))
      BY <3>2 DEF Push
    <3>4. src.i = i
      BY <3>3, OneCall DEF Call
    <3> QED
      BY <3>2, <3>3, <3>4, CallbackIsTimely
  <2> QED
    BY <2>1, <2>2, <2>3, LoopCalls
<1> QED
  BY <1>1, InstancesAreSound, PTL DEF Spec, NoLateCallback

=============================================================================
