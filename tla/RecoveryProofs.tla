--------------------------- MODULE RecoveryProofs ---------------------------
(* Proofs about Recovery, for any number of connections and instances; about *)
(* ViewerInfo, for any strings and any size of line; and about Installer,    *)
(* for any plugins, viewers and runs of the tool.                            *)
EXTENDS Recovery, ViewerInfo, Installer, DataFacts, TLAPS

-----------------------------------------------------------------------------
(***************************************************************************)
(* The inductive invariant, on values pl, np and st of plugin, npp, stack. *)
(***************************************************************************)
\* A callback is on a frame that waits, and the calls on an instance name it.
FramesInOrder(st) ==
    \A k \in 1..Len(st) :
        /\ st[k].kind = "handle" => k > 1 /\ st[k - 1].kind \in Waits
        /\ st[k].kind \in {"new", "call", "destroy"} => st[k].instance \in Instances

\* Until NP_Initialize has returned there are its frame and what runs above it.
BeforeUse(pl, np, st) ==
    /\ \A i \in Instances : np[i] = NoConnection
    /\ st = <<>> => ~pl.plugin_killed /\ pl.g_rpc_source = NoConnection
    /\ \A k \in 1..Len(st) :
        /\ st[k].kind \in {"initialize", "handle", "sync"}
        /\ st[k].kind = "initialize" <=> k = 1
        /\ st[k].instance = NoInstance

Used(pl, np, st, c) ==
    \/ pl.g_rpc_connection = c \/ pl.g_rpc_source = c
    \/ \E i \in Instances : np[i] = c
    \/ \E k \in 1..Len(st) : st[k].connection = c

\* The viewer that exists is the one in viewer_pid, which is cleared before a
\* new one is forked; and the one that anything still uses is the master's.
KnownViewer(pl, np, st) ==
    /\ pl.viewers \subseteq {pl.viewer_pid}
    /\ pl.initialized \in {0, 1} => pl.viewer_pid = NoConnection
    /\ pl.plugin_killed => pl.viewer_pid = NoConnection
    /\ \A c \in pl.viewers : Used(pl, np, st, c) => pl.g_rpc_connection = c

\* The instances on a connection, and the reference of g_rpc_connection.
On(np, c) == {i \in Instances : np[i] = c}
Master(pl, c) == IF pl.g_rpc_connection = c THEN 1 ELSE 0

\* A connection in use has the references of its instances, of the master
\* connection and of the two sources.
RefsCover(pl, np, st) ==
    \A c \in Connections :
        /\ IsFiniteSet(On(np, c))
        /\ Used(pl, np, st, c) => pl.refcnt[c] >= 2 + Cardinality(On(np, c)) + Master(pl, c)

RecoveryInvariant ==
    /\ TypeOK
    /\ FramesInOrder(stack)
    /\ phase = "loaded" => BeforeUse(plugin, npp, stack)
    /\ phase = "unloaded" => plugin.viewers = {}
    /\ KnownViewer(plugin, npp, stack)
    /\ RefsCover(plugin, npp, stack)

-----------------------------------------------------------------------------
(* What the functions of npw-wrapper.c do to the parts of the invariant.     *)

NPPs == [Instances -> Connections \cup {NoConnection}]

\* The state of the wrapper keeps its types, its viewer and its references.
Sound(pl, np, st) ==
    /\ pl \in Statics /\ np \in NPPs /\ st \in Seq(Frame)
    /\ KnownViewer(pl, np, st) /\ RefsCover(pl, np, st)

\* t is what is left of st when frames are popped.
PoppedTo(t, st) ==
    t \in Seq(Frame) /\ Len(t) <= Len(st) /\ \A k \in 1..Len(t) : t[k] = st[k]

LEMMA LenType == ASSUME NEW S, NEW s \in Seq(S) PROVE Len(s) \in Nat
  OBVIOUS

LEMMA CountType ==
    ASSUME NEW pl, NEW np, NEW st, RefsCover(pl, np, st), NEW c \in Connections
    PROVE  Cardinality(On(np, c)) \in Nat
  BY FS_CardinalityType DEF RefsCover

LEMMA PopSound ==
    ASSUME NEW pl, NEW np, NEW st, NEW t, Sound(pl, np, st), PoppedTo(t, st)
    PROVE  /\ Sound(pl, np, t)
           /\ FramesInOrder(st) => FramesInOrder(t)
           /\ \A c : Used(pl, np, t, c) => Used(pl, np, st, c)
<1>0. Len(t) \in Nat /\ Len(st) \in Nat
  BY LenType DEF PoppedTo, Sound
<1>1. \A c : Used(pl, np, t, c) => Used(pl, np, st, c)
  BY <1>0 DEF Used, PoppedTo
<1>2. FramesInOrder(st) => FramesInOrder(t)
  BY <1>0 DEF FramesInOrder, PoppedTo
<1>3. KnownViewer(pl, np, t)
  BY <1>1 DEF Sound, KnownViewer
<1>4. RefsCover(pl, np, t)
  BY <1>1 DEF Sound, RefsCover
<1> QED
  BY <1>1, <1>2, <1>3, <1>4 DEF Sound, PoppedTo

LEMMA PushSound ==
    ASSUME NEW pl, NEW np, NEW st, Sound(pl, np, st), NEW f \in Frame,
           Used(pl, np, st, f.connection)
    PROVE  Sound(pl, np, Append(st, f))
<1>1. \A c : Used(pl, np, Append(st, f), c) => Used(pl, np, st, c)
  BY AppendProps DEF Used, Sound
<1>2. Append(st, f) \in Seq(Frame)
  BY AppendProps DEF Sound
<1> QED
  BY <1>1, <1>2 DEF Sound, KnownViewer, RefsCover

LEMMA PushOrder ==
    ASSUME NEW st \in Seq(Frame), NEW f \in Frame, FramesInOrder(st),
           f.kind = "handle" => st # <<>> /\ Last(st).kind \in Waits,
           f.kind \in {"new", "call", "destroy"} => f.instance \in Instances
    PROVE  FramesInOrder(Append(st, f))
<1>1. Len(st) \in Nat
  BY LenType
<1>2. st # <<>> => Len(st) > 0 /\ Last(st) = st[Len(st)]
  BY FrontProps
<1>3. /\ Len(Append(st, f)) = Len(st) + 1
      /\ \A i \in 1..Len(st) : Append(st, f)[i] = st[i]
      /\ Append(st, f)[Len(st) + 1] = f
  BY AppendProps
<1> SUFFICES ASSUME NEW k \in 1..(Len(st) + 1)
             PROVE  LET s == Append(st, f)
                    IN  /\ s[k].kind = "handle" => k > 1 /\ s[k - 1].kind \in Waits
                        /\ s[k].kind \in {"new", "call", "destroy"} => s[k].instance \in Instances
  BY <1>3 DEF FramesInOrder
<1>4. CASE k \in 1..Len(st)
  BY <1>1, <1>3, <1>4 DEF FramesInOrder
<1>5. CASE k = Len(st) + 1
  BY <1>1, <1>2, <1>3, <1>5
<1> QED
  BY <1>1, <1>4, <1>5

LEMMA UnrefIsFunction ==
    ASSUME NEW r \in [Connections -> Nat], NEW c
    PROVE  /\ DOMAIN Unref(r, c) = Connections
           /\ Unref(r, c) = [d \in Connections |-> Unref(r, c)[d]]
           /\ \A d \in Connections : Unref(r, c)[d] = IF c # NoConnection /\ c = d THEN r[d] - 1 ELSE r[d]
<1>1. CASE c = NoConnection
  BY <1>1 DEF Unref
<1>2. CASE c # NoConnection
  BY <1>2 DEF Unref
<1> QED
  BY <1>1, <1>2

\* plugin_exit: the references are still enough, and no viewer is left.
LEMMA ExitSound ==
    ASSUME NEW pl, NEW np, NEW st, Sound(pl, np, st)
    PROVE  /\ Sound(PluginExit(pl), np, st)
           /\ PluginExit(pl).viewers = {}
           /\ PluginExit(pl).viewer_pid = NoConnection
           /\ PluginExit(pl).plugin_killed = pl.plugin_killed
           /\ PluginExit(pl).g_rpc_connection = NoConnection
           /\ PluginExit(pl).g_rpc_source = NoConnection
           /\ \A c \in Connections : /\ Used(PluginExit(pl), np, st, c) => Used(pl, np, st, c)
                                     /\ PluginExit(pl).refcnt[c] = pl.refcnt[c] - Master(pl, c)
<1> DEFINE s == PluginExit(pl)
<1>0. pl \in Statics /\ np \in NPPs /\ st \in Seq(Frame)
  BY DEF Sound
<1>1. /\ s.viewers = pl.viewers \ {pl.viewer_pid}
      /\ s.viewer_pid = NoConnection
      /\ s.plugin_killed = pl.plugin_killed
      /\ s.g_rpc_connection = NoConnection
      /\ s.g_rpc_source = NoConnection
      /\ s.refcnt = Unref(pl.refcnt, pl.g_rpc_connection)
      /\ s.initialized = 0
      /\ s.cached = pl.cached
  BY <1>0 DEF PluginExit, Statics
<1>2. s.viewers = {}
  BY <1>1 DEF Sound, KnownViewer
<1>3. ASSUME NEW c \in Connections
      PROVE  s.refcnt[c] = pl.refcnt[c] - Master(pl, c)
  BY <1>0, <1>1, ConstantsAssumption DEF Unref, Master, Statics
<1>4. ASSUME NEW c \in Connections PROVE s.refcnt[c] \in Nat
  <2>1. pl.refcnt[c] \in Nat
    BY <1>0 DEF Statics
  <2>2. CASE pl.g_rpc_connection = c
    <3>1. pl.refcnt[c] >= 2 + Cardinality(On(np, c)) + 1
      BY <2>2 DEF Sound, RefsCover, Used, Master
    <3> QED
      BY <1>3, <2>1, <2>2, <3>1, CountType DEF Master, Sound
  <2>3. CASE pl.g_rpc_connection # c
    BY <1>3, <2>1, <2>3 DEF Master
  <2> QED
    BY <2>2, <2>3
<1>5. s.refcnt \in [Connections -> Nat]
  <2>1. DOMAIN s.refcnt = Connections /\ s.refcnt = [c \in Connections |-> s.refcnt[c]]
    BY <1>0, <1>1, UnrefIsFunction DEF Statics
  <2> HIDE DEF s
  <2> QED
    BY <1>4, <2>1
<1>6. s \in Statics
  <2> DEFINE r == Unref(pl.refcnt, pl.g_rpc_connection)
             v == pl.viewers \ {pl.viewer_pid}
  <2>1. r \in [Connections -> Nat] /\ v \in SUBSET Connections
    BY <1>0, <1>1, <1>5 DEF Statics
  <2>2. s = [pl EXCEPT !.g_rpc_source = NoConnection, !.refcnt = r,
                       !.g_rpc_connection = NoConnection, !.viewers = v,
                       !.viewer_pid = NoConnection, !.initialized = 0]
    BY DEF PluginExit
  <2>3. 0 \in -1..2
    OBVIOUS
  <2> HIDE DEF s, r, v
  <2> QED
    BY <1>0, <2>1, <2>2, <2>3 DEF Statics
<1>7. \A c \in Connections : Used(s, np, st, c) => Used(pl, np, st, c)
  <2> HIDE DEF s
  <2> QED
    BY <1>1, ConstantsAssumption DEF Used
<1>8. KnownViewer(s, np, st)
  <2> HIDE DEF s
  <2> QED
    BY <1>1, <1>2 DEF KnownViewer
<1>9. RefsCover(s, np, st)
  <2> SUFFICES ASSUME NEW c \in Connections, Used(s, np, st, c)
               PROVE  s.refcnt[c] >= 2 + Cardinality(On(np, c)) + Master(s, c)
    BY DEF RefsCover, Sound
  <2>1. pl.refcnt[c] >= 2 + Cardinality(On(np, c)) + Master(pl, c)
    BY <1>7 DEF Sound, RefsCover
  <2>2. pl.refcnt[c] \in Nat /\ Cardinality(On(np, c)) \in Nat
    BY <1>0, CountType DEF Statics, Sound
  <2>3. Master(s, c) = 0 /\ Master(pl, c) \in {0, 1}
    BY <1>1, ConstantsAssumption DEF Master
  <2> HIDE DEF s
  <2> QED
    BY <1>3, <2>1, <2>2, <2>3
<1> QED
  BY <1>1, <1>2, <1>3, <1>6, <1>7, <1>8, <1>9 DEF Sound

\* Whether the viewer was killed may be noted once viewer_pid is cleared.
LEMMA NoteKilled ==
    ASSUME NEW pl, NEW np, NEW st, Sound(pl, np, st), NEW v \in BOOLEAN,
           v => pl.viewer_pid = NoConnection
    PROVE  LET s == [pl EXCEPT !.plugin_killed = v]
           IN  /\ Sound(s, np, st)
               /\ s.viewers = pl.viewers
               /\ s.viewer_pid = pl.viewer_pid
               /\ s.plugin_killed = v
               /\ s.g_rpc_connection = pl.g_rpc_connection
               /\ s.g_rpc_source = pl.g_rpc_source
               /\ s.refcnt = pl.refcnt
               /\ s.initialized = pl.initialized
<1> DEFINE s == [pl EXCEPT !.plugin_killed = v]
<1>1. pl \in Statics
  BY DEF Sound
<1>2. /\ s \in Statics
      /\ s.viewers = pl.viewers
      /\ s.viewer_pid = pl.viewer_pid
      /\ s.plugin_killed = v
      /\ s.g_rpc_connection = pl.g_rpc_connection
      /\ s.g_rpc_source = pl.g_rpc_source
      /\ s.refcnt = pl.refcnt
      /\ s.initialized = pl.initialized
  BY <1>1 DEF Statics
<1> HIDE DEF s
<1>3. \A c : Used(s, np, st, c) = Used(pl, np, st, c) /\ Master(s, c) = Master(pl, c)
  BY <1>2 DEF Used, Master
<1>4. KnownViewer(s, np, st)
  BY <1>2, <1>3 DEF Sound, KnownViewer
<1>5. RefsCover(s, np, st)
  BY <1>2, <1>3 DEF Sound, RefsCover
<1>6. Sound(s, np, st)
  BY <1>2, <1>4, <1>5 DEF Sound
<1> QED
  BY <1>2, <1>6 DEF s

LEMMA KillSound ==
    ASSUME NEW pl, NEW np, NEW st, Sound(pl, np, st)
    PROVE  /\ Sound(PluginKill(pl), np, st)
           /\ PluginKill(pl).viewers = {}
           /\ PluginKill(pl).viewer_pid = NoConnection
           /\ PluginKill(pl).g_rpc_connection = NoConnection
           /\ PluginKill(pl).g_rpc_source = NoConnection
           /\ \A c \in Connections : PluginKill(pl).refcnt[c] = pl.refcnt[c] - Master(pl, c)
<1> DEFINE e == PluginExit(pl)
<1>1. /\ Sound(e, np, st) /\ e.viewers = {} /\ e.viewer_pid = NoConnection
      /\ e.g_rpc_connection = NoConnection /\ e.g_rpc_source = NoConnection
      /\ \A c \in Connections : e.refcnt[c] = pl.refcnt[c] - Master(pl, c)
  BY ExitSound
<1> HIDE DEF e
<1>2. PluginKill(pl) = [e EXCEPT !.plugin_killed = TRUE]
  BY DEF PluginKill, e
<1>3. /\ Sound([e EXCEPT !.plugin_killed = TRUE], np, st)
      /\ [e EXCEPT !.plugin_killed = TRUE].viewers = e.viewers
      /\ [e EXCEPT !.plugin_killed = TRUE].viewer_pid = e.viewer_pid
      /\ [e EXCEPT !.plugin_killed = TRUE].g_rpc_connection = e.g_rpc_connection
      /\ [e EXCEPT !.plugin_killed = TRUE].g_rpc_source = e.g_rpc_source
      /\ [e EXCEPT !.plugin_killed = TRUE].refcnt = e.refcnt
  BY <1>1, NoteKilled
<1> QED
  BY <1>1, <1>2, <1>3

\* plugin_start: the viewer before is gone when plugin_init is called.
LEMMA StopSound ==
    ASSUME NEW pl, NEW np, NEW st, Sound(pl, np, st)
    PROVE  /\ Sound(PluginStop(pl), np, st)
           /\ PluginStop(pl).viewers = {}
           /\ PluginStop(pl).viewer_pid = NoConnection
           /\ ~PluginStop(pl).plugin_killed
           /\ \A c \in Connections : PluginStop(pl).refcnt[c] \in {pl.refcnt[c], pl.refcnt[c] - Master(pl, c)}
<1> DEFINE e == IF pl.plugin_killed THEN pl ELSE PluginKill(pl)
<1>1. pl \in Statics /\ pl.viewers \subseteq Connections
  BY DEF Sound, Statics
<1>2. /\ Sound(e, np, st) /\ e.viewers = {} /\ e.viewer_pid = NoConnection
      /\ \A c \in Connections : e.refcnt[c] \in {pl.refcnt[c], pl.refcnt[c] - Master(pl, c)}
  <2>1. CASE pl.plugin_killed
    <3>1. pl.viewer_pid = NoConnection /\ pl.viewers \subseteq {NoConnection}
      BY <2>1 DEF Sound, KnownViewer
    <3>2. pl.viewers = {}
      BY <1>1, <3>1, ConstantsAssumption
    <3> QED
      BY <2>1, <3>1, <3>2
  <2>2. CASE ~pl.plugin_killed
    BY <2>2, KillSound
  <2> QED
    BY <2>1, <2>2
<1>3. PluginStop(pl) = [e EXCEPT !.plugin_killed = FALSE]
  BY DEF PluginStop
<1> HIDE DEF e
<1>4. /\ Sound([e EXCEPT !.plugin_killed = FALSE], np, st)
      /\ [e EXCEPT !.plugin_killed = FALSE].viewers = e.viewers
      /\ [e EXCEPT !.plugin_killed = FALSE].viewer_pid = e.viewer_pid
      /\ [e EXCEPT !.plugin_killed = FALSE].plugin_killed = FALSE
      /\ [e EXCEPT !.plugin_killed = FALSE].refcnt = e.refcnt
  BY <1>2, NoteKilled
<1> QED
  BY <1>2, <1>3, <1>4

\* Instance i, and no other, changes its connection.
Moves(np, m, i) == np \in NPPs /\ m \in NPPs /\ \A j \in Instances \ {i} : m[j] = np[j]

LEMMA CountAfterAdd ==
    ASSUME NEW np, NEW m, NEW i \in Instances, NEW c \in Connections,
           Moves(np, m, i), m[i] = c, IsFiniteSet(On(np, c))
    PROVE  /\ IsFiniteSet(On(m, c))
           /\ Cardinality(On(m, c)) \in Nat /\ Cardinality(On(np, c)) \in Nat
           /\ Cardinality(On(m, c)) <= Cardinality(On(np, c)) + 1
<1>1. On(m, c) = On(np, c) \cup {i}
  BY DEF On, Moves
<1>2. /\ IsFiniteSet(On(np, c) \cup {i})
      /\ Cardinality(On(np, c) \cup {i}) \in {Cardinality(On(np, c)), Cardinality(On(np, c)) + 1}
      /\ Cardinality(On(np, c)) \in Nat
  BY FS_AddElement, FS_CardinalityType
<1> QED
  BY <1>1, <1>2

\* An instance leaves the connection it was on.
LEMMA CountAfterRemove ==
    ASSUME NEW np, NEW m, NEW i \in Instances, NEW c \in Connections,
           Moves(np, m, i), m[i] # c, IsFiniteSet(On(np, c))
    PROVE  /\ IsFiniteSet(On(m, c))
           /\ Cardinality(On(m, c)) \in Nat /\ Cardinality(On(np, c)) \in Nat
           /\ Cardinality(On(m, c))
                = IF np[i] = c THEN Cardinality(On(np, c)) - 1 ELSE Cardinality(On(np, c))
<1>1. On(m, c) = On(np, c) \ {i} /\ (i \in On(np, c) <=> np[i] = c)
  BY DEF On, Moves
<1>2. /\ IsFiniteSet(On(np, c) \ {i})
      /\ Cardinality(On(np, c) \ {i})
            = IF i \in On(np, c) THEN Cardinality(On(np, c)) - 1 ELSE Cardinality(On(np, c))
  BY FS_RemoveElement
<1>3. Cardinality(On(np, c)) \in Nat /\ Cardinality(On(np, c) \ {i}) \in Nat
  BY <1>2, FS_CardinalityType
<1> QED
  BY <1>1, <1>2, <1>3

\* g_NPP_New: the new instance brings the reference that covers it.
LEMMA NewSound ==
    ASSUME NEW pl, NEW np, NEW st, Sound(pl, np, st), NEW i \in Instances,
           NEW c \in Connections, pl.g_rpc_connection = c
    PROVE  LET s == [pl EXCEPT !.refcnt[c] = @ + 1]
               m == [np EXCEPT ![i] = c]
           IN  /\ Sound(s, m, st)
               /\ s.g_rpc_connection = c
               /\ s.viewers = pl.viewers
               /\ \A d \in Connections : s.refcnt[d] >= pl.refcnt[d]
<1> DEFINE s == [pl EXCEPT !.refcnt[c] = @ + 1]
           m == [np EXCEPT ![i] = c]
<1>1. pl \in Statics /\ np \in NPPs /\ st \in Seq(Frame)
  BY DEF Sound
<1>2. /\ s \in Statics
      /\ s.viewers = pl.viewers
      /\ s.viewer_pid = pl.viewer_pid
      /\ s.plugin_killed = pl.plugin_killed
      /\ s.g_rpc_connection = c
      /\ s.g_rpc_source = pl.g_rpc_source
      /\ s.initialized = pl.initialized
      /\ s.refcnt[c] = pl.refcnt[c] + 1
      /\ \A d \in Connections \ {c} : s.refcnt[d] = pl.refcnt[d]
  <2> DEFINE r == [pl.refcnt EXCEPT ![c] = @ + 1]
  <2>1. /\ r \in [Connections -> Nat]
        /\ r[c] = pl.refcnt[c] + 1
        /\ \A d \in Connections \ {c} : r[d] = pl.refcnt[d]
    BY <1>1 DEF Statics
  <2>2. s = [pl EXCEPT !.refcnt = r]
    BY <1>1 DEF Statics
  <2> HIDE DEF r, s
  <2> QED
    BY <1>1, <2>1, <2>2 DEF Statics
<1>3. Moves(np, m, i) /\ m[i] = c
  BY <1>1 DEF NPPs, Moves
<1> HIDE DEF s, m
<1>4. \A d : Used(s, m, st, d) => Used(pl, np, st, d)
  BY <1>2, <1>3 DEF Used, Moves
<1>5. KnownViewer(s, m, st)
  BY <1>2, <1>4 DEF Sound, KnownViewer
<1>6. ASSUME NEW d \in Connections PROVE pl.refcnt[d] \in Nat
  BY <1>1 DEF Statics
<1>7. RefsCover(s, m, st)
  <2> SUFFICES ASSUME NEW d \in Connections
               PROVE  /\ IsFiniteSet(On(m, d))
                      /\ Used(s, m, st, d)
                            => s.refcnt[d] >= 2 + Cardinality(On(m, d)) + Master(s, d)
    BY DEF RefsCover
  <2>1. /\ IsFiniteSet(On(np, d))
        /\ Used(s, m, st, d) => pl.refcnt[d] >= 2 + Cardinality(On(np, d)) + Master(pl, d)
    BY <1>4 DEF Sound, RefsCover
  <2>2. Master(s, d) = Master(pl, d) /\ Master(s, d) \in {0, 1}
    BY <1>2 DEF Master
  <2>3. CASE d = c
    <3>1. /\ IsFiniteSet(On(m, c))
          /\ Cardinality(On(m, c)) \in Nat /\ Cardinality(On(np, c)) \in Nat
          /\ Cardinality(On(m, c)) <= Cardinality(On(np, c)) + 1
      BY <1>3, <2>1, <2>3, CountAfterAdd
    <3> QED
      BY <1>2, <1>6, <2>1, <2>2, <2>3, <3>1
  <2>4. CASE d # c
    <3>1. /\ IsFiniteSet(On(m, d))
          /\ Cardinality(On(m, d)) \in Nat /\ Cardinality(On(np, d)) \in Nat
          /\ Cardinality(On(m, d)) <= Cardinality(On(np, d))
      <4>1. /\ IsFiniteSet(On(m, d))
            /\ Cardinality(On(m, d)) \in Nat /\ Cardinality(On(np, d)) \in Nat
            /\ Cardinality(On(m, d))
                = IF np[i] = d THEN Cardinality(On(np, d)) - 1 ELSE Cardinality(On(np, d))
        BY <1>3, <2>1, <2>4, CountAfterRemove
      <4> QED
        BY <4>1
    <3> QED
      BY <1>2, <1>6, <2>1, <2>2, <2>4, <3>1
  <2> QED
    BY <2>3, <2>4
<1>8. \A d \in Connections : s.refcnt[d] >= pl.refcnt[d]
  BY <1>2, <1>6
<1>9. Sound(s, m, st)
  BY <1>1, <1>2, <1>3, <1>5, <1>7 DEF Sound, Moves
<1> QED
  BY <1>2, <1>8, <1>9 DEF s, m

\* After NPP_New failed nobody drops the reference of the instance.
LEMMA ForgetSound ==
    ASSUME NEW pl, NEW np, NEW st, Sound(pl, np, st), NEW i \in Instances
    PROVE  Sound(pl, [np EXCEPT ![i] = NoConnection], st)
<1> DEFINE m == [np EXCEPT ![i] = NoConnection]
<1>1. pl \in Statics /\ np \in NPPs /\ st \in Seq(Frame)
  BY DEF Sound
<1>2. Moves(np, m, i) /\ m[i] = NoConnection
  BY <1>1 DEF NPPs, Moves
<1> HIDE DEF m
<1>3. \A d \in Connections : Used(pl, m, st, d) => Used(pl, np, st, d)
  BY <1>2, ConstantsAssumption DEF Used, Moves
<1>4. KnownViewer(pl, m, st)
  BY <1>1, <1>3 DEF Sound, KnownViewer, Statics
<1>5. RefsCover(pl, m, st)
  <2> SUFFICES ASSUME NEW d \in Connections
               PROVE  /\ IsFiniteSet(On(m, d))
                      /\ Used(pl, m, st, d)
                            => pl.refcnt[d] >= 2 + Cardinality(On(m, d)) + Master(pl, d)
    BY DEF RefsCover
  <2>1. /\ IsFiniteSet(On(np, d))
        /\ Used(pl, m, st, d) => pl.refcnt[d] >= 2 + Cardinality(On(np, d)) + Master(pl, d)
    BY <1>3 DEF Sound, RefsCover
  <2>2. /\ IsFiniteSet(On(m, d))
        /\ Cardinality(On(m, d)) \in Nat /\ Cardinality(On(np, d)) \in Nat
        /\ Cardinality(On(m, d))
            = IF np[i] = d THEN Cardinality(On(np, d)) - 1 ELSE Cardinality(On(np, d))
    BY <1>2, <2>1, ConstantsAssumption, CountAfterRemove
  <2>3. pl.refcnt[d] \in Nat /\ Master(pl, d) \in {0, 1}
    BY <1>1 DEF Statics, Master
  <2> QED
    BY <2>1, <2>2, <2>3
<1> QED
  BY <1>1, <1>2, <1>4, <1>5 DEF Sound, Moves, m

\* g_NPP_Destroy: the reference goes with the instance it covers.
LEMMA DestroySound ==
    ASSUME NEW pl, NEW np, NEW st, Sound(pl, np, st), NEW i \in Instances
    PROVE  LET s == [pl EXCEPT !.refcnt = Unref(@, np[i])]
           IN  /\ Sound(s, [np EXCEPT ![i] = NoConnection], st)
               /\ s.viewers = pl.viewers
               /\ s.g_rpc_source = pl.g_rpc_source
               /\ s.plugin_killed = pl.plugin_killed
<1> DEFINE r == Unref(pl.refcnt, np[i])
           s == [pl EXCEPT !.refcnt = r]
           m == [np EXCEPT ![i] = NoConnection]
<1>1. pl \in Statics /\ np \in NPPs /\ st \in Seq(Frame)
  BY DEF Sound
<1>2. Moves(np, m, i) /\ m[i] = NoConnection
  BY <1>1 DEF NPPs, Moves
<1>3. /\ DOMAIN r = Connections /\ r = [d \in Connections |-> r[d]]
      /\ \A d \in Connections : r[d] = IF np[i] = d THEN pl.refcnt[d] - 1 ELSE pl.refcnt[d]
  <2>1. pl.refcnt \in [Connections -> Nat]
    BY <1>1 DEF Statics
  <2> QED
    BY <2>1, UnrefIsFunction, ConstantsAssumption
<1> HIDE DEF r, m
<1>4. ASSUME NEW d \in Connections
      PROVE  /\ pl.refcnt[d] \in Nat /\ r[d] \in Nat
             /\ IsFiniteSet(On(m, d))
             /\ Used(pl, np, st, d) => r[d] >= 2 + Cardinality(On(m, d)) + Master(pl, d)
  <2>1. /\ IsFiniteSet(On(np, d))
        /\ Used(pl, np, st, d) => pl.refcnt[d] >= 2 + Cardinality(On(np, d)) + Master(pl, d)
    BY DEF Sound, RefsCover
  <2>2. /\ IsFiniteSet(On(m, d))
        /\ Cardinality(On(m, d)) \in Nat /\ Cardinality(On(np, d)) \in Nat
        /\ Cardinality(On(m, d))
            = IF np[i] = d THEN Cardinality(On(np, d)) - 1 ELSE Cardinality(On(np, d))
    BY <1>2, <2>1, ConstantsAssumption, CountAfterRemove
  <2>3. pl.refcnt[d] \in Nat /\ Master(pl, d) \in {0, 1} /\ (np[i] = d => Used(pl, np, st, d))
    BY <1>1 DEF Statics, Master, Used
  <2> QED
    BY <1>3, <2>1, <2>2, <2>3
<1>5. r \in [Connections -> Nat]
  BY <1>3, <1>4
<1>6. /\ s \in Statics
      /\ s.viewers = pl.viewers
      /\ s.viewer_pid = pl.viewer_pid
      /\ s.plugin_killed = pl.plugin_killed
      /\ s.g_rpc_connection = pl.g_rpc_connection
      /\ s.g_rpc_source = pl.g_rpc_source
      /\ s.initialized = pl.initialized
      /\ s.refcnt = r
  BY <1>1, <1>5 DEF Statics
<1> HIDE DEF s
<1>7. \A d \in Connections : Used(s, m, st, d) => Used(pl, np, st, d)
  BY <1>2, <1>6, ConstantsAssumption DEF Used, Moves
<1>8. KnownViewer(s, m, st)
  BY <1>1, <1>6, <1>7 DEF Sound, KnownViewer, Statics
<1>9. RefsCover(s, m, st)
  <2>1. \A d : Master(s, d) = Master(pl, d)
    BY <1>6 DEF Master
  <2> QED
    BY <1>4, <1>6, <1>7, <2>1 DEF RefsCover
<1>10. Sound(s, m, st)
  BY <1>1, <1>2, <1>6, <1>8, <1>9 DEF Sound, Moves
<1> QED
  BY <1>6, <1>10 DEF s, m, r

\* What is not about references may change, within KnownViewer.
LEMMA FieldsSound ==
    ASSUME NEW pl, NEW np, NEW st, Sound(pl, np, st), NEW s \in Statics,
           s.refcnt = pl.refcnt,
           s.g_rpc_connection = pl.g_rpc_connection,
           s.g_rpc_source \in {pl.g_rpc_source, NoConnection},
           s.viewers \subseteq pl.viewers,
           s.viewer_pid = pl.viewer_pid,
           s.plugin_killed \/ s.initialized \in {0, 1} => s.viewer_pid = NoConnection
    PROVE  Sound(s, np, st)
<1>1. \A d \in Connections : Used(s, np, st, d) => Used(pl, np, st, d)
  BY ConstantsAssumption DEF Used
<1>2. KnownViewer(s, np, st)
  BY <1>1 DEF Sound, KnownViewer, Statics
<1>3. RefsCover(s, np, st)
  <2>1. \A d : Master(s, d) = Master(pl, d)
    BY DEF Master
  <2> QED
    BY <1>1, <2>1 DEF Sound, RefsCover
<1> QED
  BY <1>2, <1>3 DEF Sound

\* A new viewer: its connection has a reference of its own, and the sources'.
LEMMA InitSound ==
    ASSUME NEW pl, NEW np, NEW st, Sound(pl, np, st), NEW c \in Connections,
           ~Used(pl, np, st, c), pl.viewers = {}, ~pl.plugin_killed
    PROVE  /\ Sound(PluginInit(pl, c), np, st)
           /\ PluginInit(pl, c).g_rpc_connection = c
<1> DEFINE s == PluginInit(pl, c)
           r == [pl.refcnt EXCEPT ![c] = 3]
<1>1. pl \in Statics /\ np \in NPPs /\ st \in Seq(Frame)
  BY DEF Sound
<1>2. rpc_sync_source_new(rpc_event_source_new([pl.refcnt EXCEPT ![c] = 1], c), c) = r
  <2>1. pl.refcnt \in [Connections -> Nat]
    BY <1>1 DEF Statics
  <2> QED
    BY <2>1 DEF rpc_sync_source_new, rpc_event_source_new
<1>3. /\ r \in [Connections -> Nat] /\ r[c] = 3
      /\ \A d \in Connections \ {c} : r[d] = pl.refcnt[d]
  BY <1>1 DEF Statics
<1>4. s = [pl EXCEPT !.g_rpc_connection = c, !.g_rpc_source = c, !.viewer_pid = c,
                     !.viewers = @ \cup {c}, !.refcnt = r, !.initialized = 2, !.cached = TRUE]
  BY <1>2 DEF PluginInit
<1>5. 2 \in -1..2 /\ pl.viewers \cup {c} = {c} /\ {c} \in SUBSET Connections
  OBVIOUS
<1> HIDE DEF r, s
<1>6. /\ s \in Statics
      /\ s.viewers = {c}
      /\ s.viewer_pid = c
      /\ s.plugin_killed = FALSE
      /\ s.g_rpc_connection = c
      /\ s.g_rpc_source = c
      /\ s.initialized = 2
      /\ s.refcnt = r
  BY <1>1, <1>3, <1>4, <1>5 DEF Statics
<1>7. \A d : d # c => (Used(s, np, st, d) => Used(pl, np, st, d)) /\ Master(s, d) = 0
  BY <1>6 DEF Used, Master
<1>8. KnownViewer(s, np, st)
  BY <1>6 DEF KnownViewer
<1>9. RefsCover(s, np, st)
  <2> SUFFICES ASSUME NEW d \in Connections
               PROVE  /\ IsFiniteSet(On(np, d))
                      /\ Used(s, np, st, d)
                            => s.refcnt[d] >= 2 + Cardinality(On(np, d)) + Master(s, d)
    BY DEF RefsCover
  <2>1. CASE d = c
    <3>1. On(np, c) = {} /\ Master(s, c) = 1
      BY <1>6 DEF On, Used, Master
    <3> QED
      BY <1>3, <1>6, <2>1, <3>1, FS_EmptySet
  <2>2. CASE d # c
    <3>1. /\ IsFiniteSet(On(np, d))
          /\ Used(s, np, st, d) => pl.refcnt[d] >= 2 + Cardinality(On(np, d)) + Master(pl, d)
      BY <1>7, <2>2 DEF Sound, RefsCover
    <3>2. /\ Cardinality(On(np, d)) \in Nat /\ pl.refcnt[d] \in Nat
          /\ Master(pl, d) \in {0, 1} /\ Master(s, d) = 0
      BY <1>1, <1>7, <2>2, <3>1, FS_CardinalityType DEF Statics, Master
    <3> QED
      BY <1>3, <1>6, <2>2, <3>1, <3>2
  <2> QED
    BY <2>1, <2>2
<1>10. Sound(s, np, st)
  BY <1>1, <1>6, <1>8, <1>9 DEF Sound
<1> QED
  BY <1>6, <1>10 DEF s

\* A viewer that does not come up is remembered in viewer_pid.
LEMMA InitFailsSound ==
    ASSUME NEW pl, NEW np, NEW st, Sound(pl, np, st), NEW c \in Connections,
           ~Used(pl, np, st, c), pl.viewers = {}, ~pl.plugin_killed, NEW up \in BOOLEAN
    PROVE  Sound(PluginInitFails(pl, c, up), np, st)
<1> DEFINE v == IF up THEN pl.viewers \cup {c} ELSE pl.viewers
           s == PluginInitFails(pl, c, up)
<1>1. pl \in Statics /\ np \in NPPs /\ st \in Seq(Frame)
  BY DEF Sound
<1>2. s = [pl EXCEPT !.g_rpc_connection = NoConnection, !.viewer_pid = c, !.viewers = v,
                     !.initialized = -1, !.cached = TRUE]
  BY DEF PluginInitFails
<1>3. -1 \in -1..2 /\ v \subseteq {c} /\ v \in SUBSET Connections
  OBVIOUS
<1> HIDE DEF v, s
<1>4. /\ s \in Statics
      /\ s.viewers = v
      /\ s.viewer_pid = c
      /\ s.plugin_killed = FALSE
      /\ s.g_rpc_connection = NoConnection
      /\ s.g_rpc_source = pl.g_rpc_source
      /\ s.initialized = -1
      /\ s.refcnt = pl.refcnt
  BY <1>1, <1>2, <1>3 DEF Statics
<1>5. \A d \in Connections : (Used(s, np, st, d) => Used(pl, np, st, d)) /\ Master(s, d) = 0
  BY <1>4, ConstantsAssumption DEF Used, Master
<1>6. KnownViewer(s, np, st)
  BY <1>3, <1>4, <1>5 DEF KnownViewer
<1>7. RefsCover(s, np, st)
  <2> SUFFICES ASSUME NEW d \in Connections, Used(s, np, st, d)
               PROVE  s.refcnt[d] >= 2 + Cardinality(On(np, d)) + Master(s, d)
    BY DEF Sound, RefsCover
  <2>1. pl.refcnt[d] >= 2 + Cardinality(On(np, d)) + Master(pl, d)
    BY <1>5 DEF Sound, RefsCover
  <2>2. Cardinality(On(np, d)) \in Nat /\ pl.refcnt[d] \in Nat /\ Master(pl, d) \in {0, 1}
    BY <1>1, CountType DEF Statics, Master, Sound
  <2> QED
    BY <1>4, <1>5, <2>1, <2>2
<1> QED
  BY <1>1, <1>4, <1>6, <1>7 DEF Sound, s

-----------------------------------------------------------------------------
(* The stack and the other variables.                                        *)

LEMMA FrontIsPopped ==
    ASSUME NEW st \in Seq(Frame), st # <<>>
    PROVE  /\ PoppedTo(Front(st), st)
           /\ Len(st) \in Nat /\ Len(Front(st)) \in Nat
           /\ Len(Front(st)) = Len(st) - 1
           /\ Last(st) = st[Len(Front(st)) + 1] /\ Last(st) \in Frame
<1>1. /\ Front(st) \in Seq(Frame) /\ Len(Front(st)) = Len(st) - 1
      /\ \A i \in 1..Len(Front(st)) : Front(st)[i] = st[i]
      /\ Len(st) \in Nat /\ Len(st) > 0 /\ Last(st) = st[Len(st)] /\ Last(st) \in Frame
  BY FrontProps
<1> HIDE DEF Front, Last
<1> QED
  BY <1>1 DEF PoppedTo

LEMMA FrameFields ==
    ASSUME NEW k \in Waits \cup {"handle"}, NEW c \in Connections,
           NEW i \in Instances \cup {NoInstance}
    PROVE  /\ Fr(k, c, i) \in Frame
           /\ Fr(k, c, i).kind = k /\ Fr(k, c, i).connection = c /\ Fr(k, c, i).instance = i
  BY DEF Fr, Frame

LEMMA FreshIsUnused ==
    ASSUME TypeOK, NEW s, NEW c \in Fresh(s)
    PROVE  c \in Connections /\ ~Used(s, npp, stack, c)
<1>1. DOMAIN stack = 1..Len(stack)
  BY DEF TypeOK
<1> QED
  BY <1>1 DEF Fresh, Used

LEMMA StatusType ==
    ASSUME TypeOK, NEW c \in Connections, SetStatus(c)
    PROVE  status' \in [Connections -> {"ACTIVE", "CLOSED", "BROKEN"}]
<1>1. PICK e \in {"CLOSED", "BROKEN"} :
        status' = [status EXCEPT ![c] = IF @ = "ACTIVE" THEN e ELSE @]
  BY DEF SetStatus
<1> QED
  BY <1>1 DEF TypeOK

LEMMA PopBeforeUse ==
    ASSUME NEW pl, NEW np, NEW st \in Seq(Frame), BeforeUse(pl, np, st),
           NEW t, PoppedTo(t, st), t # <<>>, NEW ql
    PROVE  BeforeUse(ql, np, t)
<1>1. Len(t) \in Nat /\ Len(st) \in Nat
  BY LenType DEF PoppedTo
<1> QED
  BY <1>1 DEF BeforeUse, PoppedTo

LEMMA PushBeforeUse ==
    ASSUME NEW pl, NEW np, NEW st \in Seq(Frame), BeforeUse(pl, np, st), st # <<>>,
           NEW f \in Frame, f.kind \in {"handle", "sync"}, f.instance = NoInstance
    PROVE  BeforeUse(pl, np, Append(st, f))
<1>1. /\ Len(st) \in Nat /\ Len(st) > 0
      /\ Append(st, f) # <<>>
      /\ Len(Append(st, f)) = Len(st) + 1
      /\ \A i \in 1..Len(st) : Append(st, f)[i] = st[i]
      /\ Append(st, f)[Len(st) + 1] = f
  BY AppendProps, TailProps
<1> DEFINE a == Append(st, f)
<1> HIDE DEF a
<1>2. \A k \in 1..Len(a) :
        /\ a[k].kind \in {"initialize", "handle", "sync"}
        /\ a[k].kind = "initialize" <=> k = 1
        /\ a[k].instance = NoInstance
  <2> SUFFICES ASSUME NEW k \in 1..(Len(st) + 1)
               PROVE  /\ a[k].kind \in {"initialize", "handle", "sync"}
                      /\ a[k].kind = "initialize" <=> k = 1
                      /\ a[k].instance = NoInstance
    BY <1>1 DEF a
  <2>1. CASE k \in 1..Len(st)
    BY <1>1, <2>1 DEF BeforeUse, a
  <2>2. CASE k = Len(st) + 1
    BY <1>1, <2>2 DEF a
  <2> QED
    BY <1>1, <2>1, <2>2
<1> QED
  BY <1>1, <1>2 DEF BeforeUse, a

-----------------------------------------------------------------------------
(* The invariant is inductive.                                               *)

LEMMA InvariantIsSound == RecoveryInvariant => Sound(plugin, npp, stack)
  BY DEF RecoveryInvariant, TypeOK, Sound, NPPs

\* What a step has to show: the connections of the frames that were there keep
\* their references, whatever the step does to the stack.
StepIsSound ==
    /\ Sound(plugin', npp', stack)
    /\ Sound(plugin', npp', stack')
    /\ status' \in [Connections -> {"ACTIVE", "CLOSED", "BROKEN"}]
    /\ throttled' \in BOOLEAN
    /\ phase' \in {"loaded", "running", "shutdown", "unloaded"}
    /\ FramesInOrder(stack')
    /\ phase' = "loaded" => BeforeUse(plugin', npp', stack')
    /\ phase' = "unloaded" => plugin'.viewers = {}

LEMMA StepKeepsInvariant == StepIsSound => RecoveryInvariant'
  BY DEF StepIsSound, RecoveryInvariant, TypeOK, Sound, NPPs

\* A wait that ends in an error.
LEMMA FailedStep ==
    ASSUME RecoveryInvariant, NEW c \in Connections, NEW f, NEW t,
           PoppedTo(t, stack), Len(t) < Len(stack), f = stack[Len(t) + 1],
           f.kind \in Waits, Failed(c, f, t)
    PROVE  StepIsSound
<1> DEFINE k == PluginKill(plugin)
<1>0. /\ Sound(plugin, npp, stack) /\ TypeOK /\ FramesInOrder(stack)
      /\ phase = "loaded" => BeforeUse(plugin, npp, stack)
  BY InvariantIsSound DEF RecoveryInvariant
<1>1. Len(t) \in Nat /\ Len(stack) \in Nat /\ Len(t) + 1 \in 1..Len(stack)
  BY <1>0, LenType DEF TypeOK, PoppedTo
<1>2. f \in Frame /\ (f.kind \in {"new", "destroy"} => f.instance \in Instances)
  BY <1>0, <1>1 DEF TypeOK, FramesInOrder
<1>3. Sound(k, npp, stack) /\ k.viewers = {}
  BY <1>0, KillSound
<1>4. /\ Sound(PluginExit(k), npp, stack) /\ PluginExit(k).viewers = {}
  BY <1>3, ExitSound
<1>5. /\ stack' = t /\ SetStatus(c) /\ throttled' = throttled
      /\ phase' = IF f.kind = "initialize" /\ f.instance = NoInstance THEN "shutdown" ELSE phase
  BY DEF Failed
<1>6. status' \in [Connections -> {"ACTIVE", "CLOSED", "BROKEN"}]
  BY <1>0, <1>5, StatusType
<1>7. Sound(plugin', npp', stack) /\ plugin'.viewers = {}
  <2>1. CASE f.kind = "destroy"
    <3>1. plugin' = [k EXCEPT !.refcnt = Unref(@, npp[f.instance])]
          /\ npp' = [npp EXCEPT ![f.instance] = NoConnection]
      BY <2>1 DEF Failed, Destroyed
    <3> HIDE DEF k
    <3>2. f.instance \in Instances
      BY <1>2, <2>1
    <3>3. /\ Sound([k EXCEPT !.refcnt = Unref(@, npp[f.instance])],
                   [npp EXCEPT ![f.instance] = NoConnection], stack)
          /\ [k EXCEPT !.refcnt = Unref(@, npp[f.instance])].viewers = k.viewers
      BY <1>3, <3>2, DestroySound
    <3> QED
      BY <1>3, <3>1, <3>3
  <2>2. CASE f.kind = "new"
    <3>1. plugin' = k /\ npp' = [npp EXCEPT ![f.instance] = NoConnection]
      BY <2>2 DEF Failed
    <3> HIDE DEF k
    <3>2. f.instance \in Instances
      BY <1>2, <2>2
    <3>3. Sound(k, [npp EXCEPT ![f.instance] = NoConnection], stack)
      BY <1>3, <3>2, ForgetSound
    <3> QED
      BY <1>3, <3>1, <3>3
  <2>3. CASE f.kind = "shutdown"
    BY <1>4, <2>3 DEF Failed
  <2>4. CASE f.kind \notin {"destroy", "new", "shutdown"}
    BY <1>3, <2>4 DEF Failed
  <2> QED
    BY <2>1, <2>2, <2>3, <2>4
<1>8. Sound(plugin', npp', t) /\ FramesInOrder(t)
  BY <1>0, <1>7, PopSound
<1>9. phase' = "loaded" => BeforeUse(plugin', npp', t)
  <2> SUFFICES ASSUME phase' = "loaded" PROVE BeforeUse(plugin', npp', t)
    OBVIOUS
  <2>1. phase = "loaded" /\ BeforeUse(plugin, npp, stack)
    BY <1>0, <1>5
  <2>2. f.kind = "sync" /\ Len(t) + 1 # 1
    <3>1. /\ f.kind \in {"initialize", "handle", "sync"}
          /\ f.kind = "initialize" <=> Len(t) + 1 = 1
          /\ f.instance = NoInstance
      BY <1>1, <2>1 DEF BeforeUse
    <3> QED
      BY <1>1, <1>5, <3>1 DEF Waits
  <2>3. npp' = npp /\ t # <<>>
    BY <1>1, <2>2 DEF Failed
  <2> QED
    BY <1>0, <2>1, <2>3, PopBeforeUse DEF TypeOK
<1>10. throttled' \in BOOLEAN /\ phase' \in {"loaded", "running", "shutdown", "unloaded"}
  BY <1>0, <1>5 DEF TypeOK
<1> QED
  BY <1>5, <1>6, <1>7, <1>8, <1>9, <1>10 DEF StepIsSound

\* The viewer's turn ends in an error.
LEMMA SyncFailedStep ==
    ASSUME RecoveryInvariant, NEW c \in Connections, NEW t,
           PoppedTo(t, stack), Len(t) < Len(stack), stack[Len(t) + 1].kind = "sync",
           SyncFailed(c, t)
    PROVE  StepIsSound
<1>0. /\ Sound(plugin, npp, stack) /\ TypeOK /\ FramesInOrder(stack)
      /\ phase = "loaded" => BeforeUse(plugin, npp, stack)
      /\ phase = "unloaded" => plugin.viewers = {}
  BY InvariantIsSound DEF RecoveryInvariant
<1>1. Len(t) \in Nat /\ Len(stack) \in Nat /\ Len(t) + 1 \in 1..Len(stack)
  BY <1>0, LenType DEF TypeOK, PoppedTo
<1>2. /\ stack' = t /\ npp' = npp /\ status' = status /\ throttled' = throttled /\ phase' = phase
      /\ plugin' \in {plugin, [plugin EXCEPT !.g_rpc_source = NoConnection]}
  BY DEF SyncFailed
<1>3. Sound(plugin', npp, stack) /\ plugin'.viewers = plugin.viewers
  <2>1. CASE plugin' = plugin
    BY <1>0, <2>1
  <2>2. CASE plugin' = [plugin EXCEPT !.g_rpc_source = NoConnection]
    <3>1. /\ plugin' \in Statics
          /\ plugin'.refcnt = plugin.refcnt
          /\ plugin'.g_rpc_connection = plugin.g_rpc_connection
          /\ plugin'.g_rpc_source = NoConnection
          /\ plugin'.viewers = plugin.viewers
          /\ plugin'.viewer_pid = plugin.viewer_pid
          /\ plugin'.plugin_killed = plugin.plugin_killed
          /\ plugin'.initialized = plugin.initialized
      BY <1>0, <2>2 DEF TypeOK, Statics
    <3>2. plugin'.plugin_killed \/ plugin'.initialized \in {0, 1}
            => plugin'.viewer_pid = NoConnection
      BY <1>0, <3>1 DEF Sound, KnownViewer
    <3> QED
      BY <1>0, <3>1, <3>2, FieldsSound
  <2> QED
    BY <1>2, <2>1, <2>2
<1>4. Sound(plugin', npp, t) /\ FramesInOrder(t)
  BY <1>0, <1>3, PopSound
<1>5. phase = "loaded" => BeforeUse(plugin', npp, t)
  <2> SUFFICES ASSUME phase = "loaded" PROVE BeforeUse(plugin', npp, t)
    OBVIOUS
  <2>1. BeforeUse(plugin, npp, stack)
    BY <1>0
  <2>2. t # <<>>
    BY <1>1, <2>1 DEF BeforeUse
  <2> QED
    BY <1>0, <2>1, <2>2, PopBeforeUse DEF TypeOK
<1> QED
  BY <1>0, <1>2, <1>3, <1>4, <1>5 DEF StepIsSound, TypeOK

LEMMA InitInvariant == Init => RecoveryInvariant
<1> SUFFICES ASSUME Init PROVE RecoveryInvariant
  OBVIOUS
<1>1. TypeOK
  <2>1. 0 \in -1..2 /\ [c \in Connections |-> 0] \in [Connections -> Nat]
    OBVIOUS
  <2>2. plugin \in Statics
    BY <2>1 DEF Init, Statics
  <2>3. npp \in [Instances -> Connections \cup {NoConnection}] /\ stack \in Seq(Frame)
    BY DEF Init
  <2>4. /\ status \in [Connections -> {"ACTIVE", "CLOSED", "BROKEN"}]
        /\ throttled \in BOOLEAN
        /\ phase \in {"loaded", "running", "shutdown", "unloaded"}
    BY DEF Init
  <2> QED
    BY <2>2, <2>3, <2>4 DEF TypeOK
<1>2. Len(stack) = 0
  BY DEF Init
<1>3. FramesInOrder(stack) /\ BeforeUse(plugin, npp, stack)
  BY <1>2 DEF Init, FramesInOrder, BeforeUse
<1>4. KnownViewer(plugin, npp, stack) /\ plugin.viewers = {}
  BY DEF Init, KnownViewer
<1>5. ASSUME NEW c \in Connections
      PROVE  IsFiniteSet(On(npp, c)) /\ ~Used(plugin, npp, stack, c)
  <2>1. On(npp, c) = {}
    BY ConstantsAssumption DEF Init, On
  <2>2. ~Used(plugin, npp, stack, c)
    BY <1>2, ConstantsAssumption DEF Init, Used
  <2> QED
    BY <2>1, <2>2, FS_EmptySet
<1> QED
  BY <1>1, <1>3, <1>4, <1>5 DEF RecoveryInvariant, RefsCover

\* A new viewer is started by s, which plugin_init found.
LEMMA StartsStep ==
    ASSUME RecoveryInvariant, NEW s, Sound(s, npp, stack), s.viewers = {}, ~s.plugin_killed,
           NEW c \in Fresh(s), NEW i \in Instances \cup {NoInstance},
           Starts(s, c, i), npp' = npp, throttled' \in BOOLEAN,
           phase' = phase, phase # "unloaded",
           phase = "loaded" => stack = <<>> /\ i = NoInstance
    PROVE  StepIsSound
<1> DEFINE f == Fr("initialize", c, i)
<1>0. TypeOK /\ FramesInOrder(stack) /\ (phase = "loaded" => BeforeUse(plugin, npp, stack))
  BY DEF RecoveryInvariant
<1>1. c \in Connections /\ ~Used(s, npp, stack, c)
  BY <1>0, FreshIsUnused
<1>2. /\ plugin' = PluginInit(s, c)
      /\ stack' = Append(stack, f)
      /\ status' = [status EXCEPT ![c] = "ACTIVE"]
  BY DEF Starts
<1>3. Sound(plugin', npp, stack) /\ plugin'.g_rpc_connection = c
  BY <1>1, <1>2, InitSound
<1>4. f \in Frame /\ f.kind = "initialize" /\ f.connection = c /\ f.instance = i
  BY <1>1, FrameFields DEF Waits
<1> HIDE DEF f
<1>5. Sound(plugin', npp, stack')
  <2>1. Used(plugin', npp, stack, f.connection)
    BY <1>3, <1>4 DEF Used
  <2> QED
    BY <1>2, <1>3, <1>4, <2>1, PushSound
<1>6. FramesInOrder(stack')
  BY <1>0, <1>2, <1>4, PushOrder DEF TypeOK
<1>7. phase = "loaded" => BeforeUse(plugin', npp, stack')
  <2> SUFFICES ASSUME phase = "loaded" PROVE BeforeUse(plugin', npp, stack')
    OBVIOUS
  <2>1. stack = <<>> /\ stack' = <<f>>
    BY <1>2
  <2>2. Len(stack') = 1 /\ stack'[1] = f /\ stack' # <<>>
    BY <2>1
  <2> QED
    BY <1>0, <1>4, <2>2 DEF BeforeUse
<1> QED
  BY <1>0, <1>1, <1>2, <1>3, <1>5, <1>6, <1>7 DEF StepIsSound, TypeOK

\* A frame is pushed for a call on a connection in use.
LEMMA PushStep ==
    ASSUME RecoveryInvariant, NEW k \in Waits \cup {"handle"}, NEW c \in Connections,
           NEW i \in Instances \cup {NoInstance},
           stack' = Append(stack, Fr(k, c, i)),
           plugin' = plugin, npp' = npp, status' = status, throttled' = throttled,
           phase' \in {phase, "shutdown"},
           Used(plugin, npp, stack, c),
           k = "handle" => stack # <<>> /\ Last(stack).kind \in Waits,
           k \in {"new", "call", "destroy"} => i \in Instances,
           phase = "loaded" => stack # <<>> /\ k \in {"handle", "sync"} /\ i = NoInstance
    PROVE  StepIsSound
<1> DEFINE f == Fr(k, c, i)
<1>0. /\ Sound(plugin, npp, stack) /\ TypeOK /\ FramesInOrder(stack)
      /\ phase = "loaded" => BeforeUse(plugin, npp, stack)
      /\ phase = "unloaded" => plugin.viewers = {}
  BY InvariantIsSound DEF RecoveryInvariant
<1>1. f \in Frame /\ f.kind = k /\ f.connection = c /\ f.instance = i
  BY FrameFields
<1> HIDE DEF f
<1>2. stack' = Append(stack, f)
  BY DEF f
<1>3. Sound(plugin, npp, stack')
  BY <1>0, <1>1, <1>2, PushSound
<1>4. FramesInOrder(stack')
  BY <1>0, <1>1, <1>2, PushOrder DEF TypeOK
<1>5. phase = "loaded" => BeforeUse(plugin, npp, stack')
  BY <1>0, <1>1, <1>2, PushBeforeUse DEF TypeOK
<1> QED
  BY <1>0, <1>3, <1>4, <1>5 DEF StepIsSound, TypeOK

\* An instance is made on the master connection, over the frames t.
LEMMA NewInstanceStep ==
    ASSUME RecoveryInvariant, NEW i \in Instances, NEW t, PoppedTo(t, stack),
           plugin.g_rpc_connection \in Connections, NewInstance(plugin, t, i),
           status' = status, throttled' = throttled, phase' = phase, phase # "loaded"
    PROVE  StepIsSound
<1> DEFINE c == plugin.g_rpc_connection
           f == Fr("new", c, i)
<1>0. /\ Sound(plugin, npp, stack) /\ TypeOK /\ FramesInOrder(stack)
      /\ phase = "unloaded" => plugin.viewers = {}
  BY InvariantIsSound DEF RecoveryInvariant
<1>1. /\ plugin' = [plugin EXCEPT !.refcnt[c] = @ + 1]
      /\ npp' = [npp EXCEPT ![i] = c]
      /\ stack' = Append(t, f)
  BY DEF NewInstance
<1>2. f \in Frame /\ f.kind = "new" /\ f.connection = c /\ f.instance = i
  BY FrameFields DEF Waits
<1> HIDE DEF f
<1>3. /\ Sound(plugin', npp', stack)
      /\ plugin'.g_rpc_connection = c
      /\ plugin'.viewers = plugin.viewers
  <2>1. c \in Connections /\ plugin.g_rpc_connection = c
    OBVIOUS
  <2> HIDE DEF c
  <2>2. /\ Sound([plugin EXCEPT !.refcnt[c] = @ + 1], [npp EXCEPT ![i] = c], stack)
        /\ [plugin EXCEPT !.refcnt[c] = @ + 1].g_rpc_connection = c
        /\ [plugin EXCEPT !.refcnt[c] = @ + 1].viewers = plugin.viewers
    BY <1>0, <2>1, NewSound
  <2> QED
    BY <1>1, <2>2
<1>4. Sound(plugin', npp', t) /\ FramesInOrder(t)
  BY <1>0, <1>3, PopSound
<1>5. Sound(plugin', npp', stack')
  <2>1. Used(plugin', npp', t, f.connection)
    BY <1>2, <1>3 DEF Used
  <2> QED
    BY <1>1, <1>2, <1>4, <2>1, PushSound
<1>6. FramesInOrder(stack')
  BY <1>1, <1>2, <1>4, PushOrder DEF PoppedTo
<1> QED
  BY <1>0, <1>3, <1>5, <1>6 DEF StepIsSound, TypeOK

\* The plugin is given up, or loses its instances, while the stack stays.
LEMMA StayStep ==
    ASSUME RecoveryInvariant, Sound(plugin', npp', stack), stack' = stack,
           status' \in [Connections -> {"ACTIVE", "CLOSED", "BROKEN"}],
           throttled' \in BOOLEAN,
           phase' \in {phase, "shutdown", "unloaded"},
           phase' = "loaded" => BeforeUse(plugin', npp', stack),
           phase' = "unloaded" => plugin'.viewers = {}
    PROVE  StepIsSound
  BY DEF StepIsSound, RecoveryInvariant, TypeOK

LEMMA BrowserStep == ASSUME RecoveryInvariant, Browser PROVE StepIsSound
<1>0. /\ Sound(plugin, npp, stack) /\ TypeOK /\ FramesInOrder(stack)
      /\ phase = "loaded" => BeforeUse(plugin, npp, stack)
      /\ phase = "unloaded" => plugin.viewers = {}
      /\ KnownViewer(plugin, npp, stack)
  BY InvariantIsSound DEF RecoveryInvariant
<1>t. /\ status \in [Connections -> {"ACTIVE", "CLOSED", "BROKEN"}]
      /\ npp \in [Instances -> Connections \cup {NoConnection}]
      /\ stack \in Seq(Frame)
      /\ throttled \in BOOLEAN
      /\ plugin \in Statics
      /\ plugin.g_rpc_connection \in Connections \cup {NoConnection}
      /\ plugin.viewers \subseteq Connections
  BY <1>0 DEF TypeOK, Statics
<1>1. CASE GetInfo
  <2>1. plugin' = [plugin EXCEPT !.initialized = IF plugin.cached THEN -1 ELSE 1, !.cached = TRUE]
        /\ plugin.initialized = 0 /\ phase # "unloaded"
    BY <1>1 DEF GetInfo, PluginInfo
  <2>2. (IF plugin.cached THEN -1 ELSE 1) \in -1..2
    OBVIOUS
  <2>3. /\ plugin' \in Statics
        /\ plugin'.refcnt = plugin.refcnt
        /\ plugin'.g_rpc_connection = plugin.g_rpc_connection
        /\ plugin'.g_rpc_source = plugin.g_rpc_source
        /\ plugin'.viewers = plugin.viewers
        /\ plugin'.viewer_pid = plugin.viewer_pid
        /\ plugin'.plugin_killed = plugin.plugin_killed
    BY <1>t, <2>1, <2>2 DEF Statics
  <2>4. plugin.viewer_pid = NoConnection
    BY <1>0, <2>1 DEF KnownViewer
  <2>5. Sound(plugin', npp, stack)
    BY <1>0, <2>3, <2>4, FieldsSound
  <2>6. /\ status' = status /\ npp' = npp /\ stack' = stack /\ throttled' = throttled
        /\ phase' = phase
    BY <1>1 DEF GetInfo
  <2>7. phase = "loaded" => BeforeUse(plugin', npp, stack)
    BY <1>0, <2>3 DEF BeforeUse
  <2> QED
    BY <1>t, <2>1, <2>5, <2>6, <2>7, StayStep
<1>2. CASE NP_Initialize
  <2>1. /\ stack = <<>> /\ phase = "loaded" /\ plugin.initialized \in {0, 1}
        /\ npp' = npp /\ throttled' = throttled
    BY <1>2 DEF NP_Initialize
  <2>2. plugin.viewers = {} /\ ~plugin.plugin_killed
    <3>1. plugin.viewers \subseteq {NoConnection}
      BY <1>0, <2>1 DEF KnownViewer
    <3>2. plugin.viewers = {}
      BY <1>t, <3>1, ConstantsAssumption
    <3> QED
      BY <1>0, <2>1, <3>2 DEF BeforeUse
  <2>3. PICK c \in Fresh(plugin) :
          \/ Starts(plugin, c, NoInstance) /\ phase' = phase
          \/ /\ \E up \in BOOLEAN : plugin' = PluginInitFails(plugin, c, up)
             /\ phase' = "shutdown"
             /\ status' = status /\ stack' = stack
    BY <1>2 DEF NP_Initialize
  <2>4. c \in Connections /\ ~Used(plugin, npp, stack, c)
    BY <1>0, FreshIsUnused
  <2>5. CASE Starts(plugin, c, NoInstance) /\ phase' = phase
    BY <1>0, <1>t, <2>1, <2>2, <2>5, StartsStep
  <2>6. CASE /\ \E up \in BOOLEAN : plugin' = PluginInitFails(plugin, c, up)
             /\ phase' = "shutdown"
             /\ status' = status /\ stack' = stack
    <3>1. Sound(plugin', npp, stack)
      BY <1>0, <2>2, <2>4, <2>6, InitFailsSound
    <3> QED
      BY <1>t, <2>1, <2>6, <3>1, StayStep
  <2> QED
    BY <2>3, <2>5, <2>6
<1>3. CASE NP_Shutdown
  <2>1. /\ phase = "running" /\ phase' = "shutdown"
        /\ status' = status /\ npp' = npp /\ throttled' = throttled
    BY <1>3 DEF NP_Shutdown
  <2>2. CASE Active
    <3>1. plugin.g_rpc_connection \in Connections
      BY <1>t, <2>2 DEF Active
    <3>2. /\ stack' = Append(stack, Fr("shutdown", plugin.g_rpc_connection, NoInstance))
          /\ plugin' = plugin
      BY <1>3, <2>2 DEF NP_Shutdown
    <3>3. Used(plugin, npp, stack, plugin.g_rpc_connection) /\ "shutdown" \in Waits
      BY DEF Used, Waits
    <3> QED
      BY <2>1, <3>1, <3>2, <3>3, PushStep
  <2>3. CASE ~Active
    <3>1. plugin' = PluginExit(plugin) /\ stack' = stack
      BY <1>3, <2>3 DEF NP_Shutdown
    <3>2. Sound(plugin', npp, stack)
      BY <1>0, <3>1, ExitSound
    <3> QED
      BY <1>t, <2>1, <3>1, <3>2, StayStep
  <2> QED
    BY <2>2, <2>3
<1>4. CASE plugin_exit_sentinel
  <2> DEFINE e == PluginExit(plugin)
  <2>1. /\ phase' = "unloaded" /\ plugin' = [e EXCEPT !.cached = FALSE]
        /\ status' = status /\ npp' = npp /\ stack' = stack /\ throttled' = throttled
    BY <1>4 DEF plugin_exit_sentinel
  <2>2. Sound(e, npp, stack) /\ e.viewers = {} /\ e.viewer_pid = NoConnection
    BY <1>0, ExitSound
  <2> HIDE DEF e
  <2>3. /\ plugin' \in Statics
        /\ plugin'.refcnt = e.refcnt
        /\ plugin'.g_rpc_connection = e.g_rpc_connection
        /\ plugin'.g_rpc_source = e.g_rpc_source
        /\ plugin'.viewers = e.viewers
        /\ plugin'.viewer_pid = e.viewer_pid
    BY <2>1, <2>2 DEF Statics, Sound
  <2>4. Sound(plugin', npp, stack)
    BY <2>2, <2>3, FieldsSound
  <2> QED
    BY <1>t, <2>1, <2>2, <2>3, <2>4, StayStep
<1>5. ASSUME NEW i \in Instances, NPP_New(i) PROVE StepIsSound
  <2>1. plugin.g_rpc_connection \in Connections
    BY <1>t, <1>5 DEF NPP_New, Active
  <2>2. PoppedTo(stack, stack)
    BY <1>t, LenType DEF PoppedTo
  <2>3. /\ NewInstance(plugin, stack, i) /\ phase = "running"
        /\ status' = status /\ throttled' = throttled /\ phase' = phase
    BY <1>5 DEF NPP_New, CanCreate
  <2> QED
    BY <2>1, <2>2, <2>3, NewInstanceStep
<1>6. ASSUME NEW i \in Instances, NPP_NewRestarts(i) PROVE StepIsSound
  <2> DEFINE s == PluginStop(plugin)
  <2>1. /\ phase = "running" /\ phase' = phase /\ npp' = npp /\ throttled' = TRUE
        /\ \E c \in Fresh(s) : Starts(s, c, i)
    BY <1>6 DEF NPP_NewRestarts, CanCreate
  <2>2. Sound(s, npp, stack) /\ s.viewers = {} /\ ~s.plugin_killed
    BY <1>0, StopSound
  <2> HIDE DEF s
  <2> QED
    BY <2>1, <2>2, StartsStep
<1>7. ASSUME NEW i \in Instances, NPP_NewFails(i) PROVE StepIsSound
  <2> DEFINE s == PluginStop(plugin)
  <2>1. /\ phase = "running" /\ phase' = phase /\ npp' = npp /\ throttled' = TRUE
        /\ status' = status /\ stack' = stack
        /\ \/ plugin' = s
           \/ \E c \in Fresh(s), up \in BOOLEAN : plugin' = PluginInitFails(s, c, up)
    BY <1>7 DEF NPP_NewFails, CanCreate
  <2>2. Sound(s, npp, stack) /\ s.viewers = {} /\ ~s.plugin_killed
    BY <1>0, StopSound
  <2> HIDE DEF s
  <2>3. \A c \in Fresh(s) : c \in Connections /\ ~Used(s, npp, stack, c)
    BY <1>0, FreshIsUnused
  <2>4. Sound(plugin', npp, stack)
    BY <2>1, <2>2, <2>3, InitFailsSound
  <2> QED
    BY <1>t, <2>1, <2>4, StayStep
<1>8. ASSUME NEW i \in Instances, NPP_Call(i) PROVE StepIsSound
  <2>1. npp[i] \in Connections /\ Used(plugin, npp, stack, npp[i])
    BY <1>t, <1>8 DEF NPP_Call, Created, Used
  <2>2. /\ stack' = Append(stack, Fr("call", npp[i], i)) /\ "call" \in Waits
        /\ plugin' = plugin /\ npp' = npp /\ status' = status
        /\ throttled' = throttled /\ phase' = phase
    BY <1>8 DEF NPP_Call, Waits
  <2>3. phase # "loaded"
    BY <1>0, <2>1, ConstantsAssumption DEF BeforeUse
  <2> QED
    BY <2>1, <2>2, <2>3, PushStep
<1>9. ASSUME NEW i \in Instances, NPP_Destroy(i) PROVE StepIsSound
  <2>1. npp[i] \in Connections /\ Used(plugin, npp, stack, npp[i])
    BY <1>t, <1>9 DEF NPP_Destroy, Created, Used
  <2>2. phase # "loaded" /\ status' = status /\ throttled' = throttled /\ phase' = phase
    BY <1>0, <1>9, <2>1, ConstantsAssumption DEF BeforeUse, NPP_Destroy
  <2>3. CASE status[npp[i]] = "ACTIVE"
    <3>1. /\ stack' = Append(stack, Fr("destroy", npp[i], i)) /\ "destroy" \in Waits
          /\ plugin' = plugin /\ npp' = npp
      BY <1>9, <2>3 DEF NPP_Destroy, Waits
    <3> QED
      BY <2>1, <2>2, <3>1, PushStep
  <2>4. CASE status[npp[i]] # "ACTIVE"
    <3>1. /\ plugin' = [plugin EXCEPT !.refcnt = Unref(@, npp[i])]
          /\ npp' = [npp EXCEPT ![i] = NoConnection] /\ stack' = stack
      BY <1>9, <2>4 DEF NPP_Destroy, Destroyed
    <3> DEFINE d == [plugin EXCEPT !.refcnt = Unref(@, npp[i])]
    <3>a. Sound(d, [npp EXCEPT ![i] = NoConnection], stack) /\ d.viewers = plugin.viewers
      BY <1>0, DestroySound
    <3>2. Sound(plugin', npp', stack) /\ plugin'.viewers = plugin.viewers
      BY <3>1, <3>a, Zenon
    <3>3. /\ status' \in [Connections -> {"ACTIVE", "CLOSED", "BROKEN"}]
          /\ throttled' \in BOOLEAN
      BY <1>t, <2>2
    <3>4. /\ phase' \in {phase, "shutdown", "unloaded"}
          /\ phase' = "loaded" => BeforeUse(plugin', npp', stack)
          /\ phase' = "unloaded" => plugin'.viewers = {}
      BY <1>0, <2>2, <3>2
    <3> QED
      BY <3>1, <3>2, <3>3, <3>4, StayStep
  <2> QED
    BY <2>3, <2>4
<1> QED
  BY <1>1, <1>2, <1>3, <1>4, <1>5, <1>6, <1>7, <1>8, <1>9 DEF Browser

LEMMA ConnectionStep ==
    ASSUME RecoveryInvariant, NEW c \in Connections, Connection(c) PROVE StepIsSound
<1>0. /\ Sound(plugin, npp, stack) /\ TypeOK /\ FramesInOrder(stack)
      /\ phase = "loaded" => BeforeUse(plugin, npp, stack)
      /\ phase = "unloaded" => plugin.viewers = {}
      /\ KnownViewer(plugin, npp, stack)
  BY InvariantIsSound DEF RecoveryInvariant
<1>t. /\ status \in [Connections -> {"ACTIVE", "CLOSED", "BROKEN"}]
      /\ npp \in [Instances -> Connections \cup {NoConnection}]
      /\ stack \in Seq(Frame)
      /\ throttled \in BOOLEAN
      /\ plugin \in Statics
      /\ phase \in {"loaded", "running", "shutdown", "unloaded"}
  BY <1>0 DEF TypeOK
<1>w. ASSUME WaitingOn(c)
      PROVE  /\ stack # <<>> /\ Top.kind \in Waits /\ Top \in Frame /\ Top.connection = c
             /\ PoppedTo(Front(stack), stack) /\ Len(Front(stack)) < Len(stack)
             /\ Top = stack[Len(Front(stack)) + 1]
             /\ Len(stack) \in Nat /\ Len(stack) > 0 /\ Top = stack[Len(stack)]
             /\ Used(plugin, npp, stack, c)
  <2>1. stack # <<>> /\ Top.kind \in Waits /\ Top.connection = c
    BY <1>w DEF WaitingOn
  <2>2. /\ PoppedTo(Front(stack), stack)
        /\ Len(stack) \in Nat /\ Len(Front(stack)) \in Nat
        /\ Len(Front(stack)) = Len(stack) - 1
        /\ Top = stack[Len(Front(stack)) + 1] /\ Top \in Frame
    BY <1>t, <2>1, FrontIsPopped DEF Top
  <2>3. Len(Front(stack)) + 1 = Len(stack) /\ Len(stack) > 0
    BY <2>2
  <2>4. Top = stack[Len(stack)] /\ Len(stack) \in 1..Len(stack)
    BY <2>2, <2>3
  <2>5. Used(plugin, npp, stack, c)
    BY <2>1, <2>4 DEF Used
  <2> QED
    BY <2>1, <2>2, <2>3, <2>4, <2>5
<1>1. CASE Handle(c)
  <2>1. /\ stack' = Append(stack, Fr("handle", c, NoInstance)) /\ WaitingOn(c)
        /\ plugin' = plugin /\ npp' = npp /\ status' = status
        /\ throttled' = throttled /\ phase' = phase
    BY <1>1 DEF Handle
  <2>2. stack # <<>> /\ Last(stack).kind \in Waits /\ Used(plugin, npp, stack, c)
    BY <1>w, <2>1 DEF Top
  <2> QED
    BY <2>1, <2>2, PushStep
<1>2. CASE Sync(c)
  <2>1. /\ stack' = Append(stack, Fr("sync", c, NoInstance)) /\ "sync" \in Waits
        /\ plugin.g_rpc_source = c
        /\ plugin' = plugin /\ npp' = npp /\ status' = status
        /\ throttled' = throttled /\ phase' = phase
    BY <1>2 DEF Sync, Watched, Waits
  <2>2. Used(plugin, npp, stack, c)
    BY <2>1 DEF Used
  <2>3. phase = "loaded" => stack # <<>>
    BY <1>0, <2>1, ConstantsAssumption DEF BeforeUse
  <2> QED
    BY <2>1, <2>2, <2>3, PushStep
<1>3. CASE NoticeDeath(c)
  <2>1. /\ plugin.g_rpc_source = c /\ SetStatus(c) /\ plugin' = PluginKill(plugin)
        /\ npp' = npp /\ stack' = stack /\ throttled' = throttled /\ phase' = phase
    BY <1>3 DEF NoticeDeath, Watched, RpcError
  <2>2. Sound(plugin', npp, stack) /\ plugin'.viewers = {}
    BY <1>0, <2>1, KillSound
  <2>3. status' \in [Connections -> {"ACTIVE", "CLOSED", "BROKEN"}]
    BY <1>0, <2>1, StatusType
  <2>4. phase = "loaded" => BeforeUse(plugin', npp, stack)
    BY <1>0, <2>1, ConstantsAssumption DEF BeforeUse
  <2> QED
    BY <1>t, <2>1, <2>2, <2>3, <2>4, StayStep
<1>4. CASE WaitFails(c)
  <2>1. WaitingOn(c)
    BY <1>4 DEF WaitFails
  <2>2. CASE Top.kind = "sync"
    <3>1. SyncFailed(c, Front(stack))
      BY <1>4, <2>2 DEF WaitFails
    <3> QED
      BY <1>w, <2>1, <2>2, <3>1, SyncFailedStep
  <2>3. CASE Top.kind # "sync"
    <3>1. Failed(c, Top, Front(stack))
      BY <1>4, <2>3 DEF WaitFails
    <3> QED
      BY <1>w, <2>1, <3>1, FailedStep
  <2> QED
    BY <2>2, <2>3
<1>5. CASE WaitReturns(c)
  <2> DEFINE t == Front(stack)
             f == Top
  <2>1. /\ WaitingOn(c) /\ c \in plugin.viewers /\ phase # "unloaded"
        /\ status' = status /\ throttled' = throttled
    BY <1>0, <1>5 DEF WaitReturns
  <2>2. /\ f \in Frame /\ f.kind \in Waits /\ PoppedTo(t, stack) /\ Len(t) < Len(stack)
        /\ f = stack[Len(t) + 1] /\ Len(stack) \in Nat /\ Len(stack) > 0
        /\ f = stack[Len(stack)]
        /\ Used(plugin, npp, stack, c)
    BY <1>w, <2>1
  <2>3. /\ f.kind \in {"new", "destroy"} => f.instance \in Instances
        /\ phase = "loaded" => f.kind \in {"initialize", "sync"} /\ f.instance = NoInstance
    <3>1. Len(stack) \in 1..Len(stack)
      BY <2>2
    <3>2. f.kind \in {"new", "destroy"} => f.instance \in Instances
      BY <1>0, <2>2, <3>1 DEF FramesInOrder
    <3>3. phase = "loaded"
            => f.kind \in {"initialize", "handle", "sync"} /\ f.instance = NoInstance
      BY <1>0, <2>2, <3>1 DEF BeforeUse
    <3> QED
      BY <2>2, <3>2, <3>3 DEF Waits
  <2>4. phase = "loaded" /\ f.kind = "sync" => t # <<>> /\ BeforeUse(plugin, npp, t)
    <3> SUFFICES ASSUME phase = "loaded", f.kind = "sync"
                 PROVE  t # <<>> /\ BeforeUse(plugin, npp, t)
      OBVIOUS
    <3>1. Len(t) \in Nat /\ Len(t) + 1 \in 1..Len(stack)
      BY <2>2, LenType DEF PoppedTo
    <3>2. Len(t) + 1 # 1
      BY <1>0, <2>2, <3>1 DEF BeforeUse
    <3>3. t # <<>>
      BY <3>1, <3>2
    <3> QED
      BY <1>0, <1>t, <2>2, <3>3, PopBeforeUse
  <2>5. Sound(plugin, npp, t) /\ FramesInOrder(t)
    BY <1>0, <2>2, PopSound
  <2>6. \/ f.kind = "initialize" /\ f.instance # NoInstance
            /\ NewInstance(plugin, t, f.instance) /\ phase' = phase
        \/ f.kind = "initialize" /\ stack' = t /\ plugin' = plugin /\ npp' = npp
            /\ phase' \in IF f.instance = NoInstance THEN {"running", "shutdown"} ELSE {phase}
        \/ f.kind \in {"call", "sync"} /\ stack' = t
            /\ plugin' = plugin /\ npp' = npp /\ phase' = phase
        \/ f.kind = "new" /\ stack' = t /\ plugin' = plugin /\ phase' = phase
            /\ npp' \in {npp, [npp EXCEPT ![f.instance] = NoConnection]}
        \/ f.kind = "destroy" /\ stack' = t /\ Destroyed(plugin, f.instance) /\ phase' = phase
        \/ f.kind = "shutdown" /\ stack' = t /\ plugin' = PluginExit(plugin)
            /\ npp' = npp /\ phase' = phase
    BY <1>5 DEF WaitReturns
  <2> HIDE DEF t, f
  <2>7. CASE f.kind = "initialize" /\ f.instance # NoInstance
                /\ NewInstance(plugin, t, f.instance) /\ phase' = phase
    <3>1. plugin.g_rpc_connection \in Connections
      BY <1>0, <2>1, <2>2 DEF KnownViewer
    <3>2. f.instance \in Instances
      BY <2>2, <2>7 DEF Frame
    <3> QED
      BY <2>1, <2>2, <2>3, <2>7, <3>1, <3>2, NewInstanceStep
  <2>8. CASE f.kind = "initialize" /\ stack' = t /\ plugin' = plugin /\ npp' = npp
            /\ phase' \in IF f.instance = NoInstance THEN {"running", "shutdown"} ELSE {phase}
    <3>1. /\ phase' # "loaded" /\ phase' # "unloaded"
          /\ phase' \in {"loaded", "running", "shutdown", "unloaded"}
      BY <1>t, <2>1, <2>3, <2>8
    <3> QED
      BY <1>0, <1>t, <2>1, <2>5, <2>8, <3>1 DEF StepIsSound
  <2>9. CASE f.kind \in {"call", "sync"} /\ stack' = t
            /\ plugin' = plugin /\ npp' = npp /\ phase' = phase
    BY <1>0, <1>t, <2>1, <2>3, <2>4, <2>5, <2>9 DEF StepIsSound
  <2>10. CASE f.kind = "new" /\ stack' = t /\ plugin' = plugin /\ phase' = phase
            /\ npp' \in {npp, [npp EXCEPT ![f.instance] = NoConnection]}
    <3>1. Sound(plugin, npp', stack)
      BY <1>0, <2>3, <2>10, ForgetSound
    <3>2. Sound(plugin, npp', t)
      BY <2>2, <3>1, PopSound
    <3> QED
      BY <1>0, <1>t, <2>1, <2>3, <2>5, <2>10, <3>1, <3>2 DEF StepIsSound
  <2>11. CASE f.kind = "destroy" /\ stack' = t /\ Destroyed(plugin, f.instance)
            /\ phase' = phase
    <3>1. /\ plugin' = [plugin EXCEPT !.refcnt = Unref(@, npp[f.instance])]
          /\ npp' = [npp EXCEPT ![f.instance] = NoConnection]
      BY <2>11 DEF Destroyed
    <3>2. Sound(plugin', npp', stack)
      BY <1>0, <2>3, <2>11, <3>1, DestroySound
    <3>3. Sound(plugin', npp', t)
      BY <2>2, <3>2, PopSound
    <3> QED
      BY <1>0, <1>t, <2>1, <2>3, <2>5, <2>11, <3>2, <3>3 DEF StepIsSound
  <2>12. CASE f.kind = "shutdown" /\ stack' = t /\ plugin' = PluginExit(plugin)
            /\ npp' = npp /\ phase' = phase
    <3>1. Sound(plugin', npp, stack)
      BY <1>0, <2>12, ExitSound
    <3>2. Sound(plugin', npp, t)
      BY <2>2, <3>1, PopSound
    <3> QED
      BY <1>0, <1>t, <2>1, <2>3, <2>5, <2>12, <3>1, <3>2 DEF StepIsSound
  <2> QED
    BY <2>6, <2>7, <2>8, <2>9, <2>10, <2>11, <2>12
<1>6. CASE ViewerDies(c)
  <2>1. /\ plugin' = [plugin EXCEPT !.viewers = @ \ {c}]
        /\ status' = status /\ npp' = npp /\ stack' = stack /\ throttled' = throttled
        /\ phase' = phase
    BY <1>6 DEF ViewerDies
  <2>2. /\ plugin' \in Statics
        /\ plugin'.refcnt = plugin.refcnt
        /\ plugin'.g_rpc_connection = plugin.g_rpc_connection
        /\ plugin'.g_rpc_source = plugin.g_rpc_source
        /\ plugin'.viewers = plugin.viewers \ {c}
        /\ plugin'.viewer_pid = plugin.viewer_pid
        /\ plugin'.plugin_killed = plugin.plugin_killed
        /\ plugin'.initialized = plugin.initialized
    BY <1>t, <2>1 DEF Statics
  <2>3. plugin'.plugin_killed \/ plugin'.initialized \in {0, 1}
          => plugin'.viewer_pid = NoConnection
    BY <1>0, <2>2 DEF KnownViewer
  <2>4. Sound(plugin', npp, stack)
    BY <1>0, <2>2, <2>3, FieldsSound
  <2>5. phase = "loaded" => BeforeUse(plugin', npp, stack)
    BY <1>0, <2>2 DEF BeforeUse
  <2> QED
    BY <1>0, <1>t, <2>1, <2>2, <2>4, <2>5, StayStep
<1> QED
  BY <1>1, <1>2, <1>3, <1>4, <1>5, <1>6 DEF Connection

LEMMA HandleReturnsStep == ASSUME RecoveryInvariant, HandleReturns PROVE StepIsSound
<1> DEFINE c == Top.connection
           t == Front(stack)
           b == Last(t)
<1>0. /\ Sound(plugin, npp, stack) /\ TypeOK /\ FramesInOrder(stack)
      /\ phase = "loaded" => BeforeUse(plugin, npp, stack)
      /\ phase = "unloaded" => plugin.viewers = {}
  BY InvariantIsSound DEF RecoveryInvariant
<1>1. stack # <<>> /\ Top.kind = "handle" /\ stack \in Seq(Frame)
  BY <1>0 DEF HandleReturns, TypeOK
<1>2. /\ PoppedTo(t, stack) /\ Len(stack) \in Nat /\ Len(t) \in Nat
      /\ Len(t) = Len(stack) - 1 /\ Top = stack[Len(t) + 1] /\ Top \in Frame
  BY <1>1, FrontIsPopped DEF Top
<1>3. /\ t # <<>> /\ Len(t) > 0 /\ Len(t) + 1 = Len(stack) /\ Len(t) \in 1..Len(stack)
      /\ stack[Len(t)].kind \in Waits /\ c \in Connections
  <2>1. Len(t) + 1 \in 1..Len(stack) /\ Len(t) + 1 - 1 = Len(t) /\ Len(t) + 1 = Len(stack)
    BY <1>1, <1>2
  <2>2. Len(t) + 1 > 1 /\ stack[Len(t) + 1 - 1].kind \in Waits
    BY <1>0, <1>1, <1>2, <2>1 DEF FramesInOrder
  <2>3. Len(t) > 0 /\ t # <<>>
    BY <1>2, <2>2
  <2>4. c \in Connections
    BY <1>2 DEF Frame
  <2> QED
    BY <1>2, <2>1, <2>2, <2>3, <2>4
<1>4. /\ PoppedTo(Front(t), stack) /\ Len(Front(t)) < Len(stack)
      /\ b = stack[Len(Front(t)) + 1] /\ b.kind \in Waits
  <2>1. t \in Seq(Frame)
    BY <1>2 DEF PoppedTo
  <2> HIDE DEF t
  <2>2. /\ PoppedTo(Front(t), t) /\ Len(Front(t)) \in Nat
        /\ Len(Front(t)) = Len(t) - 1
        /\ Last(t) = t[Len(Front(t)) + 1]
    BY <1>3, <2>1, FrontIsPopped
  <2>3. Last(t) = t[Len(t)] /\ t[Len(t)] = stack[Len(t)] /\ Len(Front(t)) + 1 = Len(t)
    BY <1>2, <1>3, <2>2 DEF PoppedTo
  <2> HIDE DEF b
  <2>4. PoppedTo(Front(t), stack)
    BY <1>2, <2>2 DEF PoppedTo
  <2> QED
    BY <1>2, <1>3, <2>2, <2>3, <2>4 DEF b
<1>5. \/ stack' = t /\ plugin' = plugin /\ status' = status /\ npp' = npp
            /\ throttled' = throttled /\ phase' = phase
      \/ b.kind = "sync" /\ SyncFailed(c, Front(t))
      \/ Failed(c, b, Front(t))
  BY DEF HandleReturns
<1>6. Sound(plugin, npp, t) /\ FramesInOrder(t)
        /\ (phase = "loaded" => BeforeUse(plugin, npp, t))
  BY <1>0, <1>1, <1>2, <1>3, PopSound, PopBeforeUse
<1> HIDE DEF t, b, c
<1>7. CASE stack' = t /\ plugin' = plugin /\ status' = status /\ npp' = npp
            /\ throttled' = throttled /\ phase' = phase
  BY <1>0, <1>6, <1>7 DEF StepIsSound, TypeOK
<1>8. CASE b.kind = "sync" /\ SyncFailed(c, Front(t))
  BY <1>3, <1>4, <1>8, SyncFailedStep
<1>9. CASE Failed(c, b, Front(t))
  BY <1>3, <1>4, <1>9, FailedStep
<1> QED
  BY <1>5, <1>7, <1>8, <1>9

LEMMA RecoveryStep == RecoveryInvariant /\ [Next]_vars => RecoveryInvariant' /\ StepIsSound
<1> SUFFICES ASSUME RecoveryInvariant, [Next]_vars PROVE StepIsSound
  BY StepKeepsInvariant
<1>1. ASSUME plugin' = plugin, status' = status, npp' = npp, stack' = stack,
             throttled' \in BOOLEAN, phase' = phase
      PROVE  StepIsSound
  BY <1>1, InvariantIsSound DEF StepIsSound, RecoveryInvariant, TypeOK
<1>2. CASE Tick
  BY <1>1, <1>2 DEF Tick
<1>3. CASE UNCHANGED vars
  BY <1>1, <1>3 DEF vars, RecoveryInvariant, TypeOK
<1> QED
  BY <1>2, <1>3, BrowserStep, ConnectionStep, HandleReturnsStep DEF Next, Terminated

-----------------------------------------------------------------------------
\* The parts of the inductive invariant hold in every state: for any number of
\* viewers lost and restarted, instances and nested calls.
THEOREM RecoveryIsSound == Spec => []RecoveryInvariant
  BY InitInvariant, RecoveryStep, PTL DEF Spec

\* The statics of npw-wrapper.c, the stack and the phases keep their types.
THEOREM RecoveryTypes == Spec => []TypeOK
<1>1. RecoveryInvariant => TypeOK
  BY DEF RecoveryInvariant
<1> QED
  BY <1>1, RecoveryIsSound, PTL

\* Viewers do not pile up, however often one dies, hangs or does not come up
\* (plugin_start, plugin_exit, plugin_exit_sentinel).
THEOREM OneViewerAlways == Spec => []OneViewer
<1>1. RecoveryInvariant => OneViewer
  <2> SUFFICES ASSUME RecoveryInvariant PROVE OneViewer
    OBVIOUS
  <2>1. plugin.viewers \subseteq {plugin.viewer_pid} /\ (phase = "unloaded" => plugin.viewers = {})
    BY DEF RecoveryInvariant, KnownViewer
  <2>2. Cardinality(plugin.viewers) <= 1
    <3> DEFINE p == {plugin.viewer_pid}
    <3>1. IsFiniteSet(p) /\ Cardinality(p) = 1
      BY FS_Singleton
    <3>2. plugin.viewers \in SUBSET p
      BY <2>1
    <3> HIDE DEF p
    <3> QED
      BY <3>1, <3>2, FS_Subset
  <2>3. phase = "unloaded" => Cardinality(plugin.viewers) = 0
    BY <2>1, FS_EmptySet
  <2> QED
    BY <2>2, <2>3 DEF OneViewer
<1> QED
  BY <1>1, RecoveryIsSound, PTL

\* Whatever a step does, the connections of the frames under it keep a
\* reference: the two event sources never give theirs back (plugin_exit).
THEOREM NeverFreedInUse == Spec => NotFreedInUse
<1>1. RecoveryInvariant /\ StepIsSound
        => \A k \in DOMAIN stack : plugin'.refcnt[stack[k].connection] > 0
  <2> SUFFICES ASSUME RecoveryInvariant, StepIsSound, NEW k \in DOMAIN stack
               PROVE  plugin'.refcnt[stack[k].connection] > 0
    OBVIOUS
  <2> DEFINE c == stack[k].connection
  <2>1. stack \in Seq(Frame) /\ Sound(plugin', npp', stack)
    BY DEF RecoveryInvariant, TypeOK, StepIsSound
  <2>2. k \in 1..Len(stack) /\ c \in Connections
    <3>1. k \in 1..Len(stack) /\ stack[k] \in Frame
      BY <2>1
    <3> QED
      BY <3>1 DEF Frame
  <2>3. Used(plugin', npp', stack, c)
    BY <2>2 DEF Used
  <2> HIDE DEF c
  <2>4. plugin'.refcnt[c] >= 2 + Cardinality(On(npp', c)) + Master(plugin', c)
    BY <2>1, <2>2, <2>3 DEF Sound, RefsCover
  <2>5. /\ Cardinality(On(npp', c)) \in Nat /\ Master(plugin', c) \in {0, 1}
        /\ plugin'.refcnt[c] \in Nat
    BY <2>1, <2>2, CountType DEF Sound, Statics, Master
  <2> QED
    BY <2>4, <2>5 DEF c
<1>2. RecoveryInvariant /\ [Next]_vars
        => [\A k \in DOMAIN stack : plugin'.refcnt[stack[k].connection] > 0]_vars
  BY <1>1, RecoveryStep
<1> QED
  BY <1>2, RecoveryIsSound, PTL DEF Spec, NotFreedInUse

-----------------------------------------------------------------------------
(***************************************************************************)
(* What a wrapper knows of its plugin (module ViewerInfo).  The pipe is    *)
(* always what is left of one output, from the place k to the place n      *)
(* where it ends.                                                          *)
(***************************************************************************)

LEMMA PartProps ==
    ASSUME NEW S, NEW O \in Seq(S), NEW k \in Nat, NEW n \in Nat, k <= n, n <= Len(O)
    PROVE  /\ SubSeq(O, k + 1, n) \in Seq(S) /\ Len(SubSeq(O, k + 1, n)) = n - k
           /\ \A i \in 1..(n - k) : SubSeq(O, k + 1, n)[i] = O[k + i]
<1> DEFINE m == k + 1
<1>1. m \in Int /\ n \in Int /\ n - m + 1 = n - k
  OBVIOUS
<1>2. \A i \in m..n : O[i] \in S
  OBVIOUS
<1> HIDE DEF m
<1>3. /\ SubSeq(O, m, n) \in Seq(S)
      /\ Len(SubSeq(O, m, n)) = IF m <= n THEN n - m + 1 ELSE 0
      /\ \A i \in 1..(n - m + 1) : SubSeq(O, m, n)[i] = O[m + i - 1]
  BY <1>1, <1>2, SubSeqProperties
<1>4. Len(SubSeq(O, m, n)) = n - k
  BY <1>1, <1>3 DEF m
<1>5. ASSUME NEW i \in 1..(n - k) PROVE SubSeq(O, m, n)[i] = O[k + i]
  <2>1. SubSeq(O, m, n)[i] = O[m + i - 1]
    BY <1>1, <1>3
  <2>2. m + i - 1 = k + i
    BY DEF m
  <2> QED
    BY <2>1, <2>2
<1> QED
  BY <1>3, <1>4, <1>5 DEF m

LEMMA HasSome ==
    ASSUME NEW S, NEW s \in Seq(S), Len(s) # 0
    PROVE  s # <<>>
  OBVIOUS

LEMMA WholeIs ==
    ASSUME NEW S, NEW s \in Seq(S), NEW l \in Nat, Len(s) = l, l # 0, s[l] = Newline
    PROVE  Whole(s)
<1>1. s # <<>>
  BY HasSome
<1> QED
  BY <1>1 DEF Whole, Last

LEMMA SameSequence ==
    ASSUME NEW S, NEW s \in Seq(S), NEW t \in Seq(S), Len(s) = Len(t),
           \A i \in 1..Len(s) : s[i] = t[i]
    PROVE  s = t
  OBVIOUS

\* A part of a part
LEMMA PartOfPart ==
    ASSUME NEW S, NEW O \in Seq(S), NEW k \in Nat, NEW n \in Nat, k <= n, n <= Len(O),
           NEW i \in Nat, NEW j \in Nat, i <= j, j <= n - k
    PROVE  SubSeq(SubSeq(O, k + 1, n), i + 1, j) = SubSeq(O, k + i + 1, k + j)
<1> DEFINE P == SubSeq(O, k + 1, n)
           Q == SubSeq(P, i + 1, j)
           a == k + i
           b == k + j
           R == SubSeq(O, a + 1, b)
<1>1. P \in Seq(S) /\ Len(P) = n - k /\ \A x \in 1..(n - k) : P[x] = O[k + x]
  BY PartProps
<1> HIDE DEF P
<1>2. Q \in Seq(S) /\ Len(Q) = j - i /\ \A x \in 1..(j - i) : Q[x] = P[i + x]
  BY <1>1, PartProps
<1>3. a \in Nat /\ b \in Nat /\ a <= b /\ b <= Len(O)
  OBVIOUS
<1> HIDE DEF a, b
<1>4. R \in Seq(S) /\ Len(R) = b - a /\ \A x \in 1..(b - a) : R[x] = O[a + x]
  BY <1>3, PartProps
<1> HIDE DEF Q, R
<1>5. ASSUME NEW x \in 1..(j - i) PROVE Q[x] = R[x]
  <2>1. i + x \in 1..(n - k) /\ x \in 1..(b - a) /\ k + (i + x) = a + x
    BY DEF a, b
  <2> QED
    BY <1>1, <1>2, <1>4, <2>1
<1>6. Len(Q) = Len(R) /\ \A x \in 1..Len(Q) : Q[x] = R[x]
  <2>1. b - a = j - i
    BY DEF a, b
  <2>2. Len(Q) = j - i /\ Len(R) = j - i
    BY <1>2, <1>4, <2>1
  <2> QED
    BY <1>5, <2>2
<1>7. Q = R
  BY <1>2, <1>4, <1>6, SameSequence
<1> QED
  BY <1>7 DEF Q, R, P, a, b

\* fgets takes something unless there is nothing, or nothing is asked for,
\* and nothing behind the end of the line.
LEMMA FgetsProps ==
    ASSUME NEW S, NEW s \in Seq(S), NEW m \in Nat
    PROVE  \E l \in 0..Len(s) :
             /\ fgets(s, m) = SubSeq(s, 1, l) /\ l <= m
             /\ \A i \in 1..l : s[i] = Newline => i = l
             /\ l = Len(s) \/ l = m \/ (l > 0 /\ s[l] = Newline)
<1> DEFINE upto == IF Len(s) < m THEN Len(s) ELSE m
           ends == {i \in 1..upto : s[i] = Newline}
           e == CHOOSE i \in ends : \A j \in ends : i <= j
<1>1. upto \in 0..Len(s) /\ upto <= m /\ (upto = Len(s) \/ upto = m)
  OBVIOUS
<1>2. CASE ends = {}
  <2>1. fgets(s, m) = SubSeq(s, 1, upto)
    BY <1>2 DEF fgets
  <2> QED
    BY <1>1, <1>2, <2>1
<1>3. CASE ends # {}
  <2>1. ends \subseteq Nat
    OBVIOUS
  <2>2. \E i \in ends : \A j \in ends : i <= j
    <3> HIDE DEF ends
    <3> QED
      BY <1>3, <2>1, LeastNumber
  <2>3. e \in ends /\ \A j \in ends : e <= j
    <3> HIDE DEF ends
    <3> QED
      BY <2>2, Zenon
  <2>4. fgets(s, m) = SubSeq(s, 1, e)
    BY <1>3 DEF fgets
  <2> HIDE DEF e
  <2>5. e \in 0..Len(s) /\ e <= m /\ e > 0 /\ s[e] = Newline
    BY <1>1, <2>3
  <2>6. ASSUME NEW i \in 1..e, s[i] = Newline PROVE i = e
    <3>1. i \in ends
      BY <1>1, <2>3, <2>5, <2>6
    <3> QED
      BY <2>3, <2>5, <3>1
  <2> QED
    BY <2>4, <2>5, <2>6
<1> QED
  BY <1>2, <1>3

\* A line of the pipe has l characters; and what is left after it.
IsLine(O, k, n, m, l) ==
    LET line == SubSeq(O, k + 1, k + l)
    IN  /\ fgets(SubSeq(O, k + 1, n), m) = line /\ Len(line) = l /\ l <= m
        /\ \A i \in (k + 1)..(k + l) : O[i] = Newline => i = k + l
        /\ l = n - k \/ l = m \/ (l > 0 /\ O[k + l] = Newline)
        /\ After(SubSeq(O, k + 1, n), line) = SubSeq(O, k + l + 1, n)

LEMMA LineProps ==
    ASSUME NEW S, NEW O \in Seq(S), NEW k \in Nat, NEW n \in Nat, k <= n, n <= Len(O), NEW m \in Nat
    PROVE  \E l \in 0..(n - k) : IsLine(O, k, n, m, l)
<1> DEFINE P == SubSeq(O, k + 1, n)
<1>1. P \in Seq(S) /\ Len(P) = n - k /\ \A x \in 1..(n - k) : P[x] = O[k + x]
  BY PartProps
<1> HIDE DEF P
<1>2. PICK l \in 0..Len(P) :
         /\ fgets(P, m) = SubSeq(P, 1, l) /\ l <= m
         /\ \A i \in 1..l : P[i] = Newline => i = l
         /\ l = Len(P) \/ l = m \/ (l > 0 /\ P[l] = Newline)
  BY <1>1, FgetsProps
<1>3. l \in 0..(n - k) /\ l \in Nat /\ n - k \in Nat
  BY <1>1, <1>2
<1>4. SubSeq(P, 1, l) = SubSeq(O, k + 1, k + l)
  <2> DEFINE i == 0
  <2>1. i \in Nat /\ i <= l /\ l <= n - k
    BY <1>3
  <2> HIDE DEF i
  <2>2. SubSeq(SubSeq(O, k + 1, n), i + 1, l) = SubSeq(O, k + i + 1, k + l)
    BY <1>3, <2>1, PartOfPart
  <2>3. i + 1 = 1 /\ k + i + 1 = k + 1
    BY DEF i
  <2> QED
    BY <2>2, <2>3 DEF P
<1>5. Len(SubSeq(O, k + 1, k + l)) = l
  <2> DEFINE b == k + l
  <2>1. b \in Nat /\ k <= b /\ b <= Len(O) /\ b - k = l
    BY <1>3
  <2> HIDE DEF b
  <2>2. Len(SubSeq(O, k + 1, b)) = b - k
    BY <2>1, PartProps
  <2> QED
    BY <2>1, <2>2 DEF b
<1>6. After(P, SubSeq(O, k + 1, k + l)) = SubSeq(O, k + l + 1, n)
  <2> DEFINE j == n - k
  <2>1. j \in Nat /\ l <= j /\ j <= n - k /\ k + j = n /\ Len(P) = j
    BY <1>1, <1>3
  <2> HIDE DEF j
  <2>2. SubSeq(SubSeq(O, k + 1, n), l + 1, j) = SubSeq(O, k + l + 1, k + j)
    BY <1>3, <2>1, PartOfPart
  <2> QED
    BY <1>5, <2>1, <2>2 DEF After, P
<1>7. \A i \in (k + 1)..(k + l) : O[i] = Newline => i = k + l
  <2> SUFFICES ASSUME NEW i \in (k + 1)..(k + l), O[i] = Newline PROVE i = k + l
    OBVIOUS
  <2>1. i - k \in 1..l /\ i - k \in 1..(n - k) /\ k + (i - k) = i
    BY <1>3
  <2>2. P[i - k] = Newline
    BY <1>1, <2>1
  <2>3. i - k = l
    BY <1>2, <2>1, <2>2
  <2> QED
    BY <1>3, <2>3
<1>8. l = n - k \/ l = m \/ (l > 0 /\ O[k + l] = Newline)
  BY <1>1, <1>2, <1>3
<1> QED
  BY <1>2, <1>3, <1>4, <1>5, <1>6, <1>7, <1>8 DEF P, IsLine

\* What an output is made of, and where its parts begin: the noise of the
\* library, and then a part for each of the strings, if the plugin has it.
Letters == UNION {{t[i] : i \in 1..Len(t)} : t \in Texts \cup Chatter}
Items == Letters \cup [tag : Words, len : Nat] \cup {Newline}
Field == <<"PLUGIN_NAME", "PLUGIN_DESC", "PLUGIN_MIME">>

\* No tag of the viewer's
Foreign(c) == IsTag(c) => c.tag \notin Fields

Segment(O, from, to, f, t) ==
    IF t = NoText THEN to = from
    ELSE /\ Len(t) \in Nat /\ t \in Seq(Items) /\ to = from + Len(t) + 3
         /\ O[from + 1] = Tag(f, Len(t)) /\ O[from + 2] = Newline /\ O[to] = Newline
         /\ \A i \in 1..Len(t) : O[from + 2 + i] = t[i] /\ t[i] # Newline /\ Foreign(t[i])

Layout(O, b, said) ==
    /\ O \in Seq(Items) /\ b \in [1..4 -> 0..Len(O)] /\ b[4] = Len(O)
    /\ \A i \in 1..b[1] : Foreign(O[i])
    /\ b[1] > 0 => O[b[1]] = Newline
    /\ \A j \in 1..3 : Segment(O, b[j], b[j + 1], Field[j], said[Field[j]])

\* The wrapper has come to k, in what is no tag any more before part j.
At(O, b, n, k, j) ==
    /\ n \in 0..Len(O) /\ k \in 0..n /\ j \in 1..4 /\ k <= b[j]
    /\ \A i \in (k + 1)..b[j] : i <= n => ~IsTag(O[i])
    /\ k < b[j] => O[b[j]] = Newline

\* It has the strings of the parts before, as far as they came through.
Has(g, said, killed, j) ==
    \A i \in 1..3 :
        IF i >= j THEN g[Field[i]] = NoText
        ELSE \/ g[Field[i]] = said[Field[i]]
             \/ /\ killed /\ said[Field[i]] # NoText
                /\ g[Field[i]] # NoText => IsPrefix(g[Field[i]], said[Field[i]])

Progress(O, b, said, killed, p, g, rd) ==
    \E n \in 0..Len(O), k \in 0..Len(O), j \in 1..4 :
        /\ At(O, b, n, k, j) /\ Has(g, said, killed, j)
        /\ p = SubSeq(O, k + 1, n) /\ (~killed => n = Len(O))
        /\ rd = "rest" => k < b[j]

LEMMA LayoutTypes ==
    ASSUME NEW O, NEW b, NEW said, Layout(O, b, said)
    PROVE  /\ O \in Seq(Items) /\ Len(O) \in Nat /\ b[4] = Len(O)
           /\ \A j \in 1..4 : b[j] \in 0..Len(O)
  BY DEF Layout

\* Reading a line where a line that is no tag has not ended yet
LEMMA SkipLine ==
    ASSUME NEW O, NEW b, NEW said, Layout(O, b, said), NEW n, NEW k, NEW j,
           At(O, b, n, k, j), k < b[j], k < n
    PROVE  \E l \in Nat :
             LET line == fgets(SubSeq(O, k + 1, n), LineSize)
             IN  /\ After(SubSeq(O, k + 1, n), line) = SubSeq(O, k + l + 1, n)
                 /\ At(O, b, n, k + l, j)
                 /\ ~Announces(line)
                 /\ ~Whole(line) => k + l < b[j]
<1> DEFINE P == SubSeq(O, k + 1, n)
           line == fgets(P, LineSize)
<1>1. /\ n \in Nat /\ k \in Nat /\ n <= Len(O) /\ k <= n /\ j \in 1..4 /\ b[j] \in Nat
      /\ O \in Seq(Items) /\ Len(O) \in Nat
      /\ LineSize \in Nat /\ LineSize > 0
      /\ O[b[j]] = Newline /\ \A i \in (k + 1)..b[j] : i <= n => ~IsTag(O[i])
  BY LayoutTypes, InfoAssumption DEF At
<1>2. PICK l \in 0..(n - k) :
         /\ line = SubSeq(O, k + 1, k + l) /\ l <= LineSize
         /\ \A i \in (k + 1)..(k + l) : O[i] = Newline => i = k + l
         /\ l = n - k \/ l = LineSize \/ (l > 0 /\ O[k + l] = Newline)
         /\ Len(SubSeq(O, k + 1, k + l)) = l
         /\ After(P, SubSeq(O, k + 1, k + l)) = SubSeq(O, k + l + 1, n)
  <2> DEFINE m == LineSize
  <2>1. O \in Seq(Items) /\ k \in Nat /\ n \in Nat /\ k <= n /\ n <= Len(O) /\ m \in Nat
    BY <1>1
  <2> HIDE DEF P, line, m
  <2>2. \E l \in 0..(n - k) : IsLine(O, k, n, m, l)
    BY <2>1, LineProps
  <2> QED
    BY <2>2, Zenon DEF P, line, m, IsLine
<1>3. l > 0 /\ l \in Nat
  BY <1>1, <1>2
<1> DEFINE e == k + l
<1>4. e \in Nat /\ k <= e /\ e <= n /\ e <= Len(O) /\ e - k = l /\ k < e
  BY <1>1, <1>2, <1>3
<1>5. e <= b[j]
  <2> SUFFICES ASSUME e > b[j] PROVE FALSE
    BY <1>1, <1>4
  <2>1. b[j] \in (k + 1)..(k + l)
    BY <1>1, <1>4
  <2> QED
    BY <1>1, <1>2, <1>4, <2>1
<1> HIDE DEF P, line
<1>6. /\ line # <<>> /\ Last(line) = O[e] /\ Len(line) = l
      /\ \A i \in 1..l : line[i] = O[k + i]
  <2> HIDE DEF e
  <2>1. /\ SubSeq(O, k + 1, e) \in Seq(Items) /\ Len(SubSeq(O, k + 1, e)) = e - k
        /\ \A i \in 1..(e - k) : SubSeq(O, k + 1, e)[i] = O[k + i]
    BY <1>1, <1>4, PartProps
  <2>2. line = SubSeq(O, k + 1, e)
    BY <1>2 DEF e
  <2>3. Len(line) = l /\ line[l] = O[k + l] /\ line # <<>>
    <3>1. Len(line) = l /\ l \in 1..(e - k) /\ line \in Seq(Items)
      BY <1>3, <1>4, <2>1, <2>2
    <3>2. line[l] = O[k + l]
      BY <2>1, <2>2, <3>1
    <3> QED
      BY <1>3, <3>1, <3>2
  <2>4. \A i \in 1..l : line[i] = O[k + i]
    BY <1>4, <2>1, <2>2
  <2> QED
    BY <2>3, <2>4 DEF Last, e
<1>7. ~Announces(line)
  <2>1. ASSUME NEW i \in 1..l PROVE ~IsTag(line[i])
    <3>1. k + i \in (k + 1)..b[j] /\ k + i <= n /\ line[i] = O[k + i]
      BY <1>1, <1>4, <1>5, <1>6 DEF e
    <3> QED
      BY <1>1, <3>1
  <2> QED
    BY <1>6, <2>1 DEF Announces
<1>8. At(O, b, n, e, j)
  <2>1. n \in 0..Len(O) /\ e \in 0..n
    BY <1>1, <1>4
  <2>2. \A i \in (e + 1)..b[j] : i <= n => ~IsTag(O[i])
    BY <1>1, <1>4
  <2> QED
    BY <1>1, <1>5, <2>1, <2>2 DEF At
<1>9. ASSUME ~Whole(line) PROVE e < b[j]
  <2> SUFFICES ASSUME e = b[j] PROVE FALSE
    BY <1>1, <1>4, <1>5
  <2>1. O[e] = Newline
    BY <1>1
  <2> QED
    BY <1>6, <1>9, <2>1 DEF Whole
<1> QED
  BY <1>2, <1>3, <1>6, <1>7, <1>8, <1>9 DEF e, line, P

\* Strings that the plugin does not have are passed over.
LEMMA NextPart ==
    ASSUME NEW O, NEW b, NEW said, Layout(O, b, said), NEW n, NEW k, NEW j, NEW g, NEW killed,
           At(O, b, n, k, j), k = b[j], Has(g, said, killed, j)
    PROVE  \E m \in 1..4 : /\ At(O, b, n, k, m) /\ k = b[m] /\ Has(g, said, killed, m)
                           /\ m = 4 \/ said[Field[m]] # NoText
<1>1. ASSUME NEW m \in 1..3, At(O, b, n, k, m), k = b[m], Has(g, said, killed, m),
             said[Field[m]] = NoText
      PROVE  At(O, b, n, k, m + 1) /\ k = b[m + 1] /\ Has(g, said, killed, m + 1)
  <2>1. b[m + 1] = b[m] /\ m + 1 \in 1..4
    BY <1>1 DEF Layout, Segment
  <2>2. At(O, b, n, k, m + 1)
    BY <1>1, <2>1 DEF At
  <2>3. Has(g, said, killed, m + 1)
    BY <1>1 DEF Has
  <2> QED
    BY <1>1, <2>1, <2>2, <2>3
<1> DEFINE Good(m) == At(O, b, n, k, m) /\ k = b[m] /\ Has(g, said, killed, m)
           Found(m) == Good(m) /\ (m = 4 \/ said[Field[m]] # NoText)
<1>2. Good(j) /\ j \in 1..4
  BY DEF At
<1>3. \A m \in 1..3 : Good(m) => Found(m) \/ Good(m + 1)
  BY <1>1
<1> HIDE DEF Good
<1>4. Good(4) => Found(4)
  OBVIOUS
<1>5. Good(3) => Found(3) \/ Found(4)
  <2>1. 3 + 1 = 4 /\ 3 \in 1..3
    OBVIOUS
  <2> QED
    BY <1>3, <1>4, <2>1
<1>6. Good(2) => Found(2) \/ Found(3) \/ Found(4)
  <2>1. 2 + 1 = 3 /\ 2 \in 1..3
    OBVIOUS
  <2> QED
    BY <1>3, <1>5, <2>1
<1>7. Good(1) => Found(1) \/ Found(2) \/ Found(3) \/ Found(4)
  <2>1. 1 + 1 = 2 /\ 1 \in 1..3
    OBVIOUS
  <2> QED
    BY <1>3, <1>6, <2>1
<1>8. \E m \in 1..4 : Found(m)
  BY <1>2, <1>4, <1>5, <1>6, <1>7
<1> QED
  BY <1>8 DEF Good

LEMMA TagIs ==
    ASSUME NEW f \in Words, NEW n \in Nat
    PROVE  /\ IsTag(Tag(f, n)) /\ Tag(f, n) # Newline /\ Tag(f, n).tag = f /\ Tag(f, n).len = n
           /\ Tag(f, n) \in Items
<1>1. Tag(f, n) \in [tag : Words, len : Nat]
  BY DEF Tag
<1>2. Tag(f, n) # Newline
  BY <1>1, InfoAssumption
<1>3. "tag" \in DOMAIN Tag(f, n) /\ Tag(f, n).tag = f /\ Tag(f, n).len = n
  BY DEF Tag
<1>4. Tag(f, n) \in Items
  <2>1. [tag : Words, len : Nat] \subseteq Items
    BY Zenon DEF Items
  <2> QED
    BY <1>1, <2>1, Zenon
<1>5. IsTag(Tag(f, n))
  BY <1>2, <1>3 DEF IsTag
<1> QED
  BY <1>2, <1>3, <1>4, <1>5

LEMMA FieldsAreWords == \A f \in Fields : f \in Words /\ f # "other"
  BY DEF Words, Fields

Places(k, n, h, l) ==
    /\ k + 2 + l \in 0..n /\ k + 2 + l < k + h + 3
    /\ \A i \in (k + 2 + l + 1)..(k + h + 3) :
          i = k + h + 3 \/ \E x \in (l + 1)..h : k + 2 + x = i

LEMMA Behind ==
    ASSUME NEW k \in Nat, NEW n \in Nat, NEW h \in Nat, NEW l \in 0..h, NEW e, e = k + 2 + l, e <= n
    PROVE  Places(k, n, h, l)
<1>1. ASSUME NEW i \in (k + 2 + l + 1)..(k + h + 3), i # k + h + 3
      PROVE  \E x \in (l + 1)..h : k + 2 + x = i
  <2>1. i - (k + 2) \in (l + 1)..h /\ k + 2 + (i - (k + 2)) = i
    BY <1>1
  <2> QED
    BY <2>1
<1>2. k + 2 + l \in 0..n /\ k + 2 + l < k + h + 3
  OBVIOUS
<1> QED
  BY <1>1, <1>2 DEF Places

LEMMA NotWhole ==
    ASSUME NEW k \in Nat, NEW h \in Nat, NEW l \in Nat, NEW z \in Nat, NEW c,
           k + h + 3 <= z, c = k + 2, l = z - c
    PROVE  ~(l <= h)
  OBVIOUS

\* A line of a tag announces the string behind it.
LEMMA TagLineIs ==
    ASSUME NEW line \in Seq(Items), Len(line) = 2, NEW f \in Fields, NEW h \in Nat,
           line[1] = Tag(f, h), line[2] = Newline
    PROVE  Whole(line) /\ Announces(line) /\ Announced(line) = h /\ IsOwn(line)
<1>1. f \in Words /\ IsTag(line[1]) /\ line[1].tag = f /\ line[1].len = h
  BY FieldsAreWords, TagIs
<1>2. Whole(line)
  <2>1. 2 \in Nat /\ 2 # 0
    OBVIOUS
  <2> QED
    BY <2>1, WholeIs, Zenon
<1>3. Announces(line)
  BY <1>1, <1>2 DEF Announces
<1> DEFINE Leading(i) == IsTag(line[i]) /\ \A g \in 1..i - 1 : ~IsTag(line[g])
           c == CHOOSE i \in 1..Len(line) : Leading(i)
<1>4. ASSUME NEW i \in 1..Len(line), Leading(i) PROVE i = 1
  <2>1. i = 1 \/ (i = 2 /\ 1 \in 1..i - 1)
    OBVIOUS
  <2> QED
    BY <1>1, <1>4, <2>1
<1>5. 1 \in 1..Len(line) /\ Leading(1)
  BY <1>1
<1>6. c \in 1..Len(line) /\ Leading(c)
  <2> HIDE DEF Leading
  <2> QED
    BY <1>5, Zenon
<1>7. c = 1
  <2> HIDE DEF Leading, c
  <2> QED
    BY <1>4, <1>6
<1>8. Announced(line) = line[c].len
  BY DEF Announced
<1> HIDE DEF c
<1> QED
  BY <1>1, <1>2, <1>3, <1>7, <1>8 DEF IsOwn

\* Reading a tag and the string behind it, of which the pipe may have only a
\* part.
IsTagRead(O, b, n, k, j, f, t, line, rest, str) ==
    /\ Whole(line) /\ Announces(line) /\ IsOwn(line) /\ line[1] = Tag(f, Len(t))
    /\ \E l \in 0..Len(t) :
          /\ After(rest, str) = SubSeq(O, k + 2 + l + 1, n)
          /\ At(O, b, n, k + 2 + l, j + 1)
          /\ n = Len(O) => l = Len(t)
          /\ l = Len(t) => str = t
          /\ IsPrefix(str, t) /\ (str = <<>> => l = 0)

LEMMA TagLine ==
    ASSUME NEW O, NEW b, NEW said, Layout(O, b, said), NEW n, NEW k, NEW j \in 1..3,
           At(O, b, n, k, j), k = b[j], k + 1 < n, said[Field[j]] # NoText
    PROVE  LET P == SubSeq(O, k + 1, n)
               line == fgets(P, LineSize)
               str == fgets(After(P, line), Announced(line))
           IN  IsTagRead(O, b, n, k, j, Field[j], said[Field[j]], line, After(P, line), str)
<1> DEFINE f == Field[j]
           t == said[f]
           h == Len(t)
           m == LineSize
           c == k + 2
           line == SubSeq(O, k + 1, c)
<1>1. /\ n \in Nat /\ k \in Nat /\ n <= Len(O) /\ k <= n
      /\ O \in Seq(Items) /\ Len(O) \in Nat
      /\ m \in Nat /\ m > 1 /\ f \in Fields /\ j + 1 \in 1..4
      /\ b[j + 1] \in Nat /\ b[j + 1] <= Len(O)
  BY LayoutTypes, InfoAssumption DEF At, Field, Fields
<1>2. /\ h \in Nat /\ t \in Seq(Items) /\ b[j + 1] = k + h + 3
      /\ O[k + 1] = Tag(f, h) /\ O[k + 2] = Newline /\ O[k + h + 3] = Newline
      /\ \A i \in 1..h : O[k + 2 + i] = t[i] /\ t[i] # Newline
  BY DEF Layout, Segment
<1>3. O[k + 1] # Newline
  BY <1>1, <1>2, TagIs, FieldsAreWords
<1> HIDE DEF m, f, t, h
<1>4. IsLine(O, k, n, m, 2)
  <2>1. PICK l \in 0..(n - k) : IsLine(O, k, n, m, l)
    BY <1>1, LineProps
  <2>2. l \in Nat /\ l # 0 /\ l # 1
    <3>1. l = n - k \/ l = m \/ (l > 0 /\ O[k + l] = Newline)
      BY <2>1 DEF IsLine
    <3> QED
      BY <1>1, <1>3, <2>1, <3>1
  <2>3. k + 2 \in (k + 1)..(k + l)
    BY <1>1, <2>1, <2>2
  <2>4. k + 2 = k + l
    BY <1>2, <2>1, <2>3 DEF IsLine
  <2>5. l = 2
    BY <1>1, <2>1, <2>4
  <2> QED
    BY <2>1, <2>5
<1>5. /\ fgets(SubSeq(O, k + 1, n), m) = line /\ Len(line) = 2
      /\ After(SubSeq(O, k + 1, n), line) = SubSeq(O, c + 1, n)
  BY <1>4 DEF IsLine
<1>6. c \in Nat /\ c <= n /\ c = k + 2
  BY <1>1
<1>7. line[1] = Tag(f, h) /\ Whole(line) /\ Announces(line) /\ Announced(line) = h /\ IsOwn(line)
  <2>1. /\ SubSeq(O, k + 1, c) \in Seq(Items) /\ Len(SubSeq(O, k + 1, c)) = c - k
        /\ \A i \in 1..(c - k) : SubSeq(O, k + 1, c)[i] = O[k + i]
    <3>1. k \in Nat /\ c \in Nat /\ k <= c /\ c <= Len(O) /\ O \in Seq(Items)
      BY <1>1, <1>6
    <3> HIDE DEF c
    <3> QED
      BY <3>1, PartProps
  <2>2. c - k = 2
    BY <1>1
  <2>3. 1 \in 1..(c - k) /\ 2 \in 1..(c - k)
    BY <2>2
  <2> HIDE DEF c
  <2>4. line \in Seq(Items) /\ line[1] = O[k + 1] /\ line[2] = O[k + 2]
    BY <2>1, <2>3
  <2> HIDE DEF line
  <2>5. line[1] = Tag(f, h) /\ line[2] = Newline
    BY <1>2, <2>4
  <2> QED
    BY <1>1, <1>2, <1>5, <2>4, <2>5, TagLineIs
<1> HIDE DEF line, c
<1>8. PICK l \in 0..(n - c) : IsLine(O, c, n, h, l)
  BY <1>1, <1>2, <1>6, LineProps
<1> DEFINE e == c + l
           str == SubSeq(O, c + 1, e)
<1>a. l \in Nat /\ l <= n - c /\ n - c \in Nat
  BY <1>1, <1>6, <1>8
<1>9. /\ l \in Nat /\ l <= h /\ fgets(SubSeq(O, c + 1, n), h) = str /\ Len(str) = l
      /\ After(SubSeq(O, c + 1, n), str) = SubSeq(O, e + 1, n)
      /\ l = n - c \/ l = h \/ (l > 0 /\ O[e] = Newline)
  BY <1>a, <1>8, Zenon DEF IsLine
<1>10. e \in Nat /\ c <= e /\ e <= n /\ e - c = l /\ e = k + 2 + l
  <2>1. c \in Nat /\ k \in Nat /\ c = k + 2 /\ n \in Nat
    BY <1>1, <1>6
  <2> HIDE DEF str
  <2> QED
    BY <2>1, <1>a
<1> HIDE DEF e, str
<1> DEFINE q == b[j + 1]
<1>b. /\ k \in Nat /\ n \in Nat /\ h \in Nat /\ l \in 0..h /\ k + 2 + l <= n
      /\ Len(O) \in Nat /\ n <= Len(O) /\ q = k + h + 3 /\ k + h + 3 <= Len(O)
      /\ e = k + 2 + l /\ c = k + 2
  BY <1>1, <1>2, <1>6, <1>9, <1>10
<1> HIDE DEF q
<1>11. l = n - c \/ l = h
  <2> SUFFICES ASSUME l > 0, O[e] = Newline PROVE FALSE
    BY <1>9
  <2>1. l \in 1..h /\ k + 2 + l = e
    BY <1>b
  <2> QED
    BY <1>2, <2>1
<1>12. n = Len(O) => l = h
  <2> SUFFICES ASSUME n = Len(O), l = n - c PROVE FALSE
    BY <1>11
  <2> DEFINE z == Len(O)
  <2>1. /\ k \in Nat /\ h \in Nat /\ l \in Nat /\ l <= h /\ z \in Nat
        /\ k + h + 3 <= z /\ c = k + 2 /\ l = z - c
    BY <1>b
  <2> HIDE DEF z
  <2>2. ~(l <= h)
    BY <2>1, NotWhole, Zenon
  <2> QED
    BY <2>1, <2>2
<1>13. At(O, b, n, e, j + 1)
  <2>0. /\ k + 2 + l \in 0..n /\ k + 2 + l < k + h + 3
        /\ \A i \in (k + 2 + l + 1)..(k + h + 3) :
              i = k + h + 3 \/ \E x \in (l + 1)..h : k + 2 + x = i
    <3>1. k \in Nat /\ n \in Nat /\ h \in Nat /\ l \in 0..h /\ e = k + 2 + l /\ e <= n
      BY <1>b, <1>10
    <3>2. Places(k, n, h, l)
      BY <3>1, Behind, Zenon
    <3> QED
      BY <3>2 DEF Places
  <2>1. n \in 0..Len(O) /\ e \in 0..n /\ e < q
    BY <1>b, <2>0
  <2>2. ASSUME NEW i \in (e + 1)..q, i <= n PROVE ~IsTag(O[i])
    <3>1. i = k + h + 3 \/ \E x \in (l + 1)..h : k + 2 + x = i
      BY <1>b, <2>0, <2>2, Zenon
    <3>2. CASE i = k + h + 3
      BY <1>2, <3>2 DEF IsTag
    <3>3. ASSUME NEW x \in (l + 1)..h, k + 2 + x = i PROVE FALSE
      <4>1. l # h
        BY <1>b, <3>3
      <4>2. l = n - c
        BY <1>11, <4>1
      <4>3. n = e
        <5>1. n \in Nat /\ c \in Nat /\ e \in Nat /\ e - c = l /\ l = n - c
          BY <1>b, <1>6, <1>10, <4>2
        <5> HIDE DEF c
        <5> QED
          BY <5>1
      <4>4. e \in Nat /\ q \in Nat /\ i \in (e + 1)..q /\ i <= e
        BY <1>b, <1>10, <2>2, <4>3
      <4> QED
        BY <4>4
    <3> QED
      BY <3>1, <3>2, <3>3
  <2>3. O[q] = Newline
    BY <1>b, <1>2
  <2> QED
    BY <1>1, <2>1, <2>2, <2>3 DEF At, q
<1>14. str \in Seq(Items) /\ \A i \in 1..l : str[i] = t[i]
  <2>1. /\ SubSeq(O, c + 1, e) \in Seq(Items)
        /\ \A i \in 1..(e - c) : SubSeq(O, c + 1, e)[i] = O[c + i]
    <3>1. e \in Nat /\ c \in Nat /\ c <= e /\ e <= n
      BY <1>6, <1>10
    <3>2. n \in Nat /\ n <= Len(O) /\ Len(O) \in Nat
      BY <1>b
    <3>3. e <= Len(O)
      BY <3>1, <3>2
    <3>4. O \in Seq(Items)
      BY <1>1
    <3> QED
      BY <3>1, <3>3, <3>4, PartProps
  <2>2. \A i \in 1..l : i \in 1..h /\ c + i = k + 2 + i
    BY <1>2, <1>6, <1>9
  <2> QED
    BY <1>2, <1>10, <2>1, <2>2 DEF str
<1>15. l = h => str = t
  BY <1>2, <1>9, <1>14, SameSequence DEF h
<1>16. IsPrefix(str, t)
  <2> DEFINE z == 0
  <2>1. z \in Nat /\ z <= l /\ l <= Len(str) /\ l <= Len(t) /\ z + 1 = 1 /\ l - z = l
    BY <1>2, <1>9 DEF h
  <2> HIDE DEF z
  <2>2. /\ SubSeq(str, z + 1, l) \in Seq(Items) /\ Len(SubSeq(str, z + 1, l)) = l - z
        /\ \A i \in 1..(l - z) : SubSeq(str, z + 1, l)[i] = str[z + i]
    BY <1>9, <1>14, <2>1, PartProps
  <2>3. /\ SubSeq(t, z + 1, l) \in Seq(Items) /\ Len(SubSeq(t, z + 1, l)) = l - z
        /\ \A i \in 1..(l - z) : SubSeq(t, z + 1, l)[i] = t[z + i]
    BY <1>2, <1>9, <2>1, PartProps
  <2>4. \A i \in 1..(l - z) : str[z + i] = t[z + i]
    BY <1>14 DEF z
  <2>5. SubSeq(str, z + 1, l) = SubSeq(t, z + 1, l)
    BY <2>1, <2>2, <2>3, <2>4, SameSequence
  <2> QED
    BY <1>9, <2>1, <2>5 DEF IsPrefix
<1>17. str = <<>> => l = 0
  BY <1>9
<1>18. l \in 0..h
  BY <1>2, <1>9
<1>20. /\ After(SubSeq(O, c + 1, n), str) = SubSeq(O, k + 2 + l + 1, n)
       /\ At(O, b, n, k + 2 + l, j + 1)
  BY <1>9, <1>10, <1>13
<1>22. fgets(After(SubSeq(O, k + 1, n), line), Announced(line)) = str
  BY <1>5, <1>7, <1>9
<1> QED
  BY <1>2, <1>5, <1>7, <1>12, <1>15, <1>16, <1>17, <1>18, <1>20, <1>22 DEF m, h, t, f, IsTagRead

\* What the viewer prints, part by part
Text(t) == t \in Seq(Items) /\ \A i \in 1..Len(t) : t[i] # Newline /\ Foreign(t[i])
Part(f, t) == IF t = NoText THEN <<>> ELSE <<Tag(f, Len(t)), Newline>> \o t \o <<Newline>>

LEMMA PartIs ==
    ASSUME NEW f \in Fields, NEW t, t # NoText, Text(t)
    PROVE  /\ Part(f, t) \in Seq(Items) /\ Len(Part(f, t)) = Len(t) + 3 /\ Len(t) \in Nat
           /\ Part(f, t)[1] = Tag(f, Len(t)) /\ Part(f, t)[2] = Newline
           /\ Part(f, t)[Len(t) + 3] = Newline
           /\ \A i \in 1..Len(t) : Part(f, t)[2 + i] = t[i]
<1> DEFINE h == Tag(f, Len(t))
           a == <<h, Newline>>
           u == a \o t
           v == <<Newline>>
<1>1. t \in Seq(Items) /\ Len(t) \in Nat
  BY DEF Text
<1>2. h \in Items /\ Newline \in Items
  BY <1>1, TagIs, FieldsAreWords DEF Items
<1> HIDE DEF h
<1>3. a \in Seq(Items) /\ Len(a) = 2 /\ a[1] = h /\ a[2] = Newline
  BY <1>2
<1>4. v \in Seq(Items) /\ Len(v) = 1 /\ v[1] = Newline
  BY <1>2
<1> HIDE DEF a, v
<1>5. /\ u \in Seq(Items) /\ Len(u) = 2 + Len(t)
      /\ \A i \in 1..(2 + Len(t)) : u[i] = IF i <= 2 THEN a[i] ELSE t[i - 2]
  <2>1. /\ u \in Seq(Items) /\ Len(u) = Len(a) + Len(t)
        /\ \A i \in 1..(Len(a) + Len(t)) : u[i] = IF i <= Len(a) THEN a[i] ELSE t[i - Len(a)]
    BY <1>1, <1>3, ConcatProperties
  <2> HIDE DEF u
  <2> QED
    BY <1>3, <2>1
<1>6. u[1] = h /\ u[2] = Newline /\ \A i \in 1..Len(t) : u[2 + i] = t[i]
  <2>1. ASSUME NEW i \in 1..Len(t) PROVE u[2 + i] = t[i]
    <3>1. 2 + i \in 1..(2 + Len(t)) /\ ~(2 + i <= 2) /\ 2 + i - 2 = i
      BY <1>1
    <3> HIDE DEF u
    <3> QED
      BY <1>5, <3>1
  <2>2. 1 \in 1..(2 + Len(t)) /\ 2 \in 1..(2 + Len(t))
    BY <1>1
  <2> HIDE DEF u
  <2> QED
    BY <1>3, <1>5, <2>1, <2>2
<1> HIDE DEF u
<1> DEFINE p == u \o v
<1>7. /\ p \in Seq(Items) /\ Len(p) = Len(u) + Len(v)
      /\ \A i \in 1..(Len(u) + Len(v)) : p[i] = IF i <= Len(u) THEN u[i] ELSE v[i - Len(u)]
  BY <1>4, <1>5, ConcatProperties
<1>8. p = Part(f, t)
  BY DEF Part, h, a, u, v
<1> HIDE DEF p
<1>9. Len(p) = Len(t) + 3 /\ Len(u) = Len(t) + 2
  BY <1>1, <1>4, <1>5, <1>7
<1>10. p[1] = h /\ p[2] = Newline
  <2>1. 1 \in 1..(Len(u) + Len(v)) /\ 1 <= Len(u) /\ 2 \in 1..(Len(u) + Len(v)) /\ 2 <= Len(u)
    BY <1>1, <1>4, <1>9
  <2> QED
    BY <1>6, <1>7, <2>1
<1>11. p[Len(t) + 3] = Newline
  <2>1. /\ Len(t) + 3 \in 1..(Len(u) + Len(v)) /\ ~(Len(t) + 3 <= Len(u))
        /\ Len(t) + 3 - Len(u) = 1
    BY <1>1, <1>4, <1>9
  <2> QED
    BY <1>4, <1>7, <2>1
<1>12. ASSUME NEW i \in 1..Len(t) PROVE p[2 + i] = t[i]
  <2>1. 2 + i \in 1..(Len(u) + Len(v)) /\ 2 + i <= Len(u)
    BY <1>1, <1>4, <1>9
  <2> QED
    BY <1>6, <1>7, <2>1
<1> QED
  BY <1>1, <1>7, <1>8, <1>9, <1>10, <1>11, <1>12 DEF h

LEMMA PartType ==
    ASSUME NEW f \in Fields, NEW t, t = NoText \/ Text(t)
    PROVE  Part(f, t) \in Seq(Items)
<1>1. CASE t = NoText
  BY <1>1 DEF Part
<1>2. CASE t # NoText
  BY <1>2, PartIs
<1> QED
  BY <1>1, <1>2

\* A part printed behind an output, and an output behind a part
LEMMA PartPrinted ==
    ASSUME NEW O \in Seq(Items), NEW f \in Fields, NEW t, t = NoText \/ Text(t)
    PROVE  Segment(O \o Part(f, t), Len(O), Len(O \o Part(f, t)), f, t)
<1> DEFINE p == Part(f, t)
           R == O \o p
<1>1. p \in Seq(Items)
  BY PartType
<1>2. CASE t = NoText
  <2>1. R = O
    BY <1>2, ConcatEmptySeq DEF Part
  <2> QED
    BY <1>2, <2>1 DEF Segment
<1>3. CASE t # NoText
  <2>1. /\ Len(p) = Len(t) + 3 /\ Len(t) \in Nat
        /\ p[1] = Tag(f, Len(t)) /\ p[2] = Newline /\ p[Len(t) + 3] = Newline
        /\ \A i \in 1..Len(t) : p[2 + i] = t[i]
    BY <1>3, PartIs
  <2>a. t \in Seq(Items) /\ \A i \in 1..Len(t) : t[i] # Newline /\ Foreign(t[i])
    BY <1>3 DEF Text
  <2> HIDE DEF p
  <2>2. /\ R \in Seq(Items) /\ Len(R) = Len(O) + Len(p)
        /\ \A i \in 1..(Len(O) + Len(p)) : R[i] = IF i <= Len(O) THEN O[i] ELSE p[i - Len(O)]
    BY <1>1, ConcatProperties
  <2> HIDE DEF R
  <2>3. ASSUME NEW i \in 1..Len(p) PROVE R[Len(O) + i] = p[i]
    <3>1. /\ Len(O) + i \in 1..(Len(O) + Len(p)) /\ ~(Len(O) + i <= Len(O))
          /\ Len(O) + i - Len(O) = i
      BY <1>1
    <3> QED
      BY <2>2, <3>1
  <2>4. R[Len(O) + 1] = Tag(f, Len(t)) /\ R[Len(O) + 2] = Newline
    <3>1. 1 \in 1..Len(p) /\ 2 \in 1..Len(p)
      BY <2>1
    <3> QED
      BY <2>1, <2>3, <3>1
  <2>5. R[Len(R)] = Newline
    <3>1. Len(t) + 3 \in 1..Len(p) /\ Len(O) + (Len(t) + 3) = Len(R)
      BY <2>1, <2>2
    <3> QED
      BY <2>1, <2>3, <3>1
  <2>6. ASSUME NEW i \in 1..Len(t) PROVE R[Len(O) + 2 + i] = t[i]
    <3>1. 2 + i \in 1..Len(p) /\ Len(O) + (2 + i) = Len(O) + 2 + i
      BY <2>1
    <3> QED
      BY <2>1, <2>3, <3>1
  <2>7. Len(R) = Len(O) + Len(t) + 3
    BY <2>1, <2>2
  <2>8. Segment(R, Len(O), Len(R), f, t)
    BY <1>3, <2>1, <2>a, <2>4, <2>5, <2>6, <2>7 DEF Segment
  <2> QED
    BY <2>8 DEF R, p
<1> QED
  BY <1>2, <1>3

LEMMA PartStays ==
    ASSUME NEW O \in Seq(Items), NEW R \in Seq(Items), NEW f, NEW t,
           NEW from \in 0..Len(O), NEW to \in 0..Len(O), Segment(O, from, to, f, t)
    PROVE  Segment(O \o R, from, to, f, t)
<1>1. CASE t = NoText
  BY <1>1 DEF Segment
<1>2. CASE t # NoText
  <2> DEFINE P == O \o R
  <2>1. ASSUME NEW i \in 1..Len(O) PROVE P[i] = O[i]
    OBVIOUS
  <2>2. /\ Len(t) \in Nat /\ t \in Seq(Items) /\ to = from + Len(t) + 3
        /\ O[from + 1] = Tag(f, Len(t)) /\ O[from + 2] = Newline /\ O[to] = Newline
        /\ \A i \in 1..Len(t) : O[from + 2 + i] = t[i] /\ t[i] # Newline /\ Foreign(t[i])
    BY <1>2 DEF Segment
  <2>3. from + 1 \in 1..Len(O) /\ from + 2 \in 1..Len(O) /\ to \in 1..Len(O)
    BY <2>2
  <2>4. ASSUME NEW i \in 1..Len(t) PROVE from + 2 + i \in 1..Len(O)
    BY <2>2
  <2> HIDE DEF P
  <2>5. P[from + 1] = Tag(f, Len(t)) /\ P[from + 2] = Newline /\ P[to] = Newline
    BY <2>1, <2>2, <2>3
  <2>6. \A i \in 1..Len(t) : P[from + 2 + i] = t[i] /\ t[i] # Newline /\ Foreign(t[i])
    BY <2>1, <2>2, <2>4
  <2>7. Segment(P, from, to, f, t)
    BY <1>2, <2>2, <2>5, <2>6 DEF Segment
  <2> QED
    BY <2>7 DEF P
<1> QED
  BY <1>1, <1>2

Printable(t) == t = NoText \/ Text(t)

BehindNoise(O, b, said, C) ==
    Layout(O, b, said) /\ b[1] = Len(C) /\ \A i \in 1..Len(C) : O[i] = C[i]

LEMMA LayoutOf ==
    ASSUME NEW C \in Seq(Items), \A i \in 1..Len(C) : Foreign(C[i]),
           C # <<>> => C[Len(C)] = Newline,
           NEW said, \A f \in Fields : Printable(said[f])
    PROVE  \E b : BehindNoise(((C \o Part("PLUGIN_NAME", said["PLUGIN_NAME"]))
                                  \o Part("PLUGIN_DESC", said["PLUGIN_DESC"]))
                                  \o Part("PLUGIN_MIME", said["PLUGIN_MIME"]), b, said, C)
<1> DEFINE f1 == "PLUGIN_NAME"
           f2 == "PLUGIN_DESC"
           f3 == "PLUGIN_MIME"
<1>1. f1 \in Fields /\ f2 \in Fields /\ f3 \in Fields
  BY DEF Fields
<1>2. Field[1] = f1 /\ Field[2] = f2 /\ Field[3] = f3
  BY DEF Field
<1> HIDE DEF f1, f2, f3
<1> DEFINE p1 == Part(f1, said[f1])
           p2 == Part(f2, said[f2])
           p3 == Part(f3, said[f3])
           C1 == C \o p1
           C2 == C1 \o p2
           C3 == C2 \o p3
           b == <<Len(C), Len(C1), Len(C2), Len(C3)>>
<1>3. p1 \in Seq(Items) /\ p2 \in Seq(Items) /\ p3 \in Seq(Items)
  <2>1. p1 \in Seq(Items)
    BY <1>1, PartType DEF Printable
  <2>2. p2 \in Seq(Items)
    BY <1>1, PartType DEF Printable
  <2>3. p3 \in Seq(Items)
    BY <1>1, PartType DEF Printable
  <2> QED
    BY <2>1, <2>2, <2>3
<1>4. Segment(C1, Len(C), Len(C1), f1, said[f1])
  BY <1>1, PartPrinted DEF Printable
<1>5. C1 \in Seq(Items) /\ Len(C1) \in Nat /\ Len(C) \in 0..Len(C1)
      /\ \A i \in 1..Len(C) : C1[i] = C[i]
  <2> HIDE DEF p1
  <2> QED
    BY <1>3
<1> HIDE DEF C1
<1>6. Segment(C2, Len(C1), Len(C2), f2, said[f2])
  BY <1>1, <1>5, PartPrinted DEF Printable
<1>7. C2 \in Seq(Items) /\ Len(C2) \in Nat /\ Len(C1) \in 0..Len(C2)
      /\ \A i \in 1..Len(C1) : C2[i] = C1[i]
  <2> HIDE DEF p2
  <2> QED
    BY <1>3, <1>5
<1>8. Segment(C2, Len(C), Len(C1), f1, said[f1])
  <2> HIDE DEF p2
  <2>1. Len(C1) \in 0..Len(C1)
    BY <1>5
  <2> QED
    BY <1>3, <1>4, <1>5, <2>1, PartStays
<1> HIDE DEF C2
<1>9. Segment(C3, Len(C2), Len(C3), f3, said[f3])
  BY <1>1, <1>7, PartPrinted DEF Printable
<1>10. C3 \in Seq(Items) /\ Len(C3) \in Nat /\ Len(C2) \in 0..Len(C3)
      /\ \A i \in 1..Len(C2) : C3[i] = C2[i]
  <2> HIDE DEF p3
  <2> QED
    BY <1>3, <1>7
<1>11. Segment(C3, Len(C), Len(C1), f1, said[f1]) /\ Segment(C3, Len(C1), Len(C2), f2, said[f2])
  <2> HIDE DEF p3
  <2>1. Len(C) \in 0..Len(C2) /\ Len(C1) \in 0..Len(C2) /\ Len(C2) \in 0..Len(C2)
    BY <1>5, <1>7
  <2>2. Segment(C3, Len(C), Len(C1), f1, said[f1])
    BY <1>3, <1>7, <1>8, <2>1, PartStays
  <2>3. Segment(C3, Len(C1), Len(C2), f2, said[f2])
    BY <1>3, <1>6, <1>7, <2>1, PartStays
  <2> QED
    BY <2>2, <2>3
<1> HIDE DEF C3
<1>12. Len(C) \in Nat /\ \A i \in 1..Len(C) : C3[i] = C[i]
  <2>1. ASSUME NEW i \in 1..Len(C) PROVE C3[i] = C[i]
    <3>1. i \in 1..Len(C1) /\ i \in 1..Len(C2)
      BY <1>5, <1>7
    <3> QED
      BY <1>5, <1>7, <1>10, <3>1
  <2> QED
    BY <1>5, <2>1
<1>13. b \in [1..4 -> 0..Len(C3)] /\ b[1] = Len(C) /\ b[2] = Len(C1) /\ b[3] = Len(C2) /\ b[4] = Len(C3)
  <2>1. /\ Len(C) \in 0..Len(C3) /\ Len(C1) \in 0..Len(C3)
        /\ Len(C2) \in 0..Len(C3) /\ Len(C3) \in 0..Len(C3)
    BY <1>5, <1>7, <1>10
  <2> QED
    BY <2>1
<1> HIDE DEF b
<1>14. (\A i \in 1..b[1] : Foreign(C3[i])) /\ (b[1] > 0 => C3[b[1]] = Newline)
  <2>1. ASSUME Len(C) > 0 PROVE C3[Len(C)] = Newline
    <3>1. C # <<>> /\ Len(C) \in 1..Len(C)
      BY <1>12, <2>1
    <3> QED
      BY <1>12, <3>1
  <2> QED
    BY <1>12, <1>13, <2>1
<1>15. ASSUME NEW j \in 1..3 PROVE Segment(C3, b[j], b[j + 1], Field[j], said[Field[j]])
  <2>1. CASE j = 1
    BY <1>2, <1>11, <1>13, <2>1
  <2>2. CASE j = 2
    BY <1>2, <1>11, <1>13, <2>2
  <2>3. CASE j = 3
    BY <1>2, <1>9, <1>13, <2>3
  <2> QED
    BY <2>1, <2>2, <2>3
<1>16. BehindNoise(C3, b, said, C)
  BY <1>10, <1>12, <1>13, <1>14, <1>15 DEF Layout, BehindNoise
<1> QED
  BY <1>16 DEF C3, C2, C1, p1, p2, p3, f1, f2, f3

Said == [f \in Fields |-> IF Status = "0" THEN library.answers[f] ELSE NoText]
Noise == IF library.opens THEN library.chatter ELSE <<>>

\* The plugins that are meant: strings of one line, and whole lines of noise.
Fit == /\ \A f \in Fields : library.answers[f] # NoText => OneLine(library.answers[f])
       /\ library.chatter # <<>> => Last(library.chatter) = Newline

LEMMA TextTypes ==
    ASSUME NEW t \in Texts \cup Chatter
    PROVE  t \in Seq(Items) /\ Len(t) \in Nat /\ \A i \in 1..Len(t) : Foreign(t[i])
<1>1. /\ Len(t) \in Nat /\ t = [i \in 1..Len(t) |-> t[i]]
      /\ \A i \in 1..Len(t) :
            t[i] = Newline \/ "tag" \notin DOMAIN t[i] \/ t[i] \in [tag : {"other"}, len : Nat]
  BY InfoAssumption
<1>2. ASSUME NEW i \in 1..Len(t) PROVE t[i] \in Items
  <2>1. t[i] \in {t[x] : x \in 1..Len(t)}
    OBVIOUS
  <2>2. t[i] \in Letters
    BY <2>1, Zenon DEF Letters
  <2> QED
    BY <2>2 DEF Items
<1> DEFINE n == Len(t)
<1>3. n \in Nat /\ t = [i \in 1..n |-> t[i]] /\ \A i \in 1..n : t[i] \in Items
  BY <1>1, <1>2
<1> HIDE DEF n
<1>4. t \in Seq(Items)
  <2>1. t \in [1..n -> Items]
    BY <1>3, Zenon
  <2> QED
    BY <1>3, <2>1
<1>5. ASSUME NEW i \in 1..Len(t), IsTag(t[i]) PROVE t[i].tag \notin Fields
  <2>1. t[i] \in [tag : {"other"}, len : Nat]
    BY <1>1, <1>5 DEF IsTag
  <2> QED
    BY <2>1, FieldsAreWords
<1> QED
  BY <1>1, <1>4, <1>5 DEF Foreign

LEMMA StatusIs ==
    ASSUME library \in Libraries
    PROVE  Status \in {"0", "1"} /\ (Status = "0" <=> library.opens /\ do_test = 0)
<1>1. do_test = 0 => Symbols \ {"NP_GetValue"} \subseteq library.symbols
  BY DEF do_test, Symbols
<1>2. library.opens \in BOOLEAN
  BY DEF Libraries
<1> QED
  BY <1>1, <1>2 DEF Status

SameOutput(s, t, u, v) == ((s \o t) \o u) \o v = s \o ((t \o u) \o v)
LEMMA ConcatFour ==
    ASSUME NEW S, NEW s \in Seq(S), NEW t \in Seq(S), NEW u \in Seq(S), NEW v \in Seq(S)
    PROVE  SameOutput(s, t, u, v)
<1>1. (s \o t) \o u = s \o (t \o u)
  BY ConcatAssociative
<1> DEFINE w == t \o u
<1>2. w \in Seq(S)
  BY ConcatProperties
<1> HIDE DEF w
<1>3. (s \o w) \o v = s \o (w \o v)
  BY <1>2, ConcatAssociative
<1> QED
  BY <1>1, <1>3 DEF w, SameOutput

LEMMA OutputLayout ==
    ASSUME library \in Libraries, Fit
    PROVE  \E b : BehindNoise(Output, b, Said, Noise)
<1>1. /\ library.opens \in BOOLEAN /\ library.chatter \in Chatter
      /\ \A f \in Fields : library.answers[f] \in Texts \cup {NoText}
  BY DEF Libraries
<1>2. Noise \in Seq(Items) /\ (\A i \in 1..Len(Noise) : Foreign(Noise[i]))
      /\ (Noise # <<>> => Noise[Len(Noise)] = Newline)
  <2>1. CASE library.opens
    <3>1. library.chatter \in Texts \cup Chatter
      BY <1>1
    <3>2. library.chatter \in Seq(Items) /\ \A i \in 1..Len(library.chatter) : Foreign(library.chatter[i])
      BY <3>1, TextTypes
    <3>3. library.chatter # <<>> => library.chatter[Len(library.chatter)] = Newline
      BY DEF Fit, Last
    <3>4. Noise = library.chatter
      BY <2>1 DEF Noise
    <3> QED
      BY <3>2, <3>3, <3>4
  <2>2. CASE ~library.opens
    BY <2>2 DEF Noise
  <2> QED
    BY <2>1, <2>2
<1>3. ASSUME NEW f \in Fields PROVE Printable(Said[f])
  <2>1. Said[f] = NoText \/ Said[f] = library.answers[f]
    BY DEF Said
  <2>2. CASE library.answers[f] = NoText
    BY <2>1, <2>2 DEF Printable
  <2>3. CASE library.answers[f] # NoText
    <3> DEFINE t == library.answers[f]
    <3>1. t \in Texts \cup Chatter /\ OneLine(t)
      BY <1>1, <2>3 DEF Fit
    <3> HIDE DEF t
    <3>2. t \in Seq(Items) /\ \A i \in 1..Len(t) : Foreign(t[i])
      BY <3>1, TextTypes
    <3>3. Text(t)
      BY <3>1, <3>2 DEF Text, OneLine
    <3> QED
      BY <2>1, <3>3 DEF Printable, t
  <2> QED
    BY <2>2, <2>3
<1> DEFINE f1 == "PLUGIN_NAME"
           f2 == "PLUGIN_DESC"
           f3 == "PLUGIN_MIME"
           p1 == Part(f1, Said[f1])
           p2 == Part(f2, Said[f2])
           p3 == Part(f3, Said[f3])
<1>4. p1 \in Seq(Items) /\ p2 \in Seq(Items) /\ p3 \in Seq(Items)
  <2>1. f1 \in Fields /\ f2 \in Fields /\ f3 \in Fields
    BY DEF Fields
  <2> HIDE DEF f1, f2, f3
  <2>2. p1 \in Seq(Items)
    BY <1>3, <2>1, PartType DEF Printable
  <2>3. p2 \in Seq(Items)
    BY <1>3, <2>1, PartType DEF Printable
  <2>4. p3 \in Seq(Items)
    BY <1>3, <2>1, PartType DEF Printable
  <2> QED
    BY <2>2, <2>3, <2>4
<1>5. PICK b : BehindNoise(((Noise \o p1) \o p2) \o p3, b, Said, Noise)
  BY <1>2, <1>3, LayoutOf
<1>6. ((Noise \o p1) \o p2) \o p3 = Output
  <2>1. CASE Status = "0"
    <3>1. library.opens /\ do_test = 0
      BY <2>1, StatusIs
    <3>2. ASSUME NEW f \in Fields PROVE Part(f, Said[f]) = Printed(f)
      BY <2>1 DEF Part, Printed, Said
    <3>3. p1 = Printed(f1) /\ p2 = Printed(f2) /\ p3 = Printed(f3)
      BY <3>2 DEF Fields
    <3> HIDE DEF p1, p2, p3
    <3>4. Output = Noise \o ((p1 \o p2) \o p3)
      BY <3>1, <3>3 DEF Output, do_info, Noise
    <3>5. ((Noise \o p1) \o p2) \o p3 = Noise \o ((p1 \o p2) \o p3)
      <4>1. Noise \in Seq(Items)
        BY <1>2
      <4>2. p1 \in Seq(Items)
        BY <1>4
      <4>3. p2 \in Seq(Items)
        BY <1>4
      <4>4. p3 \in Seq(Items)
        BY <1>4
      <4>5. SameOutput(Noise, p1, p2, p3)
        BY <4>1, <4>2, <4>3, <4>4, ConcatFour, Zenon
      <4> QED
        BY <4>5, Zenon DEF SameOutput
    <3> QED
      BY <3>4, <3>5
  <2>2. CASE Status # "0"
    <3>1. ASSUME NEW f \in Fields PROVE Part(f, Said[f]) = <<>>
      BY <2>2 DEF Part, Said
    <3>2. p1 = <<>> /\ p2 = <<>> /\ p3 = <<>>
      BY <3>1 DEF Fields
    <3> HIDE DEF p1, p2, p3
    <3>3. ((Noise \o p1) \o p2) \o p3 = Noise
      BY <1>2, <3>2, ConcatEmptySeq
    <3>4. Output = Noise
      <4>1. CASE library.opens
        <5>1. do_test # 0
          BY <2>2, <4>1, StatusIs
        <5>2. Noise = library.chatter /\ Output = Noise \o <<>>
          BY <4>1, <5>1 DEF Output, do_info, Noise
        <5> QED
          BY <1>2, <5>2, ConcatEmptySeq
      <4>2. CASE ~library.opens
        BY <4>2 DEF Output, Noise
      <4> QED
        BY <4>1, <4>2
    <3> QED
      BY <3>3, <3>4
  <2> QED
    BY <2>1, <2>2
<1> QED
  BY <1>5, <1>6

-----------------------------------------------------------------------------
(* Whatever the noise announces: behind each of the viewer's tags is the    *)
(* string it announces, as far as the pipe goes.                            *)

StringAt(p, i, t, killed) ==
    /\ t # NoText /\ t \in Seq(Items) /\ Len(t) \in Nat /\ p[i].len = Len(t)
    /\ i + 1 <= Len(p) => p[i + 1] = Newline
    /\ \A x \in 1..Len(t) : t[x] # Newline /\ (i + 1 + x <= Len(p) => p[i + 1 + x] = t[x])
    /\ ~killed => i + 1 + Len(t) <= Len(p)

Backed(p, said, killed) ==
    \A i \in 1..Len(p) : ~Foreign(p[i]) => StringAt(p, i, said[p[i].tag], killed)

\* The strings that are stored are the plugin's.
Right(g, said, killed) ==
    \A f \in Fields :
        \/ g[f] = NoText \/ g[f] = said[f]
        \/ killed /\ said[f] # NoText /\ IsPrefix(g[f], said[f])

LEMMA ItemTag ==
    ASSUME NEW c \in Items, IsTag(c)
    PROVE  c \in [tag : Words, len : Nat] /\ c.tag \in Words /\ c.len \in Nat
<1>1. c # Newline /\ "tag" \in DOMAIN c
  BY DEF IsTag
<1>2. CASE c \in [tag : Words, len : Nat]
  BY <1>2
<1>3. CASE c \in Letters
  <2>1. PICK t \in Texts \cup Chatter : c \in {t[i] : i \in 1..Len(t)}
    BY <1>3 DEF Letters
  <2>2. PICK i \in 1..Len(t) : c = t[i]
    BY <2>1
  <2>3. c \in [tag : {"other"}, len : Nat]
    BY <1>1, <2>2, InfoAssumption
  <2>4. "other" \in Words
    BY DEF Words
  <2> QED
    BY <2>3, <2>4
<1> QED
  BY <1>1, <1>2, <1>3 DEF Items

LEMMA RestIs ==
    ASSUME NEW p \in Seq(Items), NEW l \in 0..Len(p)
    PROVE  LET q == SubSeq(p, l + 1, Len(p))
           IN  /\ q \in Seq(Items) /\ Len(q) = Len(p) - l
               /\ \A i \in 1..(Len(p) - l) : q[i] = p[l + i]
<1> DEFINE n == Len(p)
<1>1. l \in Nat /\ n \in Nat /\ l <= n /\ n <= Len(p)
  OBVIOUS
<1> HIDE DEF n
<1>2. /\ SubSeq(p, l + 1, n) \in Seq(Items) /\ Len(SubSeq(p, l + 1, n)) = n - l
      /\ \A i \in 1..(n - l) : SubSeq(p, l + 1, n)[i] = p[l + i]
  BY <1>1, PartProps
<1> QED
  BY <1>2 DEF n

LEMMA BackedRest ==
    ASSUME NEW p \in Seq(Items), NEW l \in 0..Len(p), NEW said, NEW killed, Backed(p, said, killed)
    PROVE  Backed(SubSeq(p, l + 1, Len(p)), said, killed)
<1> DEFINE q == SubSeq(p, l + 1, Len(p))
           n == Len(p)
<1>1. /\ Len(q) = n - l /\ n \in Nat /\ l \in Nat /\ l <= n
      /\ \A i \in 1..(n - l) : q[i] = p[l + i]
  BY RestIs
<1>2. \A i \in 1..n : ~Foreign(p[i]) => StringAt(p, i, said[p[i].tag], killed)
  BY DEF Backed
<1> HIDE DEF q
<1>3. ASSUME NEW i \in 1..(n - l), ~Foreign(q[i]) PROVE StringAt(q, i, said[q[i].tag], killed)
  <2> DEFINE k == l + i
             t == said[q[i].tag]
             h == Len(t)
  <2>1. k \in 1..n /\ k \in Nat /\ i \in Nat /\ k = l + i /\ q[i] = p[k]
    BY <1>1
  <2> HIDE DEF k
  <2>2. /\ t # NoText /\ t \in Seq(Items) /\ h \in Nat /\ q[i].len = h
        /\ k + 1 <= n => p[k + 1] = Newline
        /\ \A x \in 1..h : t[x] # Newline /\ (k + 1 + x <= n => p[k + 1 + x] = t[x])
        /\ ~killed => k + 1 + h <= n
    <3>1. StringAt(p, k, t, killed)
      BY <1>2, <1>3, <2>1
    <3> HIDE DEF t
    <3> QED
      BY <2>1, <3>1 DEF StringAt
  <2> HIDE DEF n, t, h
  <2>3. i + 1 <= n - l => q[i + 1] = Newline
    <3> SUFFICES ASSUME i + 1 <= n - l PROVE q[i + 1] = Newline
      OBVIOUS
    <3>1. i + 1 \in 1..(n - l) /\ l + (i + 1) = k + 1 /\ k + 1 <= n
      BY <1>1, <2>1
    <3> QED
      BY <1>1, <2>2, <3>1
  <2>4. ASSUME NEW x \in 1..h, i + 1 + x <= n - l PROVE q[i + 1 + x] = t[x]
    <3>1. i + 1 + x \in 1..(n - l) /\ l + (i + 1 + x) = k + 1 + x /\ k + 1 + x <= n
      BY <1>1, <2>1, <2>2, <2>4
    <3> QED
      BY <1>1, <2>2, <3>1
  <2>5. ~killed => i + 1 + h <= n - l
    BY <1>1, <2>1, <2>2
  <2>6. Len(q) = n - l
    BY <1>1
  <2>7. \A x \in 1..h : t[x] # Newline /\ (i + 1 + x <= Len(q) => q[i + 1 + x] = t[x])
    BY <2>2, <2>4, <2>6
  <2> QED
    BY <2>2, <2>3, <2>5, <2>6, <2>7 DEF StringAt, t, h
<1> HIDE DEF n
<1> QED
  BY <1>1, <1>3 DEF Backed, q, n

LEMMA BackedLead ==
    ASSUME NEW p \in Seq(Items), NEW c \in Items, Foreign(c), NEW said, NEW killed, Backed(p, said, killed)
    PROVE  <<c>> \o p \in Seq(Items) /\ Backed(<<c>> \o p, said, killed)
<1> DEFINE q == <<c>> \o p
           n == Len(p)
<1>1. /\ q \in Seq(Items) /\ Len(q) = n + 1 /\ n \in Nat /\ q[1] = c
      /\ \A i \in 1..n : q[i + 1] = p[i]
  <2>1. <<c>> \in Seq(Items) /\ Len(<<c>>) = 1 /\ <<c>>[1] = c
    OBVIOUS
  <2>2. /\ q \in Seq(Items) /\ Len(q) = 1 + n
        /\ \A i \in 1..(1 + n) : q[i] = IF i <= 1 THEN <<c>>[i] ELSE p[i - 1]
    <3> DEFINE a == <<c>>
    <3>1. /\ a \o p \in Seq(Items) /\ Len(a \o p) = Len(a) + Len(p)
          /\ \A i \in 1..(Len(a) + Len(p)) : (a \o p)[i] = IF i <= Len(a) THEN a[i] ELSE p[i - Len(a)]
      <4>1. a \in Seq(Items)
        BY <2>1
      <4> HIDE DEF a
      <4> QED
        BY <4>1, ConcatProperties
    <3>2. Len(a) = 1
      BY <2>1
    <3> QED
      BY <3>1, <3>2
  <2>3. n \in Nat
    OBVIOUS
  <2> HIDE DEF q, n
  <2>4. ASSUME NEW i \in 1..n PROVE q[i + 1] = p[i]
    <3>1. i + 1 \in 1..(1 + n) /\ ~(i + 1 <= 1) /\ i + 1 - 1 = i
      BY <2>3
    <3> QED
      BY <2>2, <3>1
  <2>5. 1 \in 1..(1 + n)
    BY <2>3
  <2> QED
    BY <2>1, <2>2, <2>3, <2>4, <2>5
<1>2. \A i \in 1..n : ~Foreign(p[i]) => StringAt(p, i, said[p[i].tag], killed)
  BY DEF Backed
<1> HIDE DEF q
<1>3. ASSUME NEW j \in 1..(n + 1), ~Foreign(q[j]) PROVE StringAt(q, j, said[q[j].tag], killed)
  <2> DEFINE i == j - 1
             t == said[q[j].tag]
             h == Len(t)
  <2>1. i \in 1..n /\ i \in Nat /\ j = i + 1 /\ q[j] = p[i]
    <3>1. j # 1
      BY <1>1, <1>3
    <3>2. i \in 1..n /\ i \in Nat /\ j = i + 1
      BY <1>1, <3>1
    <3> QED
      BY <1>1, <3>2
  <2> HIDE DEF i
  <2>2. /\ t # NoText /\ t \in Seq(Items) /\ h \in Nat /\ q[j].len = h
        /\ i + 1 <= n => p[i + 1] = Newline
        /\ \A x \in 1..h : t[x] # Newline /\ (i + 1 + x <= n => p[i + 1 + x] = t[x])
        /\ ~killed => i + 1 + h <= n
    BY <1>2, <1>3, <2>1 DEF StringAt
  <2> HIDE DEF n, t, h
  <2>3. j + 1 <= n + 1 => q[j + 1] = Newline
    <3> SUFFICES ASSUME j + 1 <= n + 1 PROVE q[j + 1] = Newline
      OBVIOUS
    <3>1. i + 1 \in 1..n /\ j + 1 = (i + 1) + 1 /\ i + 1 <= n
      BY <1>1, <2>1
    <3> QED
      BY <1>1, <2>2, <3>1
  <2>4. ASSUME NEW x \in 1..h, j + 1 + x <= n + 1 PROVE q[j + 1 + x] = t[x]
    <3>1. i + 1 + x \in 1..n /\ j + 1 + x = (i + 1 + x) + 1 /\ i + 1 + x <= n
      BY <1>1, <2>1, <2>2, <2>4
    <3> QED
      BY <1>1, <2>2, <3>1
  <2>5. ~killed => j + 1 + h <= n + 1
    BY <1>1, <2>1, <2>2
  <2>6. Len(q) = n + 1
    BY <1>1
  <2>7. \A x \in 1..h : t[x] # Newline /\ (j + 1 + x <= Len(q) => q[j + 1 + x] = t[x])
    BY <2>2, <2>4, <2>6
  <2> QED
    BY <2>2, <2>3, <2>5, <2>6, <2>7 DEF StringAt, t, h
<1> HIDE DEF n
<1> QED
  BY <1>1, <1>3 DEF Backed, q

\* The viewer's tags are where its parts begin.
LEMMA TagPlace ==
    ASSUME NEW O, NEW b, NEW said, Layout(O, b, said), NEW i \in 1..Len(O), ~Foreign(O[i])
    PROVE  \E j \in 1..3 : i = b[j] + 1 /\ said[Field[j]] # NoText
<1>1. /\ b[1] \in Nat /\ b[2] \in Nat /\ b[3] \in Nat /\ b[4] = Len(O) /\ Len(O) \in Nat
  <2>1. 1 \in 1..4 /\ 2 \in 1..4 /\ 3 \in 1..4
    OBVIOUS
  <2> QED
    BY <2>1, LayoutTypes
<1>2. ~(i <= b[1])
  BY <1>1 DEF Layout
<1>3. \E j \in 1..3 : b[j] < i /\ i <= b[j + 1] /\ b[j] \in Nat /\ b[j + 1] \in Nat
  <2>1. CASE i <= b[2]
    <3>1. 1 \in 1..3 /\ 1 + 1 = 2 /\ b[1] < i
      BY <1>1, <1>2
    <3> QED
      BY <1>1, <2>1, <3>1
  <2>2. CASE ~(i <= b[2]) /\ i <= b[3]
    <3>1. 2 \in 1..3 /\ 2 + 1 = 3 /\ b[2] < i
      BY <1>1, <2>2
    <3> QED
      BY <1>1, <2>2, <3>1
  <2>3. CASE ~(i <= b[3])
    <3>1. 3 \in 1..3 /\ 3 + 1 = 4 /\ b[3] < i /\ i <= b[4]
      BY <1>1, <2>3
    <3> QED
      BY <1>1, <3>1
  <2> QED
    BY <2>1, <2>2, <2>3
<1>4. PICK j \in 1..3 : b[j] < i /\ i <= b[j + 1] /\ b[j] \in Nat /\ b[j + 1] \in Nat
  BY <1>3
<1> DEFINE t == said[Field[j]]
           from == b[j]
           to == b[j + 1]
<1>5. Segment(O, from, to, Field[j], t)
  BY DEF Layout
<1> HIDE DEF t, from, to
<1>6. from \in Nat /\ to \in Nat /\ from < i /\ i <= to
  BY <1>4 DEF from, to
<1>7. t # NoText
  <2> SUFFICES ASSUME t = NoText PROVE FALSE
    OBVIOUS
  <2>1. to = from
    BY <1>5 DEF Segment
  <2> QED
    BY <1>6, <2>1
<1>8. /\ Len(t) \in Nat /\ to = from + Len(t) + 3
      /\ O[from + 2] = Newline /\ O[to] = Newline
      /\ \A x \in 1..Len(t) : O[from + 2 + x] = t[x] /\ Foreign(t[x])
  BY <1>5, <1>7 DEF Segment
<1>9. Foreign(Newline)
  BY DEF Foreign, IsTag
<1>10. i = from + 1 \/ i = from + 2 \/ i = to \/ (i - from - 2 \in 1..Len(t) /\ i = from + 2 + (i - from - 2))
  <2> DEFINE h == Len(t)
  <2>1. h \in Nat /\ to = from + h + 3 /\ i \in Nat
    BY <1>1, <1>8
  <2> HIDE DEF h
  <2>2. i = from + 1 \/ i = from + 2 \/ i = to \/ (i - from - 2 \in 1..h /\ i = from + 2 + (i - from - 2))
    BY <1>6, <2>1
  <2> QED
    BY <2>2 DEF h
<1>11. i = from + 1
  <2>1. i # from + 2 /\ i # to
    BY <1>8, <1>9
  <2>2. ~(i - from - 2 \in 1..Len(t) /\ i = from + 2 + (i - from - 2))
    <3> DEFINE x == i - from - 2
    <3> HIDE DEF x
    <3>1. ~(x \in 1..Len(t) /\ i = from + 2 + x)
      BY <1>8
    <3> QED
      BY <3>1 DEF x
  <2> QED
    BY <1>10, <2>1, <2>2
<1> QED
  BY <1>7, <1>11 DEF t, from

LEMMA BackedOutput ==
    ASSUME NEW O, NEW b, NEW said, Layout(O, b, said), NEW n \in 0..Len(O), NEW killed,
           ~killed => n = Len(O), NEW p, p = SubSeq(O, 1, n)
    PROVE  p \in Seq(Items) /\ Backed(p, said, killed)
<1>1. O \in Seq(Items) /\ Len(O) \in Nat /\ n \in Nat /\ n <= Len(O)
  BY LayoutTypes
<1>2. p \in Seq(Items) /\ Len(p) = n /\ \A i \in 1..n : p[i] = O[i]
  <2> DEFINE k == 0
  <2>1. k \in Nat /\ k <= n /\ k + 1 = 1 /\ n - k = n /\ \A i \in 1..n : k + i = i
    BY <1>1
  <2> HIDE DEF k
  <2>2. /\ SubSeq(O, k + 1, n) \in Seq(Items) /\ Len(SubSeq(O, k + 1, n)) = n - k
        /\ \A i \in 1..(n - k) : SubSeq(O, k + 1, n)[i] = O[k + i]
    BY <1>1, <2>1, PartProps
  <2> QED
    BY <2>1, <2>2
<1>3. ASSUME NEW i \in 1..n, ~Foreign(p[i]) PROVE StringAt(p, i, said[p[i].tag], killed)
  <2>1. i \in 1..Len(O) /\ p[i] = O[i]
    BY <1>1, <1>2
  <2>2. PICK j \in 1..3 : i = b[j] + 1 /\ said[Field[j]] # NoText
    BY <1>3, <2>1, TagPlace
  <2> DEFINE t == said[Field[j]]
             from == b[j]
             to == b[j + 1]
             h == Len(t)
  <2>3. Segment(O, from, to, Field[j], t) /\ from \in Nat /\ to \in Nat /\ to <= Len(O)
    <3>1. j \in 1..4 /\ j + 1 \in 1..4
      OBVIOUS
    <3> QED
      BY <1>1, <3>1, LayoutTypes DEF Layout
  <2>4. i = from + 1 /\ t # NoText
    BY <2>2
  <2> HIDE DEF from, to, h
  <2>5. /\ h \in Nat /\ t \in Seq(Items) /\ to = from + h + 3
        /\ O[from + 1] = Tag(Field[j], h) /\ O[from + 2] = Newline
        /\ \A x \in 1..h : O[from + 2 + x] = t[x] /\ t[x] # Newline
    <3> HIDE DEF t
    <3> QED
      BY <2>3, <2>4 DEF Segment, h
  <2>6. Field[j] \in Fields /\ p[i].tag = Field[j] /\ p[i].len = h
    <3>1. Field[j] \in Fields
      BY DEF Field, Fields
    <3>2. p[i] = Tag(Field[j], h)
      BY <2>1, <2>4, <2>5
    <3> QED
      BY <2>5, <3>1, <3>2 DEF Tag
  <2>7. i + 1 <= n => p[i + 1] = Newline
    <3> SUFFICES ASSUME i + 1 <= n PROVE p[i + 1] = Newline
      OBVIOUS
    <3>1. i + 1 \in 1..n /\ i + 1 = from + 2
      BY <1>1, <2>3, <2>4
    <3> QED
      BY <1>2, <2>5, <3>1
  <2>8. ASSUME NEW x \in 1..h, i + 1 + x <= n PROVE p[i + 1 + x] = t[x]
    <3>1. i + 1 + x \in 1..n /\ i + 1 + x = from + 2 + x
      BY <1>1, <2>3, <2>4, <2>5, <2>8
    <3> HIDE DEF t
    <3> QED
      BY <1>2, <2>5, <3>1
  <2>9. ~killed => i + 1 + h <= n
    BY <1>1, <2>3, <2>4, <2>5
  <2> HIDE DEF t
  <2>10. said[p[i].tag] = t
    BY <2>6 DEF t
  <2>11. \A x \in 1..h : t[x] # Newline /\ (i + 1 + x <= Len(p) => p[i + 1 + x] = t[x])
    BY <1>2, <2>5, <2>8
  <2> QED
    BY <1>2, <2>4, <2>5, <2>6, <2>7, <2>9, <2>10, <2>11 DEF StringAt, h
<1> QED
  BY <1>2, <1>3 DEF Backed

\* What is left behind a line, or a string
Takes(p, m, line, l) ==
    /\ line \in Seq(Items) /\ Len(line) = l /\ l <= m
    /\ \A i \in 1..l : line[i] = p[i] /\ (p[i] = Newline => i = l)
    /\ l = Len(p) \/ l = m \/ (l > 0 /\ p[l] = Newline)
    /\ After(p, line) = SubSeq(p, l + 1, Len(p))

LEMMA AfterIs ==
    ASSUME NEW p \in Seq(Items), NEW m \in Nat, NEW line, line = fgets(p, m)
    PROVE  \E l \in 0..Len(p) : Takes(p, m, line, l)
<1>1. PICK l \in 0..Len(p) :
         /\ line = SubSeq(p, 1, l) /\ l <= m
         /\ \A i \in 1..l : p[i] = Newline => i = l
         /\ l = Len(p) \/ l = m \/ (l > 0 /\ p[l] = Newline)
  BY FgetsProps
<1>2. line \in Seq(Items) /\ Len(line) = l /\ \A i \in 1..l : line[i] = p[i]
  <2> DEFINE k == 0
  <2>1. k \in Nat /\ l \in Nat /\ k <= l /\ l <= Len(p) /\ k + 1 = 1 /\ l - k = l /\ \A i \in 1..l : k + i = i
    OBVIOUS
  <2> HIDE DEF k
  <2>2. /\ SubSeq(p, k + 1, l) \in Seq(Items) /\ Len(SubSeq(p, k + 1, l)) = l - k
        /\ \A i \in 1..(l - k) : SubSeq(p, k + 1, l)[i] = p[k + i]
    BY <2>1, PartProps
  <2> QED
    BY <1>1, <2>1, <2>2
<1>3. After(p, line) = SubSeq(p, l + 1, Len(p))
  BY <1>2 DEF After
<1> QED
  BY <1>1, <1>2, <1>3 DEF Takes

\* A line that is a tag of the viewer's: what is read behind it is the string.
OwnRead(p, line, rest, str, said, killed) ==
    /\ line[1].tag \in Fields /\ said[line[1].tag] # NoText
    /\ line[1].len = Len(said[line[1].tag])
    /\ str = said[line[1].tag] \/ (killed /\ IsPrefix(str, said[line[1].tag]))

LEMMA OwnLine ==
    ASSUME NEW p \in Seq(Items), NEW said, NEW killed, Backed(p, said, killed),
           NEW line, line = fgets(p, LineSize), Announces(line), IsOwn(line),
           NEW rest, rest = After(p, line), NEW str, str = fgets(rest, Announced(line))
    PROVE  OwnRead(p, line, rest, str, said, killed)
<1> DEFINE f == line[1].tag
           t == said[f]
           h == Len(t)
           z == Len(p)
<1>1. z \in Nat /\ LineSize \in Nat /\ f \in Fields /\ IsTag(line[1]) /\ Whole(line)
  BY InfoAssumption DEF IsOwn, Announces
<1>2. PICK l \in 0..Len(p) :
         /\ line \in Seq(Items) /\ Len(line) = l
         /\ \A i \in 1..l : line[i] = p[i] /\ (p[i] = Newline => i = l)
         /\ After(p, line) = SubSeq(p, l + 1, Len(p))
  <2>1. \E l \in 0..Len(p) : Takes(p, LineSize, line, l)
    BY <1>1, AfterIs, Zenon
  <2> QED
    BY <2>1, Zenon DEF Takes
<1>3. l # 0 /\ line[l] = Newline /\ l \in Nat
  BY <1>1, <1>2 DEF Whole, Last
<1>4. p[1] = line[1] /\ line[1] # Newline /\ 1 \in 1..z
  BY <1>1, <1>2, <1>3 DEF IsTag
<1>5. ~Foreign(p[1])
  BY <1>1, <1>4 DEF Foreign
<1>6. StringAt(p, 1, t, killed)
  BY <1>4, <1>5 DEF Backed
<1> HIDE DEF f, t, h, z
<1>7. /\ t # NoText /\ t \in Seq(Items) /\ h \in Nat /\ p[1].len = h
      /\ 2 <= z => p[2] = Newline
      /\ \A x \in 1..h : t[x] # Newline /\ (2 + x <= z => p[2 + x] = t[x])
      /\ ~killed => 2 + h <= z
  <2>1. 1 + 1 = 2
    OBVIOUS
  <2> QED
    BY <1>6, <2>1 DEF StringAt, h, z
<1>8. l = 2
  <2>1. l # 1
    BY <1>3, <1>4
  <2>2. 2 \in 1..l /\ 2 <= z /\ l <= z
    BY <1>1, <1>2, <1>3, <2>1 DEF z
  <2> QED
    BY <1>2, <1>7, <2>2
<1>9. line[1] = Tag(f, h)
  <2>1. line[1] \in Items
    BY <1>2, <1>3
  <2>2. line[1] \in [tag : Words, len : Nat]
    BY <1>1, <2>1, ItemTag
  <2>3. line[1].len = h
    BY <1>4, <1>7
  <2> QED
    BY <2>2, <2>3 DEF Tag, f
<1>10. Announced(line) = h
  <2>1. Len(line) = 2 /\ line[2] = Newline
    BY <1>2, <1>3, <1>8
  <2> QED
    BY <1>1, <1>2, <1>7, <1>9, <2>1, TagLineIs
<1>11. rest \in Seq(Items) /\ Len(rest) = z - 2 /\ \A i \in 1..(z - 2) : rest[i] = p[2 + i]
  <2>1. 2 \in 0..Len(p)
    BY <1>2, <1>8
  <2>2. rest = SubSeq(p, 2 + 1, Len(p))
    BY <1>2, <1>8
  <2> DEFINE a == 2
  <2>3. a \in 0..Len(p) /\ rest = SubSeq(p, a + 1, Len(p))
    BY <2>1, <2>2
  <2> HIDE DEF a
  <2>4. rest \in Seq(Items) /\ Len(rest) = Len(p) - a /\ \A i \in 1..(Len(p) - a) : rest[i] = p[a + i]
    BY <2>3, RestIs
  <2> QED
    BY <2>4 DEF a, z
<1>12. str = fgets(rest, h)
  BY <1>10
<1>13. PICK q \in 0..Len(rest) :
         /\ str \in Seq(Items) /\ Len(str) = q /\ q <= h
         /\ \A i \in 1..q : str[i] = rest[i] /\ (rest[i] = Newline => i = q)
         /\ q = Len(rest) \/ q = h \/ (q > 0 /\ rest[q] = Newline)
  <2>1. \E q \in 0..Len(rest) : Takes(rest, h, str, q)
    BY <1>7, <1>11, <1>12, AfterIs, Zenon
  <2> QED
    BY <2>1, Zenon DEF Takes
<1>14. q \in Nat /\ q <= z - 2 /\ z - 2 \in Nat
  BY <1>1, <1>2, <1>8, <1>11, <1>13 DEF z
<1>15. ASSUME NEW i \in 1..q PROVE str[i] = t[i] /\ rest[i] # Newline /\ i \in 1..h
  <2>1. i \in 1..h /\ i \in 1..(z - 2) /\ 2 + i <= z
    BY <1>1, <1>7, <1>13, <1>14
  <2>2. str[i] = rest[i] /\ rest[i] = p[2 + i]
    BY <1>11, <1>13, <2>1, Zenon
  <2>3. t[i] # Newline /\ p[2 + i] = t[i]
    BY <1>7, <2>1
  <2> QED
    BY <2>1, <2>2, <2>3
<1>16. q = z - 2 \/ q = h
  <2>1. ~(q > 0 /\ rest[q] = Newline)
    <3>1. q > 0 => q \in 1..q
      BY <1>14
    <3> QED
      BY <1>15, <3>1
  <2> QED
    BY <1>11, <1>13, <2>1
<1>17. q = h => str = t
  BY <1>7, <1>13, <1>15, SameSequence DEF h
<1>18. ~killed => q = h
  BY <1>1, <1>7, <1>13, <1>14, <1>16
<1>19. IsPrefix(str, t)
  <2> DEFINE a == 0
  <2>1. a \in Nat /\ a <= q /\ q <= Len(str) /\ q <= Len(t) /\ a + 1 = 1 /\ q - a = q
        /\ \A i \in 1..q : a + i = i
    BY <1>7, <1>13, <1>14 DEF h
  <2> HIDE DEF a
  <2>2. /\ SubSeq(str, a + 1, q) \in Seq(Items) /\ Len(SubSeq(str, a + 1, q)) = q - a
        /\ \A i \in 1..(q - a) : SubSeq(str, a + 1, q)[i] = str[a + i]
    BY <1>13, <1>14, <2>1, PartProps
  <2>3. /\ SubSeq(t, a + 1, q) \in Seq(Items) /\ Len(SubSeq(t, a + 1, q)) = q - a
        /\ \A i \in 1..(q - a) : SubSeq(t, a + 1, q)[i] = t[a + i]
    BY <1>7, <1>14, <2>1, PartProps
  <2>4. \A i \in 1..(q - a) : str[a + i] = t[a + i]
    BY <1>15, <2>1
  <2>5. SubSeq(str, a + 1, q) = SubSeq(t, a + 1, q)
    BY <2>2, <2>3, <2>4, SameSequence
  <2> QED
    BY <1>13, <2>1, <2>5 DEF IsPrefix
<1>20. line[1].len = h
  BY <1>4, <1>7
<1> QED
  BY <1>1, <1>7, <1>17, <1>18, <1>19, <1>20 DEF OwnRead, f, t, h

LEMMA AnnouncedNumber ==
    ASSUME NEW line \in Seq(Items), Announces(line)
    PROVE  Announced(line) \in Nat
<1> DEFINE Leading(i) == IsTag(line[i]) /\ \A g \in 1..i - 1 : ~IsTag(line[g])
           I == {i \in 1..Len(line) : IsTag(line[i])}
           c == CHOOSE i \in 1..Len(line) : Leading(i)
<1>1. I # {} /\ I \subseteq Nat
  BY DEF Announces
<1>2. \E i \in I : \A g \in I : i <= g
  <2> HIDE DEF I
  <2> QED
    BY <1>1, LeastNumber
<1>3. \E i \in 1..Len(line) : Leading(i)
  <2>1. PICK i \in I : \A g \in I : i <= g
    BY <1>2
  <2>2. ASSUME NEW g \in 1..i - 1 PROVE ~IsTag(line[g])
    <3>1. g \in 1..Len(line) /\ ~(i <= g)
      BY <2>1
    <3> QED
      BY <2>1, <3>1
  <2> QED
    BY <2>1, <2>2
<1>4. c \in 1..Len(line) /\ Leading(c)
  <2> HIDE DEF Leading
  <2> QED
    BY <1>3, Zenon
<1>5. IsTag(line[c]) /\ line[c] \in Items
  <2> HIDE DEF c
  <2> QED
    BY <1>4
<1>6. Announced(line) = line[c].len
  BY DEF Announced
<1> HIDE DEF c
<1> QED
  BY <1>5, <1>6, ItemTag

\* What may be left behind a string of the noise's
LEMMA RemainsBacked ==
    ASSUME NEW p \in Seq(Items), NEW said, NEW killed, Backed(p, said, killed), NEW m \in Nat,
           NEW str, str = fgets(p, m), NEW q \in Remains(p, str)
    PROVE  q \in Seq(Items) /\ Backed(q, said, killed)
<1>1. PICK l \in 0..Len(p) : str \in Seq(Items) /\ After(p, str) = SubSeq(p, l + 1, Len(p))
  <2>1. \E l \in 0..Len(p) : Takes(p, m, str, l)
    BY AfterIs, Zenon
  <2> QED
    BY <2>1, Zenon DEF Takes
<1> DEFINE r == After(p, str)
<1>2. r \in Seq(Items) /\ Backed(r, said, killed)
  BY <1>1, BackedRest, RestIs
<1>3. CASE q = r
  BY <1>2, <1>3
<1>4. CASE q # r
  <2>1. str # <<>> /\ IsTag(Last(str)) /\ q = <<Tag("other", Last(str).len)>> \o r
    BY <1>4 DEF Remains
  <2>2. Last(str) \in Items
    BY <1>1, <2>1, FrontProps
  <2>3. Last(str).len \in Nat
    BY <2>1, <2>2, ItemTag
  <2> DEFINE c == Tag("other", Last(str).len)
  <2>4. c \in Items /\ c.tag = "other"
    <3>1. "other" \in Words
      BY DEF Words
    <3> QED
      BY <2>3, <3>1, TagIs
  <2>5. Foreign(c)
    BY <2>4, FieldsAreWords DEF Foreign
  <2> HIDE DEF c, r
  <2>6. q = <<c>> \o r
    BY <2>1 DEF c, r
  <2> QED
    BY <1>2, <2>4, <2>5, <2>6, BackedLead
<1> QED
  BY <1>3, <1>4

\* The steps of the wrapper's loop, whatever the noise announces
IsKept(g, h, p, q, said, killed) ==
    q \in Seq(Items) /\ Backed(q, said, killed) /\ Right(h, said, killed)

LEMMA LineKept ==
    ASSUME NEW p \in Seq(Items), NEW said, NEW killed, Backed(p, said, killed),
           NEW g, g = [f \in Fields |-> g[f]], Right(g, said, killed),
           NEW line, line = fgets(p, LineSize), NEW rest, rest = After(p, line),
           Announces(line), NEW str, str = fgets(rest, Announced(line)), NEW h, NEW q,
           IF IsOwn(line)
           THEN /\ q = After(rest, str)
                /\ h = IF line[1].len = 0 \/ str # <<>> THEN [g EXCEPT ![line[1].tag] = str] ELSE g
           ELSE q \in Remains(rest, str) /\ h = g
    PROVE  IsKept(g, h, p, q, said, killed)
<1>1. LineSize \in Nat
  BY InfoAssumption
<1>2. PICK l \in 0..Len(p) : line \in Seq(Items) /\ After(p, line) = SubSeq(p, l + 1, Len(p))
  <2>1. \E l \in 0..Len(p) : Takes(p, LineSize, line, l)
    BY <1>1, AfterIs, Zenon
  <2> QED
    BY <2>1, Zenon DEF Takes
<1>3. rest \in Seq(Items) /\ Backed(rest, said, killed)
  BY <1>2, BackedRest, RestIs
<1>4. Announced(line) \in Nat
  BY <1>2, AnnouncedNumber
<1>5. CASE IsOwn(line)
  <2>1. q \in Remains(rest, str)
    BY <1>5 DEF Remains
  <2>2. q \in Seq(Items) /\ Backed(q, said, killed)
    BY <1>3, <1>4, <2>1, RemainsBacked
  <2>3. OwnRead(p, line, rest, str, said, killed)
    BY <1>5, OwnLine
  <2> DEFINE f == line[1].tag
  <2>4. f \in Fields /\ said[f] # NoText /\ (str = said[f] \/ (killed /\ IsPrefix(str, said[f])))
    BY <2>3 DEF OwnRead
  <2>5. h = g \/ h = [g EXCEPT ![f] = str]
    BY <1>5
  <2> HIDE DEF f
  <2>6. ASSUME NEW x \in Fields
        PROVE  \/ h[x] = NoText \/ h[x] = said[x]
               \/ killed /\ said[x] # NoText /\ IsPrefix(h[x], said[x])
    <3>1. h[x] = g[x] \/ (x = f /\ h[x] = str)
      BY <2>4, <2>5
    <3> QED
      BY <2>4, <3>1 DEF Right
  <2> QED
    BY <2>2, <2>6 DEF IsKept, Right
<1>6. CASE ~IsOwn(line)
  <2>1. q \in Seq(Items) /\ Backed(q, said, killed)
    BY <1>3, <1>4, <1>6, RemainsBacked
  <2> QED
    BY <1>6, <2>1 DEF IsKept
<1> QED
  BY <1>5, <1>6

LEMMA RestKept ==
    ASSUME NEW p \in Seq(Items), NEW said, NEW killed, Backed(p, said, killed),
           NEW line, line = fgets(p, LineSize)
    PROVE  After(p, line) \in Seq(Items) /\ Backed(After(p, line), said, killed)
<1>1. LineSize \in Nat
  BY InfoAssumption
<1>2. PICK l \in 0..Len(p) : line \in Seq(Items) /\ After(p, line) = SubSeq(p, l + 1, Len(p))
  <2>1. \E l \in 0..Len(p) : Takes(p, LineSize, line, l)
    BY <1>1, AfterIs, Zenon
  <2> QED
    BY <2>1, Zenon DEF Takes
<1> QED
  BY <1>2, BackedRest, RestIs

\* How the steps of the wrapper's loop go on
SkippedTo(O, b, said, killed, p, line, g, rd) ==
    ~Announces(line) /\ Progress(O, b, said, killed, After(p, line), g, rd)
TakenTo(O, b, said, killed, p, line, str, h, rd) ==
    /\ Whole(line) /\ Announces(line) /\ IsOwn(line) /\ h = [f \in Fields |-> h[f]]
    /\ Progress(O, b, said, killed, After(After(p, line), str), h, rd)

LEMMA Skipped ==
    ASSUME NEW O, NEW b, NEW said, Layout(O, b, said), NEW n, NEW k, NEW j, NEW killed, NEW g,
           At(O, b, n, k, j), k < b[j], k < n, Has(g, said, killed, j), ~killed => n = Len(O),
           NEW p, p = SubSeq(O, k + 1, n), NEW line, line = fgets(p, LineSize),
           NEW rd, rd = "rest" => ~Whole(line)
    PROVE  SkippedTo(O, b, said, killed, p, line, g, rd)
<1>1. PICK l \in Nat :
         LET w == fgets(SubSeq(O, k + 1, n), LineSize)
         IN  /\ After(SubSeq(O, k + 1, n), w) = SubSeq(O, k + l + 1, n)
             /\ At(O, b, n, k + l, j)
             /\ ~Announces(w)
             /\ ~Whole(w) => k + l < b[j]
  BY SkipLine
<1> DEFINE e == k + l
<1>2. /\ After(p, line) = SubSeq(O, e + 1, n) /\ At(O, b, n, e, j)
      /\ ~Announces(line) /\ (~Whole(line) => e < b[j])
  BY <1>1
<1> HIDE DEF e
<1>3. n \in 0..Len(O) /\ e \in 0..Len(O) /\ j \in 1..4
  BY <1>2, LayoutTypes DEF At
<1>4. Progress(O, b, said, killed, After(p, line), g, rd)
  BY <1>2, <1>3, Zenon DEF Progress
<1> QED
  BY <1>2, <1>4 DEF SkippedTo

LEMMA Taken ==
    ASSUME NEW O, NEW b, NEW said, Layout(O, b, said), NEW n, NEW k, NEW j, NEW killed, NEW g,
           At(O, b, n, k, j), k = b[j], k + 1 < n, Has(g, said, killed, j), ~killed => n = Len(O),
           g = [f \in Fields |-> g[f]],
           NEW p, p = SubSeq(O, k + 1, n), NEW line, line = fgets(p, LineSize),
           NEW str, str = fgets(After(p, line), Announced(line)),
           NEW h, h = IF line[1].len = 0 \/ str # <<>> THEN [g EXCEPT ![line[1].tag] = str] ELSE g,
           NEW rd, rd = "lines"
    PROVE  TakenTo(O, b, said, killed, p, line, str, h, rd)
<1>1. PICK m \in 1..4 : /\ At(O, b, n, k, m) /\ k = b[m] /\ Has(g, said, killed, m)
                        /\ m = 4 \/ said[Field[m]] # NoText
  BY NextPart
<1>2. m \in 1..3 /\ said[Field[m]] # NoText
  <2>1. m # 4
    BY <1>1, LayoutTypes DEF At
  <2> QED
    BY <1>1, <2>1
<1> DEFINE f == Field[m]
           t == said[f]
<1>3. PICK l \in 0..Len(t) :
         /\ Whole(line) /\ Announces(line) /\ IsOwn(line) /\ line[1] = Tag(f, Len(t))
         /\ After(After(p, line), str) = SubSeq(O, k + 2 + l + 1, n)
         /\ At(O, b, n, k + 2 + l, m + 1)
         /\ n = Len(O) => l = Len(t)
         /\ l = Len(t) => str = t
         /\ IsPrefix(str, t) /\ (str = <<>> => l = 0)
  <2>1. IsTagRead(O, b, n, k, m, f, t, line, After(p, line), str)
    BY <1>1, <1>2, TagLine
  <2> HIDE DEF f, t
  <2> QED
    BY <2>1, Zenon DEF IsTagRead
<1>4. f \in Fields /\ Len(t) \in Nat
  <2>1. Field[m] \in Fields
    BY <1>2 DEF Field, Fields
  <2>2. Segment(O, b[m], b[m + 1], Field[m], said[Field[m]])
    BY <1>2 DEF Layout
  <2> QED
    BY <1>2, <2>1, <2>2 DEF Segment
<1>5. line[1].tag = f /\ line[1].len = Len(t)
  BY <1>3 DEF Tag
<1>6. h = IF Len(t) = 0 \/ str # <<>> THEN [g EXCEPT ![f] = str] ELSE g
  BY <1>3, <1>5
<1>7. \A i \in 1..3 : i # m => Field[i] # f
  BY <1>2 DEF Field
<1>8. \A i \in 1..3 : Field[i] \in Fields
  BY DEF Field, Fields
<1> HIDE DEF f, t
<1>9. /\ h = [x \in Fields |-> h[x]] /\ (\A x \in Fields : x # f => h[x] = g[x])
      /\ h[f] = IF Len(t) = 0 \/ str # <<>> THEN str ELSE g[f]
  <2>1. CASE Len(t) = 0 \/ str # <<>>
    BY <1>4, <1>6, <2>1
  <2>2. CASE ~(Len(t) = 0 \/ str # <<>>)
    BY <1>4, <1>6, <2>2
  <2> QED
    BY <2>1, <2>2
<1>10. Has(h, said, killed, m + 1)
  <2> SUFFICES ASSUME NEW i \in 1..3
               PROVE  IF i >= m + 1 THEN h[Field[i]] = NoText
                      ELSE \/ h[Field[i]] = said[Field[i]]
                           \/ /\ killed /\ said[Field[i]] # NoText
                              /\ h[Field[i]] # NoText => IsPrefix(h[Field[i]], said[Field[i]])
    BY DEF Has
  <2>1. CASE i # m
    <3>1. h[Field[i]] = g[Field[i]]
      BY <1>7, <1>8, <1>9, <2>1
    <3>2. i >= m + 1 <=> i >= m
      BY <1>2, <2>1
    <3> QED
      BY <1>1, <3>1, <3>2 DEF Has
  <2>2. CASE i = m
    <3>1. Field[i] = f /\ said[Field[i]] = t /\ ~(i >= m + 1) /\ i >= m
      BY <1>2, <2>2 DEF f, t
    <3>2. g[f] = NoText
      BY <1>1, <3>1 DEF Has
    <3>3. CASE n = Len(O)
      <4>1. l = Len(t) /\ str = t
        BY <1>3, <3>3 DEF f, t
      <4>2. Len(t) = 0 \/ str # <<>>
        BY <1>3, <4>1 DEF f, t
      <4> QED
        BY <1>9, <3>1, <4>1, <4>2
    <3>4. CASE n # Len(O)
      <4>1. killed /\ t # NoText /\ IsPrefix(str, t)
        BY <1>2, <1>3, <3>4 DEF f, t
      <4> QED
        BY <1>9, <3>1, <3>2, <4>1
    <3> QED
      BY <3>3, <3>4
  <2> QED
    BY <2>1, <2>2
<1> DEFINE e == k + 2 + l
           q == m + 1
<1>11. After(After(p, line), str) = SubSeq(O, e + 1, n) /\ At(O, b, n, e, q) /\ Has(h, said, killed, q)
  BY <1>3, <1>10 DEF f, t
<1> HIDE DEF e, q
<1>12. n \in 0..Len(O) /\ e \in 0..Len(O) /\ q \in 1..4
  BY <1>11, LayoutTypes DEF At
<1>13. Progress(O, b, said, killed, After(After(p, line), str), h, rd)
  <2>1. rd # "rest"
    OBVIOUS
  <2> QED
    BY <1>11, <1>12, <2>1, Zenon DEF Progress
<1> QED
  BY <1>3, <1>9, <1>13 DEF TakenTo

\* Of a tag the pipe may have only a part: a line that does not end.
LEMMA OneCharacter ==
    ASSUME NEW p \in Seq(Items), Len(p) = 1, p[1] # Newline, NEW line, line = fgets(p, LineSize)
    PROVE  ~Whole(line) /\ After(p, line) = SubSeq(p, 1 + 1, 1)
<1>1. LineSize \in Nat /\ LineSize # 0
  BY InfoAssumption
<1>2. PICK l \in 0..Len(p) : Takes(p, LineSize, line, l)
  BY <1>1, AfterIs, Zenon
<1>3. l = Len(p) \/ l = LineSize \/ (l > 0 /\ p[l] = Newline)
  BY <1>2, Zenon DEF Takes
<1>4. l \in {0, 1}
  OBVIOUS
<1>5. l = 1
  BY <1>1, <1>3, <1>4
<1>6. 1 \in 1..l /\ Len(line) = 1 /\ line[1] = p[1] /\ After(p, line) = SubSeq(p, 1 + 1, 1)
  <2>1. 1 \in 1..l
    BY <1>5
  <2> QED
    BY <1>2, <1>5, <2>1, Zenon DEF Takes
<1>7. ~Whole(line)
  BY <1>6 DEF Whole, Last
<1> QED
  BY <1>6, <1>7

CutAt(b, j, k, n) == k = b[j] /\ n = k + 1

LEMMA CutTag ==
    ASSUME NEW O, NEW b, NEW said, Layout(O, b, said), NEW n, NEW k, NEW j, NEW killed, NEW g,
           At(O, b, n, k, j), CutAt(b, j, k, n), Has(g, said, killed, j), ~killed => n = Len(O),
           NEW p, p = SubSeq(O, k + 1, n), NEW line, line = fgets(p, LineSize),
           NEW rd
    PROVE  SkippedTo(O, b, said, killed, p, line, g, rd)
<1>1. PICK m \in 1..4 : /\ At(O, b, n, k, m) /\ k = b[m] /\ Has(g, said, killed, m)
                        /\ m = 4 \/ said[Field[m]] # NoText
  <2>1. k = b[j]
    BY DEF CutAt
  <2> QED
    BY <2>1, NextPart
<1>2. n \in Nat /\ k \in Nat /\ n <= Len(O) /\ Len(O) \in Nat /\ O \in Seq(Items) /\ n - k = 1
  <2>1. n \in Nat /\ k \in Nat /\ n <= Len(O) /\ Len(O) \in Nat /\ O \in Seq(Items)
    BY LayoutTypes DEF At
  <2> QED
    BY <2>1 DEF CutAt
<1>3. m \in 1..3 /\ said[Field[m]] # NoText /\ m + 1 \in 1..4
  <2>1. m # 4
    BY <1>1, <1>2, LayoutTypes DEF At
  <2> QED
    BY <1>1, <2>1
<1> DEFINE h == Len(said[Field[m]])
           e == b[m + 1]
<1>4. /\ h \in Nat /\ e = k + h + 3 /\ O[k + 1] = Tag(Field[m], h) /\ O[e] = Newline
      /\ e \in Nat /\ e <= Len(O)
  <2>1. Segment(O, b[m], b[m + 1], Field[m], said[Field[m]])
    BY <1>3 DEF Layout
  <2>2. e \in Nat /\ e <= Len(O)
    BY <1>2, <1>3, LayoutTypes
  <2> QED
    BY <1>1, <1>3, <2>1, <2>2 DEF Segment
<1> HIDE DEF e, h
<1>5. n < Len(O) /\ killed
  <2>1. n < Len(O) /\ n # Len(O)
    BY <1>2, <1>4
  <2> QED
    BY <2>1, Zenon
<1>6. p \in Seq(Items) /\ Len(p) = 1 /\ p[1] = O[k + 1]
  <2>1. /\ SubSeq(O, k + 1, n) \in Seq(Items) /\ Len(SubSeq(O, k + 1, n)) = n - k
        /\ \A i \in 1..(n - k) : SubSeq(O, k + 1, n)[i] = O[k + i]
    <3>1. k <= n
      BY <1>2
    <3> QED
      BY <1>2, <3>1, PartProps
  <2>2. n - k = 1 /\ 1 \in 1..(n - k)
    BY <1>2
  <2> QED
    BY <2>1, <2>2
<1>7. p[1] # Newline
  <2>1. Field[m] \in Fields
    BY <1>3 DEF Field, Fields
  <2> QED
    <3>1. Field[m] \in Words /\ h \in Nat /\ p[1] = Tag(Field[m], h)
      BY <1>4, <1>6, <2>1, FieldsAreWords
    <3> QED
      BY <3>1, TagIs, Zenon
<1>10. ~Whole(line) /\ After(p, line) = SubSeq(p, 1 + 1, 1)
  BY <1>6, <1>7, OneCharacter, Zenon
<1>11. After(p, line) = SubSeq(O, n + 1, n)
  <2> DEFINE x == 1
             y == 1
  <2>2. x \in Nat /\ y \in Nat /\ x <= y /\ y <= n - k /\ k <= n /\ k + x + 1 = n + 1 /\ k + y = n
    BY <1>2
  <2>3. After(p, line) = SubSeq(SubSeq(O, k + 1, n), x + 1, y)
    BY <1>10
  <2> HIDE DEF x, y
  <2>4. SubSeq(SubSeq(O, k + 1, n), x + 1, y) = SubSeq(O, k + x + 1, k + y)
    BY <1>2, <2>2, PartOfPart
  <2> QED
    BY <2>2, <2>3, <2>4
<1> DEFINE q == m + 1
<1>12. At(O, b, n, n, q) /\ n < b[q]
  <2>1. \A i \in (n + 1)..e : i <= n => ~IsTag(O[i])
    BY <1>2, <1>4
  <2> QED
    BY <1>2, <1>3, <1>4, <2>1 DEF At, e
<1>13. Has(g, said, killed, q)
  BY <1>1, <1>3, <1>5 DEF Has
<1>14. q \in 1..4 /\ n \in 0..Len(O)
  BY <1>2, <1>3
<1> HIDE DEF q
<1>15. Progress(O, b, said, killed, After(p, line), g, rd)
  BY <1>5, <1>11, <1>12, <1>13, <1>14, Zenon DEF Progress
<1> QED
  BY <1>10, <1>15 DEF SkippedTo, Announces

LEMMA EndedWhole ==
    ASSUME NEW O, NEW b, NEW said, Layout(O, b, said), NEW n, NEW k, NEW j, NEW killed, NEW g,
           At(O, b, n, k, j), k = b[j], Has(g, said, killed, j), Len(O) <= k
    PROVE  Has(g, said, killed, 4)
<1>1. PICK m \in 1..4 : /\ At(O, b, n, k, m) /\ k = b[m] /\ Has(g, said, killed, m)
                        /\ m = 4 \/ said[Field[m]] # NoText
  BY NextPart
<1>2. m = 4
  <2> SUFFICES ASSUME m # 4 PROVE FALSE
    OBVIOUS
  <2>1. m \in 1..3 /\ m + 1 \in 1..4 /\ said[Field[m]] # NoText
    BY <1>1
  <2>2. Segment(O, b[m], b[m + 1], Field[m], said[Field[m]])
    BY <2>1 DEF Layout
  <2> DEFINE q == b[m + 1]
             h == Len(said[Field[m]])
  <2>3. q \in 0..Len(O) /\ Len(O) \in Nat /\ k \in Nat
    BY <1>1, <2>1, LayoutTypes
  <2>4. h \in Nat /\ q = k + h + 3
    BY <1>1, <2>1, <2>2 DEF Segment
  <2> HIDE DEF q, h
  <2> QED
    BY <2>3, <2>4
<1> QED
  BY <1>1, <1>2

LEMMA Ended ==
    ASSUME NEW O, NEW b, NEW said, Layout(O, b, said), NEW n, NEW k, NEW j, NEW killed, NEW g,
           At(O, b, n, k, j), k = n, Has(g, said, killed, j), ~killed => n = Len(O)
    PROVE  Has(g, said, killed, 4)
<1>1. CASE killed
  <2> SUFFICES ASSUME NEW i \in 1..3
               PROVE  \/ g[Field[i]] = said[Field[i]]
                      \/ /\ killed /\ said[Field[i]] # NoText
                         /\ g[Field[i]] # NoText => IsPrefix(g[Field[i]], said[Field[i]])
    BY DEF Has
  <2> QED
    BY <1>1 DEF Has
<1>2. CASE ~killed
  <2>1. k = b[j] /\ Len(O) <= k
    BY <1>2, LayoutTypes DEF At
  <2> QED
    BY <2>1, EndedWhole, Zenon
<1> QED
  BY <1>1, <1>2

Quiet == IsQuiet(library.chatter)

\* What holds of the wrapper's reading of the viewer's answers: what is
\* stored is the plugin's, and behind the tags in the pipe are its strings.
\* If the noise announces nothing, the pipe is what is left of the output,
\* and the strings of the parts before it are stored; in the end, of all.
InfoInvariant ==
    /\ library \in Libraries
    /\ g_plugin = [f \in Fields |-> g_plugin[f]]
    /\ reading \in {"none", "lines", "rest", "done"}
    /\ reading = "none" => \A f \in Fields : g_plugin[f] = NoText
    /\ reading # "none" => viewer_exit \in {Status, "killed"}
    /\ Fit => Right(g_plugin, Said, viewer_exit = "killed")
    /\ Fit /\ reading # "none" => pipe \in Seq(Items) /\ Backed(pipe, Said, viewer_exit = "killed")
    /\ Fit /\ Quiet /\ reading \in {"lines", "rest"} =>
          \E b : /\ Layout(Output, b, Said)
                 /\ Progress(Output, b, Said, viewer_exit = "killed", pipe, g_plugin, reading)
    /\ Fit /\ Quiet /\ reading = "done" => Has(g_plugin, Said, viewer_exit = "killed", 4)

LEMMA InfoInvariantInit == InfoInit => InfoInvariant
<1> SUFFICES ASSUME InfoInit PROVE InfoInvariant
  OBVIOUS
<1>1. library \in Libraries /\ reading = "none" /\ g_plugin = [f \in Fields |-> NoText]
  BY DEF InfoInit
<1>2. Right(g_plugin, Said, viewer_exit = "killed")
  BY <1>1 DEF Right
<1> QED
  BY <1>1, <1>2 DEF InfoInvariant

LEMMA SameLibrary ==
    ASSUME library' = library
    PROVE  Status' = Status /\ Output' = Output /\ Said' = Said /\ (Fit' <=> Fit) /\ (Quiet' <=> Quiet)
<1>1. do_test' = do_test
  BY DEF do_test
<1>2. Status' = Status
  BY <1>1 DEF Status
<1>3. do_info' = do_info
  <2>1. /\ Printed("PLUGIN_NAME")' = Printed("PLUGIN_NAME")
        /\ Printed("PLUGIN_DESC")' = Printed("PLUGIN_DESC")
        /\ Printed("PLUGIN_MIME")' = Printed("PLUGIN_MIME")
    BY DEF Printed
  <2> QED
    BY <1>1, <2>1 DEF do_info
<1>4. Output' = Output
  BY <1>3 DEF Output
<1>5. Said' = Said
  BY <1>2 DEF Said
<1>6. (Fit' <=> Fit) /\ (Quiet' <=> Quiet)
  BY DEF Fit, Quiet
<1> QED
  BY <1>2, <1>4, <1>5, <1>6

\* What a pipe with something left to read says of the places
LEMMA Left ==
    ASSUME NEW O \in Seq(Items), NEW n \in 0..Len(O), NEW k \in 0..n, NEW p, p = SubSeq(O, k + 1, n)
    PROVE  p # <<>> <=> k < n
<1>1. /\ SubSeq(O, k + 1, n) \in Seq(Items) /\ Len(SubSeq(O, k + 1, n)) = n - k
      /\ k \in Nat /\ n \in Nat
  <2>1. k \in Nat /\ n \in Nat /\ k <= n /\ n <= Len(O)
    OBVIOUS
  <2> QED
    BY <2>1, PartProps
<1>2. p \in Seq(Items) /\ Len(p) = n - k
  BY <1>1
<1> QED
  BY <1>1, <1>2

LEMMA ViewerRuns == InfoInvariant /\ RunViewer => InfoInvariant'
<1> SUFFICES ASSUME InfoInvariant, RunViewer PROVE InfoInvariant'
  OBVIOUS
<1>1. /\ library \in Libraries /\ g_plugin = [f \in Fields |-> g_plugin[f]]
      /\ \A f \in Fields : g_plugin[f] = NoText
  BY DEF InfoInvariant, RunViewer
<1>2. library' = library /\ g_plugin' = g_plugin /\ reading' = "lines"
  BY DEF RunViewer
<1>3. Status' = Status /\ Output' = Output /\ Said' = Said /\ (Fit' <=> Fit) /\ (Quiet' <=> Quiet)
  BY <1>2, SameLibrary
<1>4. viewer_exit' \in {Status, "killed"}
  BY DEF RunViewer
<1>5. ASSUME Fit, Quiet
      PROVE  \E b : /\ Layout(Output, b, Said)
                    /\ Progress(Output, b, Said, viewer_exit' = "killed", pipe', g_plugin, "lines")
  <2>1. PICK b : Layout(Output, b, Said) /\ \A i \in 1..b[1] : ~IsTag(Output[i])
    <3>1. PICK b : BehindNoise(Output, b, Said, Noise)
      BY <1>1, <1>5, OutputLayout
    <3>2. \A i \in 1..Len(Noise) : ~IsTag(Noise[i])
      BY <1>5 DEF Quiet, IsQuiet, Noise
    <3> QED
      BY <3>1, <3>2 DEF BehindNoise
  <2> DEFINE O == Output
             killed == viewer_exit' = "killed"
             z == 0
             j == 1
  <2>2. O \in Seq(Items) /\ Len(O) \in Nat /\ b[j] \in 0..Len(O)
    BY <2>1, LayoutTypes
  <2>3. PICK n \in 0..Len(O) : pipe' = SubSeq(O, z + 1, n) /\ (~killed => n = Len(O))
    <3>1. CASE viewer_exit' = "killed" /\ \E n \in 0..Len(O) : pipe' = SubSeq(O, 1, n)
      BY <3>1
    <3>2. CASE viewer_exit' = Status /\ pipe' = O
      <4> DEFINE n == Len(O)
      <4>1. n \in 0..Len(O)
        BY <2>2
      <4>2. SubSeq(O, 1, n) = O
        <5> HIDE DEF O
        <5> QED
          BY <2>2
      <4>3. pipe' = SubSeq(O, z + 1, n)
        BY <3>2, <4>2
      <4> HIDE DEF n
      <4>4. ~killed => n = Len(O)
        BY DEF n
      <4> HIDE DEF O, z, killed
      <4> QED
        BY <4>1, <4>3, <4>4
    <3> QED
      BY <3>1, <3>2 DEF RunViewer
  <2>4. (\A i \in (z + 1)..b[j] : i <= n => ~IsTag(O[i])) /\ (z < b[j] => O[b[j]] = Newline)
    BY <2>1, <2>2 DEF Layout
  <2>5. z \in 0..n /\ z <= b[j] /\ j \in 1..4
    BY <2>2, <2>3
  <2>6. At(O, b, n, z, j)
    BY <2>3, <2>4, <2>5 DEF At
  <2>7. Has(g_plugin, Said, killed, j)
    <3>1. \A i \in 1..3 : i >= j /\ Field[i] \in Fields
      BY DEF Field, Fields
    <3> QED
      BY <1>1, <3>1 DEF Has
  <2>8. z \in 0..Len(O) /\ "lines" # "rest"
    BY <2>2
  <2> HIDE DEF z, j, O, killed
  <2>9. Progress(O, b, Said, killed, pipe', g_plugin, "lines")
    BY <2>3, <2>5, <2>6, <2>7, <2>8, Zenon DEF Progress
  <2> QED
    BY <2>1, <2>9 DEF O, killed
<1>6. ASSUME Fit
      PROVE  pipe' \in Seq(Items) /\ Backed(pipe', Said, viewer_exit' = "killed")
  <2>1. PICK b : BehindNoise(Output, b, Said, Noise)
    BY <1>1, <1>6, OutputLayout
  <2> DEFINE O == Output
             killed == viewer_exit' = "killed"
  <2>2. Layout(O, b, Said) /\ O \in Seq(Items) /\ Len(O) \in Nat
    BY <2>1, LayoutTypes DEF BehindNoise
  <2>3. PICK n \in 0..Len(O) : pipe' = SubSeq(O, 1, n) /\ (~killed => n = Len(O))
    <3>1. CASE viewer_exit' = "killed" /\ \E n \in 0..Len(O) : pipe' = SubSeq(O, 1, n)
      BY <3>1
    <3>2. CASE viewer_exit' = Status /\ pipe' = O
      <4> DEFINE n == Len(O)
      <4>1. n \in 0..Len(O)
        BY <2>2
      <4>2. SubSeq(O, 1, n) = O
        <5> HIDE DEF O
        <5> QED
          BY <2>2
      <4>3. pipe' = SubSeq(O, 1, n)
        BY <3>2, <4>2
      <4> HIDE DEF n
      <4>4. ~killed => n = Len(O)
        BY DEF n
      <4> HIDE DEF O, killed
      <4> QED
        BY <4>1, <4>3, <4>4
    <3> QED
      BY <3>1, <3>2 DEF RunViewer
  <2> HIDE DEF O, killed
  <2>4. pipe' \in Seq(Items) /\ Backed(pipe', Said, killed)
    BY <2>2, <2>3, BackedOutput
  <2> QED
    BY <2>4 DEF killed
<1>7. Right(g_plugin, Said, viewer_exit' = "killed")
  BY <1>1 DEF Right
<1> QED
  BY <1>1, <1>2, <1>3, <1>4, <1>5, <1>6, <1>7 DEF InfoInvariant

LEMMA LineRead == InfoInvariant /\ ReadLine => InfoInvariant'
<1> SUFFICES ASSUME InfoInvariant, ReadLine PROVE InfoInvariant'
  OBVIOUS
<1>1. /\ library \in Libraries /\ g_plugin = [f \in Fields |-> g_plugin[f]]
      /\ viewer_exit \in {Status, "killed"}
  BY DEF InfoInvariant, ReadLine
<1>2. library' = library /\ viewer_exit' = viewer_exit /\ reading = "lines" /\ pipe # <<>>
  BY DEF ReadLine
<1>3. Status' = Status /\ Output' = Output /\ Said' = Said /\ (Fit' <=> Fit) /\ (Quiet' <=> Quiet)
  BY <1>2, SameLibrary
<1> DEFINE line == fgets(pipe, LineSize)
           rest == After(pipe, line)
           str == fgets(rest, Announced(line))
           tagged == Announces(line)
           killed == viewer_exit = "killed"
<1>4. /\ IF tagged THEN TakeString(line, rest, str) ELSE pipe' = rest /\ g_plugin' = g_plugin
      /\ reading' = IF Whole(line) THEN "lines" ELSE "rest"
  BY DEF ReadLine
<1> HIDE DEF line, str
<1>5. g_plugin' = [f \in Fields |-> g_plugin'[f]] /\ reading' \in {"lines", "rest"}
  <2>1. CASE tagged
    BY <1>1, <1>4, <2>1 DEF TakeString
  <2>2. CASE ~tagged
    BY <1>1, <1>4, <2>2
  <2> QED
    BY <2>1, <2>2
<1>6. ASSUME Fit, Quiet
      PROVE  \E b : /\ Layout(Output, b, Said)
                    /\ Progress(Output, b, Said, killed, pipe', g_plugin', reading')
  <2> DEFINE O == Output
             said == Said
             g == g_plugin
  <2>1. PICK b : Layout(O, b, said) /\ Progress(O, b, said, killed, pipe, g, reading)
    BY <1>2, <1>6 DEF InfoInvariant
  <2> HIDE DEF O, said, killed
  <2>2. PICK n \in 0..Len(O), k \in 0..Len(O), j \in 1..4 :
           /\ At(O, b, n, k, j) /\ Has(g, said, killed, j)
           /\ pipe = SubSeq(O, k + 1, n) /\ (~killed => n = Len(O))
    BY <2>1 DEF Progress
  <2>3. O \in Seq(Items) /\ k \in 0..n /\ k <= b[j]
    BY <2>1, <2>2, LayoutTypes DEF At
  <2>4. k < n
    BY <1>2, <2>2, <2>3, Left
  <2> DEFINE skipping == SkippedTo(O, b, said, killed, pipe, line, g, reading')
  <2>s. ASSUME skipping PROVE Progress(O, b, said, killed, pipe', g_plugin', reading')
    <3>1. ~tagged /\ Progress(O, b, said, killed, After(pipe, line), g, reading')
      BY <2>s DEF SkippedTo
    <3>2. pipe' = After(pipe, line) /\ g_plugin' = g
      BY <1>4, <3>1
    <3> QED
      BY <3>1, <3>2
  <2>5. CASE k < b[j]
    <3> DEFINE rd == reading'
    <3>1. rd = "rest" => ~Whole(line)
      BY <1>4
    <3>2. line = fgets(pipe, LineSize)
      BY DEF line
    <3>3. /\ Layout(O, b, said) /\ At(O, b, n, k, j) /\ Has(g, said, killed, j)
          /\ (~killed => n = Len(O)) /\ pipe = SubSeq(O, k + 1, n)
      BY <2>1, <2>2
    <3> HIDE DEF g, rd
    <3>4. SkippedTo(O, b, said, killed, pipe, line, g, rd)
      BY <2>4, <2>5, <3>1, <3>2, <3>3, Skipped
    <3>5. skipping
      BY <3>4 DEF rd
    <3> QED
      BY <2>1, <2>s, <3>5 DEF O, said
  <2>c. CASE k = b[j] /\ k + 1 = n
    <3> DEFINE rd == reading'
    <3>1. line = fgets(pipe, LineSize)
      BY DEF line
    <3>2. /\ Layout(O, b, said) /\ At(O, b, n, k, j) /\ Has(g, said, killed, j)
          /\ (~killed => n = Len(O)) /\ pipe = SubSeq(O, k + 1, n)
      BY <2>1, <2>2
    <3>5. CutAt(b, j, k, n)
      BY <2>c DEF CutAt
    <3> HIDE DEF g, rd
    <3>3. SkippedTo(O, b, said, killed, pipe, line, g, rd)
      BY <3>1, <3>2, <3>5, CutTag
    <3>4. skipping
      BY <3>3 DEF rd
    <3> QED
      BY <2>1, <2>s, <3>4 DEF O, said
  <2>6. CASE k = b[j] /\ k + 1 # n
    <3> DEFINE h == IF line[1].len = 0 \/ str # <<>> THEN [g EXCEPT ![line[1].tag] = str] ELSE g
    <3>1. /\ Whole(line) /\ Announces(line) /\ IsOwn(line) /\ h = [f \in Fields |-> h[f]]
          /\ Progress(O, b, said, killed, After(After(pipe, line), str), h, "lines")
      <4>1. line = fgets(pipe, LineSize) /\ str = fgets(After(pipe, line), Announced(line))
        BY DEF line, str
      <4>2. g = [f \in Fields |-> g[f]]
        BY <1>1
      <4>3. h = IF line[1].len = 0 \/ str # <<>> THEN [g EXCEPT ![line[1].tag] = str] ELSE g
        OBVIOUS
      <4>4. /\ Layout(O, b, said) /\ At(O, b, n, k, j) /\ Has(g, said, killed, j)
            /\ (~killed => n = Len(O)) /\ pipe = SubSeq(O, k + 1, n)
        BY <2>1, <2>2
      <4> DEFINE rd == "lines"
      <4>5. rd = "lines"
        OBVIOUS
      <4>7. k + 1 < n
        BY <2>2, <2>4, <2>6
      <4> HIDE DEF h, g, rd
      <4>6. TakenTo(O, b, said, killed, pipe, line, str, h, rd)
        BY <2>6, <4>1, <4>2, <4>3, <4>4, <4>5, <4>7, Taken, ZenonT(60)
      <4> QED
        BY <4>6 DEF TakenTo, rd
    <3>2. TakeString(line, rest, str)
      BY <1>4, <3>1
    <3>3. pipe' = After(After(pipe, line), str) /\ g_plugin' = h /\ reading' = "lines"
      BY <1>4, <3>1, <3>2 DEF TakeString
    <3> QED
      BY <2>1, <3>1, <3>3 DEF O, said
  <2>7. k < b[j] \/ k = b[j]
    <3>1. b[j] \in 0..Len(O)
      BY <2>1, <2>2, LayoutTypes
    <3> QED
      BY <2>2, <2>3, <3>1
  <2> QED
    BY <2>5, <2>c, <2>6, <2>7
<1>7. reading' # "none" /\ reading' # "done"
  BY <1>5
<1>8. ASSUME Fit
      PROVE  pipe' \in Seq(Items) /\ Backed(pipe', Said, killed) /\ Right(g_plugin', Said, killed)
  <2> DEFINE g == g_plugin
             h == g_plugin'
             q == pipe'
             said == Said
  <2>1. pipe \in Seq(Items) /\ Backed(pipe, said, killed) /\ Right(g, said, killed)
    BY <1>2, <1>8 DEF InfoInvariant
  <2>2. g = [f \in Fields |-> g[f]] /\ line = fgets(pipe, LineSize) /\ str = fgets(rest, Announced(line))
    BY <1>1 DEF line, str
  <2> HIDE DEF rest, said, killed
  <2>3. CASE tagged
    <3>1. IF IsOwn(line)
          THEN /\ q = After(rest, str)
               /\ h = IF line[1].len = 0 \/ str # <<>> THEN [g EXCEPT ![line[1].tag] = str] ELSE g
          ELSE q \in Remains(rest, str) /\ h = g
      BY <1>4, <2>3 DEF TakeString
    <3>2. rest = After(pipe, line)
      BY DEF rest
    <3> HIDE DEF g, h, q
    <3>3. IsKept(g, h, pipe, q, said, killed)
      BY <2>1, <2>2, <2>3, <3>1, <3>2, LineKept
    <3> QED
      BY <3>3 DEF IsKept, h, q, said
  <2>4. CASE ~tagged
    <3>1. q = After(pipe, line) /\ h = g
      BY <1>4, <2>4 DEF rest
    <3> HIDE DEF g, h, q
    <3>2. q \in Seq(Items) /\ Backed(q, said, killed)
      BY <2>1, <2>2, <3>1, RestKept
    <3> QED
      BY <2>1, <3>1, <3>2 DEF h, q, said
  <2> QED
    BY <2>3, <2>4
<1> QED
  BY <1>1, <1>2, <1>3, <1>5, <1>6, <1>7, <1>8 DEF InfoInvariant

LEMMA RestRead == InfoInvariant /\ ReadRest => InfoInvariant'
<1> SUFFICES ASSUME InfoInvariant, ReadRest PROVE InfoInvariant'
  OBVIOUS
<1>1. /\ library \in Libraries /\ g_plugin = [f \in Fields |-> g_plugin[f]]
      /\ viewer_exit \in {Status, "killed"}
  BY DEF InfoInvariant, ReadRest
<1> DEFINE line == fgets(pipe, LineSize)
           killed == viewer_exit = "killed"
<1>2. /\ library' = library /\ viewer_exit' = viewer_exit /\ g_plugin' = g_plugin
      /\ reading = "rest" /\ pipe # <<>>
      /\ pipe' = After(pipe, line) /\ reading' = IF Whole(line) THEN "lines" ELSE "rest"
  BY DEF ReadRest
<1>3. Status' = Status /\ Output' = Output /\ Said' = Said /\ (Fit' <=> Fit) /\ (Quiet' <=> Quiet)
  BY <1>2, SameLibrary
<1> HIDE DEF line
<1>4. reading' \in {"lines", "rest"} /\ (reading' = "rest" => ~Whole(line))
  BY <1>2
<1>5. ASSUME Fit, Quiet
      PROVE  \E b : /\ Layout(Output, b, Said)
                    /\ Progress(Output, b, Said, killed, pipe', g_plugin, reading')
  <2> DEFINE O == Output
             said == Said
             g == g_plugin
             rd == reading'
  <2>1. PICK b : Layout(O, b, said) /\ Progress(O, b, said, killed, pipe, g, reading)
    BY <1>2, <1>5 DEF InfoInvariant
  <2> HIDE DEF O, said, killed
  <2>2. PICK n \in 0..Len(O), k \in 0..Len(O), j \in 1..4 :
           /\ At(O, b, n, k, j) /\ Has(g, said, killed, j)
           /\ pipe = SubSeq(O, k + 1, n) /\ (~killed => n = Len(O)) /\ k < b[j]
    BY <1>2, <2>1 DEF Progress
  <2>3. O \in Seq(Items) /\ k \in 0..n
    BY <2>1, <2>2, LayoutTypes DEF At
  <2>4. k < n
    BY <1>2, <2>2, <2>3, Left
  <2>5. line = fgets(pipe, LineSize) /\ (rd = "rest" => ~Whole(line))
    BY <1>4 DEF line
  <2> HIDE DEF rd
  <2>6. SkippedTo(O, b, said, killed, pipe, line, g, rd)
    BY <2>1, <2>2, <2>4, <2>5, Skipped
  <2> QED
    BY <1>2, <2>1, <2>6 DEF O, said, rd, SkippedTo
<1>6. reading' # "none" /\ reading' # "done"
  BY <1>4
<1>7. ASSUME Fit
      PROVE  pipe' \in Seq(Items) /\ Backed(pipe', Said, killed) /\ Right(g_plugin, Said, killed)
  <2> DEFINE said == Said
  <2>1. pipe \in Seq(Items) /\ Backed(pipe, said, killed) /\ Right(g_plugin, said, killed)
    BY <1>2, <1>7 DEF InfoInvariant
  <2>2. line = fgets(pipe, LineSize)
    BY DEF line
  <2> HIDE DEF said, killed
  <2>3. After(pipe, line) \in Seq(Items) /\ Backed(After(pipe, line), said, killed)
    BY <2>1, <2>2, RestKept
  <2> QED
    BY <1>2, <2>1, <2>3 DEF said
<1> QED
  BY <1>1, <1>2, <1>3, <1>4, <1>5, <1>6, <1>7 DEF InfoInvariant

LEMMA InfoEnds == InfoInvariant /\ EndOfInfo => InfoInvariant'
<1> SUFFICES ASSUME InfoInvariant, EndOfInfo PROVE InfoInvariant'
  OBVIOUS
<1> DEFINE killed == viewer_exit = "killed"
<1>1. /\ library' = library /\ viewer_exit' = viewer_exit /\ g_plugin' = g_plugin /\ pipe' = pipe
      /\ reading \in {"lines", "rest"} /\ pipe = <<>> /\ reading' = "done"
  BY DEF EndOfInfo
<1>2. /\ library \in Libraries /\ g_plugin = [f \in Fields |-> g_plugin[f]]
      /\ viewer_exit \in {Status, "killed"}
  BY <1>1 DEF InfoInvariant
<1>3. Status' = Status /\ Output' = Output /\ Said' = Said /\ (Fit' <=> Fit) /\ (Quiet' <=> Quiet)
  BY <1>1, SameLibrary
<1>4. ASSUME Fit, Quiet PROVE Has(g_plugin, Said, killed, 4)
  <2> DEFINE O == Output
             said == Said
             g == g_plugin
  <2>1. PICK b : Layout(O, b, said) /\ Progress(O, b, said, killed, pipe, g, reading)
    BY <1>1, <1>4 DEF InfoInvariant
  <2> HIDE DEF O, said, killed
  <2>2. PICK n \in 0..Len(O), k \in 0..Len(O), j \in 1..4 :
           /\ At(O, b, n, k, j) /\ Has(g, said, killed, j)
           /\ pipe = SubSeq(O, k + 1, n) /\ (~killed => n = Len(O))
    BY <2>1 DEF Progress
  <2>3. O \in Seq(Items) /\ k \in 0..n
    BY <2>1, <2>2, LayoutTypes DEF At
  <2>4. k = n
    <3>1. ~(k < n)
      BY <1>1, <2>2, <2>3, Left
    <3> QED
      BY <2>2, <2>3, <3>1
  <2>5. Has(g, said, killed, 4)
    BY <2>1, <2>2, <2>4, Ended
  <2> QED
    BY <2>5 DEF said
<1>5. reading' # "none" /\ reading' \notin {"lines", "rest"}
  BY <1>1
<1>6. ASSUME Fit
      PROVE  pipe \in Seq(Items) /\ Backed(pipe, Said, killed) /\ Right(g_plugin, Said, killed)
  BY <1>1, <1>6 DEF InfoInvariant
<1> QED
  BY <1>1, <1>2, <1>3, <1>4, <1>5, <1>6 DEF InfoInvariant

LEMMA InfoStutters == InfoInvariant /\ UNCHANGED infoVars => InfoInvariant'
<1> SUFFICES ASSUME InfoInvariant, UNCHANGED infoVars PROVE InfoInvariant'
  OBVIOUS
<1>1. /\ library' = library /\ viewer_exit' = viewer_exit /\ g_plugin' = g_plugin
      /\ pipe' = pipe /\ reading' = reading
  BY DEF infoVars
<1>2. Status' = Status /\ Output' = Output /\ Said' = Said /\ (Fit' <=> Fit) /\ (Quiet' <=> Quiet)
  BY <1>1, SameLibrary
<1> QED
  BY <1>1, <1>2 DEF InfoInvariant

LEMMA InfoInvariantSuffices == InfoInvariant => InfoIsThePlugins
<1> SUFFICES ASSUME InfoInvariant, reading = "done", Fit, NEW f \in Fields
             PROVE  IsRead(f) \/ (~Quiet /\ g_plugin[f] = NoText)
  BY DEF InfoIsThePlugins, Fit, Quiet
<1> DEFINE killed == viewer_exit = "killed"
           g == g_plugin[f]
           t == library.answers[f]
<1>1. /\ library \in Libraries /\ viewer_exit \in {Status, "killed"}
      /\ Quiet => Has(g_plugin, Said, killed, 4)
      /\ Right(g_plugin, Said, killed)
  BY DEF InfoInvariant
<1>2. PICK i \in 1..3 : Field[i] = f
  <2>1. Field[1] = "PLUGIN_NAME" /\ Field[2] = "PLUGIN_DESC" /\ Field[3] = "PLUGIN_MIME"
    BY DEF Field
  <2>2. 1 \in 1..3 /\ 2 \in 1..3 /\ 3 \in 1..3
    OBVIOUS
  <2> QED
    BY <2>1, <2>2 DEF Fields
<1> SUFFICES ASSUME Quiet \/ g # NoText PROVE IsRead(f)
  OBVIOUS
<1>3. \/ g = Said[f]
      \/ killed /\ Said[f] # NoText /\ (g # NoText => IsPrefix(g, Said[f]))
  <2>1. ~(i >= 4)
    BY <1>2
  <2>2. CASE Quiet
    BY <1>1, <1>2, <2>1, <2>2 DEF Has
  <2>3. CASE g # NoText
    BY <1>1, <2>3 DEF Right
  <2> QED
    BY <2>2, <2>3
<1>4. Said[f] = IF Status = "0" THEN t ELSE NoText
  BY DEF Said
<1>5. Status \in {"0", "1"}
  BY <1>1, StatusIs
<1>6. t \in Texts => IsPrefix(t, t)
  <2> SUFFICES ASSUME t \in Texts PROVE IsPrefix(t, t)
    OBVIOUS
  <2> HIDE DEF t
  <2>1. Len(t) \in Nat
    BY InfoAssumption
  <2>2. Len(t) <= Len(t)
    BY <2>1
  <2> QED
    BY <2>2 DEF IsPrefix
<1>7. t \in Texts \cup {NoText}
  BY <1>1 DEF Libraries
<1>8. CASE killed
  <2>1. ASSUME g # NoText PROVE IsPrefix(g, t)
    BY <1>3, <1>4, <1>6, <1>7, <2>1
  <2> QED
    BY <1>8, <2>1 DEF IsRead
<1>9. CASE ~killed
  BY <1>1, <1>3, <1>4, <1>5, <1>9 DEF IsRead
<1> QED
  BY <1>8, <1>9

\* The wrapper always tells the browser what the plugin says of itself, for
\* strings and noise of any length and any size of fgets's buffer, and of a
\* viewer that is killed the beginnings of it; and whatever the noise takes
\* for itself, it tells nothing else (do_info, plugin_init).
THEOREM InfoAlwaysThePlugins == InfoInit /\ [][InfoNext]_infoVars => []InfoIsThePlugins
<1>1. InfoInvariant /\ [InfoNext]_infoVars => InfoInvariant'
  BY ViewerRuns, LineRead, RestRead, InfoEnds, InfoStutters DEF InfoNext
<1> QED
  BY <1>1, InfoInvariantInit, InfoInvariantSuffices, PTL

-----------------------------------------------------------------------------
(***************************************************************************)
(* The choice of a viewer.                                                 *)
(***************************************************************************)
\* Of a set of places, one comes first.
LEMMA FirstPlace ==
    ASSUME NEW S, S \subseteq Nat \X Nat \X Nat, S # {}
    PROVE  First(S) \in S
<1> DEFINE A == {a[1] : a \in S}
<1>1. A \subseteq Nat /\ A # {}
  OBVIOUS
<1>2. PICK i \in A : \A j \in A : i <= j
  BY <1>1, LeastNumber
<1> DEFINE SA == {a \in S : a[1] = i}
           B == {a[2] : a \in SA}
<1>3. B \subseteq Nat /\ B # {}
  BY <1>2
<1>4. PICK k \in B : \A j \in B : k <= j
  BY <1>3, LeastNumber
<1> DEFINE SB == {a \in SA : a[2] = k}
           C == {a[3] : a \in SB}
<1>5. C \subseteq Nat /\ C # {}
  BY <1>4
<1>6. PICK l \in C : \A j \in C : l <= j
  BY <1>5, LeastNumber
<1>7. PICK c \in SB : c[3] = l
  BY <1>6
<1>8. ASSUME NEW b \in S \ {c} PROVE Before(c, b)
  <2>1. /\ c \in S /\ b \in S /\ b # c
        /\ c[1] = i /\ c[2] = k /\ c[3] = l
    BY <1>7, <1>8
  <2>2. /\ b = <<b[1], b[2], b[3]>> /\ c = <<c[1], c[2], c[3]>>
        /\ {b[1], b[2], b[3], c[1], c[2], c[3]} \subseteq Nat
    BY <2>1
  <2>3. c[1] <= b[1]
    BY <1>2, <2>1
  <2>4. b[1] = c[1] => c[2] <= b[2]
    BY <1>4, <2>1
  <2>5. b[1] = c[1] /\ b[2] = c[2] => c[3] <= b[3]
    BY <1>6, <2>1
  <2>6. b[1] # c[1] \/ b[2] # c[2] \/ b[3] # c[3]
    BY <2>1, <2>2
  <2> QED
    BY <2>2, <2>3, <2>4, <2>5, <2>6 DEF Before
<1> QED
  BY <1>7, <1>8 DEF First

LEMMA TargetNames ==
    ASSUME NEW S, NEW known \in S, NEW default \in S
    PROVE  TargetTable(known, default) \in Seq(S)
<1>1. <<default>> \in Seq(S) /\ <<known, default>> \in Seq(S)
  OBVIOUS
<1> QED
  BY <1>1, Zenon DEF TargetTable

LEMMA CandidateNames ==
    ASSUME NEW info \in NPW_PluginInfo, NEW a \in DOMAIN Candidates(info)
    PROVE  /\ a \in Nat \X Nat \X Nat
           /\ Candidates(info)[a].arch \in {""} \cup Arches /\ Candidates(info)[a].os \in {""} \cup Systems
<1> DEFINE archs == TargetTable(info.target_arch, "i386")
           oses == TargetTable(info.target_os, "linux")
<1>1. info.target_arch \in {""} \cup Arches /\ info.target_os \in {""} \cup Systems
  BY DEF NPW_PluginInfo
<1>2. archs \in Seq({""} \cup Arches) /\ oses \in Seq({""} \cup Systems)
  <2>1. "i386" \in Arches /\ "linux" \in Systems
    BY DEF Arches, Systems
  <2> QED
    BY <1>1, <2>1, TargetNames
<1>3. Len(ViewerSpecs) \in Nat
  BY PluginFilesAssumption
<1> HIDE DEF archs, oses
<1>4. /\ a \in (1..Len(ViewerSpecs)) \X (1..Len(archs)) \X (1..Len(oses))
      /\ Candidates(info)[a].arch = archs[a[2]] /\ Candidates(info)[a].os = oses[a[3]]
  BY DEF Candidates, archs, oses
<1>5. a[1] \in 1..Len(ViewerSpecs) /\ a[2] \in 1..Len(archs) /\ a[3] \in 1..Len(oses)
  BY <1>4
<1>6. ASSUME NEW S, NEW s \in Seq(S), NEW i \in 1..Len(s) PROVE s[i] \in S /\ i \in Nat
  OBVIOUS
<1>7. /\ archs[a[2]] \in {""} \cup Arches /\ oses[a[3]] \in {""} \cup Systems
      /\ a[2] \in Nat /\ a[3] \in Nat
  BY <1>2, <1>5, <1>6
<1>8. a = <<a[1], a[2], a[3]>>
  BY <1>4
<1>9. a[1] \in Nat
  BY <1>3, <1>5
<1>10. a \in Nat \X Nat \X Nat
  BY <1>7, <1>8, <1>9
<1> QED
  BY <1>4, <1>7, <1>10, Zenon

FoundSound(found, f, vs) ==
    /\ found.info \in NPW_PluginInfo
    /\ found.ret = "ok" => /\ found.info.viewer \in Directory /\ found.info.viewer \in DOMAIN vs
                           /\ is_plugin_viewer_ok(found.info.viewer, f, vs)

\* detect_plugin_viewer() finds a viewer that can run the file.
LEMMA Detected ==
    ASSUME NEW f, NEW info \in NPW_PluginInfo, NEW vs, DOMAIN vs \subseteq Directory, NEW native
    PROVE  FoundSound(detect_plugin_viewer(f, info, vs, native), f, vs)
<1> DEFINE all == Candidates(info)
           works == {a \in DOMAIN all : all[a].viewer \in DOMAIN vs
                                          /\ is_plugin_viewer_ok(all[a].viewer, f, vs)}
           found == detect_plugin_viewer(f, info, vs, native)
           c == all[First(works)]
<1>1. CASE found = [ret |-> "ok", info |-> Recorded(info, c)] /\ works # {}
  <2>1. works \subseteq Nat \X Nat \X Nat
    BY CandidateNames
  <2>2. First(works) \in works
    BY <1>1, <2>1, FirstPlace
  <2>3. /\ c.arch \in {""} \cup Arches /\ c.os \in {""} \cup Systems
        /\ c.viewer \in Directory /\ c.viewer \in DOMAIN vs /\ is_plugin_viewer_ok(c.viewer, f, vs)
    BY <2>2, CandidateNames
  <2> HIDE DEF c
  <2>4. /\ Recorded(info, c) \in NPW_PluginInfo /\ Recorded(info, c).viewer = c.viewer
    BY <2>3 DEF Recorded, NPW_PluginInfo
  <2> HIDE DEF found
  <2>5. found.ret = "ok" /\ found.info = Recorded(info, c)
    BY <1>1
  <2> QED
    <3>1. FoundSound(found, f, vs)
      BY <2>3, <2>4, <2>5 DEF FoundSound
    <3> QED
      BY <3>1 DEF found
<1>2. CASE found = [ret |-> "native", info |-> info] \/ found = [ret |-> "not_found", info |-> info]
  <2> HIDE DEF found
  <2>1. found.ret # "ok" /\ found.info = info
    BY <1>2
  <2> QED
    <3>1. FoundSound(found, f, vs)
      BY <2>1 DEF FoundSound
    <3> QED
      BY <3>1 DEF found
<1>3. found \in {[ret |-> "native", info |-> info], [ret |-> "not_found", info |-> info]}
      \/ (found = [ret |-> "ok", info |-> Recorded(info, c)] /\ works # {})
  BY DEF detect_plugin_viewer
<1> QED
  BY <1>1, <1>2, <1>3


-----------------------------------------------------------------------------
(***************************************************************************)
(* The inductive invariants, on the wrapper files w, the run t and the     *)
(* number n of complete updates.                                           *)
(***************************************************************************)
\* The system's wrappers of plugins that only root can read are old ones.
OldSystem(w) == \A p \in RootOnly : w["system"][p] # NONE => w["system"][p].ident = 0

MovingIs(t, p) == t.moving # NONE /\ t.moving.p = p

\* The wrappers of an update: those that are to do are there, and the system's
\* that were opened are still there.
UpdateSound(t, w) ==
    /\ \A p \in t.todo : MovingIs(t, p) \/ w[t.dir][p] # NONE
    /\ \A p \in Paths \ RootOnly :
          Visible(t.who, p) /\ t.loaded["system"][p] # NONE => w["system"][p] # NONE

MoveSound(t) ==
    /\ t.cmd = "update"
    /\ t.moving.p \in t.todo \cap RootOnly /\ Visible(t.who, t.moving.p)
    /\ t.moving.info.viewer = OldViewer(t, t.moving.p)

RunSound(t, w) ==
    /\ t \in Commands
    /\ t.loaded \in WrapperFiles /\ OldSystem(t.loaded)
    /\ t.dir \in {"system", t.who}
    /\ t.over => t.todo = {}
    /\ t.cmd = "update" => UpdateSound(t, w)
    /\ t.moving # NONE => MoveSound(t)

\* An update without a failure keeps a wrapper for every plugin that had one.
Keeps(t, w, b) ==
    t.cmd = "update" /\ ~t.failed =>
        \A p \in b : /\ Visible(t.who, p)
                     /\ w["system"][p] # NONE \/ w[t.who][p] # NONE \/ MovingIs(t, p)

WorldSound ==
    /\ mtime \in [Paths -> Nat] /\ ident \in Nat \ {0}
    /\ DOMAIN viewers \subseteq Directory /\ before \subseteq Paths

InstallerInv ==
    /\ WorldSound
    /\ wrapper \in WrapperFiles /\ OldSystem(wrapper)
    /\ tool # NONE => RunSound(tool, wrapper) /\ Keeps(tool, wrapper, before)

\* What is left to do after one complete update by root, and after two.
CurrentIn(w, d, p) == mtime[p] # 0 /\ w[d][p].ident = ident /\ w[d][p].mtime >= mtime[p]
SystemIn(w, p) == p \in RootOnly \/ w["system"][p] = NONE \/ CurrentIn(w, "system", p)
Covered(w, p) == p \notin RootOnly /\ w["system"][p] # NONE /\ w["system"][p].mtime = mtime[p]
Once(w, p) == w["root"][p] = NONE \/ CurrentIn(w, "root", p) \/ Covered(w, p)
Twice(w, p) == w["root"][p] = NONE \/ (CurrentIn(w, "root", p) /\ ~Covered(w, p))

Settled(n, w) ==
    /\ n \in 0..2
    /\ n # 0 => \A p \in Paths : SystemIn(w, p) /\ Once(w, p)
    /\ n = 2 => \A p \in Paths : Twice(w, p)

\* What has been opened in a pass.
PassSound(t, n, w) ==
    /\ \A p \in t.todo : MovingIs(t, p) \/ t.loaded[t.dir][p] = NONE
    /\ t.dir = "system" => \A p \in Paths : t.loaded[t.who][p] = NONE
    /\ t.auto /\ t.over => t.dir = t.who
    /\ n # 0 /\ ~t.over => \A p \in Paths \ RootOnly : t.loaded["system"][p] \in {NONE, w["system"][p]}

\* What a complete update by root has settled so far.
PassSettles(t, n, w) ==
    t.who = "root" /\ t.auto /\ ~t.failed =>
        /\ \A p \in Paths : (t.dir = "system" /\ p \in t.todo) \/ SystemIn(w, p)
        /\ t.dir = "root" => \A p \in Paths \ t.todo : Once(w, p) /\ (n # 0 /\ ~t.over => Twice(w, p))

SettledInv ==
    /\ Settled(settled, wrapper)
    /\ tool # NONE => IF tool.cmd = "update"
                      THEN PassSound(tool, settled, wrapper) /\ PassSettles(tool, settled, wrapper)
                      ELSE settled = 0

-----------------------------------------------------------------------------
(***************************************************************************)
(* What the operations do with the wrapper files.                          *)
(***************************************************************************)
OnlyAt(v, w, d, p) == \A e \in Dirs, q \in Paths : e # d \/ q # p => v[e][q] = w[e][q]
Put(v, w, d, p, b) == v \in WrapperFiles /\ v[d][p] = b /\ OnlyAt(v, w, d, p)

LEMMA PutFile ==
    ASSUME NEW w \in WrapperFiles, NEW d \in Dirs, NEW p \in Paths, NEW b \in {NONE} \cup NPW_PluginInfo
    PROVE  Put([w EXCEPT ![d][p] = b], w, d, p, b)
  BY DEF WrapperFiles, Put, OnlyAt

LEMMA NoRecord ==
    /\ \A b \in NPW_PluginInfo : b # NONE
    /\ \A v \in Directory : v # NONE
    /\ \A m \in MovedWrapper : m # NONE
  BY NoneAssumption

\* The block of a wrapper, as is_wrapper_plugin_handle() reads it.
LEMMA ReadBlock ==
    ASSUME NEW b \in NPW_PluginInfo
    PROVE  LET info == is_wrapper_plugin_handle(b)
           IN  info \in NPW_PluginInfo /\ info.mtime = b.mtime /\ info.ident = b.ident
  BY DEF is_wrapper_plugin_handle, NPW_PluginInfo

\* A viewer that a run may write for p: one that can run it, or the old one.
Served(viewer, t, p) ==
    /\ viewer # NONE
    /\ \/ viewer \in DOMAIN viewers /\ is_plugin_viewer_ok(viewer, elf[p], viewers)
       \/ t.cmd = "update" /\ viewer = OldViewer(t, p)

\* What an installation writes.
FreshBlock(b, t, p) == Served(b.viewer, t, p) /\ b.mtime = mtime[p] /\ b.ident = ident

InstalledIn(files, t, w, p, dir) ==
    /\ Visible(t.who, p) /\ Writable(t.who, dir)
    /\ \E b \in NPW_PluginInfo : FreshBlock(b, t, p) /\ files = [w EXCEPT ![dir][p] = b]

DoneIn(r, t, w, p, dir) ==
    /\ r.ok \in BOOLEAN
    /\ \/ ~r.ok /\ r.files = w
       \/ r.ok /\ InstalledIn(r.files, t, w, p, dir)

LEMMA DoInstalls ==
    ASSUME WorldSound, NEW t \in Commands, NEW w, NEW p \in Paths, NEW dir,
           NEW info \in NPW_PluginInfo, info.viewer # NONE => Served(info.viewer, t, p)
    PROVE  DoneIn(do_install_plugin(t, w, p, dir, info), t, w, p, dir)
<1> DEFINE complete == info.target_arch # "" /\ info.target_os # "" /\ info.viewer # NONE
           found == detect_plugin_viewer(elf[p], info, viewers, t.native)
           i == IF complete THEN info ELSE found.info
           b == [i EXCEPT !.path = p, !.mtime = mtime[p], !.ident = ident, !.version = InfoVersion]
           can == Visible(t.who, p) /\ (complete \/ found.ret = "ok") /\ Writable(t.who, dir)
           r == do_install_plugin(t, w, p, dir, info)
<1>1. CASE ~can
  <2>1. r = Done(FALSE, w)
    BY <1>1, Zenon DEF do_install_plugin
  <2> QED
    BY <2>1 DEF Done, DoneIn
<1>2. CASE can
  <2>1. r = Done(TRUE, [w EXCEPT ![dir][p] = b])
    BY <1>2, Zenon DEF do_install_plugin
  <2>2. FoundSound(found, elf[p], viewers)
    BY Detected DEF WorldSound
  <2>3. i \in NPW_PluginInfo /\ Served(i.viewer, t, p)
    <3>1. CASE complete
      BY <3>1
    <3>2. CASE ~complete
      <4>1. found.ret = "ok" /\ i = found.info
        BY <1>2, <3>2
      <4> QED
        BY <2>2, <4>1, NoRecord DEF FoundSound, Served
    <3> QED
      BY <3>1, <3>2
  <2>4. mtime[p] \in Nat /\ ident \in Nat /\ InfoVersion \in 0..InfoVersion
    BY PluginFilesAssumption DEF WorldSound
  <2> HIDE DEF i
  <2>5. /\ b \in NPW_PluginInfo /\ b.viewer = i.viewer /\ b.version = InfoVersion
        /\ b.mtime = mtime[p] /\ b.ident = ident
    BY <2>3, <2>4 DEF NPW_PluginInfo
  <2> HIDE DEF b
  <2>6. FreshBlock(b, t, p)
    BY <2>3, <2>5 DEF FreshBlock
  <2>7. InstalledIn([w EXCEPT ![dir][p] = b], t, w, p, dir)
    BY <1>2, <2>5, <2>6 DEF InstalledIn
  <2> QED
    BY <2>1, <2>7 DEF Done, DoneIn
<1> QED
  BY <1>1, <1>2

\* Where root installs a wrapper does not matter.
LEMMA InstallsAlike ==
    ASSUME NEW t \in Commands, NEW w, NEW p, NEW d, NEW e, NEW info, Writable(t.who, d)
    PROVE  do_install_plugin(t, w, p, e, info).ok => do_install_plugin(t, w, p, d, info).ok
  BY DEF do_install_plugin, Done

Outcome(r, t, w, p) ==
    \/ ~r.ok /\ r.files = w
    \/ r.ok /\ p \notin RootOnly /\ InstalledIn(r.files, t, w, p, "system")
    \/ /\ r.ok /\ r.files = w
       /\ Visible(t.who, p) /\ has_system_wide_wrapper_plugin(t.loaded, w, p, TRUE)
    \/ /\ r.ok /\ (p \in RootOnly \/ t.who # "root")
       /\ InstalledIn(r.files, t, w, p, t.who)

InstallOutcome(r, t, w, p) == r.ok \in BOOLEAN /\ Outcome(r, t, w, p)

LEMMA Installs ==
    ASSUME WorldSound, NEW t \in Commands, NEW w, NEW p \in Paths,
           NEW info \in NPW_PluginInfo, info.viewer # NONE => Served(info.viewer, t, p)
    PROVE  InstallOutcome(install_plugin(t, w, p, info), t, w, p)
<1> DEFINE there == do_install_plugin(t, w, p, "system", info)
           sys == IF p \in RootOnly THEN Done(FALSE, w) ELSE there
           own == do_install_plugin(t, w, p, t.who, info)
           has == Visible(t.who, p) /\ has_system_wide_wrapper_plugin(t.loaded, w, p, TRUE)
           r == install_plugin(t, w, p, info)
<1> HIDE DEF there, own
<1>1. /\ there.ok \in BOOLEAN
      /\ \/ ~there.ok /\ there.files = w
         \/ there.ok /\ InstalledIn(there.files, t, w, p, "system")
  <2>1. DoneIn(there, t, w, p, "system")
    BY DoInstalls DEF there
  <2> QED
    BY <2>1 DEF DoneIn
<1>2. /\ own.ok \in BOOLEAN
      /\ \/ ~own.ok /\ own.files = w
         \/ own.ok /\ InstalledIn(own.files, t, w, p, t.who)
  <2>1. DoneIn(own, t, w, p, t.who)
    BY DoInstalls DEF own
  <2> QED
    BY <2>1 DEF DoneIn
<1>3. t.who = "root" /\ own.ok => there.ok
  BY InstallsAlike DEF there, own, Writable
<1>4. /\ sys.ok => r = sys
      /\ ~sys.ok /\ has => r = Done(TRUE, w)
      /\ ~sys.ok /\ ~has => r = own
  BY DEF install_plugin, is_root_only_accessible_plugin, get_user_mozilla_plugin_dir, there, own
<1>5. ASSUME sys.ok PROVE Outcome(r, t, w, p)
  BY <1>1, <1>4, <1>5 DEF Outcome, Done
<1>6. ASSUME ~sys.ok, has PROVE Outcome(r, t, w, p)
  <2>0. r = Done(TRUE, w)
    BY <1>4, <1>6, Zenon
  <2> HIDE DEF r
  <2>1. r.ok /\ r.files = w
    BY <2>0 DEF Done
  <2> QED
    BY <1>6, <2>1, Zenon DEF Outcome
<1>7. ASSUME ~sys.ok, ~has PROVE Outcome(r, t, w, p)
  <2>1. r = own
    BY <1>4, <1>7
  <2>2. own.ok => p \in RootOnly \/ t.who # "root"
    BY <1>3, <1>7
  <2> QED
    BY <1>2, <2>1, <2>2, Zenon DEF Outcome
<1>8. Outcome(r, t, w, p)
  BY <1>5, <1>6, <1>7, Zenon
<1>9. r.ok \in BOOLEAN
  <2>1. r \in {there, own, Done(TRUE, w)}
    BY <1>4, Zenon DEF Done
  <2>2. there.ok \in BOOLEAN /\ own.ok \in BOOLEAN /\ Done(TRUE, w).ok \in BOOLEAN
    BY <1>1, <1>2 DEF Done
  <2> QED
    BY <2>1, <2>2, Zenon
<1> QED
  BY <1>8, <1>9, Zenon DEF InstallOutcome

-----------------------------------------------------------------------------
(***************************************************************************)
(* The run of the tool.                                                    *)
(***************************************************************************)
SameRun(u, t) == u.cmd = t.cmd /\ u.who = t.who /\ u.auto = t.auto

Proceeded(u, t, p, ok) ==
    /\ u \in Commands /\ SameRun(u, t)
    /\ u.over = t.over /\ u.dir = t.dir /\ u.loaded = t.loaded /\ u.moving = NONE
    /\ u.todo = IF ok \/ t.auto THEN t.todo \ {p} ELSE {}
    /\ u.failed = (t.failed \/ ~ok)

LEMMA Proceeds ==
    ASSUME NEW t \in Commands, NEW p \in Paths, NEW ok \in BOOLEAN, Proceed(t, p, ok)
    PROVE  Proceeded(tool', t, p, ok)
<1> DEFINE todo == IF ok \/ t.auto THEN t.todo \ {p} ELSE {}
           failed == t.failed \/ ~ok
<1>1. todo \in SUBSET Paths /\ failed \in BOOLEAN
  BY DEF Commands
<1>2. tool' = [t EXCEPT !.todo = todo, !.failed = failed, !.moving = NONE]
  BY DEF Proceed
<1> HIDE DEF todo, failed
<1>3. /\ tool' \in Commands /\ SameRun(tool', t)
      /\ tool'.over = t.over /\ tool'.dir = t.dir /\ tool'.loaded = t.loaded
      /\ tool'.moving = NONE /\ tool'.todo = todo /\ tool'.failed = failed
  BY <1>1, <1>2 DEF Commands, SameRun
<1> QED
  BY <1>3, Zenon DEF Proceeded, todo, failed

LEMMA Dlopen ==
    ASSUME NEW k \in WrapperFiles, NEW w \in WrapperFiles, NEW d \in Dirs, NEW p \in Paths
    PROVE  LET l == dlopen(k, w, d, p)
           IN  /\ l \in WrapperFiles
               /\ l[d][p] = IF k[d][p] # NONE THEN k[d][p] ELSE w[d][p]
               /\ \A e \in Dirs, q \in Paths : e # d \/ q # p => l[e][q] = k[e][q]
<1>1. w[d][p] \in {NONE} \cup NPW_PluginInfo
  BY DEF WrapperFiles
<1> QED
  BY <1>1, PutFile DEF dlopen, Put, OnlyAt

\* What update_plugin() has opened, and which wrapper of the system's it finds.
Opened(l, k, w, dir, p, both) ==
    /\ l \in WrapperFiles
    /\ \A d \in Dirs, q \in Paths :
          l[d][q] = k[d][q] \/ (q = p /\ d \in {dir, "system"} /\ k[d][q] = NONE /\ l[d][q] = w[d][q])
    /\ l[dir][p] = IF k[dir][p] # NONE THEN k[dir][p] ELSE w[dir][p]
    /\ both => l["system"][p] # NONE \/ w["system"][p] = NONE

LEMMA Opens ==
    ASSUME NEW k \in WrapperFiles, NEW w \in WrapperFiles, NEW dir \in Dirs, NEW p \in Paths, NEW both \in BOOLEAN
    PROVE  Opened(IF both THEN dlopen(dlopen(k, w, dir, p), w, "system", p) ELSE dlopen(k, w, dir, p),
                  k, w, dir, p, both)
<1> DEFINE own == dlopen(k, w, dir, p)
           two == dlopen(own, w, "system", p)
<1> HIDE DEF own, two
<1>0. "system" \in Dirs
  BY DEF Dirs
<1>1. /\ own \in WrapperFiles
      /\ own[dir][p] = IF k[dir][p] # NONE THEN k[dir][p] ELSE w[dir][p]
      /\ \A e \in Dirs, q \in Paths : e # dir \/ q # p => own[e][q] = k[e][q]
  BY Dlopen DEF own
<1>2. /\ two \in WrapperFiles
      /\ two["system"][p] = IF own["system"][p] # NONE THEN own["system"][p] ELSE w["system"][p]
      /\ \A e \in Dirs, q \in Paths : e # "system" \/ q # p => two[e][q] = own[e][q]
  BY <1>0, <1>1, Dlopen DEF two
<1>3. CASE ~both
  <2>1. Opened(own, k, w, dir, p, both)
    BY <1>1, <1>3 DEF Opened
  <2> QED
    BY <2>1, <1>3 DEF own
<1>4. CASE both
  <2>1. \A d \in Dirs, q \in Paths :
          two[d][q] = k[d][q] \/ (q = p /\ d \in {dir, "system"} /\ k[d][q] = NONE /\ two[d][q] = w[d][q])
    BY <1>1, <1>2
  <2>2. two[dir][p] = IF k[dir][p] # NONE THEN k[dir][p] ELSE w[dir][p]
    BY <1>0, <1>1, <1>2
  <2>3. two["system"][p] # NONE \/ w["system"][p] = NONE
    BY <1>2
  <2>4. Opened(two, k, w, dir, p, both)
    BY <1>2, <2>1, <2>2, <2>3 DEF Opened
  <2> QED
    BY <2>4, <1>4 DEF own, two
<1> QED
  BY <1>3, <1>4

HasBlock(l, p, check) ==
    /\ l["system"][p] # NONE
    /\ check => l["system"][p].ident = ident
    /\ l["system"][p].mtime = mtime[p]

LEMMA HasSystemWide ==
    ASSUME NEW l \in WrapperFiles, NEW w \in WrapperFiles, NEW p \in Paths, NEW check \in BOOLEAN,
           l["system"][p] # NONE \/ w["system"][p] = NONE
    PROVE  has_system_wide_wrapper_plugin(l, w, p, check) <=> HasBlock(l, p, check)
<1>1. "system" \in Dirs
  BY DEF Dirs
<1>2. dlopen(l, w, "system", p)["system"][p] = l["system"][p]
  <2>1. dlopen(l, w, "system", p)["system"][p] = IF l["system"][p] # NONE THEN l["system"][p] ELSE w["system"][p]
    BY <1>1, Dlopen, Zenon
  <2> QED
    BY <2>1, Zenon
<1> QED
  BY <1>2 DEF has_system_wide_wrapper_plugin, HasBlock

\* What update_plugin() decides, and when.
Decided(what, t, p) ==
    LET covered == HasBlock(t.loaded, p, TRUE) /\ t.dir # "system"
        misplaced == HasBlock(t.loaded, p, FALSE) /\ p \in RootOnly
        block == t.loaded[t.dir][p]
        old == mtime[p] > block.mtime \/ block.ident # ident
    IN  \/ what = "remove" /\ (~Visible(t.who, p) \/ covered)
        \/ what = "move" /\ Visible(t.who, p) /\ ~covered /\ misplaced
        \/ what = "install" /\ Visible(t.who, p) /\ ~covered /\ ~misplaced /\ old
        \/ what = "skip" /\ Visible(t.who, p) /\ ~covered /\ ~misplaced /\ ~old

LEMMA Decides ==
    ASSUME NEW t \in Commands, NEW w \in WrapperFiles, NEW p \in Paths,
           t.loaded[t.dir][p] \in NPW_PluginInfo,
           Visible(t.who, p) => t.loaded["system"][p] # NONE \/ w["system"][p] = NONE
    PROVE  Decided(update_plugin(t, w, p), t, p)
<1> DEFINE block == t.loaded[t.dir][p]
           info == is_wrapper_plugin_handle(block)
           covered == HasBlock(t.loaded, p, TRUE) /\ t.dir # "system"
           misplaced == HasBlock(t.loaded, p, FALSE) /\ p \in RootOnly
           hasT == has_system_wide_wrapper_plugin(t.loaded, w, p, TRUE)
           hasF == has_system_wide_wrapper_plugin(t.loaded, w, p, FALSE)
           old == mtime[p] > block.mtime \/ block.ident # ident
<1>1. info.mtime = block.mtime /\ info.ident = block.ident
  BY ReadBlock
<1>2. t.loaded \in WrapperFiles
  BY DEF Commands
<1>3. Visible(t.who, p) => (hasT <=> HasBlock(t.loaded, p, TRUE)) /\ (hasF <=> HasBlock(t.loaded, p, FALSE))
  BY <1>2, HasSystemWide
<1> DEFINE seen == Visible(t.who, p)
           cov == hasT /\ t.dir # "system"
           mis == hasF /\ p \in RootOnly
           need == mtime[p] > info.mtime \/ info.ident # ident
           what == update_plugin(t, w, p)
<1>4. what = CASE ~seen -> "remove"
               [] seen /\ cov -> "remove"
               [] seen /\ ~cov /\ mis -> "move"
               [] seen /\ ~cov /\ ~mis /\ need -> "install"
               [] OTHER -> "skip"
  BY Zenon DEF update_plugin, is_root_only_accessible_plugin
<1>5. /\ seen => (cov <=> covered) /\ (mis <=> misplaced)
      /\ need <=> old
  BY <1>1, <1>3
<1> HIDE DEF what, seen, cov, mis, need, covered, misplaced, old
<1>6. \/ what = "remove" /\ (~seen \/ covered)
      \/ what = "move" /\ seen /\ ~covered /\ misplaced
      \/ what = "install" /\ seen /\ ~covered /\ ~misplaced /\ old
      \/ what = "skip" /\ seen /\ ~covered /\ ~misplaced /\ ~old
  BY <1>4, <1>5
<1> QED
  BY <1>6, Zenon DEF Decided, what, seen, covered, misplaced, old

-----------------------------------------------------------------------------
(***************************************************************************)
(* A step of an update.                                                    *)
(***************************************************************************)
OpenedRun(t, k, w, p) ==
    /\ t \in Commands /\ SameRun(t, k)
    /\ t.over = FALSE /\ t.dir = k.dir /\ t.todo = k.todo /\ t.failed = k.failed /\ t.moving = NONE
    /\ t.cmd = "update" /\ p \in t.todo /\ k.over = FALSE /\ k.moving = NONE
    /\ Opened(t.loaded, k.loaded, w, t.dir, p, Visible(t.who, p))
    /\ t.loaded[t.dir][p] # NONE

Cleared(ok, v, t, w, p) ==
    /\ ok = Writable(t.who, t.dir)
    /\ v = IF ok THEN [w EXCEPT ![t.dir][p] = NONE] ELSE w

MovesOn(u, t, p) ==
    /\ u \in Commands /\ SameRun(u, t)
    /\ u.over = t.over /\ u.dir = t.dir /\ u.loaded = t.loaded /\ u.todo = t.todo /\ u.failed = t.failed
    /\ u.moving # NONE /\ u.moving.p = p
    /\ u.moving.info.viewer = OldViewer(u, p)

SkipDone(u, v, t, w, p) == Decided("skip", t, p) /\ v = w /\ Proceeded(u, t, p, TRUE)

RemoveDone(u, v, t, w, p) ==
    Decided("remove", t, p) /\ \E ok \in BOOLEAN : Cleared(ok, v, t, w, p) /\ Proceeded(u, t, p, ok)

MoveDone(u, v, t, w, p) ==
    /\ Decided("move", t, p)
    /\ \/ Cleared(TRUE, v, t, w, p) /\ MovesOn(u, t, p)
       \/ Cleared(FALSE, v, t, w, p) /\ Proceeded(u, t, p, FALSE)

InstallDone(u, v, t, w, p) ==
    /\ Decided("install", t, p)
    /\ \E r : InstallOutcome(r, t, w, p) /\ v = r.files /\ Proceeded(u, t, p, r.ok)

UpdateDone(u, v, t, w, p) ==
    \/ SkipDone(u, v, t, w, p)
    \/ RemoveDone(u, v, t, w, p)
    \/ MoveDone(u, v, t, w, p)
    \/ InstallDone(u, v, t, w, p)

\* The opened wrappers are as sound as the files.
LEMMA OpenedSound ==
    ASSUME NEW k, NEW w, NEW l, NEW dir, NEW p, NEW both, OldSystem(k), OldSystem(w), Opened(l, k, w, dir, p, both)
    PROVE  l \in WrapperFiles /\ OldSystem(l)
<1>0. "system" \in Dirs /\ RootOnly \subseteq Paths
  BY InstallerAssumption DEF Dirs
<1>1. \A d \in Dirs, q \in Paths : l[d][q] = k[d][q] \/ l[d][q] = w[d][q]
  BY DEF Opened
<1>2. \A q \in RootOnly : l["system"][q] # NONE => l["system"][q].ident = 0
  BY <1>0, <1>1, Zenon DEF OldSystem
<1> QED
  BY <1>2, Zenon DEF OldSystem, Opened

LEMMA ClearFile ==
    ASSUME NEW t, NEW w, NEW p
    PROVE  LET r == remove_plugin(t, w, t.dir, p)
           IN  r.ok \in BOOLEAN /\ Cleared(r.ok, r.files, t, w, p)
  BY DEF remove_plugin, Done, Cleared, Writable

LEMMA Updates ==
    ASSUME InstallerInv, NEW p \in Paths, UpdateOne(p)
    PROVE  \E t : OpenedRun(t, tool, wrapper, p) /\ UpdateDone(tool', wrapper', t, wrapper, p)
<1> DEFINE own == dlopen(tool.loaded, wrapper, tool.dir, p)
           both == Visible(tool.who, p)
           l == IF both THEN dlopen(own, wrapper, "system", p) ELSE own
           t == [tool EXCEPT !.loaded = l]
           what == update_plugin(t, wrapper, p)
           gone == remove_plugin(t, wrapper, t.dir, p)
           info == is_wrapper_plugin_handle(t.loaded[t.dir][p])
           again == install_plugin(t, wrapper, p, info)
<1>1. /\ tool # NONE /\ ~tool.over /\ tool.cmd = "update" /\ p \in tool.todo /\ tool.moving = NONE
      /\ \/ what = "skip" /\ wrapper' = wrapper /\ Proceed(t, p, TRUE)
         \/ what = "remove" /\ wrapper' = gone.files /\ Proceed(t, p, gone.ok)
         \/ /\ what = "move" /\ wrapper' = gone.files
            /\ IF gone.ok THEN tool' = [t EXCEPT !.moving = [p |-> p, info |-> info]]
               ELSE Proceed(t, p, FALSE)
         \/ what = "install" /\ wrapper' = again.files /\ Proceed(t, p, again.ok)
  BY DEF UpdateOne, InProgress
<1> HIDE DEF l, what, gone, info, again
<1>2. /\ WorldSound /\ wrapper \in WrapperFiles /\ OldSystem(wrapper)
      /\ tool \in Commands /\ tool.loaded \in WrapperFiles /\ OldSystem(tool.loaded)
      /\ wrapper \in WrapperFiles /\ tool.loaded \in WrapperFiles
      /\ UpdateSound(tool, wrapper)
  BY <1>1 DEF InstallerInv, RunSound
<1>3. tool.dir \in Dirs /\ tool.who \in Users /\ both \in BOOLEAN
  BY <1>2 DEF Commands, Visible
<1>4. Opened(l, tool.loaded, wrapper, tool.dir, p, both)
  BY <1>2, <1>3, Opens DEF l
<1> HIDE DEF both
<1>5. l \in WrapperFiles /\ OldSystem(l)
  BY <1>2, <1>4, OpenedSound
<1>6. /\ t \in Commands /\ SameRun(t, tool) /\ t.loaded = l
      /\ t.over = FALSE /\ t.dir = tool.dir /\ t.todo = tool.todo /\ t.failed = tool.failed /\ t.moving = NONE
  BY <1>1, <1>2, <1>5 DEF Commands, SameRun
<1> HIDE DEF t
<1>7. wrapper[tool.dir][p] # NONE
  BY <1>1, <1>2 DEF UpdateSound, MovingIs
<1>8. l[tool.dir][p] # NONE /\ l[tool.dir][p] \in NPW_PluginInfo
  <2>1. l[tool.dir][p] # NONE
    BY <1>4, <1>7 DEF Opened
  <2> QED
    BY <1>3, <1>5, <2>1 DEF WrapperFiles
<1>9. both <=> Visible(t.who, p)
  BY <1>6 DEF both, SameRun
<1>10. OpenedRun(t, tool, wrapper, p)
  <2>1. Opened(t.loaded, tool.loaded, wrapper, t.dir, p, Visible(t.who, p))
    <3>1. both = Visible(t.who, p)
      BY <1>3, <1>9, Zenon DEF Visible
    <3> QED
      BY <1>4, <1>6, <3>1, Zenon
  <2>2. /\ tool.over = FALSE /\ t.loaded[t.dir][p] # NONE
        /\ t.cmd = "update" /\ p \in t.todo
    BY <1>1, <1>2, <1>6, <1>8 DEF SameRun, Commands
  <2> QED
    BY <1>1, <1>6, <2>1, <2>2, Zenon DEF OpenedRun
<1>11. Decided(what, t, p)
  <2>1. Visible(t.who, p) => t.loaded["system"][p] # NONE \/ wrapper["system"][p] = NONE
    BY <1>4, <1>6, <1>9 DEF Opened
  <2> QED
    BY <1>2, <1>6, <1>8, <2>1, Decides DEF what
<1>12. /\ info \in NPW_PluginInfo /\ info.viewer = OldViewer(t, p)
       /\ info.viewer # NONE => Served(info.viewer, t, p)
  <2>1. info \in NPW_PluginInfo
    BY <1>6, <1>8, ReadBlock DEF info
  <2>2. info.viewer = OldViewer(t, p)
    BY Zenon DEF info, OldViewer
  <2>3. t.cmd = "update"
    BY <1>10 DEF OpenedRun
  <2> QED
    BY <2>1, <2>2, <2>3, Zenon DEF Served
<1>13. gone.ok \in BOOLEAN /\ Cleared(gone.ok, gone.files, t, wrapper, p)
  BY ClearFile DEF gone
<1>14. CASE what = "skip" /\ wrapper' = wrapper /\ Proceed(t, p, TRUE)
  BY <1>6, <1>10, <1>11, <1>14, Proceeds, Zenon DEF UpdateDone, SkipDone
<1>15. CASE what = "remove" /\ wrapper' = gone.files /\ Proceed(t, p, gone.ok)
  BY <1>6, <1>10, <1>11, <1>13, <1>15, Proceeds, Zenon DEF UpdateDone, RemoveDone
<1>16. CASE what = "move" /\ wrapper' = gone.files /\ gone.ok /\ tool' = [t EXCEPT !.moving = [p |-> p, info |-> info]]
  <2> DEFINE m == [p |-> p, info |-> info]
  <2>1. m \in MovedWrapper /\ m # NONE /\ m.p = p /\ m.info = info
    BY <1>12, NoRecord DEF MovedWrapper
  <2> HIDE DEF m
  <2>2. tool' = [t EXCEPT !.moving = m]
    BY <1>16 DEF m
  <2>3. /\ tool' \in Commands /\ SameRun(tool', t) /\ tool'.moving = m
        /\ tool'.over = t.over /\ tool'.dir = t.dir /\ tool'.loaded = t.loaded
        /\ tool'.todo = t.todo /\ tool'.failed = t.failed
    BY <1>6, <2>1, <2>2 DEF Commands, SameRun
  <2>4. MovesOn(tool', t, p)
    <3>1. OldViewer(tool', p) = OldViewer(t, p)
      BY <2>3 DEF OldViewer
    <3>2. tool'.moving # NONE /\ tool'.moving.p = p /\ tool'.moving.info.viewer = OldViewer(tool', p)
      BY <1>12, <2>1, <2>3, <3>1
    <3> QED
      BY <2>3, <3>2, Zenon DEF MovesOn
  <2>5. Cleared(TRUE, wrapper', t, wrapper, p)
    BY <1>13, <1>16
  <2> QED
    BY <1>10, <1>11, <1>16, <2>4, <2>5, Zenon DEF UpdateDone, MoveDone
<1>17. CASE what = "move" /\ wrapper' = gone.files /\ ~gone.ok /\ Proceed(t, p, FALSE)
  <2>1. Cleared(FALSE, wrapper', t, wrapper, p)
    BY <1>13, <1>17
  <2> QED
    BY <1>6, <1>10, <1>11, <1>17, <2>1, Proceeds, Zenon DEF UpdateDone, MoveDone
<1>18. CASE what = "install" /\ wrapper' = again.files /\ Proceed(t, p, again.ok)
  <2>1. InstallOutcome(again, t, wrapper, p)
    BY <1>2, <1>6, <1>12, Installs, Zenon DEF again
  <2>2. again.ok \in BOOLEAN
    BY <2>1, Zenon DEF InstallOutcome
  <2> QED
    BY <1>6, <1>10, <1>11, <1>18, <2>1, <2>2, Proceeds, Zenon DEF UpdateDone, InstallDone
<1> QED
  BY <1>1, <1>14, <1>15, <1>16, <1>17, <1>18, Zenon

-----------------------------------------------------------------------------
(***************************************************************************)
(* The wrapper files after an operation on the plugin p.                   *)
(***************************************************************************)
FilesSound(w) == w \in WrapperFiles /\ OldSystem(w)
OnlyFor(v, w, p) == \A e \in Dirs, q \in Paths : q # p => v[e][q] = w[e][q]

LEMMA PutSound ==
    ASSUME NEW w, FilesSound(w), NEW d \in Dirs, NEW p \in Paths,
           NEW b \in {NONE} \cup NPW_PluginInfo, b # NONE /\ d = "system" => p \notin RootOnly
    PROVE  FilesSound([w EXCEPT ![d][p] = b]) /\ Put([w EXCEPT ![d][p] = b], w, d, p, b)
<1> DEFINE v == [w EXCEPT ![d][p] = b]
<1>1. w \in WrapperFiles
  BY DEF FilesSound
<1>2. v \in WrapperFiles /\ v[d][p] = b /\ OnlyAt(v, w, d, p)
  BY <1>1, PutFile, Zenon DEF Put
<1>5. Put(v, w, d, p, b)
  BY <1>2, Zenon DEF Put
<1> HIDE DEF v
<1>4. ASSUME NEW q \in RootOnly, v["system"][q] # NONE PROVE v["system"][q].ident = 0
  <2>0. q \in Paths /\ "system" \in Dirs
    BY InstallerAssumption DEF Dirs
  <2>1. CASE d # "system" \/ q # p
    BY <1>2, <1>4, <2>0, <2>1, Zenon DEF OnlyAt, FilesSound, OldSystem
  <2>2. CASE d = "system" /\ q = p
    BY <1>2, <1>4, <2>2, Zenon
  <2> QED
    BY <2>1, <2>2, Zenon
<1> QED
  <2>1. FilesSound(v)
    BY <1>2, <1>4, Zenon DEF FilesSound, OldSystem
  <2> QED
    BY <1>5, <2>1 DEF v

LEMMA FilesInstalled ==
    ASSUME NEW t, NEW w, FilesSound(w), NEW p \in Paths, NEW dir \in Dirs,
           dir = "system" => p \notin RootOnly, NEW v, InstalledIn(v, t, w, p, dir)
    PROVE  /\ FilesSound(v) /\ OnlyAt(v, w, dir, p)
           /\ v[dir][p] # NONE /\ v[dir][p].mtime = mtime[p] /\ v[dir][p].ident = ident
<1>1. PICK b \in NPW_PluginInfo : FreshBlock(b, t, p) /\ v = [w EXCEPT ![dir][p] = b]
  BY Zenon DEF InstalledIn
<1>2. b \in {NONE} \cup NPW_PluginInfo /\ b # NONE
  BY <1>1, NoRecord
<1>3. FilesSound(v) /\ v[dir][p] = b /\ OnlyAt(v, w, dir, p)
  <2>1. FilesSound([w EXCEPT ![dir][p] = b]) /\ Put([w EXCEPT ![dir][p] = b], w, dir, p, b)
    BY <1>2, PutSound
  <2>2. FilesSound(v) /\ Put(v, w, dir, p, b)
    BY <1>1, <2>1, Zenon
  <2> QED
    BY <2>2, Zenon DEF Put
<1> QED
  BY <1>1, <1>2, <1>3, Zenon DEF FreshBlock

LEMMA FilesCleared ==
    ASSUME NEW t, NEW w, FilesSound(w), NEW p \in Paths, t.dir \in Dirs,
           NEW ok \in BOOLEAN, NEW v, Cleared(ok, v, t, w, p)
    PROVE  /\ FilesSound(v) /\ OnlyAt(v, w, t.dir, p)
           /\ IF ok THEN v[t.dir][p] = NONE ELSE v = w
<1>1. CASE ok
  <2>1. v = [w EXCEPT ![t.dir][p] = NONE]
    BY <1>1 DEF Cleared
  <2>2. NONE \in {NONE} \cup NPW_PluginInfo
    OBVIOUS
  <2>3. FilesSound(v) /\ v[t.dir][p] = NONE /\ OnlyAt(v, w, t.dir, p)
    <3> DEFINE x == [w EXCEPT ![t.dir][p] = NONE]
    <3>1. FilesSound(x) /\ Put(x, w, t.dir, p, NONE)
      BY <2>2, PutSound
    <3>2. FilesSound(v) /\ Put(v, w, t.dir, p, NONE)
      BY <2>1, <3>1, Zenon
    <3> QED
      BY <3>2, Zenon DEF Put
  <2> QED
    BY <1>1, <2>3
<1>2. CASE ~ok
  <2>1. v = w
    BY <1>2 DEF Cleared
  <2> QED
    BY <1>2, <2>1 DEF OnlyAt
<1> QED
  BY <1>1, <1>2, Zenon

\* No wrapper of the system's stands for a plugin that only root can read.
LEMMA OldIsNotHad ==
    ASSUME WorldSound, NEW l, NEW w, l \in WrapperFiles, w \in WrapperFiles,
           OldSystem(l), OldSystem(w), NEW p \in RootOnly
    PROVE  ~has_system_wide_wrapper_plugin(l, w, p, TRUE) /\ ~HasBlock(l, p, TRUE)
<1>0. p \in Paths /\ "system" \in Dirs /\ ident # 0
  BY InstallerAssumption DEF Dirs, WorldSound
<1>1. dlopen(l, w, "system", p)["system"][p] \in {l["system"][p], w["system"][p]}
  <2>1. dlopen(l, w, "system", p)["system"][p] =
           IF l["system"][p] # NONE THEN l["system"][p] ELSE w["system"][p]
    BY <1>0, Dlopen, Zenon
  <2> QED
    BY <2>1
<1>2. dlopen(l, w, "system", p)["system"][p] # NONE => dlopen(l, w, "system", p)["system"][p].ident = 0
  BY <1>1 DEF OldSystem
<1>3. ~has_system_wide_wrapper_plugin(l, w, p, TRUE)
  BY <1>0, <1>2 DEF has_system_wide_wrapper_plugin
<1>4. ~HasBlock(l, p, TRUE)
  BY <1>0 DEF HasBlock, OldSystem
<1> QED
  BY <1>3, <1>4

\* Installing leaves a wrapper where the user's browser looks for it.
InstallEffect(r, t, v, w, p) ==
    /\ FilesSound(v) /\ OnlyFor(v, w, p)
    /\ \A d \in Dirs : w[d][p] # NONE => v[d][p] # NONE
    /\ r.ok => /\ Visible(t.who, p)
               /\ \/ v["system"][p] # NONE \/ v[t.who][p] # NONE
                  \/ v = w /\ has_system_wide_wrapper_plugin(t.loaded, w, p, TRUE)

LEMMA InstallLeaves ==
    ASSUME NEW t, t.who \in Users, NEW w, FilesSound(w), NEW p \in Paths, NEW r, InstallOutcome(r, t, w, p)
    PROVE  InstallEffect(r, t, r.files, w, p)
<1>0. "system" \in Dirs /\ t.who \in Dirs /\ t.who # "system"
  BY DEF Dirs, Users
<1>1. ASSUME r.files = w,
             r.ok => Visible(t.who, p) /\ has_system_wide_wrapper_plugin(t.loaded, w, p, TRUE)
      PROVE  InstallEffect(r, t, r.files, w, p)
  BY <1>1 DEF InstallEffect, OnlyFor
<1>2. ASSUME NEW dir \in {"system", t.who}, dir = "system" => p \notin RootOnly, r.ok,
             InstalledIn(r.files, t, w, p, dir)
      PROVE  InstallEffect(r, t, r.files, w, p)
  <2>0. dir \in Dirs
    BY <1>0
  <2>1. FilesSound(r.files) /\ OnlyAt(r.files, w, dir, p) /\ r.files[dir][p] # NONE
    BY <1>2, <2>0, FilesInstalled
  <2>2. OnlyFor(r.files, w, p) /\ \A d \in Dirs : w[d][p] # NONE => r.files[d][p] # NONE
    BY <2>1, Zenon DEF OnlyAt, OnlyFor
  <2>3. Visible(t.who, p)
    BY <1>2, Zenon DEF InstalledIn
  <2>4. r.files["system"][p] # NONE \/ r.files[t.who][p] # NONE
    BY <2>1
  <2> QED
    BY <2>1, <2>2, <2>3, <2>4, Zenon DEF InstallEffect
<1>3. \/ r.files = w /\ (r.ok => Visible(t.who, p) /\ has_system_wide_wrapper_plugin(t.loaded, w, p, TRUE))
      \/ r.ok /\ p \notin RootOnly /\ InstalledIn(r.files, t, w, p, "system")
      \/ r.ok /\ InstalledIn(r.files, t, w, p, t.who)
  <2>1. Outcome(r, t, w, p)
    BY Zenon DEF InstallOutcome
  <2> QED
    BY <2>1, Zenon DEF Outcome
<1> QED
  BY <1>0, <1>1, <1>2, <1>3

-----------------------------------------------------------------------------
(***************************************************************************)
(* An update keeps the first invariant.                                    *)
(***************************************************************************)
RunInv(t, w, b) == RunSound(t, w) /\ Keeps(t, w, b)

LEMMA OpenedInv ==
    ASSUME NEW k, NEW t, NEW w, NEW b, NEW p \in Paths,
           FilesSound(w), RunInv(k, w, b), OpenedRun(t, k, w, p)
    PROVE  RunInv(t, w, b)
<1>0. "system" \in Dirs
  BY DEF Dirs
<1>1. /\ k \in Commands /\ k.loaded \in WrapperFiles /\ OldSystem(k.loaded)
      /\ k.dir \in {"system", k.who} /\ k.cmd = "update" /\ UpdateSound(k, w) /\ k.moving = NONE
  BY DEF RunInv, RunSound, OpenedRun, SameRun
<1>2. /\ t \in Commands /\ t.dir = k.dir /\ t.who = k.who /\ t.todo = k.todo /\ t.failed = k.failed
      /\ t.cmd = "update" /\ t.moving = NONE /\ t.over = FALSE /\ t.dir \in Dirs
  BY DEF OpenedRun, SameRun, Commands
<1>3. t.loaded \in WrapperFiles /\ OldSystem(t.loaded)
  <2>1. Opened(t.loaded, k.loaded, w, t.dir, p, Visible(t.who, p))
    BY DEF OpenedRun
  <2>2. w \in WrapperFiles /\ OldSystem(w)
    BY DEF FilesSound
  <2> QED
    BY <1>1, <1>2, <2>1, <2>2, OpenedSound
<1>4. UpdateSound(t, w)
  <2>1. \A q \in t.todo : w[t.dir][q] # NONE
    BY <1>1, <1>2 DEF UpdateSound, MovingIs
  <2>2. ASSUME NEW q \in Paths \ RootOnly, Visible(t.who, q), t.loaded["system"][q] # NONE
        PROVE  w["system"][q] # NONE
    <3>1. t.loaded["system"][q] = k.loaded["system"][q] \/ t.loaded["system"][q] = w["system"][q]
      BY <1>0 DEF OpenedRun, Opened
    <3>2. k.loaded["system"][q] # NONE => w["system"][q] # NONE
      BY <1>1, <1>2, <2>2 DEF UpdateSound
    <3> QED
      BY <2>2, <3>1, <3>2
  <2> QED
    BY <2>1, <2>2, Zenon DEF UpdateSound
<1>5. RunSound(t, w)
  BY <1>1, <1>2, <1>3, <1>4 DEF RunSound
<1>6. Keeps(t, w, b)
  BY <1>1, <1>2 DEF RunInv, Keeps, MovingIs
<1> QED
  BY <1>5, <1>6 DEF RunInv

\* A plugin that had a wrapper has one, is being moved, or the step failed.
StillKept(u, v, t, p) ==
    u.failed \/ v["system"][p] # NONE \/ v[t.who][p] # NONE \/ MovingIs(u, p)

SystemStays(v, t, p) ==
    p \notin RootOnly /\ Visible(t.who, p) /\ t.loaded["system"][p] # NONE => v["system"][p] # NONE

LEMMA StepInv ==
    ASSUME NEW t, NEW u, NEW w, NEW v, NEW b, b \subseteq Paths, NEW p \in Paths, NEW ok,
           RunInv(t, w, b), t.cmd = "update", t.moving = NONE, t.over = FALSE, OnlyFor(v, w, p),
           \/ Proceeded(u, t, p, ok)
           \/ p \in t.todo \cap RootOnly /\ Visible(t.who, p) /\ MovesOn(u, t, p),
           SystemStays(v, t, p), p \in b => StillKept(u, v, t, p)
    PROVE  RunInv(u, v, b)
<1>1. /\ t \in Commands /\ t.loaded \in WrapperFiles /\ OldSystem(t.loaded)
      /\ t.dir \in {"system", t.who} /\ UpdateSound(t, w)
  BY DEF RunInv, RunSound
<1>2. /\ u \in Commands /\ u.cmd = "update" /\ u.who = t.who /\ u.dir = t.dir /\ u.over = FALSE
      /\ u.loaded = t.loaded /\ u.todo \subseteq t.todo
      /\ p \in u.todo => MovingIs(u, p)
      /\ u.failed = FALSE => t.failed = FALSE
      /\ u.moving # NONE => p \in t.todo \cap RootOnly /\ Visible(t.who, p) /\ MovesOn(u, t, p)
  <2>1. CASE Proceeded(u, t, p, ok)
    BY <1>1, <2>1 DEF Proceeded, SameRun, Commands
  <2>2. CASE p \in t.todo \cap RootOnly /\ Visible(t.who, p) /\ MovesOn(u, t, p)
    BY <1>1, <2>2 DEF MovesOn, SameRun, Commands, MovingIs
  <2> QED
    BY <2>1, <2>2
<1>3. t.dir \in Dirs /\ "system" \in Dirs /\ t.who \in Dirs /\ t.todo \subseteq Paths
  BY <1>1 DEF Commands, Dirs, Users
<1>4. UpdateSound(u, v)
  <2>1. ASSUME NEW q \in u.todo, ~MovingIs(u, q) PROVE v[u.dir][q] # NONE
    <3>1. q # p /\ q \in t.todo
      BY <1>2, <2>1
    <3>2. w[t.dir][q] # NONE
      BY <1>1, <3>1 DEF UpdateSound, MovingIs
    <3> QED
      BY <1>2, <1>3, <3>1, <3>2 DEF OnlyFor
  <2>2. ASSUME NEW q \in Paths \ RootOnly, Visible(u.who, q), u.loaded["system"][q] # NONE
        PROVE  v["system"][q] # NONE
    <3>1. CASE q = p
      BY <1>2, <2>2, <3>1 DEF SystemStays
    <3>2. CASE q # p
      <4>1. w["system"][q] # NONE
        BY <1>1, <1>2, <2>2, Zenon DEF UpdateSound
      <4> QED
        BY <1>3, <2>2, <3>2, <4>1 DEF OnlyFor
    <3> QED
      BY <3>1, <3>2
  <2> QED
    BY <2>1, <2>2, Zenon DEF UpdateSound
<1>5. u.moving # NONE => MoveSound(u)
  BY <1>2 DEF MoveSound, MovesOn, SameRun
<1>6. RunSound(u, v)
  BY <1>1, <1>2, <1>4, <1>5 DEF RunSound
<1>7. ASSUME ~u.failed, NEW q \in b
      PROVE  Visible(u.who, q) /\ (v["system"][q] # NONE \/ v[u.who][q] # NONE \/ MovingIs(u, q))
  <2>0. u.failed = FALSE
    BY <1>2, <1>7 DEF Commands
  <2>1. Visible(t.who, q) /\ (w["system"][q] # NONE \/ w[t.who][q] # NONE)
    BY <1>2, <2>0 DEF RunInv, Keeps, MovingIs
  <2>2. CASE q = p
    BY <1>2, <1>7, <2>1, <2>2 DEF StillKept
  <2>3. CASE q # p
    BY <1>2, <1>3, <2>1, <2>3 DEF OnlyFor
  <2> QED
    BY <2>2, <2>3
<1>8. Keeps(u, v, b)
  BY <1>7, Zenon DEF Keeps
<1> QED
  BY <1>6, <1>8 DEF RunInv

\* update_plugin() removes only what is not needed.
LEMMA UpdateInv ==
    ASSUME NEW t, NEW u, NEW w, NEW v, NEW b, b \subseteq Paths, NEW p \in Paths, WorldSound,
           FilesSound(w), RunInv(t, w, b), p \in t.todo,
           t.cmd = "update", t.moving = NONE, t.over = FALSE,
           Visible(t.who, p) => t.loaded["system"][p] # NONE \/ w["system"][p] = NONE,
           UpdateDone(u, v, t, w, p)
    PROVE  FilesSound(v) /\ RunInv(u, v, b)
<1>1. /\ t \in Commands /\ t.loaded \in WrapperFiles /\ OldSystem(t.loaded)
      /\ t.dir \in {"system", t.who} /\ UpdateSound(t, w)
      /\ t.loaded \in WrapperFiles /\ w \in WrapperFiles /\ OldSystem(w)
  BY DEF RunInv, RunSound, FilesSound
<1>2. t.dir \in Dirs /\ "system" \in Dirs /\ t.who \in Dirs /\ t.who \in Users /\ t.who # "system"
  BY <1>1 DEF Commands, Dirs, Users
<1>3. p \in RootOnly => ~HasBlock(t.loaded, p, TRUE)
  BY <1>1, OldIsNotHad
<1>4. Visible(t.who, p) => (has_system_wide_wrapper_plugin(t.loaded, w, p, TRUE) <=> HasBlock(t.loaded, p, TRUE))
  BY <1>1, HasSystemWide
<1>5. SystemStays(w, t, p)
  BY <1>1 DEF SystemStays, UpdateSound
<1>6. t.failed = FALSE /\ p \in b => Visible(t.who, p) /\ (w["system"][p] # NONE \/ w[t.who][p] # NONE)
  BY DEF RunInv, Keeps, MovingIs
<1>7. CASE SkipDone(u, v, t, w, p)
  <2>1. v = w /\ Proceeded(u, t, p, TRUE) /\ u.failed = (t.failed \/ ~TRUE)
    BY <1>7 DEF SkipDone, Proceeded
  <2>2. p \in b => StillKept(u, w, t, p)
    BY <1>1, <1>6, <2>1 DEF StillKept, Commands
  <2>3. OnlyFor(w, w, p)
    BY DEF OnlyFor
  <2>4. RunInv(u, w, b)
    BY <1>5, <2>1, <2>2, <2>3, StepInv
  <2> QED
    BY <2>1, <2>4
<1>8. CASE RemoveDone(u, v, t, w, p)
  <2>1. PICK ok \in BOOLEAN : Cleared(ok, v, t, w, p) /\ Proceeded(u, t, p, ok)
    BY <1>8, Zenon DEF RemoveDone
  <2>2. FilesSound(v) /\ OnlyAt(v, w, t.dir, p)
    BY <1>2, <2>1, FilesCleared
  <2>3. OnlyFor(v, w, p) /\ (t.dir # "system" => v["system"][p] = w["system"][p])
    BY <1>2, <2>2 DEF OnlyAt, OnlyFor
  <2>4. Visible(t.who, p) => HasBlock(t.loaded, p, TRUE) /\ t.dir # "system"
    BY <1>8 DEF RemoveDone, Decided
  <2>5. Visible(t.who, p) => p \notin RootOnly /\ v["system"][p] # NONE
    BY <1>3, <1>5, <2>3, <2>4 DEF SystemStays, HasBlock
  <2>6. SystemStays(v, t, p)
    BY <2>5 DEF SystemStays
  <2>7. p \in b => StillKept(u, v, t, p)
    BY <1>1, <1>6, <2>1, <2>5 DEF StillKept, Proceeded, Commands
  <2>8. RunInv(u, v, b)
    BY <2>1, <2>3, <2>6, <2>7, StepInv
  <2> QED
    BY <2>2, <2>8
<1>9. CASE MoveDone(u, v, t, w, p)
  <2>1. Visible(t.who, p) /\ p \in RootOnly
    BY <1>9 DEF MoveDone, Decided
  <2>2. PICK ok \in BOOLEAN : /\ Cleared(ok, v, t, w, p)
                              /\ MovesOn(u, t, p) \/ Proceeded(u, t, p, FALSE)
    BY <1>9, Zenon DEF MoveDone
  <2>3. FilesSound(v) /\ OnlyAt(v, w, t.dir, p)
    BY <1>2, <2>2, FilesCleared
  <2>4. OnlyFor(v, w, p)
    BY <2>3 DEF OnlyAt, OnlyFor
  <2>5. SystemStays(v, t, p)
    BY <2>1 DEF SystemStays
  <2>6. StillKept(u, v, t, p)
    BY <2>2 DEF StillKept, MovesOn, MovingIs, Proceeded
  <2>7. RunInv(u, v, b)
    BY <2>1, <2>2, <2>4, <2>5, <2>6, StepInv
  <2> QED
    BY <2>3, <2>7
<1>10. CASE InstallDone(u, v, t, w, p)
  <2>1. PICK r : InstallOutcome(r, t, w, p) /\ v = r.files /\ Proceeded(u, t, p, r.ok)
    BY <1>10, Zenon DEF InstallDone
  <2>2. InstallEffect(r, t, v, w, p)
    BY <1>2, <2>1, InstallLeaves
  <2>3. FilesSound(v) /\ OnlyFor(v, w, p)
    BY <2>2 DEF InstallEffect
  <2>4. SystemStays(v, t, p)
    BY <1>2, <1>5, <2>2 DEF SystemStays, InstallEffect
  <2>5. r.ok => v["system"][p] # NONE \/ v[t.who][p] # NONE
    <3>1. ASSUME v = w, Visible(t.who, p), HasBlock(t.loaded, p, TRUE) PROVE w["system"][p] # NONE
      BY <1>3, <1>5, <3>1 DEF SystemStays, HasBlock
    <3> QED
      BY <1>4, <2>2, <3>1 DEF InstallEffect
  <2>6. StillKept(u, v, t, p)
    BY <2>1, <2>5 DEF StillKept, Proceeded, InstallOutcome
  <2>7. RunInv(u, v, b)
    BY <2>1, <2>3, <2>4, <2>6, StepInv
  <2> QED
    BY <2>3, <2>7
<1> QED
  BY <1>7, <1>8, <1>9, <1>10, Zenon DEF UpdateDone

-----------------------------------------------------------------------------
(***************************************************************************)
(* The other steps.                                                        *)
(***************************************************************************)
\* A run that is no update.
LEMMA OtherRunInv ==
    ASSUME NEW k, NEW u, NEW w, NEW v, NEW b, RunInv(k, w, b), k.cmd # "update",
           u \in Commands, SameRun(u, k), u.loaded = k.loaded, u.dir \in {"system", u.who}, u.moving = NONE,
           u.over => u.todo = {}
    PROVE  RunInv(u, v, b)
  BY DEF RunInv, RunSound, Keeps, SameRun

LEMMA TargetNamed ==
    ASSUME NEW f
    PROVE  target_arch(f) \in {""} \cup Arches /\ target_os(f) \in {""} \cup Systems
<1>1. target_arch(f) \in {""} \cup Arches
  BY DEF target_arch
<1>2. "solaris" \in Systems
  BY DEF Systems
<1>3. target_os(f) \in {""} \cup Systems
  BY <1>2 DEF target_os
<1> QED
  BY <1>1, <1>3

\* What process_install() makes of a file, before it looks for a viewer.
LEMMA NewInfo ==
    ASSUME NEW f, NEW p \in Paths
    PROVE  [path |-> p, mtime |-> 0, ident |-> 0, version |-> 0, target_arch |-> target_arch(f),
            target_os |-> target_os(f), viewer |-> NONE] \in NPW_PluginInfo
<1>1. 0 \in 0..InfoVersion
  BY PluginFilesAssumption
<1> QED
  BY <1>1, TargetNamed DEF NPW_PluginInfo

\* What the user sees does not change in a step of the tool.
LEMMA InvAfter ==
    ASSUME mtime' = mtime, WorldSound',
           FilesSound(wrapper'), RunInv(tool', wrapper', before')
    PROVE  InstallerInv'
<1>1. \A who, p : Visible(who, p)' <=> Visible(who, p)
  BY DEF Visible
<1>2. UpdateSound(tool', wrapper') => UpdateSound(tool, wrapper)'
  BY <1>1 DEF UpdateSound
<1>3. MoveSound(tool') => MoveSound(tool)'
  BY <1>1 DEF MoveSound
<1>4. Keeps(tool', wrapper', before') => Keeps(tool, wrapper, before)'
  BY <1>1 DEF Keeps
<1>5. RunSound(tool, wrapper)'
  BY <1>2, <1>3 DEF RunInv, RunSound
<1> QED
  BY <1>4, <1>5 DEF InstallerInv, RunInv, FilesSound

LEMMA InstallOneInv ==
    ASSUME InstallerInv, NEW p \in Paths, InstallOne(p)
    PROVE  InstallerInv'
<1> DEFINE f == elf[p]
           new == [path |-> p, mtime |-> 0, ident |-> 0, version |-> 0, target_arch |-> target_arch(f),
                   target_os |-> target_os(f), viewer |-> NONE]
           found == detect_plugin_viewer(f, new, viewers, tool.native)
           wanted == Visible(tool.who, p) /\ is_plugin_fd(f) /\ found.ret = "ok"
           r == install_plugin(tool, wrapper, p, found.info)
<1> HIDE DEF f, new
<1>1. /\ tool # NONE /\ ~tool.over /\ tool.cmd = "install"
      /\ \/ wanted /\ wrapper' = r.files /\ Proceed(tool, p, r.ok)
         \/ /\ ~wanted /\ wrapper' = wrapper
            /\ tool' = [tool EXCEPT !.todo = {}] \/ Proceed(tool, p, tool.auto)
  BY DEF InstallOne, InProgress, f, new
<1>2. mtime' = mtime /\ ident' = ident /\ viewers' = viewers /\ before' = before
  BY DEF InstallOne, world
<1>3. /\ WorldSound /\ FilesSound(wrapper) /\ RunInv(tool, wrapper, before)
      /\ tool \in Commands /\ tool.auto \in BOOLEAN /\ tool.moving = NONE /\ tool.dir \in {"system", tool.who}
      /\ tool.who \in Users /\ tool.over = FALSE
  BY <1>1 DEF InstallerInv, RunInv, RunSound, FilesSound, MoveSound, Commands
<1>4. WorldSound'
  BY <1>2, <1>3 DEF WorldSound
<1>5. ASSUME NEW ok \in BOOLEAN, Proceeded(tool', tool, p, ok)
      PROVE  RunInv(tool', wrapper', before')
  <2>1. /\ tool' \in Commands /\ SameRun(tool', tool) /\ tool'.loaded = tool.loaded /\ tool'.moving = NONE
        /\ tool'.dir \in {"system", tool'.who} /\ tool'.over = FALSE
    BY <1>3, <1>5 DEF Proceeded, SameRun
  <2> QED
    BY <1>1, <1>2, <1>3, <2>1, OtherRunInv
<1>6. CASE wanted /\ wrapper' = r.files /\ Proceed(tool, p, r.ok)
  <2>1. new \in NPW_PluginInfo
    BY NewInfo DEF new
  <2>2. FoundSound(found, elf[p], viewers)
    BY <1>3, <2>1, Detected DEF f, WorldSound
  <2>3. found.info \in NPW_PluginInfo /\ Served(found.info.viewer, tool, p)
    BY <1>6, <2>2, NoRecord DEF FoundSound, Served
  <2> HIDE DEF found
  <2>4. InstallOutcome(r, tool, wrapper, p)
    BY <1>3, <2>3, Installs
  <2> HIDE DEF r
  <2>5. FilesSound(wrapper')
    BY <1>3, <1>6, <2>4, InstallLeaves DEF InstallEffect
  <2>6. r.ok \in BOOLEAN
    BY <2>4, Zenon DEF InstallOutcome
  <2>7. Proceeded(tool', tool, p, r.ok)
    BY <1>3, <1>6, <2>6, Proceeds
  <2> QED
    BY <1>2, <1>4, <1>5, <2>5, <2>6, <2>7, InvAfter
<1>7. CASE wrapper' = wrapper /\ Proceed(tool, p, tool.auto)
  <2>1. Proceeded(tool', tool, p, tool.auto)
    BY <1>3, <1>7, Proceeds
  <2> QED
    BY <1>2, <1>3, <1>4, <1>5, <1>7, <2>1, InvAfter
<1>8. CASE wrapper' = wrapper /\ tool' = [tool EXCEPT !.todo = {}]
  <2>1. /\ tool' \in Commands /\ SameRun(tool', tool) /\ tool'.loaded = tool.loaded /\ tool'.moving = NONE
        /\ tool'.dir \in {"system", tool'.who} /\ tool'.todo = {}
    BY <1>3, <1>8 DEF SameRun, Commands
  <2>2. RunInv(tool', wrapper', before')
    BY <1>1, <1>2, <1>3, <2>1, OtherRunInv
  <2> QED
    BY <1>2, <1>3, <1>4, <1>8, <2>2, InvAfter
<1> QED
  BY <1>1, <1>6, <1>7, <1>8, Zenon

LEMMA RemoveOneInv ==
    ASSUME InstallerInv, NEW p \in Paths, RemoveOne(p)
    PROVE  InstallerInv'
<1> DEFINE r == remove_plugin(tool, wrapper, tool.dir, p)
<1>1. /\ tool # NONE /\ ~tool.over /\ tool.cmd = "remove"
      /\ wrapper' = r.files /\ Proceed(tool, p, r.ok)
  BY DEF RemoveOne, InProgress
<1>2. mtime' = mtime /\ ident' = ident /\ viewers' = viewers /\ before' = before
  BY DEF RemoveOne, world
<1>3. /\ WorldSound /\ FilesSound(wrapper) /\ RunInv(tool, wrapper, before)
      /\ tool \in Commands /\ tool.dir \in {"system", tool.who} /\ tool.dir \in Dirs /\ tool.over = FALSE
  BY <1>1 DEF InstallerInv, RunInv, RunSound, FilesSound, Commands
<1>4. r.ok \in BOOLEAN /\ Cleared(r.ok, r.files, tool, wrapper, p)
  BY ClearFile
<1> HIDE DEF r
<1>5. FilesSound(wrapper')
  BY <1>1, <1>3, <1>4, FilesCleared
<1>6. Proceeded(tool', tool, p, r.ok)
  BY <1>1, <1>3, <1>4, Proceeds
<1>7. /\ tool' \in Commands /\ SameRun(tool', tool) /\ tool'.loaded = tool.loaded /\ tool'.moving = NONE
      /\ tool'.dir \in {"system", tool'.who} /\ tool'.over = FALSE
  BY <1>3, <1>6 DEF Proceeded, SameRun
<1>8. RunInv(tool', wrapper', before')
  BY <1>1, <1>2, <1>3, <1>7, OtherRunInv
<1>9. WorldSound'
  BY <1>2, <1>3 DEF WorldSound
<1> QED
  BY <1>2, <1>5, <1>8, <1>9, InvAfter

LEMMA UpdateOneInv ==
    ASSUME InstallerInv, NEW p \in Paths, UpdateOne(p)
    PROVE  InstallerInv'
<1>1. tool # NONE
  BY DEF UpdateOne, InProgress
<1>2. mtime' = mtime /\ ident' = ident /\ viewers' = viewers /\ before' = before
  BY DEF UpdateOne, world
<1>3. /\ WorldSound /\ FilesSound(wrapper) /\ RunInv(tool, wrapper, before)
      /\ before \subseteq Paths
  BY <1>1, Zenon DEF InstallerInv, RunInv, FilesSound, WorldSound
<1>4. PICK t : OpenedRun(t, tool, wrapper, p) /\ UpdateDone(tool', wrapper', t, wrapper, p)
  BY Updates
<1>5. RunInv(t, wrapper, before)
  BY <1>3, <1>4, OpenedInv
<1>6. /\ p \in t.todo /\ t.cmd = "update" /\ t.moving = NONE /\ t.over = FALSE
      /\ Visible(t.who, p) => t.loaded["system"][p] # NONE \/ wrapper["system"][p] = NONE
  BY <1>4 DEF OpenedRun, Opened
<1>7. FilesSound(wrapper') /\ RunInv(tool', wrapper', before)
  BY <1>3, <1>4, <1>5, <1>6, UpdateInv
<1>8. WorldSound'
  BY <1>2, <1>3 DEF WorldSound
<1> QED
  BY <1>2, <1>7, <1>8, InvAfter

LEMMA ReinstallInv ==
    ASSUME InstallerInv, Reinstall
    PROVE  InstallerInv'
<1> DEFINE p == tool.moving.p
           info == tool.moving.info
           r == install_plugin(tool, wrapper, p, info)
<1>1. /\ tool # NONE /\ ~tool.over /\ tool.cmd = "update" /\ tool.moving # NONE
      /\ wrapper' = r.files /\ Proceed(tool, p, r.ok)
  BY DEF Reinstall, InProgress
<1>2. mtime' = mtime /\ ident' = ident /\ viewers' = viewers /\ before' = before
  BY DEF Reinstall, world
<1>3. /\ WorldSound /\ FilesSound(wrapper) /\ RunInv(tool, wrapper, before)
      /\ before \subseteq Paths
      /\ tool \in Commands /\ tool.who \in Users /\ OldSystem(tool.loaded) /\ OldSystem(wrapper)
      /\ tool.loaded \in WrapperFiles /\ wrapper \in WrapperFiles /\ MoveSound(tool)
  BY <1>1 DEF InstallerInv, RunInv, FilesSound, WorldSound, RunSound, Commands
<1>4. /\ p \in Paths /\ info \in NPW_PluginInfo /\ (info.viewer # NONE => Served(info.viewer, tool, p))
      /\ p \in RootOnly /\ p \in tool.todo
  BY <1>1, <1>3 DEF MoveSound, Commands, MovedWrapper, Served
<1>5. InstallOutcome(r, tool, wrapper, p)
  BY <1>3, <1>4, Installs
<1> HIDE DEF r, p, info
<1>6. r.ok \in BOOLEAN
  BY <1>5, Zenon DEF InstallOutcome
<1>7. Proceeded(tool', tool, p, r.ok)
  BY <1>1, <1>3, <1>4, <1>6, Proceeds
<1>8. InstallEffect(r, tool, wrapper', wrapper, p)
  BY <1>1, <1>3, <1>4, <1>5, InstallLeaves
<1>9. r.ok => wrapper'["system"][p] # NONE \/ wrapper'[tool.who][p] # NONE
  <2>1. ~has_system_wide_wrapper_plugin(tool.loaded, wrapper, p, TRUE)
    BY <1>3, <1>4, OldIsNotHad
  <2> QED
    BY <1>8, <2>1 DEF InstallEffect
<1>10. MovingIs(tool, p) /\ \A q : MovingIs(tool, q) => q = p
  BY <1>1 DEF MovingIs, p
<1>11. RunInv(tool', wrapper', before)
  <2>1. /\ tool.loaded \in WrapperFiles /\ tool.dir \in {"system", tool.who} /\ UpdateSound(tool, wrapper)
        /\ Keeps(tool, wrapper, before)
    BY <1>1, <1>3 DEF RunInv, RunSound
  <2>2. /\ tool' \in Commands /\ tool'.cmd = "update" /\ tool'.who = tool.who /\ tool'.dir = tool.dir
        /\ ~tool'.over /\ tool'.loaded = tool.loaded /\ tool'.moving = NONE
        /\ tool'.todo \subseteq tool.todo \ {p} /\ (tool'.failed <=> tool.failed \/ ~r.ok)
    BY <1>1, <1>7 DEF Proceeded, SameRun
  <2>3. tool.dir \in Dirs /\ "system" \in Dirs /\ tool.who \in Dirs /\ tool.todo \subseteq Paths
    BY <1>3 DEF Commands, Dirs, Users
  <2>4. \A d \in Dirs, q \in Paths : q # p => wrapper'[d][q] = wrapper[d][q]
    BY <1>8 DEF InstallEffect, OnlyFor
  <2>5. ASSUME NEW q \in tool'.todo PROVE wrapper'[tool'.dir][q] # NONE
    <3>1. q \in tool.todo /\ q # p /\ q \in Paths
      BY <2>2, <2>3
    <3>2. wrapper[tool.dir][q] # NONE
      BY <1>10, <2>1, <3>1 DEF UpdateSound
    <3> QED
      BY <2>2, <2>3, <2>4, <3>1, <3>2
  <2>6. ASSUME NEW q \in Paths \ RootOnly, Visible(tool'.who, q), tool'.loaded["system"][q] # NONE
        PROVE  wrapper'["system"][q] # NONE
    <3>1. wrapper["system"][q] # NONE
      BY <2>1, <2>2, <2>6 DEF UpdateSound
    <3> QED
      BY <1>4, <2>3, <2>4, <2>6, <3>1
  <2>7. UpdateSound(tool', wrapper')
    BY <2>5, <2>6, Zenon DEF UpdateSound
  <2>8. RunSound(tool', wrapper')
    BY <1>3, <2>1, <2>2, <2>7 DEF RunSound
  <2>9. ASSUME ~tool'.failed, NEW q \in before
        PROVE  /\ Visible(tool'.who, q)
               /\ wrapper'["system"][q] # NONE \/ wrapper'[tool'.who][q] # NONE
    <3>1. ~tool.failed /\ r.ok
      BY <1>6, <2>2, <2>9
    <3>2. /\ Visible(tool.who, q)
          /\ wrapper["system"][q] # NONE \/ wrapper[tool.who][q] # NONE \/ q = p
      BY <1>1, <1>10, <2>1, <3>1 DEF Keeps
    <3>3. CASE q = p
      BY <1>9, <2>2, <3>1, <3>2, <3>3
    <3>4. CASE q # p
      BY <1>3, <2>2, <2>3, <2>4, <3>2, <3>4
    <3> QED
      BY <3>3, <3>4
  <2>10. Keeps(tool', wrapper', before)
    BY <2>9, Zenon DEF Keeps
  <2> QED
    BY <2>8, <2>10 DEF RunInv
<1>12. WorldSound'
  BY <1>2, <1>3 DEF WorldSound
<1>13. FilesSound(wrapper')
  BY <1>8 DEF InstallEffect
<1> QED
  BY <1>2, <1>11, <1>12, <1>13, InvAfter

\* A run begins, or passes on to the user's own directory.
LEMMA FreshRunInv ==
    ASSUME NEW u, NEW w, NEW b, u \in Commands, FilesSound(u.loaded), u.moving = NONE, ~u.over,
           u.dir \in {"system", u.who},
           u.cmd = "update" => UpdateSound(u, w) /\ Keeps(u, w, b)
    PROVE  RunInv(u, w, b)
<1>1. RunSound(u, w)
  BY DEF RunSound, FilesSound
<1>2. Keeps(u, w, b)
  BY DEF Keeps
<1> QED
  BY <1>1, <1>2 DEF RunInv

LEMMA NothingIsSound ==
    /\ FilesSound(NothingLoaded)
    /\ \A d \in Dirs, p \in Paths : NothingLoaded[d][p] = NONE
<1>1. /\ NothingLoaded \in WrapperFiles /\ \A d \in Dirs, p \in Paths : NothingLoaded[d][p] = NONE
      /\ "system" \in Dirs /\ RootOnly \subseteq Paths
  BY InstallerAssumption DEF NothingLoaded, WrapperFiles, Dirs
<1> QED
  BY <1>1 DEF FilesSound, OldSystem

LEMMA BeginInv ==
    ASSUME InstallerInv, NEW who \in Users, NEW cmd \in {"install", "update", "remove"},
           NEW auto \in BOOLEAN, NEW native \in BOOLEAN, Begin(who, cmd, auto, native)
    PROVE  InstallerInv'
<1> DEFINE Dir == IF auto \/ cmd = "install" THEN {"system"} ELSE {"system", who}
           All(d) == IF cmd = "install" THEN Paths ELSE {p \in Paths : wrapper[d][p] # NONE}
<1>1. PICK dir \in Dir : \E todo \in SUBSET All(dir) :
          tool' = [cmd |-> cmd, over |-> FALSE, who |-> who, auto |-> auto, native |-> native, dir |-> dir,
                   todo |-> todo, moving |-> NONE, failed |-> FALSE, loaded |-> NothingLoaded]
  BY DEF Begin, get_user_mozilla_plugin_dir
<1>2. PICK todo \in SUBSET All(dir) :
          tool' = [cmd |-> cmd, over |-> FALSE, who |-> who, auto |-> auto, native |-> native, dir |-> dir,
                   todo |-> todo, moving |-> NONE, failed |-> FALSE, loaded |-> NothingLoaded]
  BY <1>1
<1>3. /\ mtime' = mtime /\ ident' = ident /\ viewers' = viewers /\ wrapper' = wrapper
      /\ before' = Wrapped(who, wrapper)
  BY DEF Begin, world
<1>4. dir \in {"system", who} /\ dir \in Dirs /\ who \in Dirs /\ "system" \in Dirs
  BY <1>1 DEF Dirs, Users
<1>5. todo \in SUBSET Paths
  BY <1>2
<1>6. /\ FilesSound(NothingLoaded) /\ NothingLoaded \in WrapperFiles
      /\ \A d \in Dirs, p \in Paths : NothingLoaded[d][p] = NONE
  BY NothingIsSound DEF FilesSound
<1> HIDE DEF All, Dir
<1>7. /\ tool' \in Commands /\ tool'.cmd = cmd /\ tool'.over = FALSE /\ tool'.who = who /\ tool'.dir = dir
      /\ tool'.todo = todo /\ tool'.moving = NONE /\ tool'.failed = FALSE /\ tool'.loaded = NothingLoaded
  BY <1>2, <1>4, <1>5, <1>6 DEF Commands
<1>8. ASSUME cmd = "update" PROVE UpdateSound(tool', wrapper) /\ Keeps(tool', wrapper, before')
  <2>1. \A p \in todo : wrapper[dir][p] # NONE
    BY <1>8 DEF All
  <2>2. UpdateSound(tool', wrapper)
    BY <1>4, <1>6, <1>7, <2>1 DEF UpdateSound
  <2>3. Keeps(tool', wrapper, before')
    BY <1>3, <1>7 DEF Keeps, Wrapped, get_user_mozilla_plugin_dir
  <2> QED
    BY <2>2, <2>3
<1>9. RunInv(tool', wrapper', before')
  BY <1>3, <1>4, <1>6, <1>7, <1>8, FreshRunInv
<1>10. /\ WorldSound /\ before' \subseteq Paths /\ FilesSound(wrapper)
  BY <1>3 DEF InstallerInv, Wrapped, FilesSound
<1>11. WorldSound'
  BY <1>3, <1>10 DEF WorldSound
<1> QED
  BY <1>3, <1>9, <1>10, <1>11, InvAfter

LEMMA EndOfDirInv ==
    ASSUME InstallerInv, EndOfDir
    PROVE  InstallerInv'
<1> DEFINE todo == {p \in Paths : wrapper[tool.who][p] # NONE}
<1>1. /\ tool # NONE /\ ~tool.over /\ tool.todo = {}
      /\ \/ /\ tool.dir = "system" /\ tool' = [tool EXCEPT !.dir = tool.who, !.todo = todo]
         \/ tool' = [tool EXCEPT !.over = TRUE]
  BY DEF EndOfDir, get_mozilla_plugin_dirs, get_user_mozilla_plugin_dir
<1> HIDE DEF todo
<1>2. /\ mtime' = mtime /\ ident' = ident /\ viewers' = viewers /\ before' = before /\ wrapper' = wrapper
  BY DEF EndOfDir, world
<1>3. /\ WorldSound /\ FilesSound(wrapper) /\ RunInv(tool, wrapper, before)
      /\ RunSound(tool, wrapper) /\ Keeps(tool, wrapper, before) /\ tool \in Commands
      /\ FilesSound(tool.loaded)
  BY <1>1 DEF InstallerInv, RunInv, RunSound, FilesSound
<1>4. WorldSound'
  BY <1>2, <1>3 DEF WorldSound
<1>5. tool.moving = NONE /\ tool.dir \in {"system", tool.who}
  BY <1>1, <1>3 DEF RunSound, MoveSound
<1>6. CASE tool' = [tool EXCEPT !.dir = tool.who, !.todo = todo]
  <2>1. tool.who \in Dirs /\ todo \in SUBSET Paths /\ \A p \in todo : wrapper[tool.who][p] # NONE
    BY <1>3 DEF Commands, Dirs, Users, todo
  <2>2. /\ tool' \in Commands /\ SameRun(tool', tool) /\ tool'.over = tool.over /\ tool'.dir = tool.who
        /\ tool'.todo = todo /\ tool'.moving = NONE /\ tool'.failed = tool.failed /\ tool'.loaded = tool.loaded
    BY <1>3, <1>5, <1>6, <2>1 DEF Commands, SameRun
  <2>3. tool.cmd = "update" => UpdateSound(tool', wrapper) /\ Keeps(tool', wrapper, before)
    BY <1>3, <1>5, <2>1, <2>2 DEF RunSound, UpdateSound, Keeps, SameRun, MovingIs
  <2>4. RunInv(tool', wrapper', before)
    BY <1>1, <1>2, <1>3, <2>2, <2>3, FreshRunInv DEF SameRun
  <2> QED
    BY <1>2, <1>3, <1>4, <2>4, InvAfter
<1>7. CASE tool' = [tool EXCEPT !.over = TRUE]
  <2>1. /\ tool' \in Commands /\ SameRun(tool', tool) /\ tool'.over = TRUE /\ tool'.dir = tool.dir
        /\ tool'.todo = {} /\ tool'.moving = NONE /\ tool'.failed = tool.failed /\ tool'.loaded = tool.loaded
    BY <1>1, <1>3, <1>5, <1>7 DEF Commands, SameRun
  <2>2. RunSound(tool', wrapper)
    BY <1>1, <1>3, <1>5, <2>1 DEF RunSound, UpdateSound, SameRun, MovingIs
  <2>3. Keeps(tool', wrapper, before)
    BY <1>3, <1>5, <2>1 DEF Keeps, SameRun, MovingIs
  <2>4. RunInv(tool', wrapper', before)
    BY <1>2, <2>2, <2>3 DEF RunInv
  <2> QED
    BY <1>2, <1>3, <1>4, <2>4, InvAfter
<1> QED
  BY <1>1, <1>6, <1>7

\* No run is in progress any more.
LEMMA IdleInv ==
    ASSUME InstallerInv, tool' = NONE, DOMAIN viewers' \subseteq Directory, wrapper' = wrapper, before' = before,
           mtime' \in [Paths -> Nat], ident' \in Nat \ {0}
    PROVE  InstallerInv'
  BY DEF InstallerInv, WorldSound

LEMMA WorldInv ==
    ASSUME InstallerInv, Exit \/ Killed \/ Upgrade \/ ViewersChange \/ \E p \in Paths : PluginChanges(p)
    PROVE  InstallerInv'
<1>1. CASE Exit \/ Killed
  BY <1>1, IdleInv DEF Exit, Killed, world, InstallerInv, WorldSound
<1>2. CASE Upgrade
  <2>1. ident \in Nat /\ ident' = ident + 1 /\ mtime \in [Paths -> Nat]
    BY <1>2 DEF Upgrade, InstallerInv, WorldSound
  <2>2. DOMAIN viewers' \subseteq Directory
    BY <1>2, InstallerAssumption DEF Upgrade
  <2> QED
    BY <1>2, <2>1, <2>2, IdleInv DEF Upgrade, WorldChanges
<1>3. ASSUME NEW p \in Paths, PluginChanges(p) PROVE InstallerInv'
  <2>1. PICK n \in 0..MaxTime : mtime' = [mtime EXCEPT ![p] = n]
    BY <1>3 DEF PluginChanges
  <2>2. n \in Nat /\ mtime \in [Paths -> Nat] /\ ident \in Nat \ {0}
    BY InstallerAssumption DEF InstallerInv, WorldSound
  <2>3. mtime' \in [Paths -> Nat]
    BY <2>1, <2>2
  <2> QED
    BY <1>3, <2>2, <2>3, IdleInv DEF PluginChanges, WorldChanges, InstallerInv, WorldSound
<1>4. CASE ViewersChange
  <2>1. DOMAIN viewers' \subseteq Directory /\ mtime \in [Paths -> Nat] /\ ident \in Nat \ {0}
    BY <1>4, InstallerAssumption DEF ViewersChange, InstallerInv, WorldSound
  <2> QED
    BY <1>4, <2>1, IdleInv DEF ViewersChange, WorldChanges
<1> QED
  BY <1>1, <1>2, <1>3, <1>4

\* A wrapper made by one of the first versions.
LEMMA LegacySound ==
    ASSUME NEW p \in Paths, NEW n \in {0, 1}
    PROVE  Legacy(p, n) \in NPW_PluginInfo /\ Legacy(p, n).ident = 0
<1>1. n \in 0..InfoVersion /\ n # InfoVersion
  BY PluginFilesAssumption
<1>2. target_arch(Files[p]) \in {""} \cup Arches /\ target_os(Files[p]) \in {""} \cup Systems
  BY TargetNamed
<1> DEFINE b == Legacy(p, n)
<1>3. b \in NPW_PluginInfo /\ b.version = n /\ b.ident = 0
  BY <1>1, <1>2 DEF Legacy, NPW_PluginInfo
<1> QED
  BY <1>3

LEMMA InstallerInitInv ==
    ASSUME InstallerInit
    PROVE  InstallerInv
<1>1. WorldSound /\ tool = NONE
  BY InstallerAssumption DEF InstallerInit, WorldSound
<1>2. FilesSound(NothingLoaded) /\ \A d \in Dirs, p \in Paths : NothingLoaded[d][p] = NONE
  BY NothingIsSound
<1>3. CASE wrapper \in [Dirs -> [Paths -> {NONE}]]
  <2>1. wrapper = NothingLoaded
    BY <1>3 DEF NothingLoaded
  <2> QED
    BY <1>1, <1>2, <2>1 DEF InstallerInv, FilesSound
<1>4. ASSUME NEW d \in Dirs, NEW p \in Paths, NEW n \in {0, 1}, wrapper = [NothingLoaded EXCEPT ![d][p] = Legacy(p, n)]
      PROVE  InstallerInv
  <2> DEFINE b == Legacy(p, n)
  <2>1. b \in NPW_PluginInfo /\ b \in {NONE} \cup NPW_PluginInfo /\ b.ident = 0
    BY LegacySound
  <2> HIDE DEF b
  <2>2. wrapper = [NothingLoaded EXCEPT ![d][p] = b]
    BY <1>4 DEF b
  <2>3. NothingLoaded \in WrapperFiles
    BY <1>2 DEF FilesSound
  <2>4. Put(wrapper, NothingLoaded, d, p, b)
    <3>1. Put([NothingLoaded EXCEPT ![d][p] = b], NothingLoaded, d, p, b)
      BY <2>1, <2>3, PutFile
    <3> QED
      BY <2>2, <3>1, Zenon
  <2>5. \A e \in Dirs, q \in Paths : wrapper[e][q] # NONE => q = p /\ wrapper[e][q] = b
    BY <1>2, <2>4 DEF Put, OnlyAt
  <2>6. wrapper \in WrapperFiles
    BY <2>4 DEF Put
  <2>7. "system" \in Dirs /\ RootOnly \subseteq Paths
    BY InstallerAssumption DEF Dirs
  <2>8. OldSystem(wrapper)
    BY <2>1, <2>5, <2>7 DEF OldSystem
  <2> QED
    BY <1>1, <2>6, <2>8 DEF InstallerInv
<1>5. \/ wrapper \in [Dirs -> [Paths -> {NONE}]]
      \/ \E d \in Dirs, p \in Paths, n \in {0, 1} : wrapper = [NothingLoaded EXCEPT ![d][p] = Legacy(p, n)]
  BY DEF InstallerInit
<1> QED
  BY <1>3, <1>4, <1>5

LEMMA InstallerNextInv ==
    ASSUME InstallerInv, [InstallerNext]_installerVars
    PROVE  InstallerInv'
<1>1. CASE UNCHANGED installerVars
  <2>1. /\ mtime' = mtime /\ ident' = ident /\ viewers' = viewers /\ wrapper' = wrapper
        /\ tool' = tool /\ before' = before
    BY <1>1 DEF installerVars
  <2> QED
    BY <2>1 DEF InstallerInv, WorldSound, RunSound, Keeps, UpdateSound, MoveSound, Visible
<1>2. CASE InstallerNext
  BY <1>2, BeginInv, InstallOneInv, RemoveOneInv, UpdateOneInv, ReinstallInv, EndOfDirInv, WorldInv, Zenon
     DEF InstallerNext
<1> QED
  BY <1>1, <1>2

LEMMA InvKeepsWrappers ==
    ASSUME InstallerInv
    PROVE  UpdateLosesNothing
<1> SUFFICES ASSUME tool # NONE, tool.over, tool.cmd = "update", ~tool.failed, NEW p \in before
             PROVE  p \in Wrapped(tool.who, wrapper)
  BY DEF UpdateLosesNothing
<1>1. RunSound(tool, wrapper) /\ Keeps(tool, wrapper, before) /\ p \in Paths
  BY DEF InstallerInv, WorldSound
<1>2. tool.moving = NONE
  BY <1>1 DEF RunSound, MoveSound
<1> QED
  BY <1>1, <1>2 DEF Keeps, MovingIs, Wrapped, get_user_mozilla_plugin_dir

\* An installation of p writes one file, with a viewer that serves p.
ServedIn(v, w, t, p) ==
    \A d \in Dirs, q \in Paths : v[d][q] # w[d][q] => q = p /\ Served(v[d][q].viewer, t, p)

LEMMA PutServed ==
    ASSUME NEW t, NEW w \in WrapperFiles, NEW p \in Paths, NEW dir \in Dirs, NEW v, InstalledIn(v, t, w, p, dir)
    PROVE  ServedIn(v, w, t, p)
<1>1. PICK b \in NPW_PluginInfo : FreshBlock(b, t, p) /\ v = [w EXCEPT ![dir][p] = b]
  BY Zenon DEF InstalledIn
<1>2. b \in {NONE} \cup NPW_PluginInfo
  BY <1>1
<1>3. Put([w EXCEPT ![dir][p] = b], w, dir, p, b)
  BY <1>2, PutFile
<1>4. v[dir][p] = b /\ OnlyAt(v, w, dir, p)
  BY <1>1, <1>3, Zenon DEF Put
<1> QED
  BY <1>1, <1>4, Zenon DEF ServedIn, OnlyAt, FreshBlock

LEMMA InstallServes ==
    ASSUME NEW t \in Commands, NEW w \in WrapperFiles, NEW p \in Paths, NEW r, InstallOutcome(r, t, w, p)
    PROVE  ServedIn(r.files, w, t, p)
<1>1. "system" \in Dirs /\ t.who \in Dirs
  BY DEF Commands, Dirs, Users
<1>2. CASE r.files = w
  BY <1>2 DEF ServedIn
<1>3. CASE InstalledIn(r.files, t, w, p, "system") \/ InstalledIn(r.files, t, w, p, t.who)
  BY <1>1, <1>3, PutServed
<1> QED
  BY <1>2, <1>3, Zenon DEF InstallOutcome, Outcome

LEMMA ServedFits ==
    ASSUME NEW t, NEW p \in Paths, ServedIn(wrapper', wrapper, t, p),
           t.cmd = "update" => tool.cmd = "update" /\ OldViewer(t, p) = OldViewer(tool', p)
    PROVE  WritesFit
  BY Zenon DEF ServedIn, Served, WritesFit

LEMMA ClearedFits ==
    ASSUME wrapper \in WrapperFiles, NEW t, NEW p \in Paths, t.dir \in Dirs, NEW ok \in BOOLEAN,
           Cleared(ok, wrapper', t, wrapper, p)
    PROVE  WritesFit
<1>1. \A d \in Dirs, q \in Paths : wrapper'[d][q] \in {NONE, wrapper[d][q]}
  BY DEF Cleared, WrapperFiles
<1> QED
  BY <1>1, Zenon DEF WritesFit

LEMMA InstallOneFits ==
    ASSUME InstallerInv, NEW p \in Paths, InstallOne(p)
    PROVE  WritesFit
<1>1. tool \in Commands /\ wrapper \in WrapperFiles /\ WorldSound /\ tool.cmd = "install"
  BY DEF InstallerInv, RunSound, InstallOne, InProgress
<1> DEFINE f == elf[p]
           new == [path |-> p, mtime |-> 0, ident |-> 0, version |-> 0, target_arch |-> target_arch(f),
                   target_os |-> target_os(f), viewer |-> NONE]
           found == detect_plugin_viewer(f, new, viewers, tool.native)
           r == install_plugin(tool, wrapper, p, found.info)
<1> HIDE DEF new
<1>2. \/ found.ret = "ok" /\ wrapper' = r.files
      \/ wrapper' = wrapper
  BY DEF InstallOne, new
<1>3. CASE found.ret = "ok" /\ wrapper' = r.files
  <2>1. new \in NPW_PluginInfo
    BY NewInfo DEF new
  <2>2. FoundSound(found, elf[p], viewers)
    BY <1>1, <2>1, Detected DEF WorldSound
  <2> HIDE DEF found
  <2>3. found.info \in NPW_PluginInfo /\ Served(found.info.viewer, tool, p)
    BY <1>3, <2>2, NoRecord DEF FoundSound, Served
  <2>4. InstallOutcome(r, tool, wrapper, p)
    BY <1>1, <2>3, Installs
  <2> HIDE DEF r
  <2>5. ServedIn(wrapper', wrapper, tool, p)
    BY <1>1, <1>3, <2>4, InstallServes
  <2> QED
    BY <1>1, <2>5, ServedFits
<1>4. CASE wrapper' = wrapper
  BY <1>4, Zenon DEF WritesFit
<1> QED
  BY <1>2, <1>3, <1>4

LEMMA ReinstallFits ==
    ASSUME InstallerInv, Reinstall
    PROVE  WritesFit
<1> DEFINE p == tool.moving.p
           info == tool.moving.info
           r == install_plugin(tool, wrapper, p, info)
<1>1. /\ tool # NONE /\ ~tool.over /\ tool.cmd = "update" /\ tool.moving # NONE
      /\ wrapper' = r.files /\ Proceed(tool, p, r.ok)
  BY DEF Reinstall, InProgress
<1>2. /\ WorldSound /\ tool \in Commands /\ wrapper \in WrapperFiles /\ MoveSound(tool)
  BY <1>1 DEF InstallerInv, RunSound
<1>3. p \in Paths /\ info \in NPW_PluginInfo /\ info.viewer = OldViewer(tool, p)
  BY <1>1, <1>2 DEF MoveSound, Commands, MovedWrapper
<1>4. info.viewer # NONE => Served(info.viewer, tool, p)
  BY <1>1, <1>3 DEF Served
<1>5. InstallOutcome(r, tool, wrapper, p)
  BY <1>2, <1>3, <1>4, Installs
<1> HIDE DEF r, p, info
<1>6. r.ok \in BOOLEAN
  BY <1>5, Zenon DEF InstallOutcome
<1>7. Proceeded(tool', tool, p, r.ok)
  BY <1>1, <1>2, <1>3, <1>6, Proceeds
<1>8. OldViewer(tool', p) = OldViewer(tool, p)
  BY <1>7 DEF Proceeded, OldViewer
<1>9. ServedIn(wrapper', wrapper, tool, p)
  BY <1>1, <1>2, <1>3, <1>5, InstallServes
<1> QED
  BY <1>1, <1>3, <1>8, <1>9, ServedFits

LEMMA UpdateOneFits ==
    ASSUME InstallerInv, NEW p \in Paths, UpdateOne(p)
    PROVE  WritesFit
<1>1. PICK t : OpenedRun(t, tool, wrapper, p) /\ UpdateDone(tool', wrapper', t, wrapper, p)
  BY Updates
<1>2. /\ wrapper \in WrapperFiles /\ t \in Commands /\ t.dir \in Dirs /\ tool.cmd = "update"
  BY <1>1 DEF InstallerInv, OpenedRun, Commands, UpdateOne, InProgress
<1>3. CASE wrapper' = wrapper
  BY <1>3, Zenon DEF WritesFit
<1>4. CASE \E ok \in BOOLEAN : Cleared(ok, wrapper', t, wrapper, p)
  BY <1>2, <1>4, ClearedFits
<1>5. CASE InstallDone(tool', wrapper', t, wrapper, p)
  <2>1. PICK r : InstallOutcome(r, t, wrapper, p) /\ wrapper' = r.files /\ Proceeded(tool', t, p, r.ok)
    BY <1>5 DEF InstallDone
  <2>2. ServedIn(wrapper', wrapper, t, p)
    BY <1>2, <2>1, InstallServes
  <2>3. OldViewer(t, p) = OldViewer(tool', p)
    BY <2>1 DEF Proceeded, OldViewer
  <2> QED
    BY <1>2, <2>2, <2>3, ServedFits
<1> QED
  BY <1>1, <1>3, <1>4, <1>5, Zenon DEF UpdateDone, SkipDone, RemoveDone, MoveDone

LEMMA RemoveOneFits ==
    ASSUME InstallerInv, NEW p \in Paths, RemoveOne(p)
    PROVE  WritesFit
<1> DEFINE r == remove_plugin(tool, wrapper, tool.dir, p)
<1>1. wrapper \in WrapperFiles /\ tool.dir \in Dirs /\ wrapper' = r.files
  BY DEF InstallerInv, RunSound, Commands, RemoveOne, InProgress
<1>2. r.ok \in BOOLEAN /\ Cleared(r.ok, r.files, tool, wrapper, p)
  BY ClearFile
<1> HIDE DEF r
<1> QED
  BY <1>1, <1>2, ClearedFits

LEMMA NextFits ==
    ASSUME InstallerInv, InstallerNext
    PROVE  WritesFit
<1>1. ASSUME wrapper' = wrapper PROVE WritesFit
  BY <1>1, Zenon DEF WritesFit
<1>2. ASSUME NEW who, NEW cmd, NEW auto, NEW native, Begin(who, cmd, auto, native) PROVE wrapper' = wrapper
  BY <1>2 DEF Begin
<1>3. CASE EndOfDir \/ Exit \/ Killed \/ Upgrade \/ ViewersChange \/ \E p \in Paths : PluginChanges(p)
  BY <1>1, <1>3 DEF EndOfDir, Exit, Killed, Upgrade, ViewersChange, PluginChanges, WorldChanges
<1> QED
  BY <1>1, <1>2, <1>3, InstallOneFits, RemoveOneFits, UpdateOneFits, ReinstallFits, Zenon DEF InstallerNext

\* For any plugins, viewers and changes to both, a wrapper is written with a
\* viewer that is installed and can run its plugin as it is then, or, by an
\* update, with the viewer of the wrapper it replaces, the files killed
\* runs have left included (detect_plugin_viewer, do_install_plugin).
THEOREM InstalledViewersFit == InstallerSpec => ViewerFits
<1>1. InstallerInit => InstallerInv
  BY InstallerInitInv
<1>2. InstallerInv /\ [InstallerNext]_installerVars => InstallerInv'
  BY InstallerNextInv
<1>3. InstallerInv /\ [InstallerNext]_installerVars => [WritesFit]_installerVars
  BY NextFits
<1> QED
  BY <1>1, <1>2, <1>3, PTL DEF InstallerSpec, ViewerFits

\* For any plugins and any user, an update that reports no failure leaves a
\* wrapper for every plugin that had one and is still there: what
\* update_plugin() removes is covered by another wrapper.
THEOREM NoUpdateLosesAnything == InstallerSpec => []UpdateLosesNothing
<1>1. InstallerInit => InstallerInv
  BY InstallerInitInv
<1>2. InstallerInv /\ [InstallerNext]_installerVars => InstallerInv'
  BY InstallerNextInv
<1>3. InstallerInv => UpdateLosesNothing
  BY InvKeepsWrappers
<1> QED
  BY <1>1, <1>2, <1>3, PTL DEF InstallerSpec

-----------------------------------------------------------------------------
(***************************************************************************)
(* Complete updates by root.                                               *)
(***************************************************************************)
\* What a pass has opened, the wrappers of the plugin p left out.
Passing(t, n, w, p) ==
    /\ \A q \in t.todo \ {p} : t.loaded[t.dir][q] = NONE
    /\ t.dir = "system" => \A q \in Paths : t.loaded[t.who][q] = NONE
    /\ n # 0 => \A q \in Paths \ (RootOnly \cup {p}) : t.loaded["system"][q] \in {NONE, w["system"][q]}

SettledAt(n, v, p) == n # 0 => SystemIn(v, p) /\ Once(v, p) /\ (n = 2 => Twice(v, p))

OpenedAt(t, n, v, p) == n # 0 /\ p \notin RootOnly => t.loaded["system"][p] \in {NONE, v["system"][p]}

PassedAt(u, n, v, p) ==
    u.who = "root" /\ u.auto /\ ~u.failed =>
        /\ SystemIn(v, p)
        /\ u.dir = "root" /\ p \notin u.todo => Once(v, p) /\ (n # 0 => Twice(v, p))

Settling(u, n, v) == Settled(n, v) /\ PassSound(u, n, v) /\ PassSettles(u, n, v)

\* A step for p says nothing new of the other plugins.
LEMMA StepSettles ==
    ASSUME NEW t \in Commands, NEW u, NEW w, NEW v, NEW n, NEW p \in Paths, NEW ok \in BOOLEAN,
           t.over = FALSE, t.dir \in {"system", t.who},
           Settled(n, w), Passing(t, n, w, p), PassSettles(t, n, w), OnlyFor(v, w, p),
           Proceeded(u, t, p, ok) \/ MovesOn(u, t, p),
           SettledAt(n, v, p), OpenedAt(t, n, v, p), PassedAt(u, n, v, p)
    PROVE  Settling(u, n, v)
<1>1. t.dir \in Dirs /\ t.who \in Dirs /\ t.who # "system" /\ "system" \in Dirs /\ "root" \in Dirs
  BY DEF Commands, Dirs, Users
<1>2. /\ u \in Commands /\ u.who = t.who /\ u.dir = t.dir /\ u.auto = t.auto /\ u.over = FALSE
      /\ u.loaded = t.loaded /\ u.todo \subseteq t.todo
      /\ p \in u.todo => MovingIs(u, p)
      /\ u.failed = FALSE => t.failed = FALSE
      /\ t.auto => \A q \in t.todo : q # p => q \in u.todo
  <2>1. CASE Proceeded(u, t, p, ok)
    BY <2>1 DEF Proceeded, SameRun, Commands
  <2>2. CASE MovesOn(u, t, p)
    BY <2>2 DEF MovesOn, SameRun, Commands, MovingIs
  <2> QED
    BY <2>1, <2>2
<1>3. ASSUME NEW q \in Paths, q # p
      PROVE  /\ SystemIn(w, q) => SystemIn(v, q)
             /\ Once(w, q) => Once(v, q)
             /\ Twice(w, q) => Twice(v, q)
             /\ v["system"][q] = w["system"][q]
  <2>1. v["system"][q] = w["system"][q] /\ v["root"][q] = w["root"][q]
    BY <1>1, <1>3 DEF OnlyFor
  <2> QED
    BY <2>1 DEF SystemIn, Once, Twice, CurrentIn, Covered
<1>4. Settled(n, v)
  <2>1. ASSUME NEW q \in Paths, n # 0 PROVE SystemIn(v, q) /\ Once(v, q) /\ (n = 2 => Twice(v, q))
    <3>1. CASE q = p
      BY <2>1, <3>1 DEF SettledAt
    <3>2. CASE q # p
      BY <1>3, <2>1, <3>2 DEF Settled
    <3> QED
      BY <3>1, <3>2
  <2>2. n \in 0..2
    BY DEF Settled
  <2> QED
    BY <2>1, <2>2 DEF Settled
<1>5. PassSound(u, n, v)
  <2>1. ASSUME NEW q \in u.todo, ~MovingIs(u, q) PROVE u.loaded[u.dir][q] = NONE
    <3>1. q # p /\ q \in t.todo
      BY <1>2, <2>1
    <3> QED
      BY <1>2, <3>1 DEF Passing
  <2>2. u.dir = "system" => \A q \in Paths : u.loaded[u.who][q] = NONE
    BY <1>2 DEF Passing
  <2>3. ASSUME n # 0, NEW q \in Paths \ RootOnly PROVE u.loaded["system"][q] \in {NONE, v["system"][q]}
    <3>1. CASE q = p
      BY <1>2, <2>3, <3>1 DEF OpenedAt
    <3>2. CASE q # p
      BY <1>2, <1>3, <2>3, <3>2 DEF Passing
    <3> QED
      BY <3>1, <3>2
  <2> QED
    BY <1>2, <2>1, <2>2, <2>3 DEF PassSound
<1>6. PassSettles(u, n, v)
  <2> SUFFICES ASSUME u.who = "root", u.auto, ~u.failed
               PROVE  /\ \A q \in Paths : (u.dir = "system" /\ q \in u.todo) \/ SystemIn(v, q)
                      /\ u.dir = "root" => \A q \in Paths \ u.todo : Once(v, q) /\ (n # 0 => Twice(v, q))
    BY <1>2 DEF PassSettles
  <2>1. t.who = "root" /\ t.auto /\ ~t.failed /\ u.failed = FALSE
    BY <1>2 DEF Commands
  <2>2. ASSUME NEW q \in Paths PROVE (u.dir = "system" /\ q \in u.todo) \/ SystemIn(v, q)
    <3>1. CASE q = p
      BY <3>1 DEF PassedAt
    <3>2. CASE q # p
      BY <1>2, <1>3, <2>1, <3>2 DEF PassSettles
    <3> QED
      BY <3>1, <3>2
  <2>3. ASSUME u.dir = "root", NEW q \in Paths \ u.todo PROVE Once(v, q) /\ (n # 0 => Twice(v, q))
    <3>1. CASE q = p
      BY <2>3, <3>1 DEF PassedAt
    <3>2. CASE q # p
      <4>1. q \notin t.todo
        BY <1>2, <2>1, <2>3, <3>2
      <4>2. Once(w, q) /\ (n # 0 => Twice(w, q))
        BY <1>2, <2>1, <2>3, <4>1 DEF PassSettles
      <4> QED
        BY <1>3, <3>2, <4>2
    <3> QED
      BY <3>1, <3>2
  <2> QED
    BY <2>2, <2>3
<1> QED
  BY <1>4, <1>5, <1>6 DEF Settling

OpenedTrue(t, n, w, p) ==
    /\ t.loaded[t.dir][p] = w[t.dir][p] /\ w[t.dir][p] # NONE
    /\ OpenedAt(t, n, w, p)
    /\ n # 0 /\ p \notin RootOnly /\ Visible(t.who, p) => t.loaded["system"][p] = w["system"][p]

LEMMA OpenedSettles ==
    ASSUME NEW k \in Commands, NEW t, NEW w, NEW n, NEW p \in Paths, k.dir \in {"system", k.who},
           PassSound(k, n, w), PassSettles(k, n, w), OpenedRun(t, k, w, p)
    PROVE  Passing(t, n, w, p) /\ PassSettles(t, n, w) /\ OpenedTrue(t, n, w, p)
<1>1. /\ t \in Commands /\ t.who = k.who /\ t.auto = k.auto /\ t.dir = k.dir /\ t.todo = k.todo
      /\ t.failed = k.failed /\ k.moving = NONE /\ p \in k.todo /\ t.over = FALSE /\ k.over = FALSE
      /\ Opened(t.loaded, k.loaded, w, t.dir, p, Visible(t.who, p)) /\ t.loaded[t.dir][p] # NONE
  BY DEF OpenedRun, SameRun
<1>2. k.dir \in Dirs /\ "system" \in Dirs /\ k.who \in Dirs /\ k.who # "system" /\ k.todo \subseteq Paths
  BY DEF Commands, Dirs, Users
<1>3. \A d \in Dirs, q \in Paths :
         \/ t.loaded[d][q] = k.loaded[d][q]
         \/ q = p /\ d \in {k.dir, "system"} /\ k.loaded[d][q] = NONE /\ t.loaded[d][q] = w[d][q]
  BY <1>1 DEF Opened
<1>4. /\ \A q \in k.todo : k.loaded[k.dir][q] = NONE
      /\ k.dir = "system" => \A q \in Paths : k.loaded[k.who][q] = NONE
      /\ n # 0 => \A q \in Paths \ RootOnly : k.loaded["system"][q] \in {NONE, w["system"][q]}
  BY <1>1 DEF PassSound, MovingIs
<1>5. Passing(t, n, w, p)
  <2>1. \A q \in t.todo \ {p} : t.loaded[t.dir][q] = NONE
    BY <1>1, <1>2, <1>3, <1>4
  <2>2. t.dir = "system" => \A q \in Paths : t.loaded[t.who][q] = NONE
    BY <1>1, <1>2, <1>3, <1>4
  <2>3. n # 0 => \A q \in Paths \ (RootOnly \cup {p}) : t.loaded["system"][q] \in {NONE, w["system"][q]}
    BY <1>2, <1>3, <1>4
  <2> QED
    BY <2>1, <2>2, <2>3 DEF Passing
<1>6. PassSettles(t, n, w)
  BY <1>1 DEF PassSettles
<1>7. t.loaded[t.dir][p] = w[t.dir][p] /\ w[t.dir][p] # NONE
  <2>1. t.loaded[t.dir][p] = IF k.loaded[t.dir][p] # NONE THEN k.loaded[t.dir][p] ELSE w[t.dir][p]
    BY <1>1 DEF Opened
  <2> QED
    BY <1>1, <1>4, <2>1
<1>8. n # 0 /\ p \notin RootOnly => t.loaded["system"][p] \in {NONE, w["system"][p]}
  BY <1>2, <1>3, <1>4
<1>9. Visible(t.who, p) => t.loaded["system"][p] # NONE \/ w["system"][p] = NONE
  BY <1>1 DEF Opened
<1>10. OpenedTrue(t, n, w, p)
  BY <1>7, <1>8, <1>9 DEF OpenedTrue, OpenedAt
<1> QED
  BY <1>5, <1>6, <1>10

\* What the wrappers of p are after a step that changes at most one of them.
LEMMA CoveredIsHad ==
    ASSUME NEW t, NEW n, NEW w, NEW p, OpenedTrue(t, n, w, p), n # 0, Visible(t.who, p),
           SystemIn(w, p), Covered(w, p)
    PROVE  HasBlock(t.loaded, p, TRUE)
  BY DEF OpenedTrue, SystemIn, Covered, CurrentIn, HasBlock

LEMMA SkipSettles ==
    ASSUME WorldSound, NEW t \in Commands, NEW u, NEW w \in WrapperFiles, NEW v, NEW n, NEW p \in Paths,
           t.dir \in {"system", t.who}, Settled(n, w), PassSettles(t, n, w), OpenedTrue(t, n, w, p),
           SkipDone(u, v, t, w, p), t.over = FALSE
    PROVE  SettledAt(n, v, p) /\ OpenedAt(t, n, v, p) /\ PassedAt(u, n, v, p)
<1>1. v = w /\ Proceeded(u, t, p, TRUE) /\ Decided("skip", t, p)
  BY DEF SkipDone
<1>2. t.dir \in Dirs /\ mtime[p] \in Nat
  BY DEF Commands, Dirs, WorldSound
<1>3. /\ Visible(t.who, p) /\ CurrentIn(w, t.dir, p)
      /\ HasBlock(t.loaded, p, TRUE) => t.dir = "system"
  <2>1. /\ Visible(t.who, p) /\ ~(HasBlock(t.loaded, p, TRUE) /\ t.dir # "system")
        /\ ~(mtime[p] > t.loaded[t.dir][p].mtime) /\ t.loaded[t.dir][p].ident = ident
    BY <1>1 DEF Decided
  <2>2. w[t.dir][p] \in NPW_PluginInfo /\ t.loaded[t.dir][p] = w[t.dir][p]
    BY <1>2 DEF OpenedTrue, WrapperFiles
  <2>3. w[t.dir][p].mtime \in Nat
    BY <2>2 DEF NPW_PluginInfo
  <2>4. w[t.dir][p].mtime >= mtime[p]
    BY <1>2, <2>1, <2>2, <2>3
  <2> QED
    BY <2>1, <2>2, <2>4 DEF CurrentIn, Visible
<1>4. SettledAt(n, w, p)
  BY DEF SettledAt, Settled
<1>5. OpenedAt(t, n, w, p)
  BY DEF OpenedTrue
<1>6. ASSUME u.who = "root", u.auto, ~u.failed PROVE SystemIn(w, p)
  <2>1. t.who = "root" /\ t.auto /\ ~t.failed
    BY <1>1, <1>6 DEF Proceeded, SameRun
  <2>2. t.dir = "system" => SystemIn(w, p)
    BY <1>3 DEF SystemIn
  <2> QED
    BY <2>1, <2>2 DEF PassSettles
<1>7. ASSUME u.who = "root", u.auto, ~u.failed, u.dir = "root" PROVE Once(w, p) /\ (n # 0 => Twice(w, p))
  <2>1. t.dir = "root" /\ CurrentIn(w, "root", p) /\ ~HasBlock(t.loaded, p, TRUE)
    BY <1>1, <1>3, <1>7 DEF Proceeded
  <2>2. n # 0 => ~Covered(w, p)
    BY <1>3, <1>6, <1>7, <2>1, CoveredIsHad
  <2> QED
    BY <2>1, <2>2 DEF Once, Twice
<1> QED
  BY <1>1, <1>4, <1>5, <1>6, <1>7 DEF PassedAt

\* The private wrapper goes, or stays; the system's stays.
LEMMA LessIsSettled ==
    ASSUME NEW n, NEW w, NEW v, NEW p \in Paths, Settled(n, w),
           n # 0 /\ p \notin RootOnly => v["system"][p] = w["system"][p],
           v["root"][p] \in {NONE, w["root"][p]} \/ (p \in RootOnly /\ CurrentIn(v, "root", p))
    PROVE  SettledAt(n, v, p)
<1> SUFFICES ASSUME n # 0 PROVE SystemIn(v, p) /\ Once(v, p) /\ (n = 2 => Twice(v, p))
  BY DEF SettledAt
<1>1. SystemIn(w, p) /\ Once(w, p) /\ (n = 2 => Twice(w, p))
  BY DEF Settled
<1>2. SystemIn(v, p) /\ (Covered(v, p) <=> Covered(w, p))
  BY <1>1 DEF SystemIn, CurrentIn, Covered
<1>3. Once(v, p)
  BY <1>1, <1>2 DEF Once, CurrentIn
<1>4. n = 2 => Twice(v, p)
  BY <1>1, <1>2 DEF Twice, CurrentIn, Covered
<1> QED
  BY <1>2, <1>3, <1>4

LEMMA RemoveSettles ==
    ASSUME NEW t \in Commands, NEW u, NEW w, NEW v, NEW n, NEW p \in Paths, NEW ok \in BOOLEAN,
           t.dir \in {"system", t.who}, Settled(n, w), PassSettles(t, n, w), OpenedTrue(t, n, w, p),
           Decided("remove", t, p), Cleared(ok, v, t, w, p), Proceeded(u, t, p, ok), OnlyAt(v, w, t.dir, p),
           IF ok THEN v[t.dir][p] = NONE ELSE v = w, t.over = FALSE
    PROVE  SettledAt(n, v, p) /\ OpenedAt(t, n, v, p) /\ PassedAt(u, n, v, p)
<1>1. t.dir \in Dirs /\ "system" \in Dirs /\ "root" \in Dirs
  BY DEF Commands, Dirs
<1>2. ~Visible(t.who, p) \/ t.dir # "system"
  BY DEF Decided
<1>3. ASSUME n # 0, p \notin RootOnly PROVE v["system"][p] = w["system"][p]
  <2>1. t.dir # "system"
    <3>1. ASSUME t.dir = "system" PROVE FALSE
      <4>1. CurrentIn(w, "system", p)
        BY <1>3, <3>1 DEF Settled, SystemIn, OpenedTrue
      <4> QED
        BY <1>2, <1>3, <3>1, <4>1 DEF CurrentIn, Visible
    <3> QED
      BY <3>1
  <2> QED
    BY <1>1, <2>1 DEF OnlyAt
<1>4. v["root"][p] \in {NONE, w["root"][p]}
  BY <1>1 DEF OnlyAt
<1>5. SettledAt(n, v, p)
  BY <1>3, <1>4, LessIsSettled
<1>6. OpenedAt(t, n, v, p)
  BY <1>3 DEF OpenedTrue, OpenedAt
<1>7. ASSUME u.who = "root", u.auto, ~u.failed
      PROVE  SystemIn(v, p) /\ (u.dir = "root" => Once(v, p) /\ Twice(v, p))
  <2>1. t.who = "root" /\ t.auto /\ ~t.failed /\ u.dir = t.dir
    BY <1>7 DEF Proceeded, SameRun
  <2>2. v[t.dir][p] = NONE
    BY <2>1 DEF Cleared, Writable
  <2>3. t.dir # "system" => v["system"][p] = w["system"][p] /\ SystemIn(w, p)
    BY <1>1, <2>1 DEF OnlyAt, PassSettles
  <2>4. SystemIn(v, p)
    BY <2>2, <2>3 DEF SystemIn, CurrentIn
  <2> QED
    BY <2>1, <2>2, <2>4 DEF Once, Twice
<1> QED
  BY <1>5, <1>6, <1>7 DEF PassedAt

LEMMA MoveSettles ==
    ASSUME NEW t \in Commands, NEW u, NEW w, NEW v, NEW n, NEW p \in Paths, NEW ok \in BOOLEAN,
           Settled(n, w), p \in t.todo, p \in RootOnly, t.dir \in Dirs, OnlyAt(v, w, t.dir, p),
           IF ok THEN v[t.dir][p] = NONE ELSE v = w,
           MovesOn(u, t, p) \/ Proceeded(u, t, p, FALSE)
    PROVE  SettledAt(n, v, p) /\ OpenedAt(t, n, v, p) /\ PassedAt(u, n, v, p)
<1>1. v["root"][p] \in {NONE, w["root"][p]}
  BY DEF OnlyAt, Dirs
<1>2. SettledAt(n, v, p)
  BY <1>1, LessIsSettled
<1>3. u.failed \/ p \in u.todo
  BY DEF MovesOn, Proceeded
<1> QED
  BY <1>2, <1>3 DEF OpenedAt, PassedAt, SystemIn

\* A wrapper that was just made is current.
LEMMA FreshIsCurrent ==
    ASSUME WorldSound, NEW t, NEW w, FilesSound(w), NEW v, NEW p \in Paths, NEW dir \in Dirs,
           dir = "system" => p \notin RootOnly, InstalledIn(v, t, w, p, dir)
    PROVE  /\ OnlyAt(v, w, dir, p) /\ v[dir][p] # NONE
           /\ v[dir][p].mtime = mtime[p] /\ CurrentIn(v, dir, p)
<1>1. /\ OnlyAt(v, w, dir, p) /\ v[dir][p] # NONE /\ v[dir][p].mtime = mtime[p] /\ v[dir][p].ident = ident
  BY FilesInstalled
<1>2. mtime[p] # 0 /\ mtime[p] \in Nat
  BY DEF InstalledIn, Visible, WorldSound
<1> QED
  BY <1>1, <1>2 DEF CurrentIn

\* Where an installation puts the wrapper, if anywhere.
LEMMA WhereInstalled ==
    ASSUME WorldSound, NEW t \in Commands, NEW w, FilesSound(w), NEW r, NEW p \in Paths,
           InstallOutcome(r, t, w, p)
    PROVE  \/ ~r.ok /\ r.files = w
           \/ /\ r.files = w /\ Visible(t.who, p) /\ has_system_wide_wrapper_plugin(t.loaded, w, p, TRUE)
           \/ /\ p \notin RootOnly /\ t.who = "root" /\ OnlyAt(r.files, w, "system", p)
              /\ Covered(r.files, p) /\ CurrentIn(r.files, "system", p)
           \/ /\ p \in RootOnly \/ t.who # "root"
              /\ OnlyAt(r.files, w, t.who, p) /\ CurrentIn(r.files, t.who, p)
<1>1. "system" \in Dirs /\ t.who \in Dirs /\ t.who # "system"
  BY DEF Commands, Dirs, Users
<1>2. Outcome(r, t, w, p)
  BY Zenon DEF InstallOutcome
<1>3. CASE p \notin RootOnly /\ InstalledIn(r.files, t, w, p, "system")
  <2>1. t.who = "root"
    BY <1>3 DEF InstalledIn, Writable
  <2>2. /\ OnlyAt(r.files, w, "system", p) /\ r.files["system"][p] # NONE
        /\ r.files["system"][p].mtime = mtime[p] /\ CurrentIn(r.files, "system", p)
    BY <1>1, <1>3, FreshIsCurrent
  <2> QED
    BY <1>3, <2>1, <2>2 DEF Covered
<1>4. CASE (p \in RootOnly \/ t.who # "root") /\ InstalledIn(r.files, t, w, p, t.who)
  <2>1. OnlyAt(r.files, w, t.who, p) /\ CurrentIn(r.files, t.who, p)
    BY <1>1, <1>4, FreshIsCurrent
  <2> QED
    BY <1>4, <2>1
<1> QED
  BY <1>2, <1>3, <1>4, Zenon DEF Outcome

LEMMA InstallSettles ==
    ASSUME WorldSound, NEW t \in Commands, NEW u, NEW w \in WrapperFiles, NEW v, NEW n, NEW p \in Paths, NEW r,
           FilesSound(w), t.dir \in {"system", t.who},
           Settled(n, w), PassSettles(t, n, w), OpenedTrue(t, n, w, p), Decided("install", t, p),
           p \in RootOnly => ~has_system_wide_wrapper_plugin(t.loaded, w, p, TRUE),
           has_system_wide_wrapper_plugin(t.loaded, w, p, TRUE) => HasBlock(t.loaded, p, TRUE),
           InstallOutcome(r, t, w, p), v = r.files, Proceeded(u, t, p, r.ok), t.over = FALSE
    PROVE  SettledAt(n, v, p) /\ OpenedAt(t, n, v, p) /\ PassedAt(u, n, v, p)
<1>1. t.dir \in Dirs /\ "system" \in Dirs /\ "root" \in Dirs /\ t.who \in Dirs /\ t.who # "system"
  BY DEF Commands, Dirs, Users
<1>2. /\ Visible(t.who, p) /\ (HasBlock(t.loaded, p, TRUE) => t.dir = "system") /\ ~CurrentIn(w, t.dir, p)
  <2>1. /\ Visible(t.who, p) /\ ~(HasBlock(t.loaded, p, TRUE) /\ t.dir # "system")
        /\ mtime[p] > t.loaded[t.dir][p].mtime \/ t.loaded[t.dir][p].ident # ident
    BY DEF Decided
  <2>2. w[t.dir][p] \in NPW_PluginInfo /\ t.loaded[t.dir][p] = w[t.dir][p]
    BY <1>1 DEF OpenedTrue, WrapperFiles
  <2>3. w[t.dir][p].mtime \in Nat /\ mtime[p] \in Nat
    BY <2>2 DEF NPW_PluginInfo, WorldSound
  <2>4. mtime[p] > w[t.dir][p].mtime \/ w[t.dir][p].ident # ident
    BY <2>1, <2>2
  <2>5. ~CurrentIn(w, t.dir, p)
    BY <2>3, <2>4 DEF CurrentIn
  <2> QED
    BY <2>1, <2>5
<1>3. HasBlock(t.loaded, p, TRUE) => FALSE
  <2> SUFFICES ASSUME HasBlock(t.loaded, p, TRUE) PROVE FALSE
    OBVIOUS
  <2>1. t.dir = "system" /\ t.loaded["system"][p] = w["system"][p]
    BY <1>2 DEF OpenedTrue
  <2>2. w["system"][p].ident = ident /\ w["system"][p].mtime = mtime[p] /\ mtime[p] # 0 /\ mtime[p] \in Nat
    BY <1>2, <2>1 DEF HasBlock, Visible, WorldSound
  <2> QED
    BY <1>2, <2>1, <2>2 DEF CurrentIn
<1>4. \/ ~r.ok /\ v = w
      \/ /\ p \notin RootOnly /\ t.who = "root" /\ OnlyAt(v, w, "system", p)
         /\ Covered(v, p) /\ CurrentIn(v, "system", p)
      \/ /\ p \in RootOnly \/ t.who # "root"
         /\ OnlyAt(v, w, t.who, p) /\ CurrentIn(v, t.who, p)
  BY <1>3, WhereInstalled
\* Root never installs a wrapper in a settled system's directory.
<1>5. ASSUME n # 0, p \notin RootOnly, t.who = "root" PROVE FALSE
  <2>1. SystemIn(w, p) /\ Once(w, p)
    BY <1>5 DEF Settled
  <2>2. t.dir = "root"
    BY <1>2, <1>5, <2>1 DEF SystemIn, OpenedTrue
  <2>3. Covered(w, p)
    BY <1>2, <2>1, <2>2 DEF Once, OpenedTrue
  <2> QED
    BY <1>2, <1>3, <1>5, <2>1, <2>3, CoveredIsHad
<1>6. n # 0 /\ p \notin RootOnly => v["system"][p] = w["system"][p]
  BY <1>1, <1>4, <1>5 DEF OnlyAt
<1>7. v["root"][p] \in {NONE, w["root"][p]} \/ (p \in RootOnly /\ CurrentIn(v, "root", p))
  BY <1>1, <1>4 DEF OnlyAt
<1>8. SettledAt(n, v, p)
  BY <1>6, <1>7, LessIsSettled
<1>9. OpenedAt(t, n, v, p)
  BY <1>6 DEF OpenedTrue, OpenedAt
<1>10. ASSUME u.who = "root", u.auto, ~u.failed
       PROVE  SystemIn(v, p) /\ (u.dir = "root" => Once(v, p) /\ (n # 0 => Twice(v, p)))
  <2>1. t.who = "root" /\ t.auto /\ ~t.failed /\ u.dir = t.dir /\ r.ok
    BY <1>10 DEF Proceeded, SameRun
  <2>2. CASE p \notin RootOnly
    <3>1. Covered(v, p) /\ CurrentIn(v, "system", p) /\ n = 0
      BY <1>4, <1>5, <2>1, <2>2
    <3> QED
      BY <3>1 DEF SystemIn, Once
  <2>3. CASE p \in RootOnly
    <3>1. CurrentIn(v, "root", p)
      BY <1>4, <2>1, <2>3
    <3> QED
      BY <2>3, <3>1 DEF SystemIn, Once, Twice, Covered
  <2> QED
    BY <2>2, <2>3
<1> QED
  BY <1>8, <1>9, <1>10 DEF PassedAt

LEMMA UpdateSettles ==
    ASSUME WorldSound, NEW t, NEW u, NEW w, NEW v, NEW n, NEW b, NEW p \in Paths,
           FilesSound(w), RunInv(t, w, b), p \in t.todo, t.moving = NONE, t.over = FALSE,
           Visible(t.who, p) => t.loaded["system"][p] # NONE \/ w["system"][p] = NONE,
           Settled(n, w), Passing(t, n, w, p), PassSettles(t, n, w), OpenedTrue(t, n, w, p),
           UpdateDone(u, v, t, w, p)
    PROVE  Settling(u, n, v)
<1>1. /\ t \in Commands /\ OldSystem(t.loaded) /\ t.dir \in {"system", t.who}
      /\ t.loaded \in WrapperFiles /\ w \in WrapperFiles /\ OldSystem(w)
  BY DEF RunInv, RunSound, FilesSound
<1>2. t.dir \in Dirs /\ t.who \in Users
  BY <1>1 DEF Commands
<1> DEFINE Placed == SettledAt(n, v, p) /\ OpenedAt(t, n, v, p) /\ PassedAt(u, n, v, p)
<1>3. CASE SkipDone(u, v, t, w, p)
  <2>1. Placed
    BY <1>1, <1>3, SkipSettles
  <2>2. OnlyFor(v, w, p) /\ Proceeded(u, t, p, TRUE)
    BY <1>3 DEF SkipDone, OnlyFor
  <2> QED
    BY <1>1, <2>1, <2>2, StepSettles
<1>4. CASE RemoveDone(u, v, t, w, p)
  <2>1. PICK ok \in BOOLEAN : Cleared(ok, v, t, w, p) /\ Proceeded(u, t, p, ok)
    BY <1>4, Zenon DEF RemoveDone
  <2>2. OnlyAt(v, w, t.dir, p) /\ IF ok THEN v[t.dir][p] = NONE ELSE v = w
    BY <1>2, <2>1, FilesCleared
  <2>3. Decided("remove", t, p)
    BY <1>4 DEF RemoveDone
  <2>4. Placed
    BY <1>1, <2>1, <2>2, <2>3, RemoveSettles
  <2>5. OnlyFor(v, w, p)
    BY <2>2 DEF OnlyAt, OnlyFor
  <2> QED
    BY <1>1, <2>1, <2>4, <2>5, StepSettles
<1>5. CASE MoveDone(u, v, t, w, p)
  <2>1. PICK ok \in BOOLEAN : /\ Cleared(ok, v, t, w, p)
                              /\ MovesOn(u, t, p) \/ Proceeded(u, t, p, FALSE)
    BY <1>5, Zenon DEF MoveDone
  <2>2. OnlyAt(v, w, t.dir, p) /\ IF ok THEN v[t.dir][p] = NONE ELSE v = w
    BY <1>2, <2>1, FilesCleared
  <2>3. p \in RootOnly
    BY <1>5 DEF MoveDone, Decided
  <2>4. Placed
    BY <1>1, <1>2, <2>1, <2>2, <2>3, MoveSettles
  <2>5. OnlyFor(v, w, p)
    BY <2>2 DEF OnlyAt, OnlyFor
  <2> QED
    BY <1>1, <2>1, <2>4, <2>5, StepSettles
<1>6. CASE InstallDone(u, v, t, w, p)
  <2>1. PICK r : InstallOutcome(r, t, w, p) /\ v = r.files /\ Proceeded(u, t, p, r.ok)
    BY <1>6, Zenon DEF InstallDone
  <2>2. Decided("install", t, p)
    BY <1>6 DEF InstallDone
  <2>3. p \in RootOnly => ~has_system_wide_wrapper_plugin(t.loaded, w, p, TRUE)
    BY <1>1, OldIsNotHad
  <2>4. Visible(t.who, p)
    BY <2>2 DEF Decided
  <2>5. has_system_wide_wrapper_plugin(t.loaded, w, p, TRUE) => HasBlock(t.loaded, p, TRUE)
    BY <1>1, <2>4, HasSystemWide
  <2>6. Placed
    BY <1>1, <2>1, <2>2, <2>3, <2>5, InstallSettles
  <2>7. OnlyFor(v, w, p)
    BY <1>2, <2>1, InstallLeaves DEF InstallEffect
  <2>8. r.ok \in BOOLEAN
    BY <2>1, Zenon DEF InstallOutcome
  <2> QED
    BY <1>1, <2>1, <2>6, <2>7, <2>8, StepSettles
<1> QED
  BY <1>3, <1>4, <1>5, <1>6, Zenon DEF UpdateDone

\* What the user sees does not change in a step of the tool.
LEMMA SettledAfter ==
    ASSUME mtime' = mtime, ident' = ident, tool' # NONE, tool'.cmd = "update",
           Settling(tool', settled', wrapper')
    PROVE  SettledInv'
<1>1. /\ (Settled(settled, wrapper))' <=> Settled(settled', wrapper')
      /\ (PassSettles(tool, settled, wrapper))' <=> PassSettles(tool', settled', wrapper')
  BY DEF Settled, PassSettles, SystemIn, Once, Twice, CurrentIn, Covered
<1>2. (PassSound(tool, settled, wrapper))' <=> PassSound(tool', settled', wrapper')
  BY DEF PassSound
<1> QED
  BY <1>1, <1>2 DEF SettledInv, Settling

LEMMA NothingSettled ==
    ASSUME settled' = 0, tool' = NONE \/ tool'.cmd # "update"
    PROVE  SettledInv'
  BY DEF SettledInv, Settled

LEMMA SettledFacts ==
    ASSUME InstallerInv, SettledInv, tool # NONE
    PROVE  /\ WorldSound /\ FilesSound(wrapper) /\ RunInv(tool, wrapper, before)
           /\ tool \in Commands /\ tool.dir \in {"system", tool.who} /\ Settled(settled, wrapper)
           /\ tool.cmd = "update" => PassSound(tool, settled, wrapper) /\ PassSettles(tool, settled, wrapper)
           /\ tool.cmd # "update" => settled = 0
  BY DEF InstallerInv, SettledInv, RunInv, RunSound, FilesSound

LEMMA UpdateOneSettles ==
    ASSUME InstallerInv, SettledInv, NEW p \in Paths, UpdateOne(p)
    PROVE  SettledInv'
<1>1. tool # NONE /\ tool.cmd = "update" /\ settled' = settled /\ mtime' = mtime /\ ident' = ident
  BY DEF UpdateOne, InProgress, world
<1>2. /\ WorldSound /\ FilesSound(wrapper) /\ RunInv(tool, wrapper, before)
      /\ tool \in Commands /\ tool.dir \in {"system", tool.who} /\ Settled(settled, wrapper)
      /\ PassSound(tool, settled, wrapper) /\ PassSettles(tool, settled, wrapper)
  BY <1>1, SettledFacts
<1>3. PICK t : OpenedRun(t, tool, wrapper, p) /\ UpdateDone(tool', wrapper', t, wrapper, p)
  BY Updates
<1>4. RunInv(t, wrapper, before)
  BY <1>2, <1>3, OpenedInv
<1>5. /\ p \in t.todo /\ t.moving = NONE /\ t.over = FALSE /\ t.cmd = "update"
      /\ Visible(t.who, p) => t.loaded["system"][p] # NONE \/ wrapper["system"][p] = NONE
  BY <1>3 DEF OpenedRun, Opened
<1>6. Passing(t, settled, wrapper, p) /\ PassSettles(t, settled, wrapper) /\ OpenedTrue(t, settled, wrapper, p)
  BY <1>2, <1>3, OpenedSettles
<1>7. Settling(tool', settled, wrapper')
  BY <1>2, <1>3, <1>4, <1>5, <1>6, UpdateSettles
<1>8. tool'.cmd = "update" /\ tool' \in Commands
  BY <1>3, <1>5 DEF UpdateDone, SkipDone, RemoveDone, MoveDone, InstallDone, MovesOn, Proceeded, SameRun
<1>9. CASE tool' # NONE
  BY <1>1, <1>7, <1>8, <1>9, SettledAfter
<1>10. CASE tool' = NONE
  <2>1. (Settled(settled, wrapper))' <=> Settled(settled', wrapper')
    BY <1>1 DEF Settled, SystemIn, Once, Twice, CurrentIn, Covered
  <2> QED
    BY <1>1, <1>7, <1>10, <2>1 DEF SettledInv, Settling
<1> QED
  BY <1>9, <1>10

LEMMA ReinstallSettles ==
    ASSUME InstallerInv, SettledInv, Reinstall
    PROVE  SettledInv'
<1> DEFINE p == tool.moving.p
           info == tool.moving.info
           r == install_plugin(tool, wrapper, p, info)
<1>1. /\ tool # NONE /\ tool.over = FALSE /\ tool.cmd = "update" /\ tool.moving # NONE
      /\ wrapper' = r.files /\ Proceed(tool, p, r.ok)
      /\ settled' = settled /\ mtime' = mtime /\ ident' = ident
  BY SettledFacts DEF Reinstall, InProgress, world, Commands
<1>2. /\ WorldSound /\ FilesSound(wrapper) /\ RunInv(tool, wrapper, before)
      /\ tool \in Commands /\ tool.dir \in {"system", tool.who} /\ Settled(settled, wrapper)
      /\ PassSound(tool, settled, wrapper) /\ PassSettles(tool, settled, wrapper)
  BY <1>1, SettledFacts
<1>3. /\ OldSystem(tool.loaded) /\ OldSystem(wrapper) /\ MoveSound(tool)
      /\ tool.loaded \in WrapperFiles /\ wrapper \in WrapperFiles /\ tool.who \in Users /\ tool.dir \in Dirs
  BY <1>1, <1>2 DEF RunInv, RunSound, FilesSound, Commands
<1>4. /\ p \in Paths /\ info \in NPW_PluginInfo /\ (info.viewer # NONE => Served(info.viewer, tool, p))
      /\ p \in RootOnly /\ p \in tool.todo /\ Visible(tool.who, p)
  BY <1>1, <1>2, <1>3 DEF MoveSound, Commands, MovedWrapper, Served
<1>5. InstallOutcome(r, tool, wrapper, p)
  BY <1>2, <1>4, Installs
<1>6. \A q : MovingIs(tool, q) => q = p
  BY DEF MovingIs
<1> HIDE DEF r, p, info
<1>7. tool.who = "root" /\ "root" \in Dirs /\ "system" \in Dirs
  BY <1>3, <1>4 DEF Visible, Users, Dirs
<1>8. r.ok \in BOOLEAN
  BY <1>5, Zenon DEF InstallOutcome
<1>9. Proceeded(tool', tool, p, r.ok)
  BY <1>1, <1>2, <1>4, <1>8, Proceeds
<1>10. OnlyFor(wrapper', wrapper, p)
  BY <1>1, <1>2, <1>3, <1>4, <1>5, InstallLeaves DEF InstallEffect
<1>11. \/ ~r.ok /\ wrapper' = wrapper
       \/ OnlyAt(wrapper', wrapper, "root", p) /\ CurrentIn(wrapper', "root", p)
  <2>1. ~has_system_wide_wrapper_plugin(tool.loaded, wrapper, p, TRUE)
    BY <1>2, <1>3, <1>4, OldIsNotHad
  <2> QED
    BY <1>1, <1>2, <1>4, <1>5, <1>7, <2>1, WhereInstalled
<1>12. SettledAt(settled, wrapper', p)
  BY <1>2, <1>4, <1>7, <1>11, LessIsSettled
<1>13. OpenedAt(tool, settled, wrapper', p) /\ PassedAt(tool', settled, wrapper', p)
  BY <1>4, <1>9, <1>11 DEF OpenedAt, PassedAt, Proceeded, SystemIn, Once, Twice, Covered
<1>14. Passing(tool, settled, wrapper, p)
  BY <1>1, <1>2, <1>6 DEF PassSound, Passing
<1>15. Settling(tool', settled, wrapper')
  BY <1>1, <1>2, <1>4, <1>8, <1>9, <1>10, <1>12, <1>13, <1>14, StepSettles
<1>16. tool'.cmd = "update"
  BY <1>1, <1>9 DEF Proceeded, SameRun
<1>17. CASE tool' # NONE
  BY <1>1, <1>15, <1>16, <1>17, SettledAfter
<1>18. CASE tool' = NONE
  <2>1. (Settled(settled, wrapper))' <=> Settled(settled', wrapper')
    BY <1>1 DEF Settled, SystemIn, Once, Twice, CurrentIn, Covered
  <2> QED
    BY <1>1, <1>15, <1>18, <2>1 DEF SettledInv, Settling
<1> QED
  BY <1>17, <1>18

LEMMA BeginSettles ==
    ASSUME InstallerInv, SettledInv, NEW who \in Users, NEW cmd \in {"install", "update", "remove"},
           NEW auto \in BOOLEAN, NEW native \in BOOLEAN, Begin(who, cmd, auto, native)
    PROVE  SettledInv'
<1> DEFINE Dir == IF auto \/ cmd = "install" THEN {"system"} ELSE {"system", who}
           All(d) == IF cmd = "install" THEN Paths ELSE {p \in Paths : wrapper[d][p] # NONE}
<1> DEFINE OpensWith(dir, todo) ==
              tool' = [cmd |-> cmd, over |-> FALSE, who |-> who, auto |-> auto, native |-> native, dir |-> dir,
                       todo |-> todo, moving |-> NONE, failed |-> FALSE, loaded |-> NothingLoaded]
<1>0. PICK dir \in Dir : \E todo \in IF auto THEN {All(dir)} ELSE SUBSET All(dir) : OpensWith(dir, todo)
  BY DEF Begin, get_user_mozilla_plugin_dir
<1>1. PICK todo \in IF auto THEN {All(dir)} ELSE SUBSET All(dir) : OpensWith(dir, todo)
  BY <1>0
<1>2. /\ mtime' = mtime /\ ident' = ident /\ wrapper' = wrapper
      /\ settled' = IF cmd = "update" THEN settled ELSE 0
  BY DEF Begin, world
<1>3. dir \in {"system", who} /\ dir \in Dirs /\ who \in Dirs /\ "system" \in Dirs /\ who # "system"
      /\ (auto => dir = "system")
  BY <1>1 DEF Dirs, Users
<1>4. todo \subseteq Paths /\ (auto => todo = All(dir))
  BY <1>1
<1>5. \A d \in Dirs, p \in Paths : NothingLoaded[d][p] = NONE
  BY NothingIsSound
<1>6. /\ tool'.cmd = cmd /\ tool'.over = FALSE /\ tool'.who = who /\ tool'.dir = dir /\ tool'.auto = auto
      /\ tool'.todo = todo /\ tool'.moving = NONE /\ tool'.failed = FALSE /\ tool'.loaded = NothingLoaded
  BY <1>1
<1> HIDE DEF Dir
<1>7. CASE cmd # "update"
  BY <1>2, <1>6, <1>7, NothingSettled
<1>8. CASE cmd = "update"
  <2>1. Settled(settled, wrapper)
    BY DEF SettledInv
  <2>2. PassSound(tool', settled, wrapper)
    BY <1>3, <1>4, <1>5, <1>6 DEF PassSound
  <2>3. PassSettles(tool', settled, wrapper)
    BY <1>3, <1>4, <1>6, <1>8 DEF PassSettles, SystemIn
  <2>4. Settling(tool', settled', wrapper')
    BY <1>2, <1>8, <2>1, <2>2, <2>3 DEF Settling
  <2>5. CASE tool' # NONE
    BY <1>2, <1>6, <1>8, <2>4, <2>5, SettledAfter
  <2>6. CASE tool' = NONE
    <3>1. (Settled(settled, wrapper))' <=> Settled(settled', wrapper')
      BY <1>2 DEF Settled, SystemIn, Once, Twice, CurrentIn, Covered
    <3> QED
      BY <2>4, <2>6, <3>1 DEF SettledInv, Settling
  <2> QED
    BY <2>5, <2>6
<1> QED
  BY <1>7, <1>8

LEMMA EndOfDirSettles ==
    ASSUME InstallerInv, SettledInv, EndOfDir
    PROVE  SettledInv'
<1> DEFINE todo == {p \in Paths : wrapper[tool.who][p] # NONE}
           more == tool.auto /\ tool.dir = "system" /\ tool.cmd # "install"
           done == tool.cmd = "update" /\ tool.auto /\ tool.who = "root" /\ ~tool.failed /\ settled < 2
<1>1. /\ tool # NONE /\ ~tool.over /\ tool.todo = {}
      /\ \/ more /\ tool' = [tool EXCEPT !.dir = tool.who, !.todo = todo] /\ settled' = settled
         \/ /\ ~more /\ tool' = [tool EXCEPT !.over = TRUE]
            /\ settled' = IF done THEN settled + 1 ELSE settled
  BY DEF EndOfDir, get_mozilla_plugin_dirs, get_user_mozilla_plugin_dir
<1> HIDE DEF todo
<1>2. mtime' = mtime /\ ident' = ident /\ wrapper' = wrapper
  BY DEF EndOfDir, world
<1>3. /\ tool \in Commands /\ tool.dir \in {"system", tool.who} /\ Settled(settled, wrapper)
      /\ tool.cmd = "update" => PassSound(tool, settled, wrapper) /\ PassSettles(tool, settled, wrapper)
      /\ tool.cmd # "update" => settled = 0
  BY <1>1, SettledFacts
<1>4. settled \in 0..2 /\ tool.who # "system" /\ todo \in SUBSET Paths /\ tool.who \in Dirs
  BY <1>3 DEF Settled, Commands, Users, Dirs, todo
<1>5. CASE tool.cmd # "update"
  <2>1. tool'.cmd = tool.cmd
    BY <1>1, <1>3 DEF Commands
  <2>2. settled' = 0
    BY <1>1, <1>3, <1>5
  <2> QED
    BY <1>5, <2>1, <2>2, NothingSettled
<1>6. CASE tool.cmd = "update" /\ more /\ tool' = [tool EXCEPT !.dir = tool.who, !.todo = todo] /\ settled' = settled
  <2>1. /\ tool'.cmd = tool.cmd /\ tool'.who = tool.who /\ tool'.auto = tool.auto /\ tool'.failed = tool.failed
        /\ tool'.over = tool.over /\ tool'.dir = tool.who /\ tool'.todo = todo /\ tool'.loaded = tool.loaded
        /\ tool'.moving = tool.moving
    BY <1>3, <1>6 DEF Commands
  <2>2. PassSound(tool', settled, wrapper)
    BY <1>1, <1>3, <1>4, <1>6, <2>1 DEF PassSound
  <2>3. PassSettles(tool', settled, wrapper)
    BY <1>1, <1>3, <1>4, <1>6, <2>1 DEF PassSettles, Once, Twice, todo
  <2>4. Settling(tool', settled', wrapper')
    BY <1>2, <1>3, <1>6, <2>2, <2>3 DEF Settling
  <2>5. CASE tool' # NONE
    BY <1>2, <1>6, <2>1, <2>4, <2>5, SettledAfter
  <2>6. CASE tool' = NONE
    <3>1. (Settled(settled, wrapper))' <=> Settled(settled', wrapper')
      BY <1>2 DEF Settled, SystemIn, Once, Twice, CurrentIn, Covered
    <3> QED
      BY <2>4, <2>6, <3>1 DEF SettledInv, Settling
  <2> QED
    BY <2>5, <2>6
<1>7. CASE /\ tool.cmd = "update" /\ ~more /\ tool' = [tool EXCEPT !.over = TRUE]
           /\ settled' = IF done THEN settled + 1 ELSE settled
  <2>1. /\ tool'.cmd = tool.cmd /\ tool'.who = tool.who /\ tool'.auto = tool.auto /\ tool'.failed = tool.failed
        /\ tool'.over = TRUE /\ tool'.dir = tool.dir /\ tool'.todo = {} /\ tool'.loaded = tool.loaded
        /\ tool'.moving = tool.moving
    BY <1>1, <1>3, <1>7 DEF Commands
  <2>2. tool.auto => tool.dir = tool.who
    BY <1>3, <1>7
  <2>3. PassSound(tool', settled', wrapper)
    BY <1>1, <1>3, <1>4, <1>7, <2>1, <2>2 DEF PassSound
  <2>4. ASSUME tool.who = "root", tool.auto, ~tool.failed
        PROVE  /\ \A p \in Paths : SystemIn(wrapper, p) /\ Once(wrapper, p)
               /\ settled # 0 => \A p \in Paths : Twice(wrapper, p)
    BY <1>1, <1>3, <1>7, <2>2, <2>4 DEF PassSettles
  <2>5. PassSettles(tool', settled', wrapper)
    BY <2>1, <2>4 DEF PassSettles
  <2>6. Settled(settled', wrapper)
    <3>1. CASE done
      <4>1. settled' = settled + 1 /\ settled' \in 0..2 /\ (settled' = 2 => settled # 0)
        BY <1>4, <1>7, <3>1
      <4> QED
        BY <2>4, <3>1, <4>1 DEF Settled
    <3>2. CASE ~done
      BY <1>3, <1>7, <3>2
    <3> QED
      BY <3>1, <3>2
  <2>7. Settling(tool', settled', wrapper')
    BY <1>2, <2>3, <2>5, <2>6 DEF Settling
  <2>8. CASE tool' # NONE
    BY <1>2, <1>7, <2>1, <2>7, <2>8, SettledAfter
  <2>9. CASE tool' = NONE
    <3>1. (Settled(settled, wrapper))' <=> Settled(settled', wrapper')
      BY <1>2 DEF Settled, SystemIn, Once, Twice, CurrentIn, Covered
    <3> QED
      BY <2>7, <2>9, <3>1 DEF SettledInv, Settling
  <2> QED
    BY <2>8, <2>9
<1> QED
  BY <1>1, <1>5, <1>6, <1>7

LEMMA OtherSettles ==
    ASSUME InstallerInv, SettledInv,
           \/ Exit \/ Killed \/ Upgrade \/ ViewersChange
           \/ \E p \in Paths : InstallOne(p) \/ RemoveOne(p) \/ PluginChanges(p)
    PROVE  SettledInv'
<1>1. CASE Exit
  <2>1. /\ tool' = NONE /\ settled' = settled /\ wrapper' = wrapper /\ mtime' = mtime /\ ident' = ident
    BY <1>1 DEF Exit, world
  <2> QED
    BY <2>1 DEF SettledInv, Settled, SystemIn, Once, Twice, CurrentIn, Covered
<1>2. CASE Killed
  BY <1>2, NothingSettled DEF Killed
<1>3. CASE Upgrade \/ ViewersChange
  BY <1>3, NothingSettled DEF Upgrade, ViewersChange, WorldChanges
<1>4. ASSUME NEW p \in Paths, PluginChanges(p) PROVE SettledInv'
  BY <1>4, NothingSettled DEF PluginChanges, WorldChanges
<1>5. ASSUME NEW p \in Paths, InstallOne(p) PROVE SettledInv'
  <2>1. tool # NONE /\ tool.cmd # "update" /\ settled' = settled
    BY <1>5 DEF InstallOne, InProgress
  <2>2. settled' = 0 /\ tool \in Commands
    BY <2>1, SettledFacts
  <2>3. tool'.cmd = tool.cmd
    BY <1>5, <2>2, Zenon DEF InstallOne, Proceed, Commands
  <2> QED
    BY <2>1, <2>2, <2>3, NothingSettled
<1>6. ASSUME NEW p \in Paths, RemoveOne(p) PROVE SettledInv'
  <2>1. tool # NONE /\ tool.cmd # "update" /\ settled' = settled
    BY <1>6 DEF RemoveOne, InProgress
  <2>2. settled' = 0 /\ tool \in Commands
    BY <2>1, SettledFacts
  <2>3. tool'.cmd = tool.cmd
    BY <1>6, <2>2 DEF RemoveOne, Proceed, Commands
  <2> QED
    BY <2>1, <2>2, <2>3, NothingSettled
<1> QED
  BY <1>1, <1>2, <1>3, <1>4, <1>5, <1>6

LEMMA SettledNextInv ==
    ASSUME InstallerInv, SettledInv, [InstallerNext]_installerVars
    PROVE  SettledInv'
<1>1. CASE UNCHANGED installerVars
  <2>1. /\ mtime' = mtime /\ ident' = ident /\ wrapper' = wrapper /\ tool' = tool /\ settled' = settled
    BY <1>1 DEF installerVars
  <2> QED
    BY <2>1 DEF SettledInv, Settled, PassSound, PassSettles, SystemIn, Once, Twice, CurrentIn, Covered
<1>2. CASE InstallerNext
  BY <1>2, BeginSettles, UpdateOneSettles, ReinstallSettles, EndOfDirSettles, OtherSettles, Zenon
     DEF InstallerNext
<1> QED
  BY <1>1, <1>2

\* Two complete updates by root (auto_update_plugins) leave nothing for a
\* third: every wrapper of the system and of root is current, and no plugin
\* has one in both places, for any number of plugins.
THEOREM RootUpdatesSettle == InstallerSpec => []UpdatesSettle
<1>1. InstallerInit => InstallerInv
  BY InstallerInitInv
<1>2. InstallerInit => SettledInv
  BY DEF InstallerInit, SettledInv, Settled
<1>3. InstallerInv /\ [InstallerNext]_installerVars => InstallerInv'
  BY InstallerNextInv
<1>4. InstallerInv /\ SettledInv /\ [InstallerNext]_installerVars => SettledInv'
  BY SettledNextInv
<1>5. SettledInv => UpdatesSettle
  BY DEF SettledInv, Settled, UpdatesSettle, SystemIn, Once, Twice, CurrentIn, Covered, Current
<1> QED
  BY <1>1, <1>2, <1>3, <1>4, <1>5, PTL DEF InstallerSpec
=============================================================================
