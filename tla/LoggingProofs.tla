---------------------------- MODULE LoggingProofs ----------------------------
(***************************************************************************)
(* Proofs about Config, alone and under LogManager, and about Logging.     *)
(***************************************************************************)
EXTENDS Logging, FiniteSetTheorems, SequenceTheorems, WellFoundedInduction, TLAPS

-----------------------------------------------------------------------------
(* The configuration.  Every answer is final, for any keys, files, types,  *)
(* conversions and defaults.  The inductive invariant says where an answer *)
(* comes from: the library's conversion if the file has the key, else      *)
(* miss_map_, which holds no key of the file.  It is stated for any set V  *)
(* of values that has those the conversions make and the defaults callers  *)
(* pass.                                                                   *)

ValueSet(V) ==
  /\ Defaults \subseteq V /\ \A c \in DOMAIN Convert : Convert[c] \in V
  /\ \A v \in V \ {Absent} : "type" \in DOMAIN v /\ v.type \in Types

ConfigTypes(V) ==
  /\ format \in {"json", "yaml"} /\ file \in Files
  /\ miss \in [Keys -> V \cup {Absent}]
  /\ told \subseteq Keys \X V

\* A default is stored only for a key that the file does not have.
MissOnly == \A k \in Keys : ~Missing(k) => miss[k] = Absent

\* What was answered is still what the tables hold.
Held(k, v) ==
  /\ v # Absent /\ (Missing(k) => v = miss[k])
  /\ ~Missing(k) => Found(k) # Scalar /\ v = Converted(k, v.type)

ToldHeld(V) == \A k \in Keys, v \in V : <<k, v>> \in told => Held(k, v)

CInv(V) == ConfigTypes(V) /\ MissOnly /\ ToldHeld(V)

\* A value read is never mistaken for a failed call.
LEMMA ValuesAreNoFailures ==
  ASSUME NEW V, ValueSet(V), NEW v \in V, v # Absent, NEW e
  PROVE  v # Failed(e)
<1>1. "type" \in DOMAIN v
  BY DEF ValueSet
<1>2. DOMAIN Failed(e) = {"err"}
  BY DEF Failed
<1>3. "type" \notin {"err"}
  OBVIOUS
<1> QED BY <1>1, <1>2, <1>3

\* What the library makes of a node is a value of the type asked for, or none.
LEMMA ConvertedType ==
  ASSUME NEW V, ValueSet(V), format \in {"json", "yaml"}, file \in Files,
         NEW k \in Keys, ~Missing(k), Found(k) # Scalar, NEW T \in Types
  PROVE  Converted(k, T) \in V /\ (Converted(k, T) # Absent => Converted(k, T).type = T)
<1>1. Found(k) \in Nodes
  <2>1. file[k] \in Nodes \cup {Absent, Scalar}
    BY ConfigAssumption
  <2>2. Found(k) = Absent \/ Found(k) = file[k]
    BY DEF Found
  <2> QED BY <2>1, <2>2 DEF Missing
<1>2. PICK c \in DOMAIN Convert : c = <<format, Found(k), T>>
  BY <1>1, ConfigAssumption
<1>3. c[3] = T
  BY <1>2
<1>4. Convert[c] \in V /\ (Convert[c] # Absent => Convert[c].type = T)
  BY <1>3, ConfigAssumption DEF ValueSet
<1> QED BY <1>2, <1>4 DEF Converted

\* g is what get<T> finds for k when miss_map_ has a.
Gets(g, a, k, T) ==
  /\ a # Absent => g = IF a.type = T THEN a ELSE Failed("bad_any_cast")
  /\ a = Absent /\ Missing(k) => g = Failed("KeyNotFound")
  /\ a = Absent /\ ~Missing(k) /\ Found(k) = Scalar => g = Failed("BadSubscript")
  /\ a = Absent /\ ~Missing(k) /\ Found(k) # Scalar =>
       g = IF Converted(k, T) = Absent THEN Failed("ConvertFailed") ELSE Converted(k, T)

\* get, table by table.
LEMMA GetFromIs ==
  ASSUME NEW m, NEW k, NEW T
  PROVE  Gets(GetFrom(m, k, T), m[k], k, T)
<1>1. ASSUME m[k] # Absent
      PROVE  GetFrom(m, k, T) = IF m[k].type = T THEN m[k] ELSE Failed("bad_any_cast")
  BY <1>1 DEF GetFrom
<1>2. ASSUME m[k] = Absent, Missing(k) PROVE GetFrom(m, k, T) = Failed("KeyNotFound")
  BY <1>2 DEF GetFrom
<1>3. ASSUME m[k] = Absent, ~Missing(k), Found(k) = Scalar
      PROVE  GetFrom(m, k, T) = Failed("BadSubscript")
  BY <1>3 DEF GetFrom
<1>4. ASSUME m[k] = Absent, ~Missing(k), Found(k) # Scalar
      PROVE  GetFrom(m, k, T) = IF Converted(k, T) = Absent THEN Failed("ConvertFailed")
                                ELSE Converted(k, T)
  BY <1>4 DEF GetFrom
<1> QED BY <1>1, <1>2, <1>3, <1>4 DEF Gets

\* get answers with the stored default, or with the file's value, or not at all.
LEMMA Answered ==
  ASSUME NEW m, NEW k \in Keys, NEW T, "err" \notin DOMAIN GetFrom(m, k, T)
  PROVE  \/ m[k] # Absent /\ GetFrom(m, k, T) = m[k]
         \/ /\ m[k] = Absent /\ ~Missing(k) /\ Found(k) # Scalar
            /\ Converted(k, T) # Absent /\ GetFrom(m, k, T) = Converted(k, T)
<1>1. \A e : "err" \in DOMAIN Failed(e)
  BY DEF Failed
<1>2. \A e : GetFrom(m, k, T) # Failed(e)
  BY <1>1
<1> QED BY <1>2, GetFromIs DEF Gets

\* KeyNotFound means that neither table has the key: no other outcome of get
\* makes getIfExists store its default.
LEMMA NotFound ==
  ASSUME NEW V, ValueSet(V), CInv(V), NEW k \in Keys, NEW T \in Types,
         GetFrom(miss, k, T) = Failed("KeyNotFound")
  PROVE  miss[k] = Absent /\ Missing(k)
<1>1. /\ Failed("bad_any_cast") # Failed("KeyNotFound") /\ Failed("ConvertFailed") # Failed("KeyNotFound")
      /\ Failed("BadSubscript") # Failed("KeyNotFound")
  BY DEF Failed
<1>2. miss[k] \in V \cup {Absent}
  BY DEF CInv, ConfigTypes
<1>3. miss[k] = Absent
  <2>1. miss[k] # Absent => miss[k] # Failed("KeyNotFound")
    BY <1>2, ValuesAreNoFailures
  <2> QED BY <1>1, <2>1, GetFromIs DEF Gets
<1>4. ASSUME ~Missing(k) PROVE FALSE
  <2>1. Found(k) # Scalar
    BY <1>1, <1>3, <1>4, GetFromIs DEF Gets
  <2>2. Converted(k, T) \in V
    BY <1>4, <2>1, ConvertedType DEF CInv, ConfigTypes
  <2>3. Converted(k, T) # Absent => Converted(k, T) # Failed("KeyNotFound")
    BY <2>2, ValuesAreNoFailures
  <2> QED BY <1>1, <1>3, <1>4, <2>1, <2>3, GetFromIs DEF Gets
<1> QED BY <1>3, <1>4

\* The invariant holds at first.
LEMMA CInvInit ==
  ASSUME NEW V, ConfigInit
  PROVE  CInv(V)
  BY DEF ConfigInit, CInv, ConfigTypes, MissOnly, ToldHeld

\* A call of get, or one of getIfExists with default d.
Call(V, k, T, d) == Get(k, T) \/ (GetIfExists(k, d) /\ T = d.type /\ d \in V)

\* The calls are those.
LEMMA CallsAre ==
  ASSUME NEW V, ValueSet(V), ConfigNext
  PROVE  \E k \in Keys, T \in Types : \E d : Call(V, k, T, d)
<1>1. ASSUME NEW k \in Keys, NEW T \in Types, Get(k, T) PROVE \E d : Call(V, k, T, d)
  BY <1>1 DEF Call
<1>2. ASSUME NEW k \in Keys, NEW d \in Defaults, GetIfExists(k, d)
      PROVE  d.type \in Types /\ Call(V, k, d.type, d)
  <2>1. d \in V /\ d # Absent
    BY ConfigAssumption DEF ValueSet
  <2>2. d.type \in Types
    BY <2>1 DEF ValueSet
  <2> QED BY <1>2, <2>1, <2>2 DEF Call
<1> QED BY <1>1, <1>2 DEF ConfigNext

\* What a call changes: miss_map_, for a key that is nowhere, and the answers.
LEMMA CallChanges ==
  ASSUME NEW V, ValueSet(V), CInv(V), NEW k \in Keys, NEW T \in Types, NEW d, Call(V, k, T, d)
  PROVE  /\ format' = format /\ file' = file
         /\ \/ miss' = miss
            \/ miss[k] = Absent /\ Missing(k) /\ d \in V /\ miss' = [miss EXCEPT ![k] = d]
<1>1. format' = format /\ file' = file
  BY DEF Call, Get, GetIfExists
<1>2. \/ miss' = miss
      \/ miss[k] = Absent /\ Missing(k) /\ d \in V /\ miss' = [miss EXCEPT ![k] = d]
  BY NotFound DEF Call, Get, GetIfExists, Stored
<1> QED BY <1>1, <1>2

\* Every call keeps the invariant.
LEMMA CallKeeps ==
  ASSUME NEW V, ValueSet(V), CInv(V), NEW k \in Keys, NEW T \in Types, NEW d, Call(V, k, T, d)
  PROVE  CInv(V)'
<1> DEFINE v == GetFrom(miss', k, T)
<1>1. /\ format' = format /\ file' = file
      /\ told' = IF "err" \in DOMAIN v THEN told ELSE told \cup {<<k, v>>}
  <2>1. CASE Get(k, T)
    <3>1. miss' = miss
      BY <2>1 DEF Get
    <3> QED BY <2>1, <3>1 DEF Get, Answer
  <2>2. CASE GetIfExists(k, d) /\ T = d.type /\ d \in V
    BY <2>2 DEF GetIfExists, Answer
  <2> QED BY <2>1, <2>2 DEF Call
<1>2. \/ miss' = miss
      \/ miss[k] = Absent /\ Missing(k) /\ d \in V /\ miss' = [miss EXCEPT ![k] = d]
  BY CallChanges
<1>3. \A j \in Keys : Found(j)' = Found(j) /\ Missing(j)' = Missing(j)
  BY <1>1 DEF Found, Missing
<1>4. /\ miss' \in [Keys -> V \cup {Absent}] /\ file' \in Files /\ file \in Files
      /\ format \in {"json", "yaml"}
  BY <1>1, <1>2 DEF CInv, ConfigTypes
<1>5. \A j \in Keys : ~Missing(j) => miss'[j] = Absent
  BY <1>2 DEF CInv, ConfigTypes, MissOnly
<1>6. ASSUME "err" \notin DOMAIN v
      PROVE  /\ v \in V /\ v # Absent /\ (Missing(k) => v = miss'[k])
             /\ ~Missing(k) => Found(k) # Scalar /\ v = Converted(k, v.type)
  <2>1. \/ miss'[k] # Absent /\ v = miss'[k]
        \/ /\ miss'[k] = Absent /\ ~Missing(k) /\ Found(k) # Scalar
           /\ Converted(k, T) # Absent /\ v = Converted(k, T)
    BY <1>6, Answered
  <2> HIDE DEF v
  <2>2. CASE miss'[k] # Absent /\ v = miss'[k]
    BY <1>4, <1>5, <2>2
  <2>3. CASE /\ miss'[k] = Absent /\ ~Missing(k) /\ Found(k) # Scalar
             /\ Converted(k, T) # Absent /\ v = Converted(k, T)
    BY <1>4, <2>3, ConvertedType
  <2> QED BY <2>1, <2>2, <2>3
<1> HIDE DEF v
<1>7. ConfigTypes(V)'
  BY <1>1, <1>4, <1>6 DEF CInv, ConfigTypes
<1>8. ASSUME NEW j \in Keys, NEW w \in V, <<j, w>> \in told'
      PROVE  /\ w # Absent /\ (Missing(j) => w = miss'[j])
             /\ ~Missing(j) => Found(j) # Scalar /\ w = Converted(j, w.type)
  <2>1. CASE <<j, w>> \in told
    <3>1. /\ w # Absent /\ (Missing(j) => w = miss[j])
          /\ ~Missing(j) => Found(j) # Scalar /\ w = Converted(j, w.type)
      BY <2>1 DEF CInv, ToldHeld, Held
    <3> QED BY <1>2, <3>1 DEF CInv, ConfigTypes
  <2>2. CASE <<j, w>> \notin told
    <3>1. "err" \notin DOMAIN v /\ j = k /\ w = v
      BY <1>1, <1>8, <2>2
    <3> QED BY <1>6, <3>1
  <2> QED BY <2>1, <2>2
<1>9. MissOnly'
  BY <1>3, <1>5 DEF MissOnly
<1>10. ToldHeld(V)'
  <2>1. \A j \in Keys, T2 \in Types : Converted(j, T2)' = Converted(j, T2)
    BY <1>1, <1>3 DEF Converted
  <2>2. \A w \in V \ {Absent} : w.type \in Types
    BY DEF ValueSet
  <2> QED BY <1>3, <1>8, <2>1, <2>2 DEF ToldHeld, Held
<1> QED BY <1>7, <1>9, <1>10 DEF CInv

\* So does a step that leaves the configuration alone.
LEMMA ConfigSame ==
  ASSUME NEW V, CInv(V), UNCHANGED config
  PROVE  CInv(V)'
  BY DEF config, CInv, ConfigTypes, MissOnly, ToldHeld, Held, Converted, Missing, Found

\* An answer comes from the tables, which hold one value for each key and type.
LEMMA AnswersHeld ==
  ASSUME NEW V, CInv(V)
  PROVE  ConfigStable
<1>1. \A a \in told : a = <<a[1], a[2]>> /\ Held(a[1], a[2])
  BY DEF CInv, ConfigTypes, ToldHeld
<1>2. ASSUME NEW a \in told, NEW b \in told, a[1] = b[1], a[2].type = b[2].type \/ Missing(a[1])
      PROVE  a = b
  <2>1. a[2] = b[2]
    BY <1>1, <1>2 DEF Held
  <2> QED BY <1>1, <1>2, <2>1
<1>3. \A a \in told : ~Missing(a[1]) => Found(a[1]) # Scalar /\ a[2] = Converted(a[1], a[2].type)
  BY <1>1 DEF Held
<1> QED BY <1>2, <1>3 DEF ConfigStable

\* Whoever asks a configuration for a key as one type, with get or with getIfExists
\* and whatever default, gets the same value as everybody before: what the library
\* makes of the file's node if the file has the key, and else the one default that
\* getIfExists stored first.
THEOREM AnswersAreFinal == ConfigSpec => []ConfigStable
<1>1. ValueSet(Values)
  <2>1. Defaults \subseteq Values /\ \A c \in DOMAIN Convert : Convert[c] \in Values
    BY DEF Values
  <2>2. \A v \in Values \ {Absent} : "type" \in DOMAIN v /\ v.type \in Types
    BY ConfigAssumption
  <2> QED BY <2>1, <2>2 DEF ValueSet
<1>2. ConfigInit => CInv(Values)
  BY CInvInit
<1>3. CInv(Values) /\ [ConfigNext]_config => CInv(Values)'
  <2>1. ASSUME CInv(Values), ConfigNext PROVE CInv(Values)'
    BY <1>1, <2>1, CallKeeps, CallsAre
  <2>2. ASSUME CInv(Values), UNCHANGED config PROVE CInv(Values)'
    BY <2>2, ConfigSame
  <2> QED BY <2>1, <2>2
<1>4. CInv(Values) => ConfigStable
  BY AnswersHeld
<1> QED BY <1>2, <1>3, <1>4, PTL DEF ConfigSpec

-----------------------------------------------------------------------------
(* The registry.                                                           *)

\* Whatever rigisterFlushMaker is called with, in capitals or not, and whatever it
\* returns, a name that is known keeps its maker.
THEOREM MakersAreFinal == Spec => FirstMakerStays
<1>1. ASSUME [Next]_vars
      PROVE  \A id \in DOMAIN makers : id \in DOMAIN makers' /\ makers'[id] = makers[id]
  <2>1. ASSUME NEW id, NEW caps, NEW kind, RegisterFlushMaker(Key(id, caps), kind)
        PROVE  \A x \in DOMAIN makers : x \in DOMAIN makers' /\ makers'[x] = makers[x]
    <3>1. makers' = [x \in DOMAIN makers \cup {id} |-> IF x \in DOMAIN makers THEN makers[x] ELSE kind]
      BY <2>1 DEF RegisterFlushMaker, Emplace, Key
    <3> QED BY <3>1
  <2>2. CASE makers' = makers
    BY <2>2
  <2>3. \/ makers' = makers
        \/ \E id, caps, kind : RegisterFlushMaker(Key(id, caps), kind)
    BY <1>1, Zenon DEF Next, vars, MakeLogManager, SetLevel, Log, FlushDirect, FlushBegin, FlushAppend,
                LogDone, DoFlush
  <2> QED BY <2>1, <2>2, <2>3
<1>2. [][Next]_vars => FirstMakerStays
  <2>1. [Next]_vars => [\A id \in DOMAIN makers : id \in DOMAIN makers' /\ makers'[id] = makers[id]]_vars
    BY <1>1
  <2> QED BY <2>1, PTL DEF FirstMakerStays
<1> QED BY <1>2 DEF Spec

-----------------------------------------------------------------------------
(* What LogManager builds.                                                 *)

AllKinds == {Kind[x] : x \in DOMAIN Kind} \cup NewKinds \cup {"ProtectedStdout", "ProtectedFile"}
Records  == [by : Threads, n : Nat, log : Nat]
Sinks    == [kind : AllKinds, buf : Seq(Records), out : Seq(Records), lock : SUBSET Threads]
Objs     == [level : Nat, flushers : Seq(Nat)]
Items    == [name : STRING, flushers : Seq([id : Ids, caps : BOOLEAN])]

\* A flusher that has got nothing.
Fresh(k) == k.buf = <<>> /\ k.out = <<>> /\ k.lock = {}

\* Flushers fl of a logger are flushers sk of the kinds given, one for each.
Fits(fl, sk, kinds) ==
  /\ Len(fl) = Len(kinds)
  /\ \A j \in DOMAIN fl : fl[j] \in DOMAIN sk /\ sk[fl[j]].kind = kinds[j]
  /\ \A j, k \in DOMAIN fl : fl[j] = fl[k] => j = k

\* One list of flushers behind another.
LEMMA SinksJoined ==
  ASSUME NEW a \in Seq(Sinks), NEW b \in Seq(Sinks)
  PROVE  /\ a \o b \in Seq(Sinks) /\ Len(a \o b) = Len(a) + Len(b)
         /\ \A s \in 1..(Len(a) + Len(b)) : (a \o b)[s] = IF s <= Len(a) THEN a[s] ELSE b[s - Len(a)]
  BY ConcatProperties

\* The lists of loggers and flushers that AddLogger makes, element by element.
LEMMA AddFacts ==
  ASSUME NEW m, NEW names, NEW kinds \in Seq(AllKinds),
         m.objs \in Seq(Objs), m.sinks \in Seq(Sinks),
         NEW r, r = AddLogger(m, names, kinds)
  PROVE  /\ r.objs \in Seq(Objs) /\ Len(r.objs) = Len(m.objs) + 1
         /\ \A l \in 1..Len(m.objs) : r.objs[l] = m.objs[l]
         /\ r.sinks \in Seq(Sinks) /\ Len(m.sinks) <= Len(r.sinks)
         /\ \A s \in 1..Len(m.sinks) : r.sinks[s] = m.sinks[s]
         /\ \A s \in 1..Len(r.sinks) : s > Len(m.sinks) => Fresh(r.sinks[s])
         /\ Fits(r.objs[Len(m.objs) + 1].flushers, r.sinks, kinds)
<1> DEFINE n == Len(m.sinks)
           fl == [i \in DOMAIN kinds |-> n + i]
           obj == [level |-> 0, flushers |-> fl]
           new == [i \in DOMAIN kinds |-> NewSink(kinds[i])]
<1>1. r.objs = Append(m.objs, obj) /\ r.sinks = m.sinks \o new
  BY DEF AddLogger
<1>2. n \in Nat /\ Len(kinds) \in Nat /\ DOMAIN kinds = 1..Len(kinds)
  OBVIOUS
<1>3. fl \in Seq(Nat) /\ Len(fl) = Len(kinds) /\ \A i \in 1..Len(kinds) : fl[i] = n + i
  <2>1. fl \in [1..Len(kinds) -> Nat]
    BY <1>2
  <2> QED BY <2>1, <1>2
<1>4. obj \in Objs
  BY <1>3 DEF Objs
<1>5. \A i \in 1..Len(kinds) :
        NewSink(kinds[i]) \in Sinks /\ Fresh(NewSink(kinds[i])) /\ NewSink(kinds[i]).kind = kinds[i]
  BY <1>2 DEF NewSink, Sinks, Fresh
<1>6. /\ new \in Seq(Sinks) /\ Len(new) = Len(kinds)
      /\ \A i \in 1..Len(kinds) : new[i] = NewSink(kinds[i])
  <2>1. new \in [1..Len(kinds) -> Sinks]
    BY <1>2, <1>5
  <2> QED BY <2>1, <1>2
<1>7. obj.flushers = fl
  OBVIOUS
<1> HIDE DEF fl, obj, new, n
<1>8. /\ r.objs \in Seq(Objs) /\ Len(r.objs) = Len(m.objs) + 1
      /\ \A l \in 1..Len(m.objs) : r.objs[l] = m.objs[l]
      /\ r.objs[Len(m.objs) + 1] = obj
  <2>1. Append(m.objs, obj) \in Seq(Objs)
    BY <1>4
  <2> QED BY <1>1, <1>4, <2>1, AppendProperties
<1>9. /\ r.sinks \in Seq(Sinks) /\ Len(r.sinks) = n + Len(kinds)
      /\ \A s \in 1..n : r.sinks[s] = m.sinks[s]
      /\ \A i \in 1..Len(kinds) : r.sinks[n + i] = NewSink(kinds[i])
  <2>0. PICK old \in Seq(Sinks) : old = m.sinks
    OBVIOUS
  <2>1. r.sinks \in Seq(Sinks) /\ Len(r.sinks) = n + Len(new)
    BY <1>1, <1>6, <2>0, SinksJoined DEF n
  <2>2. \A s \in 1..(n + Len(new)) : r.sinks[s] = IF s <= n THEN m.sinks[s] ELSE new[s - n]
    BY <1>1, <1>6, <2>0, SinksJoined DEF n
  <2>3. ASSUME NEW s \in 1..n PROVE r.sinks[s] = m.sinks[s]
    <3>1. s \in 1..(n + Len(new)) /\ s <= n
      BY <1>2, <1>6
    <3> QED BY <3>1, <2>2
  <2>4. \A i \in 1..Len(kinds) : r.sinks[n + i] = new[i]
    <3> SUFFICES ASSUME NEW i \in 1..Len(kinds) PROVE r.sinks[n + i] = new[i]
      OBVIOUS
    <3>1. PICK k \in 1..(n + Len(new)) : k = n + i
      BY <1>2, <1>6
    <3>2. ~(k <= n) /\ k - n = i
      BY <1>2, <3>1
    <3>3. r.sinks[k] = new[i]
      BY <2>2, <3>2
    <3> QED BY <3>1, <3>3
  <2> QED BY <1>6, <2>1, <2>3, <2>4
<1>10. \A s \in 1..Len(r.sinks) : s > n => Fresh(r.sinks[s])
  <2> SUFFICES ASSUME NEW s \in 1..Len(r.sinks), s > n PROVE Fresh(r.sinks[s])
    OBVIOUS
  <2>1. PICK i \in 1..Len(kinds) : s = n + i
    <3>1. s - n \in 1..Len(kinds) /\ s = n + (s - n)
      BY <1>2, <1>9
    <3> QED BY <3>1
  <2> QED BY <1>5, <1>9, <2>1
<1>11. Fits(fl, r.sinks, kinds)
  <2>1. DOMAIN fl = 1..Len(kinds) /\ DOMAIN r.sinks = 1..(n + Len(kinds))
    BY <1>3, <1>9
  <2>2. \A j \in 1..Len(kinds) : fl[j] \in 1..(n + Len(kinds)) /\ fl[j] = n + j
    BY <1>2, <1>3
  <2>3. \A j \in 1..Len(kinds) : r.sinks[fl[j]].kind = kinds[j]
    BY <1>5, <1>9, <2>2
  <2>4. \A j, k \in 1..Len(kinds) : fl[j] = fl[k] => j = k
    BY <1>2, <2>2
  <2> QED BY <1>3, <2>1, <2>2, <2>3, <2>4 DEF Fits
<1>12. Fits(r.objs[Len(m.objs) + 1].flushers, r.sinks, kinds)
  BY <1>7, <1>8, <1>11
<1>13. Len(m.sinks) <= Len(r.sinks)
  BY <1>2, <1>9 DEF n
<1> QED BY <1>8, <1>9, <1>10, <1>12, <1>13 DEF n

\* Logger l is made for the l-1st item, the first one by initDefaultLogger, from
\* registry mk.
KindList(mk, items, l) == IF l = 1 THEN RootFlushers ELSE ItemKinds(mk, items[l - 1])

\* After i items logger l has the name: the last of them that names it made it.
NamedBy(l, items, i, name) ==
  \/ l = 1 /\ \A j \in 1..i : items[j].name # name
  \/ /\ l \in 2..(i + 1) /\ items[l - 1].name = name
     /\ \A j \in l..i : items[j].name # name

\* What LogManager has built after i items.
BuiltObjs(mk, m, items, i) ==
  /\ m.objs \in Seq(Objs) /\ Len(m.objs) = i + 1
  /\ m.sinks \in Seq(Sinks)
  /\ \A s \in 1..Len(m.sinks) : Fresh(m.sinks[s])
  /\ \A l \in 1..(i + 1) : Fits(m.objs[l].flushers, m.sinks, KindList(mk, items, l))

BuiltNames(m, items, i) ==
  /\ DOMAIN m.loggers = {"root", "system"} \cup {items[j].name : j \in 1..i}
  /\ \A name \in DOMAIN m.loggers : NamedBy(m.loggers[name], items, i, name)
  /\ m.default = m.loggers["root"]

\* A longer list of flushers still fits.
LEMMA FitsLonger ==
  ASSUME NEW sk \in Seq(Sinks), NEW sm \in Seq(Sinks), Len(sk) <= Len(sm),
         \A s \in 1..Len(sk) : sm[s] = sk[s],
         NEW fl, NEW kinds, Fits(fl, sk, kinds)
  PROVE  Fits(fl, sm, kinds)
<1>1. DOMAIN sk = 1..Len(sk) /\ DOMAIN sm = 1..Len(sm) /\ Len(sk) \in Nat /\ Len(sm) \in Nat
  OBVIOUS
<1>2. \A s \in DOMAIN sk : s \in DOMAIN sm /\ sm[s] = sk[s]
  BY <1>1
<1> QED BY <1>2 DEF Fits

\* initDefaultLogger.
LEMMA FirstBuilt ==
  ASSUME NEW mk, NEW items, DOMAIN loggers = {}, NEW r, r = DefaultLogger
  PROVE  BuiltObjs(mk, r, items, 0) /\ BuiltNames(r, items, 0)
<1>m. PICK m : m = [objs |-> <<>>, sinks |-> <<>>, loggers |-> loggers, default |-> 0]
  OBVIOUS
<1>1. RootFlushers \in Seq(AllKinds)
  BY DEF RootFlushers, AllKinds
<1>2. m.objs \in Seq(Objs) /\ m.sinks \in Seq(Sinks) /\ Len(m.objs) = 0 /\ Len(m.sinks) = 0
  BY <1>m
<1>3. r = AddLogger(m, {"root", "system"}, RootFlushers)
  BY <1>m DEF DefaultLogger
<1>4. r.loggers = [x \in {"root", "system"} |-> 1] /\ r.default = 1
  BY <1>m, <1>3 DEF AddLogger
<1>5. /\ r.objs \in Seq(Objs) /\ Len(r.objs) = 1
      /\ r.sinks \in Seq(Sinks)
      /\ \A s \in 1..Len(r.sinks) : s > 0 => Fresh(r.sinks[s])
      /\ Fits(r.objs[1].flushers, r.sinks, RootFlushers)
  <2>1. /\ r.objs \in Seq(Objs) /\ Len(r.objs) = Len(m.objs) + 1
        /\ r.sinks \in Seq(Sinks)
        /\ \A s \in 1..Len(r.sinks) : s > Len(m.sinks) => Fresh(r.sinks[s])
        /\ Fits(r.objs[Len(m.objs) + 1].flushers, r.sinks, RootFlushers)
    <3>1. PICK names, kinds : names = {"root", "system"} /\ kinds = RootFlushers
      OBVIOUS
    <3>2. kinds \in Seq(AllKinds) /\ r = AddLogger(m, names, kinds)
      BY <1>1, <1>3, <3>1
    <3>x. m.objs \in Seq(Objs) /\ m.sinks \in Seq(Sinks)
      BY <1>2
    <3>3. /\ r.objs \in Seq(Objs) /\ Len(r.objs) = Len(m.objs) + 1
          /\ r.sinks \in Seq(Sinks)
          /\ \A s \in 1..Len(r.sinks) : s > Len(m.sinks) => Fresh(r.sinks[s])
          /\ Fits(r.objs[Len(m.objs) + 1].flushers, r.sinks, kinds)
      BY <3>x, <3>2, AddFacts
    <3> QED BY <3>1, <3>3
  <2> QED BY <1>2, <2>1
<1>6. BuiltObjs(mk, r, items, 0)
  <2>1. \A l \in 1..(0 + 1) : l = 1
    OBVIOUS
  <2>2. \A s \in 1..Len(r.sinks) : s > 0
    OBVIOUS
  <2> QED BY <1>5, <2>1, <2>2 DEF BuiltObjs, KindList
<1>7. BuiltNames(r, items, 0)
  BY <1>4 DEF BuiltNames, NamedBy
<1> QED BY <1>6, <1>7

\* One turn of initLoggerFromConfig's loop.
LEMMA NextBuilt ==
  ASSUME NEW mk, NEW items, NEW i \in Nat, NEW m, BuiltObjs(mk, m, items, i), BuiltNames(m, items, i),
         ItemKinds(mk, items[i + 1]) \in Seq(AllKinds),
         NEW r, r = AddLogger(m, {ItemName(items[i + 1])}, ItemKinds(mk, items[i + 1]))
  PROVE  BuiltObjs(mk, r, items, i + 1) /\ BuiltNames(r, items, i + 1)
<1> DEFINE kinds == ItemKinds(mk, items[i + 1])
           name == items[i + 1].name
<1>1. /\ r.objs \in Seq(Objs) /\ Len(r.objs) = i + 2
      /\ \A l \in 1..(i + 1) : r.objs[l] = m.objs[l]
      /\ r.sinks \in Seq(Sinks) /\ Len(m.sinks) <= Len(r.sinks)
      /\ \A s \in 1..Len(m.sinks) : r.sinks[s] = m.sinks[s]
      /\ \A s \in 1..Len(r.sinks) : s > Len(m.sinks) => Fresh(r.sinks[s])
      /\ Fits(r.objs[i + 2].flushers, r.sinks, kinds)
  <2>1. m.objs \in Seq(Objs) /\ m.sinks \in Seq(Sinks) /\ Len(m.objs) = i + 1
    BY DEF BuiltObjs
  <2>2. /\ r.objs \in Seq(Objs) /\ Len(r.objs) = Len(m.objs) + 1
        /\ \A l \in 1..Len(m.objs) : r.objs[l] = m.objs[l]
        /\ r.sinks \in Seq(Sinks) /\ Len(m.sinks) <= Len(r.sinks)
        /\ \A s \in 1..Len(m.sinks) : r.sinks[s] = m.sinks[s]
        /\ \A s \in 1..Len(r.sinks) : s > Len(m.sinks) => Fresh(r.sinks[s])
        /\ Fits(r.objs[Len(m.objs) + 1].flushers, r.sinks, kinds)
    BY <2>1, AddFacts
  <2>3. Len(m.objs) + 1 = i + 2
    BY <2>1
  <2> QED BY <2>1, <2>2, <2>3
<1>2. /\ r.loggers = [x \in {name} \cup DOMAIN m.loggers |-> IF x \in {name} THEN i + 2 ELSE m.loggers[x]]
      /\ r.default = IF "root" = name THEN i + 2 ELSE m.default
  <2>1. Len(m.objs) + 1 = i + 2
    BY DEF BuiltObjs
  <2> QED BY <2>1 DEF AddLogger, ItemName
<1> HIDE DEF kinds
<1>3. \A s \in 1..Len(r.sinks) : Fresh(r.sinks[s])
  <2> SUFFICES ASSUME NEW s \in 1..Len(r.sinks) PROVE Fresh(r.sinks[s])
    OBVIOUS
  <2>1. m.sinks \in Seq(Sinks) /\ \A k \in 1..Len(m.sinks) : Fresh(m.sinks[k])
    BY DEF BuiltObjs
  <2>2. s > Len(m.sinks) \/ s \in 1..Len(m.sinks)
    BY <2>1
  <2> QED BY <1>1, <2>1, <2>2
<1>4. ASSUME NEW l \in 1..(i + 2) PROVE Fits(r.objs[l].flushers, r.sinks, KindList(mk, items, l))
  <2>1. CASE l = i + 2
    <3>1. KindList(mk, items, l) = kinds
      <4>1. l # 1 /\ l - 1 = i + 1
        BY <2>1
      <4> QED BY <4>1 DEF KindList, kinds
    <3> QED BY <1>1, <2>1, <3>1
  <2>2. CASE l # i + 2
    <3>1. l \in 1..(i + 1)
      BY <2>2
    <3>2. Fits(m.objs[l].flushers, m.sinks, KindList(mk, items, l)) /\ m.sinks \in Seq(Sinks)
      BY <3>1 DEF BuiltObjs
    <3>3. Fits(m.objs[l].flushers, r.sinks, KindList(mk, items, l))
      BY <1>1, <3>2, FitsLonger
    <3> QED BY <1>1, <3>1, <3>3
  <2> QED BY <2>1, <2>2
<1>5. BuiltObjs(mk, r, items, i + 1)
  <2>1. i + 2 = i + 1 + 1
    OBVIOUS
  <2>2. Len(r.objs) = i + 1 + 1 /\ \A l \in 1..(i + 1 + 1) : Fits(r.objs[l].flushers, r.sinks, KindList(mk, items, l))
    BY <1>1, <1>4, <2>1
  <2> QED BY <1>1, <1>3, <2>2 DEF BuiltObjs
<1>6. DOMAIN r.loggers = {"root", "system"} \cup {items[j].name : j \in 1..(i + 1)}
  <2>1. DOMAIN m.loggers = {"root", "system"} \cup {items[j].name : j \in 1..i}
    BY DEF BuiltNames
  <2>2. DOMAIN r.loggers = {name} \cup DOMAIN m.loggers
    BY <1>2
  <2>3. \A j \in 1..(i + 1) : j \in 1..i \/ j = i + 1
    OBVIOUS
  <2>4. i + 1 \in 1..(i + 1) /\ \A j \in 1..i : j \in 1..(i + 1)
    OBVIOUS
  <2> QED BY <2>1, <2>2, <2>3, <2>4
<1>7. ASSUME NEW x \in DOMAIN r.loggers PROVE NamedBy(r.loggers[x], items, i + 1, x)
  <2>1. CASE x = name
    <3>1. r.loggers[x] = i + 2
      BY <1>2, <2>1
    <3>2. i + 2 \in 2..(i + 1 + 1) /\ i + 2 - 1 = i + 1 /\ (i + 2)..(i + 1) = {}
      OBVIOUS
    <3>3. NamedBy(i + 2, items, i + 1, x)
      <4>1. items[i + 2 - 1].name = x /\ \A j \in (i + 2)..(i + 1) : items[j].name # x
        BY <2>1, <3>2
      <4> QED BY <3>2, <4>1 DEF NamedBy
    <3> QED BY <3>1, <3>3
  <2>2. CASE x # name
    <3>1. x \in DOMAIN m.loggers /\ r.loggers[x] = m.loggers[x]
      BY <1>2, <2>2
    <3>2. NamedBy(m.loggers[x], items, i, x)
      BY <3>1 DEF BuiltNames
    <3>3. \A j \in 1..(i + 1) : j \in 1..i \/ j = i + 1
      OBVIOUS
    <3>4. CASE m.loggers[x] = 1 /\ \A j \in 1..i : items[j].name # x
      BY <2>2, <3>1, <3>3, <3>4 DEF NamedBy
    <3>5. CASE /\ m.loggers[x] \in 2..(i + 1) /\ items[m.loggers[x] - 1].name = x
               /\ \A j \in m.loggers[x]..i : items[j].name # x
      <4>1. m.loggers[x] \in 2..(i + 1 + 1)
        BY <3>5
      <4>2. \A j \in m.loggers[x]..(i + 1) : j \in m.loggers[x]..i \/ j = i + 1
        BY <3>5
      <4>3. \A j \in m.loggers[x]..(i + 1) : items[j].name # x
        BY <2>2, <3>5, <4>2
      <4> QED BY <3>1, <3>5, <4>1, <4>3, ZenonT(30) DEF NamedBy
    <3> QED BY <3>2, <3>4, <3>5 DEF NamedBy
  <2> QED BY <2>1, <2>2
<1>8. r.default = r.loggers["root"]
  <2>1. "root" \in DOMAIN m.loggers /\ m.default = m.loggers["root"]
    BY DEF BuiltNames
  <2> QED BY <1>2, <2>1
<1> QED BY <1>5, <1>6, <1>7, <1>8 DEF BuiltNames

-----------------------------------------------------------------------------
(* The flushers of an item.                                                *)

\* A non-empty set of numbers has a least element.
LEMMA LeastOf ==
  ASSUME NEW T \in SUBSET Nat, T # {}
  PROVE  \E m \in T : \A n \in T : m <= n
<1> DEFINE R == OpToRel(<, Nat)
<1>1. IsWellFoundedOn(R, Nat)
  BY NatLessThanWellFounded
<1> HIDE DEF R
<1>2. PICK m \in T : \A n \in T : <<n, m>> \notin R
  BY <1>1, WFMin
<1>3. \A n \in T : ~(n < m)
  BY <1>2 DEF R, OpToRel
<1> QED BY <1>3

\* f joins the first n sequences of q.
Joins(f, q, n) == f = [i \in 1..n |-> IF i = 1 THEN q[i] ELSE f[i - 1] \o q[i]]

\* What a join is at each place.
LEMMA JoinsAt ==
  ASSUME NEW f, NEW q, NEW n, Joins(f, q, n)
  PROVE  \A i \in 1..n : f[i] = IF i = 1 THEN q[i] ELSE f[i - 1] \o q[i]
<1> DEFINE F(j) == IF j = 1 THEN q[j] ELSE f[j - 1] \o q[j]
<1>1. f = [j \in 1..n |-> F(j)]
  BY DEF Joins
<1> HIDE DEF F
<1>2. \A i \in 1..n : f[i] = F(i)
  BY <1>1
<1> QED BY <1>2 DEF F

\* Every sequence of sequences has a join.
LEMMA JoinsExists ==
  ASSUME NEW S, NEW q \in Seq(Seq(S))
  PROVE  \E f : Joins(f, q, Len(q))
<1> DEFINE T == {n \in 0..Len(q) : ~\E f : Joins(f, q, n)}
<1>1. Len(q) \in Nat
  OBVIOUS
<1> SUFFICES ASSUME T # {} PROVE FALSE
  BY <1>1
<1>2. PICK m \in T : \A n \in T : m <= n
  <2>1. T \in SUBSET Nat
    BY <1>1
  <2> QED BY <2>1, LeastOf
<1>3. m # 0
  <2>1. Joins([i \in 1..0 |-> q[i]], q, 0)
    BY DEF Joins
  <2> QED BY <2>1, <1>2
<1>4. m - 1 \in 0..Len(q) /\ m - 1 \notin T /\ m \in Nat
  <2>1. m \in 0..Len(q)
    OBVIOUS
  <2>2. m - 1 \in 0..Len(q) /\ ~(m <= m - 1) /\ m \in Nat
    BY <2>1, <1>1, <1>3
  <2> QED BY <2>2, <1>2
<1>5. PICK f : Joins(f, q, m - 1)
  BY <1>4
<1> DEFINE g == [i \in 1..m |-> IF i = m THEN (IF m = 1 THEN q[m] ELSE f[m - 1] \o q[m]) ELSE f[i]]
<1>6. ASSUME NEW i \in 1..m PROVE g[i] = IF i = 1 THEN q[i] ELSE g[i - 1] \o q[i]
  <2>1. CASE i = m
    <3>1. m # 1 => m - 1 \in 1..m /\ m - 1 # m
      BY <1>3, <1>4
    <3> QED BY <2>1, <3>1
  <2>2. CASE i # m
    <3>1. i \in 1..(m - 1)
      BY <2>2, <1>4
    <3>2. f[i] = IF i = 1 THEN q[i] ELSE f[i - 1] \o q[i]
      BY <3>1, <1>5 DEF Joins
    <3>3. i # 1 => i - 1 \in 1..m /\ i - 1 # m
      BY <3>1, <1>4
    <3> QED BY <2>2, <3>2, <3>3
  <2> QED BY <2>1, <2>2
<1>7. Joins(g, q, m)
  <2>1. g = [i \in 1..m |-> g[i]]
    OBVIOUS
  <2> HIDE DEF g
  <2> QED BY <2>1, <1>6 DEF Joins
<1> QED BY <1>2, <1>7

\* What FlattenSeq computes is the last of the joins.
LEMMA FlattenIs ==
  ASSUME NEW S, NEW q \in Seq(Seq(S))
  PROVE  \E f : /\ Joins(f, q, Len(q))
                /\ \A i \in 1..Len(q) : f[i] \in Seq(S)
                /\ FlattenSeq(q) = IF q = <<>> THEN <<>> ELSE f[Len(q)]
<1> DEFINE f == CHOOSE h : h = [i \in 1..Len(q) |-> IF i = 1 THEN q[i] ELSE h[i - 1] \o q[i]]
<1>1. FlattenSeq(q) = IF Len(q) = 0 THEN q ELSE f[Len(q)]
  BY DEF FlattenSeq
<1>2. Joins(f, q, Len(q))
  BY JoinsExists DEF Joins
<1> HIDE DEF f
<1>3. Len(q) \in Nat /\ (Len(q) = 0 <=> q = <<>>)
  OBVIOUS
<1>4. \A i \in 1..Len(q) : f[i] \in Seq(S)
  <2> DEFINE T == {i \in 1..Len(q) : f[i] \notin Seq(S)}
  <2> SUFFICES ASSUME T # {} PROVE FALSE
    OBVIOUS
  <2>1. PICK m \in T : \A n \in T : m <= n
    <3>1. T \in SUBSET Nat
      BY <1>3
    <3> QED BY <3>1, LeastOf
  <2>2. f[m] = IF m = 1 THEN q[m] ELSE f[m - 1] \o q[m]
    BY <1>2 DEF Joins
  <2>3. q[m] \in Seq(S)
    OBVIOUS
  <2>4. m # 1 => f[m - 1] \in Seq(S)
    <3> SUFFICES ASSUME m # 1 PROVE f[m - 1] \in Seq(S)
      OBVIOUS
    <3>1. m - 1 \in 1..Len(q) /\ ~(m <= m - 1)
      BY <1>3
    <3> QED BY <3>1, <2>1
  <2>5. f[m] \in Seq(S)
    BY <2>2, <2>3, <2>4
  <2> QED BY <2>5
<1> QED BY <1>1, <1>2, <1>3, <1>4

\* The known types of fs among the first i.
KnownTo(mk, fs, i) == {j \in Known(mk, fs) : j <= i}

\* One more place.
LEMMA KnownToNext ==
  ASSUME NEW mk, NEW fs, NEW N \in Nat, DOMAIN fs = 1..N, NEW i \in 1..N
  PROVE  /\ KnownTo(mk, fs, i) = KnownTo(mk, fs, i - 1) \cup ({i} \cap Known(mk, fs))
         /\ IsFiniteSet(KnownTo(mk, fs, i)) /\ i \notin KnownTo(mk, fs, i - 1)
         /\ Cardinality(KnownTo(mk, fs, i)) = Cardinality(KnownTo(mk, fs, i - 1)) + (IF i \in Known(mk, fs) THEN 1 ELSE 0)
         /\ Cardinality(KnownTo(mk, fs, i - 1)) \in Nat
<1>1. \A j \in Known(mk, fs) : j \in 1..N
  BY DEF Known
<1>2. /\ KnownTo(mk, fs, i) = KnownTo(mk, fs, i - 1) \cup ({i} \cap Known(mk, fs))
      /\ i \notin KnownTo(mk, fs, i - 1)
  BY <1>1 DEF KnownTo
<1>3. IsFiniteSet(1..N)
  BY FS_Interval
<1>4. KnownTo(mk, fs, i) \subseteq 1..N /\ KnownTo(mk, fs, i - 1) \subseteq 1..N
  BY <1>1 DEF KnownTo
<1>5. IsFiniteSet(KnownTo(mk, fs, i)) /\ IsFiniteSet(KnownTo(mk, fs, i - 1))
  BY <1>3, <1>4, FS_Subset
<1>6. Cardinality(KnownTo(mk, fs, i - 1)) \in Nat
  BY <1>5, FS_CardinalityType
<1>7. CASE i \in Known(mk, fs)
  <2>1. KnownTo(mk, fs, i) = KnownTo(mk, fs, i - 1) \cup {i}
    BY <1>2, <1>7
  <2>2. Cardinality(KnownTo(mk, fs, i)) = Cardinality(KnownTo(mk, fs, i - 1)) + 1
    BY <1>2, <1>5, <2>1, FS_AddElement
  <2> QED BY <1>2, <1>5, <1>6, <1>7, <2>2
<1>8. CASE i \notin Known(mk, fs)
  <2>1. KnownTo(mk, fs, i) = KnownTo(mk, fs, i - 1)
    BY <1>2, <1>8
  <2>2. Cardinality(KnownTo(mk, fs, i)) = Cardinality(KnownTo(mk, fs, i - 1)) + 0
    BY <1>6, <2>1
  <2> QED BY <1>2, <1>5, <1>6, <1>8, <2>2
<1> QED BY <1>7, <1>8

\* from_json's types, in order, without those registry mk does not know.
KindsFit(mk, item) ==
  /\ ItemKinds(mk, item) \in Seq(AllKinds)
  /\ Len(ItemKinds(mk, item)) = Cardinality(Known(mk, item.flushers))
  /\ \A i \in Known(mk, item.flushers) :
       /\ Place(mk, item.flushers, i) \in 1..Len(ItemKinds(mk, item))
       /\ ItemKinds(mk, item)[Place(mk, item.flushers, i)] = mk[item.flushers[i].id]

\* They are what LogManager makes.
LEMMA ItemKindsAre ==
  ASSUME NEW mk, NEW item, item.flushers \in Seq([id : Ids, caps : BOOLEAN]),
         \A x \in DOMAIN mk : mk[x] \in AllKinds
  PROVE  KindsFit(mk, item)
<1>1. PICK fs \in Seq([id : Ids, caps : BOOLEAN]) : fs = item.flushers
  OBVIOUS
<1> DEFINE N == Len(fs)
           q == [i \in DOMAIN fs |-> FlusherKind(mk, fs[i])]
           card(i) == Cardinality(KnownTo(mk, fs, i))
<1>2. N \in Nat /\ DOMAIN fs = 1..N
  OBVIOUS
<1>3. \A i \in 1..N : q[i] = IF i \in Known(mk, fs) THEN <<mk[fs[i].id]>> ELSE <<>>
  BY <1>2 DEF FlusherKind, Known
<1>4. \A i \in Known(mk, fs) : i \in 1..N /\ mk[fs[i].id] \in AllKinds
  BY <1>2 DEF Known
<1>5. q \in Seq(Seq(AllKinds)) /\ Len(q) = N /\ \A i \in 1..N : q[i] \in Seq(AllKinds)
  <2>1. \A i \in 1..N : q[i] \in Seq(AllKinds)
    <3>1. <<>> \in Seq(AllKinds) /\ \A x \in AllKinds : <<x>> \in Seq(AllKinds)
      OBVIOUS
    <3> HIDE DEF q, N
    <3> QED BY <1>3, <1>4, <3>1
  <2>2. q \in [1..N -> Seq(AllKinds)]
    BY <1>2, <2>1
  <2> QED BY <1>2, <2>1, <2>2
<1>6. ItemKinds(mk, item) = FlattenSeq(q)
  BY <1>1 DEF ItemKinds
<1> HIDE DEF q, N
<1>7. PICK f : /\ Joins(f, q, N)
               /\ \A i \in 1..N : f[i] \in Seq(AllKinds)
               /\ FlattenSeq(q) = IF q = <<>> THEN <<>> ELSE f[N]
  BY <1>5, FlattenIs
<1> DEFINE P(i) == /\ Len(f[i]) = card(i)
                   /\ \A j \in KnownTo(mk, fs, i) : card(j) \in 1..card(i) /\ f[i][card(j)] = mk[fs[j].id]
<1>8. card(0) = 0
  <2>1. KnownTo(mk, fs, 0) = {}
    BY <1>4 DEF KnownTo
  <2> QED BY <2>1, FS_EmptySet
<1>9. ASSUME NEW i \in 1..N, i = 1 \/ (i - 1 \in 1..N /\ P(i - 1)) PROVE P(i)
  <2> DEFINE g == IF i = 1 THEN <<>> ELSE f[i - 1]
  <2>1. g \in Seq(AllKinds) /\ Len(g) = card(i - 1)
    BY <1>7, <1>8, <1>9
  <2>2. \A j \in KnownTo(mk, fs, i - 1) : card(j) \in 1..card(i - 1) /\ g[card(j)] = mk[fs[j].id]
    <3>1. KnownTo(mk, fs, 0) = {}
      BY <1>4 DEF KnownTo
    <3> QED BY <1>9, <3>1
  <2>3. f[i] = g \o q[i]
    <3>1. f[i] = IF i = 1 THEN q[i] ELSE f[i - 1] \o q[i]
      BY <1>7, JoinsAt
    <3>2. q[i] \in Seq(AllKinds)
      BY <1>5
    <3>3. CASE i = 1
      <4>1. <<>> \o q[i] = q[i]
        BY <3>2, ConcatEmptySeq
      <4> QED BY <3>1, <3>3, <4>1
    <3>4. CASE i # 1
      BY <3>1, <3>4
    <3> QED BY <3>3, <3>4
  <2> HIDE DEF g
  <2>4. /\ KnownTo(mk, fs, i) = KnownTo(mk, fs, i - 1) \cup ({i} \cap Known(mk, fs))
        /\ card(i) = card(i - 1) + (IF i \in Known(mk, fs) THEN 1 ELSE 0)
        /\ card(i - 1) \in Nat
    <3>1. PICK M \in Nat : M = N /\ DOMAIN fs = 1..M /\ i \in 1..M
      BY <1>2
    <3>2. /\ KnownTo(mk, fs, i) = KnownTo(mk, fs, i - 1) \cup ({i} \cap Known(mk, fs))
          /\ Cardinality(KnownTo(mk, fs, i)) =
               Cardinality(KnownTo(mk, fs, i - 1)) + (IF i \in Known(mk, fs) THEN 1 ELSE 0)
          /\ Cardinality(KnownTo(mk, fs, i - 1)) \in Nat
      BY <3>1, KnownToNext
    <3> QED BY <3>2
  <2> HIDE DEF card
  <2>5. CASE i \in Known(mk, fs)
    <3>1. PICK x \in AllKinds : x = mk[fs[i].id] /\ q[i] = <<x>>
      BY <1>3, <1>4, <2>5
    <3>2. f[i] = Append(g, x)
      BY <2>1, <2>3, <3>1
    <3>3. Len(f[i]) = card(i - 1) + 1 /\ f[i][card(i - 1) + 1] = x /\ \A k \in 1..card(i - 1) : f[i][k] = g[k]
      BY <2>1, <3>2
    <3>4. card(i) = card(i - 1) + 1
      BY <2>4, <2>5
    <3>5. ASSUME NEW j \in KnownTo(mk, fs, i)
          PROVE  card(j) \in 1..card(i) /\ f[i][card(j)] = mk[fs[j].id]
      <4>1. CASE j = i
        BY <2>4, <3>1, <3>3, <3>4, <4>1
      <4>2. CASE j \in KnownTo(mk, fs, i - 1)
        <5>1. card(j) \in 1..card(i - 1) /\ g[card(j)] = mk[fs[j].id]
          BY <2>2, <4>2
        <5>2. PICK k \in 1..card(i - 1) : k = card(j)
          BY <5>1
        <5>3. k \in 1..card(i) /\ f[i][k] = g[k]
          BY <2>4, <3>3, <3>4
        <5> QED BY <5>1, <5>2, <5>3
      <4> QED BY <2>4, <4>1, <4>2
    <3> QED BY <3>3, <3>4, <3>5
  <2>6. CASE i \notin Known(mk, fs)
    <3>1. f[i] = g
      <4>1. q[i] = <<>> /\ g \o <<>> = g
        BY <1>3, <2>1, <2>6, ConcatEmptySeq
      <4> QED BY <2>3, <4>1
    <3>2. card(i) = card(i - 1) /\ KnownTo(mk, fs, i) = KnownTo(mk, fs, i - 1)
      BY <2>4, <2>6
    <3> QED BY <2>1, <2>2, <3>1, <3>2
  <2> QED BY <2>5, <2>6
<1>10. \A i \in 1..N : P(i)
  <2> DEFINE T == {i \in 1..N : ~P(i)}
  <2> HIDE DEF P
  <2> SUFFICES ASSUME T # {} PROVE FALSE
    OBVIOUS
  <2>1. PICK m \in T : \A n \in T : m <= n
    <3>1. T \in SUBSET Nat
      BY <1>2
    <3> QED BY <3>1, LeastOf
  <2>2. m \in 1..N /\ ~P(m)
    BY <2>1
  <2>3. m = 1 \/ (m - 1 \in 1..N /\ ~(m <= m - 1))
    BY <1>2, <2>2
  <2>4. m = 1 \/ (m - 1 \in 1..N /\ P(m - 1))
    BY <2>1, <2>3
  <2> QED BY <1>9, <2>2, <2>4
<1>11. /\ KnownTo(mk, fs, N) = Known(mk, fs)
       /\ \A i \in Known(mk, fs) : card(i) = Place(mk, fs, i)
  BY <1>2, <1>4 DEF KnownTo, Place
<1>12. CASE N = 0
  <2>1. Known(mk, fs) = {} /\ q = <<>>
    BY <1>4, <1>5, <1>12
  <2>2. ItemKinds(mk, item) = <<>> /\ Cardinality(Known(mk, fs)) = 0
    BY <1>6, <1>7, <2>1, FS_EmptySet
  <2> QED BY <1>1, <2>1, <2>2 DEF KindsFit
<1>13. CASE N # 0
  <2>1. N \in 1..N /\ q # <<>>
    BY <1>2, <1>5, <1>13
  <2>2. ItemKinds(mk, item) = f[N] /\ P(N) /\ f[N] \in Seq(AllKinds)
    BY <1>6, <1>7, <1>10, <2>1
  <2> QED BY <1>1, <1>11, <2>2 DEF KindsFit
<1> QED BY <1>12, <1>13

-----------------------------------------------------------------------------
(* The loop over the items.                                                *)

Turn(mk, m, items, i) == AddLogger(m, {ItemName(items[i])}, ItemKinds(mk, items[i]))

\* f lists what LogManager has after each of the first n items.
Makes(mk, f, items, n) == f = [i \in 0..n |-> IF i = 0 THEN DefaultLogger ELSE Turn(mk, f[i - 1], items, i)]

\* What such a list is at each place.
LEMMA MakesAt ==
  ASSUME NEW mk, NEW f, NEW items, NEW n, Makes(mk, f, items, n)
  PROVE  \A i \in 0..n : f[i] = IF i = 0 THEN DefaultLogger ELSE Turn(mk, f[i - 1], items, i)
<1> DEFINE F(j) == IF j = 0 THEN DefaultLogger ELSE Turn(mk, f[j - 1], items, j)
<1>1. f = [j \in 0..n |-> F(j)]
  BY DEF Makes
<1> HIDE DEF F
<1>2. \A i \in 0..n : f[i] = F(i)
  BY <1>1
<1> QED BY <1>2 DEF F

\* There is one.
LEMMA MakesExists ==
  ASSUME NEW mk, NEW items, NEW N \in Nat
  PROVE  \E f : Makes(mk, f, items, N)
<1> DEFINE T == {n \in 0..N : ~\E f : Makes(mk, f, items, n)}
<1> SUFFICES ASSUME T # {} PROVE FALSE
  OBVIOUS
<1>1. PICK m \in T : \A n \in T : m <= n
  <2>1. T \in SUBSET Nat
    OBVIOUS
  <2> QED BY <2>1, LeastOf
<1>2. m # 0
  <2>1. Makes(mk, [i \in 0..0 |-> DefaultLogger], items, 0)
    BY DEF Makes
  <2> QED BY <2>1, <1>1
<1>3. m \in Nat /\ m - 1 \in Nat /\ m - 1 \in 0..N /\ m - 1 \notin T
  <2>1. m \in 0..N
    OBVIOUS
  <2>2. m - 1 \in 0..N /\ ~(m <= m - 1) /\ m \in Nat
    BY <2>1, <1>2
  <2> QED BY <2>2, <1>1
<1>4. PICK f : Makes(mk, f, items, m - 1)
  BY <1>3
<1>5. \A i \in 0..(m - 1) : f[i] = IF i = 0 THEN DefaultLogger ELSE Turn(mk, f[i - 1], items, i)
  BY <1>4, MakesAt
<1> DEFINE g == [i \in 0..m |-> IF i = m THEN Turn(mk, f[m - 1], items, m) ELSE f[i]]
<1>6. ASSUME NEW i \in 0..m PROVE g[i] = IF i = 0 THEN DefaultLogger ELSE Turn(mk, g[i - 1], items, i)
  <2>1. CASE i = m
    <3>1. m - 1 \in 0..m /\ m - 1 # m
      BY <1>3
    <3> QED BY <1>2, <2>1, <3>1
  <2>2. CASE i # m
    <3>1. i \in 0..(m - 1)
      BY <2>2, <1>3
    <3>2. i # 0 => i - 1 \in 0..m /\ i - 1 # m
      BY <3>1, <1>3
    <3> QED BY <1>5, <2>2, <3>1, <3>2
  <2> QED BY <2>1, <2>2
<1>7. Makes(mk, g, items, m)
  <2>1. g = [i \in 0..m |-> g[i]]
    OBVIOUS
  <2> HIDE DEF g
  <2> QED BY <2>1, <1>6 DEF Makes
<1> QED BY <1>1, <1>7

\* LogManager's loggers are those of the items.
LEMMA ConfiguredBuilt ==
  ASSUME NEW mk, NEW items \in Seq(Items), DOMAIN loggers = {},
         \A x \in DOMAIN mk : mk[x] \in AllKinds
  PROVE  /\ BuiltObjs(mk, Configured(mk, items), items, Len(items))
         /\ BuiltNames(Configured(mk, items), items, Len(items))
<1> DEFINE N == Len(items)
           f == CHOOSE h : Makes(mk, h, items, N)
<1>1. N \in Nat
  OBVIOUS
<1>2. Configured(mk, items) = f[N]
  BY DEF Configured, Makes, Turn
<1>3. Makes(mk, f, items, N)
  <2> HIDE DEF N
  <2> QED BY <1>1, MakesExists
<1> HIDE DEF f, N
<1>4. \A i \in 0..N : f[i] = IF i = 0 THEN DefaultLogger ELSE Turn(mk, f[i - 1], items, i)
  BY <1>3, MakesAt
<1> DEFINE P(i) == BuiltObjs(mk, f[i], items, i) /\ BuiltNames(f[i], items, i)
<1>5. P(0)
  <2>1. f[0] = DefaultLogger
    BY <1>1, <1>4
  <2> QED BY <2>1, FirstBuilt
<1>6. ASSUME NEW i \in Nat, i + 1 \in 0..N, P(i) PROVE P(i + 1)
  <2>1. f[i + 1] = Turn(mk, f[i], items, i + 1)
    <3>1. PICK k \in 0..N : k = i + 1
      BY <1>6
    <3>2. k # 0 /\ k - 1 = i
      BY <3>1
    <3>3. f[k] = Turn(mk, f[i], items, k)
      BY <1>4, <3>2
    <3> QED BY <3>1, <3>3
  <2>2. ItemKinds(mk, items[i + 1]) \in Seq(AllKinds)
    <3>1. i + 1 \in 1..Len(items)
      BY <1>1, <1>6 DEF N
    <3>2. items[i + 1] \in Items
      BY <3>1
    <3>3. items[i + 1].flushers \in Seq([id : Ids, caps : BOOLEAN])
      BY <3>2 DEF Items
    <3> QED BY <3>3, ItemKindsAre DEF KindsFit
  <2>3. PICK m, r : m = f[i] /\ r = f[i + 1]
    OBVIOUS
  <2>4. r = AddLogger(m, {ItemName(items[i + 1])}, ItemKinds(mk, items[i + 1]))
    BY <2>1, <2>3 DEF Turn
  <2>5. BuiltObjs(mk, m, items, i) /\ BuiltNames(m, items, i)
    BY <1>6, <2>3
  <2>6. BuiltObjs(mk, r, items, i + 1) /\ BuiltNames(r, items, i + 1)
    BY <2>2, <2>4, <2>5, NextBuilt
  <2> QED BY <2>3, <2>6
<1>7. P(N)
  <2> DEFINE T == {i \in 0..N : ~P(i)}
  <2> HIDE DEF P
  <2> SUFFICES ASSUME T # {} PROVE FALSE
    BY <1>1
  <2>1. PICK m \in T : \A n \in T : m <= n
    <3>1. T \in SUBSET Nat
      BY <1>1
    <3> QED BY <3>1, LeastOf
  <2>2. m \in 0..N /\ ~P(m) /\ m # 0
    BY <1>5, <2>1
  <2>3. PICK i \in Nat : m = i + 1
    <3>1. m - 1 \in Nat /\ m = (m - 1) + 1
      BY <1>1, <2>2
    <3> QED BY <3>1
  <2>4. i \in 0..N /\ ~(m <= i)
    BY <1>1, <2>2, <2>3
  <2>5. P(i)
    BY <2>1, <2>4
  <2>6. P(i + 1)
    BY <1>6, <2>2, <2>3, <2>5
  <2> QED BY <2>2, <2>3, <2>6
<1> QED BY <1>2, <1>7 DEF N

-----------------------------------------------------------------------------
(* The inductive invariant.                                                *)

AllValues == Values \cup {NoLogs}

Flushing  == [at : {"flush"}, rec : Records, i : Nat, level : Nat]
Appending == [at : {"append"}, rec : Records, i : Nat, level : Nat, buf : Seq(Records)]

LogTypes ==
  /\ \A x \in DOMAIN makers : makers[x] \in AllKinds
  /\ \A x \in DOMAIN known : known[x] \in AllKinds
  /\ objs \in Seq(Objs) /\ sinks \in Seq(Sinks)
  /\ run \in [Threads -> {Idle} \cup Flushing \cup Appending]
  /\ hist \in [Threads -> Seq(Records)]

\* Before LogManager there is no logger, and nothing is logged.
NoneYet ==
  objs = <<>> =>
    sinks = <<>> /\ DOMAIN loggers = {} /\ default = 0 /\ \A t \in Threads : hist[t] = <<>>

\* The key "logs" has the value that LogManager was built from.
Settled == miss[LogsKey] # Absent \/ ~Missing(LogsKey)

Built ==
  objs # <<>> =>
    /\ Settled /\ LogItems \in Seq(Items) /\ Len(objs) = Len(LogItems) + 1
    /\ \A l \in 1..Len(objs) : Fits(objs[l].flushers, sinks, KindList(known, LogItems, l))
    /\ BuiltNames([loggers |-> loggers, default |-> default], LogItems, Len(LogItems))

\* A record names its thread, its number and its logger.
HistNumbered ==
  \A t \in Threads : \A n \in 1..Len(hist[t]) :
    hist[t][n].by = t /\ hist[t][n].n = n /\ hist[t][n].log \in 1..Len(objs)

\* A thread flushes its last record.
FlushesLast ==
  \A t \in Threads : run[t].at # "idle" =>
    /\ hist[t] # <<>> /\ run[t].rec = hist[t][Len(hist[t])]
    /\ run[t].i \in 1..(Len(Flushers(t)) + 1)

\* A thread inside append is at a file; it is alone in a protected one, and has
\* seen what its buffer holds.
At(t) == Flushers(t)[run[t].i]

AppendsAlone ==
  \A t \in Threads : run[t].at = "append" =>
    /\ run[t].i <= Len(Flushers(t)) /\ sinks[At(t)].kind \in FileKinds
    /\ sinks[At(t)].kind = "ProtectedFile" =>
         sinks[At(t)].lock = {t} /\ run[t].buf = sinks[At(t)].buf

\* Flushers to standard output have no buffer.
Unbuffered == \A s \in 1..Len(sinks) : sinks[s].kind \in DirectKinds => sinks[s].buf = <<>>

LoggingInv ==
  /\ CInv(AllValues) /\ LogTypes /\ NoneYet /\ Built /\ HistNumbered /\ FlushesLast
  /\ AppendsAlone /\ Unbuffered /\ EveryRecordOnce

-----------------------------------------------------------------------------
(* The configuration under LogManager.                                     *)

\* The values of a program with a LogManager.
LEMMA AllValuesAre == ValueSet(AllValues)
<1>1. Defaults \subseteq AllValues /\ \A c \in DOMAIN Convert : Convert[c] \in AllValues
  BY DEF Values, AllValues
<1>2. \A v \in AllValues \ {Absent} : "type" \in DOMAIN v /\ v.type \in Types
  BY ConfigAssumption, LoggingAssumption DEF AllValues
<1> QED BY <1>1, <1>2 DEF ValueSet

\* What LogManager's call finds, now and after a step.
LEMMA ReadNow == Gets(GetFrom(miss, LogsKey, "logs"), miss[LogsKey], LogsKey, "logs")
  BY GetFromIs

LEMMA ReadAfter == Gets(GetFrom(miss, LogsKey, "logs"), miss[LogsKey], LogsKey, "logs")'
  BY ReadNow, PTL

\* A step that leaves the file and what miss_map_ has for "logs" leaves its items.
LEMMA ItemsSame ==
  ASSUME format' = format, file' = file, miss'[LogsKey] = miss[LogsKey]
  PROVE  LogItems' = LogItems
<1> DEFINE read == GetFrom(miss, LogsKey, "logs")
<1>1. Gets(read, miss[LogsKey], LogsKey, "logs")
  BY ReadNow
<1>2. Gets(read, miss[LogsKey], LogsKey, "logs")'
  BY ReadAfter
<1>3. /\ Missing(LogsKey)' = Missing(LogsKey) /\ Found(LogsKey)' = Found(LogsKey)
      /\ Converted(LogsKey, "logs")' = Converted(LogsKey, "logs")
  BY DEF Missing, Found, Converted
<1> HIDE DEF read
<1>4. read' = read
  BY <1>1, <1>2, <1>3 DEF Gets
<1> QED BY <1>4 DEF LogItems, read

\* Once "logs" has a value no call changes it.
LEMMA ItemsKept ==
  ASSUME CInv(AllValues), Settled, [ConfigNext]_config
  PROVE  Settled' /\ LogItems' = LogItems
<1>1. LogsKey \in Keys
  BY LoggingAssumption
<1>2. miss'[LogsKey] = miss[LogsKey] /\ format' = format /\ file' = file
  <2>1. CASE UNCHANGED config
    BY <2>1 DEF config
  <2>2. CASE ConfigNext
    <3>1. PICK k \in Keys, T \in Types : \E d : Call(AllValues, k, T, d)
      BY <2>2, AllValuesAre, CallsAre
    <3>d. PICK d : Call(AllValues, k, T, d)
      BY <3>1
    <3>2. /\ format' = format /\ file' = file
          /\ \/ miss' = miss
             \/ miss[k] = Absent /\ Missing(k) /\ miss' = [miss EXCEPT ![k] = d]
      BY <3>d, AllValuesAre, CallChanges
    <3>3. miss \in [Keys -> AllValues \cup {Absent}]
      BY DEF CInv, ConfigTypes
    <3> QED BY <1>1, <3>2, <3>3 DEF Settled
  <2> QED BY <2>1, <2>2
<1>3. Missing(LogsKey)' = Missing(LogsKey)
  BY <1>2 DEF Missing, Found
<1> QED BY <1>2, <1>3, ItemsSame DEF Settled

\* Calls keep the invariant of the configuration.
LEMMA ConfigNextKeeps ==
  ASSUME CInv(AllValues), [ConfigNext]_config
  PROVE  CInv(AllValues)'
<1>1. CASE ConfigNext
  <2>1. PICK k \in Keys, T \in Types : \E d : Call(AllValues, k, T, d)
    BY <1>1, AllValuesAre, CallsAre
  <2> QED BY <2>1, AllValuesAre, CallKeeps
<1>2. CASE UNCHANGED config
  BY <1>2, ConfigSame
<1> QED BY <1>1, <1>2

\* A step that adds no logger and no flusher.
SameShape ==
  /\ objs' \in Seq(Objs) /\ Len(objs') = Len(objs)
  /\ \A l \in 1..Len(objs) : objs'[l].flushers = objs[l].flushers
  /\ sinks' \in Seq(Sinks) /\ Len(sinks') = Len(sinks)
  /\ \A s \in 1..Len(sinks) : sinks'[s].kind = sinks[s].kind
  /\ loggers' = loggers /\ default' = default /\ known' = known

\* It keeps what LogManager was built from.
LEMMA BuiltKept ==
  ASSUME LoggingInv, SameShape, [ConfigNext]_config
  PROVE  Built'
<1> SUFFICES ASSUME objs' # <<>>
             PROVE  (/\ Settled /\ LogItems \in Seq(Items) /\ Len(objs) = Len(LogItems) + 1
                     /\ \A l \in 1..Len(objs) : Fits(objs[l].flushers, sinks, KindList(known, LogItems, l))
                     /\ BuiltNames([loggers |-> loggers, default |-> default], LogItems, Len(LogItems)))'
  BY DEF Built
<1>1. objs # <<>> /\ objs \in Seq(Objs) /\ sinks \in Seq(Sinks)
  <2>1. objs \in Seq(Objs) /\ sinks \in Seq(Sinks)
    BY DEF LoggingInv, LogTypes
  <2>2. Len(objs') # 0
    BY DEF SameShape
  <2> QED BY <2>1, <2>2 DEF SameShape
<1>2. /\ Settled /\ LogItems \in Seq(Items) /\ Len(objs) = Len(LogItems) + 1
      /\ \A l \in 1..Len(objs) : Fits(objs[l].flushers, sinks, KindList(known, LogItems, l))
      /\ BuiltNames([loggers |-> loggers, default |-> default], LogItems, Len(LogItems))
  BY <1>1 DEF LoggingInv, Built
<1>3. Settled' /\ LogItems' = LogItems
  BY <1>2, ItemsKept DEF LoggingInv
<1>4. BuiltNames([loggers |-> loggers, default |-> default], LogItems, Len(LogItems))'
  BY <1>2, <1>3 DEF BuiltNames, NamedBy, SameShape
<1>5. ASSUME NEW l \in 1..Len(objs')
      PROVE  Fits(objs'[l].flushers, sinks', KindList(known, LogItems, l)')
  <2>1. l \in 1..Len(objs) /\ objs'[l].flushers = objs[l].flushers
    BY DEF SameShape
  <2>2. KindList(known, LogItems, l)' = KindList(known, LogItems, l)
    BY <1>3 DEF KindList, ItemKinds, FlusherKind, SameShape
  <2>3. DOMAIN sinks = 1..Len(sinks) /\ DOMAIN sinks' = 1..Len(sinks)
    BY <1>1 DEF SameShape
  <2>4. \A s \in DOMAIN sinks : s \in DOMAIN sinks' /\ sinks'[s].kind = sinks[s].kind
    BY <2>3 DEF SameShape
  <2>5. PICK fl, kinds : fl = objs[l].flushers /\ kinds = KindList(known, LogItems, l)
    OBVIOUS
  <2>6. Fits(fl, sinks, kinds)
    BY <1>2, <2>1, <2>5
  <2>7. Fits(fl, sinks', kinds)
    BY <2>4, <2>6 DEF Fits
  <2> QED BY <2>1, <2>2, <2>5, <2>7
<1> QED BY <1>2, <1>3, <1>4, <1>5 DEF SameShape

\* A logger's flushers are there, and are different flushers.
LEMMA FlushersAre ==
  ASSUME LoggingInv, NEW l \in 1..Len(objs)
  PROVE  /\ objs[l].flushers \in Seq(Nat)
         /\ \A i \in 1..Len(objs[l].flushers) : objs[l].flushers[i] \in 1..Len(sinks)
         /\ \A i, j \in 1..Len(objs[l].flushers) :
              objs[l].flushers[i] = objs[l].flushers[j] => i = j
<1>1. objs \in Seq(Objs) /\ sinks \in Seq(Sinks)
  BY DEF LoggingInv, LogTypes
<1>2. objs # <<>> /\ objs[l] \in Objs
  BY <1>1
<1>3. objs[l].flushers \in Seq(Nat)
  BY <1>2 DEF Objs
<1>4. Fits(objs[l].flushers, sinks, KindList(known, LogItems, l))
  BY <1>2 DEF LoggingInv, Built
<1>5. PICK fl \in Seq(Nat) : fl = objs[l].flushers
  BY <1>3
<1>6. DOMAIN fl = 1..Len(fl) /\ DOMAIN sinks = 1..Len(sinks)
  BY <1>1
<1>7. /\ \A i \in DOMAIN fl : fl[i] \in DOMAIN sinks
      /\ \A i, j \in DOMAIN fl : fl[i] = fl[j] => i = j
  BY <1>4, <1>5 DEF Fits
<1> QED BY <1>3, <1>5, <1>6, <1>7

\* getLogger and getDefault return loggers.
LEMMA PointersAre ==
  ASSUME LoggingInv
  PROVE  Pointers \subseteq 1..Len(objs)
<1>1. CASE objs = <<>>
  BY <1>1 DEF LoggingInv, NoneYet, Pointers
<1>2. CASE objs # <<>>
  <2> DEFINE N == Len(LogItems)
             m == [loggers |-> loggers, default |-> default]
  <2>1. LogItems \in Seq(Items) /\ Len(objs) = N + 1 /\ BuiltNames(m, LogItems, N)
    BY <1>2 DEF LoggingInv, Built
  <2>2. N \in Nat
    BY <2>1
  <2>3. /\ "root" \in DOMAIN loggers /\ default = loggers["root"]
        /\ \A name \in DOMAIN loggers : NamedBy(loggers[name], LogItems, N, name)
    BY <2>1 DEF BuiltNames
  <2> HIDE DEF N
  <2>4. \A name \in DOMAIN loggers : loggers[name] \in 1..(N + 1)
    BY <2>2, <2>3 DEF NamedBy
  <2> QED BY <2>1, <2>3, <2>4 DEF Pointers
<1> QED BY <1>1, <1>2

-----------------------------------------------------------------------------
(* What a flusher has got.                                                 *)

\* The records of thread t in q, and that they are in order.
PartOf(q, t) == {i \in 1..Len(q) : q[i].by = t}
SetOf(q, t)  == {q[i] : i \in PartOf(q, t)}
Sorted(q, t) == \A i, j \in PartOf(q, t) : i < j => q[i].n < q[j].n

\* One more record.
LEMMA OneMore ==
  ASSUME NEW q \in Seq(Records), NEW r \in Records, NEW t
  PROVE  /\ SetOf(Append(q, r), t) = SetOf(q, t) \cup (IF r.by = t THEN {r} ELSE {})
         /\ Sorted(q, t) /\ (r.by = t => \A x \in SetOf(q, t) : x.n < r.n) => Sorted(Append(q, r), t)
<1> DEFINE p == Append(q, r)
           N == Len(q)
<1>1. N \in Nat /\ Len(p) = N + 1 /\ p[N + 1] = r /\ \A i \in 1..N : p[i] = q[i]
  OBVIOUS
<1>2. \A i \in 1..(N + 1) : i \in 1..N \/ i = N + 1
  BY <1>1
<1>3. N + 1 \in 1..(N + 1) /\ N + 1 \notin 1..N /\ \A i \in 1..N : i \in 1..(N + 1) /\ i < N + 1
  BY <1>1
<1> HIDE DEF p, N
<1>4. PartOf(p, t) = PartOf(q, t) \cup (IF r.by = t THEN {N + 1} ELSE {})
  BY <1>1, <1>2, <1>3 DEF PartOf, N
<1>5. \A i \in PartOf(q, t) : i \in 1..N /\ p[i] = q[i]
  BY <1>1 DEF PartOf, N
<1>6. SetOf(p, t) = SetOf(q, t) \cup (IF r.by = t THEN {r} ELSE {})
  <2>1. CASE r.by = t
    BY <1>1, <1>4, <1>5, <2>1 DEF SetOf
  <2>2. CASE r.by # t
    BY <1>4, <1>5, <2>2 DEF SetOf
  <2> QED BY <2>1, <2>2
<1>7. ASSUME Sorted(q, t), r.by = t => \A x \in SetOf(q, t) : x.n < r.n,
             NEW i \in PartOf(p, t), NEW j \in PartOf(p, t), i < j
      PROVE  p[i].n < p[j].n
  <2>1. CASE j \in PartOf(q, t)
    <3>1. i \in PartOf(q, t)
      <4>1. j \in 1..N /\ i # N + 1
        BY <1>1, <1>5, <1>7, <2>1
      <4> QED BY <1>4, <1>7, <4>1
    <3> QED BY <1>5, <1>7, <2>1, <3>1 DEF Sorted
  <2>2. CASE j \notin PartOf(q, t)
    <3>1. r.by = t /\ j = N + 1
      BY <1>4, <1>7, <2>2
    <3>2. i \in PartOf(q, t)
      BY <1>1, <1>4, <1>7, <3>1
    <3>3. q[i] \in SetOf(q, t)
      BY <3>2 DEF SetOf
    <3> QED BY <1>1, <1>5, <1>7, <3>1, <3>2, <3>3
  <2> QED BY <2>1, <2>2
<1>8. Sorted(q, t) /\ (r.by = t => \A x \in SetOf(q, t) : x.n < r.n) => Sorted(p, t)
  BY <1>7 DEF Sorted
<1> QED BY <1>6, <1>8 DEF p

\* EveryRecordOnce for one flusher and one thread.
Flushed(s, t) ==
  SetOf(Got(s), t) = {hist[t][n] : n \in Due(t, s)} /\ Sorted(Got(s), t)

Guarded(s) == sinks[s].kind \notin {"SimpleFile", "SimpleStdout", "String"}

\* What a flusher has got is a sequence of records.
LEMMA GotIs ==
  ASSUME LogTypes, NEW s \in 1..Len(sinks)
  PROVE  Got(s) \in Seq(Records) /\ DOMAIN Got(s) = 1..Len(Got(s))
<1>1. sinks[s] \in Sinks
  BY DEF LogTypes
<1>2. sinks[s].out \in Seq(Records) /\ sinks[s].buf \in Seq(Records)
  BY <1>1 DEF Sinks
<1> QED BY <1>2 DEF Got

\* EveryRecordOnce, flusher by flusher and thread by thread.
LEMMA OnceIs ==
  LogTypes => (EveryRecordOnce <=> \A s \in 1..Len(sinks), t \in Threads : Guarded(s) => Flushed(s, t))
<1> SUFFICES ASSUME LogTypes
             PROVE  EveryRecordOnce <=> \A s \in 1..Len(sinks), t \in Threads : Guarded(s) => Flushed(s, t)
  OBVIOUS
<1>1. DOMAIN sinks = 1..Len(sinks)
  BY DEF LogTypes
<1>2. ASSUME NEW s \in 1..Len(sinks), NEW t \in Threads
      PROVE  Flushed(s, t) <=>
               /\ {Got(s)[i] : i \in Mine(s, t)} = {hist[t][n] : n \in Due(t, s)}
               /\ \A i, j \in Mine(s, t) : i < j => Got(s)[i].n < Got(s)[j].n
  <2>1. Mine(s, t) = PartOf(Got(s), t)
    BY GotIs DEF Mine, PartOf
  <2> QED BY <2>1 DEF Flushed, SetOf, Sorted
<1> QED BY <1>1, <1>2 DEF EveryRecordOnce, Guarded

\* The same after a step.
LEMMA OnceAfter ==
  LogTypes' => (EveryRecordOnce' <=> \A s \in 1..Len(sinks'), t \in Threads : Guarded(s)' => Flushed(s, t)')
<1>1. (LogTypes => (EveryRecordOnce <=> \A s \in 1..Len(sinks), t \in Threads : Guarded(s) => Flushed(s, t)))'
  BY OnceIs, PTL
<1> QED BY <1>1

\* Where a thread is in Logger::log.
LEMMA RunFacts ==
  ASSUME LoggingInv, NEW t \in Threads, run[t].at # "idle"
  PROVE  /\ run[t] \in Flushing \cup Appending
         /\ run[t].rec \in Records /\ run[t].rec.by = t /\ run[t].rec.n = Len(hist[t])
         /\ hist[t] \in Seq(Records) /\ Len(hist[t]) \in Nat /\ Len(hist[t]) # 0
         /\ run[t].rec = hist[t][Len(hist[t])] /\ run[t].rec.log \in 1..Len(objs)
         /\ Flushers(t) \in Seq(Nat) /\ run[t].i \in 1..(Len(Flushers(t)) + 1)
         /\ \A i \in 1..Len(Flushers(t)) : Flushers(t)[i] \in 1..Len(sinks)
         /\ \A i, j \in 1..Len(Flushers(t)) : Flushers(t)[i] = Flushers(t)[j] => i = j
<1>1. run[t] \in Flushing \cup Appending
  BY DEF LoggingInv, LogTypes, Idle
<1>2. run[t].rec \in Records
  BY <1>1 DEF Flushing, Appending
<1>3. hist[t] \in Seq(Records)
  BY DEF LoggingInv, LogTypes
<1>4. /\ hist[t] # <<>> /\ run[t].rec = hist[t][Len(hist[t])]
      /\ run[t].i \in 1..(Len(Flushers(t)) + 1)
  BY DEF LoggingInv, FlushesLast
<1>5. Len(hist[t]) \in Nat /\ Len(hist[t]) # 0 /\ Len(hist[t]) \in 1..Len(hist[t])
  BY <1>3, <1>4
<1>6. run[t].rec.by = t /\ run[t].rec.n = Len(hist[t]) /\ run[t].rec.log \in 1..Len(objs)
  BY <1>4, <1>5 DEF LoggingInv, HistNumbered
<1>7. /\ Flushers(t) \in Seq(Nat)
      /\ \A i \in 1..Len(Flushers(t)) : Flushers(t)[i] \in 1..Len(sinks)
      /\ \A i, j \in 1..Len(Flushers(t)) : Flushers(t)[i] = Flushers(t)[j] => i = j
  BY <1>6, FlushersAre DEF Flushers
<1> QED BY <1>1, <1>2, <1>3, <1>4, <1>5, <1>6, <1>7

\* A step of another thread, or one that stays at its flusher.
LEMMA FlushersSame ==
  ASSUME LoggingInv, SameShape, NEW t \in Threads, run[t].at # "idle", run'[t].rec = run[t].rec
  PROVE  Flushers(t)' = Flushers(t)
<1>1. run[t].rec.log \in 1..Len(objs)
  BY RunFacts
<1> QED BY <1>1 DEF Flushers, SameShape

\* A record is as late as before for a thread that did not go on.
LEMMA LateKept ==
  ASSUME LoggingInv, SameShape, NEW t \in Threads, NEW s,
         \/ run'[t] = run[t]
         \/ /\ run[t].at # "idle" /\ run'[t].at # "idle"
            /\ run'[t].rec = run[t].rec /\ run'[t].i = run[t].i
  PROVE  Late(t, s)' <=> Late(t, s)
<1>1. CASE run[t].at = "idle"
  BY <1>1 DEF Late
<1>2. CASE run[t].at # "idle"
  <2>1. Flushers(t)' = Flushers(t)
    BY <1>2, FlushersSame
  <2> QED BY <1>2, <2>1 DEF Late
<1> QED BY <1>1, <1>2

\* What is due of a thread's records, when none is added and the last one is as
\* late as before.
LEMMA DueKept ==
  ASSUME LoggingInv, SameShape, NEW t \in Threads, NEW s, hist'[t] = hist[t],
         Late(t, s)' <=> Late(t, s)
  PROVE  Due(t, s)' = Due(t, s)
<1>1. hist[t] \in Seq(Records) /\ DOMAIN hist[t] = 1..Len(hist[t])
  BY DEF LoggingInv, LogTypes
<1>2. \A n \in DOMAIN hist[t] : hist[t][n].log \in 1..Len(objs)
  BY <1>1 DEF LoggingInv, HistNumbered
<1>3. \A n \in DOMAIN hist[t] : objs'[hist[t][n].log].flushers = objs[hist[t][n].log].flushers
  BY <1>2 DEF SameShape
<1> QED BY <1>3 DEF Due

\* A flusher that gets nothing, or a record of another thread, still has what is
\* due of t's.
LEMMA FlushedKept ==
  ASSUME LoggingInv, SameShape, NEW s \in 1..Len(sinks), NEW t \in Threads,
         hist'[t] = hist[t], Late(t, s)' <=> Late(t, s), Flushed(s, t),
         \/ Got(s)' = Got(s)
         \/ \E r \in Records : r.by # t /\ Got(s)' = Append(Got(s), r)
  PROVE  Flushed(s, t)'
<1>1. Due(t, s)' = Due(t, s)
  BY DueKept
<1>2. Got(s) \in Seq(Records)
  BY GotIs DEF LoggingInv
<1>3. SetOf(Got(s)', t) = SetOf(Got(s), t) /\ Sorted(Got(s)', t)
  <2>1. CASE Got(s)' = Got(s)
    BY <2>1 DEF Flushed
  <2>2. ASSUME NEW r \in Records, r.by # t, Got(s)' = Append(Got(s), r)
        PROVE  SetOf(Got(s)', t) = SetOf(Got(s), t) /\ Sorted(Got(s)', t)
    <3>1. Sorted(Got(s), t)
      BY DEF Flushed
    <3>2. PICK q \in Seq(Records) : q = Got(s)
      BY <1>2
    <3>3. SetOf(Append(q, r), t) = SetOf(q, t) \cup (IF r.by = t THEN {r} ELSE {}) /\ Sorted(Append(q, r), t)
      BY <2>2, <3>1, <3>2, OneMore
    <3> QED BY <2>2, <3>2, <3>3
  <2> QED BY <2>1, <2>2
<1>4. (SetOf(Got(s), t))' = SetOf(Got(s)', t) /\ (Sorted(Got(s), t))' = Sorted(Got(s)', t)
  BY DEF SetOf, Sorted, PartOf
<1> QED BY <1>1, <1>3, <1>4 DEF Flushed

\* The last record is due once the thread has passed the flusher.
LEMMA FlushedMore ==
  ASSUME LoggingInv, SameShape, NEW t \in Threads, run[t].at # "idle",
         run[t].i <= Len(Flushers(t)), hist'[t] = hist[t],
         run'[t].rec = run[t].rec, run'[t].i = run[t].i + 1, run'[t].at = "flush",
         NEW s, s = At(t), Flushed(s, t), Got(s)' = Append(Got(s), run[t].rec)
  PROVE  Flushed(s, t)'
<1> DEFINE N == Len(hist[t])
           r == run[t].rec
           fl == Flushers(t)
<1>1. /\ r \in Records /\ r.by = t /\ r.n = N /\ r = hist[t][N] /\ r.log \in 1..Len(objs)
      /\ hist[t] \in Seq(Records) /\ N \in Nat /\ N # 0
      /\ fl \in Seq(Nat) /\ run[t].i \in 1..(Len(fl) + 1)
      /\ \A i \in 1..Len(fl) : fl[i] \in 1..Len(sinks)
      /\ \A i, j \in 1..Len(fl) : fl[i] = fl[j] => i = j
  BY RunFacts
<1>2. run[t].i \in 1..Len(fl) /\ DOMAIN fl = 1..Len(fl) /\ s = fl[run[t].i]
  BY <1>1 DEF At
<1>3. Flushers(t)' = fl
  BY FlushersSame
<1>4. Late(t, s)
  <2>1. run[t].i >= run[t].i
    BY <1>2
  <2>2. \E i \in DOMAIN fl : i >= run[t].i /\ fl[i] = s
    BY <1>2, <2>1
  <2> QED BY <2>2 DEF Late
<1>5. ~Late(t, s)'
  <2> SUFFICES ASSUME NEW i \in DOMAIN fl, i >= run[t].i + 1, fl[i] = s PROVE FALSE
    BY <1>3 DEF Late
  <2>1. i = run[t].i
    BY <1>1, <1>2
  <2> QED BY <1>2, <2>1
<1>6. s \in Range(objs[r.log].flushers)
  <2>1. s \in {fl[i] : i \in DOMAIN fl}
    BY <1>2
  <2> QED BY <2>1 DEF Range, Flushers
<1>7. Due(t, s)' = Due(t, s) \cup {N} /\ \A n \in Due(t, s) : n \in 1..N /\ n # N
  <2>1. DOMAIN hist[t] = 1..N
    BY <1>1
  <2>2. \A n \in 1..N : hist[t][n].log \in 1..Len(objs)
    BY DEF LoggingInv, HistNumbered
  <2>3. \A n \in 1..N : objs'[hist[t][n].log].flushers = objs[hist[t][n].log].flushers
    BY <2>2 DEF SameShape
  <2>4. N \in 1..N /\ s \in Range(objs[hist[t][N].log].flushers)
    BY <1>1, <1>6
  <2>5. Due(t, s) = {n \in 1..N : s \in Range(objs[hist[t][n].log].flushers) /\ n # N}
    BY <1>4, <2>1 DEF Due
  <2>6. Due(t, s)' = {n \in 1..N : s \in Range(objs'[hist[t][n].log].flushers)}
    BY <1>5, <2>1 DEF Due
  <2> HIDE DEF N
  <2> QED BY <2>3, <2>4, <2>5, <2>6
<1>8. {hist[t][n] : n \in Due(t, s)} \cup {r} = {hist'[t][n] : n \in Due(t, s)'}
  BY <1>1, <1>7
<1>9. Got(s) \in Seq(Records)
  <2>1. s \in 1..Len(sinks)
    BY <1>1, <1>2
  <2> QED BY <2>1, GotIs DEF LoggingInv
<1>10. SetOf(Got(s), t) = {hist[t][n] : n \in Due(t, s)} /\ Sorted(Got(s), t)
  BY DEF Flushed
<1>11. ASSUME NEW x \in SetOf(Got(s), t) PROVE x.n < r.n
  <2>1. PICK n \in Due(t, s) : x = hist[t][n]
    BY <1>10
  <2>2. n \in 1..N /\ n # N
    BY <1>7
  <2>3. x.n = n
    BY <2>1, <2>2 DEF LoggingInv, HistNumbered
  <2> QED BY <1>1, <2>2, <2>3
<1>12. SetOf(Append(Got(s), r), t) = SetOf(Got(s), t) \cup {r} /\ Sorted(Append(Got(s), r), t)
  BY <1>1, <1>9, <1>10, <1>11, OneMore
<1>13. (SetOf(Got(s), t))' = SetOf(Got(s)', t) /\ (Sorted(Got(s), t))' = Sorted(Got(s)', t)
  BY DEF SetOf, Sorted, PartOf
<1> QED BY <1>8, <1>10, <1>12, <1>13 DEF Flushed

\* Passing one flusher changes nothing for the others.
LEMMA LateElsewhere ==
  ASSUME LoggingInv, SameShape, NEW t \in Threads, run[t].at # "idle",
         run[t].i <= Len(Flushers(t)),
         run'[t].rec = run[t].rec, run'[t].i = run[t].i + 1, run'[t].at = "flush",
         NEW s, s # At(t)
  PROVE  Late(t, s)' <=> Late(t, s)
<1>1. Flushers(t) \in Seq(Nat) /\ run[t].i \in 1..(Len(Flushers(t)) + 1)
  BY RunFacts
<1>2. Flushers(t)' = Flushers(t)
  BY FlushersSame
<1>3. \A i \in DOMAIN Flushers(t) : Flushers(t)[i] = s => (i >= run[t].i <=> i >= run[t].i + 1)
  BY <1>1 DEF At
<1> QED BY <1>2, <1>3 DEF Late

-----------------------------------------------------------------------------
(* Steps that add no logger and no flusher.                                *)

\* The parts of the invariant that such a step can disturb are enough.
LEMMA ShapeStep ==
  ASSUME LoggingInv, SameShape, [ConfigNext]_config,
         objs = <<>> => hist' = hist,
         LogTypes', HistNumbered', FlushesLast', AppendsAlone', Unbuffered',
         \A s \in 1..Len(sinks), t \in Threads : Guarded(s) => Flushed(s, t)'
  PROVE  LoggingInv'
<1>1. CInv(AllValues)'
  BY ConfigNextKeeps DEF LoggingInv
<1>2. Built'
  BY BuiltKept
<1>3. objs \in Seq(Objs) /\ sinks \in Seq(Sinks) /\ objs' \in Seq(Objs) /\ sinks' \in Seq(Sinks)
  BY DEF LoggingInv, LogTypes, SameShape
<1>4. NoneYet'
  <2> SUFFICES ASSUME objs' = <<>>
               PROVE  sinks' = <<>> /\ DOMAIN loggers' = {} /\ default' = 0 /\ \A t \in Threads : hist'[t] = <<>>
    BY DEF NoneYet
  <2>1. objs = <<>>
    BY <1>3 DEF SameShape
  <2>2. sinks = <<>> /\ DOMAIN loggers = {} /\ default = 0 /\ \A t \in Threads : hist[t] = <<>>
    BY <2>1 DEF LoggingInv, NoneYet
  <2>3. sinks' = <<>>
    <3>1. Len(sinks') = 0
      BY <2>2 DEF SameShape
    <3> QED BY <1>3, <3>1
  <2> QED BY <2>1, <2>2, <2>3 DEF SameShape
<1>5. EveryRecordOnce'
  <2>1. \A s \in 1..Len(sinks) : Guarded(s)' <=> Guarded(s)
    BY DEF Guarded, SameShape
  <2>2. \A s \in 1..Len(sinks'), t \in Threads : Guarded(s)' => Flushed(s, t)'
    BY <2>1 DEF SameShape
  <2> QED BY <2>2, OnceAfter
<1> QED BY <1>1, <1>2, <1>4, <1>5 DEF LoggingInv

\* Before the step every flusher has what is due.
LEMMA FlushedBefore ==
  ASSUME LoggingInv, NEW s \in 1..Len(sinks), NEW t \in Threads, Guarded(s)
  PROVE  Flushed(s, t)
  BY OnceIs DEF LoggingInv

\* The records stay numbered.
LEMMA NumberedKept ==
  ASSUME LoggingInv, SameShape, hist' = hist
  PROVE  HistNumbered'
  BY DEF LoggingInv, HistNumbered, SameShape

\* A thread that goes on with its record.
LEMMA LastKept ==
  ASSUME LoggingInv, SameShape, NEW t \in Threads, hist'[t] = hist[t], run'[t].at # "idle",
         \/ run'[t] = run[t]
         \/ /\ run[t].at # "idle" /\ run'[t].rec = run[t].rec
            /\ run'[t].i \in 1..(Len(Flushers(t)) + 1)
  PROVE  /\ hist'[t] # <<>> /\ run'[t].rec = hist'[t][Len(hist'[t])]
         /\ run'[t].i \in 1..(Len(Flushers(t)') + 1)
<1>1. run[t].at # "idle" /\ run'[t].rec = run[t].rec
  OBVIOUS
<1>2. Flushers(t)' = Flushers(t)
  BY <1>1, FlushersSame
<1>3. /\ hist[t] # <<>> /\ run[t].rec = hist[t][Len(hist[t])]
      /\ run[t].i \in 1..(Len(Flushers(t)) + 1)
  BY <1>1 DEF LoggingInv, FlushesLast
<1> QED BY <1>1, <1>2, <1>3

\* A thread inside append that another one leaves alone.
LEMMA AloneKept ==
  ASSUME LoggingInv, SameShape, NEW t \in Threads, run'[t] = run[t], run[t].at = "append",
         sinks[At(t)].kind = "ProtectedFile" =>
           sinks'[At(t)].lock = sinks[At(t)].lock /\ sinks'[At(t)].buf = sinks[At(t)].buf
  PROVE  /\ run'[t].i <= Len(Flushers(t)') /\ sinks'[At(t)'].kind \in FileKinds
         /\ sinks'[At(t)'].kind = "ProtectedFile" =>
              sinks'[At(t)'].lock = {t} /\ run'[t].buf = sinks'[At(t)'].buf
<1>1. Flushers(t)' = Flushers(t)
  BY FlushersSame
<1>2. At(t)' = At(t)
  BY <1>1 DEF At
<1>3. /\ run[t].i <= Len(Flushers(t)) /\ sinks[At(t)].kind \in FileKinds
      /\ sinks[At(t)].kind = "ProtectedFile" =>
           sinks[At(t)].lock = {t} /\ run[t].buf = sinks[At(t)].buf
  BY DEF LoggingInv, AppendsAlone
<1>4. At(t) \in 1..Len(sinks)
  <2>1. run[t].i \in 1..Len(Flushers(t)) /\ \A i \in 1..Len(Flushers(t)) : Flushers(t)[i] \in 1..Len(sinks)
    BY <1>3, RunFacts
  <2> QED BY <2>1 DEF At
<1>5. sinks'[At(t)].kind = sinks[At(t)].kind
  BY <1>4 DEF SameShape
<1> QED BY <1>1, <1>2, <1>3, <1>5

\* The primed parts of the invariant, thread by thread.
LEMMA PartsAfter ==
  /\ FlushesLast' <=> \A t \in Threads : run'[t].at # "idle" =>
       /\ hist'[t] # <<>> /\ run'[t].rec = hist'[t][Len(hist'[t])]
       /\ run'[t].i \in 1..(Len(Flushers(t)') + 1)
  /\ AppendsAlone' <=> \A t \in Threads : run'[t].at = "append" =>
       /\ run'[t].i <= Len(Flushers(t)') /\ sinks'[At(t)'].kind \in FileKinds
       /\ sinks'[At(t)'].kind = "ProtectedFile" =>
            sinks'[At(t)'].lock = {t} /\ run'[t].buf = sinks'[At(t)'].buf
  /\ Unbuffered' <=> \A s \in 1..Len(sinks') : sinks'[s].kind \in DirectKinds => sinks'[s].buf = <<>>
  BY DEF FlushesLast, AppendsAlone, Unbuffered

\* The threads and the flushers stand still.
LEMMA QuietStep ==
  ASSUME LoggingInv, SameShape, [ConfigNext]_config,
         LogTypes', sinks' = sinks, run' = run, hist' = hist
  PROVE  LoggingInv'
<1>1. HistNumbered'
  BY NumberedKept
<1>2. FlushesLast'
  BY LastKept, PartsAfter
<1>3. AppendsAlone'
  BY AloneKept, PartsAfter
<1>4. Unbuffered'
  BY DEF LoggingInv, Unbuffered
<1>5. ASSUME NEW s \in 1..Len(sinks), NEW t \in Threads, Guarded(s) PROVE Flushed(s, t)'
  <2>1. Late(t, s)' <=> Late(t, s)
    BY LateKept
  <2>2. Got(s)' = Got(s)
    BY DEF Got
  <2>3. Flushed(s, t)
    BY <1>5, FlushedBefore
  <2> QED BY <2>1, <2>2, <2>3, FlushedKept
<1> QED BY <1>1, <1>2, <1>3, <1>4, <1>5, ShapeStep

\* A flusher with new contents.
Written(x, q, b, h) == [kind |-> x.kind, buf |-> b, out |-> q, lock |-> h]

\* It is one of the flushers.
LEMMA WrittenIs ==
  ASSUME NEW x \in Sinks, NEW q \in Seq(Records), NEW b \in Seq(Records), NEW h \in SUBSET Threads
  PROVE  /\ Written(x, q, b, h) \in Sinks
         /\ Written(x, q, b, h).kind = x.kind /\ Written(x, q, b, h).out = q
         /\ Written(x, q, b, h).buf = b /\ Written(x, q, b, h).lock = h
  BY DEF Sinks, Written

\* What EXCEPT makes of a flusher.
LEMMA SinkIs ==
  ASSUME NEW x \in Sinks, NEW q, NEW b, NEW h
  PROVE  /\ x.out \in Seq(Records) /\ x.buf \in Seq(Records) /\ x.lock \in SUBSET Threads
         /\ [x EXCEPT !.out = q, !.buf = b] = Written(x, q, b, x.lock)
         /\ [x EXCEPT !.out = q] = Written(x, q, x.buf, x.lock)
         /\ [x EXCEPT !.buf = b] = Written(x, x.out, b, x.lock)
         /\ [x EXCEPT !.lock = h] = Written(x, x.out, x.buf, h)
<1>1. /\ x = [kind |-> x.kind, buf |-> x.buf, out |-> x.out, lock |-> x.lock]
      /\ x.out \in Seq(Records) /\ x.buf \in Seq(Records) /\ x.lock \in SUBSET Threads
  BY DEF Sinks
<1>2. PICK i, j, k, l : i = x.kind /\ j = x.buf /\ k = x.out /\ l = x.lock
  OBVIOUS
<1>3. x = [kind |-> i, buf |-> j, out |-> k, lock |-> l]
  BY <1>1, <1>2
<1>4. [x EXCEPT !.out = q, !.buf = b] = [kind |-> i, buf |-> b, out |-> q, lock |-> l]
  <2>1. PICK y : y = [x EXCEPT !.out = q, !.buf = b]
    OBVIOUS
  <2>2. y = [kind |-> i, buf |-> b, out |-> q, lock |-> l]
    BY <1>3, <2>1
  <2> QED BY <2>1, <2>2
<1>6. [x EXCEPT !.out = q] = [kind |-> i, buf |-> j, out |-> q, lock |-> l]
  BY <1>3
<1>7. [x EXCEPT !.buf = b] = [kind |-> i, buf |-> b, out |-> k, lock |-> l]
  BY <1>3
<1>8. [x EXCEPT !.lock = h] = [kind |-> i, buf |-> j, out |-> k, lock |-> h]
  BY <1>3
<1> QED BY <1>1, <1>2, <1>4, <1>6, <1>7, <1>8 DEF Written

\* A step that writes one flusher.
LEMMA OneSink ==
  ASSUME LoggingInv, NEW s \in 1..Len(sinks), NEW k \in Sinks, k.kind = sinks[s].kind,
         sinks' = [sinks EXCEPT ![s] = k], UNCHANGED logs
  PROVE  /\ SameShape /\ sinks' \in Seq(Sinks) /\ sinks'[s] = k
         /\ \A x \in 1..Len(sinks) : x # s => sinks'[x] = sinks[x]
<1>1. /\ objs \in Seq(Objs) /\ sinks \in Seq(Sinks) /\ objs' = objs
      /\ loggers' = loggers /\ default' = default /\ known' = known
  BY DEF LoggingInv, LogTypes, logs
<1>2. /\ sinks' \in Seq(Sinks) /\ Len(sinks') = Len(sinks) /\ sinks'[s] = k
      /\ \A x \in 1..Len(sinks) : x # s => sinks'[x] = sinks[x]
  BY <1>1
<1> QED BY <1>1, <1>2 DEF SameShape

\* Calls of the configuration.
LEMMA ConfigStep ==
  ASSUME LoggingInv, [ConfigNext]_config, UNCHANGED <<makers, logs, sinks, run, hist>>
  PROVE  LoggingInv'
<1>1. SameShape
  BY DEF LoggingInv, LogTypes, SameShape, logs
<1>2. LogTypes'
  BY DEF LoggingInv, LogTypes, logs
<1> QED BY <1>1, <1>2, QuietStep

\* rigisterFlushMaker, before there is a LogManager or after.
LEMMA RegisterStep ==
  ASSUME LoggingInv, NEW id \in Ids, NEW caps, NEW kind \in NewKinds,
         RegisterFlushMaker(Key(id, caps), kind)
  PROVE  LoggingInv'
<1>1. UNCHANGED <<config, logs, sinks, run, hist>>
  BY DEF RegisterFlushMaker
<1>2. SameShape
  BY <1>1 DEF LoggingInv, LogTypes, SameShape, logs
<1>3. \A x \in DOMAIN makers' : makers'[x] \in AllKinds
  <2>1. makers' = [x \in DOMAIN makers \cup {id} |-> IF x \in DOMAIN makers THEN makers[x] ELSE kind]
    BY DEF RegisterFlushMaker, Emplace, Key
  <2> QED BY <2>1 DEF LoggingInv, LogTypes, AllKinds
<1>4. LogTypes'
  BY <1>1, <1>3 DEF LoggingInv, LogTypes, logs
<1> QED BY <1>1, <1>2, <1>4, QuietStep

\* setLevel.
LEMMA LevelStep ==
  ASSUME LoggingInv, NEW l \in DOMAIN objs, NEW level \in Levels, SetLevel(l, level)
  PROVE  LoggingInv'
<1>1. UNCHANGED <<config, makers, loggers, default, known, sinks, run, hist>>
  BY DEF SetLevel
<1>2. objs \in Seq(Objs) /\ level \in Nat
  BY LoggingAssumption DEF LoggingInv, LogTypes
<1>3. l \in 1..Len(objs) /\ objs[l] \in Objs
  BY <1>2
<1>4. objs' = [objs EXCEPT ![l] = [objs[l] EXCEPT !.level = level]]
  BY DEF SetLevel
<1>5. PICK o \in Objs : o = [objs[l] EXCEPT !.level = level] /\ o.flushers = objs[l].flushers
  <2>1. PICK o : o = [objs[l] EXCEPT !.level = level]
    OBVIOUS
  <2>2. o \in Objs /\ o.flushers = objs[l].flushers
    BY <1>2, <1>3, <2>1 DEF Objs
  <2> QED BY <2>1, <2>2
<1>6. /\ objs' \in Seq(Objs) /\ Len(objs') = Len(objs)
      /\ \A x \in 1..Len(objs) : objs'[x].flushers = objs[x].flushers
  BY <1>2, <1>3, <1>4, <1>5
<1>7. SameShape
  BY <1>1, <1>6 DEF LoggingInv, LogTypes, SameShape
<1>8. LogTypes'
  BY <1>1, <1>6 DEF LoggingInv, LogTypes
<1> QED BY <1>1, <1>7, <1>8, QuietStep

\* doFlush moves what the pool holds behind what was written.
LEMMA DoFlushStep ==
  ASSUME LoggingInv, NEW s \in DOMAIN sinks, DoFlush(s)
  PROVE  LoggingInv'
<1>1. /\ UNCHANGED <<config, makers, logs, run, hist>> /\ sinks[s].kind = "AsyncStdout"
      /\ sinks' = [sinks EXCEPT ![s].out = @ \o sinks[s].buf, ![s].buf = <<>>]
  BY DEF DoFlush
<1>2. sinks \in Seq(Sinks)
  BY DEF LoggingInv, LogTypes
<1>3. s \in 1..Len(sinks) /\ sinks[s] \in Sinks
  BY <1>2
<1>4. sinks[s].out \in Seq(Records) /\ sinks[s].buf \in Seq(Records)
  BY <1>3 DEF Sinks
<1>5. PICK k \in Sinks : /\ sinks' = [sinks EXCEPT ![s] = k]
                         /\ k.kind = sinks[s].kind /\ k.out = sinks[s].out \o sinks[s].buf /\ k.buf = <<>>
  <2>1. PICK x \in Sinks : x = sinks[s]
    BY <1>3
  <2>2. PICK q, b : q = x.out \o x.buf /\ b = <<>>
    OBVIOUS
  <2>3. q \in Seq(Records) /\ b \in Seq(Records) /\ x.lock \in SUBSET Threads
    <3>1. x.lock \in SUBSET Threads
      BY DEF Sinks
    <3> QED BY <1>4, <2>1, <2>2, <3>1
  <2>4. PICK k : k = Written(x, q, b, x.lock)
    OBVIOUS
  <2>5. k \in Sinks /\ k.kind = x.kind /\ k.out = q /\ k.buf = b
    BY <2>3, <2>4, WrittenIs
  <2>6. [x EXCEPT !.out = q, !.buf = b] = k
    BY <2>4, SinkIs
  <2>7. sinks' = [sinks EXCEPT ![s] = [x EXCEPT !.out = q, !.buf = b]]
    BY <1>1, <2>1, <2>2
  <2> QED BY <2>1, <2>2, <2>5, <2>6, <2>7
<1>7. /\ SameShape /\ sinks' \in Seq(Sinks) /\ sinks'[s] = k
      /\ \A x \in 1..Len(sinks) : x # s => sinks'[x] = sinks[x]
  BY <1>1, <1>3, <1>5, OneSink
<1>8. LogTypes'
  BY <1>1, <1>7 DEF LoggingInv, LogTypes, logs
<1>9. HistNumbered' /\ FlushesLast'
  BY <1>1, <1>7, NumberedKept, LastKept, PartsAfter
<1>10. AppendsAlone'
  <2>1. ASSUME NEW t \in Threads, run[t].at = "append"
        PROVE  sinks[At(t)].kind = "ProtectedFile" =>
                 sinks'[At(t)].lock = sinks[At(t)].lock /\ sinks'[At(t)].buf = sinks[At(t)].buf
    <3>1. sinks[At(t)].kind = "ProtectedFile" => At(t) # s
      BY <1>1
    <3>2. At(t) \in 1..Len(sinks)
      <4>1. run[t].i <= Len(Flushers(t))
        BY <2>1 DEF LoggingInv, AppendsAlone
      <4>2. run[t].i \in 1..Len(Flushers(t)) /\ \A i \in 1..Len(Flushers(t)) : Flushers(t)[i] \in 1..Len(sinks)
        BY <2>1, <4>1, RunFacts
      <4> QED BY <4>2 DEF At
    <3> QED BY <1>7, <3>1, <3>2
  <2> QED BY <1>1, <1>7, <2>1, AloneKept, PartsAfter
<1>11. Unbuffered'
  <2>1. \A x \in 1..Len(sinks) : sinks'[x].kind \in DirectKinds => sinks'[x].buf = <<>>
    BY <1>5, <1>7 DEF LoggingInv, Unbuffered
  <2> QED BY <1>7, <2>1, PartsAfter DEF SameShape
<1>12. ASSUME NEW x \in 1..Len(sinks), NEW t \in Threads, Guarded(x) PROVE Flushed(x, t)'
  <2>1. Late(t, x)' <=> Late(t, x)
    BY <1>1, <1>7, LateKept
  <2>2. Got(x)' = Got(x)
    <3>1. CASE x = s
      <4>1. (sinks[s].out \o sinks[s].buf) \o <<>> = sinks[s].out \o sinks[s].buf
        BY <1>4
      <4> QED BY <1>5, <1>7, <3>1, <4>1 DEF Got
    <3>2. CASE x # s
      BY <1>7, <3>2 DEF Got
    <3> QED BY <3>1, <3>2
  <2>3. Flushed(x, t)
    BY <1>12, FlushedBefore
  <2> QED BY <1>1, <1>7, <2>1, <2>2, <2>3, FlushedKept
<1> QED BY <1>1, <1>7, <1>8, <1>9, <1>10, <1>11, <1>12, ShapeStep

\* The fields of a thread that goes on to the next flusher.
LEMMA NextFields ==
  ASSUME LoggingInv, NEW t \in Threads, run[t].at # "idle", NextFlusher(t)
  PROVE  /\ run' \in [Threads -> {Idle} \cup Flushing \cup Appending]
         /\ run'[t].at = "flush" /\ run'[t].rec = run[t].rec /\ run'[t].i = run[t].i + 1
         /\ \A u \in Threads : u # t => run'[u] = run[u]
<1>1. run[t] \in Flushing \cup Appending
  BY RunFacts
<1>2. run[t].rec \in Records /\ run[t].i \in Nat /\ run[t].level \in Nat
  BY <1>1 DEF Flushing, Appending
<1>3. PICK r : r = [at |-> "flush", rec |-> run[t].rec, i |-> run[t].i + 1, level |-> run[t].level]
  OBVIOUS
<1>4. r \in Flushing /\ r.at = "flush" /\ r.rec = run[t].rec /\ r.i = run[t].i + 1
  BY <1>2, <1>3 DEF Flushing
<1>5. run \in [Threads -> {Idle} \cup Flushing \cup Appending]
  BY DEF LoggingInv, LogTypes
<1>6. run' = [run EXCEPT ![t] = r]
  BY <1>3, <1>5 DEF NextFlusher
<1> QED BY <1>4, <1>5, <1>6

\* A thread's record reaches one flusher, and the thread goes on.  Only a thread
\* inside append writes to a protected file.
LEMMA PassStep ==
  ASSUME LoggingInv, NEW t \in Threads, run[t].at # "idle", run[t].i <= Len(Flushers(t)),
         NextFlusher(t), UNCHANGED <<config, makers, logs, hist>>,
         NEW s, s = At(t), NEW k \in Sinks, k.kind = sinks[s].kind, sinks' = [sinks EXCEPT ![s] = k],
         Guarded(s) => k.out \o k.buf = Append(Got(s), run[t].rec),
         k.kind \in DirectKinds => k.buf = <<>>,
         k.kind = "ProtectedFile" => run[t].at = "append"
  PROVE  LoggingInv'
<1>1. s \in 1..Len(sinks) /\ run[t].rec \in Records /\ run[t].rec.by = t
      /\ run[t].i \in 1..Len(Flushers(t)) /\ Flushers(t) \in Seq(Nat)
  <2>1. /\ run[t].i \in 1..(Len(Flushers(t)) + 1) /\ Flushers(t) \in Seq(Nat)
        /\ \A i \in 1..Len(Flushers(t)) : Flushers(t)[i] \in 1..Len(sinks)
        /\ run[t].rec \in Records /\ run[t].rec.by = t
    BY RunFacts
  <2>2. run[t].i \in 1..Len(Flushers(t))
    BY <2>1
  <2> QED BY <2>1, <2>2 DEF At
<1>2. /\ SameShape /\ sinks' \in Seq(Sinks) /\ sinks'[s] = k
      /\ \A x \in 1..Len(sinks) : x # s => sinks'[x] = sinks[x]
  BY <1>1, OneSink
<1>3. /\ run' \in [Threads -> {Idle} \cup Flushing \cup Appending]
      /\ run'[t].at = "flush" /\ run'[t].rec = run[t].rec /\ run'[t].i = run[t].i + 1
      /\ \A u \in Threads : u # t => run'[u] = run[u]
  BY NextFields
<1>4. LogTypes'
  BY <1>2, <1>3 DEF LoggingInv, LogTypes, logs
<1>5. HistNumbered'
  BY <1>2, NumberedKept
<1>6. FlushesLast'
  <2>1. ASSUME NEW u \in Threads, run'[u].at # "idle"
        PROVE  /\ hist'[u] # <<>> /\ run'[u].rec = hist'[u][Len(hist'[u])]
               /\ run'[u].i \in 1..(Len(Flushers(u)') + 1)
    <3>1. CASE u = t
      <4>1. run'[t].i \in 1..(Len(Flushers(t)) + 1)
        <5> DEFINE i == run[t].i   m == Len(Flushers(t))
        <5>1. i \in 1..m /\ m \in Nat /\ run'[t].i = i + 1
          BY <1>1, <1>3
        <5> HIDE DEF i, m
        <5>2. i + 1 \in 1..(m + 1)
          BY <5>1
        <5> QED BY <5>1, <5>2 DEF m
      <4> QED BY <1>2, <1>3, <2>1, <3>1, <4>1, LastKept
    <3>2. CASE u # t
      BY <1>2, <1>3, <2>1, <3>2, LastKept
    <3> QED BY <3>1, <3>2
  <2> QED BY <2>1, PartsAfter
<1>7. AppendsAlone'
  <2>1. ASSUME NEW u \in Threads, run'[u].at = "append"
        PROVE  /\ run'[u].i <= Len(Flushers(u)') /\ sinks'[At(u)'].kind \in FileKinds
               /\ sinks'[At(u)'].kind = "ProtectedFile" =>
                    sinks'[At(u)'].lock = {u} /\ run'[u].buf = sinks'[At(u)'].buf
    <3>1. u # t /\ run'[u] = run[u] /\ run[u].at = "append"
      BY <1>3, <2>1
    <3>2. ASSUME sinks[At(u)].kind = "ProtectedFile"
          PROVE  sinks'[At(u)].lock = sinks[At(u)].lock /\ sinks'[At(u)].buf = sinks[At(u)].buf
      <4>1. At(u) # s
        <5> SUFFICES ASSUME At(u) = s PROVE FALSE
          OBVIOUS
        <5>1. run[t].at = "append"
          BY <3>2
        <5>2. sinks[s].lock = {t} /\ sinks[s].lock = {u}
          BY <3>1, <3>2, <5>1 DEF LoggingInv, AppendsAlone
        <5> QED BY <3>1, <5>2
      <4>2. At(u) \in 1..Len(sinks)
        <5>1. run[u].i <= Len(Flushers(u))
          BY <3>1 DEF LoggingInv, AppendsAlone
        <5>2. run[u].i \in 1..Len(Flushers(u)) /\ \A i \in 1..Len(Flushers(u)) : Flushers(u)[i] \in 1..Len(sinks)
          BY <3>1, <5>1, RunFacts
        <5> QED BY <5>2 DEF At
      <4> QED BY <1>2, <4>1, <4>2
    <3> QED BY <1>2, <3>1, <3>2, AloneKept
  <2> QED BY <2>1, PartsAfter
<1>8. Unbuffered'
  <2>1. \A x \in 1..Len(sinks) : sinks'[x].kind \in DirectKinds => sinks'[x].buf = <<>>
    BY <1>2 DEF LoggingInv, Unbuffered
  <2> QED BY <1>2, <2>1, PartsAfter DEF SameShape
<1>9. ASSUME NEW x \in 1..Len(sinks), NEW u \in Threads, Guarded(x) PROVE Flushed(x, u)'
  <2>1. Flushed(x, u)
    BY <1>9, FlushedBefore
  <2>2. Got(x)' = IF x = s THEN Append(Got(s), run[t].rec) ELSE Got(x)
    <3>1. CASE x = s
      <4>1. Got(x)' = k.out \o k.buf
        BY <1>2, <3>1 DEF Got
      <4>2. k.out \o k.buf = Append(Got(s), run[t].rec)
        BY <1>9, <3>1
      <4> QED BY <3>1, <4>1, <4>2
    <3>2. CASE x # s
      <4>1. Got(x)' = Got(x)
        BY <1>2, <3>2 DEF Got
      <4> QED BY <3>2, <4>1
    <3> QED BY <3>1, <3>2
  <2>3. hist'[u] = hist[u]
    OBVIOUS
  <2>4. CASE u # t
    <3>1. Late(u, x)' <=> Late(u, x)
      BY <1>2, <1>3, <2>4, LateKept
    <3>2. \/ Got(x)' = Got(x)
          \/ \E r \in Records : r.by # u /\ Got(x)' = Append(Got(x), r)
      BY <1>1, <2>2, <2>4
    <3> QED BY <1>2, <2>1, <2>3, <3>1, <3>2, FlushedKept
  <2>5. CASE u = t /\ x = s
    <3>1. Got(s)' = Append(Got(s), run[t].rec) /\ Flushed(s, t) /\ hist'[t] = hist[t]
      BY <2>1, <2>2, <2>3, <2>5
    <3>2. Flushed(s, t)'
      BY <1>2, <1>3, <3>1, FlushedMore
    <3> QED BY <2>5, <3>2
  <2>6. CASE u = t /\ x # s
    <3>1. Late(t, x)' <=> Late(t, x)
      BY <1>2, <1>3, <2>6, LateElsewhere
    <3> QED BY <1>2, <2>1, <2>2, <2>3, <2>6, <3>1, FlushedKept
  <2> QED BY <2>4, <2>5, <2>6
<1> QED BY <1>2, <1>4, <1>5, <1>6, <1>7, <1>8, <1>9, ShapeStep

\* A record behind the second of two lists.
LEMMA AppendLate ==
  ASSUME NEW a \in Seq(Records), NEW b \in Seq(Records), NEW r \in Records
  PROVE  a \o Append(b, r) = Append(a \o b, r) /\ Append(b, r) \in Seq(Records)
<1>1. Append(b, r) = b \o <<r>> /\ Append(a \o b, r) = (a \o b) \o <<r>>
  <2>0. a \o b \in Seq(Records)
    OBVIOUS
  <2>1. PICK c \in Seq(Records) : c = a \o b
    BY <2>0, Zenon
  <2>2. Append(c, r) = c \o <<r>> /\ Append(b, r) = b \o <<r>>
    BY AppendIsConcat
  <2> QED BY <2>1, <2>2
<1>2. <<r>> \in Seq(Records)
  OBVIOUS
<1>3. a \o (b \o <<r>>) = (a \o b) \o <<r>>
  BY <1>2, ConcatAssociative
<1> QED BY <1>1, <1>3

\* The flusher a thread is at.
LEMMA AtIs ==
  ASSUME LoggingInv, NEW t \in Threads, run[t].at # "idle", run[t].i <= Len(Flushers(t))
  PROVE  /\ At(t) \in 1..Len(sinks) /\ sinks[At(t)] \in Sinks /\ run[t].rec \in Records
         /\ sinks[At(t)].out \in Seq(Records) /\ sinks[At(t)].buf \in Seq(Records)
         /\ sinks[At(t)].lock \in SUBSET Threads
<1>1. /\ run[t].i \in 1..(Len(Flushers(t)) + 1) /\ Flushers(t) \in Seq(Nat)
      /\ \A i \in 1..Len(Flushers(t)) : Flushers(t)[i] \in 1..Len(sinks)
      /\ run[t].rec \in Records
  BY RunFacts
<1>2. run[t].i \in 1..Len(Flushers(t))
  BY <1>1
<1>3. At(t) \in 1..Len(sinks)
  BY <1>1, <1>2 DEF At
<1>4. sinks[At(t)] \in Sinks
  BY <1>3 DEF LoggingInv, LogTypes
<1> QED BY <1>1, <1>3, <1>4 DEF Sinks

\* flush of the flushers without a file.
LEMMA DirectStep ==
  ASSUME LoggingInv, NEW t \in Threads, FlushDirect(t)
  PROVE  LoggingInv'
<1> DEFINE s == At(t)
<1>1. /\ run[t].at = "flush" /\ run[t].i <= Len(Flushers(t)) /\ NextFlusher(t)
      /\ sinks[s].kind \in DirectKinds \cup AsyncKinds
      /\ UNCHANGED <<config, makers, logs, hist>>
  BY DEF FlushDirect, AtFlusher, At
<1>2. /\ s \in 1..Len(sinks) /\ sinks[s] \in Sinks /\ run[t].rec \in Records
      /\ sinks[s].out \in Seq(Records) /\ sinks[s].buf \in Seq(Records)
      /\ sinks[s].lock \in SUBSET Threads
  BY <1>1, AtIs
<1>3. sinks' = IF sinks[s].kind \in DirectKinds THEN [sinks EXCEPT ![s].out = Append(@, run[t].rec)]
               ELSE [sinks EXCEPT ![s].buf = Append(@, run[t].rec)]
  BY DEF FlushDirect, At
<1>4. sinks[s].kind # "ProtectedFile"
  BY <1>1 DEF DirectKinds, AsyncKinds
<1>5. PICK x \in Sinks, r \in Records : x = sinks[s] /\ r = run[t].rec
  BY <1>2
<1>6. sinks \in Seq(Sinks)
  BY DEF LoggingInv, LogTypes
<1> HIDE DEF s
<1>7. CASE sinks[s].kind \in DirectKinds
  <2>1. x.buf = <<>>
    BY <1>2, <1>5, <1>7 DEF LoggingInv, Unbuffered
  <2>2. PICK q \in Seq(Records) : q = Append(x.out, r)
    <3>1. Append(x.out, r) \in Seq(Records)
      BY <1>2, <1>5
    <3> QED BY <3>1, Zenon
  <2>3. PICK k : k = Written(x, q, x.buf, x.lock)
    OBVIOUS
  <2>4. k \in Sinks /\ k.kind = x.kind /\ k.out = q /\ k.buf = x.buf
    BY <1>2, <1>5, <2>3, WrittenIs
  <2>5. sinks' = [sinks EXCEPT ![s] = k]
    <3>1. [x EXCEPT !.out = q] = k
      BY <2>3, SinkIs
    <3>2. sinks' = [sinks EXCEPT ![s] = [x EXCEPT !.out = q]]
      BY <1>2, <1>3, <1>5, <1>6, <1>7, <2>2
    <3> QED BY <3>1, <3>2
  <2>6. k.out \o k.buf = Append(Got(s), run[t].rec)
    <3>1. q \o <<>> = q /\ x.out \o <<>> = x.out
      BY <1>2, <1>5
    <3>2. k.out \o k.buf = Append(x.out, r) /\ Got(s) = x.out
      BY <1>5, <2>1, <2>2, <2>4, <3>1 DEF Got
    <3> QED BY <1>5, <3>2
  <2> QED BY <1>1, <1>4, <1>5, <2>1, <2>4, <2>5, <2>6, PassStep DEF s
<1>8. CASE sinks[s].kind \notin DirectKinds
  <2>1. PICK b \in Seq(Records) : b = Append(x.buf, r)
    <3>1. Append(x.buf, r) \in Seq(Records)
      BY <1>2, <1>5
    <3> QED BY <3>1, Zenon
  <2>2. PICK k : k = Written(x, x.out, b, x.lock)
    OBVIOUS
  <2>3. k \in Sinks /\ k.kind = x.kind /\ k.out = x.out /\ k.buf = b
    BY <1>2, <1>5, <2>2, WrittenIs
  <2>4. sinks' = [sinks EXCEPT ![s] = k]
    <3>1. [x EXCEPT !.buf = b] = k
      BY <2>2, SinkIs
    <3>2. sinks' = [sinks EXCEPT ![s] = [x EXCEPT !.buf = b]]
      BY <1>2, <1>3, <1>5, <1>6, <1>8, <2>1
    <3> QED BY <3>1, <3>2
  <2>5. k.out \o k.buf = Append(Got(s), run[t].rec)
    <3>1. x.out \o Append(x.buf, r) = Append(x.out \o x.buf, r)
      BY <1>2, <1>5, AppendLate
    <3> QED BY <1>5, <2>1, <2>3, <3>1 DEF Got
  <2> QED BY <1>1, <1>4, <1>5, <1>8, <2>3, <2>4, <2>5, PassStep DEF s
<1> QED BY <1>7, <1>8

\* append, with what the thread found in the buffer.
LEMMA AppendStep ==
  ASSUME LoggingInv, NEW t \in Threads, FlushAppend(t)
  PROVE  LoggingInv'
<1> DEFINE s == At(t)
           full == Len(run[t].buf) >= BufCap
<1>1. /\ run[t].at = "append" /\ NextFlusher(t) /\ UNCHANGED <<config, makers, logs, hist>>
  BY DEF FlushAppend
<1>2. /\ run[t].i <= Len(Flushers(t)) /\ sinks[s].kind \in FileKinds
      /\ sinks[s].kind = "ProtectedFile" => run[t].buf = sinks[s].buf
  BY <1>1 DEF LoggingInv, AppendsAlone
<1>3. /\ s \in 1..Len(sinks) /\ sinks[s] \in Sinks /\ run[t].rec \in Records
      /\ sinks[s].out \in Seq(Records) /\ sinks[s].buf \in Seq(Records)
      /\ sinks[s].lock \in SUBSET Threads
  BY <1>1, <1>2, AtIs
<1>4. sinks' = [sinks EXCEPT ![s].out = IF full THEN @ \o run[t].buf ELSE @,
                             ![s].buf = Append(IF full THEN <<>> ELSE run[t].buf, run[t].rec),
                             ![s].lock = {}]
  BY DEF FlushAppend, At
<1>5. PICK x \in Sinks, r \in Records : x = sinks[s] /\ r = run[t].rec
  BY <1>3
<1>6. PICK c \in Seq(Records) : c = run[t].buf
  <2>1. run[t] \in Flushing \cup Appending
    BY <1>1, RunFacts
  <2>2. run[t].buf \in Seq(Records)
    BY <1>1, <2>1 DEF Flushing, Appending
  <2> QED BY <2>2
<1>7. sinks \in Seq(Sinks)
  BY DEF LoggingInv, LogTypes
<1>8. PICK q, d : q = (IF full THEN x.out \o c ELSE x.out) /\ d = (IF full THEN <<>> ELSE c)
  OBVIOUS
<1>9. PICK b : b = Append(d, r)
  OBVIOUS
<1>10. q \in Seq(Records) /\ d \in Seq(Records) /\ b \in Seq(Records)
  <2>1. x.out \o c \in Seq(Records) /\ <<>> \in Seq(Records) /\ x.out \in Seq(Records)
    BY <1>3, <1>5
  <2>2. q \in Seq(Records) /\ d \in Seq(Records)
    BY <1>8, <2>1
  <2> QED BY <1>9, <2>2, AppendLate
<1>11. PICK k : k = Written(x, q, b, {})
  OBVIOUS
<1>12. k \in Sinks /\ k.kind = x.kind /\ k.out = q /\ k.buf = b
  <2>1. {} \in SUBSET Threads
    OBVIOUS
  <2> QED BY <1>10, <1>11, <2>1, WrittenIs
<1> HIDE DEF s
<1>13. sinks' = [sinks EXCEPT ![s] = k]
  <2>1. [x EXCEPT !.out = q, !.buf = b, !.lock = {}] = k
    <3>1. PICK y : y = [x EXCEPT !.out = q, !.buf = b, !.lock = {}]
      OBVIOUS
    <3>2. x = [kind |-> x.kind, buf |-> x.buf, out |-> x.out, lock |-> x.lock]
      BY DEF Sinks
    <3>3. y = [kind |-> x.kind, buf |-> b, out |-> q, lock |-> {}]
      BY <3>1, <3>2
    <3> QED BY <1>11, <3>1, <3>3 DEF Written
  <2>2. sinks' = [sinks EXCEPT ![s].out = q, ![s].buf = b, ![s].lock = {}]
    BY <1>3, <1>4, <1>5, <1>6, <1>7, <1>8, <1>9
  <2>3. sinks' = [sinks EXCEPT ![s] = [x EXCEPT !.out = q, !.buf = b, !.lock = {}]]
    BY <1>3, <1>5, <1>7, <2>2
  <2> QED BY <2>1, <2>3
<1>14. ASSUME Guarded(s) PROVE k.out \o k.buf = Append(Got(s), run[t].rec)
  <2>1. c = x.buf
    BY <1>2, <1>5, <1>6, <1>14 DEF Guarded, FileKinds, s
  <2>2. q \o d = x.out \o x.buf
    <3>1. CASE full
      <4>1. (x.out \o c) \o <<>> = x.out \o c
        BY <1>3, <1>5
      <4> QED BY <1>8, <2>1, <3>1, <4>1
    <3>2. CASE ~full
      BY <1>8, <2>1, <3>2
    <3> QED BY <3>1, <3>2
  <2>3. q \o Append(d, r) = Append(q \o d, r)
    BY <1>10, AppendLate
  <2> QED BY <1>5, <1>9, <1>12, <2>2, <2>3 DEF Got
<1>15. k.kind \notin DirectKinds
  BY <1>2, <1>5, <1>12 DEF s, FileKinds, DirectKinds
<1> QED BY <1>1, <1>2, <1>5, <1>12, <1>13, <1>14, <1>15, PassStep DEF s

\* The mutex, and pos_.
LEMMA BeginStep ==
  ASSUME LoggingInv, NEW t \in Threads, FlushBegin(t)
  PROVE  LoggingInv'
<1> DEFINE s == At(t)
<1>1. /\ run[t].at = "flush" /\ run[t].i <= Len(Flushers(t)) /\ sinks[s].kind \in FileKinds
      /\ sinks[s].kind = "ProtectedFile" => sinks[s].lock = {}
      /\ UNCHANGED <<config, makers, logs, hist>>
  BY DEF FlushBegin, AtFlusher, At, Locked
<1>2. /\ s \in 1..Len(sinks) /\ sinks[s] \in Sinks /\ run[t].rec \in Records
      /\ sinks[s].out \in Seq(Records) /\ sinks[s].buf \in Seq(Records)
      /\ sinks[s].lock \in SUBSET Threads
  BY <1>1, AtIs
<1>3. /\ sinks' = [sinks EXCEPT ![s].lock = IF sinks[s].kind = "ProtectedFile" THEN {t} ELSE @]
      /\ run' = [run EXCEPT ![t] = [at |-> "append", rec |-> @.rec, i |-> @.i, level |-> @.level,
                                    buf |-> sinks[s].buf]]
  BY DEF FlushBegin, At, Locked
<1>4. PICK x \in Sinks, h \in SUBSET Threads :
        x = sinks[s] /\ h = IF x.kind = "ProtectedFile" THEN {t} ELSE x.lock
  BY <1>2
<1>5. sinks \in Seq(Sinks) /\ run \in [Threads -> {Idle} \cup Flushing \cup Appending]
  BY DEF LoggingInv, LogTypes
<1> HIDE DEF s
<1>6. PICK k : k = Written(x, x.out, x.buf, h)
  OBVIOUS
<1>7. k \in Sinks /\ k.kind = x.kind /\ k.out = x.out /\ k.buf = x.buf /\ k.lock = h
  <2>1. x.out \in Seq(Records) /\ x.buf \in Seq(Records)
    BY <1>2, <1>4
  <2> QED BY <1>6, <2>1, WrittenIs
<1>8. sinks' = [sinks EXCEPT ![s] = k]
  <2>1. [x EXCEPT !.lock = h] = k
    BY <1>6, SinkIs
  <2>2. sinks' = [sinks EXCEPT ![s] = [x EXCEPT !.lock = h]]
    BY <1>2, <1>3, <1>4, <1>5
  <2> QED BY <2>1, <2>2
<1>9. /\ SameShape /\ sinks' \in Seq(Sinks) /\ sinks'[s] = k
      /\ \A y \in 1..Len(sinks) : y # s => sinks'[y] = sinks[y]
  BY <1>1, <1>2, <1>4, <1>7, <1>8, OneSink
<1>10. PICK a \in Appending : /\ run' = [run EXCEPT ![t] = a] /\ a.at = "append" /\ a.rec = run[t].rec
                              /\ a.i = run[t].i /\ a.buf = x.buf
  <2>1. PICK a : a = [at |-> "append", rec |-> run[t].rec, i |-> run[t].i, level |-> run[t].level,
                      buf |-> x.buf]
    OBVIOUS
  <2>2. run[t] \in Flushing \cup Appending
    BY <1>1, RunFacts
  <2>3. run[t].rec \in Records /\ run[t].i \in Nat /\ run[t].level \in Nat
    BY <2>2 DEF Flushing, Appending
  <2>4. a \in Appending /\ a.at = "append" /\ a.rec = run[t].rec /\ a.i = run[t].i /\ a.buf = x.buf
    BY <1>2, <1>4, <2>1, <2>3 DEF Appending
  <2>5. run' = [run EXCEPT ![t] = a]
    BY <1>3, <1>4, <1>5, <2>1
  <2> QED BY <2>4, <2>5
<1>11. /\ run' \in [Threads -> {Idle} \cup Flushing \cup Appending] /\ run'[t] = a
       /\ \A u \in Threads : u # t => run'[u] = run[u]
  BY <1>5, <1>10
<1>12. LogTypes'
  BY <1>1, <1>9, <1>11 DEF LoggingInv, LogTypes, logs
<1>13. HistNumbered'
  BY <1>1, <1>9, NumberedKept
<1>14. FlushesLast'
  <2>1. ASSUME NEW u \in Threads, run'[u].at # "idle"
        PROVE  /\ hist'[u] # <<>> /\ run'[u].rec = hist'[u][Len(hist'[u])]
               /\ run'[u].i \in 1..(Len(Flushers(u)') + 1)
    <3>1. CASE u = t
      <4>1. run'[t].i \in 1..(Len(Flushers(t)) + 1)
        BY <1>1, <1>10, <1>11, RunFacts
      <4> QED BY <1>1, <1>9, <1>10, <1>11, <2>1, <3>1, <4>1, LastKept
    <3>2. CASE u # t
      BY <1>1, <1>9, <1>11, <2>1, <3>2, LastKept
    <3> QED BY <3>1, <3>2
  <2> QED BY <2>1, PartsAfter
<1>15. AppendsAlone'
  <2>1. ASSUME NEW u \in Threads, run'[u].at = "append"
        PROVE  /\ run'[u].i <= Len(Flushers(u)') /\ sinks'[At(u)'].kind \in FileKinds
               /\ sinks'[At(u)'].kind = "ProtectedFile" =>
                    sinks'[At(u)'].lock = {u} /\ run'[u].buf = sinks'[At(u)'].buf
    <3>1. CASE u = t
      <4>1. Flushers(t)' = Flushers(t)
        BY <1>1, <1>9, <1>10, <1>11, FlushersSame
      <4>2. At(t)' = s
        BY <1>10, <1>11, <4>1 DEF At, s
      <4>3. sinks'[s].kind = sinks[s].kind /\ sinks'[s].buf = a.buf
        BY <1>4, <1>7, <1>9, <1>10
      <4>4. sinks'[s].kind = "ProtectedFile" => sinks'[s].lock = {t}
        BY <1>4, <1>7, <1>9
      <4>5. sinks[s].kind \in FileKinds /\ run[t].i <= Len(Flushers(t))
        BY <1>1 DEF s
      <4> QED BY <1>10, <1>11, <3>1, <4>1, <4>2, <4>3, <4>4, <4>5
    <3>2. CASE u # t
      <4>1. run'[u] = run[u] /\ run[u].at = "append"
        BY <1>11, <2>1, <3>2
      <4>2. At(u) \in 1..Len(sinks)
        <5>1. run[u].i <= Len(Flushers(u))
          BY <4>1 DEF LoggingInv, AppendsAlone
        <5> QED BY <4>1, <5>1, AtIs
      <4>3. ASSUME sinks[At(u)].kind = "ProtectedFile" PROVE At(u) # s
        <5>1. sinks[At(u)].lock = {u}
          BY <4>1, <4>3 DEF LoggingInv, AppendsAlone
        <5> QED BY <1>1, <4>3, <5>1 DEF s
      <4> QED BY <1>9, <4>1, <4>2, <4>3, AloneKept
    <3> QED BY <3>1, <3>2
  <2> QED BY <2>1, PartsAfter
<1>16. Unbuffered'
  <2>1. \A y \in 1..Len(sinks) : sinks'[y].kind = sinks[y].kind /\ sinks'[y].buf = sinks[y].buf
    BY <1>4, <1>7, <1>9
  <2>2. \A y \in 1..Len(sinks) : sinks'[y].kind \in DirectKinds => sinks'[y].buf = <<>>
    BY <2>1 DEF LoggingInv, Unbuffered
  <2> QED BY <1>9, <2>2, PartsAfter DEF SameShape
<1>17. ASSUME NEW y \in 1..Len(sinks), NEW u \in Threads, Guarded(y) PROVE Flushed(y, u)'
  <2>1. Flushed(y, u)
    BY <1>17, FlushedBefore
  <2>2. Got(y)' = Got(y)
    <3>1. sinks'[y].out = sinks[y].out /\ sinks'[y].buf = sinks[y].buf
      BY <1>4, <1>7, <1>9
    <3> QED BY <3>1 DEF Got
  <2>3. Late(u, y)' <=> Late(u, y)
    <3>1. CASE u = t
      BY <1>1, <1>9, <1>10, <1>11, <3>1, LateKept
    <3>2. CASE u # t
      BY <1>9, <1>11, <3>2, LateKept
    <3> QED BY <3>1, <3>2
  <2> QED BY <1>1, <1>9, <2>1, <2>2, <2>3, FlushedKept
<1> QED BY <1>1, <1>9, <1>12, <1>13, <1>14, <1>15, <1>16, <1>17, ShapeStep

\* The end of log.
LEMMA DoneStep ==
  ASSUME LoggingInv, NEW t \in Threads, LogDone(t)
  PROVE  LoggingInv'
<1>1. /\ run[t].at = "flush" /\ run[t].i > Len(Flushers(t)) /\ run' = [run EXCEPT ![t] = Idle]
      /\ UNCHANGED <<config, makers, logs, sinks, hist>>
  BY DEF LogDone
<1>2. SameShape
  BY <1>1 DEF LoggingInv, LogTypes, SameShape, logs
<1>3. /\ run' \in [Threads -> {Idle} \cup Flushing \cup Appending] /\ run'[t].at = "idle"
      /\ \A u \in Threads : u # t => run'[u] = run[u]
  <2>1. run \in [Threads -> {Idle} \cup Flushing \cup Appending]
    BY DEF LoggingInv, LogTypes
  <2>2. Idle.at = "idle"
    BY DEF Idle
  <2> QED BY <1>1, <2>1, <2>2
<1>4. LogTypes'
  BY <1>1, <1>3 DEF LoggingInv, LogTypes, logs
<1>5. HistNumbered'
  BY <1>1, <1>2, NumberedKept
<1>6. FlushesLast'
  BY <1>1, <1>2, <1>3, LastKept, PartsAfter
<1>7. AppendsAlone'
  <2>1. \A u \in Threads : run'[u].at = "append" => u # t
    BY <1>3
  <2> QED BY <1>1, <1>2, <1>3, <2>1, AloneKept, PartsAfter
<1>8. Unbuffered'
  BY <1>1 DEF LoggingInv, Unbuffered
<1>9. ASSUME NEW s \in 1..Len(sinks), NEW u \in Threads, Guarded(s) PROVE Flushed(s, u)'
  <2>1. Flushed(s, u)
    BY <1>9, FlushedBefore
  <2>2. Got(s)' = Got(s)
    BY <1>1 DEF Got
  <2>3. Late(u, s)' <=> Late(u, s)
    <3>1. CASE u = t
      <4>1. ~Late(t, s)'
        BY <1>3 DEF Late
      <4>2. Flushers(t) \in Seq(Nat) /\ run[t].i \in Nat
        BY <1>1, RunFacts
      <4>3. ~Late(t, s)
        BY <1>1, <4>2 DEF Late
      <4> QED BY <3>1, <4>1, <4>3
    <3>2. CASE u # t
      BY <1>2, <1>3, <3>2, LateKept
    <3> QED BY <3>1, <3>2
  <2> QED BY <1>1, <1>2, <2>1, <2>2, <2>3, FlushedKept
<1> QED BY <1>1, <1>2, <1>4, <1>5, <1>6, <1>7, <1>8, <1>9, ShapeStep

\* A thread logs: its new record is late for all its flushers.
LEMMA LogStep ==
  ASSUME LoggingInv, NEW t \in Threads, NEW l \in Pointers, NEW level \in Levels, Log(t, l, level)
  PROVE  LoggingInv'
<1> DEFINE N == Len(hist[t])
           h == hist[t]
<1>1. PICK r : r = [by |-> t, n |-> N + 1, log |-> l]
  OBVIOUS
<1>2. /\ run[t] = Idle /\ UNCHANGED <<config, makers, logs, sinks>>
      /\ hist' = [hist EXCEPT ![t] = Append(@, r)]
      /\ run' = [run EXCEPT ![t] = [at |-> "flush", rec |-> r, i |-> 1, level |-> level]]
  BY <1>1 DEF Log
<1>3. /\ objs \in Seq(Objs) /\ sinks \in Seq(Sinks) /\ hist \in [Threads -> Seq(Records)]
      /\ run \in [Threads -> {Idle} \cup Flushing \cup Appending]
  BY DEF LoggingInv, LogTypes
<1>4. l \in 1..Len(objs) /\ objs # <<>>
  BY <1>3, PointersAre
<1>5. h \in Seq(Records) /\ N \in Nat /\ r \in Records /\ r.by = t /\ r.n = N + 1 /\ r.log = l
  <2>1. h \in Seq(Records)
    BY <1>3
  <2>2. N \in Nat /\ N + 1 \in Nat /\ l \in Nat
    BY <1>4, <2>1
  <2>3. r.by = t /\ r.n = N + 1 /\ r.log = l
    BY <1>1
  <2>4. r \in Records
    BY <1>1, <2>2 DEF Records
  <2> QED BY <2>1, <2>2, <2>3, <2>4
<1>6. PICK f \in Flushing : /\ run' = [run EXCEPT ![t] = f] /\ f.at = "flush" /\ f.rec = r /\ f.i = 1
  <2>1. level \in Nat
    BY LoggingAssumption
  <2>2. PICK f : f = [at |-> "flush", rec |-> r, i |-> 1, level |-> level]
    OBVIOUS
  <2>3. f \in Flushing /\ f.at = "flush" /\ f.rec = r /\ f.i = 1
    BY <1>5, <2>1, <2>2 DEF Flushing
  <2> QED BY <1>2, <2>2, <2>3
<1>7. /\ run' \in [Threads -> {Idle} \cup Flushing \cup Appending] /\ run'[t] = f
      /\ \A u \in Threads : u # t => run'[u] = run[u]
  BY <1>3, <1>6
<1>8. PICK g \in Seq(Records) : g = Append(h, r)
  <2>1. Append(h, r) \in Seq(Records)
    BY <1>5
  <2> QED BY <2>1, Zenon
<1>9. /\ Len(g) = N + 1 /\ g[N + 1] = r /\ g # <<>> /\ \A n \in 1..N : g[n] = h[n]
  BY <1>5, <1>8
<1>10. /\ hist' \in [Threads -> Seq(Records)] /\ hist'[t] = g
       /\ \A u \in Threads : u # t => hist'[u] = hist[u]
  BY <1>2, <1>3, <1>8
<1>11. SameShape
  BY <1>2, <1>3 DEF SameShape, logs
<1>12. LogTypes'
  BY <1>2, <1>3, <1>7, <1>10 DEF LoggingInv, LogTypes, logs
<1> HIDE DEF N, h
<1>13. HistNumbered'
  <2>1. ASSUME NEW u \in Threads, NEW n \in 1..Len(hist'[u])
        PROVE  hist'[u][n].by = u /\ hist'[u][n].n = n /\ hist'[u][n].log \in 1..Len(objs')
    <3>1. objs' = objs
      BY <1>2 DEF logs
    <3>2. CASE u = t
      <4>1. n \in 1..N \/ n = N + 1
        BY <1>5, <1>9, <1>10, <3>2
      <4>2. CASE n \in 1..N
        <5>1. h[n].by = t /\ h[n].n = n /\ h[n].log \in 1..Len(objs)
          BY <4>2 DEF LoggingInv, HistNumbered, N, h
        <5> QED BY <1>9, <1>10, <3>1, <3>2, <4>2, <5>1
      <4>3. CASE n = N + 1
        BY <1>4, <1>5, <1>9, <1>10, <3>1, <3>2, <4>3
      <4> QED BY <4>1, <4>2, <4>3
    <3>3. CASE u # t
      BY <1>10, <3>1, <3>3 DEF LoggingInv, HistNumbered
    <3> QED BY <3>2, <3>3
  <2> QED BY <2>1 DEF HistNumbered
<1>14. PICK fl \in Seq(Nat) : fl = objs[l].flushers
  BY <1>4, FlushersAre
<1>15. Flushers(t)' = fl
  BY <1>2, <1>5, <1>6, <1>7, <1>14 DEF Flushers, logs
<1>16. FlushesLast'
  <2>1. ASSUME NEW u \in Threads, run'[u].at # "idle"
        PROVE  /\ hist'[u] # <<>> /\ run'[u].rec = hist'[u][Len(hist'[u])]
               /\ run'[u].i \in 1..(Len(Flushers(u)') + 1)
    <3>1. CASE u = t
      <4>1. 1 \in 1..(Len(fl) + 1)
        OBVIOUS
      <4> QED BY <1>6, <1>7, <1>9, <1>10, <1>15, <3>1, <4>1
    <3>2. CASE u # t
      BY <1>7, <1>10, <1>11, <2>1, <3>2, LastKept
    <3> QED BY <3>1, <3>2
  <2> QED BY <2>1, PartsAfter
<1>17. AppendsAlone'
  <2>1. \A u \in Threads : run'[u].at = "append" => u # t
    BY <1>6, <1>7
  <2> QED BY <1>2, <1>7, <1>11, <2>1, AloneKept, PartsAfter
<1>18. Unbuffered'
  BY <1>2 DEF LoggingInv, Unbuffered
<1>19. ASSUME NEW s \in 1..Len(sinks), NEW u \in Threads, Guarded(s) PROVE Flushed(s, u)'
  <2>1. Flushed(s, u)
    BY <1>19, FlushedBefore
  <2>2. Got(s)' = Got(s)
    BY <1>2 DEF Got
  <2>3. CASE u = t
    <3>1. ~Late(t, s)
      BY <1>2 DEF Late, Idle
    <3>2. s \in Range(fl) => Late(t, s)'
      <4> SUFFICES ASSUME NEW i \in DOMAIN fl, fl[i] = s PROVE Late(t, s)'
        BY DEF Range
      <4>1. i >= 1
        OBVIOUS
      <4> QED BY <1>6, <1>7, <1>15, <4>1 DEF Late
    <3>3. DOMAIN h = 1..N /\ DOMAIN g = 1..(N + 1)
      BY <1>5, <1>8, <1>9 DEF N
    <3>4. Due(t, s) = {n \in 1..N : s \in Range(objs[h[n].log].flushers)}
      BY <3>1, <3>3 DEF Due, h
    <3>5. Due(t, s)' = {n \in 1..(N + 1) : /\ s \in Range(objs[g[n].log].flushers)
                                           /\ n = N + 1 => ~Late(t, s)'}
      BY <1>2, <1>9, <1>10, <3>3 DEF Due, logs
    <3>6. g[N + 1].log = l /\ \A n \in 1..N : n \in 1..(N + 1) /\ n # N + 1 /\ g[n] = h[n]
      BY <1>5, <1>9
    <3>7. \A n \in 1..(N + 1) : n \in 1..N \/ n = N + 1
      BY <1>5
    <3>8. N + 1 \notin Due(t, s)'
      BY <1>14, <3>2, <3>5, <3>6
    <3>9. Due(t, s)' = Due(t, s)
      BY <3>4, <3>5, <3>6, <3>7, <3>8
    <3>10. \A n \in Due(t, s) : g[n] = h[n]
      BY <3>4, <3>6
    <3>11. {hist'[t][n] : n \in Due(t, s)'} = {hist[t][n] : n \in Due(t, s)}
      BY <1>10, <3>9, <3>10 DEF h
    <3>12. (SetOf(Got(s), t))' = SetOf(Got(s)', t) /\ (Sorted(Got(s), t))' = Sorted(Got(s)', t)
      BY DEF SetOf, Sorted, PartOf
    <3>13. (SetOf(Got(s), t))' = SetOf(Got(s), t) /\ (Sorted(Got(s), t))' = Sorted(Got(s), t)
      BY <2>2, <3>12
    <3>14. SetOf(Got(s), t) = {hist[t][n] : n \in Due(t, s)} /\ Sorted(Got(s), t)
      BY <2>1, <2>3 DEF Flushed
    <3>15. (SetOf(Got(s), t))' = {hist'[t][n] : n \in Due(t, s)'} /\ (Sorted(Got(s), t))'
      BY <3>11, <3>13, <3>14
    <3>16. Flushed(s, t)'
      BY <3>15, Zenon DEF Flushed
    <3> QED BY <2>3, <3>16, Zenon
  <2>4. CASE u # t
    <3>1. Late(u, s)' <=> Late(u, s)
      BY <1>7, <1>11, <2>4, LateKept
    <3> QED BY <1>10, <1>11, <2>1, <2>2, <2>4, <3>1, FlushedKept
  <2> QED BY <2>3, <2>4
<1> QED BY <1>2, <1>4, <1>11, <1>12, <1>13, <1>16, <1>17, <1>18, <1>19, ShapeStep

-----------------------------------------------------------------------------
(* The constructor of LogManager, and the theorems.                        *)

\* LogManager's items are a list that the file or a default has.
LEMMA ReadItems ==
  ASSUME LoggingInv, MakeLogManager
  PROVE  /\ CInv(AllValues)' /\ Settled' /\ LogItems' \in Seq(Items)
         /\ LogItems' = GetFrom(Stored(LogsKey, NoLogs), LogsKey, "logs").val
<1> DEFINE read == GetFrom(Stored(LogsKey, NoLogs), LogsKey, "logs")
           a == miss'[LogsKey]
<1>1. "val" \in DOMAIN read /\ GetIfExists(LogsKey, NoLogs)
  BY DEF MakeLogManager
<1>2. miss' = Stored(LogsKey, NoLogs) /\ format' = format /\ file' = file
  BY <1>1 DEF GetIfExists
<1>3. LogsKey \in Keys /\ NoLogs \in AllValues /\ "logs" \in Types /\ NoLogs.type = "logs"
  BY LoggingAssumption DEF AllValues
<1>4. CInv(AllValues)'
  <2>1. Call(AllValues, LogsKey, "logs", NoLogs)
    BY <1>1, <1>3 DEF Call
  <2> QED BY <1>3, <2>1, AllValuesAre, CallKeeps DEF LoggingInv
<1>5. /\ Missing(LogsKey)' = Missing(LogsKey) /\ Found(LogsKey)' = Found(LogsKey)
      /\ Converted(LogsKey, "logs")' = Converted(LogsKey, "logs")
  BY <1>2 DEF Missing, Found, Converted
<1>6. Gets(read, a, LogsKey, "logs")
  BY <1>2, GetFromIs
<1>7. LogItems' = read.val
  <2> HIDE DEF read
  <2>1. GetFrom(miss, LogsKey, "logs")' = read
    BY <1>5, <1>6, ReadAfter DEF Gets
  <2> QED BY <2>1 DEF LogItems
<1>8. \A e : read # Failed(e)
  <2>1. \A e : "val" \notin DOMAIN Failed(e)
    BY DEF Failed
  <2> QED BY <1>1, <2>1
<1>9. a \in AllValues \cup {Absent}
  BY <1>3, <1>4 DEF CInv, ConfigTypes
<1> HIDE DEF a, read
<1>10. /\ a # Absent \/ ~Missing(LogsKey)
       /\ read \in AllValues \ {Absent} /\ read.type = "logs"
  <2>1. CASE a # Absent
    BY <1>6, <1>8, <1>9, <2>1 DEF Gets
  <2>2. CASE a = Absent
    <3>1. /\ ~Missing(LogsKey) /\ Found(LogsKey) # Scalar
          /\ read = Converted(LogsKey, "logs") /\ Converted(LogsKey, "logs") # Absent
      BY <1>6, <1>8, <2>2 DEF Gets
    <3>2. format \in {"json", "yaml"} /\ file \in Files
      BY DEF LoggingInv, CInv, ConfigTypes
    <3> QED BY <1>3, <3>1, <3>2, AllValuesAre, ConvertedType
  <2> QED BY <2>1, <2>2
<1>11. Settled'
  BY <1>5, <1>10 DEF Settled, a
<1>12. read.val \in Seq(Items)
  <2>1. CASE read = NoLogs
    <3>1. read.val = <<>>
      BY <2>1, LoggingAssumption
    <3> QED BY <3>1
  <2>2. CASE read \in Values
    <3>1. read.val \in Seq([name : STRING, flushers : Seq([id : Ids, caps : BOOLEAN])])
      BY <1>10, <2>2, LoggingAssumption
    <3> QED BY <3>1 DEF Items
  <2> QED BY <1>10, <2>1, <2>2 DEF AllValues
<1> QED BY <1>4, <1>7, <1>11, <1>12 DEF read

\* The constructor.
LEMMA MakeStep ==
  ASSUME LoggingInv, MakeLogManager
  PROVE  LoggingInv'
<1>1. PICK items \in Seq(Items) : items = LogItems'
  BY ReadItems
<1>2. PICK all : all = Configured(makers, items)
  OBVIOUS
<1>3. /\ objs = <<>> /\ objs' = all.objs /\ sinks' = all.sinks
      /\ loggers' = all.loggers /\ default' = all.default
      /\ makers' = makers /\ known' = makers /\ run' = run /\ hist' = hist
  <2>1. items = GetFrom(Stored(LogsKey, NoLogs), LogsKey, "logs").val
    BY <1>1, ReadItems
  <2> QED BY <1>2, <2>1 DEF MakeLogManager
<1>4. DOMAIN loggers = {} /\ \A t \in Threads : hist[t] = <<>>
  BY <1>3 DEF LoggingInv, NoneYet
<1>5. BuiltObjs(makers, all, items, Len(items)) /\ BuiltNames(all, items, Len(items))
  <2>1. \A x \in DOMAIN makers : makers[x] \in AllKinds
    BY DEF LoggingInv, LogTypes
  <2> QED BY <1>2, <1>4, <2>1, ConfiguredBuilt
<1>6. /\ objs' \in Seq(Objs) /\ Len(objs') = Len(items) + 1 /\ sinks' \in Seq(Sinks)
      /\ \A s \in 1..Len(sinks') : Fresh(sinks'[s])
      /\ \A l \in 1..Len(objs') : Fits(objs'[l].flushers, sinks', KindList(makers, items, l))
  BY <1>3, <1>5 DEF BuiltObjs
<1>7. LogTypes'
  BY <1>3, <1>6 DEF LoggingInv, LogTypes
<1>8. objs' # <<>>
  BY <1>6
<1>9. Built'
  <2>1. \A l \in 1..Len(objs') : KindList(known, LogItems, l)' = KindList(makers, items, l)
    BY <1>1, <1>3 DEF KindList, ItemKinds, FlusherKind
  <2>2. BuiltNames([loggers |-> loggers, default |-> default], LogItems, Len(LogItems))'
    BY <1>1, <1>3, <1>5 DEF BuiltNames, NamedBy
  <2> QED BY <1>1, <1>6, <2>1, <2>2, ReadItems DEF Built
<1>10. HistNumbered'
  BY <1>3, <1>4 DEF HistNumbered
<1>11. \A t \in Threads : run[t].at = "idle"
  BY <1>4 DEF LoggingInv, FlushesLast
<1>12. FlushesLast' /\ AppendsAlone'
  BY <1>3, <1>11, PartsAfter
<1>13. Unbuffered'
  BY <1>6 DEF Unbuffered, Fresh
<1>14. EveryRecordOnce'
  <2>1. ASSUME NEW s \in 1..Len(sinks'), NEW t \in Threads PROVE Flushed(s, t)'
    <3>1. Got(s)' = <<>>
      <4>1. sinks'[s].out = <<>> /\ sinks'[s].buf = <<>>
        BY <1>6 DEF Fresh
      <4> QED BY <4>1 DEF Got
    <3>2. Due(t, s)' = {}
      BY <1>3, <1>4 DEF Due
    <3>3. PartOf(<<>>, t) = {}
      BY DEF PartOf
    <3>4. SetOf(<<>>, t) = {} /\ Sorted(<<>>, t)
      BY <3>3 DEF SetOf, Sorted
    <3>5. (SetOf(Got(s), t))' = SetOf(Got(s)', t) /\ (Sorted(Got(s), t))' = Sorted(Got(s)', t)
      BY DEF SetOf, Sorted, PartOf
    <3> QED BY <3>1, <3>2, <3>4, <3>5 DEF Flushed
  <2> QED BY <1>7, <2>1, OnceAfter
<1>15. NoneYet'
  BY <1>8 DEF NoneYet
<1> QED BY <1>7, <1>9, <1>10, <1>12, <1>13, <1>14, <1>15, ReadItems DEF LoggingInv

\* The invariant holds at first.
LEMMA LoggingInit ==
  ASSUME Init
  PROVE  LoggingInv
<1>1. CInv(AllValues)
  BY CInvInit DEF Init
<1>2. /\ makers = Kind /\ known = Kind /\ DOMAIN loggers = {} /\ default = 0 /\ objs = <<>> /\ sinks = <<>>
      /\ run = [t \in Threads |-> Idle] /\ hist = [t \in Threads |-> <<>>]
  BY DEF Init
<1>3. LogTypes
  <2>1. <<>> \in Seq(Objs) /\ <<>> \in Seq(Sinks) /\ <<>> \in Seq(Records)
    OBVIOUS
  <2> QED BY <1>2, <2>1 DEF LogTypes, AllKinds
<1>4. NoneYet /\ Built /\ HistNumbered /\ Unbuffered
  BY <1>2 DEF NoneYet, Built, HistNumbered, Unbuffered
<1>5. FlushesLast /\ AppendsAlone
  BY <1>2 DEF FlushesLast, AppendsAlone, Idle
<1>6. EveryRecordOnce
  BY <1>2 DEF EveryRecordOnce
<1> QED BY <1>1, <1>3, <1>4, <1>5, <1>6 DEF LoggingInv

\* Every step keeps it.
LEMMA LoggingStep ==
  ASSUME LoggingInv, [Next]_vars
  PROVE  LoggingInv'
<1>1. ASSUME UNCHANGED vars PROVE LoggingInv'
  BY <1>1, ConfigStep DEF vars, config
<1>2. ASSUME ConfigNext, UNCHANGED <<makers, logs, sinks, run, hist, aborted>> PROVE LoggingInv'
  BY <1>2, ConfigStep
<1>3. ASSUME NEW id \in Ids, NEW caps \in BOOLEAN, NEW kind \in NewKinds,
             RegisterFlushMaker(Key(id, caps), kind)
      PROVE  LoggingInv'
  BY <1>3, RegisterStep
<1>4. ASSUME NEW l \in DOMAIN objs, NEW level \in Levels, SetLevel(l, level) PROVE LoggingInv'
  BY <1>4, LevelStep
<1>5. ASSUME NEW t \in Threads, NEW l \in Pointers, NEW level \in Levels, Log(t, l, level) PROVE LoggingInv'
  BY <1>5, LogStep
<1>6. ASSUME NEW t \in Threads, FlushDirect(t) \/ FlushBegin(t) \/ FlushAppend(t) \/ LogDone(t)
      PROVE  LoggingInv'
  BY <1>6, DirectStep, BeginStep, AppendStep, DoneStep
<1>7. ASSUME NEW s \in DOMAIN sinks, DoFlush(s) PROVE LoggingInv'
  BY <1>7, DoFlushStep
<1>8. ASSUME MakeLogManager PROVE LoggingInv'
  BY <1>8, MakeStep
<1> QED BY <1>1, <1>2, <1>3, <1>4, <1>5, <1>6, <1>7, <1>8 DEF Next

\* The invariant is one of the specification.
LEMMA LoggingHolds == Spec => []LoggingInv
<1>1. Init => LoggingInv
  BY LoggingInit
<1>2. LoggingInv /\ [Next]_vars => LoggingInv'
  BY LoggingStep
<1> QED BY <1>1, <1>2, PTL DEF Spec

\* However many threads log at the same time through whatever loggers the
\* configuration makes, every protected or asynchronous flusher of Logger::log
\* has each thread's records for it once, in their order, and no others.
THEOREM RecordsArriveOnce == Spec => []EveryRecordOnce
<1>1. LoggingInv => EveryRecordOnce
  BY DEF LoggingInv
<1> QED BY <1>1, LoggingHolds, PTL

\* Answers of the configuration stay final while LogManager reads it too, with a
\* default of its own.
THEOREM AnswersStayFinal == Spec => []ConfigStable
<1>1. LoggingInv => ConfigStable
  BY AnswersHeld DEF LoggingInv
<1> QED BY <1>1, LoggingHolds, PTL

\* The kinds of a logger's flushers are those it was made with.
LEMMA KindsOfAre ==
  ASSUME LoggingInv, objs # <<>>, NEW l \in 1..Len(objs), KindList(known, LogItems, l) \in Seq(AllKinds)
  PROVE  KindsOf(l) = KindList(known, LogItems, l)
<1>1. Fits(objs[l].flushers, sinks, KindList(known, LogItems, l))
  BY DEF LoggingInv, Built
<1>2. PICK fl \in Seq(Nat) : fl = objs[l].flushers
  BY FlushersAre
<1>3. PICK q \in Seq(AllKinds) : q = KindList(known, LogItems, l)
  OBVIOUS
<1>4. DOMAIN fl = DOMAIN q /\ \A i \in DOMAIN fl : sinks[fl[i]].kind = q[i]
  BY <1>1, <1>2, <1>3 DEF Fits
<1>5. KindsOf(l) = [i \in DOMAIN fl |-> sinks[fl[i]].kind]
  BY <1>2 DEF KindsOf
<1>6. q = [i \in DOMAIN q |-> q[i]]
  OBVIOUS
<1>7. [i \in DOMAIN fl |-> sinks[fl[i]].kind] = [i \in DOMAIN q |-> q[i]]
  BY <1>4
<1> QED BY <1>3, <1>5, <1>6, <1>7

\* LogManager is what the configuration says.
LEMMA Reflected ==
  ASSUME LoggingInv, objs # <<>>
  PROVE  ReflectsConfig
<1>1. PICK items \in Seq(Items) : items = LogItems
  BY DEF LoggingInv, Built
<1>2. Len(objs) = Len(items) + 1 /\ BuiltNames([loggers |-> loggers, default |-> default], items, Len(items))
  BY <1>1 DEF LoggingInv, Built
<1>3. /\ DOMAIN loggers = {"root", "system"} \cup {items[j].name : j \in 1..Len(items)}
      /\ \A name \in DOMAIN loggers : NamedBy(loggers[name], items, Len(items), name)
      /\ default = loggers["root"]
  BY <1>2 DEF BuiltNames
<1>4. DOMAIN items = 1..Len(items) /\ Len(items) \in Nat
  OBVIOUS
<1>5. \A x \in DOMAIN known : known[x] \in AllKinds
  BY DEF LoggingInv, LogTypes
<1>6. ASSUME NEW name \in DOMAIN loggers, Named(name) = {}
      PROVE  loggers[name] = 1 /\ KindsOf(1) = RootFlushers
  <2>1. \A j \in 1..Len(items) : items[j].name # name
    BY <1>1, <1>4, <1>6 DEF Named
  <2>2. loggers[name] = 1
    <3>1. NamedBy(loggers[name], items, Len(items), name)
      BY <1>3
    <3>2. \A l \in 2..(Len(items) + 1) : l - 1 \in 1..Len(items)
      BY <1>4
    <3> QED BY <2>1, <3>1, <3>2 DEF NamedBy
  <2>3. KindList(known, LogItems, 1) = RootFlushers /\ RootFlushers \in Seq(AllKinds)
    BY DEF KindList, RootFlushers, AllKinds
  <2>4. 1 \in 1..Len(objs)
    BY <1>2, <1>4
  <2>5. KindsOf(1) = RootFlushers
    BY <2>3, <2>4, KindsOfAre
  <2> QED BY <2>2, <2>5
<1>7. ASSUME NEW name \in DOMAIN loggers, Named(name) # {},
             NEW fs, fs = LogItems[LastOf(name)].flushers
      PROVE  /\ Len(KindsOf(loggers[name])) = Cardinality(Known(known, fs))
             /\ \A i \in Known(known, fs) : KindsOf(loggers[name])[Place(known, fs, i)] = known[fs[i].id]
  <2>1. PICK l : l = loggers[name]
    OBVIOUS
  <2>2. PICK x \in Named(name) : TRUE
    BY <1>7
  <2>3. x \in 1..Len(items) /\ items[x].name = name
    BY <1>1, <1>4, <2>2 DEF Named
  <2>4. /\ l \in 2..(Len(items) + 1) /\ items[l - 1].name = name
        /\ \A j \in l..Len(items) : items[j].name # name
    BY <1>3, <2>1, <2>3 DEF NamedBy
  <2>5. l - 1 \in 1..Len(items) /\ l \in 1..Len(objs) /\ l # 1
    BY <1>2, <1>4, <2>4
  <2>6. l - 1 \in Named(name)
    BY <1>1, <1>4, <2>4, <2>5 DEF Named
  <2>7. \A j \in Named(name) : j \in 1..Len(items) /\ j <= l - 1
    <3> SUFFICES ASSUME NEW j \in Named(name) PROVE j \in 1..Len(items) /\ j <= l - 1
      OBVIOUS
    <3>1. j \in 1..Len(items) /\ items[j].name = name
      BY <1>1, <1>4 DEF Named
    <3>2. j \notin l..Len(items)
      BY <2>4, <3>1
    <3> QED BY <1>4, <2>4, <3>1, <3>2
  <2>8. LastOf(name) = l - 1
    <3>1. \E i \in Named(name) : \A j \in Named(name) : j <= i
      BY <2>6, <2>7
    <3>2. LastOf(name) \in Named(name) /\ \A j \in Named(name) : j <= LastOf(name)
      BY <3>1 DEF LastOf
    <3>3. l - 1 <= LastOf(name) /\ LastOf(name) <= l - 1 /\ LastOf(name) \in Nat
      BY <2>6, <2>7, <3>2
    <3> QED BY <1>4, <2>5, <3>3
  <2>9. PICK item \in Items : item = items[l - 1] /\ item.flushers = fs
    BY <1>1, <1>7, <2>5, <2>8
  <2>10. item.flushers \in Seq([id : Ids, caps : BOOLEAN])
    BY DEF Items
  <2>11. /\ ItemKinds(known, item) \in Seq(AllKinds)
         /\ Len(ItemKinds(known, item)) = Cardinality(Known(known, item.flushers))
         /\ \A i \in Known(known, item.flushers) :
              ItemKinds(known, item)[Place(known, item.flushers, i)] = known[item.flushers[i].id]
    <3>1. KindsFit(known, item)
      BY <1>5, <2>10, ItemKindsAre
    <3> QED BY <3>1, Zenon DEF KindsFit
  <2>12. KindList(known, LogItems, l) = ItemKinds(known, item)
    BY <1>1, <2>5, <2>9 DEF KindList
  <2>13. KindsOf(l) = ItemKinds(known, item)
    BY <2>5, <2>11, <2>12, KindsOfAre
  <2> QED BY <2>1, <2>9, <2>11, <2>13
<1>8. {"root", "system"} \cup {LogItems[i].name : i \in DOMAIN LogItems} = DOMAIN loggers
  BY <1>1, <1>3, <1>4
<1>9. ASSUME NEW name \in DOMAIN loggers
      PROVE  IF Named(name) = {} THEN loggers[name] = 1 /\ KindsOf(1) = RootFlushers
             ELSE LET fs == LogItems[LastOf(name)].flushers
                  IN  /\ Len(KindsOf(loggers[name])) = Cardinality(Known(known, fs))
                      /\ \A i \in Known(known, fs) : KindsOf(loggers[name])[Place(known, fs, i)] = known[fs[i].id]
  BY <1>6, <1>7
<1>10. default = loggers["root"]
  BY <1>3
<1> QED BY <1>8, <1>9, <1>10, Zenon DEF ReflectsConfig

\* Whatever "logs" holds, whichever types are registered before, and whoever reads
\* the configuration first, the loggers LogManager has are those its constructor
\* was to make.
THEOREM LoggersReflectConfig == Spec => []ReflectsConfig
<1>1. LoggingInv => ReflectsConfig
  <2>1. CASE objs = <<>>
    BY <2>1 DEF ReflectsConfig
  <2> QED BY <2>1, Reflected
<1> QED BY <1>1, LoggingHolds, PTL
=============================================================================
