------------------------------- MODULE Logging -------------------------------
(***************************************************************************)
(* The logging front end: the registry of flusher makers, LogManager and   *)
(* the loggers it builds from the configuration, and threads that log      *)
(* through them at the same time.  The threads of the asynchronous         *)
(* flushers and the writes of a file are the subject of AsyncLog; here a   *)
(* record is whole, and a file's buffer holds BufCap of them.  Formatting  *)
(* is left out.                                                            *)
(***************************************************************************)
EXTENDS Config, Sequences, SequencesExt

CONSTANTS
  Threads,   \* threads that log
  Ids,       \* names of flushers, letters' case aside
  Kind,      \* the flushers that are registered at first, by name
  NewKinds,  \* the flushers that users register
  LogsKey,   \* the key "logs"
  NoLogs,    \* its default, an empty list
  Levels,    \* levels used
  Fatal,     \* the last of them
  BufCap,    \* records in the buffer of a WritableFile
  MaxLogs    \* bound: records the threads log in all

\* flusher_max: addOneFlusher does not test it, and writes behind the array of a
\* Logger that gets more.  Configurations that do are left out.
FlusherMax == 10

ASSUME LoggingAssumption ==
  /\ DOMAIN Kind \subseteq Ids /\ LogsKey \in Keys /\ BufCap \in Nat /\ MaxLogs \in Nat
  /\ Levels \subseteq Nat /\ Fatal \in Levels
  /\ NoLogs # Absent /\ {"type", "val"} \subseteq DOMAIN NoLogs
  /\ "logs" \in Types /\ NoLogs.type = "logs" /\ NoLogs.val = <<>>
  /\ \A v \in Values \ {Absent} : v.type = "logs" =>
       /\ v.val \in Seq([name : STRING, flushers : Seq([id : Ids, caps : BOOLEAN])])
       /\ \A i \in DOMAIN v.val : Len(v.val[i].flushers) <= FlusherMax

VARIABLES
  makers,   \* flushers_maker_: from names in capitals to the kind of flusher made
  loggers,  \* loggers_: from names to Logger objects
  default,  \* default_logger_, 0 for a null pointer
  objs,     \* the Logger objects
  known,    \* history: the registry as LogManager's constructor found it
  sinks,    \* the Flusher objects
  run,      \* where each thread is in Logger::log
  hist,     \* the records each thread has logged
  aborted   \* abort() was called

logs == <<loggers, default, objs, known>>
vars == <<config, makers, logs, sinks, run, hist, aborted>>

\* Flushers that write to a file, to standard output or a string, to a pool that a thread
\* empties (AsyncStdoutLogFlusher), and to one that nobody empties: the maker of
\* AsyncFileLogFlusher takes the constructor that starts no thread.
FileKinds   == {"SimpleFile", "ProtectedFile"}
DirectKinds == {"SimpleStdout", "ProtectedStdout", "String"}
AsyncKinds  == {"AsyncStdout", "AsyncFile"}

NewSink(kind) == [kind |-> kind, buf |-> <<>>, out |-> <<>>, lock |-> {}]
Idle == [at |-> "idle"]

Init ==
  /\ ConfigInit
  /\ makers = Kind /\ known = Kind
  /\ loggers = [n \in {} |-> 0] /\ default = 0 /\ objs = <<>> /\ sinks = <<>>
  /\ run = [t \in Threads |-> Idle] /\ hist = [t \in Threads |-> <<>>] /\ aborted = FALSE

-----------------------------------------------------------------------------
(* The registry.  A key is a name in capitals or not.                      *)

\* Mutant: the map's operator[] instead of emplace.
EmplaceAssigns(id, kind) ==
  [x \in DOMAIN makers \cup {id} |-> IF x = id THEN kind ELSE makers[x]]

Emplace(id, kind) ==
  [x \in DOMAIN makers \cup {id} |-> IF x \in DOMAIN makers THEN makers[x] ELSE kind]

\* rigisterFlushMaker looks for the key as it is and adds it in capitals: a name
\* that is known and not given in capitals passes for a new one.
RegisterFlushMaker(key, kind) ==
  /\ ~(key.caps /\ key.id \in DOMAIN makers)
  /\ makers' = Emplace(key.id, kind)
  /\ UNCHANGED <<config, logs, sinks, run, hist, aborted>>

\* Mutant: the key is not converted.
FlusherKindExact(mk, key) ==
  IF key.caps /\ key.id \in DOMAIN mk THEN <<mk[key.id]>> ELSE <<>>

\* getLogFlusher, of a registry that holds mk: nothing for an unknown name.
FlusherKind(mk, key) == IF key.id \in DOMAIN mk THEN <<mk[key.id]>> ELSE <<>>

-----------------------------------------------------------------------------
(* LogManager.                                                             *)

\* initDefaultLogger; the registry's constructor knows both.
RootFlushers == <<"ProtectedStdout", "ProtectedFile">>

\* from_json: a name, or none; a flusher's type, or none.  The level that it
\* reads is not used.
ItemName(item) == item.name
ItemKinds(mk, item) ==
  FlattenSeq([i \in DOMAIN item.flushers |-> FlusherKind(mk, item.flushers[i])])

\* Add to state m a Logger with flushers of the given kinds, under each of names;
\* the logger "root" is the default one too.
AddLogger(m, names, kinds) ==
  LET n == Len(m.sinks)
      l == Len(m.objs) + 1
  IN  [objs    |-> Append(m.objs, [level |-> 0, flushers |-> [i \in DOMAIN kinds |-> n + i]]),
       sinks   |-> m.sinks \o [i \in DOMAIN kinds |-> NewSink(kinds[i])],
       loggers |-> [x \in names \cup DOMAIN m.loggers |-> IF x \in names THEN l ELSE m.loggers[x]],
       default |-> IF "root" \in names THEN l ELSE m.default]

\* initDefaultLogger, and initLoggerFromConfig's loop over the items.
DefaultLogger ==
  AddLogger([objs |-> <<>>, sinks |-> <<>>, loggers |-> loggers, default |-> 0],
            {"root", "system"}, RootFlushers)

Configured(mk, items) ==
  LET made[i \in 0..Len(items)] ==
        IF i = 0 THEN DefaultLogger
        ELSE AddLogger(made[i - 1], {ItemName(items[i])}, ItemKinds(mk, items[i]))
  IN  made[Len(items)]

\* LogManager's constructor, at the first getInstance.  It reads BaseMainConfig, a
\* JsonConfig; it throws, and is tried again by the next, while "logs" cannot be
\* converted.
MakeLogManager ==
  LET read == GetFrom(Stored(LogsKey, NoLogs), LogsKey, "logs")
      all  == Configured(makers, read.val)
  IN  /\ objs = <<>> /\ ~aborted /\ format = "json"
      /\ "val" \in DOMAIN read /\ known' = makers
      /\ objs' = all.objs /\ sinks' = all.sinks /\ loggers' = all.loggers /\ default' = all.default
      /\ GetIfExists(LogsKey, NoLogs)
      /\ UNCHANGED <<makers, run, hist, aborted>>

SetLevel(l, level) ==
  /\ l \in DOMAIN objs /\ ~aborted
  /\ objs' = [objs EXCEPT ![l].level = level]
  /\ UNCHANGED <<config, makers, loggers, default, known, sinks, run, hist, aborted>>

-----------------------------------------------------------------------------
(* LON_LOG and Logger::log on a thread.                                    *)

\* The macro's level test, the LogWrapper and its destructor up to the loop over
\* the flushers.  A name that has no logger is a null pointer: callers use known
\* ones, or getDefault.
Pointers == {loggers[name] : name \in DOMAIN loggers} \cup ({default} \ {0})

Log(t, l, level) ==
  /\ run[t] = Idle /\ ~aborted
  /\ MapThenSumSet(LAMBDA u : Len(hist[u]), Threads) < MaxLogs
  /\ l \in Pointers /\ objs[l].level <= level
  /\ LET rec == [by |-> t, n |-> Len(hist[t]) + 1, log |-> l]
     IN  /\ hist' = [hist EXCEPT ![t] = Append(@, rec)]
         /\ run' = [run EXCEPT ![t] = [at |-> "flush", rec |-> rec, i |-> 1, level |-> level]]
  /\ UNCHANGED <<config, makers, logs, sinks, aborted>>

Flushers(t) == objs[run[t].rec.log].flushers
AtFlusher(t, kinds) ==
  /\ ~aborted /\ run[t].at = "flush" /\ run[t].i <= Len(Flushers(t))
  /\ sinks[Flushers(t)[run[t].i]].kind \in kinds
NextFlusher(t) == run' = [run EXCEPT ![t] = [at |-> "flush", rec |-> @.rec, i |-> @.i + 1, level |-> @.level]]

\* flush to standard output, or to the pool of an asynchronous flusher.
FlushDirect(t) ==
  /\ AtFlusher(t, DirectKinds \cup AsyncKinds)
  /\ LET s == Flushers(t)[run[t].i]
     IN  sinks' = IF sinks[s].kind \in DirectKinds THEN [sinks EXCEPT ![s].out = Append(@, run[t].rec)]
                  ELSE [sinks EXCEPT ![s].buf = Append(@, run[t].rec)]
  /\ NextFlusher(t)
  /\ UNCHANGED <<config, makers, logs, hist, aborted>>

\* Mutant: no file is protected.
LockedNone(kind) == FALSE

Locked(kind) == kind = "ProtectedFile"

\* A protected file's flush takes the mutex; WritableFile::append reads pos_.
FlushBegin(t) ==
  /\ AtFlusher(t, FileKinds)
  /\ LET s == Flushers(t)[run[t].i]
     IN  /\ Locked(sinks[s].kind) => sinks[s].lock = {}
         /\ sinks' = [sinks EXCEPT ![s].lock = IF Locked(sinks[s].kind) THEN {t} ELSE @]
         /\ run' = [run EXCEPT ![t] = [at |-> "append", rec |-> @.rec, i |-> @.i, level |-> @.level,
                                       buf |-> sinks[s].buf]]
  /\ UNCHANGED <<config, makers, logs, hist, aborted>>

\* append copies the record behind what it found there; a full buffer goes to
\* the file first.  Then the mutex is released.
FlushAppend(t) ==
  /\ ~aborted /\ run[t].at = "append"
  /\ LET s    == Flushers(t)[run[t].i]
         full == Len(run[t].buf) >= BufCap
     IN  sinks' = [sinks EXCEPT ![s].out = IF full THEN @ \o run[t].buf ELSE @,
                                ![s].buf = Append(IF full THEN <<>> ELSE run[t].buf, run[t].rec),
                                ![s].lock = {}]
  /\ NextFlusher(t)
  /\ UNCHANGED <<config, makers, logs, hist, aborted>>

\* The end of LogWrapper's destructor: FATAL ends the process, and with it what
\* the buffers and the pools hold.
LogDone(t) ==
  /\ ~aborted /\ run[t].at = "flush" /\ run[t].i > Len(Flushers(t))
  /\ run' = [run EXCEPT ![t] = Idle]
  /\ aborted' = (run[t].level = Fatal)
  /\ UNCHANGED <<config, makers, logs, sinks, hist>>

\* AsyncStdoutLogFlusher::doFlush, on its thread.
DoFlush(s) ==
  /\ ~aborted /\ s \in DOMAIN sinks /\ sinks[s].kind = "AsyncStdout" /\ sinks[s].buf # <<>>
  /\ sinks' = [sinks EXCEPT ![s].out = @ \o sinks[s].buf, ![s].buf = <<>>]
  /\ UNCHANGED <<config, makers, logs, run, hist, aborted>>

Key(id, caps) == [id |-> id, caps |-> caps]

Next ==
  \/ ConfigNext /\ ~aborted /\ UNCHANGED <<makers, logs, sinks, run, hist, aborted>>
  \/ MakeLogManager
  \/ \E id \in Ids, caps \in BOOLEAN, kind \in NewKinds :
       ~aborted /\ RegisterFlushMaker(Key(id, caps), kind)
  \/ \E l \in DOMAIN objs, level \in Levels : SetLevel(l, level)
  \/ \E t \in Threads :
       \/ \E l \in Pointers, level \in Levels : Log(t, l, level)
       \/ FlushDirect(t) \/ FlushBegin(t) \/ FlushAppend(t) \/ LogDone(t)
  \/ \E s \in DOMAIN sinks : DoFlush(s)

Spec == Init /\ [][Next]_vars

-----------------------------------------------------------------------------
(* Properties.                                                             *)

\* Has thread t still to flush its last record to s?
Late(t, s) ==
  /\ run[t].at # "idle"
  /\ \E i \in DOMAIN Flushers(t) : i >= run[t].i /\ Flushers(t)[i] = s

\* The numbers of the records that thread t has flushed to s.
Due(t, s) ==
  {n \in DOMAIN hist[t] : /\ s \in Range(objs[hist[t][n].log].flushers)
                          /\ n = Len(hist[t]) => ~Late(t, s)}

\* What s has got of thread t, in order.
Got(s) == sinks[s].out \o sinks[s].buf
Mine(s, t) == {i \in DOMAIN Got(s) : Got(s)[i].by = t}

\* Every flusher that is protected or asynchronous has, for each thread, exactly the
\* records the thread logged through a logger with that flusher, once each and in
\* the order they were logged: nothing is lost between threads that flush at the
\* same time, and none goes to a flusher of another logger.
EveryRecordOnce ==
  \A s \in DOMAIN sinks, t \in Threads :
    sinks[s].kind \notin {"SimpleFile", "SimpleStdout", "String"} =>
      /\ {Got(s)[i] : i \in Mine(s, t)} = {hist[t][n] : n \in Due(t, s)}
      /\ \A i, j \in Mine(s, t) : i < j => Got(s)[i].n < Got(s)[j].n

\* A name, in capitals or not, keeps the maker it was registered with first, also
\* when rigisterFlushMaker reports that it has registered another.
FirstMakerStays == [][\A id \in DOMAIN makers : id \in DOMAIN makers' /\ makers'[id] = makers[id]]_vars

\* The flushers of logger l, the types of registry mk among flushers fs of an item,
\* and the place of the i-th among these.
KindsOf(l)       == [i \in DOMAIN objs[l].flushers |-> sinks[objs[l].flushers[i]].kind]
Known(mk, fs)    == {i \in DOMAIN fs : fs[i].id \in DOMAIN mk}
Place(mk, fs, i) == Cardinality({j \in Known(mk, fs) : j <= i})

\* The items of "logs", and those with a name.
LogItems    == GetFrom(miss, LogsKey, "logs").val
Named(name) == {i \in DOMAIN LogItems : LogItems[i].name = name}
LastOf(name) == CHOOSE i \in Named(name) : \A j \in Named(name) : j <= i

\* LogManager is, and stays, what the configuration says: the last item of a name
\* makes its logger, with one flusher, in the item's order, for each of its types that
\* were registered when LogManager was built; types registered later change nothing;
\* getDefault() is the logger "root"; "system" is the first root logger unless the
\* configuration names it; no other name has a logger.
ReflectsConfig ==
  objs # <<>> =>
    /\ default = loggers["root"]
    /\ DOMAIN loggers = {"root", "system"} \cup {LogItems[i].name : i \in DOMAIN LogItems}
    /\ \A name \in DOMAIN loggers :
         IF Named(name) = {} THEN loggers[name] = 1 /\ KindsOf(1) = RootFlushers
         ELSE LET fs == LogItems[LastOf(name)].flushers
              IN  /\ Len(KindsOf(loggers[name])) = Cardinality(Known(known, fs))
                  /\ \A i \in Known(known, fs) :
                       KindsOf(loggers[name])[Place(known, fs, i)] = known[fs[i].id]
=============================================================================
