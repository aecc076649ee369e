-------------------------------- MODULE Config --------------------------------
(***************************************************************************)
(* JsonConfig and YamlConfig: typed values by dotted key, from a file that *)
(* is read once and from miss_map_, the defaults of keys that were asked   *)
(* for and not found.  A file that cannot be read is an empty one          *)
(* (BaseMainConfig).  The tables have no lock: each call is a step.        *)
(***************************************************************************)
EXTENDS Naturals, FiniteSets

CONSTANTS
  Keys,      \* dotted keys
  Depth,     \* the number of segments of each key
  Types,     \* types callers ask for
  Nodes,     \* what a key of a file may lead to
  Files,     \* contents the file may have: what the walk along each key meets
  Convert,   \* the library's conversion of a node, Absent if it fails
  Defaults,  \* default values callers pass
  Absent,    \* no value
  Null,      \* the node null
  Scalar     \* the walk meets a scalar, which has no keys, before its end

VARIABLES
  format,  \* "json" or "yaml"
  file,    \* json_object_ or node_
  miss,    \* miss_map_
  told     \* the answers given so far, each with its key

config == <<format, file, miss, told>>

Values == Defaults \cup {Convert[c] : c \in DOMAIN Convert}

ASSUME ConfigAssumption ==
  /\ Depth \in [Keys -> Nat] /\ Files \subseteq [Keys -> Nodes \cup {Absent, Scalar}]
  /\ Null \in Nodes /\ Absent \notin Nodes /\ Absent \notin Defaults /\ Scalar \notin Nodes \cup {Absent}
  /\ DOMAIN Convert = {"json", "yaml"} \X Nodes \X Types
  /\ \A v \in Values \ {Absent} : {"type", "val"} \subseteq DOMAIN v /\ v.type \in Types
  /\ \A c \in DOMAIN Convert : Convert[c] # Absent => Convert[c].type = c[3]

ConfigInit ==
  /\ format \in {"json", "yaml"} /\ file \in Files
  /\ miss = [k \in Keys |-> Absent] /\ told = {}

MaxYamlDepth == 5

\* The walk along the segments of the key; YamlConfig stops at five.
Found(k) == IF format = "yaml" /\ Depth[k] > MaxYamlDepth THEN Absent ELSE file[k]

\* json's find has nothing for the keys of a scalar; a node of YAML that is null is
\* taken for none, one of json is not.
Missing(k) ==
  \/ Found(k) = Absent
  \/ format = "json" /\ Found(k) = Scalar
  \/ format = "yaml" /\ Found(k) = Null

Failed(e) == [err |-> e]

\* The conversion of the file's node to T: a number may be had as an int or as a
\* double, a scalar of YAML as a string too, with different values.
Converted(k, T) == Convert[<<format, Found(k), T>>]

\* get<T>: a stored default first, with an any_cast to exactly T; then the file,
\* with a conversion to T.  The any_cast's exception and yaml-cpp's BadSubscript are
\* not caught.
GetFrom(m, k, T) ==
  CASE m[k] # Absent -> IF m[k].type = T THEN m[k] ELSE Failed("bad_any_cast")
    [] m[k] = Absent /\ Missing(k) -> Failed("KeyNotFound")
    [] m[k] = Absent /\ ~Missing(k) /\ Found(k) = Scalar -> Failed("BadSubscript")
    [] OTHER -> IF Converted(k, T) = Absent THEN Failed("ConvertFailed") ELSE Converted(k, T)

\* Mutant: the default replaces one stored before.
StoredLatest(k, d) == [miss EXCEPT ![k] = IF Missing(k) THEN d ELSE @]

\* getIfExists<T>: KeyNotFound, and nothing else, stores the default.
Stored(k, d) ==
  IF GetFrom(miss, k, d.type) = Failed("KeyNotFound") THEN [miss EXCEPT ![k] = d] ELSE miss

\* An exception is no answer.
Answer(k, v) == told' = IF "err" \in DOMAIN v THEN told ELSE told \cup {<<k, v>>}

Get(k, T) ==
  /\ Answer(k, GetFrom(miss, k, T))
  /\ UNCHANGED <<format, file, miss>>

GetIfExists(k, d) ==
  /\ miss' = Stored(k, d) /\ Answer(k, GetFrom(miss', k, d.type))
  /\ UNCHANGED <<format, file>>

ConfigNext ==
  \E k \in Keys : (\E T \in Types : Get(k, T)) \/ (\E d \in Defaults : GetIfExists(k, d))

ConfigSpec == ConfigInit /\ [][ConfigNext]_config

-----------------------------------------------------------------------------
(* Properties.                                                             *)

\* Whoever asks for a key as one type gets one and the same value, whatever defaults
\* the others passed and in whatever order; a key of the file gets what the library
\* makes of the file's node, and never a default; and a key that is missing has one
\* value altogether, of the type it was first asked for with a default.
ConfigStable ==
  /\ \A a, b \in told : a[1] = b[1] /\ (a[2].type = b[2].type \/ Missing(a[1])) => a = b
  /\ \A a \in told : ~Missing(a[1]) => Found(a[1]) # Scalar /\ a[2] = Converted(a[1], a[2].type)
===============================================================================
