----------------------------- MODULE MCLogging -----------------------------
(* Instances of Logging for TLC.                                           *)
EXTENDS Logging

MCKeys == {"logs"}
MCDepth == [k \in MCKeys |-> 1]
MCTypes == {"int", "double", "logs"}
MCKind == "PF" :> "ProtectedFile" @@ "AS" :> "AsyncStdout"
MCNoLogs == [type |-> "logs", val |-> <<>>]
Item(name, fs) == [name |-> name, flushers |-> fs]
MCLogs == [type |-> "logs",
           val |-> <<Item("root", <<[id |-> "PF", caps |-> FALSE], [id |-> "XX", caps |-> TRUE]>>),
                     Item("app", <<[id |-> "AS", caps |-> FALSE]>>),
                     Item("root", <<[id |-> "XX", caps |-> FALSE], [id |-> "PF", caps |-> FALSE]>>)>>]

\* The file has no "logs", the list above, a number, a null, or a scalar on the way.
MCNodes == {"list", "3.141", Null}
MCFiles == {[k \in MCKeys |-> n] : n \in MCNodes \cup {Absent, Scalar}}

\* nlohmann's get<int> cuts 3.141, yaml-cpp's as<int> fails.
MCConvert ==
  [c \in {"json", "yaml"} \X MCNodes \X MCTypes |->
     CASE c[2] = "list" /\ c[3] = "logs" -> MCLogs
       [] c[2] = "3.141" /\ c[3] = "double" -> [type |-> "double", val |-> 3141]
       [] c = <<"json", "3.141", "int">> -> [type |-> "int", val |-> 3]
       [] OTHER -> Absent]

\* Others may ask for "logs" first: as numbers, or with a list of their own.
MCDefaults == {[type |-> "int", val |-> 1], [type |-> "int", val |-> 2],
               [type |-> "logs", val |-> <<Item("app", <<[id |-> "XX", caps |-> TRUE]>>)>>]}

MCSymmetry == Permutations(Threads)
=============================================================================
