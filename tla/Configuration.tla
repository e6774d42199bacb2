---------------------------- MODULE Configuration ----------------------------
(***************************************************************************)
(* Where the programs of wdb get their settings from: the command line, a  *)
(* file named there, $HOME/.wdb/wdb.conf, SYSCONFDIR/wdb.conf, and the     *)
(* environment.  The program is wdb, or wdbConfiguration, which prints     *)
(* what wdb would use.                                                     *)
(*                                                                         *)
(*   src/src/common/configuration/wdbConfiguration.h, wdbConfiguration.cpp *)
(*   src/src/common/configuration/wdbConfigurationMain.cpp                 *)
(*   src/src/admin/adminConfiguration.cpp, src/src/admin/main.cpp          *)
(*                                                                         *)
(* A value stands for the place it comes from: what a file says of an      *)
(* option is the name of the file.  A malformed source is one with a       *)
(* syntax error or an option that is unknown; one that gives a port that   *)
(* is no number sets "bad port" instead of "port".                         *)
(***************************************************************************)
EXTENDS Integers, Sequences, FiniteSets

CONSTANTS
    Given,          \* sets of options that a source may set
    Environment,    \* sets of environment variables that may be defined
    Missing,        \* a file that cannot be opened
    Malformed       \* what is in a source that cannot be understood

Option == {"database", "host", "user", "port"}
Layer == {"line", "config", "home", "global"}

\* What wdbConfiguration can be asked for; "all" is asked for without options.
Query == Option \cup {"psqlArgs", "pqxxArgs", "help", "version"}

VARIABLES
    program,    \* "wdb" or "wdbConfiguration"
    asked,      \* the queries that wdbConfiguration was given
    content,    \* what each source sets; the line may name a file (config)
    named,      \* the command line names a configuration file
    env,        \* the environment variables that are defined
    badPort,    \* PGPORT is defined as something else than a number
    at,         \* what is done next
    stored,     \* WdbConfiguration::givenOptions_: option -> value
    result      \* "running", "ok", "error", or "aborted"

configurationVars == <<program, asked, content, named, env, badPort, at, stored, result>>
inputs == <<program, asked, content, named, env, badPort>>

\* The default of an option, read from the environment when the options are
\* described: getDefaultTarget, getDefaultHost, getDefaultUser, getDefaultPort.
Default(o) ==
    CASE o = "database" -> IF "PGDATABASE" \in env THEN "PGDATABASE" ELSE "wdb"
      [] o = "host" -> ""
      [] o = "port" -> IF "PGPORT" \in env THEN "PGPORT" ELSE "5432"
      [] o = "user" -> IF "PGUSER" \in env THEN "PGUSER"
                       ELSE IF "USER" \in env THEN "USER" ELSE ""

\* wdbConfiguration passes on a file only; --conf there is --config here.
Line == IF program = "wdb" THEN content["line"] ELSE {}

ConfigurationInit ==
    /\ program \in {"wdb", "wdbConfiguration"}
    /\ asked \in {q \in SUBSET Query : Cardinality(q) <= 2}
    /\ program = "wdb" => asked = {}
    /\ named \in BOOLEAN
    /\ content \in [Layer -> Given \cup {Missing, Malformed}]
    /\ content["line"] # Missing
    /\ program = "wdbConfiguration" => content["line"] = {}
    /\ ~named => content["config"] = Missing
    /\ env \in Environment
    /\ badPort \in BOOLEAN /\ (badPort => "PGPORT" \in env)
    /\ at = "construct"
    /\ stored = [o \in Option |-> ""]
    /\ result = "running"

Stop(r) == result' = r /\ at' = "end" /\ UNCHANGED <<stored, inputs>>

\* The options of wdbConfiguration itself: one of them, the file counted in.
TooManyOptions == Cardinality(asked) + (IF named THEN 1 ELSE 0) > 1

\* WdbConfiguration(): a port in the environment that is no number is an
\* exception, which wdb, other than wdbConfiguration, does not catch.
Construct ==
    /\ at = "construct"
    /\ IF program = "wdbConfiguration" /\ TooManyOptions THEN Stop("error")
       ELSE IF program = "wdbConfiguration" /\ asked \cap {"help", "version"} # {} THEN Stop("ok")
       ELSE IF badPort THEN Stop(IF program = "wdb" THEN "aborted" ELSE "error")
       ELSE at' = "line" /\ UNCHANGED <<stored, result, inputs>>

\* Mutant: what is read later overrides what was read earlier.
StoredOver(given, by) == [o \in Option |-> IF o \in given THEN by ELSE stored[o]]

\* store() for the source by: an option that has been given a value before is
\* left alone, and a default gives way.
Stored(given, by) ==
    [o \in Option |-> IF o \in given /\ stored[o] = Default(o) THEN by ELSE stored[o]]

\* store() parses the value of an option that it does not leave alone: only the
\* port must be a number.
PortFails(given) == "bad port" \in given /\ stored["port"] = Default("port")

\* parse_(argc, argv) and the first notify(), which sets the name of the file.
ParseLine ==
    /\ at = "line"
    /\ IF Line = Malformed \/ "bad port" \in Line THEN Stop("error")
       ELSE /\ stored' = [o \in Option |-> IF o \in Line THEN "line" ELSE Default(o)]
            /\ at' = IF named THEN "config" ELSE "home"
            /\ UNCHANGED <<result, inputs>>

\* The file that the user names must be there, ...
ParseConfig ==
    /\ at = "config"
    /\ IF content["config"] \in {Missing, Malformed} \/ PortFails(content["config"]) THEN Stop("error")
       ELSE /\ stored' = Stored(content["config"], "config")
            /\ at' = "home"
            /\ UNCHANGED <<result, inputs>>

\* ... the others need not; but only the std::runtime_error of a missing file
\* is ignored, not the std::logic_error of one that cannot be understood.
ParseDefaultFile(file, next) ==
    /\ at = file
    /\ IF \/ content[file] = Malformed
          \/ content[file] # Missing /\ PortFails(content[file])
         THEN Stop("error")
       ELSE /\ stored' = IF content[file] = Missing THEN stored ELSE Stored(content[file], file)
            /\ at' = next
            /\ UNCHANGED <<result, inputs>>

\* The last notify().  wdb does as it is told, wdbConfiguration prints.
Finish == at = "notify" /\ Stop("ok")

ConfigurationNext ==
    \/ Construct
    \/ ParseLine
    \/ ParseConfig
    \/ ParseDefaultFile("home", "global")
    \/ ParseDefaultFile("global", "notify")
    \/ Finish

ConfigurationSpec == ConfigurationInit /\ [][ConfigurationNext]_configurationVars

\* The settings that reach PostgreSQL: libpq takes its own default for others.
PqDatabaseConnection == {o \in Option : o \in {"database", "port"} \/ stored[o] # ""}
PsqlDatabaseConnection == {o \in Option : o # "host" \/ stored[o] # ""}

-----------------------------------------------------------------------------
(* Properties *)

\* The sources that are read for the settings, the most important one first.
Layers == <<"line", "config", "home", "global">>
Sets(i, o) ==
    /\ Layers[i] = "line" => program = "wdb"
    /\ content[Layers[i]] # Missing
    /\ o \in content[Layers[i]]
Settings == [o \in Option |->
    IF \E i \in 1..4 : Sets(i, o)
      THEN LET i == CHOOSE i \in 1..4 : Sets(i, o) /\ \A j \in 1 .. i - 1 : ~Sets(j, o)
           IN Layers[i]
      ELSE Default(o)]

\* Source i is the first one with a port, and the port is no number.
FirstPortFails(i) ==
    /\ Layers[i] = "line" => program = "wdb"
    /\ content[Layers[i]] # Missing
    /\ "bad port" \in content[Layers[i]]
    /\ \A j \in 1 .. i - 1 : ~Sets(j, "port")

\* A program that starts uses for every option the first value that the command
\* line, the named file, the user's own file and the global file have for it,
\* and does not start when it has not understood one of them; of the ports only
\* the one that it would use matters.  psql and libpqxx are told the same,
\* unless the user has no name.
SettingsAreFirstGiven ==
    /\ at = "end" /\ result = "ok" /\ asked \cap {"help", "version"} = {} =>
           /\ \A l \in Layer : content[l] # Malformed
           /\ \A i \in 1..4 : ~FirstPortFails(i)
           /\ stored = Settings
           /\ stored["user"] # "" => PqDatabaseConnection = PsqlDatabaseConnection
    /\ at = "end" /\ result # "ok" =>
           \/ TooManyOptions \/ badPort
           \/ \E l \in Layer : content[l] = Malformed
           \/ named /\ content["config"] = Missing
           \/ \E i \in 1..4 : FirstPortFails(i)
=============================================================================
