------------------------------- MODULE Command --------------------------------
(***************************************************************************)
(* The commands of internal/cli/root.go on one configuration file:         *)
(* test-connection and, after it or at once, ingest.  What stands between  *)
(* the file and a table request is here: decoding and validating           *)
(* (internal/config), the registry of sources (internal/source/source.go), *)
(* the construction of the sink and of the columns that it sends           *)
(* (internal/sink/metadatarest.go, module TypeMap).  The loops of Run and  *)
(* the queries of the sources have modules of their own; here an           *)
(* extraction is one column, and a run upserts the service and a table     *)
(* with that column.                                                       *)
(***************************************************************************)
EXTENDS TypeMap

CONSTANTS
  Files,      \* the configuration files there may be
  Natives     \* the native types that a server of each service type reports

ServiceTypes == {"Postgres", "Mysql", "Clickhouse"}

(* What may follow the address of the server in hostPort. *)
HostPortSuffixes == {<<>>, <<"/">>, <<"/", "api">>, <<"/", "api", "/">>}

(* What a file has: is source.type given, is serviceName; the type of      *)
(* serviceConnection.config, "none" if there is no such block, and its     *)
(* hostPort, made of the host, in brackets or not, and a port or none; is  *)
(* database given, is ingestAllDatabases set, which only Postgres reads;   *)
(* the hostPort of the OpenMetadata server, which is root \o suffix as     *)
(* slashes and the texts between them; is jwtToken given; do the filter    *)
(* patterns compile.                                                       *)
ConfigFiles ==
  [sourceType : BOOLEAN, serviceName : BOOLEAN, connection : STRING,
   host : Seq(STRING), brackets : BOOLEAN, port : Seq(STRING),
   database : BOOLEAN, ingestAllDatabases : BOOLEAN,
   root : {s \in Seq(STRING) : s = <<>> \/ s[Len(s)] # "/"}, suffix : HostPortSuffixes,
   jwtToken : BOOLEAN, patterns : BOOLEAN]

ASSUME CommandAssumption ==
  /\ Files \subseteq ConfigFiles
  /\ Natives \in [ServiceTypes -> SUBSET NativeType]
  /\ \A st \in ServiceTypes : Natives[st] \subseteq NativeTypes(st)

VARIABLES
  file,         \* the configuration file
  command,      \* "test-connection" or "ingest"
  pc,           \* where the command is; "exited" at its end
  connType,     \* the ConnType of the decoded ServiceConnection.Config, or "nil"
  serviceType,  \* that of the model.Service the source built will extract, or "none"
  sink,         \* the sinks built, at most one: <<[baseURL, serviceType]>>
  columns,      \* the native types of the columns extracted
  sent,         \* the columns of the table requests sent
  err,          \* where the error arose that the command returned, or "nil"
  tested        \* test-connection has exited with status 0

vars == <<file, command, pc, connType, serviceType, sink, columns, sent, err, tested>>

-----------------------------------------------------------------------------
(* internal/config *)

(* strings.ToLower, on the spellings there are. *)
Lower(s) ==
  CASE s = "PostgreSQL"                 -> "postgresql"
    [] s = "Postgres"                   -> "postgres"
    [] s \in {"Mysql", "MySQL"}           -> "mysql"
    [] s \in {"Clickhouse", "ClickHouse"} -> "clickhouse"
    [] OTHER                            -> s

(* Fault: ConnType returns the type as the file has it. *)
Decoded_AsSpelled(f) ==
  CASE f.connection = "none" -> "nil"
    [] Lower(f.connection) \in {"postgres", "postgresql", "mysql", "clickhouse"} -> f.connection
    [] OTHER             -> "unsupported"

(* The ConnType of the struct that UnmarshalYAML picks.  It is not called  *)
(* if there is no serviceConnection.                                       *)
Decoded(f) ==
  CASE f.connection = "none"                                -> "nil"
    [] Lower(f.connection) \in {"postgres", "postgresql"} -> "Postgres"
    [] Lower(f.connection) = "mysql"                    -> "Mysql"
    [] Lower(f.connection) = "clickhouse"               -> "Clickhouse"
    [] OTHER                                            -> "unsupported"

hostPort(f) == f.root \o f.suffix

(* Fault: nothing is required that only the sink needs. *)
validate_SourceOnly(f) == f.sourceType /\ f.serviceName /\ Decoded(f) # "nil"

validate(f) ==
  /\ f.sourceType
  /\ f.serviceName
  /\ Decoded(f) # "nil"
  /\ hostPort(f) # <<>>
  /\ f.jwtToken

-----------------------------------------------------------------------------
(* internal/source: what the init functions register, and for which        *)
(* ConnType and service type the factory is.                               *)

registry == [postgres |-> "Postgres", mysql |-> "Mysql", clickhouse |-> "Clickhouse"]

-----------------------------------------------------------------------------
(* The address that a source connects to, from the hostPort of its         *)
(* connection: colons, brackets and the texts between them.                *)

Has(s, c) == \E i \in DOMAIN s : s[i] = c

connectionHostPort(f) ==
  (IF f.brackets THEN <<"[">> \o f.host \o <<"]">> ELSE f.host) \o f.port

(* net.SplitHostPort of the Go library: "host:port" or "[host]:port", as a *)
(* set, which is empty if s has neither form.                              *)
SplitHostPort(s) ==
  LET parts == {SubSeq(s, ends[1], ends[2]) : ends \in (1..Len(s) + 1) \X (0..Len(s))}
  IN  {x \in [host : parts, port : parts] :
         /\ ~Has(x.host, "[") /\ ~Has(x.host, "]")
         /\ ~Has(x.port, "[") /\ ~Has(x.port, "]") /\ ~Has(x.port, ":")
         /\ \/ s = x.host \o <<":">> \o x.port /\ ~Has(x.host, ":")
            \/ s = <<"[">> \o x.host \o <<"]", ":">> \o x.port}

(* Fault: the default port is only for a hostPort without a colon. *)
splitHostPort_KeepsEmptyPort(s, defaultPort) ==
  IF s = <<>> THEN [host |-> <<"localhost">>, port |-> defaultPort]
  ELSE IF SplitHostPort(s) = {} THEN [host |-> s, port |-> defaultPort]
       ELSE CHOOSE x \in SplitHostPort(s) : TRUE

splitHostPort(s, defaultPort) ==
  IF s = <<>> THEN [host |-> <<"localhost">>, port |-> defaultPort]
  ELSE IF SplitHostPort(s) = {} THEN [host |-> s, port |-> defaultPort]
       ELSE LET x == CHOOSE x \in SplitHostPort(s) : TRUE
            IN  IF x.port = <<>> THEN [x EXCEPT !.port = defaultPort] ELSE x

DefaultPort == [Postgres |-> <<"5432">>, Mysql |-> <<"3306">>, Clickhouse |-> <<"9000">>]

(* The forms of hostPort that name a server: nothing; or a host and behind *)
(* it a port, a colon only, or nothing.  A host is a name, without colons, *)
(* or an IPv6 address, with two or more, in brackets or not.               *)
NamesServer(f) ==
  /\ f.host = <<>> => f.port = <<>> /\ ~f.brackets
  /\ ~Has(f.host, "[") /\ ~Has(f.host, "]")
  /\ \A i \in DOMAIN f.host :
       f.host[i] = ":" => \E j \in DOMAIN f.host \ {i} : f.host[j] = ":"
  /\ \/ f.port \in {<<>>, <<":">>}
     \/ Len(f.port) = 2 /\ f.port[1] = ":" /\ f.port[2] \notin {":", "[", "]"}

(* The host and the port in the DSN of a source. *)
dsn(f) == splitHostPort(connectionHostPort(f), DefaultPort[Decoded(f)])

-----------------------------------------------------------------------------
(* internal/sink *)

(* strings.TrimRight(s, "/") *)
TrimRight(s) ==
  SubSeq(s, 1, Min({n \in 0..Len(s) : \A i \in (n + 1)..Len(s) : s[i] = "/"}))

TrimApi(s) ==
  IF Len(s) >= 2 /\ s[Len(s) - 1] = "/" /\ s[Len(s)] = "api"
  THEN SubSeq(s, 1, Len(s) - 2) ELSE s

(* Fault: slashes are trimmed only after "/api" has been. *)
BaseURL_OneTrim(s) == TrimRight(TrimApi(s))

BaseURL(s) == TrimRight(TrimApi(TrimRight(s)))

(* Fault: the type of an unbounded Postgres "character varying" is left out. *)
needsDataLength_NoVarchar(dt) == dt \in {"CHAR", "BINARY", "VARBINARY"}

needsDataLength(dt) == dt \in {"CHAR", "VARCHAR", "BINARY", "VARBINARY"}

(* A column of a table request. *)
Column(st, t) ==
  LET mapped == Map(st, t)
  IN  IF mapped.length = nil /\ needsDataLength(mapped.dataType)
      THEN [mapped EXCEPT !.length = <<1>>] ELSE mapped

-----------------------------------------------------------------------------
Init ==
  /\ file \in Files
  /\ command \in {"test-connection", "ingest"}
  /\ pc = "load"
  /\ connType = "nil" /\ serviceType = "none" /\ sink = <<>> /\ columns = <<>> /\ sent = <<>>
  /\ err = "nil"
  /\ tested = FALSE

(* The command returns an error, and the process exits with status 1. *)
Fails(where) ==
  /\ pc' = "exited"
  /\ err' = where
  /\ UNCHANGED <<file, command, connType, serviceType, sink, columns, sent, tested>>

(* config.Load *)
Load ==
  /\ pc = "load"
  /\ Decoded(file) # "unsupported"
  /\ validate(file)
  /\ connType' = Decoded(file)
  /\ pc' = "source"
  /\ UNCHANGED <<file, command, serviceType, sink, columns, sent, err, tested>>

(* The file is unreadable or no YAML, or refused. *)
LoadFails ==
  /\ pc = "load"
  /\ \/ Fails("file")
     \/ (Decoded(file) = "unsupported" \/ ~validate(file)) /\ Fails("configuration")

(* source.New, and the New of the source it finds. *)
SourceError ==
  CASE Lower(connType) \notin DOMAIN registry    -> "registry"
    [] registry[Lower(connType)] # connType       -> "factory"
    [] ~file.patterns                             -> "patterns"
    [] OTHER                                      -> "nil"

NewSource ==
  /\ pc = "source"
  /\ SourceError = "nil"
  /\ serviceType' = registry[Lower(connType)]
  /\ pc' = IF command = "ingest" THEN "sink" ELSE "prepare"
  /\ UNCHANGED <<file, command, connType, sink, columns, sent, err, tested>>

NewSourceFails == pc = "source" /\ SourceError # "nil" /\ Fails(SourceError)

(* NewMetadataREST *)
NewSink ==
  /\ pc = "sink"
  /\ IF hostPort(file) = <<>> THEN Fails("sink")
     ELSE /\ sink' = <<[baseURL |-> BaseURL(hostPort(file)), serviceType |-> "none"]>>
          /\ pc' = "prepare"
          /\ UNCHANGED <<file, command, connType, serviceType, columns, sent, err, tested>>

(* Prepare succeeds; test-connection prints this and is done. *)
Prepare ==
  /\ pc = "prepare"
  /\ pc' = IF command = "ingest" THEN "extract" ELSE "exited"
  /\ tested' = (tested \/ command = "test-connection")
  /\ UNCHANGED <<file, command, connType, serviceType, sink, columns, sent, err>>

(* databaseNames of Postgres has a database, or lists them all. *)
DatabaseGiven == serviceType = "Postgres" => file.database \/ file.ingestAllDatabases

Extract ==
  /\ pc = "extract"
  /\ IF ~DatabaseGiven THEN Fails("database")
     ELSE /\ \E d \in Natives[serviceType] : columns' = <<d>>
          /\ pc' = "service"
          /\ UNCHANGED <<file, command, connType, serviceType, sink, sent, err, tested>>

(* UpsertService: the sink remembers the service type before it calls. *)
UpsertService ==
  /\ pc = "service"
  /\ IF serviceType \notin ServiceTypes THEN Fails("service type")
     ELSE /\ sink' = <<[sink[1] EXCEPT !.serviceType = serviceType]>>
          /\ pc' = "table"
          /\ UNCHANGED <<file, command, connType, serviceType, columns, sent, err, tested>>

(* UpsertTable.  Whether it succeeds or not, Run returns no error for it,  *)
(* and the process exits with status 0.                                    *)
UpsertTable ==
  /\ pc = "table"
  /\ sent' = [i \in DOMAIN columns |-> Column(sink[1].serviceType, Written(columns[i]))]
  /\ pc' = "exited"
  /\ UNCHANGED <<file, command, connType, serviceType, sink, columns, err, tested>>

(* A call of the source or, before the table is reached, of the server     *)
(* fails.                                                                  *)
CallFails ==
  /\ pc \in {"prepare", "extract", "service", "table"}
  /\ pc = "extract" => DatabaseGiven
  /\ Fails(pc)

(* The user, test-connection having exited, starts ingest on the same file. *)
Ingest ==
  /\ pc = "exited"
  /\ command = "test-connection"
  /\ command' = "ingest"
  /\ pc' = "load"
  /\ connType' = "nil" /\ serviceType' = "none" /\ err' = "nil"
  /\ UNCHANGED <<file, sink, columns, sent, tested>>

Next ==
  \/ Load \/ LoadFails \/ NewSource \/ NewSourceFails \/ NewSink \/ Prepare \/ Extract
  \/ UpsertService \/ UpsertTable \/ CallFails \/ Ingest

Spec == Init /\ [][Next]_vars

-----------------------------------------------------------------------------
(* Type correctness. *)
TypeOK ==
  /\ file \in Files
  /\ command \in {"test-connection", "ingest"}
  /\ pc \in {"load", "source", "sink", "prepare", "extract", "service", "table", "exited"}
  /\ connType \in ServiceTypes \cup {"nil"}
  /\ serviceType \in ServiceTypes \cup {"none"}
  /\ Len(sink) <= 1 /\ Len(columns) <= 1 /\ Len(sent) <= 1
  /\ tested \in BOOLEAN

Types == [Postgres |-> postgresTypes, Mysql |-> mysqlTypes, Clickhouse |-> clickhouseTypes]

(* A native type that is a name only. *)
Basic(name) ==
  [lowCardinality |-> FALSE, nullable |-> FALSE, name |-> name, fields |-> <<>>,
   params |-> <<>>, rest |-> <<>>, attributes |-> <<>>, array |-> FALSE]

(* The names by which connection.go, the registry, the sources, the sink   *)
(* and typemap.go know a database agree: a configuration that loads is     *)
(* never refused later for its type, and Map finds the table of the        *)
(* database that is configured, so that a column of a type that the table  *)
(* has gets what it has for it.                                            *)
KnownEverywhere ==
  /\ err \notin {"registry", "factory", "service type"}
  /\ \A i \in DOMAIN sent :
       LET name  == columns[i].name
           found == Lookup(Types[Decoded(file)], name)
       IN  columns[i] = Basic(name) /\ found # {} => sent[i].dataType \in found

(* filter.go:24: "misconfiguration fails fast at startup rather than       *)
(* mid-ingestion".  Once test-connection has said OK, ingest on the same   *)
(* file finds nothing wrong with it that it could have found, the server's *)
(* part included, with one exception: a Postgres connection with neither a *)
(* database nor ingestAllDatabases is only refused by Extract, for Prepare *)
(* connects to the database "postgres" then (what comes of that is in      *)
(* module PostgresSource, PrepareValidates).                               *)
TestedIsAccepted ==
  tested /\ err \in {"configuration", "registry", "factory", "patterns", "sink",
                     "service type", "database"} =>
    /\ err = "database" /\ Decoded(file) = "Postgres"
    /\ ~file.database /\ ~file.ingestAllDatabases

(* metadatarest.go:42: "Strip a trailing "/api" (and surrounding slashes)  *)
(* so both forms of hostPort resolve correctly": whichever of the forms is *)
(* configured, the sink calls the server, unless the address of the server *)
(* itself ends in "/api", as that of a host called api does.               *)
HostPortResolves ==
  sink # <<>> /\ TrimApi(file.root) = file.root => sink[1].baseURL = file.root

(* Once Prepare has connected, it was to the host that the file names, or  *)
(* to localhost, at the port it names, or at the default port of the       *)
(* database: for a name, an IPv6 address, one in brackets with a port, and *)
(* with a colon and no port.  Left out are an IPv6 address in brackets     *)
(* without a colon behind, of which the brackets stay in the host, and one *)
(* without brackets with a colon behind, where nobody can tell.            *)
ServerAddressed ==
  LET colon     == file.port # <<>>
      ambiguous == IF file.brackets THEN ~colon ELSE Has(file.host, ":") /\ colon
      given     == [host |-> IF file.host = <<>> THEN <<"localhost">> ELSE file.host,
                    port |-> IF Len(file.port) <= 1 THEN DefaultPort[connType]
                             ELSE Tail(file.port)]
      connected == pc = "extract" \/ (tested /\ pc = "exited" /\ command = "test-connection")
  IN  connected /\ ~ambiguous => dsn(file) = given

(* metadatarest.go:120: "OpenMetadata rejects char/varchar/binary/         *)
(* varbinary columns with a null dataLength".  No table is rejected for    *)
(* it, and every length, precision and scale sent is an int32.             *)
SizesAccepted ==
  \A i \in DOMAIN sent :
    /\ sent[i].dataType \in {"CHAR", "VARCHAR", "BINARY", "VARBINARY"} => sent[i].length # nil
    /\ \A size \in {sent[i].length, sent[i].precision, sent[i].scale} :
          size = nil \/ \E n \in 0..MaxInt32 : size = <<n>>

(* The native type without wrappers and attributes. *)
Bare(d) == [d EXCEPT !.lowCardinality = FALSE, !.nullable = FALSE, !.attributes = <<>>]

(* One number or two, in parentheses. *)
OnlyNumbers(params) == \E n \in {1, 2} : Len(params) = 2 * n + 1 /\ Group(params, 1, n)

(* What a server writes around and behind the name of a type does not hide *)
(* it.  A wrapper or an attribute changes nothing of the column sent.  And *)
(* the data type is ARRAY for an array, and otherwise what the table has   *)
(* for the name, whatever is in the parentheses, wherever they are.  Two   *)
(* forms are left out, for which Postgres columns become UNKNOWN: fields   *)
(* of an interval, "interval day to second(3)", and what is not a number   *)
(* in the parentheses, "numeric(5,-2)"; typemap.go:88 drops "parenthesised *)
(* modifiers ("(255)", "(10,2)")" only.                                    *)
ModifiersKeepType ==
  \A i \in DOMAIN sent :
    LET d     == columns[i]
        found == Lookup(Types[serviceType], d.name \o d.rest)
    IN  /\ sent[i] = Column(serviceType, Written(Bare(d)))
        /\ d.array => sent[i].dataType = "ARRAY"
        /\ ~d.array /\ found # {} =>
             \/ serviceType = "Postgres"
                /\ (d.fields # <<>> \/ (d.params # <<>> /\ ~OnlyNumbers(d.params)))
             \/ sent[i].dataType \in found
=============================================================================
