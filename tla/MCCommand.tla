------------------------------ MODULE MCCommand -------------------------------
(* Small instances of module Command for TLC. *)
EXTENDS Command

(* Numerals, with sizes around the limit of an int32. *)
MCValue == [n \in {"0", "1", "9", "10"} |->
              CASE n = "0" -> 0 [] n = "1" -> 1 [] n = "9" -> 9 [] n = "10" -> 10]

(* Parameters: one number, two numbers, or something else. *)
Size(n)     == <<"(", n, ")">>
Scale(p, q) == <<"(", p, ",", q, ")">>
Sizes  == {<<>>} \cup {Size(n) : n \in {"1", "9", "10"}}
Scaled == {<<>>, Size("9"), Scale("1", "0"), Scale("9", "10"), Scale("10", "1")}

Typed(names, params) == {[Basic(n) EXCEPT !.params = p] : n \in names, p \in params}

Zoned == {<<"without", "time", "zone">>, <<"with", "time", "zone">>}

PostgresNatives ==
  LET plain ==
        Typed({<<"integer">>, <<"double", "precision">>, <<"geometry">>}, {<<>>})
          \cup Typed({<<"character", "varying">>, <<"character">>, <<"bpchar">>, <<"bit">>}, Sizes)
          \cup Typed({<<"numeric">>}, Scaled \cup {Scale("9", "-2")})
          \cup {[d EXCEPT !.rest = r] :
                  d \in Typed({<<"timestamp">>, <<"time">>}, {<<>>, Size("1")}), r \in Zoned}
          \cup {[d EXCEPT !.fields = f] :
                  d \in Typed({<<"interval">>}, {<<>>, Size("1")}),
                  f \in {<<>>, <<"day", "to", "second">>}}
  IN  plain \cup {[d EXCEPT !.array = TRUE] : d \in plain}

MysqlNatives ==
  LET values == <<"(", "'a'", ",", "'('", ")">>
      given  == {<<>>, <<"unsigned">>, <<"zerofill">>, <<"unsigned", "zerofill">>, <<"signed">>}
  IN  Typed({<<"char">>, <<"varchar">>, <<"varbinary">>, <<"longblob">>}, Sizes)
        \cup Typed({<<"enum">>, <<"set">>}, {values, <<"(", "'a'", ")">>})
        \cup {[d EXCEPT !.attributes = a] :
                d \in Typed({<<"int">>, <<"decimal">>, <<"double">>}, Scaled), a \in given}

(* Among the types in parentheses are some with numbers of their own. *)
ClickhouseNatives ==
  LET inner == <<"(", "string", ",", "decimal", "(", "9", ",", "1", ")", ")">>
      plain ==
        Typed({<<"uint64">>, <<"string">>, <<"datetime64">>}, {<<>>})
          \cup Typed({<<"fixedstring">>}, Sizes) \cup Typed({<<"decimal">>}, Scaled)
          \cup Typed({<<"datetime64">>}, {Size("9"), Scale("9", "'utc'")})
          \cup Typed({<<"enum8">>}, {<<"(", "'a'=1", ",", "'b'=2", ")">>})
          \cup Typed({<<"tuple">>, <<"map">>, <<"nested">>}, {inner})
          \cup Typed({<<"array">>}, {<<"(", "Nullable", "(", "string", ")", ")">>})
  IN  {[d EXCEPT !.lowCardinality = l, !.nullable = n] :
         d \in plain, l \in BOOLEAN, n \in BOOLEAN}

MCNatives ==
  [Postgres |-> PostgresNatives, Mysql |-> MysqlNatives, Clickhouse |-> ClickhouseNatives]

Roots == {<<>>, <<"http:", "/", "/", "om:8585">>, <<"http:", "/", "/", "api">>,
          <<"http:", "/", "/", "api", "/", "om">>}

(* hostPort of a connection: a name or an IPv6 address in every form. *)
Hosts == {<<>>, <<"db">>, <<"fe80", ":", ":", "1">>}
Ports == {<<>>, <<":">>, <<":", "1234">>}

(* Every file with at most two things wrong with it. *)
MCFiles ==
  {f \in [sourceType : BOOLEAN, serviceName : BOOLEAN, jwtToken : BOOLEAN, patterns : BOOLEAN,
          connection : {"none", "Postgres", "PostgreSQL", "Mysql", "MySQL", "Clickhouse", "Oracle"},
          host : Hosts, brackets : BOOLEAN, port : Ports,
          database : BOOLEAN, ingestAllDatabases : BOOLEAN,
          root : Roots, suffix : HostPortSuffixes] :
     /\ f.root = <<>> => f.suffix = <<>>
     /\ f.host = <<>> => f.port = <<>> /\ ~f.brackets
     /\ f.host # <<>> => f.root = <<"http:", "/", "/", "api", "/", "om">>
                        /\ f.suffix = <<>>
                        /\ f.sourceType /\ f.serviceName /\ f.jwtToken /\ f.patterns
     /\ f.connection \notin {"Postgres", "PostgreSQL"} => f.database /\ ~f.ingestAllDatabases
     /\ Cardinality({k \in {"sourceType", "serviceName", "jwtToken", "patterns", "database"} :
                       ~f[k]}) <= 2}

(* The hypothesis of the theorem ServersAreAddressed of module             *)
(* CommandProofs.                                                          *)
ASSUME MCServersNamed == \A f \in Files : NamesServer(f)
=============================================================================
