------------------------------- MODULE TypeMap --------------------------------
(***************************************************************************)
(* internal/typemap/typemap.go: the native type of a column, as a text,    *)
(* becomes an OpenMetadata type with a length, or a precision and a scale. *)
(*                                                                         *)
(* A text is the sequence of the tokens that the mapping tells apart, in   *)
(* lower case: parentheses, commas and the "[]" at its end, the attributes *)
(* of MySQL, the wrappers of ClickHouse, numerals, and words.  A value in  *)
(* quotes, a negative number or a "=" is one word: no rule reads what is   *)
(* in it.  Spaces are where the servers write them; no rule needs one that *)
(* they do not write.  A pointer that may be nil is a sequence of at most  *)
(* one element.                                                            *)
(***************************************************************************)
EXTENDS Naturals, Sequences, FiniteSetsExt

CONSTANTS
  MaxInt32,      \* the largest int32
  Value          \* the number that a numeral stands for

Marks      == {"(", ")", ",", "[]"}
Attributes == {"unsigned", "zerofill", "signed"}
Wrappers   == {"Nullable", "LowCardinality"}
Numerals   == DOMAIN Value
Words      == STRING \ (Marks \cup Attributes \cup Wrappers \cup Numerals)
Tokens     == Marks \cup Attributes \cup Wrappers \cup Numerals \cup Words

ASSUME TypeMapAssumption ==
  /\ MaxInt32 \in Nat \ {0}
  /\ Value \in [Numerals -> Nat]
  /\ Numerals \cap (Marks \cup Attributes \cup Wrappers) = {}

-----------------------------------------------------------------------------
(* What the servers write: the parts of a native type, in their order.     *)
(*   name        "numeric", "character varying"                            *)
(*   fields      those of an interval: "day to second"                     *)
(*   params      numbers, values or types, with the parentheses            *)
(*   rest        of a name that the parameters divide: "time zone"         *)
(*   attributes  unsigned, zerofill                                        *)
(*   array       "[]"                                                      *)
(* Only ClickHouse writes wrappers around this, only MySQL attributes, and *)
(* only Postgres a name in two parts, fields and arrays.                   *)

NativeType ==
  [lowCardinality : BOOLEAN, nullable : BOOLEAN, name : Seq(Words) \ {<<>>},
   fields : Seq(Words), params : Seq(Tokens \ Attributes), rest : Seq(Words),
   attributes : Seq(Attributes), array : BOOLEAN]

NativeTypes(serviceType) ==
  {d \in NativeType :
     /\ d.params # <<>> => Head(d.params) = "(" /\ d.params[Len(d.params)] = ")"
     /\ d.lowCardinality \/ d.nullable => serviceType = "Clickhouse"
     /\ d.attributes # <<>> => serviceType = "Mysql"
     /\ d.fields # <<>> \/ d.rest # <<>> \/ d.array => serviceType = "Postgres"}

Wrap(given, wrapper, t) == IF given THEN <<wrapper, "(">> \o t \o <<")">> ELSE t

(* The text of a native type. *)
Written(d) ==
  LET type == d.name \o d.fields \o d.params \o d.rest \o d.attributes
      text == IF d.array THEN type \o <<"[]">> ELSE type
  IN  Wrap(d.lowCardinality, "LowCardinality", Wrap(d.nullable, "Nullable", text))

-----------------------------------------------------------------------------
(* The tables, as sets of pairs of the words of a name and a data type. *)

(* Rows of names of one word. *)
Single(rows) == {<<<<row[1]>>, row[2]>> : row \in rows}

postgresTypes ==
  Single(UNION {
    {"smallint", "int2"} \X {"SMALLINT"}, {"integer", "int", "int4"} \X {"INT"},
    {"bigint", "int8"} \X {"BIGINT"}, {"boolean", "bool"} \X {"BOOLEAN"},
    {"real", "float4"} \X {"FLOAT"}, {<<"float8", "DOUBLE">>, <<"varchar", "VARCHAR">>},
    {<<"numeric", "NUMERIC">>, <<"decimal", "DECIMAL">>, <<"money", "MONEY">>},
    {"character", "char", "bpchar"} \X {"CHAR"}, {<<"text", "TEXT">>, <<"date", "DATE">>},
    {<<"timestamp", "TIMESTAMP">>, <<"time", "TIME">>},
    {<<"interval", "INTERVAL">>, <<"uuid", "UUID">>, <<"bytea", "BYTEA">>, <<"inet", "INET">>},
    {"json", "jsonb"} \X {"JSON"},
    {<<"cidr", "CIDR">>, <<"macaddr", "MACADDR">>, <<"bit", "BIT">>, <<"xml", "XML">>},
    {<<"point", "POINT">>, <<"polygon", "POLYGON">>},
    {<<"tsvector", "TSVECTOR">>, <<"tsquery", "TSQUERY">>}})
  \cup {<<<<"double", "precision">>, "DOUBLE">>, <<<<"character", "varying">>, "VARCHAR">>,
        <<<<"timestamp", "without", "time", "zone">>, "TIMESTAMP">>,
        <<<<"timestamp", "with", "time", "zone">>, "TIMESTAMPZ">>,
        <<<<"time", "without", "time", "zone">>, "TIME">>,
        <<<<"time", "with", "time", "zone">>, "TIME">>}

mysqlTypes ==
  Single(UNION {
    {<<"tinyint", "TINYINT">>, <<"smallint", "SMALLINT">>, <<"bigint", "BIGINT">>},
    {"mediumint", "int", "integer"} \X {"INT"}, {"boolean", "bool"} \X {"BOOLEAN"},
    {"decimal", "dec", "fixed"} \X {"DECIMAL"}, {<<"numeric", "NUMERIC">>, <<"bit", "BIT">>},
    {<<"float", "FLOAT">>, <<"double", "DOUBLE">>, <<"char", "CHAR">>, <<"varchar", "VARCHAR">>},
    {"tinytext", "text", "longtext"} \X {"TEXT"}, {<<"mediumtext", "MEDIUMTEXT">>},
    {<<"binary", "BINARY">>, <<"varbinary", "VARBINARY">>}, {"tinyblob", "blob"} \X {"BLOB"},
    {<<"mediumblob", "MEDIUMBLOB">>, <<"longblob", "LONGBLOB">>, <<"year", "YEAR">>},
    {<<"date", "DATE">>, <<"datetime", "DATETIME">>, <<"timestamp", "TIMESTAMP">>},
    {<<"time", "TIME">>, <<"json", "JSON">>, <<"enum", "ENUM">>, <<"set", "SET">>},
    {<<"geometry", "GEOMETRY">>, <<"point", "POINT">>}})

clickhouseTypes ==
  Single(UNION {
    {"int8", "uint8"} \X {"TINYINT"}, {"int16", "uint16"} \X {"SMALLINT"},
    {"int32", "uint32"} \X {"INT"},
    {"int64", "uint64", "int128", "uint128", "int256", "uint256"} \X {"BIGINT"},
    {<<"float32", "FLOAT">>, <<"float64", "DOUBLE">>, <<"uuid", "UUID">>},
    {"decimal", "decimal32", "decimal64", "decimal128", "decimal256"} \X {"DECIMAL"},
    {"bool", "boolean"} \X {"BOOLEAN"}, {"string", "fixedstring"} \X {"STRING"},
    {"date", "date32"} \X {"DATE"}, {"datetime", "datetime64"} \X {"DATETIME"},
    {<<"array", "ARRAY">>, <<"tuple", "TUPLE">>, <<"map", "MAP">>, <<"json", "JSON">>},
    {"enum8", "enum16"} \X {"ENUM"}, {<<"ipv4", "IPV4">>, <<"ipv6", "IPV6">>}})

-----------------------------------------------------------------------------
nil == <<>>

(* strconv.ParseInt fails only for what is no int32. *)
parseI32(numeral) == IF Value[numeral] <= MaxInt32 THEN <<Value[numeral]>> ELSE nil

Result(dt, length, precision, scale) ==
  [dataType |-> dt, length |-> length, precision |-> precision, scale |-> scale]

Unknown == Result("UNKNOWN", nil, nil, nil)

(* At i, t has one numeral in parentheses, or n = 2 with a comma between. *)
Group(t, i, n) ==
  /\ i + 2 * n \in DOMAIN t
  /\ t[i] = "(" /\ t[i + 1] \in Numerals /\ t[i + 2 * n] = ")"
  /\ n = 2 => t[i + 2] = "," /\ t[i + 3] \in Numerals

(* The matches of the regular expression parenNums: where, and how many. *)
parenNums(t) == {m \in (DOMAIN t) \X {1, 2} : Group(t, m[1], m[2])}

(* The numerals of the first match. *)
numericParams(t) ==
  LET m == CHOOSE m \in parenNums(t) : \A other \in parenNums(t) : m[1] <= other[1]
  IN  IF parenNums(t) = {} THEN <<>>
      ELSE IF m[2] = 1 THEN <<t[m[1] + 1]>> ELSE <<t[m[1] + 1], t[m[1] + 3]>>

(* A second number that is out of range is as none at all. *)
applyParams(t, dt) ==
  LET given == numericParams(t)
      a == IF Len(given) >= 1 THEN parseI32(given[1]) ELSE nil
      b == IF Len(given) = 2 THEN parseI32(given[2]) ELSE nil
  IN  IF dt \in {"DECIMAL", "NUMERIC", "NUMBER"} THEN Result(dt, nil, a, b)
      ELSE IF dt \in {"VARCHAR", "CHAR", "BINARY", "VARBINARY", "STRING"} /\ b = nil
           THEN Result(dt, a, nil, nil)
           ELSE Result(dt, nil, nil, nil)

(* The data type that a table has for a name, as a set. *)
Lookup(types, name) == {row[2] : row \in {r \in types : r[1] = name}}

(* t without what is at the places in S, as ReplaceAll leaves it. *)
Cut(t, S) ==
  LET left[n \in 0..Len(t)] ==
        IF n = 0 THEN <<>>
        ELSE IF n \in S THEN left[n - 1] ELSE Append(left[n - 1], t[n])
  IN  left[Len(t)]

(* What is before the first parenthesis. *)
baseToken(t) ==
  SubSeq(t, 1, Min({n \in 0..Len(t) : n = Len(t) \/ t[n + 1] = "("}))

(* Only numbers are cut out of the text, so that a name keeps anything     *)
(* else that is in its parentheses, and is not found.                      *)
mapPostgres(t) ==
  LET name  == Cut(t, UNION {m[1]..(m[1] + 2 * m[2]) : m \in parenNums(t)})
      found == Lookup(postgresTypes, name)
  IN  IF t # <<>> /\ t[Len(t)] = "[]" THEN Result("ARRAY", nil, nil, nil)
      ELSE IF found = {} THEN Unknown ELSE applyParams(t, CHOOSE dt \in found : TRUE)

MySQLType(t) ==
  LET base  == baseToken(t)
      found == Lookup(mysqlTypes, base)
  IN  IF found = {} THEN Unknown
      ELSE IF base \in {<<"enum">>, <<"set">>}
           THEN Result(CHOOSE dt \in found : TRUE, nil, nil, nil)
           ELSE applyParams(t, CHOOSE dt \in found : TRUE)

(* Fault: the attributes are left to baseToken. *)
mapMySQL_Uncut(t) == MySQLType(t)

(* An attribute is cut with the space before it. *)
mapMySQL(t) == MySQLType(Cut(t, {i \in DOMAIN t : i > 1 /\ t[i] \in Attributes}))

unwrappable(t) == Len(t) >= 3 /\ t[1] \in Wrappers /\ t[2] = "(" /\ t[Len(t)] = ")"

(* t without its n outermost wrappers and their parentheses. *)
Layer(t, n) == SubSeq(t, 2 * n + 1, Len(t) - n)

Unwrapped(t) == Layer(t, Min({n \in 0..Len(t) : ~unwrappable(Layer(t, n))}))

mapClickHouse(t) ==
  LET inner == Unwrapped(t)
      found == Lookup(clickhouseTypes, baseToken(inner))
  IN  IF found = {} THEN Unknown ELSE applyParams(inner, CHOOSE dt \in found : TRUE)

(* Fault: Postgres is known by the name of its configuration only. *)
Map_AsConfigured(serviceType, t) ==
  CASE serviceType = "PostgreSQL" -> mapPostgres(t)
    [] serviceType = "Mysql"      -> mapMySQL(t)
    [] serviceType = "Clickhouse" -> mapClickHouse(t)
    [] OTHER                      -> Unknown

(* The case of the service type is ignored. *)
Map(serviceType, t) ==
  CASE serviceType \in {"Postgres", "PostgreSQL"} -> mapPostgres(t)
    [] serviceType = "Mysql"                      -> mapMySQL(t)
    [] serviceType = "Clickhouse"                 -> mapClickHouse(t)
    [] OTHER                                      -> Unknown
=============================================================================
