--------------------------------- MODULE Fqn ----------------------------------
(***************************************************************************)
(* The fully-qualified names of internal/fqn/fqn.go, character by          *)
(* character, and how the sink makes them grow: Build for the service,     *)
(* Append for every level below it.  A character is a dot, a double quote  *)
(* or any other one.                                                       *)
(***************************************************************************)
EXTENDS Naturals, Sequences, SequencesExt

CONSTANTS
  Dot, Quote, Others,   \* the characters
  MaxLength,            \* bound: characters of a part
  MaxDepth              \* bound: levels of the hierarchy

ASSUME CharactersAssumption == Dot # Quote

Chars == {Dot, Quote} \cup Others
Parts == BoundedSeq(Chars, MaxLength)

-----------------------------------------------------------------------------
(* strings.ReplaceAll of each double quote by two. *)
Replaced(c) == IF c = Quote THEN <<Quote, Quote>> ELSE <<c>>

Doubled(part) ==
  LET upTo[n \in 0..Len(part)] ==
        IF n = 0 THEN <<>> ELSE upTo[n - 1] \o Replaced(part[n])
  IN  upTo[Len(part)]

(* Fault: only the dot is looked for. *)
quote_DotOnly(part) ==
  IF Contains(part, Dot) THEN <<Quote>> \o Doubled(part) \o <<Quote>> ELSE part

quote(part) ==
  IF Contains(part, Dot) \/ Contains(part, Quote)
  THEN <<Quote>> \o Doubled(part) \o <<Quote>>
  ELSE part

(* Build: the loop, which skips empty parts, and strings.Join. *)
NonEmpty(parts) ==
  LET upTo[n \in 0..Len(parts)] ==
        IF n = 0 THEN <<>>
        ELSE IF parts[n] = <<>> THEN upTo[n - 1] ELSE Append(upTo[n - 1], parts[n])
  IN  upTo[Len(parts)]

Join(quoted) ==
  LET upTo[n \in 0..Len(quoted)] ==
        IF n = 0 THEN <<>>
        ELSE IF n = 1 THEN quoted[n] ELSE upTo[n - 1] \o <<Dot>> \o quoted[n]
  IN  upTo[Len(quoted)]

Quoted(kept) == [i \in 1..Len(kept) |-> quote(kept[i])]

Build(parts) == Join(Quoted(NonEmpty(parts)))

(* Fault: Append quotes every part, whether it needs to be or not. *)
AppendPart_AlwaysQuotes(parentFQN, part) ==
  IF part = <<>> THEN parentFQN
  ELSE IF parentFQN = <<>> THEN quote(part)
  ELSE parentFQN \o <<Dot, Quote>> \o Doubled(part) \o <<Quote>>

(* Append. *)
AppendPart(parentFQN, part) ==
  IF part = <<>> THEN parentFQN
  ELSE IF parentFQN = <<>> THEN quote(part)
  ELSE parentFQN \o <<Dot>> \o quote(part)

-----------------------------------------------------------------------------
VARIABLES
  parts,   \* the names on the way down to the entity
  fqn      \* the name the sink has returned for the entity

Init == parts = <<>> /\ fqn = <<>>

(* UpsertService returns a name built from one part. *)
Service(part) ==
  /\ parts = <<>>
  /\ part # <<>>
  /\ parts' = <<part>>
  /\ fqn' = Build(<<part>>)

(* UpsertDatabase, UpsertSchema and UpsertTable append to their parent's. *)
Child(part) ==
  /\ parts # <<>>
  /\ Len(parts) < MaxDepth
  /\ parts' = Append(parts, part)
  /\ fqn' = AppendPart(fqn, part)

Next == \E part \in Parts : Service(part) \/ Child(part)

Spec == Init /\ [][Next]_<<parts, fqn>>

-----------------------------------------------------------------------------
(* How a reader takes a name apart, character by character: the parts it   *)
(* has read, what it has of the present one, and where in that it is: at   *)
(* its start, in a plain part, inside quotes, or behind a quote, which     *)
(* closes the part unless another one follows.                             *)
Reading(done, part, at) == [parts |-> done, part |-> part, at |-> at]

Took(r, c) ==
  IF c = Quote /\ r.at = "start" THEN Reading(r.parts, r.part, "quoted")
  ELSE IF c = Quote /\ r.at = "quoted" THEN Reading(r.parts, r.part, "quote")
  ELSE IF c = Dot /\ r.at # "quoted" THEN Reading(Append(r.parts, r.part), <<>>, "start")
  ELSE Reading(r.parts, Append(r.part, c),
               IF r.at \in {"start", "plain"} THEN "plain" ELSE "quoted")

Scanned(s) ==
  LET upTo[n \in 0..Len(s)] ==
        IF n = 0 THEN Reading(<<>>, <<>>, "start") ELSE Took(upTo[n - 1], s[n])
  IN  upTo[Len(s)]

Read(s) == IF s = <<>> THEN <<>> ELSE Append(Scanned(s).parts, Scanned(s).part)

(* fqn.go:3: "so the separator stays unambiguous".  Whatever dots and      *)
(* quotes the names contain, the parts can be read back from the name, so  *)
(* no two entities share one.                                              *)
Unambiguous == parts # <<>> => Read(fqn) = NonEmpty(parts)

(* Names that grow level by level with Append are the names Build makes    *)
(* of all parts at once (fqn.go:24-27).                                    *)
AppendIsBuild == fqn = Build(parts)
=============================================================================
