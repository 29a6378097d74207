----------------------------- MODULE CommandProofs ----------------------------
(***************************************************************************)
(* Proofs of the invariants of module Command, for any configuration       *)
(* files, any address of the server and any native types.                  *)
(***************************************************************************)
EXTENDS Command, SequenceTheorems, WellFoundedInduction, TLAPS

(* What the steps that a command has taken establish. *)
LoadedInv ==
  pc \notin {"load", "exited"} =>
    validate(file) /\ connType = Decoded(file) /\ connType \in ServiceTypes

BuiltInv ==
  pc \notin {"load", "source", "exited"} => serviceType = connType /\ file.patterns

SinkInv ==
  /\ sink # <<>> =>
       \E s : sink = <<[baseURL |-> BaseURL(hostPort(file)), serviceType |-> s]>>
  /\ command = "ingest" /\ pc \in {"prepare", "extract", "service", "table"} => sink # <<>>
  /\ pc = "table" => sink[1].serviceType = serviceType

(* test-connection builds no sink and sends nothing. *)
TestingInv ==
  command = "test-connection" =>
    /\ pc \notin {"sink", "extract", "service", "table"}
    /\ sink = <<>> /\ columns = <<>> /\ sent = <<>>

TestedInv == tested => validate(file) /\ Decoded(file) # "unsupported" /\ file.patterns

ErrInv ==
  /\ err \in {"nil", "file", "configuration", "patterns", "prepare", "database", "extract",
              "service", "table"}
  /\ err = "configuration" => Decoded(file) = "unsupported" \/ ~validate(file)
  /\ err = "patterns" => ~file.patterns
  /\ err = "database" =>
       Decoded(file) = "Postgres" /\ ~file.database /\ ~file.ingestAllDatabases

ColumnsInv ==
  /\ columns \in Seq(NativeType)
  /\ sent # <<>> =>
       /\ pc = "exited" /\ command = "ingest"
       /\ serviceType \in ServiceTypes /\ serviceType = Decoded(file)
       /\ sent = [i \in DOMAIN columns |-> Column(serviceType, Written(columns[i]))]

CommandInv ==
  /\ TypeOK /\ LoadedInv /\ BuiltInv /\ SinkInv /\ TestingInv /\ TestedInv /\ ErrInv
  /\ ColumnsInv

-----------------------------------------------------------------------------
(* Every ConnType is registered, and for itself. *)
LEMMA Registered ==
  \A c \in ServiceTypes : Lower(c) \in DOMAIN registry /\ registry[Lower(c)] = c
BY DEF ServiceTypes, Lower, registry

LEMMA DecodedTypes ==
  ASSUME NEW f PROVE Decoded(f) \in ServiceTypes \cup {"nil", "unsupported"}
BY DEF Decoded, ServiceTypes

LEMMA MinIs ==
  ASSUME NEW S \in SUBSET Nat, NEW n \in S, \A m \in S : n <= m
  PROVE  Min(S) = n
<1>1. Min(S) \in S /\ \A y \in S : Min(S) <= y
  BY DEF Min
<1>2. Min(S) <= n /\ n <= Min(S) /\ Min(S) \in Nat
  BY <1>1
<1>. QED  BY <1>2

(* What an address is made of (the prover does not know literals to be     *)
(* members of STRING).                                                     *)
Texts == STRING \cup {"/", "api", ":", "[", "]"}

(* How much TrimRight leaves. *)
LEMMA TrimRightIs ==
  ASSUME NEW s \in Seq(Texts), NEW n \in 0..Len(s),
         \A i \in (n + 1)..Len(s) : s[i] = "/", n = 0 \/ s[n] # "/"
  PROVE  TrimRight(s) = SubSeq(s, 1, n)
<1>. DEFINE S == {m \in 0..Len(s) : \A i \in (m + 1)..Len(s) : s[i] = "/"}
<1>1. n \in S /\ S \subseteq Nat
  OBVIOUS
<1>2. \A m \in S : n <= m
  <2>1. SUFFICES ASSUME NEW m \in S, m < n PROVE FALSE
    BY <1>1
  <2>2. n \in (m + 1)..Len(s) /\ n # 0
    BY <2>1
  <2>. QED  BY <2>1, <2>2
<1>3. Min(S) = n
  BY <1>1, <1>2, MinIs
<1>. QED  BY <1>3 DEF TrimRight

(* The head of a concatenation. *)
LEMMA HeadOf ==
  ASSUME NEW r \in Seq(Texts), NEW x \in Seq(Texts)
  PROVE  SubSeq(r \o x, 1, Len(r)) = r
<1>1. SubSeq(r \o x, 1, Len(r)) \in Seq(Texts) /\ Len(SubSeq(r \o x, 1, Len(r))) = Len(r)
  BY ConcatProperties, SubSeqProperties
<1>2. \A i \in 1..Len(r) : SubSeq(r \o x, 1, Len(r))[i] = r[i]
  BY ConcatProperties, SubSeqProperties
<1>. QED  BY <1>1, <1>2, SeqEqual

LEMMA Tuples ==
  ASSUME NEW S, NEW a \in S, NEW b \in S
  PROVE  <<>> \in Seq(S) /\ <<a>> \in Seq(S) /\ <<a, b>> \in Seq(S)
OBVIOUS

(* Texts are concatenated in any order of the operations. *)
LEMMA Associates ==
  \A a \in Seq(Texts), b \in Seq(Texts), c \in Seq(Texts) : a \o (b \o c) = a \o b \o c
<1>. SUFFICES ASSUME NEW a \in Seq(Texts), NEW b \in Seq(Texts), NEW c \in Seq(Texts)
              PROVE  a \o (b \o c) = (a \o b) \o c
  OBVIOUS
<1>1. (a \o b) \o c = a \o (b \o c)
  BY ConcatAssociative
<1>. QED  BY Zenon, <1>1

(* Any form of hostPort is cut down to the address of the server. *)
LEMMA BaseURLIsRoot ==
  ASSUME NEW r \in Seq(Texts), r = <<>> \/ r[Len(r)] # "/", TrimApi(r) = r,
         NEW x \in HostPortSuffixes
  PROVE  BaseURL(r \o x) = r
<1>. DEFINE L == Len(r)
<1>1. L \in Nat /\ (L = 0 \/ r[L] # "/")
  OBVIOUS
<1>2. ASSUME NEW y \in Seq(Texts), \A i \in 1..Len(y) : y[i] = "/"
      PROVE  TrimRight(r \o y) = r
  <2>1. /\ r \o y \in Seq(Texts) /\ L \in 0..Len(r \o y)
        /\ Len(r \o y) = L + Len(y)
        /\ \A i \in 1..(L + Len(y)) : (r \o y)[i] = IF i <= L THEN r[i] ELSE y[i - L]
    BY <1>2, ConcatProperties
  <2>2. \A i \in (L + 1)..Len(r \o y) : (r \o y)[i] = "/"
    BY <1>1, <1>2, <2>1
  <2>3. L = 0 \/ (r \o y)[L] # "/"
    BY <1>1, <2>1
  <2>4. TrimRight(r \o y) = SubSeq(r \o y, 1, L)
    BY <2>1, <2>2, <2>3, TrimRightIs
  <2>. QED  BY <1>2, <2>4, HeadOf
<1>3. <<>> \in Seq(Texts) /\ <<"/">> \in Seq(Texts) /\ <<"/", "api">> \in Seq(Texts)
  <2>1. "/" \in Texts /\ "api" \in Texts
    BY DEF Texts
  <2>. QED  BY <2>1, Tuples
<1>4. TrimRight(r \o <<>>) = r /\ TrimRight(r \o <<"/">>) = r /\ TrimRight(r) = r
  <2>1. TrimRight(r \o <<>>) = r
    <3>1. \A i \in 1..Len(<<>>) : <<>>[i] = "/"
      OBVIOUS
    <3>. QED  BY <1>2, <1>3, <3>1
  <2>2. TrimRight(r \o <<"/">>) = r
    <3>1. \A i \in 1..Len(<<"/">>) : <<"/">>[i] = "/"
      OBVIOUS
    <3>. QED  BY <1>2, <1>3, <3>1
  <2>. QED  BY <2>1, <2>2, ConcatEmptySeq
<1>5. CASE x \in {<<>>, <<"/">>}
  BY <1>4, <1>5 DEF BaseURL
<1>6. ASSUME NEW y \in Seq(Texts), \A i \in 1..Len(y) : y[i] = "/",
             x = <<"/", "api">> \o y
      PROVE  BaseURL(r \o x) = r
  <2>. DEFINE a == r \o <<"/", "api">>
  <2>1. /\ a \in Seq(Texts) /\ Len(a) = L + 2 /\ a[L + 1] = "/" /\ a[L + 2] = "api"
    BY <1>1, <1>3, ConcatProperties
  <2>2. r \o x = a \o y
    <3>1. (r \o <<"/", "api">>) \o y = r \o (<<"/", "api">> \o y)
      <4>. DEFINE v == <<"/", "api">>
      <4>1. v \in Seq(Texts)
        BY <1>3
      <4>. HIDE DEF v
      <4>2. (r \o v) \o y = r \o (v \o y)
        BY <1>6, <4>1, Associates
      <4>. QED  BY <4>2 DEF v
    <3>. QED  BY <1>6, <3>1
  <2>3. TrimRight(a \o y) = a
    <3>1. /\ a \o y \in Seq(Texts) /\ Len(a \o y) = L + 2 + Len(y)
          /\ \A i \in 1..(L + 2 + Len(y)) :
               (a \o y)[i] = IF i <= L + 2 THEN a[i] ELSE y[i - (L + 2)]
      <4>. HIDE DEF a, L
      <4>1. /\ a \o y \in Seq(Texts) /\ Len(a \o y) = Len(a) + Len(y)
            /\ \A i \in 1..(Len(a) + Len(y)) :
                 (a \o y)[i] = IF i <= Len(a) THEN a[i] ELSE y[i - Len(a)]
        BY <1>6, <2>1, ConcatProperties
      <4>. QED  BY <2>1, <4>1
    <3>2. ASSUME NEW i \in (L + 2 + 1)..Len(a \o y) PROVE (a \o y)[i] = "/"
      <4>. HIDE DEF a, L
      <4>1. Len(y) \in Nat
        BY <1>6
      <4>2. /\ i \in 1..(L + 2 + Len(y)) /\ ~(i <= L + 2)
            /\ i - (L + 2) \in 1..Len(y)
        BY <1>1, <3>1, <4>1
      <4>3. (a \o y)[i] = y[i - (L + 2)]
        BY <3>1, <4>2
      <4>. QED  BY <1>6, <4>2, <4>3
    <3>3. (a \o y)[L + 2] = "api" /\ L + 2 \in 0..Len(a \o y)
      <4>. HIDE DEF a
      <4>. QED  BY <1>1, <1>6, <2>1, <3>1
    <3>4. TrimRight(a \o y) = SubSeq(a \o y, 1, L + 2)
      <4>. HIDE DEF a
      <4>. QED  BY <3>1, <3>2, <3>3, TrimRightIs
    <3>. HIDE DEF a
    <3>. QED  BY <1>6, <2>1, <3>4, HeadOf
  <2>4. TrimApi(a) = r
    <3>1. TrimApi(a) = SubSeq(a, 1, L)
      <4>. HIDE DEF a
      <4>1. Len(a) >= 2 /\ Len(a) - 1 = L + 1 /\ Len(a) - 2 = L
        BY <1>1, <2>1
      <4>. QED  BY <2>1, <4>1 DEF TrimApi
    <3>. QED  BY <1>3, <3>1, HeadOf
  <2>. HIDE DEF a
  <2>. QED  BY <1>4, <2>2, <2>3, <2>4 DEF BaseURL
<1>7. CASE x = <<"/", "api">>
  <2>1. x = <<"/", "api">> \o <<>>
    BY <1>3, <1>7, ConcatEmptySeq
  <2>2. \A i \in 1..Len(<<>>) : <<>>[i] = "/"
    OBVIOUS
  <2>. QED  BY <1>3, <1>6, <2>1, <2>2
<1>8. CASE x = <<"/", "api", "/">>
  <2>1. x = <<"/", "api">> \o <<"/">>
    BY <1>8
  <2>2. \A i \in 1..Len(<<"/">>) : <<"/">>[i] = "/"
    OBVIOUS
  <2>. QED  BY <1>3, <1>6, <2>1, <2>2
<1>. QED  BY <1>5, <1>7, <1>8 DEF HostPortSuffixes

-----------------------------------------------------------------------------
(* Texts of native types. *)

LEMMA LeastNat ==
  ASSUME NEW T \in SUBSET Nat, T # {}
  PROVE  \E n \in T : \A m \in T : n <= m
<1>. DEFINE R == {p \in Nat \X Nat : p[1] < p[2]}
<1>1. IsWellFoundedOn(R, Nat)
  <2>1. R = OpToRel(<, Nat)
    BY DEF OpToRel
  <2>. QED  BY <2>1, NatLessThanWellFounded
<1>2. PICK n \in T : \A m \in T : ~(<<m, n>> \in R)
  BY <1>1, WFMin, Zenon
<1>3. \A m \in T : n <= m
  <2>. SUFFICES ASSUME NEW m \in T PROVE ~(m < n)
    OBVIOUS
  <2>1. <<m, n>> \notin R
    BY <1>2
  <2>. QED  BY <2>1
<1>. QED  BY <1>3

(* What Cut has left of the first n tokens. *)
Left(f, t, S, n) ==
  IF n = 0 THEN <<>> ELSE IF n \in S THEN f[n - 1] ELSE Append(f[n - 1], t[n])

Lefts(f, t, S) == f = [n \in 0..Len(t) |-> Left(f, t, S, n)]

LEMMA CutIsLeft ==
  ASSUME NEW t, NEW S, Len(t) \in Nat, NEW k, Lefts(k, t, S)
  PROVE  Cut(t, S) = k[Len(t)]
<1>. DEFINE f == CHOOSE g : Lefts(g, t, S)
<1>1. Cut(t, S) = f[Len(t)]
  BY Zenon DEF Cut, Lefts, Left
<1>2. Lefts(f, t, S)
  BY Zenon
<1>. HIDE DEF f
<1>3. \A n \in 0..Len(t) : f[n] = Left(f, t, S, n) /\ k[n] = Left(k, t, S, n)
  BY <1>2 DEF Lefts
<1>. DEFINE Bad == {n \in 0..Len(t) : f[n] # k[n]}
<1>4. Bad = {}
  <2>. SUFFICES ASSUME Bad # {} PROVE FALSE
    OBVIOUS
  <2>1. PICK n \in Bad : \A m \in Bad : n <= m
    <3>1. Bad \in SUBSET Nat
      OBVIOUS
    <3>. HIDE DEF Bad
    <3>. QED  BY <3>1, LeastNat
  <2>2. n # 0 => n - 1 \in 0..Len(t) /\ f[n - 1] = k[n - 1]
    BY <2>1
  <2>3. f[n] = Left(f, t, S, n) /\ k[n] = Left(k, t, S, n)
    BY <1>3
  <2>4. Left(f, t, S, n) = Left(k, t, S, n)
    BY <2>2 DEF Left
  <2>. QED  BY <2>1, <2>3, <2>4
<1>5. Len(t) \in 0..Len(t)
  OBVIOUS
<1>. QED  BY <1>1, <1>4, <1>5

(* What texts one behind the other consist of. *)
LEMMA Joined2 ==
  ASSUME NEW S, NEW a \in Seq(S), NEW b \in Seq(S)
  PROVE  /\ a \o b \in Seq(S)
         /\ Len(a \o b) = Len(a) + Len(b)
         /\ \A i \in 1..(Len(a) + Len(b)) :
              (a \o b)[i] = IF i <= Len(a) THEN a[i] ELSE b[i - Len(a)]
BY ConcatProperties

LEMMA Joined ==
  ASSUME NEW S, NEW a \in Seq(S), NEW g \in Seq(S), NEW b \in Seq(S)
  PROVE  /\ a \o g \o b \in Seq(S)
         /\ Len(a \o g \o b) = Len(a) + Len(g) + Len(b)
         /\ \A i \in 1..(Len(a) + Len(g) + Len(b)) :
              (a \o g \o b)[i] = IF i <= Len(a) THEN a[i]
                                 ELSE IF i <= Len(a) + Len(g) THEN g[i - Len(a)]
                                 ELSE b[i - Len(a) - Len(g)]
<1>. DEFINE ag == a \o g
<1>1. /\ ag \in Seq(S) /\ Len(ag) = Len(a) + Len(g)
      /\ \A i \in 1..(Len(a) + Len(g)) : ag[i] = IF i <= Len(a) THEN a[i] ELSE g[i - Len(a)]
  BY Joined2
<1>. HIDE DEF ag
<1>2. /\ ag \o b \in Seq(S) /\ Len(ag \o b) = Len(ag) + Len(b)
      /\ \A i \in 1..(Len(ag) + Len(b)) :
           (ag \o b)[i] = IF i <= Len(ag) THEN ag[i] ELSE b[i - Len(ag)]
  <2>1. ag \in Seq(S)
    BY <1>1
  <2>. QED  BY <2>1, Joined2
<1>3. \A i \in 1..(Len(a) + Len(g) + Len(b)) :
        (ag \o b)[i] = IF i <= Len(a) THEN a[i]
                       ELSE IF i <= Len(a) + Len(g) THEN g[i - Len(a)]
                       ELSE b[i - Len(a) - Len(g)]
  BY <1>1, <1>2
<1>. QED  BY <1>1, <1>2, <1>3 DEF ag

(* What is cut out of the middle of a text is gone. *)
LEMMA CutMiddle ==
  ASSUME NEW S, NEW a \in Seq(S), NEW g \in Seq(S), NEW b \in Seq(S)
  PROVE  Cut(a \o g \o b, (Len(a) + 1)..(Len(a) + Len(g))) = a \o b
<1>. DEFINE t == a \o g \o b
            A == Len(a)
            G == Len(g)
            B == Len(b)
            C == (A + 1)..(A + G)
            size(n) == IF n <= A THEN n ELSE IF n <= A + G THEN A ELSE n - G
            K(n) == [i \in 1..size(n) |-> IF i <= A THEN a[i] ELSE b[i - A]]
            k == [n \in 0..(A + G + B) |-> K(n)]
<1>1. A \in Nat /\ G \in Nat /\ B \in Nat
  OBVIOUS
<1>2. /\ t \in Seq(S) /\ Len(t) = A + G + B
      /\ \A i \in 1..(A + G + B) :
           t[i] = IF i <= A THEN a[i] ELSE IF i <= A + G THEN g[i - A] ELSE b[i - A - G]
  BY Joined
<1>3. a \o b \in Seq(S) /\ Len(a \o b) = A + B
      /\ \A i \in 1..(A + B) : (a \o b)[i] = IF i <= A THEN a[i] ELSE b[i - A]
  BY ConcatProperties
<1>4. /\ \A i \in 1..A : a[i] \in S
      /\ \A i \in 1..B : b[i] \in S
  OBVIOUS
<1>. HIDE DEF t, A, G, B
<1>5. \A n \in 0..(A + G + B) :
        /\ size(n) \in Nat /\ size(n) <= A + B
        /\ \A i \in 1..size(n) : (IF i <= A THEN a[i] ELSE b[i - A]) \in S
  BY <1>1, <1>4
<1>6. ASSUME NEW n \in 0..(A + G + B)
      PROVE  K(n) \in Seq(S) /\ Len(K(n)) = size(n)
  <2>1. size(n) \in Nat /\ \A i \in 1..size(n) : (IF i <= A THEN a[i] ELSE b[i - A]) \in S
    BY <1>5
  <2>. HIDE DEF size
  <2>2. K(n) \in [1..size(n) -> S]
    BY Zenon, <2>1
  <2>. HIDE DEF K
  <2>. QED  BY <2>1, <2>2
<1>7. ASSUME NEW n \in 0..(A + G + B) PROVE k[n] = Left(k, t, C, n)
  <2>1. CASE n = 0
    <3>1. K(0) = <<>>
      BY <1>1
    <3>. QED  BY <2>1, <3>1 DEF Left
  <2>2. CASE n # 0 /\ n \in C
    <3>1. size(n) = size(n - 1) /\ n - 1 \in 0..(A + G + B)
      BY <1>1, <2>2
    <3>. HIDE DEF size, C
    <3>2. k[n] = K(n) /\ k[n - 1] = K(n - 1)
      BY <3>1
    <3>3. K(n) = K(n - 1)
      BY <3>1
    <3>. HIDE DEF K, k
    <3>. QED  BY <2>2, <3>2, <3>3 DEF Left
  <2>3. CASE n # 0 /\ n \notin C
    <3>1. size(n) = size(n - 1) + 1 /\ n - 1 \in 0..(A + G + B)
      BY <1>1, <2>3
    <3>2. t[n] = IF size(n) <= A THEN a[size(n)] ELSE b[size(n) - A]
      BY <1>1, <1>2, <2>3
    <3>3. k[n] = K(n) /\ k[n - 1] = K(n - 1)
      <4>. HIDE DEF size
      <4>. QED  BY <3>1
    <3>4. K(n - 1) \in Seq(S) /\ Len(K(n - 1)) = size(n - 1) /\ size(n - 1) \in Nat
      BY <1>5, <1>6, <3>1
    <3>5. K(n) = Append(K(n - 1), t[n])
      <4>. HIDE DEF size
      <4>1. \A i \in 1..size(n - 1) : K(n - 1)[i] = IF i <= A THEN a[i] ELSE b[i - A]
        BY <3>4
      <4>2. Append(K(n - 1), t[n]) =
              [i \in 1..(size(n - 1) + 1) |->
                 IF i <= size(n - 1) THEN K(n - 1)[i] ELSE t[n]]
        <5>. HIDE DEF K
        <5>. QED  BY <3>4
      <4>3. \A i \in 1..(size(n - 1) + 1) :
              (IF i <= size(n - 1) THEN K(n - 1)[i] ELSE t[n])
                = IF i <= A THEN a[i] ELSE b[i - A]
        <5>. HIDE DEF K
        <5>. QED  BY <3>1, <3>2, <3>4, <4>1
      <4>. QED  BY <3>1, <4>2, <4>3
    <3>. HIDE DEF K, k, size, C
    <3>. QED  BY <2>3, <3>3, <3>5 DEF Left
  <2>. QED  BY <2>1, <2>2, <2>3
<1>8. Lefts(k, t, C)
  <2>1. k = [n \in 0..(A + G + B) |-> k[n]]
    OBVIOUS
  <2>. HIDE DEF k, C
  <2>. QED  BY <1>2, <1>7, <2>1 DEF Lefts
<1>9. Cut(t, C) = k[Len(t)]
  <2>. HIDE DEF k, C
  <2>. QED  BY <1>1, <1>2, <1>8, CutIsLeft
<1>10. k[Len(t)] = a \o b
  <2>1. k[Len(t)] = K(A + G + B) /\ size(A + G + B) = A + B
    BY <1>1, <1>2
  <2>2. K(A + G + B) \in Seq(S) /\ Len(K(A + G + B)) = A + B
    <3>1. A + G + B \in 0..(A + G + B)
      BY <1>1
    <3>. HIDE DEF K, k, size
    <3>. QED  BY <1>6, <2>1, <3>1
  <2>3. \A i \in 1..(A + B) : K(A + G + B)[i] = (a \o b)[i]
    BY <1>3, <2>1
  <2>. HIDE DEF K, k
  <2>. QED  BY <1>3, <2>1, <2>2, <2>3, SeqEqual
<1>. QED  BY <1>9, <1>10 DEF t, A, G

(* The base token is what is before the parameters. *)
LEMMA BaseTokenIs ==
  ASSUME NEW S, NEW a \in Seq(S), NEW p \in Seq(S),
         \A i \in 1..Len(a) : a[i] # "(", p # <<>> => p[1] = "("
  PROVE  baseToken(a \o p) = a
<1>. DEFINE t == a \o p
            T == {n \in 0..Len(t) : n = Len(t) \/ t[n + 1] = "("}
<1>1. /\ t \in Seq(S) /\ Len(t) = Len(a) + Len(p)
      /\ \A i \in 1..(Len(a) + Len(p)) : t[i] = IF i <= Len(a) THEN a[i] ELSE p[i - Len(a)]
  BY Joined2
<1>2. Len(a) \in Nat /\ Len(p) \in Nat /\ (Len(p) = 0 <=> p = <<>>)
  OBVIOUS
<1>. HIDE DEF t
<1>3. Len(a) \in T
  <2>1. CASE p = <<>>
    BY <1>1, <1>2, <2>1
  <2>2. CASE p # <<>>
    <3>1. t[Len(a) + 1] = p[1]
      BY <1>1, <1>2, <2>2
    <3>. QED  BY <1>1, <1>2, <2>2, <3>1
  <2>. QED  BY <2>1, <2>2
<1>4. \A n \in T : Len(a) <= n
  <2>. SUFFICES ASSUME NEW n \in T, n < Len(a) PROVE FALSE
    BY <1>1, <1>2
  <2>1. n + 1 \in 1..Len(a) /\ n # Len(t)
    BY <1>1, <1>2
  <2>2. t[n + 1] = a[n + 1]
    BY <1>1, <1>2, <2>1
  <2>. QED  BY <2>1, <2>2
<1>5. Min(T) = Len(a)
  <2>1. T \in SUBSET Nat
    BY <1>1, <1>2
  <2>. HIDE DEF T
  <2>. QED  BY <1>3, <1>4, <2>1, MinIs
<1>6. baseToken(t) = SubSeq(t, 1, Len(a))
  BY <1>5 DEF baseToken
<1>7. /\ SubSeq(t, 1, Len(a)) \in Seq(S) /\ Len(SubSeq(t, 1, Len(a))) = Len(a)
      /\ \A i \in 1..Len(a) : SubSeq(t, 1, Len(a))[i] = a[i]
  BY <1>1, <1>2, SubSeqProperties
<1>. QED  BY <1>6, <1>7, SeqEqual DEF t

(* A wrapper around x is the layer above the first of x. *)
LEMMA Wrapped ==
  ASSUME NEW S, "(" \in S, ")" \in S, NEW w \in Wrappers, w \in S, NEW x \in Seq(S)
  PROVE  LET t == <<w, "(">> \o x \o <<")">>
         IN  /\ t \in Seq(S) /\ Len(t) = Len(x) + 3 /\ unwrappable(t)
             /\ \A n \in 0..Len(x) : Layer(t, n + 1) = Layer(x, n)
<1>. DEFINE t == <<w, "(">> \o x \o <<")">>
            L == Len(x)
<1>1. L \in Nat
  OBVIOUS
<1>2. /\ t \in Seq(S) /\ Len(t) = L + 3
      /\ t[1] = w /\ t[2] = "(" /\ t[L + 3] = ")"
      /\ \A i \in 1..L : t[i + 2] = x[i]
  <2>1. <<w, "(">> \in Seq(S) /\ <<")">> \in Seq(S)
    OBVIOUS
  <2>2. /\ t \in Seq(S) /\ Len(t) = 2 + L + 1
        /\ \A i \in 1..(2 + L + 1) : t[i] = IF i <= 2 THEN <<w, "(">>[i]
                                            ELSE IF i <= 2 + L THEN x[i - 2]
                                            ELSE <<")">>[i - 2 - L]
    <3>1. Len(<<w, "(">>) = 2 /\ Len(<<")">>) = 1
      OBVIOUS
    <3>. QED  BY <2>1, <3>1, Joined
  <2>. HIDE DEF t
  <2>. QED  BY <1>1, <2>2
<1>. HIDE DEF t, L
<1>3. unwrappable(t)
  BY <1>1, <1>2 DEF unwrappable
<1>4. ASSUME NEW n \in 0..L PROVE Layer(t, n + 1) = Layer(x, n)
  <2>1. /\ 2 * n + 1 \in Int /\ L - n \in Int /\ 2 * (n + 1) + 1 = 2 * n + 3
        /\ Len(t) - (n + 1) = L - n + 2
    BY <1>1, <1>2
  <2>2. \A i \in (2 * n + 1)..(L - n) : x[i] \in S
    BY <1>1 DEF L
  <2>3. \A i \in (2 * n + 3)..(L - n + 2) : t[i] \in S
    BY <1>1, <1>2
  <2>. DEFINE u == SubSeq(x, 2 * n + 1, L - n)
              v == SubSeq(t, 2 * n + 3, L - n + 2)
              m == IF 2 * n + 1 <= L - n THEN L - n - (2 * n + 1) + 1 ELSE 0
  <2>4. u \in Seq(S) /\ Len(u) = m /\ \A i \in 1..m : u[i] = x[2 * n + 1 + i - 1]
    BY <2>1, <2>2, SubSeqProperties
  <2>5. v \in Seq(S) /\ Len(v) = m /\ \A i \in 1..m : v[i] = t[2 * n + 3 + i - 1]
    BY <1>1, <2>1, <2>3, SubSeqProperties
  <2>6. \A i \in 1..m : v[i] = u[i]
    <3>1. ASSUME NEW i \in 1..m PROVE v[i] = u[i]
      <4>1. 2 * n + i \in 1..L /\ 2 * n + 1 + i - 1 = 2 * n + i
            /\ 2 * n + 3 + i - 1 = (2 * n + i) + 2
        BY <1>1
      <4>. HIDE DEF u, v, m
      <4>. QED  BY <1>2, <2>4, <2>5, <3>1, <4>1
    <3>. QED  BY <3>1
  <2>7. u = v
    <3>. HIDE DEF u, v, m
    <3>. QED  BY <2>4, <2>5, <2>6, SeqEqual
  <2>. QED  BY <2>1, <2>7 DEF Layer, L
<1>. QED  BY <1>2, <1>3, <1>4 DEF t, L

LEMMA FirstLayer ==
  ASSUME NEW S, NEW x \in Seq(S) PROVE Layer(x, 0) = x
<1>1. /\ SubSeq(x, 1, Len(x)) \in Seq(S) /\ Len(SubSeq(x, 1, Len(x))) = Len(x)
      /\ \A i \in 1..Len(x) : SubSeq(x, 1, Len(x))[i] = x[i]
  BY SubSeqProperties
<1>2. Layer(x, 0) = SubSeq(x, 1, Len(x))
  BY DEF Layer
<1>. QED  BY <1>1, <1>2, SeqEqual

(* How many wrappers Unwrapped takes off. *)
LEMMA UnwrappedIs ==
  ASSUME NEW S, NEW t \in Seq(S), NEW n \in 0..Len(t), ~unwrappable(Layer(t, n)),
         \A m \in 0..(n - 1) : unwrappable(Layer(t, m))
  PROVE  Unwrapped(t) = Layer(t, n)
<1>. DEFINE T == {m \in 0..Len(t) : ~unwrappable(Layer(t, m))}
<1>1. T \in SUBSET Nat /\ n \in T /\ \A m \in T : n <= m
  OBVIOUS
<1>2. Min(T) = n
  <2>. HIDE DEF T
  <2>. QED  BY <1>1, MinIs
<1>. QED  BY <1>2 DEF Unwrapped

(* The wrappers that ClickHouse writes are taken off, and nothing else. *)
LEMMA UnwrappedIsInner ==
  ASSUME NEW S, "(" \in S, ")" \in S, Wrappers \subseteq S, NEW x \in Seq(S),
         ~unwrappable(x), NEW l \in BOOLEAN, NEW n \in BOOLEAN
  PROVE  Unwrapped(Wrap(l, "LowCardinality", Wrap(n, "Nullable", x))) = x
<1>. DEFINE W(w, y) == <<w, "(">> \o y \o <<")">>
<1>1. ASSUME NEW w \in Wrappers, NEW y \in Seq(S)
      PROVE  /\ W(w, y) \in Seq(S) /\ Len(W(w, y)) = Len(y) + 3 /\ unwrappable(W(w, y))
             /\ \A m \in 0..Len(y) : Layer(W(w, y), m + 1) = Layer(y, m)
  <2>1. w \in S
    BY <1>1
  <2>. QED  BY <1>1, <2>1, Wrapped
<1>2. Layer(x, 0) = x /\ Len(x) \in Nat
  BY FirstLayer
<1>3. Unwrapped(x) = x
  <2>1. 0 \in 0..Len(x) /\ \A m \in 0..(0 - 1) : unwrappable(Layer(x, m))
    BY <1>2
  <2>. QED  BY <1>2, <2>1, UnwrappedIs
<1>4. ASSUME NEW w \in Wrappers PROVE Unwrapped(W(w, x)) = x
  <2>. DEFINE y == W(w, x)
  <2>1. y \in Seq(S) /\ Len(y) = Len(x) + 3 /\ unwrappable(y) /\ Layer(y, 1) = x
    <3>1. 0 \in 0..Len(x) /\ 0 + 1 = 1
      BY <1>2
    <3>. HIDE DEF W
    <3>. QED  BY <1>1, <1>2, <3>1
  <2>. HIDE DEF y
  <2>2. Layer(y, 0) = y
    BY <2>1, FirstLayer
  <2>3. 1 \in 0..Len(y) /\ \A m \in 0..(1 - 1) : unwrappable(Layer(y, m))
    BY <1>2, <2>1, <2>2
  <2>4. Unwrapped(y) = Layer(y, 1)
    BY <2>1, <2>3, UnwrappedIs
  <2>. QED  BY <2>1, <2>4 DEF y
<1>5. ASSUME NEW w \in Wrappers, NEW v \in Wrappers PROVE Unwrapped(W(v, W(w, x))) = x
  <2>. DEFINE y == W(w, x)
              z == W(v, y)
  <2>1. y \in Seq(S) /\ Len(y) = Len(x) + 3 /\ unwrappable(y) /\ Layer(y, 1) = x
    <3>1. 0 \in 0..Len(x) /\ 0 + 1 = 1
      BY <1>2
    <3>. HIDE DEF W
    <3>. QED  BY <1>1, <1>2, <3>1
  <2>. HIDE DEF y
  <2>2. /\ z \in Seq(S) /\ Len(z) = Len(y) + 3 /\ unwrappable(z)
        /\ Layer(z, 1) = Layer(y, 0) /\ Layer(z, 2) = Layer(y, 1)
    <3>1. 0 \in 0..Len(y) /\ 0 + 1 = 1 /\ 1 \in 0..Len(y) /\ 1 + 1 = 2
      BY <1>2, <2>1
    <3>. HIDE DEF W
    <3>. QED  BY <1>1, <2>1, <3>1
  <2>. HIDE DEF z
  <2>3. Layer(y, 0) = y /\ Layer(z, 0) = z
    BY <2>1, <2>2, FirstLayer
  <2>4. 2 \in 0..Len(z) /\ \A m \in 0..(2 - 1) : unwrappable(Layer(z, m))
    BY <1>2, <2>1, <2>2, <2>3
  <2>5. Unwrapped(z) = Layer(z, 2)
    BY <2>1, <2>2, <2>4, UnwrappedIs
  <2>. QED  BY <2>1, <2>2, <2>5 DEF z, y
<1>6. "Nullable" \in Wrappers /\ "LowCardinality" \in Wrappers
  BY DEF Wrappers
<1>. HIDE DEF W
<1>7. \A w, y : Wrap(TRUE, w, y) = W(w, y) /\ Wrap(FALSE, w, y) = y
  BY DEF Wrap, W
<1>8. /\ Unwrapped(W("Nullable", x)) = x /\ Unwrapped(W("LowCardinality", x)) = x
      /\ Unwrapped(W("LowCardinality", W("Nullable", x))) = x
  BY Zenon, <1>4, <1>5, <1>6
<1>9. CASE l = TRUE /\ n = TRUE
  BY Zenon, <1>7, <1>8, <1>9
<1>10. CASE l = TRUE /\ n = FALSE
  <2>1. Wrap(l, "LowCardinality", Wrap(n, "Nullable", x)) = W("LowCardinality", x)
    BY <1>7, <1>10
  <2>. QED  BY <1>8, <2>1
<1>11. CASE l = FALSE /\ n = TRUE
  <2>1. Wrap(l, "LowCardinality", Wrap(n, "Nullable", x)) = W("Nullable", x)
    BY <1>7, <1>11
  <2>. QED  BY <1>8, <2>1
<1>12. CASE l = FALSE /\ n = FALSE
  <2>1. Wrap(l, "LowCardinality", Wrap(n, "Nullable", x)) = x
    BY <1>7, <1>12
  <2>. QED  BY <1>3, <2>1
<1>. QED  BY <1>9, <1>10, <1>11, <1>12

LEMMA TokensAre ==
  /\ "(" \in Tokens /\ ")" \in Tokens /\ "[]" \in Tokens
  /\ Wrappers \subseteq Tokens /\ Words \subseteq Tokens /\ Attributes \subseteq Tokens
  /\ \A w \in Words : w \notin Marks /\ w \notin Attributes /\ w \notin Wrappers
                      /\ w \notin Numerals
  /\ \A n \in Numerals : n \notin Marks
  /\ "(" \notin Attributes /\ "(" \notin Wrappers
BY TypeMapAssumption DEF Tokens, Words, Marks, Attributes, Wrappers

(* The parts of a native type are texts. *)
LEMMA PartsAre ==
  ASSUME NEW d \in NativeType
  PROVE  /\ d.name \in Seq(Words) /\ d.name # <<>> /\ d.fields \in Seq(Words)
         /\ d.params \in Seq(Tokens \ Attributes) /\ d.rest \in Seq(Words)
         /\ d.attributes \in Seq(Attributes)
         /\ d.name \in Seq(Tokens) /\ d.fields \in Seq(Tokens) /\ d.params \in Seq(Tokens)
         /\ d.rest \in Seq(Tokens) /\ d.attributes \in Seq(Tokens)
         /\ d.lowCardinality \in BOOLEAN /\ d.nullable \in BOOLEAN /\ d.array \in BOOLEAN
<1>1. /\ d.name \in Seq(Words) /\ d.name # <<>> /\ d.fields \in Seq(Words)
      /\ d.params \in Seq(Tokens \ Attributes) /\ d.rest \in Seq(Words)
      /\ d.attributes \in Seq(Attributes)
      /\ d.lowCardinality \in BOOLEAN /\ d.nullable \in BOOLEAN /\ d.array \in BOOLEAN
  BY DEF NativeType
<1>2. \A S \in SUBSET Tokens : Seq(S) \subseteq Seq(Tokens)
  OBVIOUS
<1>. QED  BY <1>1, <1>2, TokensAre

LEMMA NothingAdded ==
  ASSUME NEW S, NEW a \in Seq(S) PROVE a \o <<>> = a
BY ConcatEmptySeq

(* The text of a type of MySQL or ClickHouse is a name and its parameters, *)
(* with attributes behind or with wrappers around.                         *)
LEMMA WrittenIs ==
  ASSUME NEW st, st # "Postgres", NEW d \in NativeTypes(st)
  PROVE  /\ Written(d) = Wrap(d.lowCardinality, "LowCardinality",
                              Wrap(d.nullable, "Nullable",
                                   d.name \o d.params \o d.attributes))
         /\ d.name \o d.params \in Seq(Tokens)
         /\ d.params # <<>> => d.params[1] = "("
         /\ d \in NativeType /\ d.fields = <<>> /\ d.rest = <<>> /\ d.array = FALSE
<1>1. /\ d \in NativeType /\ d.fields = <<>> /\ d.rest = <<>> /\ ~d.array
      /\ d.params # <<>> => Head(d.params) = "("
  BY DEF NativeTypes
<1>2. d.array = FALSE
  BY <1>1, PartsAre
<1>3. /\ d.name \in Seq(Tokens) /\ d.params \in Seq(Tokens)
      /\ d.name \o d.params \in Seq(Tokens)
  <2>1. d.name \in Seq(Tokens) /\ d.params \in Seq(Tokens)
    BY <1>1, PartsAre
  <2>. QED  BY <2>1, Joined2
<1>4. d.params # <<>> => d.params[1] = "("
  BY <1>1, <1>3
<1>5. d.name \o d.fields = d.name
  BY <1>1, <1>3, NothingAdded
<1>6. d.name \o d.params \o d.rest = d.name \o d.params
  BY <1>1, <1>3, NothingAdded
<1>7. Written(d) = Wrap(d.lowCardinality, "LowCardinality",
                        Wrap(d.nullable, "Nullable", d.name \o d.params \o d.attributes))
  BY <1>1, <1>5, <1>6 DEF Written
<1>. QED  BY <1>1, <1>2, <1>3, <1>4, <1>7

LEMMA BaseIsName ==
  ASSUME NEW st, st # "Postgres", NEW d \in NativeTypes(st)
  PROVE  baseToken(d.name \o d.params) = d.name
<1>1. d.name \in Seq(Words) /\ d.name \in Seq(Tokens) /\ d.params \in Seq(Tokens)
      /\ (d.params # <<>> => d.params[1] = "(")
  BY WrittenIs, PartsAre
<1>2. \A i \in 1..Len(d.name) : d.name[i] # "("
  <2>1. \A i \in 1..Len(d.name) : d.name[i] \in Words
    BY <1>1
  <2>2. "(" \in Marks
    BY DEF Marks
  <2>. QED  BY <2>1, <2>2, TokensAre
<1>. QED  BY <1>1, <1>2, BaseTokenIs

(* MySQL: the attributes are cut off, and nothing else. *)
LEMMA MySQLReads ==
  ASSUME NEW d \in NativeTypes("Mysql")
  PROVE  mapMySQL(Written(d)) = MySQLType(d.name \o d.params)
<1>. DEFINE x == d.name \o d.params
            g == d.attributes
            t == x \o g
            C == {i \in DOMAIN t : i > 1 /\ t[i] \in Attributes}
<1>1. /\ d \in NativeType /\ x \in Seq(Tokens)
      /\ ~d.lowCardinality /\ ~d.nullable
      /\ Written(d) = Wrap(d.lowCardinality, "LowCardinality", Wrap(d.nullable, "Nullable", t))
  <2>1. d \in NativeType /\ ~d.lowCardinality /\ ~d.nullable
    BY DEF NativeTypes
  <2>. QED  BY <2>1, WrittenIs
<1>2. Written(d) = t
  BY <1>1 DEF Wrap
<1>3. /\ d.name \in Seq(Words) /\ d.name # <<>> /\ d.params \in Seq(Tokens \ Attributes)
      /\ g \in Seq(Attributes) /\ g \in Seq(Tokens)
      /\ d.name \in Seq(Tokens) /\ d.params \in Seq(Tokens)
  BY <1>1, PartsAre
<1>4. Len(x) >= 1 /\ \A i \in 1..Len(x) : x[i] \notin Attributes
  <2>. DEFINE a == d.name
              p == d.params
  <2>1. /\ \A i \in 1..Len(a) : a[i] \in Words
        /\ \A i \in 1..Len(p) : p[i] \notin Attributes
        /\ Len(a) \in Nat /\ Len(a) >= 1 /\ Len(p) \in Nat
    BY <1>3
  <2>2. /\ Len(x) = Len(a) + Len(p)
        /\ \A i \in 1..(Len(a) + Len(p)) : x[i] = IF i <= Len(a) THEN a[i] ELSE p[i - Len(a)]
    <3>1. a \in Seq(Tokens) /\ p \in Seq(Tokens)
      BY Zenon, <1>3
    <3>2. /\ Len(a \o p) = Len(a) + Len(p)
          /\ \A i \in 1..(Len(a) + Len(p)) :
               (a \o p)[i] = IF i <= Len(a) THEN a[i] ELSE p[i - Len(a)]
      <4>. HIDE DEF a, p
      <4>. QED  BY <3>1, Joined2
    <3>. QED  BY Zenon, <3>2
  <2>. HIDE DEF a, p, x
  <2>. QED  BY <2>1, <2>2, TokensAre
<1>5. /\ Len(x) \in Nat /\ Len(g) \in Nat /\ Len(t) = Len(x) + Len(g) /\ t \in Seq(Tokens)
      /\ \A i \in 1..(Len(x) + Len(g)) : t[i] = IF i <= Len(x) THEN x[i] ELSE g[i - Len(x)]
  <2>1. x \in Seq(Tokens) /\ g \in Seq(Tokens)
    BY Zenon, <1>1, <1>3
  <2>. HIDE DEF x, g
  <2>2. Len(x) \in Nat /\ Len(g) \in Nat
    BY <2>1
  <2>. QED  BY <2>1, <2>2, Joined2
<1>6. C = (Len(x) + 1)..(Len(x) + Len(g))
  <2>1. \A i \in 1..Len(g) : g[i] \in Attributes
    BY <1>3
  <2>2. DOMAIN t = 1..(Len(x) + Len(g))
    BY <1>5
  <2>. DEFINE N == Len(x)
              M == Len(g)
  <2>. HIDE DEF t, x, g
  <2>3. N \in Nat /\ M \in Nat /\ N >= 1
    BY <1>4, <1>5
  <2>4. ASSUME NEW i \in 1..(N + M)
        PROVE  i > 1 /\ t[i] \in Attributes <=> i > N
    <3>1. t[i] = IF i <= N THEN x[i] ELSE g[i - N]
      BY <1>5
    <3>2. CASE i <= N
      BY <1>4, <2>3, <3>1, <3>2
    <3>3. CASE i > N
      <4>1. i - N \in 1..M /\ ~(i <= N) /\ i > 1
        BY <2>3, <3>3
      <4>. QED  BY <2>1, <3>1, <3>3, <4>1
    <3>. QED  BY <2>3, <3>2, <3>3
  <2>. HIDE DEF N, M
  <2>5. C = {i \in 1..(N + M) : i > N}
    <3>1. DOMAIN t = 1..(N + M)
      BY <2>2 DEF N, M
    <3>. QED  BY <2>4, <3>1
  <2>6. {i \in 1..(N + M) : i > N} = (N + 1)..(N + M)
    BY <2>3
  <2>. QED  BY <2>5, <2>6 DEF N, M
<1>7. Cut(t, C) = x
  <2>1. <<>> \in Seq(Tokens) /\ t \o <<>> = t /\ x \o <<>> = x
    BY <1>1, <1>5, NothingAdded, EmptySeq
  <2>. HIDE DEF C
  <2>2. Cut(t \o <<>>, (Len(x) + 1)..(Len(x) + Len(g))) = x \o <<>>
    <3>1. x \in Seq(Tokens) /\ g \in Seq(Tokens)
      BY Zenon, <1>1, <1>3
    <3>. HIDE DEF x, g
    <3>. QED  BY <2>1, <3>1, CutMiddle
  <2>. HIDE DEF x, g
  <2>. QED  BY <1>6, <2>1, <2>2
<1>. QED  BY <1>2, <1>7 DEF mapMySQL

(* ClickHouse: the wrappers are taken off, and nothing else. *)
ClickHouseType(x) ==
  IF Lookup(clickhouseTypes, baseToken(x)) = {} THEN Unknown
  ELSE applyParams(x, CHOOSE dt \in Lookup(clickhouseTypes, baseToken(x)) : TRUE)

LEMMA ClickHouseReads ==
  ASSUME NEW d \in NativeTypes("Clickhouse")
  PROVE  mapClickHouse(Written(d)) = ClickHouseType(d.name \o d.params)
<1>. DEFINE x == d.name \o d.params
<1>1. /\ d \in NativeType /\ x \in Seq(Tokens) /\ d.attributes = <<>>
      /\ Written(d) = Wrap(d.lowCardinality, "LowCardinality",
                           Wrap(d.nullable, "Nullable", x \o d.attributes))
  <2>1. d.attributes = <<>>
    BY DEF NativeTypes
  <2>. QED  BY <2>1, WrittenIs
<1>2. x \o d.attributes = x
  BY <1>1, NothingAdded
<1>3. ~unwrappable(x)
  <2>1. /\ d.name \in Seq(Words) /\ d.name # <<>>
        /\ d.name \in Seq(Tokens) /\ d.params \in Seq(Tokens)
    BY <1>1, PartsAre
  <2>2. x[1] = d.name[1] /\ d.name[1] \in Words
    <3>. DEFINE a == d.name
                p == d.params
    <3>1. Len(a) >= 1 /\ a[1] \in Words /\ Len(p) \in Nat /\ Len(a) \in Nat
      BY <2>1
    <3>2. \A i \in 1..(Len(a) + Len(p)) : x[i] = IF i <= Len(a) THEN a[i] ELSE p[i - Len(a)]
      BY <2>1, Joined2
    <3>3. 1 \in 1..(Len(a) + Len(p)) /\ 1 <= Len(a)
      <4>. HIDE DEF a, p
      <4>. QED  BY <3>1
    <3>4. x[1] = a[1]
      <4>. HIDE DEF x, a, p
      <4>. QED  BY <3>2, <3>3
    <3>. QED  BY <3>1, <3>4
  <2>. QED  BY <2>2, TokensAre DEF unwrappable
<1>4. Unwrapped(Written(d)) = x
  <2>1. d.lowCardinality \in BOOLEAN /\ d.nullable \in BOOLEAN
    BY <1>1, PartsAre
  <2>. HIDE DEF x
  <2>2. Unwrapped(Wrap(d.lowCardinality, "LowCardinality", Wrap(d.nullable, "Nullable", x))) = x
    BY <1>1, <1>3, <2>1, TokensAre, UnwrappedIsInner
  <2>. QED  BY <1>1, <1>2, <2>2
<1>. HIDE DEF x
<1>. QED  BY <1>4 DEF mapClickHouse, ClickHouseType, x

(* The same, part by part. *)
LEMMA JoinedParts ==
  ASSUME NEW a \in Seq(Tokens), NEW p \in Seq(Tokens), NEW b \in Seq(Tokens),
         NEW t, t = a \o p \o b
  PROVE  /\ t \in Seq(Tokens) /\ DOMAIN t = 1..(Len(a) + Len(p) + Len(b))
         /\ Len(t) = Len(a) + Len(p) + Len(b)
         /\ \A i \in 1..Len(a) : t[i] = a[i]
         /\ \A i \in 1..Len(p) : t[Len(a) + i] = p[i]
         /\ \A i \in DOMAIN t : \/ i \in 1..Len(a)
                                \/ i - Len(a) \in 1..Len(p)
                                \/ /\ i - Len(a) - Len(p) \in 1..Len(b)
                                   /\ t[i] = b[i - Len(a) - Len(p)]
<1>. DEFINE A == Len(a)
            P == Len(p)
            B == Len(b)
<1>1. A \in Nat /\ P \in Nat /\ B \in Nat
  OBVIOUS
<1>2. /\ t \in Seq(Tokens) /\ Len(t) = A + P + B
      /\ \A i \in 1..(A + P + B) :
           t[i] = IF i <= A THEN a[i] ELSE IF i <= A + P THEN p[i - A] ELSE b[i - A - P]
  BY Joined
<1>. HIDE DEF A, P, B
<1>3. DOMAIN t = 1..(A + P + B)
  BY <1>1, <1>2
<1>4. \A i \in 1..A : t[i] = a[i]
  BY <1>1, <1>2
<1>5. ASSUME NEW i \in 1..P PROVE t[A + i] = p[i]
  <2>. DEFINE j == A + i
  <2>1. j \in 1..(A + P + B) /\ ~(j <= A) /\ j <= A + P /\ j - A = i
    BY <1>1
  <2>. HIDE DEF j
  <2>2. t[j] = p[j - A]
    BY <1>2, <2>1
  <2>. QED  BY <2>1, <2>2 DEF j
<1>6. ASSUME NEW i \in DOMAIN t
      PROVE  \/ i \in 1..A
             \/ i - A \in 1..P
             \/ i - A - P \in 1..B /\ t[i] = b[i - A - P]
  <2>1. CASE i <= A + P
    BY <1>1, <1>3, <2>1
  <2>2. CASE ~(i <= A + P)
    <3>1. i \in 1..(A + P + B) /\ ~(i <= A) /\ i - A - P \in 1..B
      BY <1>1, <1>3, <2>2
    <3>2. t[i] = b[i - A - P]
      BY <1>2, <2>2, <3>1
    <3>. QED  BY <3>1, <3>2
  <2>. QED  BY <2>1, <2>2
<1>. QED  BY <1>2, <1>3, <1>4, <1>5, <1>6 DEF A, P, B

(* Postgres: the matches of parenNums are the parameters, when they are    *)
(* one or two numbers and what is around them are words.                   *)
LEMMA MatchIsParams ==
  ASSUME NEW a \in Seq(Words), NEW p \in Seq(Tokens), NEW b \in Seq(Words),
         p = <<>> \/ OnlyNumbers(p), NEW t, t = a \o p \o b
  PROVE  /\ t \in Seq(Tokens) /\ \A i \in DOMAIN t : t[i] # "[]"
         /\ UNION {m[1]..(m[1] + 2 * m[2]) : m \in parenNums(t)}
              = (Len(a) + 1)..(Len(a) + Len(p))
<1>. DEFINE A == Len(a)
            P == Len(p)
            B == Len(b)
<1>1. A \in Nat /\ P \in Nat /\ B \in Nat /\ (P = 0 <=> p = <<>>)
  OBVIOUS
<1>2. /\ \A i \in 1..A : a[i] \in Words
      /\ \A i \in 1..B : b[i] \in Words
  OBVIOUS
<1>3. /\ t \in Seq(Tokens) /\ DOMAIN t = 1..(A + P + B)
      /\ \A i \in 1..A : t[i] = a[i]
      /\ \A i \in 1..P : t[A + i] = p[i]
      /\ \A i \in DOMAIN t : \/ i \in 1..A
                             \/ i - A \in 1..P
                             \/ i - A - P \in 1..B /\ t[i] = b[i - A - P]
  <2>1. \A S \in SUBSET Tokens : Seq(S) \subseteq Seq(Tokens)
    OBVIOUS
  <2>2. a \in Seq(Tokens) /\ b \in Seq(Tokens)
    BY <2>1, TokensAre
  <2>. HIDE DEF A, P, B
  <2>3. /\ t \in Seq(Tokens) /\ DOMAIN t = 1..(Len(a) + Len(p) + Len(b))
        /\ \A i \in 1..Len(a) : t[i] = a[i]
        /\ \A i \in 1..Len(p) : t[Len(a) + i] = p[i]
        /\ \A i \in DOMAIN t : \/ i \in 1..Len(a)
                               \/ i - Len(a) \in 1..Len(p)
                               \/ /\ i - Len(a) - Len(p) \in 1..Len(b)
                                  /\ t[i] = b[i - Len(a) - Len(p)]
    BY <2>2, JoinedParts
  <2>. QED  BY Zenon, <2>3 DEF A, P, B
<1>. HIDE DEF A, P, B
<1>4. \A i \in DOMAIN t : t[i] \in Words \/ (i - A \in 1..P /\ t[i] = p[i - A])
  <2>. SUFFICES ASSUME NEW i \in DOMAIN t
                PROVE  t[i] \in Words \/ (i - A \in 1..P /\ t[i] = p[i - A])
    OBVIOUS
  <2>1. CASE i \in 1..A
    BY <1>2, <1>3, <2>1
  <2>2. CASE i - A \in 1..P
    <3>. DEFINE j == i - A
    <3>1. A + j = i /\ j \in 1..P
      BY <1>1, <1>3, <2>2
    <3>. HIDE DEF j
    <3>2. t[A + j] = p[j]
      BY <1>3, <3>1
    <3>. QED  BY <3>1, <3>2 DEF j
  <2>3. CASE i - A - P \in 1..B /\ t[i] = b[i - A - P]
    BY <1>2, <2>3
  <2>. QED  BY <1>3, <2>1, <2>2, <2>3
<1>5. \A w \in Words : w \notin {"(", ")", ",", "[]"} /\ w \notin Numerals
  BY TokensAre DEF Marks
<1>6. \A n \in Numerals : n \notin {"(", ")", ",", "[]"}
  BY TokensAre DEF Marks
<1>7. CASE p = <<>>
  <2>1. P = 0 /\ \A i \in DOMAIN t : t[i] \in Words
    BY <1>1, <1>4, <1>7
  <2>2. parenNums(t) = {}
    <3>. SUFFICES ASSUME NEW m \in parenNums(t) PROVE FALSE
      OBVIOUS
    <3>1. m[1] \in DOMAIN t /\ t[m[1]] = "("
      BY DEF parenNums, Group
    <3>. QED  BY <1>5, <2>1, <3>1
  <2>3. UNION {m[1]..(m[1] + 2 * m[2]) : m \in parenNums(t)} = {}
    BY <2>2
  <2>4. (A + 1)..(A + P) = {}
    BY <1>1, <2>1
  <2>. QED  BY <1>3, <1>5, <2>1, <2>3, <2>4 DEF A, P
<1>8. CASE OnlyNumbers(p)
  <2>1. PICK n \in {1, 2} : P = 2 * n + 1 /\ Group(p, 1, n)
    BY <1>8 DEF OnlyNumbers, P
  <2>2. /\ p[1] = "(" /\ p[2] \in Numerals /\ p[2 * n + 1] = ")"
        /\ n = 2 => p[3] = "," /\ p[4] \in Numerals
    <3>1. 1 + 1 = 2 /\ 1 + 2 = 3 /\ 1 + 3 = 4 /\ 1 + 2 * n = 2 * n + 1
      BY <2>1
    <3>. QED  BY <2>1, <3>1 DEF Group
  <2>3. \A i \in 1..P : t[A + i] = p[i] /\ A + i \in DOMAIN t
    <3>1. \A i \in 1..P : A + i \in 1..(A + P + B)
      BY <1>1
    <3>. QED  BY <1>3, <3>1
  <2>5. P = 3 \/ P = 5
    BY <2>1
  <2>6. \A i \in 1..P : p[i] # "[]" /\ (p[i] = "(" => i = 1)
    <3>. SUFFICES ASSUME NEW i \in 1..P PROVE p[i] # "[]" /\ (p[i] = "(" => i = 1)
      OBVIOUS
    <3>1. CASE n = 1
      <4>1. i \in {1, 2, 3} /\ 2 * n + 1 = 3
        BY <2>1, <3>1
      <4>. QED  BY <1>6, <2>2, <4>1
    <3>2. CASE n = 2
      <4>1. i \in {1, 2, 3, 4, 5} /\ 2 * n + 1 = 5
        BY <2>1, <3>2
      <4>. QED  BY <1>6, <2>2, <3>2, <4>1
    <3>. QED  BY <2>1, <3>1, <3>2
  <2>7. \A i \in DOMAIN t : t[i] # "[]" /\ (t[i] = "(" => i = A + 1)
    <3>. SUFFICES ASSUME NEW i \in DOMAIN t PROVE t[i] # "[]" /\ (t[i] = "(" => i = A + 1)
      OBVIOUS
    <3>1. CASE t[i] \in Words
      BY <1>5, <3>1
    <3>2. CASE i - A \in 1..P /\ t[i] = p[i - A]
      <4>1. i - A = 1 => i = A + 1
        BY <1>1, <1>3
      <4>. QED  BY <2>6, <3>2, <4>1
    <3>. QED  BY <1>4, <3>1, <3>2
  <2>8. /\ t[A + 1] = "(" /\ t[A + 2] \in Numerals /\ t[A + 1 + 2 * n] = ")"
        /\ n = 2 => t[A + 3] = "," /\ t[A + 4] \in Numerals
        /\ n = 1 => t[A + 3] = ")"
        /\ A + 1 \in DOMAIN t /\ A + 1 + 2 * n \in DOMAIN t
    <3>1. CASE n = 1
      <4>1. 1 \in 1..P /\ 2 \in 1..P /\ 3 \in 1..P /\ A + 1 + 2 * n = A + 3 /\ 2 * n + 1 = 3
        BY <1>1, <2>1, <3>1
      <4>. QED  BY <2>2, <2>3, <3>1, <4>1
    <3>2. CASE n = 2
      <4>1. /\ 1 \in 1..P /\ 2 \in 1..P /\ 3 \in 1..P /\ 4 \in 1..P /\ 5 \in 1..P
            /\ A + 1 + 2 * n = A + 5 /\ 2 * n + 1 = 5
        BY <1>1, <2>1, <3>2
      <4>. QED  BY <2>2, <2>3, <3>2, <4>1
    <3>. QED  BY <2>1, <3>1, <3>2
  <2>9. <<A + 1, n>> \in parenNums(t)
    <3>1. /\ <<A + 1, n>> \in (DOMAIN t) \X {1, 2}
          /\ <<A + 1, n>>[1] = A + 1 /\ <<A + 1, n>>[2] = n
      BY <2>1, <2>8
    <3>2. Group(t, A + 1, n)
      <4>1. A + 1 + 1 = A + 2 /\ A + 1 + 2 = A + 3 /\ A + 1 + 3 = A + 4
        BY <1>1
      <4>. QED  BY <2>8, <4>1 DEF Group
    <3>. QED  BY <3>1, <3>2 DEF parenNums
  <2>10. \A m \in parenNums(t) : m[1] = A + 1 /\ m[2] = n
    <3>. SUFFICES ASSUME NEW m \in parenNums(t) PROVE m[1] = A + 1 /\ m[2] = n
      OBVIOUS
    <3>1. m[1] \in DOMAIN t /\ m[2] \in {1, 2} /\ Group(t, m[1], m[2])
      BY DEF parenNums
    <3>2. m[1] = A + 1
      BY <2>7, <3>1 DEF Group
    <3>3. /\ t[A + 1 + 2 * m[2]] = ")"
          /\ m[2] = 2 => t[A + 1 + 2] = ","
      BY <3>1, <3>2 DEF Group
    <3>4. A + 1 + 2 = A + 3 /\ A + 1 + 2 * 1 = A + 3
      BY <1>1
    <3>5. m[2] = 1 => t[A + 3] = ")"
      <4>. SUFFICES ASSUME m[2] = 1 PROVE t[A + 3] = ")"
        OBVIOUS
      <4>1. A + 1 + 2 * m[2] = A + 3
        BY <3>4
      <4>. QED  BY <3>3, <4>1
    <3>6. m[2] = 2 => t[A + 3] = ","
      BY <3>3, <3>4
    <3>. QED  BY <2>1, <2>8, <3>1, <3>2, <3>5, <3>6
  <2>11. UNION {m[1]..(m[1] + 2 * m[2]) : m \in parenNums(t)} = (A + 1)..(A + 1 + 2 * n)
    <3>. DEFINE I(m) == m[1]..(m[1] + 2 * m[2])
    <3>1. \A m \in parenNums(t) : I(m) = (A + 1)..(A + 1 + 2 * n)
      BY <2>10
    <3>2. \E m \in parenNums(t) : TRUE
      BY <2>9
    <3>. HIDE DEF I
    <3>3. UNION {I(m) : m \in parenNums(t)} = (A + 1)..(A + 1 + 2 * n)
      BY <3>1, <3>2
    <3>. QED  BY <3>3 DEF I
  <2>12. A + 1 + 2 * n = A + P
    BY <1>1, <2>1
  <2>. QED  BY <1>3, <2>7, <2>11, <2>12 DEF A, P
<1>. QED  BY <1>7, <1>8

(* The text of a type of Postgres. *)
LEMMA PostgresWritten ==
  ASSUME NEW d \in NativeTypes("Postgres")
  PROVE  LET x == d.name \o d.fields \o d.params \o d.rest
         IN  x \in Seq(Tokens) /\ Written(d) = IF d.array THEN x \o <<"[]">> ELSE x
<1>. DEFINE x == d.name \o d.fields \o d.params \o d.rest
<1>1. d \in NativeType /\ ~d.lowCardinality /\ ~d.nullable /\ d.attributes = <<>>
  BY DEF NativeTypes
<1>2. x \in Seq(Tokens)
  <2>1. /\ d.name \in Seq(Tokens) /\ d.fields \in Seq(Tokens) /\ d.params \in Seq(Tokens)
        /\ d.rest \in Seq(Tokens)
    BY <1>1, PartsAre
  <2>2. d.name \o d.fields \in Seq(Tokens)
    BY <2>1, Joined2
  <2>3. d.name \o d.fields \o d.params \in Seq(Tokens)
    BY <2>1, <2>2, Joined2
  <2>. QED  BY <2>1, <2>3, Joined2
<1>3. x \o d.attributes = x
  BY <1>1, <1>2, NothingAdded
<1>4. Written(d) = IF d.array THEN x \o <<"[]">> ELSE x
  BY <1>1, <1>3 DEF Written, Wrap
<1>. QED  BY <1>2, <1>4

LEMMA PostgresArray ==
  ASSUME NEW d \in NativeTypes("Postgres"), d.array
  PROVE  mapPostgres(Written(d)) = Result("ARRAY", nil, nil, nil)
<1>. DEFINE x == d.name \o d.fields \o d.params \o d.rest
            t == x \o <<"[]">>
<1>1. x \in Seq(Tokens) /\ Written(d) = t
  BY PostgresWritten
<1>. HIDE DEF x
<1>2. <<"[]">> \in Seq(Tokens) /\ Len(<<"[]">>) = 1 /\ <<"[]">>[1] = "[]"
  BY TokensAre
<1>3. t # <<>> /\ t[Len(t)] = "[]"
  <2>1. /\ t \in Seq(Tokens) /\ Len(t) = Len(x) + 1
        /\ \A i \in 1..(Len(x) + 1) : t[i] = IF i <= Len(x) THEN x[i] ELSE <<"[]">>[i - Len(x)]
    BY <1>1, <1>2, Joined2
  <2>2. Len(x) \in Nat
    BY <1>1
  <2>. HIDE DEF t
  <2>. QED  BY <1>2, <2>1, <2>2
<1>. HIDE DEF t
<1>. QED  BY <1>1, <1>3 DEF mapPostgres

LEMMA PostgresReads ==
  ASSUME NEW d \in NativeTypes("Postgres"), ~d.array, d.fields = <<>>,
         d.params = <<>> \/ OnlyNumbers(d.params)
  PROVE  mapPostgres(Written(d)) =
           IF Lookup(postgresTypes, d.name \o d.rest) = {} THEN Unknown
           ELSE applyParams(Written(d),
                            CHOOSE dt \in Lookup(postgresTypes, d.name \o d.rest) : TRUE)
<1>. DEFINE t == d.name \o d.params \o d.rest
<1>1. /\ d \in NativeType /\ d.name \in Seq(Words) /\ d.rest \in Seq(Words)
      /\ d.name \in Seq(Tokens) /\ d.params \in Seq(Tokens) /\ d.rest \in Seq(Tokens)
  <2>1. d \in NativeType
    BY DEF NativeTypes
  <2>. QED  BY <2>1, PartsAre
<1>2. Written(d) = t
  <2>1. d.name \o d.fields = d.name
    BY <1>1, NothingAdded
  <2>2. Written(d) = d.name \o d.fields \o d.params \o d.rest
    BY PostgresWritten
  <2>. QED  BY <2>1, <2>2
<1>3. /\ t \in Seq(Tokens) /\ \A i \in DOMAIN t : t[i] # "[]"
      /\ UNION {m[1]..(m[1] + 2 * m[2]) : m \in parenNums(t)}
           = (Len(d.name) + 1)..(Len(d.name) + Len(d.params))
  <2>1. \A u : u = t => /\ u \in Seq(Tokens) /\ \A i \in DOMAIN u : u[i] # "[]"
                        /\ UNION {m[1]..(m[1] + 2 * m[2]) : m \in parenNums(u)}
                             = (Len(d.name) + 1)..(Len(d.name) + Len(d.params))
    BY <1>1, MatchIsParams
  <2>. HIDE DEF t
  <2>. QED  BY Zenon, <2>1
<1>4. Cut(t, (Len(d.name) + 1)..(Len(d.name) + Len(d.params))) = d.name \o d.rest
  BY <1>1, CutMiddle
<1>. HIDE DEF t
<1>5. ~(t # <<>> /\ t[Len(t)] = "[]")
  <2>1. t # <<>> => Len(t) \in DOMAIN t
    BY <1>3
  <2>. QED  BY <1>3, <2>1
<1>6. Cut(t, UNION {m[1]..(m[1] + 2 * m[2]) : m \in parenNums(t)}) = d.name \o d.rest
  BY Zenon, <1>3, <1>4
<1>. DEFINE name(u) == Cut(u, UNION {m[1]..(m[1] + 2 * m[2]) : m \in parenNums(u)})
<1>7. mapPostgres(t) = IF t # <<>> /\ t[Len(t)] = "[]" THEN Result("ARRAY", nil, nil, nil)
                       ELSE IF Lookup(postgresTypes, name(t)) = {} THEN Unknown
                       ELSE applyParams(t, CHOOSE dt \in Lookup(postgresTypes, name(t)) : TRUE)
  BY Zenon DEF mapPostgres
<1>8. name(t) = d.name \o d.rest
  BY Zenon, <1>6
<1>. HIDE DEF name
<1>. QED  BY <1>2, <1>5, <1>7, <1>8

-----------------------------------------------------------------------------
(* A length, precision or scale that may be sent. *)
IsSize(size) == size = nil \/ \E n \in 0..MaxInt32 : size = <<n>>

IsSized(c) == IsSize(c.length) /\ IsSize(c.precision) /\ IsSize(c.scale)

LEMMA ResultIsSized ==
  ASSUME NEW dt, NEW l, NEW p, NEW q, IsSize(l), IsSize(p), IsSize(q)
  PROVE  IsSized(Result(dt, l, p, q))
BY DEF IsSized, Result

(* The parameters are numerals, at most two. *)
LEMMA ParamsAreNumerals ==
  ASSUME NEW t \in Seq(Tokens)
  PROVE  /\ Len(numericParams(t)) \in 0..2
         /\ \A i \in 1..Len(numericParams(t)) : numericParams(t)[i] \in Numerals
<1>1. CASE parenNums(t) = {}
  BY <1>1 DEF numericParams
<1>2. CASE parenNums(t) # {}
  <2>. DEFINE T == {m[1] : m \in parenNums(t)}
              f == CHOOSE m \in parenNums(t) : \A other \in parenNums(t) : m[1] <= other[1]
  <2>1. \A m \in parenNums(t) : /\ m[1] \in Nat /\ m[2] \in {1, 2}
                                /\ t[m[1] + 1] \in Numerals
                                /\ m[2] = 2 => t[m[1] + 3] \in Numerals
    <3>. SUFFICES ASSUME NEW m \in parenNums(t)
                  PROVE  /\ m[1] \in Nat /\ m[2] \in {1, 2} /\ t[m[1] + 1] \in Numerals
                         /\ m[2] = 2 => t[m[1] + 3] \in Numerals
      OBVIOUS
    <3>1. m[1] \in DOMAIN t /\ m[2] \in {1, 2} /\ Group(t, m[1], m[2])
      BY DEF parenNums
    <3>2. m[1] \in Nat
      BY <3>1
    <3>3. t[m[1] + 1] \in Numerals /\ (m[2] = 2 => t[m[1] + 3] \in Numerals)
      BY <3>1 DEF Group
    <3>. QED  BY <3>1, <3>2, <3>3
  <2>2. \E m \in parenNums(t) : \A other \in parenNums(t) : m[1] <= other[1]
    <3>1. T \in SUBSET Nat /\ T # {}
      BY <1>2, <2>1
    <3>2. PICK n \in T : \A other \in T : n <= other
      <4>. HIDE DEF T
      <4>. QED  BY <3>1, LeastNat
    <3>. QED  BY <3>2
  <2>3. f \in parenNums(t)
    BY Zenon, <2>2
  <2>. HIDE DEF f
  <2>4. numericParams(t) = IF f[2] = 1 THEN <<t[f[1] + 1]>> ELSE <<t[f[1] + 1], t[f[1] + 3]>>
    BY <1>2 DEF numericParams, f
  <2>. QED  BY <2>1, <2>3, <2>4
<1>. QED  BY <1>1, <1>2

LEMMA ParamsAreSized ==
  ASSUME NEW t \in Seq(Tokens), NEW dt
  PROVE  IsSized(applyParams(t, dt))
<1>. DEFINE g == numericParams(t)
            a == IF Len(g) >= 1 THEN parseI32(g[1]) ELSE nil
            b == IF Len(g) = 2 THEN parseI32(g[2]) ELSE nil
<1>1. /\ Len(g) \in 0..2 /\ \A i \in 1..Len(g) : g[i] \in Numerals
  BY ParamsAreNumerals
<1>2. \A n \in Numerals : IsSize(parseI32(n))
  <2>1. \A n \in Numerals : Value[n] \in Nat
    BY TypeMapAssumption
  <2>. QED  BY <2>1, TypeMapAssumption DEF IsSize, parseI32, nil
<1>3. IsSize(nil)
  BY DEF IsSize
<1>4. IsSize(a) /\ IsSize(b)
  <2>. HIDE DEF g
  <2>. QED  BY <1>1, <1>2, <1>3
<1>5. applyParams(t, dt) \in {Result(dt, nil, a, b), Result(dt, a, nil, nil),
                              Result(dt, nil, nil, nil)}
  BY DEF applyParams
<1>. HIDE DEF a, b
<1>. QED  BY <1>3, <1>4, <1>5, ResultIsSized

(* What Map makes of the text of a native type. *)
LEMMA MapsAre ==
  /\ \A t : Map("Postgres", t) = mapPostgres(t)
  /\ \A d \in NativeTypes("Mysql") :
       Map("Mysql", Written(d)) = MySQLType(d.name \o d.params)
  /\ \A d \in NativeTypes("Clickhouse") :
       Map("Clickhouse", Written(d)) = ClickHouseType(d.name \o d.params)
<1>1. \A t : /\ Map("Postgres", t) = mapPostgres(t)
             /\ Map("Mysql", t) = mapMySQL(t)
             /\ Map("Clickhouse", t) = mapClickHouse(t)
  BY DEF Map
<1>. QED  BY <1>1, MySQLReads, ClickHouseReads

(* The sizes of a column, whatever its native type. *)
LEMMA ColumnIsSized ==
  ASSUME NEW st \in ServiceTypes, NEW d \in NativeTypes(st)
  PROVE  LET c == Column(st, Written(d))
         IN  IsSized(c) /\ (needsDataLength(c.dataType) => c.length # nil)
<1>1. IsSize(nil) /\ IsSize(<<1>>)
  BY TypeMapAssumption DEF IsSize
<1>2. IsSized(Unknown) /\ IsSized(Result("ARRAY", nil, nil, nil))
  BY <1>1, ResultIsSized DEF Unknown
<1>3. \A t \in Seq(Tokens) : \A dt :
        IsSized(applyParams(t, dt)) /\ IsSized(Result(dt, nil, nil, nil))
  BY <1>1, ParamsAreSized, ResultIsSized
<1>4. \A t \in Seq(Tokens) :
        IsSized(mapPostgres(t)) /\ IsSized(MySQLType(t)) /\ IsSized(ClickHouseType(t))
  BY <1>2, <1>3 DEF mapPostgres, MySQLType, ClickHouseType
<1>. DEFINE m == Map(st, Written(d))
<1>5. IsSized(m) /\ \E t : m \in {mapPostgres(t), MySQLType(t), ClickHouseType(t)}
  <2>1. CASE st = "Postgres"
    <3>1. Written(d) \in Seq(Tokens)
      <4>. DEFINE x == d.name \o d.fields \o d.params \o d.rest
      <4>1. x \in Seq(Tokens) /\ Written(d) = IF d.array THEN x \o <<"[]">> ELSE x
        BY <2>1, PostgresWritten
      <4>. HIDE DEF x
      <4>2. <<"[]">> \in Seq(Tokens)
        BY TokensAre
      <4>3. x \o <<"[]">> \in Seq(Tokens)
        BY <4>1, <4>2, Joined2
      <4>. QED  BY <4>1, <4>3
    <3>. QED  BY <1>4, <2>1, <3>1, MapsAre
  <2>2. CASE st = "Mysql"
    <3>1. d.name \o d.params \in Seq(Tokens)
      BY <2>2, WrittenIs
    <3>2. m = MySQLType(d.name \o d.params)
      BY <2>2, MapsAre
    <3>. QED  BY <1>4, <3>1, <3>2
  <2>3. CASE st = "Clickhouse"
    <3>1. d.name \o d.params \in Seq(Tokens)
      BY <2>3, WrittenIs
    <3>2. m = ClickHouseType(d.name \o d.params)
      BY <2>3, MapsAre
    <3>. QED  BY <1>4, <3>1, <3>2
  <2>. QED  BY <2>1, <2>2, <2>3 DEF ServiceTypes
<1>6. PICK dt, l, p, q : m = Result(dt, l, p, q)
  <2>. HIDE DEF m
  <2>1. \A t, dt : \E l, p, q : applyParams(t, dt) = Result(dt, l, p, q)
    BY DEF applyParams
  <2>. QED  BY <1>5, <2>1 DEF mapPostgres, MySQLType, ClickHouseType, Unknown
<1>7. Column(st, Written(d)) = IF m.length = nil /\ needsDataLength(m.dataType)
                               THEN [m EXCEPT !.length = <<1>>] ELSE m
  BY DEF Column
<1>. HIDE DEF m
<1>. QED  BY <1>1, <1>5, <1>6, <1>7 DEF IsSized, Result, nil

-----------------------------------------------------------------------------
(* What a server writes around and behind a name. *)

LEMMA BareIs ==
  ASSUME NEW st, NEW d \in NativeTypes(st)
  PROVE  /\ Bare(d) \in NativeTypes(st)
         /\ Bare(d).name = d.name /\ Bare(d).params = d.params
         /\ st = "Postgres" => Bare(d) = d
<1>1. /\ d \in NativeType
      /\ st = "Postgres" => d.lowCardinality = FALSE /\ d.nullable = FALSE /\ d.attributes = <<>>
  <2>1. d \in NativeType
    BY DEF NativeTypes
  <2>2. d.lowCardinality \in BOOLEAN /\ d.nullable \in BOOLEAN
    BY <2>1, PartsAre
  <2>. QED  BY <2>1, <2>2 DEF NativeTypes
<1>2. <<>> \in Seq(Attributes)
  BY EmptySeq
<1>3. Bare(d) \in NativeType
  BY <1>1, <1>2 DEF Bare, NativeType
<1>4. /\ Bare(d).lowCardinality = FALSE /\ Bare(d).nullable = FALSE /\ Bare(d).attributes = <<>>
      /\ Bare(d).name = d.name /\ Bare(d).params = d.params /\ Bare(d).fields = d.fields
      /\ Bare(d).rest = d.rest /\ Bare(d).array = d.array
  BY <1>1 DEF Bare, NativeType
<1>5. Bare(d) \in NativeTypes(st)
  BY <1>3, <1>4 DEF NativeTypes
<1>6. st = "Postgres" => Bare(d) = d
  BY <1>1 DEF Bare, NativeType
<1>. QED  BY <1>4, <1>5, <1>6

LEMMA BareIsSame ==
  ASSUME NEW st \in ServiceTypes, NEW d \in NativeTypes(st)
  PROVE  Column(st, Written(Bare(d))) = Column(st, Written(d))
<1>1. Map(st, Written(Bare(d))) = Map(st, Written(d))
  BY BareIs, MapsAre DEF ServiceTypes
<1>. QED  BY <1>1 DEF Column

(* The data type of a column is what the table has for its name. *)
LEMMA TypeIsFound ==
  ASSUME NEW st \in ServiceTypes, NEW d \in NativeTypes(st)
  PROVE  LET found == Lookup(Types[st], d.name \o d.rest)
             c == Column(st, Written(d))
         IN  /\ d.array => c.dataType = "ARRAY"
             /\ ~d.array /\ found # {} =>
                  \/ st = "Postgres"
                     /\ (d.fields # <<>> \/ (d.params # <<>> /\ ~OnlyNumbers(d.params)))
                  \/ c.dataType \in found
<1>. DEFINE m == Map(st, Written(d))
<1>1. Column(st, Written(d)).dataType = m.dataType
  <2>. HIDE DEF m
  <2>1. Column(st, Written(d)) = IF m.length = nil /\ needsDataLength(m.dataType)
                                 THEN [m EXCEPT !.length = <<1>>] ELSE m
    BY DEF Column, m
  <2>. QED  BY <2>1
<1>2. \A dt, l, p, q : Result(dt, l, p, q).dataType = dt
  BY DEF Result
<1>3. \A t, dt : applyParams(t, dt).dataType = dt
  BY <1>2 DEF applyParams
<1>4. \A S : S # {} => (CHOOSE x \in S : TRUE) \in S
  OBVIOUS
<1>5. CASE st = "Postgres"
  <2>1. Types[st] = postgresTypes /\ m = mapPostgres(Written(d))
    BY <1>5, MapsAre DEF Types
  <2>2. d.array => m.dataType = "ARRAY"
    BY <1>2, <1>5, <2>1, PostgresArray
  <2>3. ASSUME ~d.array, d.fields = <<>>, d.params = <<>> \/ OnlyNumbers(d.params),
               Lookup(postgresTypes, d.name \o d.rest) # {}
        PROVE  m.dataType \in Lookup(postgresTypes, d.name \o d.rest)
    <3>1. m = applyParams(Written(d),
                          CHOOSE dt \in Lookup(postgresTypes, d.name \o d.rest) : TRUE)
      BY <1>5, <2>1, <2>3, PostgresReads
    <3>. QED  BY Zenon, <1>3, <1>4, <2>3, <3>1
  <2>. HIDE DEF m
  <2>. QED  BY <1>1, <1>5, <2>1, <2>2, <2>3
<1>6. CASE st # "Postgres"
  <2>. DEFINE types == Types[st]
              F == Lookup(types, d.name)
  <2>1. ~d.array /\ d.name \o d.rest = d.name
    <3>1. d \in NativeType /\ d.array = FALSE /\ d.rest = <<>>
      BY <1>6, WrittenIs
    <3>2. d.name \in Seq(Tokens)
      BY <3>1, PartsAre
    <3>. QED  BY <3>1, <3>2, NothingAdded
  <2>2. baseToken(d.name \o d.params) = d.name
    BY <1>6, BaseIsName
  <2>3. ASSUME F # {} PROVE m.dataType \in F
    <3>1. CASE st = "Mysql"
      <4>1. types = mysqlTypes
        BY <3>1 DEF Types
      <4>2. m = MySQLType(d.name \o d.params)
        BY <3>1, MapsAre
      <4>3. m \in {Result(CHOOSE dt \in F : TRUE, nil, nil, nil),
                   applyParams(d.name \o d.params, CHOOSE dt \in F : TRUE)}
        <5>. HIDE DEF m
        <5>. QED  BY <2>2, <2>3, <4>1, <4>2 DEF MySQLType
      <4>. HIDE DEF m, F
      <4>. QED  BY <1>2, <1>3, <1>4, <2>3, <4>3
    <3>2. CASE st = "Clickhouse"
      <4>1. types = clickhouseTypes
        BY <3>2 DEF Types
      <4>2. m = ClickHouseType(d.name \o d.params)
        BY <3>2, MapsAre
      <4>3. m = applyParams(d.name \o d.params, CHOOSE dt \in F : TRUE)
        <5>. HIDE DEF m
        <5>. QED  BY <2>2, <2>3, <4>1, <4>2 DEF ClickHouseType
      <4>. HIDE DEF m, F
      <4>. QED  BY <1>2, <1>3, <1>4, <2>3, <4>3
    <3>. QED  BY <1>6, <3>1, <3>2 DEF ServiceTypes
  <2>. HIDE DEF m
  <2>. QED  BY <1>1, <1>6, <2>1, <2>3
<1>. QED  BY <1>5, <1>6

-----------------------------------------------------------------------------
(* What two sequences with a text between them consist of. *)
LEMMA Between ==
  ASSUME NEW S, NEW a \in Seq(S), NEW c \in S, NEW b \in Seq(S)
  PROVE  /\ a \o <<c>> \o b \in Seq(S)
         /\ Len(a \o <<c>> \o b) = Len(a) + 1 + Len(b)
         /\ \A i \in 1..Len(a) : (a \o <<c>> \o b)[i] = a[i]
         /\ (a \o <<c>> \o b)[Len(a) + 1] = c
         /\ \A i \in 1..Len(b) : (a \o <<c>> \o b)[Len(a) + 1 + i] = b[i]
<1>. DEFINE ac == a \o <<c>>
<1>1. /\ ac \in Seq(S) /\ Len(ac) = Len(a) + 1 /\ ac[Len(a) + 1] = c
      /\ \A i \in 1..Len(a) : ac[i] = a[i]
  BY ConcatProperties
<1>. HIDE DEF ac
<1>2. /\ ac \o b \in Seq(S) /\ Len(ac \o b) = Len(ac) + Len(b)
      /\ \A i \in 1..(Len(ac) + Len(b)) :
           (ac \o b)[i] = IF i <= Len(ac) THEN ac[i] ELSE b[i - Len(ac)]
  BY <1>1, ConcatProperties
<1>3. \A i \in 1..Len(b) : (ac \o b)[Len(a) + 1 + i] = b[i]
  BY <1>1, <1>2
<1>4. /\ Len(ac \o b) = Len(a) + 1 + Len(b) /\ (ac \o b)[Len(a) + 1] = c
      /\ \A i \in 1..Len(a) : (ac \o b)[i] = a[i]
  BY <1>1, <1>2
<1>. QED  BY <1>2, <1>3, <1>4 DEF ac

(* The same for an address in brackets. *)
LEMMA Bracketed ==
  ASSUME NEW S, NEW a \in Seq(S), NEW b \in Seq(S), "[" \in S, "]" \in S, ":" \in S,
         NEW s, s = <<"[">> \o a \o <<"]", ":">> \o b
  PROVE  /\ s \in Seq(S) /\ Len(s) = Len(a) + 3 + Len(b)
         /\ s[1] = "[" /\ s[Len(a) + 2] = "]" /\ s[Len(a) + 3] = ":"
         /\ \A i \in 1..Len(a) : s[i + 1] = a[i]
         /\ \A i \in 1..Len(b) : s[Len(a) + 3 + i] = b[i]
<1>. DEFINE oa == <<"[">> \o a
            oac == oa \o <<"]", ":">>
<1>1. /\ oa \in Seq(S) /\ Len(oa) = Len(a) + 1 /\ oa[1] = "["
      /\ \A i \in 1..Len(a) : oa[i + 1] = a[i]
  BY ConcatProperties
<1>. HIDE DEF oa
<1>2. <<"]", ":">> \in Seq(S)
  OBVIOUS
<1>3. /\ oac \in Seq(S) /\ Len(oac) = Len(a) + 3
      /\ \A i \in 1..(Len(a) + 3) :
           oac[i] = IF i <= Len(a) + 1 THEN oa[i] ELSE <<"]", ":">>[i - (Len(a) + 1)]
  BY <1>1, <1>2, ConcatProperties
<1>4. /\ oac[1] = "[" /\ oac[Len(a) + 2] = "]" /\ oac[Len(a) + 3] = ":"
      /\ \A i \in 1..Len(a) : oac[i + 1] = a[i]
  BY <1>1, <1>3
<1>. HIDE DEF oac
<1>5. /\ oac \o b \in Seq(S) /\ Len(oac \o b) = Len(oac) + Len(b)
      /\ \A i \in 1..(Len(oac) + Len(b)) :
           (oac \o b)[i] = IF i <= Len(oac) THEN oac[i] ELSE b[i - Len(oac)]
  BY <1>3, ConcatProperties
<1>6. s = oac \o b
  BY DEF oac, oa
<1>7. Len(s) = Len(a) + 3 + Len(b) /\ \A i \in 1..Len(b) : s[Len(a) + 3 + i] = b[i]
  BY <1>3, <1>5, <1>6
<1>8. /\ s[1] = "[" /\ s[Len(a) + 2] = "]" /\ s[Len(a) + 3] = ":"
      /\ \A i \in 1..Len(a) : s[i + 1] = a[i]
  BY <1>3, <1>4, <1>5, <1>6
<1>. QED  BY <1>5, <1>6, <1>7, <1>8

(* The two forms of an address with a port. *)
NameForm(s, a, b) == s = a \o <<":">> \o b
BracketForm(s, a, b) == s = <<"[">> \o a \o <<"]", ":">> \o b

LEMMA NameFormIs ==
  ASSUME NEW S, ":" \in S, NEW a \in Seq(S), NEW b \in Seq(S), NEW s, NameForm(s, a, b)
  PROVE  /\ s \in Seq(S) /\ Len(s) = Len(a) + 1 + Len(b) /\ s[Len(a) + 1] = ":"
         /\ \A i \in 1..Len(a) : s[i] = a[i]
         /\ \A i \in 1..Len(b) : s[Len(a) + 1 + i] = b[i]
<1>. DEFINE t == a \o <<":">> \o b
<1>1. /\ t \in Seq(S) /\ Len(t) = Len(a) + 1 + Len(b) /\ t[Len(a) + 1] = ":"
      /\ \A i \in 1..Len(a) : t[i] = a[i]
      /\ \A i \in 1..Len(b) : t[Len(a) + 1 + i] = b[i]
  BY Between
<1>2. s = t
  BY Zenon DEF NameForm
<1>. HIDE DEF t
<1>. QED  BY <1>1, <1>2

LEMMA BracketFormIs ==
  ASSUME NEW S, "[" \in S, "]" \in S, ":" \in S,
         NEW a \in Seq(S), NEW b \in Seq(S), NEW s, BracketForm(s, a, b)
  PROVE  /\ s \in Seq(S) /\ Len(s) = Len(a) + 3 + Len(b)
         /\ s[1] = "[" /\ s[Len(a) + 2] = "]" /\ s[Len(a) + 3] = ":"
         /\ \A i \in 1..Len(a) : s[i + 1] = a[i]
         /\ \A i \in 1..Len(b) : s[Len(a) + 3 + i] = b[i]
<1>. DEFINE t == <<"[">> \o a \o <<"]", ":">> \o b
<1>1. /\ t \in Seq(S) /\ Len(t) = Len(a) + 3 + Len(b)
      /\ t[1] = "[" /\ t[Len(a) + 2] = "]" /\ t[Len(a) + 3] = ":"
      /\ \A i \in 1..Len(a) : t[i + 1] = a[i]
      /\ \A i \in 1..Len(b) : t[Len(a) + 3 + i] = b[i]
  BY Bracketed
<1>2. s = t
  BY Zenon DEF BracketForm
<1>. HIDE DEF t
<1>. QED  BY <1>1, <1>2

(* What may be cut out of an address. *)
Cuts(s) == {SubSeq(s, ends[1], ends[2]) : ends \in (1..Len(s) + 1) \X (0..Len(s))}

LEMMA CutsAre ==
  ASSUME NEW S, NEW s \in Seq(S)
  PROVE  /\ Cuts(s) \subseteq Seq(S)
         /\ \A a \in Seq(S), n \in 0..Len(s) :
              n + Len(a) <= Len(s) /\ (\A i \in 1..Len(a) : s[n + i] = a[i])
                => a \in Cuts(s)
<1>. DEFINE IsCut(a) == \E i \in 1..Len(s) + 1, j \in 0..Len(s) : a = SubSeq(s, i, j)
<1>0. \A a : a \in Cuts(s) <=> IsCut(a)
  <2>. DEFINE Ends == (1..Len(s) + 1) \X (0..Len(s))
  <2>1. ASSUME NEW a \in Cuts(s) PROVE IsCut(a)
    <3>1. PICK ends \in Ends : a = SubSeq(s, ends[1], ends[2])
      BY Zenon DEF Cuts
    <3>. QED  BY <3>1
  <2>2. ASSUME NEW i \in 1..Len(s) + 1, NEW j \in 0..Len(s) PROVE SubSeq(s, i, j) \in Cuts(s)
    <3>1. <<i, j>> \in Ends /\ <<i, j>>[1] = i /\ <<i, j>>[2] = j
      OBVIOUS
    <3>2. \A ends \in Ends : SubSeq(s, ends[1], ends[2]) \in Cuts(s)
      BY Zenon DEF Cuts
    <3>. QED  BY <3>1, <3>2
  <2>. QED  BY <2>1, <2>2
<1>1. ASSUME NEW i \in 1..Len(s) + 1, NEW j \in 0..Len(s) PROVE SubSeq(s, i, j) \in Seq(S)
  <2>1. i \in Int /\ j \in Int /\ \A k \in i..j : s[k] \in S
    OBVIOUS
  <2>. QED  BY <2>1, SubSeqProperties
<1>2. ASSUME NEW a \in Seq(S), NEW n \in 0..Len(s), n + Len(a) <= Len(s),
             \A i \in 1..Len(a) : s[n + i] = a[i]
      PROVE  a \in Cuts(s)
  <2>. DEFINE cut == SubSeq(s, n + 1, n + Len(a))
  <2>1. n + 1 \in 1..Len(s) + 1 /\ n + Len(a) \in 0..Len(s)
    BY <1>2
  <2>2. n + 1 \in Int /\ n + Len(a) \in Int /\ \A k \in (n + 1)..(n + Len(a)) : s[k] \in S
    BY <1>2
  <2>3. /\ cut \in Seq(S)
        /\ Len(cut) = IF n + 1 <= n + Len(a) THEN n + Len(a) - (n + 1) + 1 ELSE 0
        /\ \A i \in 1..(n + Len(a) - (n + 1) + 1) : cut[i] = s[n + 1 + i - 1]
    BY <2>2, SubSeqProperties
  <2>. HIDE DEF cut
  <2>4. Len(cut) = Len(a) /\ \A i \in 1..Len(a) : cut[i] = s[n + i]
    BY <2>3
  <2>5. cut = a
    BY <1>2, <2>3, <2>4, SeqEqual
  <2>6. IsCut(cut)
    BY <2>1 DEF cut
  <2>. HIDE DEF IsCut
  <2>. QED  BY <1>0, <2>5, <2>6
<1>3. ASSUME NEW a \in Cuts(s) PROVE a \in Seq(S)
  <2>1. PICK i \in 1..Len(s) + 1, j \in 0..Len(s) : a = SubSeq(s, i, j)
    BY <1>0, <1>3
  <2>. QED  BY <1>1, <2>1
<1>. HIDE DEF IsCut
<1>4. Cuts(s) \subseteq Seq(S)
  BY Zenon, <1>3
<1>5. \A a \in Seq(S), n \in 0..Len(s) :
        n + Len(a) <= Len(s) /\ (\A i \in 1..Len(a) : s[n + i] = a[i]) => a \in Cuts(s)
  BY Zenon, <1>2
<1>. QED  BY Zenon, <1>4, <1>5

(* No name of a host or a port holds a bracket. *)
Plain(a) == ~Has(a, "[") /\ ~Has(a, "]")

LEMMA SplitIs ==
  ASSUME NEW s
  PROVE  SplitHostPort(s) =
           {x \in [host : Cuts(s), port : Cuts(s)] :
              /\ Plain(x.host) /\ Plain(x.port) /\ ~Has(x.port, ":")
              /\ \/ NameForm(s, x.host, x.port) /\ ~Has(x.host, ":")
                 \/ BracketForm(s, x.host, x.port)}
BY DEF SplitHostPort, Cuts, Plain, NameForm, BracketForm

(* A host without a colon and what follows the colon behind it.            *)
LEMMA NameSplits ==
  ASSUME NEW S, "[" \in S, "]" \in S, ":" \in S,
         NEW h \in Seq(S), NEW p \in Seq(S), h # <<>>,
         Plain(h), ~Has(h, ":"), Plain(p), ~Has(p, ":"),
         NEW s, NameForm(s, h, p)
  PROVE  SplitHostPort(s) = {[host |-> h, port |-> p]}
<1>1. /\ s \in Seq(S) /\ Len(s) = Len(h) + 1 + Len(p) /\ s[Len(h) + 1] = ":"
      /\ \A i \in 1..Len(h) : s[i] = h[i]
      /\ \A i \in 1..Len(p) : s[Len(h) + 1 + i] = p[i]
  BY NameFormIs
<1>2. /\ \A i \in 1..Len(h) : h[i] \notin {"[", "]", ":"}
      /\ \A i \in 1..Len(p) : p[i] \notin {"[", "]", ":"}
  BY DEF Plain, Has
<1>3. Len(h) \in Nat /\ Len(p) \in Nat /\ Len(h) >= 1
  OBVIOUS
<1>4. h \in Cuts(s) /\ p \in Cuts(s)
  <2>1. /\ 0 \in 0..Len(s) /\ 0 + Len(h) <= Len(s)
        /\ \A i \in 1..Len(h) : s[0 + i] = h[i]
    BY <1>1, <1>3
  <2>2. Len(h) + 1 \in 0..Len(s) /\ Len(h) + 1 + Len(p) <= Len(s)
    BY <1>1, <1>3
  <2>. QED  BY <1>1, <2>1, <2>2, CutsAre
<1>5. [host |-> h, port |-> p] \in SplitHostPort(s)
  BY <1>4, SplitIs
<1>6. ASSUME NEW x \in SplitHostPort(s) PROVE x = [host |-> h, port |-> p]
  <2>1. /\ x \in [host : Cuts(s), port : Cuts(s)]
        /\ Plain(x.host) /\ Plain(x.port) /\ ~Has(x.port, ":")
        /\ \/ NameForm(s, x.host, x.port) /\ ~Has(x.host, ":")
           \/ BracketForm(s, x.host, x.port)
    BY <1>6, SplitIs
  <2>. DEFINE a == x.host
              b == x.port
  <2>2. a \in Seq(S) /\ b \in Seq(S) /\ x = [host |-> a, port |-> b]
    BY <1>1, <2>1, CutsAre
  <2>3. Plain(a) /\ Plain(b) /\ ~Has(b, ":")
    BY <2>1
  <2>4. \/ NameForm(s, a, b) /\ ~Has(a, ":")
        \/ BracketForm(s, a, b)
    BY <2>1
  <2>. HIDE DEF a, b
  <2>5. ~BracketForm(s, a, b)
    <3>1. SUFFICES ASSUME BracketForm(s, a, b) PROVE FALSE
      OBVIOUS
    <3>2. s[1] = "["
      BY <2>2, <3>1, BracketFormIs
    <3>. QED  BY <1>1, <1>2, <1>3, <3>2
  <2>6. /\ Len(s) = Len(a) + 1 + Len(b) /\ s[Len(a) + 1] = ":"
        /\ \A i \in 1..Len(a) : s[i] = a[i]
        /\ \A i \in 1..Len(b) : s[Len(a) + 1 + i] = b[i]
    BY <2>2, <2>4, <2>5, NameFormIs
  <2>7. \A i \in 1..Len(a) : a[i] # ":"
    BY <2>2, <2>4, <2>5 DEF Has
  <2>8. Len(a) = Len(h)
    <3>1. Len(a) \in Nat /\ Len(b) \in Nat
      BY <2>2
    <3>2. CASE Len(a) < Len(h)
      <4>1. Len(a) + 1 \in 1..Len(h)
        BY <1>3, <3>1, <3>2
      <4>. QED  BY <1>1, <1>2, <2>6, <4>1
    <3>3. CASE Len(a) > Len(h)
      <4>1. Len(h) + 1 \in 1..Len(a)
        BY <1>3, <3>1, <3>3
      <4>. QED  BY <1>1, <2>6, <2>7, <4>1
    <3>. QED  BY <1>3, <3>1, <3>2, <3>3
  <2>9. Len(b) = Len(p)
    BY <1>1, <1>3, <2>2, <2>6, <2>8
  <2>10. a = h
    BY <1>1, <2>2, <2>6, <2>8, SeqEqual
  <2>11. \A i \in 1..Len(b) : b[i] = p[i]
    BY <1>1, <2>6, <2>8, <2>9
  <2>12. b = p
    BY <2>2, <2>9, <2>11, SeqEqual
  <2>. QED  BY <2>2, <2>10, <2>12
<1>. QED  BY <1>5, <1>6

(* A host in brackets and what follows the colon behind them.              *)
LEMMA BracketsSplit ==
  ASSUME NEW S, "[" \in S, "]" \in S, ":" \in S,
         NEW h \in Seq(S), NEW p \in Seq(S), Plain(h), Plain(p), ~Has(p, ":"),
         NEW s, BracketForm(s, h, p)
  PROVE  SplitHostPort(s) = {[host |-> h, port |-> p]}
<1>1. /\ s \in Seq(S) /\ Len(s) = Len(h) + 3 + Len(p)
      /\ s[1] = "[" /\ s[Len(h) + 2] = "]" /\ s[Len(h) + 3] = ":"
      /\ \A i \in 1..Len(h) : s[i + 1] = h[i]
      /\ \A i \in 1..Len(p) : s[Len(h) + 3 + i] = p[i]
  BY BracketFormIs
<1>2. /\ \A i \in 1..Len(h) : h[i] \notin {"[", "]"}
      /\ \A i \in 1..Len(p) : p[i] \notin {"[", "]"}
  BY DEF Plain, Has
<1>3. Len(h) \in Nat /\ Len(p) \in Nat
  OBVIOUS
<1>4. h \in Cuts(s) /\ p \in Cuts(s)
  <2>1. /\ 1 \in 0..Len(s) /\ 1 + Len(h) <= Len(s)
        /\ \A i \in 1..Len(h) : s[1 + i] = h[i]
    BY <1>1, <1>3
  <2>2. Len(h) + 3 \in 0..Len(s) /\ Len(h) + 3 + Len(p) <= Len(s)
    BY <1>1, <1>3
  <2>. QED  BY <1>1, <2>1, <2>2, CutsAre
<1>5. [host |-> h, port |-> p] \in SplitHostPort(s)
  BY <1>4, SplitIs
<1>6. ASSUME NEW x \in SplitHostPort(s) PROVE x = [host |-> h, port |-> p]
  <2>1. /\ x \in [host : Cuts(s), port : Cuts(s)]
        /\ Plain(x.host) /\ Plain(x.port) /\ ~Has(x.port, ":")
        /\ \/ NameForm(s, x.host, x.port) /\ ~Has(x.host, ":")
           \/ BracketForm(s, x.host, x.port)
    BY <1>6, SplitIs
  <2>. DEFINE a == x.host
              b == x.port
  <2>2. a \in Seq(S) /\ b \in Seq(S) /\ x = [host |-> a, port |-> b]
    BY <1>1, <2>1, CutsAre
  <2>3. Plain(a) /\ Plain(b)
    BY <2>1
  <2>4. \/ NameForm(s, a, b) /\ ~Has(a, ":")
        \/ BracketForm(s, a, b)
    BY <2>1
  <2>. HIDE DEF a, b
  <2>5. Len(a) \in Nat /\ Len(b) \in Nat /\ \A i \in 1..Len(a) : a[i] \notin {"[", "]"}
    BY <2>2, <2>3 DEF Plain, Has
  <2>6. ~NameForm(s, a, b)
    <3>1. SUFFICES ASSUME NameForm(s, a, b) PROVE FALSE
      OBVIOUS
    <3>2. s[Len(a) + 1] = ":" /\ \A i \in 1..Len(a) : s[i] = a[i]
      BY <2>2, <3>1, NameFormIs
    <3>3. CASE Len(a) = 0
      BY <1>1, <3>2, <3>3
    <3>4. CASE Len(a) >= 1
      <4>1. 1 \in 1..Len(a)
        BY <2>5, <3>4
      <4>. QED  BY <1>1, <2>5, <3>2, <4>1
    <3>. QED  BY <2>5, <3>3, <3>4
  <2>7. /\ Len(s) = Len(a) + 3 + Len(b) /\ s[Len(a) + 2] = "]"
        /\ \A i \in 1..Len(a) : s[i + 1] = a[i]
        /\ \A i \in 1..Len(b) : s[Len(a) + 3 + i] = b[i]
    BY <2>2, <2>4, <2>6, BracketFormIs
  <2>8. Len(a) = Len(h)
    <3>1. CASE Len(a) < Len(h)
      <4>1. Len(a) + 1 \in 1..Len(h) /\ Len(a) + 2 = (Len(a) + 1) + 1
        BY <1>3, <2>5, <3>1
      <4>. QED  BY <1>1, <1>2, <2>7, <4>1
    <3>2. CASE Len(a) > Len(h)
      <4>1. Len(h) + 1 \in 1..Len(a) /\ Len(h) + 2 = (Len(h) + 1) + 1
        BY <1>3, <2>5, <3>2
      <4>2. s[Len(h) + 2] = a[Len(h) + 1]
        BY <2>7, <4>1
      <4>3. s[Len(h) + 2] = "]"
        BY <1>1
      <4>. QED  BY <2>5, <4>1, <4>2, <4>3
    <3>. QED  BY <1>3, <2>5, <3>1, <3>2
  <2>9. Len(b) = Len(p)
    BY <1>1, <1>3, <2>5, <2>7, <2>8
  <2>10. \A i \in 1..Len(a) : a[i] = h[i]
    BY <1>1, <2>7, <2>8
  <2>11. a = h
    BY <2>2, <2>8, <2>10, SeqEqual
  <2>12. \A i \in 1..Len(b) : b[i] = p[i]
    BY <1>1, <2>7, <2>8, <2>9
  <2>13. b = p
    BY <2>2, <2>9, <2>12, SeqEqual
  <2>. QED  BY <2>2, <2>11, <2>13
<1>. QED  BY <1>5, <1>6

(* A name or an IPv6 address with nothing before and behind it.            *)
LEMMA HostDoesNotSplit ==
  ASSUME NEW S, "[" \in S, "]" \in S, ":" \in S, NEW h \in Seq(S), Plain(h),
         \A i \in DOMAIN h : h[i] = ":" => \E j \in DOMAIN h \ {i} : h[j] = ":"
  PROVE  SplitHostPort(h) = {}
<1>1. SUFFICES ASSUME NEW x \in SplitHostPort(h) PROVE FALSE
  OBVIOUS
<1>2. /\ x \in [host : Cuts(h), port : Cuts(h)]
      /\ ~Has(x.port, ":")
      /\ \/ NameForm(h, x.host, x.port) /\ ~Has(x.host, ":")
         \/ BracketForm(h, x.host, x.port)
  BY <1>1, SplitIs
<1>. DEFINE a == x.host
            b == x.port
<1>3. a \in Seq(S) /\ b \in Seq(S)
  BY <1>2, CutsAre
<1>4. /\ ~Has(b, ":")
      /\ \/ NameForm(h, a, b) /\ ~Has(a, ":")
         \/ BracketForm(h, a, b)
  BY <1>2
<1>. HIDE DEF a, b
<1>5. ~BracketForm(h, a, b)
  <2>1. SUFFICES ASSUME BracketForm(h, a, b) PROVE FALSE
    OBVIOUS
  <2>2. h[1] = "[" /\ Len(h) = Len(a) + 3 + Len(b)
    BY <1>3, <2>1, BracketFormIs
  <2>3. 1 \in DOMAIN h
    BY <1>3, <2>2
  <2>. QED  BY <2>2, <2>3 DEF Plain, Has
<1>6. /\ Len(h) = Len(a) + 1 + Len(b) /\ h[Len(a) + 1] = ":"
      /\ \A i \in 1..Len(a) : h[i] = a[i]
      /\ \A i \in 1..Len(b) : h[Len(a) + 1 + i] = b[i]
  BY <1>3, <1>4, <1>5, NameFormIs
<1>7. /\ \A i \in 1..Len(a) : a[i] # ":"
      /\ \A i \in 1..Len(b) : b[i] # ":"
  BY <1>3, <1>4, <1>5 DEF Has
<1>8. Len(a) + 1 \in DOMAIN h
  BY <1>3, <1>6
<1>9. PICK j \in DOMAIN h \ {Len(a) + 1} : h[j] = ":"
  BY <1>6, <1>8
<1>10. CASE j <= Len(a)
  <2>1. j \in 1..Len(a)
    BY <1>3, <1>9, <1>10
  <2>. QED  BY <1>6, <1>7, <1>9, <2>1
<1>11. CASE j > Len(a)
  <2>. DEFINE m == Len(a)
              n == Len(b)
              i == j - (m + 1)
  <2>1. m \in Nat /\ n \in Nat /\ j \in 1..(m + 1 + n) /\ j # m + 1 /\ j > m
    BY <1>3, <1>6, <1>9, <1>11
  <2>2. i \in 1..n /\ m + 1 + i = j
    <3>. HIDE DEF m, n
    <3>. QED  BY <2>1
  <2>3. h[m + 1 + i] = b[i] /\ b[i] # ":"
    <3>. HIDE DEF i
    <3>. QED  BY <1>6, <1>7, <2>2
  <2>. HIDE DEF m, i
  <2>. QED  BY <1>9, <2>2, <2>3
<1>. QED  BY <1>3, <1>9, <1>10, <1>11

(* The address that splitHostPort makes of a hostPort that names a server, *)
(* for any default port.                                                   *)
LEMMA AddressIsGiven ==
  ASSUME NEW f \in ConfigFiles, NamesServer(f), NEW d,
         ~(IF f.brackets THEN f.port = <<>> ELSE Has(f.host, ":") /\ f.port # <<>>)
  PROVE  splitHostPort(connectionHostPort(f), d) =
           [host |-> IF f.host = <<>> THEN <<"localhost">> ELSE f.host,
            port |-> IF Len(f.port) <= 1 THEN d ELSE Tail(f.port)]
<1>. DEFINE h == f.host
            s == connectionHostPort(f)
<1>1. h \in Seq(Texts) /\ f.port \in Seq(Texts) /\ f.brackets \in BOOLEAN
  <2>1. f.host \in Seq(STRING) /\ f.port \in Seq(STRING) /\ f.brackets \in BOOLEAN
    BY DEF ConfigFiles
  <2>. QED  BY <2>1 DEF Texts
<1>2. "[" \in Texts /\ "]" \in Texts /\ ":" \in Texts
  BY DEF Texts
<1>3. /\ h = <<>> => f.port = <<>> /\ ~f.brackets
      /\ Plain(h)
      /\ \A i \in DOMAIN h : h[i] = ":" => \E j \in DOMAIN h \ {i} : h[j] = ":"
  BY DEF NamesServer, Plain
<1>4. CASE f.port = <<>>
  <2>1. ~f.brackets /\ s = h
    <3>1. ~f.brackets
      BY <1>4
    <3>2. s = h \o <<>>
      BY <1>4, <3>1 DEF connectionHostPort
    <3>. QED  BY <1>1, <3>1, <3>2, ConcatEmptySeq
  <2>2. SplitHostPort(h) = {}
    BY <1>1, <1>2, <1>3, HostDoesNotSplit
  <2>3. Len(f.port) <= 1
    BY <1>4
  <2>. HIDE DEF h, s
  <2>4. splitHostPort(s, d) = [host |-> IF h = <<>> THEN <<"localhost">> ELSE h, port |-> d]
    BY <2>1, <2>2 DEF splitHostPort
  <2>. QED  BY <2>3, <2>4 DEF h, s
<1>5. CASE f.port # <<>>
  <2>1. PICK p \in Seq(Texts) : f.port = <<":">> \o p /\ Plain(p) /\ ~Has(p, ":")
    <3>1. CASE f.port = <<":">>
      <4>1. f.port = <<":">> \o <<>> /\ <<>> \in Seq(Texts)
        BY <1>1, <3>1, ConcatEmptySeq
      <4>2. Plain(<<>>) /\ ~Has(<<>>, ":")
        BY DEF Plain, Has
      <4>. QED  BY <4>1, <4>2
    <3>2. CASE Len(f.port) = 2 /\ f.port[1] = ":" /\ f.port[2] \notin {":", "[", "]"}
      <4>. DEFINE p == f.port[2]
      <4>1. f.port = <<":", p>> /\ p \in Texts /\ p \notin {":", "[", "]"}
        BY <1>1, <3>2
      <4>. HIDE DEF p
      <4>2. f.port = <<":">> \o <<p>> /\ <<p>> \in Seq(Texts)
        BY <4>1
      <4>3. Plain(<<p>>) /\ ~Has(<<p>>, ":")
        BY <4>1 DEF Plain, Has
      <4>. QED  BY <4>2, <4>3
    <3>. QED  BY <1>5, <3>1, <3>2 DEF NamesServer
  <2>2. h # <<>>
    BY <1>3, <1>5
  <2>3. SplitHostPort(s) = {[host |-> h, port |-> p]}
    <3>1. CASE f.brackets
      <4>1. s = (<<"[">> \o h \o <<"]">>) \o (<<":">> \o p)
        BY <2>1, <3>1 DEF connectionHostPort
      <4>2. s = <<"[">> \o h \o <<"]", ":">> \o p
        <5>1. /\ <<"[">> \in Seq(Texts) /\ <<"[">> \o h \in Seq(Texts) /\ <<"]">> \in Seq(Texts)
              /\ <<":">> \in Seq(Texts) /\ <<"[">> \o h \o <<"]">> \in Seq(Texts)
          <6>1. <<"[">> \in Seq(Texts) /\ <<"]">> \in Seq(Texts) /\ <<":">> \in Seq(Texts)
            BY <1>2, Tuples
          <6>2. <<"[">> \o h \in Seq(Texts)
            BY <1>1, <6>1, ConcatProperties
          <6>3. <<"[">> \o h \o <<"]">> \in Seq(Texts)
            BY <6>1, <6>2, ConcatProperties
          <6>. QED  BY <6>1, <6>2, <6>3
        <5>2. s = ((<<"[">> \o h \o <<"]">>) \o <<":">>) \o p
          <6>1. (<<"[">> \o h \o <<"]">>) \o (<<":">> \o p)
                  = ((<<"[">> \o h \o <<"]">>) \o <<":">>) \o p
            <7>. DEFINE u == <<"[">> \o h \o <<"]">>
                        v == <<":">>
            <7>1. u \in Seq(Texts) /\ v \in Seq(Texts) /\ p \in Seq(Texts)
              BY Zenon, <2>1, <5>1
            <7>. HIDE DEF u, v
            <7>2. u \o (v \o p) = (u \o v) \o p
              BY <7>1, Associates
            <7>. QED  BY Zenon, <7>2 DEF u, v
          <6>. QED  BY Zenon, <4>1, <6>1
        <5>3. (<<"[">> \o h \o <<"]">>) \o <<":">> = (<<"[">> \o h) \o (<<"]">> \o <<":">>)
          <6>. DEFINE u == <<"[">> \o h
                      v == <<"]">>
                      w == <<":">>
          <6>1. u \in Seq(Texts) /\ v \in Seq(Texts) /\ w \in Seq(Texts)
            BY <5>1
          <6>. HIDE DEF u, v, w
          <6>2. (u \o v) \o w = u \o (v \o w)
            BY <6>1, Associates
          <6>. QED  BY Zenon, <6>2 DEF u, v, w
        <5>4. <<"]">> \o <<":">> = <<"]", ":">>
          <6>1. <<"]", ":">> \in Seq(Texts)
            BY <1>2
          <6>2. /\ <<"]">> \o <<":">> \in Seq(Texts) /\ Len(<<"]">> \o <<":">>) = 2
                /\ (<<"]">> \o <<":">>)[1] = "]" /\ (<<"]">> \o <<":">>)[2] = ":"
            BY <5>1, ConcatProperties
          <6>3. Len(<<"]", ":">>) = 2 /\ <<"]", ":">>[1] = "]" /\ <<"]", ":">>[2] = ":"
            OBVIOUS
          <6>4. \A i \in 1..2 : (<<"]">> \o <<":">>)[i] = <<"]", ":">>[i]
            BY <6>2, <6>3
          <6>. QED  BY <6>1, <6>2, <6>3, <6>4, SeqEqual
        <5>. QED  BY <5>2, <5>3, <5>4
      <4>3. BracketForm(s, h, p)
        BY <4>2 DEF BracketForm
      <4>. HIDE DEF h, s
      <4>. QED  BY <1>1, <1>2, <1>3, <2>1, <4>3, BracketsSplit
    <3>2. CASE ~f.brackets
      <4>1. s = h \o (<<":">> \o p)
        BY <2>1, <3>2 DEF connectionHostPort
      <4>2. s = h \o <<":">> \o p
        <5>1. <<":">> \in Seq(Texts)
          BY <1>2
        <5>2. h \o (<<":">> \o p) = (h \o <<":">>) \o p
          BY Zenon, <1>1, <2>1, <5>1, Associates
        <5>. QED  BY Zenon, <4>1, <5>2
      <4>3. NameForm(s, h, p) /\ ~Has(h, ":")
        BY <1>5, <3>2, <4>2 DEF NameForm
      <4>. HIDE DEF h, s
      <4>. QED  BY <1>1, <1>2, <1>3, <2>1, <2>2, <4>3, NameSplits
    <3>. QED  BY <1>1, <3>1, <3>2
  <2>4. s # <<>>
    <3>1. SplitHostPort(<<>>) = {}
      <4>1. /\ <<>> \in Seq(Texts) /\ Plain(<<>>)
            /\ \A i \in DOMAIN <<>> :
                 <<>>[i] = ":" => \E j \in DOMAIN <<>> \ {i} : <<>>[j] = ":"
        BY DEF Plain, Has
      <4>. QED  BY <1>2, <4>1, HostDoesNotSplit
    <3>. HIDE DEF s
    <3>. QED  BY <2>3, <3>1
  <2>5. (Len(f.port) <= 1) <=> p = <<>>
    <3>1. Len(f.port) = 1 + Len(p)
      BY <1>2, <2>1, ConcatProperties
    <3>. QED  BY <2>1, <3>1
  <2>6. p # <<>> => Tail(f.port) = p
    <3>1. /\ Len(f.port) = 1 + Len(p) /\ f.port \in Seq(Texts)
          /\ \A i \in 1..Len(p) : f.port[i + 1] = p[i]
      BY <1>2, <2>1, ConcatProperties
    <3>2. /\ Tail(f.port) \in Seq(Texts) /\ Len(Tail(f.port)) = Len(p)
          /\ \A i \in 1..Len(p) : Tail(f.port)[i] = p[i]
      BY <2>1, <3>1
    <3>. QED  BY <2>1, <3>2, SeqEqual
  <2>. HIDE DEF h, s
  <2>. DEFINE x == [host |-> h, port |-> p]
  <2>7. (CHOOSE y \in {x} : TRUE) = x
    OBVIOUS
  <2>8. splitHostPort(s, d) = IF p = <<>> THEN [host |-> h, port |-> d] ELSE x
    <3>1. splitHostPort(s, d) = IF x.port = <<>> THEN [x EXCEPT !.port = d] ELSE x
      <4>. HIDE DEF x
      <4>. QED  BY <2>3, <2>4, <2>7 DEF splitHostPort, x
    <3>. QED  BY <3>1
  <2>. QED  BY <2>2, <2>5, <2>6, <2>8 DEF h, s
<1>. QED  BY <1>4, <1>5

-----------------------------------------------------------------------------
LEMMA InitInv == Init => CommandInv
<1>. SUFFICES ASSUME Init PROVE CommandInv
  OBVIOUS
<1>1. LoadedInv /\ BuiltInv /\ SinkInv /\ TestingInv /\ TestedInv /\ ErrInv
  BY DEF Init, LoadedInv, BuiltInv, SinkInv, TestingInv, TestedInv, ErrInv
<1>2. TypeOK
  <2>1. Len(sink) = 0 /\ Len(columns) = 0 /\ Len(sent) = 0
    BY DEF Init
  <2>2. /\ file \in Files /\ command \in {"test-connection", "ingest"} /\ pc = "load"
        /\ connType = "nil" /\ serviceType = "none" /\ tested \in BOOLEAN
    BY DEF Init
  <2>. QED  BY <2>1, <2>2 DEF TypeOK
<1>3. columns \in Seq(NativeType) /\ sent = <<>>
  BY EmptySeq DEF Init
<1>. QED  BY <1>1, <1>2, <1>3 DEF CommandInv, ColumnsInv

(* A command that fails leaves everything as it is, but for its error. *)
LEMMA FailsInv ==
  ASSUME CommandInv, NEW where, Fails(where),
         where \in {"file", "configuration", "patterns", "prepare", "database", "extract",
                    "service", "table"},
         where = "configuration" => Decoded(file) = "unsupported" \/ ~validate(file),
         where = "patterns" => ~file.patterns,
         where = "database" =>
           Decoded(file) = "Postgres" /\ ~file.database /\ ~file.ingestAllDatabases
  PROVE  CommandInv'
<1>1. /\ pc' = "exited" /\ err' = where
      /\ UNCHANGED <<file, command, connType, serviceType, sink, columns, sent, tested>>
  BY DEF Fails
<1>2. (TypeOK /\ LoadedInv /\ BuiltInv /\ TestingInv /\ TestedInv)'
  BY <1>1 DEF CommandInv, TypeOK, LoadedInv, BuiltInv, TestingInv, TestedInv
<1>3. ErrInv'
  BY <1>1 DEF ErrInv
<1>4. (SinkInv /\ ColumnsInv)'
  BY <1>1 DEF CommandInv, SinkInv, ColumnsInv
<1>. QED  BY <1>2, <1>3, <1>4 DEF CommandInv

LEMMA LoadInv ==
  ASSUME CommandInv, Load \/ LoadFails PROVE CommandInv'
<1>1. CASE LoadFails
  <2>1. \/ Fails("file")
        \/ Fails("configuration") /\ (Decoded(file) = "unsupported" \/ ~validate(file))
    BY <1>1 DEF LoadFails
  <2>. QED  BY <2>1, FailsInv
<1>2. CASE Load
  <2>1. /\ pc = "load" /\ pc' = "source" /\ validate(file) /\ connType' = Decoded(file)
        /\ Decoded(file) # "unsupported"
        /\ UNCHANGED <<file, command, serviceType, sink, columns, sent, err, tested>>
    BY <1>2 DEF Load
  <2>2. Decoded(file) \in ServiceTypes
    BY <2>1, DecodedTypes DEF validate
  <2>3. (TypeOK /\ LoadedInv /\ BuiltInv /\ TestingInv /\ TestedInv /\ ErrInv)'
    BY <2>1, <2>2
    DEF CommandInv, TypeOK, LoadedInv, BuiltInv, TestingInv, TestedInv, ErrInv
  <2>4. (SinkInv /\ ColumnsInv)'
    BY <2>1 DEF CommandInv, SinkInv, ColumnsInv
  <2>. QED  BY <2>3, <2>4 DEF CommandInv
<1>. QED  BY <1>1, <1>2

LEMMA NewSourceInv ==
  ASSUME CommandInv, NewSource \/ NewSourceFails PROVE CommandInv'
<1>1. pc = "source" /\ connType \in ServiceTypes
  BY DEF NewSource, NewSourceFails, CommandInv, LoadedInv
<1>2. /\ SourceError \in {"nil", "patterns"} /\ (SourceError = "patterns" <=> ~file.patterns)
      /\ registry[Lower(connType)] = connType
  BY <1>1, Registered DEF SourceError
<1>3. CASE NewSourceFails
  BY <1>2, <1>3, FailsInv DEF NewSourceFails
<1>4. CASE NewSource
  <2>1. /\ serviceType' = connType /\ file.patterns
        /\ pc' = IF command = "ingest" THEN "sink" ELSE "prepare"
        /\ UNCHANGED <<file, command, connType, sink, columns, sent, err, tested>>
    BY <1>2, <1>4 DEF NewSource
  <2>2. (TypeOK /\ LoadedInv /\ BuiltInv /\ TestingInv /\ TestedInv /\ ErrInv)'
    BY <1>1, <2>1
    DEF CommandInv, TypeOK, LoadedInv, BuiltInv, TestingInv, TestedInv, ErrInv
  <2>3. (SinkInv /\ ColumnsInv)'
    BY <1>1, <2>1 DEF CommandInv, TypeOK, SinkInv, ColumnsInv
  <2>. QED  BY <2>2, <2>3 DEF CommandInv
<1>. QED  BY <1>3, <1>4

(* The host and port are there, as validate has seen to. *)
LEMMA NewSinkInv ==
  ASSUME CommandInv, NewSink PROVE CommandInv'
<1>1. pc = "sink" /\ hostPort(file) # <<>>
  BY DEF NewSink, CommandInv, LoadedInv, validate
<1>2. /\ sink' = <<[baseURL |-> BaseURL(hostPort(file)), serviceType |-> "none"]>>
      /\ pc' = "prepare"
      /\ UNCHANGED <<file, command, connType, serviceType, columns, sent, err, tested>>
  BY <1>1 DEF NewSink
<1>3. command = "ingest"
  BY <1>1 DEF CommandInv, TypeOK, TestingInv
<1>4. (LoadedInv /\ BuiltInv /\ TestingInv /\ TestedInv /\ ErrInv)'
  BY <1>1, <1>2, <1>3 DEF CommandInv, LoadedInv, BuiltInv, TestingInv, TestedInv, ErrInv
<1>6. TypeOK'
  BY <1>2 DEF CommandInv, TypeOK
<1>5. (SinkInv /\ ColumnsInv)'
  BY <1>1, <1>2 DEF CommandInv, SinkInv, ColumnsInv
<1>. QED  BY <1>4, <1>5, <1>6 DEF CommandInv

LEMMA PrepareInv ==
  ASSUME CommandInv, Prepare PROVE CommandInv'
<1>1. /\ pc = "prepare" /\ pc' = IF command = "ingest" THEN "extract" ELSE "exited"
      /\ tested' = (tested \/ command = "test-connection")
      /\ UNCHANGED <<file, command, connType, serviceType, sink, columns, sent, err>>
  BY DEF Prepare
<1>2. /\ validate(file) /\ Decoded(file) # "unsupported" /\ file.patterns
      /\ command \in {"test-connection", "ingest"}
  <2>1. validate(file) /\ Decoded(file) \in ServiceTypes /\ file.patterns
    BY <1>1 DEF CommandInv, LoadedInv, BuiltInv
  <2>. QED  BY <2>1 DEF ServiceTypes, CommandInv, TypeOK
<1>3. (LoadedInv /\ BuiltInv /\ TestingInv /\ TestedInv /\ ErrInv)'
  BY <1>1, <1>2 DEF CommandInv, LoadedInv, BuiltInv, TestingInv, TestedInv, ErrInv
<1>4. TypeOK'
  BY <1>1, <1>2 DEF CommandInv, TypeOK
<1>5. (SinkInv /\ ColumnsInv)'
  BY <1>1, <1>2 DEF CommandInv, SinkInv, ColumnsInv
<1>. QED  BY <1>3, <1>4, <1>5 DEF CommandInv

LEMMA ExtractInv ==
  ASSUME CommandInv, Extract PROVE CommandInv'
<1>1. pc = "extract" /\ serviceType \in ServiceTypes /\ serviceType = Decoded(file)
  BY DEF Extract, CommandInv, LoadedInv, BuiltInv
<1>2. CASE ~DatabaseGiven
  <2>1. Fails("database")
    BY <1>2 DEF Extract
  <2>2. serviceType = "Postgres" /\ ~file.database /\ ~file.ingestAllDatabases
    BY <1>2 DEF DatabaseGiven
  <2>. QED  BY <1>1, <2>1, <2>2, FailsInv
<1>3. CASE DatabaseGiven
  <2>1. /\ pc' = "service"
        /\ UNCHANGED <<file, command, connType, serviceType, sink, sent, err, tested>>
    BY <1>3 DEF Extract
  <2>2. PICK d \in Natives[serviceType] : columns' = <<d>>
    BY <1>3 DEF Extract
  <2>3. columns' \in Seq(NativeType) /\ Len(columns') = 1
    <3>1. d \in NativeType
      BY <1>1, <2>2, CommandAssumption
    <3>. QED  BY <2>2, <3>1, Tuples
  <2>4. command = "ingest" /\ sent = <<>>
    BY <1>1 DEF CommandInv, TypeOK, TestingInv, ColumnsInv
  <2>5. (LoadedInv /\ BuiltInv /\ TestingInv /\ TestedInv /\ ErrInv)'
    BY <1>1, <2>1, <2>4 DEF CommandInv, LoadedInv, BuiltInv, TestingInv, TestedInv, ErrInv
  <2>6. TypeOK'
    BY <2>1, <2>3 DEF CommandInv, TypeOK
  <2>7. (SinkInv /\ ColumnsInv)'
    BY <1>1, <2>1, <2>3, <2>4 DEF CommandInv, SinkInv, ColumnsInv
  <2>. QED  BY <2>5, <2>6, <2>7 DEF CommandInv
<1>. QED  BY <1>2, <1>3

(* The service type is known to the sink, and the sink remembers it. *)
LEMMA UpsertServiceInv ==
  ASSUME CommandInv, UpsertService PROVE CommandInv'
<1>1. pc = "service" /\ serviceType \in ServiceTypes /\ sink # <<>> /\ command = "ingest"
  BY DEF UpsertService, CommandInv, TypeOK, LoadedInv, BuiltInv, TestingInv, SinkInv
<1>2. /\ sink' = <<[sink[1] EXCEPT !.serviceType = serviceType]>> /\ pc' = "table"
      /\ UNCHANGED <<file, command, connType, serviceType, columns, sent, err, tested>>
  BY <1>1 DEF UpsertService
<1>3. PICK s : sink = <<[baseURL |-> BaseURL(hostPort(file)), serviceType |-> s]>>
  BY <1>1 DEF CommandInv, SinkInv
<1>4. sink' = <<[baseURL |-> BaseURL(hostPort(file)), serviceType |-> serviceType]>>
  BY <1>2, <1>3
<1>5. (LoadedInv /\ BuiltInv /\ TestingInv /\ TestedInv /\ ErrInv)'
  BY <1>1, <1>2 DEF CommandInv, LoadedInv, BuiltInv, TestingInv, TestedInv, ErrInv
<1>6. TypeOK'
  BY <1>2, <1>4 DEF CommandInv, TypeOK
<1>7. SinkInv'
  <2>1. sink'[1].serviceType = serviceType /\ sink' # <<>>
    BY <1>4
  <2>. QED  BY <1>2, <1>4, <2>1 DEF SinkInv
<1>8. ColumnsInv'
  BY <1>1, <1>2 DEF CommandInv, ColumnsInv
<1>. QED  BY <1>5, <1>6, <1>7, <1>8 DEF CommandInv

LEMMA UpsertTableInv ==
  ASSUME CommandInv, UpsertTable PROVE CommandInv'
<1>1. /\ pc = "table" /\ pc' = "exited"
      /\ sent' = [i \in DOMAIN columns |-> Column(sink[1].serviceType, Written(columns[i]))]
      /\ UNCHANGED <<file, command, connType, serviceType, sink, columns, err, tested>>
  BY DEF UpsertTable
<1>2. /\ serviceType \in ServiceTypes /\ serviceType = Decoded(file)
      /\ command = "ingest" /\ sink[1].serviceType = serviceType
  BY <1>1 DEF CommandInv, TypeOK, LoadedInv, BuiltInv, TestingInv, SinkInv
<1>3. (LoadedInv /\ BuiltInv /\ TestingInv /\ TestedInv /\ ErrInv)'
  BY <1>1, <1>2 DEF CommandInv, LoadedInv, BuiltInv, TestingInv, TestedInv, ErrInv
<1>4. TypeOK'
  <2>1. columns \in Seq(NativeType) /\ Len(columns) <= 1
    BY DEF CommandInv, TypeOK, ColumnsInv
  <2>2. Len(sent') = Len(columns)
    BY <1>1, <2>1
  <2>. QED  BY <1>1, <2>1, <2>2 DEF CommandInv, TypeOK
<1>5. (SinkInv /\ ColumnsInv)'
  BY <1>1, <1>2 DEF CommandInv, SinkInv, ColumnsInv
<1>. QED  BY <1>3, <1>4, <1>5 DEF CommandInv

LEMMA CallFailsInv ==
  ASSUME CommandInv, CallFails PROVE CommandInv'
BY FailsInv DEF CallFails

LEMMA IngestInv ==
  ASSUME CommandInv, Ingest PROVE CommandInv'
<1>1. /\ command = "test-connection" /\ command' = "ingest" /\ pc' = "load"
      /\ connType' = "nil" /\ serviceType' = "none" /\ err' = "nil"
      /\ UNCHANGED <<file, sink, columns, sent, tested>>
  BY DEF Ingest
<1>2. sink = <<>> /\ sent = <<>>
  BY <1>1 DEF CommandInv, TestingInv
<1>3. (LoadedInv /\ BuiltInv /\ TestingInv /\ TestedInv /\ ErrInv)'
  BY <1>1 DEF CommandInv, LoadedInv, BuiltInv, TestingInv, TestedInv, ErrInv
<1>4. TypeOK'
  BY <1>1 DEF CommandInv, TypeOK
<1>5. (SinkInv /\ ColumnsInv)'
  BY <1>1, <1>2 DEF CommandInv, SinkInv, ColumnsInv
<1>. QED  BY <1>3, <1>4, <1>5 DEF CommandInv

LEMMA NextInv ==
  ASSUME CommandInv, [Next]_vars PROVE CommandInv'
<1>1. CASE UNCHANGED vars
  <2>1. (TypeOK /\ LoadedInv /\ BuiltInv /\ TestingInv /\ TestedInv /\ ErrInv)'
    BY <1>1
    DEF vars, CommandInv, TypeOK, LoadedInv, BuiltInv, TestingInv, TestedInv, ErrInv
  <2>2. (SinkInv /\ ColumnsInv)'
    BY <1>1 DEF vars, CommandInv, SinkInv, ColumnsInv
  <2>. QED  BY <2>1, <2>2 DEF CommandInv
<1>2. CASE Next
  BY <1>2, LoadInv, NewSourceInv, NewSinkInv, PrepareInv, ExtractInv, UpsertServiceInv,
     UpsertTableInv, CallFailsInv, IngestInv
  DEF Next
<1>. QED  BY <1>1, <1>2

(* Every reachable state of a command satisfies the invariant. *)
THEOREM CommandInvariant == Spec => []CommandInv
BY InitInv, NextInv, PTL DEF Spec

(* Type correctness. *)
THEOREM TypeCorrect == Spec => []TypeOK
<1>1. CommandInv => TypeOK
  BY DEF CommandInv
<1>. QED  BY <1>1, CommandInvariant, PTL

(* What test-connection accepts, ingest accepts, but for a Postgres        *)
(* connection that names no database.                                      *)
THEOREM TestConnectionSuffices == Spec => []TestedIsAccepted
<1>1. CommandInv => TestedIsAccepted
  BY DEF CommandInv, TestedInv, ErrInv, TestedIsAccepted
<1>. QED  BY <1>1, CommandInvariant, PTL

(* For every address of a server that does not end in "/api", however many *)
(* slashes and names it is made of, the sink calls that address, whichever *)
(* of the documented forms of hostPort is configured.                      *)
THEOREM HostPortForms == Spec => []HostPortResolves
<1>1. CommandInv => HostPortResolves
  <2>. SUFFICES ASSUME CommandInv, sink # <<>>, TrimApi(file.root) = file.root
                PROVE  sink[1].baseURL = file.root
    BY DEF HostPortResolves
  <2>1. file \in ConfigFiles
    BY CommandAssumption DEF CommandInv, TypeOK
  <2>2. /\ file.root \in Seq(STRING) /\ (file.root = <<>> \/ file.root[Len(file.root)] # "/")
        /\ file.suffix \in HostPortSuffixes
    BY <2>1 DEF ConfigFiles
  <2>3. file.root \in Seq(Texts)
    BY <2>2 DEF Texts
  <2>4. BaseURL(file.root \o file.suffix) = file.root
    BY <2>2, <2>3, BaseURLIsRoot
  <2>. QED  BY <2>4 DEF CommandInv, SinkInv, hostPort
<1>. QED  BY <1>1, CommandInvariant, PTL

-----------------------------------------------------------------------------
(* What else the steps of a command establish: that test-connection has    *)
(* connected to the server of its own file, and whose the columns are.     *)
ConnectedInv ==
  tested /\ command = "test-connection" =>
    pc = "exited" /\ connType = Decoded(file) /\ connType \in ServiceTypes

NativesInv ==
  /\ pc \in {"load", "source", "sink", "prepare", "extract"} => columns = <<>>
  /\ \A i \in DOMAIN columns : columns[i] \in Natives[serviceType]

LEMMA NextConnected ==
  ASSUME CommandInv, ConnectedInv, [Next]_vars PROVE ConnectedInv'
<1>. USE DEF ConnectedInv
<1>1. CASE Load \/ NewSource \/ NewSink
  BY <1>1 DEF Load, NewSource, NewSink, Fails
<1>2. CASE Prepare
  <2>1. connType = Decoded(file) /\ connType \in ServiceTypes
    BY <1>2 DEF Prepare, CommandInv, LoadedInv
  <2>. QED  BY <1>2, <2>1 DEF Prepare
<1>3. CASE Extract \/ UpsertService \/ UpsertTable \/ Ingest
  BY <1>3 DEF Extract, UpsertService, UpsertTable, Ingest, Fails
<1>4. CASE LoadFails \/ NewSourceFails \/ CallFails
  BY <1>4 DEF LoadFails, NewSourceFails, CallFails, Fails
<1>5. CASE UNCHANGED vars
  BY <1>5 DEF vars
<1>. QED  BY <1>1, <1>2, <1>3, <1>4, <1>5 DEF Next

LEMMA NextNatives ==
  ASSUME CommandInv, NativesInv, [Next]_vars PROVE NativesInv'
<1>. USE DEF NativesInv
<1>1. CASE Load \/ NewSource \/ NewSink \/ Prepare
  BY <1>1 DEF Load, NewSource, NewSink, Prepare, Fails
<1>2. CASE Extract
  <2>1. CASE ~DatabaseGiven
    BY <1>2, <2>1 DEF Extract, Fails
  <2>2. CASE DatabaseGiven
    <3>1. PICK d \in Natives[serviceType] : columns' = <<d>>
      BY <1>2, <2>2 DEF Extract
    <3>2. pc' = "service" /\ UNCHANGED serviceType
      BY <1>2, <2>2 DEF Extract
    <3>. QED  BY <3>1, <3>2
  <2>. QED  BY <2>1, <2>2
<1>3. CASE UpsertService \/ UpsertTable
  BY <1>3 DEF UpsertService, UpsertTable, Fails
<1>4. CASE LoadFails \/ NewSourceFails \/ CallFails
  BY <1>4 DEF LoadFails, NewSourceFails, CallFails, Fails
<1>5. CASE Ingest
  <2>1. columns = <<>> /\ UNCHANGED columns
    BY <1>5 DEF Ingest, CommandInv, TestingInv
  <2>. QED  BY <2>1
<1>6. CASE UNCHANGED vars
  BY <1>6 DEF vars
<1>. QED  BY <1>1, <1>2, <1>3, <1>4, <1>5, <1>6 DEF Next

THEOREM ConnectionInvariant == Spec => [](CommandInv /\ ConnectedInv /\ NativesInv)
<1>1. Init => ConnectedInv /\ NativesInv
  BY DEF Init, ConnectedInv, NativesInv
<1>2. CommandInv /\ ConnectedInv /\ NativesInv /\ [Next]_vars => (ConnectedInv /\ NativesInv)'
  BY NextConnected, NextNatives
<1>. QED  BY <1>1, <1>2, CommandInvariant, PTL DEF Spec

(* For every file whose hostPort names a server, whatever the name or the  *)
(* IPv6 address is, Prepare connects to that host, or localhost, at the    *)
(* port given, or the default port of the database: splitHostPort of the   *)
(* three sources, but for the forms that the property leaves out.          *)
THEOREM ServersAreAddressed ==
  ASSUME \A f \in Files : NamesServer(f)
  PROVE  Spec => []ServerAddressed
<1>1. CommandInv /\ ConnectedInv => ServerAddressed
  <2>. DEFINE ambiguous == IF file.brackets THEN file.port = <<>>
                           ELSE Has(file.host, ":") /\ file.port # <<>>
              given == [host |-> IF file.host = <<>> THEN <<"localhost">> ELSE file.host,
                        port |-> IF Len(file.port) <= 1 THEN DefaultPort[connType]
                                 ELSE Tail(file.port)]
              connected == pc = "extract" \/ (tested /\ pc = "exited"
                                                     /\ command = "test-connection")
  <2>1. SUFFICES ASSUME CommandInv, ConnectedInv, connected, ~ambiguous
                 PROVE  dsn(file) = given
    BY DEF ServerAddressed
  <2>2. connType = Decoded(file)
    BY <2>1 DEF CommandInv, LoadedInv, ConnectedInv
  <2>3. file \in ConfigFiles /\ NamesServer(file)
    BY <2>1, CommandAssumption DEF CommandInv, TypeOK
  <2>4. splitHostPort(connectionHostPort(file), DefaultPort[Decoded(file)]) =
          [host |-> IF file.host = <<>> THEN <<"localhost">> ELSE file.host,
           port |-> IF Len(file.port) <= 1 THEN DefaultPort[Decoded(file)]
                    ELSE Tail(file.port)]
    BY <2>1, <2>3, AddressIsGiven
  <2>. QED  BY <2>2, <2>4 DEF dsn
<1>. QED  BY <1>1, ConnectionInvariant, PTL

(* The columns that are sent, and from which native types. *)
LEMMA SentColumns ==
  ASSUME CommandInv, NativesInv, NEW i \in DOMAIN sent
  PROVE  /\ serviceType \in ServiceTypes /\ serviceType = Decoded(file)
         /\ columns[i] \in NativeTypes(serviceType)
         /\ sent[i] = Column(serviceType, Written(columns[i]))
<1>1. sent # <<>>
  OBVIOUS
<1>2. /\ serviceType \in ServiceTypes /\ serviceType = Decoded(file)
      /\ sent = [j \in DOMAIN columns |-> Column(serviceType, Written(columns[j]))]
  BY <1>1 DEF CommandInv, ColumnsInv
<1>3. i \in DOMAIN columns /\ sent[i] = Column(serviceType, Written(columns[i]))
  BY <1>2
<1>4. columns[i] \in NativeTypes(serviceType)
  BY <1>2, <1>3, CommandAssumption DEF NativesInv
<1>. QED  BY <1>2, <1>3, <1>4

(* The five places that name databases agree: what UnmarshalYAML decodes   *)
(* is registered, for itself, known to the sink and known to Map, whose    *)
(* table for it gives the data type of every column that it has.           *)
THEOREM NamesAgree == Spec => []KnownEverywhere
<1>1. CommandInv /\ NativesInv => KnownEverywhere
  <2>1. ASSUME CommandInv PROVE err \notin {"registry", "factory", "service type"}
    BY <2>1 DEF CommandInv, ErrInv
  <2>2. ASSUME CommandInv, NativesInv, NEW i \in DOMAIN sent, NEW name, NEW d,
               d = columns[i], d = Basic(name), Lookup(Types[Decoded(file)], name) # {}
        PROVE  sent[i].dataType \in Lookup(Types[Decoded(file)], name)
    <3>1. /\ serviceType \in ServiceTypes /\ serviceType = Decoded(file)
          /\ d \in NativeTypes(serviceType) /\ sent[i] = Column(serviceType, Written(d))
      BY <2>2, SentColumns
    <3>2. d.name = name /\ d.fields = <<>> /\ d.params = <<>> /\ d.rest = <<>> /\ ~d.array
      BY <2>2 DEF Basic
    <3>3. d.name \o d.rest = name
      <4>1. d \in NativeType
        BY <3>1 DEF NativeTypes
      <4>2. d.name \in Seq(Tokens)
        BY <4>1, PartsAre
      <4>. QED  BY <3>2, <4>2, NothingAdded
    <3>4. Column(serviceType, Written(d)).dataType \in Lookup(Types[serviceType], d.name \o d.rest)
      <4>1. Lookup(Types[serviceType], d.name \o d.rest) # {}
        BY <2>2, <3>1, <3>3
      <4>. QED  BY <3>1, <3>2, <4>1, TypeIsFound
    <3>. QED  BY <3>1, <3>3, <3>4
  <2>. QED  BY <2>1, <2>2 DEF KnownEverywhere
<1>. QED  BY <1>1, ConnectionInvariant, PTL

(* No table is refused for a missing length, and every size sent fits, for *)
(* any native types that the databases write.                              *)
THEOREM SizesFit == Spec => []SizesAccepted
<1>1. CommandInv /\ NativesInv => SizesAccepted
  <2>. SUFFICES ASSUME CommandInv, NativesInv, NEW i \in DOMAIN sent
                PROVE  /\ needsDataLength(sent[i].dataType) => sent[i].length # nil
                       /\ IsSized(sent[i])
    BY DEF SizesAccepted, needsDataLength, IsSized, IsSize
  <2>. DEFINE st == serviceType
              d  == columns[i]
              c  == Column(st, Written(d))
  <2>1. st \in ServiceTypes /\ d \in NativeTypes(st) /\ sent[i] = c
    BY SentColumns
  <2>2. IsSized(c) /\ (needsDataLength(c.dataType) => c.length # nil)
    <3>. HIDE DEF st, d
    <3>. QED  BY <2>1, ColumnIsSized
  <2>. HIDE DEF c
  <2>. QED  BY Zenon, <2>1, <2>2
<1>. QED  BY <1>1, ConnectionInvariant, PTL

(* For every native type that a server may write, as a text: a wrapper or  *)
(* an attribute changes nothing of a column, and the name is found in the  *)
(* table behind and before whatever parameters, except in the two forms    *)
(* that the property leaves out.                                           *)
THEOREM ModifiersAreIgnored == Spec => []ModifiersKeepType
<1>1. CommandInv /\ NativesInv => ModifiersKeepType
  <2>. SUFFICES ASSUME CommandInv, NativesInv, NEW i \in DOMAIN sent, NEW d, d = columns[i]
                PROVE  LET found == Lookup(Types[serviceType], d.name \o d.rest)
                       IN  /\ sent[i] = Column(serviceType, Written(Bare(d)))
                           /\ d.array => sent[i].dataType = "ARRAY"
                           /\ ~d.array /\ found # {} =>
                                \/ serviceType = "Postgres"
                                   /\ \/ d.fields # <<>>
                                      \/ d.params # <<>> /\ ~OnlyNumbers(d.params)
                                \/ sent[i].dataType \in found
    BY Zenon DEF ModifiersKeepType
  <2>1. /\ serviceType \in ServiceTypes /\ d \in NativeTypes(serviceType)
        /\ sent[i] = Column(serviceType, Written(d))
    BY SentColumns
  <2>2. sent[i] = Column(serviceType, Written(Bare(d)))
    BY <2>1, BareIsSame
  <2>. QED  BY <2>1, <2>2, TypeIsFound
<1>. QED  BY <1>1, ConnectionInvariant, PTL
=============================================================================
