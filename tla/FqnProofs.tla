------------------------------- MODULE FqnProofs ------------------------------
(***************************************************************************)
(* Proofs about module Fqn, for any characters, names of any length and    *)
(* hierarchies of any depth: names are unambiguous, and to grow a name is  *)
(* to build it.                                                            *)
(***************************************************************************)
EXTENDS Fqn, SequenceTheorems, WellFoundedInduction, TLAPS

-----------------------------------------------------------------------------
(* Induction, and what a recursive function on 0..m is.                    *)

(* Induction over the natural numbers, for a set instead of a property. *)
LEMMA Induction ==
  ASSUME NEW A, 0 \in A, \A n \in Nat : n \in A => n + 1 \in A
  PROVE  Nat \subseteq A
<1>. DEFINE R == {p \in Nat \X Nat : p[1] < p[2]}
            Bad == Nat \ A
<1>. SUFFICES ASSUME Bad # {} PROVE FALSE
  OBVIOUS
<1>1. IsWellFoundedOn(R, Nat)
  <2>1. R = OpToRel(<, Nat)
    BY DEF OpToRel
  <2>. QED  BY <2>1, NatLessThanWellFounded
<1>2. Bad \in SUBSET Nat
  OBVIOUS
<1>3. PICK m \in Bad : \A i \in Bad : ~(<<i, m>> \in R)
  <2>. HIDE DEF R, Bad
  <2>. QED  BY <1>1, <1>2, WFMin, Zenon
<1>4. m - 1 \in Nat /\ m - 1 < m
  OBVIOUS
<1>5. m - 1 \in A
  BY <1>3, <1>4
<1>. QED  BY <1>4, <1>5

(* There is a function with a first value and each other value a function  *)
(* of the one before.                                                      *)
Steps(F, m, X) == F \in [1..m -> [X -> X]]

Follows(g, base, F, m, X) ==
  g \in [0..m -> X] /\ g[0] = base /\ \A n \in 1..m : g[n] = F[n][g[n - 1]]

(* Such a function exists, by the recursion that it describes. *)
LEMMA Recursion ==
  ASSUME NEW X, NEW base \in X, NEW m \in Nat, NEW F, Steps(F, m, X)
  PROVE  \E g : Follows(g, base, F, m, X)
<1>. USE DEF Steps
<1>. DEFINE Good(k, g) == g[0] = base /\ \A n \in 1..k : g[n] = F[n][g[n - 1]]
            A == {k \in Nat : k <= m => \E g \in [0..k -> X] : Good(k, g)}
<1>1. 0 \in A
  <2>1. [n \in 0..0 |-> base] \in [0..0 -> X] /\ Good(0, [n \in 0..0 |-> base])
    OBVIOUS
  <2>. QED  BY <2>1
<1>2. ASSUME NEW k \in Nat, k \in A, k + 1 <= m PROVE \E h \in [0..(k + 1) -> X] : Good(k + 1, h)
  <2>1. PICK g \in [0..k -> X] : Good(k, g)
    BY <1>2
  <2>. DEFINE last == F[k + 1][g[k]]
              h == [n \in 0..(k + 1) |-> IF n = k + 1 THEN last ELSE g[n]]
  <2>2. last \in X
    <3>1. k + 1 \in 1..m /\ g[k] \in X
      BY <1>2
    <3>. QED  BY <3>1
  <2>3. h \in [0..(k + 1) -> X]
    <3>. HIDE DEF last
    <3>. QED  BY <2>2
  <2>4. h[0] = base
    BY <2>1
  <2>5. ASSUME NEW n \in 1..(k + 1) PROVE h[n] = F[n][h[n - 1]]
    <3>1. n - 1 \in 0..k /\ h[n - 1] = g[n - 1]
      OBVIOUS
    <3>2. CASE n = k + 1
      BY <3>1, <3>2
    <3>3. CASE n # k + 1
      <4>1. n \in 1..k
        BY <3>3
      <4>. QED  BY <2>1, <3>1, <3>3, <4>1
    <3>. QED  BY <3>2, <3>3
  <2>. QED  BY <2>3, <2>4, <2>5
<1>3. Nat \subseteq A
  <2>. HIDE DEF Good
  <2>1. \A k \in Nat : k \in A => k + 1 \in A
    BY <1>2
  <2>. HIDE DEF A
  <2>. QED  BY <1>1, <2>1, Induction
<1>. QED  BY <1>3 DEF Follows

(* Functions that begin alike and go on alike are alike. *)
LEMMA Agree ==
  ASSUME NEW m \in Nat, NEW f, NEW g, f[0] = g[0],
         \A n \in 1..m : f[n - 1] = g[n - 1] => f[n] = g[n]
  PROVE  f[m] = g[m]
<1>. DEFINE A == {n \in Nat : n <= m => f[n] = g[n]}
<1>1. 0 \in A
  OBVIOUS
<1>2. ASSUME NEW n \in Nat, n \in A PROVE n + 1 \in A
  <2>. SUFFICES ASSUME n + 1 <= m PROVE f[n + 1] = g[n + 1]
    OBVIOUS
  <2>1. n + 1 \in 1..m /\ (n + 1) - 1 = n /\ f[n] = g[n]
    BY <1>2
  <2>. QED  BY <2>1
<1>3. Nat \subseteq A
  <2>. HIDE DEF A
  <2>. QED  BY <1>1, <1>2, Induction
<1>. QED  BY <1>3

-----------------------------------------------------------------------------
(* What the recursive functions of Fqn are, and how they grow.             *)

(* A part is a sequence of characters. *)
LEMMA Characters ==
  /\ Dot \in Chars /\ Quote \in Chars /\ Dot # Quote
  /\ \A part \in Parts : part \in Seq(Chars)
<1>1. Dot \in Chars /\ Quote \in Chars /\ Dot # Quote
  BY CharactersAssumption DEF Chars
<1>2. ASSUME NEW part \in Parts PROVE part \in Seq(Chars)
  <2>1. part \in UNION {[1..m -> Chars] : m \in 0..MaxLength}
    BY <1>2 DEF Parts, BoundedSeq, SeqOf
  <2>2. PICK m \in 0..MaxLength : part \in [1..m -> Chars]
    BY <2>1
  <2>. QED  BY <2>2
<1>. QED  BY <1>1, <1>2

(* Each of them has an equation, and there is a function that satisfies    *)
(* it, so that it is what CHOOSE returns.                                  *)
DoubledUpTo(f, part, m) ==
  f = [n \in 0..m |-> IF n = 0 THEN <<>> ELSE f[n - 1] \o Replaced(part[n])]

(* Doubled is the last value of its recursion. *)
LEMMA DoubledIs ==
  ASSUME NEW part \in Seq(Chars)
  PROVE  \E f \in [0..Len(part) -> Seq(Chars)] :
           /\ f[0] = <<>>
           /\ \A n \in 1..Len(part) : f[n] = f[n - 1] \o Replaced(part[n])
           /\ Doubled(part) = f[Len(part)]
<1>. DEFINE m == Len(part)
            X == Seq(Chars)
            G(x, n) == x \o Replaced(part[n])
            F == [n \in 1..m |-> [x \in X |-> G(x, n)]]
<1>1. m \in Nat /\ <<>> \in X
  OBVIOUS
<1>2. ASSUME NEW n \in 1..m, NEW x \in X PROVE G(x, n) \in X
  <2>1. Replaced(part[n]) \in Seq(Chars)
    BY Characters DEF Replaced
  <2>. QED  BY <2>1
<1>. HIDE DEF m, X, G
<1>3. Steps(F, m, X)
  BY <1>2 DEF Steps
<1>4. \A n \in 1..m : \A x \in X : F[n][x] = G(x, n)
  OBVIOUS
<1>. HIDE DEF F
<1>5. PICK g : Follows(g, <<>>, F, m, X)
  BY <1>1, <1>3, Recursion
<1>6. \A n \in 1..m : g[n] = G(g[n - 1], n)
  <2>1. \A n \in 1..m : n - 1 \in 0..m
    BY <1>1
  <2>2. g \in [0..m -> X] /\ \A n \in 1..m : g[n] = F[n][g[n - 1]]
    BY <1>5 DEF Follows
  <2>3. \A n \in 1..m : g[n - 1] \in X
    BY <2>1, <2>2
  <2>. QED  BY <1>4, <2>2, <2>3
<1>7. g = [n \in 0..m |-> IF n = 0 THEN <<>> ELSE G(g[n - 1], n)]
  BY <1>1, <1>5, <1>6 DEF Follows
<1>. DEFINE f == CHOOSE h : DoubledUpTo(h, part, m)
<1>8. DoubledUpTo(f, part, m)
  <2>1. DoubledUpTo(g, part, m)
    BY <1>7 DEF DoubledUpTo, G
  <2>. QED  BY <2>1
<1>9. Doubled(part) = f[m]
  BY DEF Doubled, DoubledUpTo, m
<1>. HIDE DEF f
<1>10. f = [n \in 0..m |-> IF n = 0 THEN <<>> ELSE G(f[n - 1], n)]
  BY <1>8 DEF DoubledUpTo, G
<1>11. f[0] = <<>> /\ \A n \in 1..m : f[n] = G(f[n - 1], n)
  BY <1>1, <1>10
<1>12. f[m] = g[m]
  <2>1. f[0] = g[0]
    BY <1>5, <1>11 DEF Follows
  <2>2. \A n \in 1..m : f[n - 1] = g[n - 1] => f[n] = g[n]
    BY <1>6, <1>11
  <2>. QED  BY <1>1, <2>1, <2>2, Agree
<1>. QED  BY <1>5, <1>6, <1>9, <1>12 DEF Follows, m, G, X

NonEmptyUpTo(f, ps, m) ==
  f = [n \in 0..m |-> IF n = 0 THEN <<>>
                      ELSE IF ps[n] = <<>> THEN f[n - 1] ELSE Append(f[n - 1], ps[n])]

(* NonEmpty is the last value of its recursion. *)
LEMMA NonEmptyIs ==
  ASSUME NEW ps \in Seq(Seq(Chars))
  PROVE  \E f \in [0..Len(ps) -> Seq(Seq(Chars))] :
           /\ f[0] = <<>>
           /\ \A n \in 1..Len(ps) :
                f[n] = IF ps[n] = <<>> THEN f[n - 1] ELSE Append(f[n - 1], ps[n])
           /\ NonEmpty(ps) = f[Len(ps)]
<1>. DEFINE m == Len(ps)
            X == Seq(Seq(Chars))
            G(x, n) == IF ps[n] = <<>> THEN x ELSE Append(x, ps[n])
            F == [n \in 1..m |-> [x \in X |-> G(x, n)]]
<1>1. m \in Nat /\ <<>> \in X
  OBVIOUS
<1>2. ASSUME NEW n \in 1..m, NEW x \in X PROVE G(x, n) \in X
  <2>1. ps[n] \in Seq(Chars)
    OBVIOUS
  <2>. DEFINE P == Seq(Chars)
              q == ps[n]
  <2>. HIDE DEF P, q
  <2>2. q \in P /\ x \in Seq(P)
    BY <2>1 DEF P, q
  <2>3. Append(x, q) \in Seq(P)
    BY <2>2
  <2>. QED  BY <2>2, <2>3 DEF P, q
<1>. HIDE DEF m, X, G
<1>3. Steps(F, m, X)
  BY <1>2 DEF Steps
<1>4. \A n \in 1..m : \A x \in X : F[n][x] = G(x, n)
  OBVIOUS
<1>. HIDE DEF F
<1>5. PICK g : Follows(g, <<>>, F, m, X)
  BY <1>1, <1>3, Recursion
<1>6. \A n \in 1..m : g[n] = G(g[n - 1], n)
  <2>1. \A n \in 1..m : n - 1 \in 0..m
    BY <1>1
  <2>2. g \in [0..m -> X] /\ \A n \in 1..m : g[n] = F[n][g[n - 1]]
    BY <1>5 DEF Follows
  <2>3. \A n \in 1..m : g[n - 1] \in X
    BY <2>1, <2>2
  <2>. QED  BY <1>4, <2>2, <2>3
<1>7. g = [n \in 0..m |-> IF n = 0 THEN <<>> ELSE G(g[n - 1], n)]
  BY <1>1, <1>5, <1>6 DEF Follows
<1>. DEFINE f == CHOOSE h : NonEmptyUpTo(h, ps, m)
<1>8. NonEmptyUpTo(f, ps, m)
  <2>1. NonEmptyUpTo(g, ps, m)
    BY <1>7 DEF NonEmptyUpTo, G
  <2>. QED  BY <2>1
<1>9. NonEmpty(ps) = f[m]
  BY DEF NonEmpty, NonEmptyUpTo, m
<1>. HIDE DEF f
<1>10. f = [n \in 0..m |-> IF n = 0 THEN <<>> ELSE G(f[n - 1], n)]
  BY <1>8 DEF NonEmptyUpTo, G
<1>11. f[0] = <<>> /\ \A n \in 1..m : f[n] = G(f[n - 1], n)
  BY <1>1, <1>10
<1>12. f[m] = g[m]
  <2>1. f[0] = g[0]
    BY <1>5, <1>11 DEF Follows
  <2>2. \A n \in 1..m : f[n - 1] = g[n - 1] => f[n] = g[n]
    BY <1>6, <1>11
  <2>. QED  BY <1>1, <2>1, <2>2, Agree
<1>. QED  BY <1>5, <1>6, <1>9, <1>12 DEF Follows, m, G, X

JoinUpTo(f, ps, m) ==
  f = [n \in 0..m |-> IF n = 0 THEN <<>> ELSE IF n = 1 THEN ps[n] ELSE f[n - 1] \o <<Dot>> \o ps[n]]

(* Join is the last value of its recursion. *)
LEMMA JoinIs ==
  ASSUME NEW ps \in Seq(Seq(Chars))
  PROVE  \E f \in [0..Len(ps) -> Seq(Chars)] :
           /\ f[0] = <<>>
           /\ \A n \in 1..Len(ps) : f[n] = IF n = 1 THEN ps[n] ELSE f[n - 1] \o <<Dot>> \o ps[n]
           /\ Join(ps) = f[Len(ps)]
<1>. DEFINE m == Len(ps)
            X == Seq(Chars)
            G(x, n) == IF n = 1 THEN ps[n] ELSE x \o <<Dot>> \o ps[n]
            F == [n \in 1..m |-> [x \in X |-> G(x, n)]]
<1>1. m \in Nat /\ <<>> \in X
  OBVIOUS
<1>2. ASSUME NEW n \in 1..m, NEW x \in X PROVE G(x, n) \in X
  <2>1. ps[n] \in Seq(Chars) /\ <<Dot>> \in Seq(Chars)
    BY Characters
  <2>2. x \o <<Dot>> \in Seq(Chars)
    BY <2>1, ConcatProperties
  <2>3. x \o <<Dot>> \o ps[n] \in Seq(Chars)
    BY <2>1, <2>2, ConcatProperties
  <2>. QED  BY <2>1, <2>3
<1>. HIDE DEF m, X, G
<1>3. Steps(F, m, X)
  BY <1>2 DEF Steps
<1>4. \A n \in 1..m : \A x \in X : F[n][x] = G(x, n)
  OBVIOUS
<1>. HIDE DEF F
<1>5. PICK g : Follows(g, <<>>, F, m, X)
  BY <1>1, <1>3, Recursion
<1>6. \A n \in 1..m : g[n] = G(g[n - 1], n)
  <2>1. \A n \in 1..m : n - 1 \in 0..m
    BY <1>1
  <2>2. g \in [0..m -> X] /\ \A n \in 1..m : g[n] = F[n][g[n - 1]]
    BY <1>5 DEF Follows
  <2>3. \A n \in 1..m : g[n - 1] \in X
    BY <2>1, <2>2
  <2>. QED  BY <1>4, <2>2, <2>3
<1>7. g = [n \in 0..m |-> IF n = 0 THEN <<>> ELSE G(g[n - 1], n)]
  BY <1>1, <1>5, <1>6 DEF Follows
<1>. DEFINE f == CHOOSE h : JoinUpTo(h, ps, m)
<1>8. JoinUpTo(f, ps, m)
  <2>1. JoinUpTo(g, ps, m)
    BY <1>7 DEF JoinUpTo, G
  <2>. QED  BY <2>1
<1>9. Join(ps) = f[m]
  BY DEF Join, JoinUpTo, m
<1>. HIDE DEF f
<1>10. f = [n \in 0..m |-> IF n = 0 THEN <<>> ELSE G(f[n - 1], n)]
  BY <1>8 DEF JoinUpTo, G
<1>11. f[0] = <<>> /\ \A n \in 1..m : f[n] = G(f[n - 1], n)
  BY <1>1, <1>10
<1>12. f[m] = g[m]
  <2>1. f[0] = g[0]
    BY <1>5, <1>11 DEF Follows
  <2>2. \A n \in 1..m : f[n - 1] = g[n - 1] => f[n] = g[n]
    BY <1>6, <1>11
  <2>. QED  BY <1>1, <2>1, <2>2, Agree
<1>. QED  BY <1>5, <1>6, <1>9, <1>12 DEF Follows, m, G, X

Places == {"start", "plain", "quoted", "quote"}

Readings == [parts : Seq(Seq(Chars)), part : Seq(Chars), at : Places]

(* Reading one more character is a reading again. *)
LEMMA TookType ==
  ASSUME NEW r \in Readings, NEW c \in Chars
  PROVE  Took(r, c) \in Readings
<1>. DEFINE P == Seq(Chars)
<1>1. r.parts \in Seq(P) /\ r.part \in P /\ r.at \in Places
  BY DEF Readings
<1>2. <<>> \in P /\ Append(r.part, c) \in P
  BY <1>1
<1>3. Append(r.parts, r.part) \in Seq(P)
  <2>. HIDE DEF P
  <2>. QED  BY <1>1
<1>. HIDE DEF P
<1>4. \A ps \in Seq(P), q \in P, a \in Places : Reading(ps, q, a) \in Readings
  BY DEF Readings, Reading, P
<1>5. {"start", "plain", "quoted", "quote"} \subseteq Places
  BY DEF Places
<1>. QED  BY <1>1, <1>2, <1>3, <1>4, <1>5 DEF Took

ScannedUpTo(f, s, m) ==
  f = [n \in 0..m |-> IF n = 0 THEN Reading(<<>>, <<>>, "start") ELSE Took(f[n - 1], s[n])]

(* Scanned is the last value of its recursion. *)
LEMMA ScannedIs ==
  ASSUME NEW s \in Seq(Chars)
  PROVE  \E f \in [0..Len(s) -> Readings] :
           /\ f[0] = Reading(<<>>, <<>>, "start")
           /\ \A n \in 1..Len(s) : f[n] = Took(f[n - 1], s[n])
           /\ Scanned(s) = f[Len(s)]
<1>. DEFINE m == Len(s)
            X == Readings
            G(x, n) == Took(x, s[n])
            F == [n \in 1..m |-> [x \in X |-> G(x, n)]]
<1>1. m \in Nat /\ Reading(<<>>, <<>>, "start") \in X
  <2>1. <<>> \in Seq(Seq(Chars)) /\ <<>> \in Seq(Chars)
    OBVIOUS
  <2>. QED  BY <2>1 DEF Readings, Reading, Places
<1>2. ASSUME NEW n \in 1..m, NEW x \in X PROVE G(x, n) \in X
  <2>1. s[n] \in Chars
    OBVIOUS
  <2>. QED  BY <2>1, TookType
<1>. HIDE DEF m, X, G
<1>3. Steps(F, m, X)
  BY <1>2 DEF Steps
<1>4. \A n \in 1..m : \A x \in X : F[n][x] = G(x, n)
  OBVIOUS
<1>. HIDE DEF F
<1>5. PICK g : Follows(g, Reading(<<>>, <<>>, "start"), F, m, X)
  BY <1>1, <1>3, Recursion
<1>6. \A n \in 1..m : g[n] = G(g[n - 1], n)
  <2>1. \A n \in 1..m : n - 1 \in 0..m
    BY <1>1
  <2>2. g \in [0..m -> X] /\ \A n \in 1..m : g[n] = F[n][g[n - 1]]
    BY <1>5 DEF Follows
  <2>3. \A n \in 1..m : g[n - 1] \in X
    BY <2>1, <2>2
  <2>. QED  BY <1>4, <2>2, <2>3
<1>7. g = [n \in 0..m |-> IF n = 0 THEN Reading(<<>>, <<>>, "start") ELSE G(g[n - 1], n)]
  BY <1>1, <1>5, <1>6 DEF Follows
<1>. DEFINE f == CHOOSE h : ScannedUpTo(h, s, m)
<1>8. ScannedUpTo(f, s, m)
  <2>1. ScannedUpTo(g, s, m)
    BY <1>7 DEF ScannedUpTo, G
  <2>. QED  BY <2>1
<1>9. Scanned(s) = f[m]
  BY DEF Scanned, ScannedUpTo, m
<1>. HIDE DEF f
<1>10. f = [n \in 0..m |-> IF n = 0 THEN Reading(<<>>, <<>>, "start") ELSE G(f[n - 1], n)]
  BY <1>8 DEF ScannedUpTo, G
<1>11. f[0] = Reading(<<>>, <<>>, "start") /\ \A n \in 1..m : f[n] = G(f[n - 1], n)
  BY <1>1, <1>10
<1>12. f[m] = g[m]
  <2>1. f[0] = g[0]
    BY <1>5, <1>11 DEF Follows
  <2>2. \A n \in 1..m : f[n - 1] = g[n - 1] => f[n] = g[n]
    BY <1>6, <1>11
  <2>. QED  BY <1>1, <2>1, <2>2, Agree
<1>. QED  BY <1>5, <1>6, <1>9, <1>12 DEF Follows, m, G, X

(* They begin with nothing, and grow with what they are applied to.        *)
LEMMA Beginnings ==
  /\ NonEmpty(<<>>) = <<>> /\ Join(<<>>) = <<>>
  /\ Scanned(<<>>) = Reading(<<>>, <<>>, "start")
<1>1. <<>> \in Seq(Seq(Chars)) /\ <<>> \in Seq(Chars) /\ Len(<<>>) = 0
  OBVIOUS
<1>2. NonEmpty(<<>>) = <<>>
  BY <1>1, NonEmptyIs
<1>3. Join(<<>>) = <<>>
  BY <1>1, JoinIs
<1>4. Scanned(<<>>) = Reading(<<>>, <<>>, "start")
  BY <1>1, ScannedIs
<1>. QED  BY <1>2, <1>3, <1>4

(* What Append does to the length and the elements. *)
LEMMA Appended ==
  ASSUME NEW S, NEW s \in Seq(S), NEW e \in S
  PROVE  /\ Append(s, e) \in Seq(S) /\ Len(s) \in Nat /\ Len(Append(s, e)) = Len(s) + 1
         /\ Len(s) + 1 \in 1..Len(Append(s, e)) /\ (Len(s) + 1) - 1 = Len(s)
         /\ Append(s, e)[Len(s) + 1] = e
         /\ \A n \in 1..Len(s) : n \in 1..Len(Append(s, e)) /\ Append(s, e)[n] = s[n]
OBVIOUS

(* One more part is kept unless it is empty. *)
LEMMA NonEmptyGrows ==
  ASSUME NEW ps \in Seq(Seq(Chars)), NEW p \in Seq(Chars)
  PROVE  /\ NonEmpty(ps) \in Seq(Seq(Chars))
         /\ NonEmpty(Append(ps, p)) =
              IF p = <<>> THEN NonEmpty(ps) ELSE Append(NonEmpty(ps), p)
<1>. DEFINE S == Seq(Chars)
            m == Len(ps)
            qs == Append(ps, p)
<1>1. /\ qs \in Seq(S) /\ m \in Nat /\ Len(qs) = m + 1
      /\ m + 1 \in 1..Len(qs) /\ (m + 1) - 1 = m /\ qs[m + 1] = p
      /\ \A n \in 1..m : n \in 1..Len(qs) /\ qs[n] = ps[n]
  <2>. HIDE DEF S
  <2>1. ps \in Seq(S) /\ p \in S
    BY DEF S
  <2>. QED  BY <2>1, Appended
<1>. HIDE DEF m, qs
<1>2. PICK f \in [0..m -> Seq(S)] :
        /\ f[0] = <<>>
        /\ \A n \in 1..m : f[n] = IF ps[n] = <<>> THEN f[n - 1] ELSE Append(f[n - 1], ps[n])
        /\ NonEmpty(ps) = f[m]
  BY NonEmptyIs DEF m
<1>3. PICK g \in [0..Len(qs) -> Seq(S)] :
        /\ g[0] = <<>>
        /\ \A n \in 1..Len(qs) :
             g[n] = IF qs[n] = <<>> THEN g[n - 1] ELSE Append(g[n - 1], qs[n])
        /\ NonEmpty(qs) = g[Len(qs)]
  BY <1>1, NonEmptyIs
<1>. HIDE DEF S
<1>4. f[m] = g[m]
  <2>1. f[0] = g[0]
    BY <1>2, <1>3
  <2>2. ASSUME NEW n \in 1..m, f[n - 1] = g[n - 1] PROVE f[n] = g[n]
    <3>1. n \in 1..Len(qs) /\ qs[n] = ps[n]
      BY <1>1
    <3>2. f[n] = IF ps[n] = <<>> THEN f[n - 1] ELSE Append(f[n - 1], ps[n])
      BY <1>2
    <3>3. g[n] = IF qs[n] = <<>> THEN g[n - 1] ELSE Append(g[n - 1], qs[n])
      BY <1>3, <3>1, Zenon
    <3>. QED  BY <2>2, <3>1, <3>2, <3>3, Zenon
  <2>. QED  BY <1>1, <2>1, <2>2, Agree
<1>5. NonEmpty(qs) = IF p = <<>> THEN g[m] ELSE Append(g[m], p)
  BY <1>1, <1>3
<1>6. f[m] \in Seq(S)
  BY <1>1, <1>2
<1>. QED  BY <1>2, <1>4, <1>5, <1>6 DEF qs, S

(* One more part is joined behind a dot, unless it is the first. *)
LEMMA JoinGrows ==
  ASSUME NEW ps \in Seq(Seq(Chars)), NEW p \in Seq(Chars)
  PROVE  /\ Join(ps) \in Seq(Chars)
         /\ Join(Append(ps, p)) = IF ps = <<>> THEN p ELSE Join(ps) \o <<Dot>> \o p
<1>. DEFINE S == Seq(Chars)
            m == Len(ps)
            qs == Append(ps, p)
<1>1. /\ qs \in Seq(S) /\ m \in Nat /\ Len(qs) = m + 1
      /\ m + 1 \in 1..Len(qs) /\ (m + 1) - 1 = m /\ qs[m + 1] = p
      /\ \A n \in 1..m : n \in 1..Len(qs) /\ qs[n] = ps[n]
  <2>. HIDE DEF S
  <2>1. ps \in Seq(S) /\ p \in S
    BY DEF S
  <2>. QED  BY <2>1, Appended
<1>2. ps = <<>> <=> m = 0
  OBVIOUS
<1>. HIDE DEF m, qs
<1>3. PICK f \in [0..m -> S] :
        /\ f[0] = <<>>
        /\ \A n \in 1..m : f[n] = IF n = 1 THEN ps[n] ELSE f[n - 1] \o <<Dot>> \o ps[n]
        /\ Join(ps) = f[m]
  BY JoinIs DEF m
<1>4. PICK g \in [0..Len(qs) -> S] :
        /\ g[0] = <<>>
        /\ \A n \in 1..Len(qs) : g[n] = IF n = 1 THEN qs[n] ELSE g[n - 1] \o <<Dot>> \o qs[n]
        /\ Join(qs) = g[Len(qs)]
  BY <1>1, JoinIs
<1>. HIDE DEF S
<1>5. f[m] = g[m]
  <2>1. f[0] = g[0]
    BY <1>3, <1>4
  <2>2. ASSUME NEW n \in 1..m, f[n - 1] = g[n - 1] PROVE f[n] = g[n]
    <3>1. n \in 1..Len(qs) /\ qs[n] = ps[n]
      BY <1>1
    <3>2. f[n] = IF n = 1 THEN ps[n] ELSE f[n - 1] \o <<Dot>> \o ps[n]
      BY <1>3
    <3>3. g[n] = IF n = 1 THEN qs[n] ELSE g[n - 1] \o <<Dot>> \o qs[n]
      BY <1>4, <3>1
    <3>. QED  BY <2>2, <3>1, <3>2, <3>3, Zenon
  <2>. QED  BY <1>1, <2>1, <2>2, Agree
<1>6. Join(qs) = IF m + 1 = 1 THEN p ELSE g[m] \o <<Dot>> \o p
  BY <1>1, <1>4
<1>7. f[m] \in S
  BY <1>1, <1>3
<1>8. m + 1 = 1 <=> ps = <<>>
  BY <1>1, <1>2
<1>. QED  BY <1>3, <1>5, <1>6, <1>7, <1>8 DEF qs, S

(* One more character of a name is one more step of its reader. *)
LEMMA ScannedGrows ==
  ASSUME NEW s \in Seq(Chars), NEW c \in Chars
  PROVE  Scanned(s) \in Readings /\ Scanned(Append(s, c)) = Took(Scanned(s), c)
<1>. DEFINE m == Len(s)
            t == Append(s, c)
<1>1. /\ t \in Seq(Chars) /\ m \in Nat /\ Len(t) = m + 1
      /\ m + 1 \in 1..Len(t) /\ (m + 1) - 1 = m /\ t[m + 1] = c
      /\ \A n \in 1..m : n \in 1..Len(t) /\ t[n] = s[n]
  BY Appended
<1>. HIDE DEF m, t
<1>2. PICK f \in [0..m -> Readings] :
        /\ f[0] = Reading(<<>>, <<>>, "start")
        /\ \A n \in 1..m : f[n] = Took(f[n - 1], s[n])
        /\ Scanned(s) = f[m]
  BY ScannedIs DEF m
<1>3. PICK g \in [0..Len(t) -> Readings] :
        /\ g[0] = Reading(<<>>, <<>>, "start")
        /\ \A n \in 1..Len(t) : g[n] = Took(g[n - 1], t[n])
        /\ Scanned(t) = g[Len(t)]
  BY <1>1, ScannedIs
<1>4. f[m] = g[m]
  <2>1. f[0] = g[0]
    BY <1>2, <1>3
  <2>2. \A n \in 1..m : f[n - 1] = g[n - 1] => f[n] = g[n]
    BY <1>1, <1>2, <1>3
  <2>. QED  BY <1>1, <2>1, <2>2, Agree
<1>5. Scanned(t) = Took(g[m], c)
  BY <1>1, <1>3
<1>6. f[m] \in Readings
  BY <1>1, <1>2
<1>. QED  BY <1>2, <1>4, <1>5, <1>6 DEF t

-----------------------------------------------------------------------------
(* A reader reads back what has been quoted.                               *)

UpTo(s, n) == SubSeq(s, 1, n)

(* A sequence grows from nothing to itself, element by element. *)
LEMMA BeginningIs ==
  ASSUME NEW S, NEW s \in Seq(S)
  PROVE  /\ UpTo(s, 0) = <<>> /\ UpTo(s, Len(s)) = s
         /\ \A n \in Nat : n + 1 <= Len(s) =>
              /\ n + 1 \in 1..Len(s) /\ s[n + 1] \in S /\ UpTo(s, n) \in Seq(S)
              /\ UpTo(s, n + 1) = Append(UpTo(s, n), s[n + 1])
<1>1. UpTo(s, 0) = <<>> /\ UpTo(s, Len(s)) = s
  BY DEF UpTo
<1>2. ASSUME NEW n \in Nat, n + 1 <= Len(s)
      PROVE  /\ n + 1 \in 1..Len(s) /\ s[n + 1] \in S /\ UpTo(s, n) \in Seq(S)
             /\ UpTo(s, n + 1) = Append(UpTo(s, n), s[n + 1])
  <2>1. /\ UpTo(s, n) \in Seq(S) /\ Len(UpTo(s, n)) = n
        /\ \A i \in 1..n : UpTo(s, n)[i] = s[i]
    BY <1>2 DEF UpTo
  <2>2. /\ UpTo(s, n + 1) \in Seq(S) /\ Len(UpTo(s, n + 1)) = n + 1
        /\ \A i \in 1..(n + 1) : UpTo(s, n + 1)[i] = s[i]
    BY <1>2 DEF UpTo
  <2>3. n + 1 \in 1..Len(s) /\ s[n + 1] \in S
    BY <1>2
  <2>. DEFINE a == UpTo(s, n)
              b == UpTo(s, n + 1)
              e == s[n + 1]
  <2>4. b = Append(a, e)
    <3>. HIDE DEF a, b, e
    <3>1. a \in Seq(S) /\ e \in S /\ Len(a) = n /\ b \in Seq(S) /\ Len(b) = n + 1
      BY <2>1, <2>2, <2>3 DEF a, b, e
    <3>2. \A i \in 1..n : b[i] = a[i]
      BY <2>1, <2>2 DEF a, b
    <3>3. b[n + 1] = e
      BY <2>2 DEF b, e
    <3>4. /\ Append(a, e) \in Seq(S) /\ Len(Append(a, e)) = n + 1
          /\ Append(a, e)[n + 1] = e /\ \A i \in 1..n : Append(a, e)[i] = a[i]
      BY <3>1, AppendProperties
    <3>5. \A i \in 1..(n + 1) : b[i] = Append(a, e)[i]
      BY <3>2, <3>3, <3>4
    <3>. QED  BY <3>1, <3>4, <3>5, SeqEqual
  <2>. QED  BY <2>1, <2>3, <2>4
<1>. QED  BY <1>1, <1>2

(* The last element of the second sequence is that of both together. *)
LEMMA AppendLast ==
  ASSUME NEW S, NEW s \in Seq(S), NEW t \in Seq(S), NEW c \in S
  PROVE  /\ s \o Append(t, c) = Append(s \o t, c) /\ s \o t \in Seq(S)
         /\ s \o <<c>> = Append(s, c)
<1>1. <<c>> \in Seq(S) /\ s \o t \in Seq(S) /\ t \o <<c>> = Append(t, c)
      /\ (s \o t) \o <<c>> = Append(s \o t, c) /\ s \o <<c>> = Append(s, c)
  BY AppendIsConcat, ConcatProperties
<1>2. (s \o t) \o <<c>> = s \o (t \o <<c>>)
  BY <1>1, ConcatAssociative
<1>. QED  BY <1>1, <1>2, Zenon

(* A sequence with a character behind it.                                  *)
LEMMA OnceAtEnd ==
  ASSUME NEW q \in Seq(Chars), NEW x \in Seq(Chars), NEW c \in Chars
  PROVE  q \o x \in Seq(Chars) /\ q \o Append(x, c) = Append(q \o x, c)
BY AppendLast

(* A sequence with a character twice behind it.                            *)
LEMMA TwiceAtEnd ==
  ASSUME NEW q \in Seq(Chars), NEW x \in Seq(Chars), NEW c \in Chars
  PROVE  /\ q \o x \in Seq(Chars) /\ Append(q \o x, c) \in Seq(Chars)
         /\ q \o (x \o <<c, c>>) = Append(Append(q \o x, c), c)
<1>. DEFINE S == Seq(Chars)
            y == Append(x, c)
            z == q \o x
<1>1. y \in S /\ x \o <<c, c>> = Append(y, c)
  OBVIOUS
<1>2. z \in S /\ q \o y = Append(z, c)
  BY AppendLast
<1>3. Append(z, c) \in S
  <2>. HIDE DEF z
  <2>. QED  BY <1>2
<1>4. q \o Append(y, c) = Append(q \o y, c)
  <2>. HIDE DEF y
  <2>. QED  BY <1>1, AppendLast
<1>. HIDE DEF S
<1>. QED  BY <1>1, <1>2, <1>3, <1>4, Zenon DEF S

(* Four sequences in a row.                                                *)
LEMMA FourInARow ==
  ASSUME NEW s \in Seq(Chars), NEW u \in Seq(Chars), NEW d \in Seq(Chars)
  PROVE  ((s \o u) \o d) \o u = s \o ((u \o d) \o u)
<1>. DEFINE v == u \o d
<1>1. v \in Seq(Chars)
  BY ConcatProperties
<1>2. (s \o u) \o d = s \o v
  BY ConcatAssociative
<1>. HIDE DEF v
<1>3. (s \o v) \o u = s \o (v \o u)
  BY <1>1, ConcatAssociative
<1>. QED  BY <1>2, <1>3, Zenon DEF v

(* A sequence with another one between two characters behind it.           *)
LEMMA BetweenAtEnd ==
  ASSUME NEW s \in Seq(Chars), NEW d \in Seq(Chars), NEW c \in Chars
  PROVE  /\ Append(s, c) \o d \in Seq(Chars)
         /\ s \o (<<c>> \o d \o <<c>>) = Append(Append(s, c) \o d, c)
<1>. DEFINE u == <<c>>
            q == Append(s, c)
            e == q \o d
<1>1. u \in Seq(Chars) /\ q \in Seq(Chars) /\ q = s \o u
  BY AppendIsConcat
<1>. HIDE DEF u, q
<1>2. e \in Seq(Chars)
  BY <1>1, ConcatProperties
<1>. HIDE DEF e
<1>3. e \o u = Append(e, c)
  BY <1>2, AppendIsConcat DEF u
<1>4. ((s \o u) \o d) \o u = s \o ((u \o d) \o u)
  <2>1. \A u1 \in Seq(Chars) : ((s \o u1) \o d) \o u1 = s \o ((u1 \o d) \o u1)
    BY FourInARow, Zenon
  <2>. QED  BY <1>1, <2>1, Zenon
<1>5. e = (s \o u) \o d
  BY <1>1, Zenon DEF e
<1>6. s \o (u \o d \o u) = Append(e, c)
  BY <1>3, <1>4, <1>5, Zenon
<1>. QED  BY <1>2, <1>6, Zenon DEF e, q, u

(* What the reader makes of each kind of character at each place. *)
LEMMA TookCases ==
  ASSUME NEW ps, NEW p, NEW c
  PROVE  /\ c = Quote => /\ Took(Reading(ps, p, "start"), c) = Reading(ps, p, "quoted")
                         /\ Took(Reading(ps, p, "quoted"), c) = Reading(ps, p, "quote")
                         /\ Took(Reading(ps, p, "quote"), c) = Reading(ps, Append(p, c), "quoted")
         /\ c # Quote => Took(Reading(ps, p, "quoted"), c) = Reading(ps, Append(p, c), "quoted")
         /\ c \notin {Dot, Quote} =>
              /\ Took(Reading(ps, p, "start"), c) = Reading(ps, Append(p, c), "plain")
              /\ Took(Reading(ps, p, "plain"), c) = Reading(ps, Append(p, c), "plain")
BY Characters DEF Took, Reading

(* A dot ends a part, unless it is inside quotes.                          *)
LEMMA TookDot ==
  ASSUME NEW ps, NEW p, NEW a \in {"plain", "quote"}
  PROVE  Took(Reading(ps, p, a), Dot) = Reading(Append(ps, p), <<>>, "start")
BY Characters DEF Took, Reading

(* A part without dots and quotes is read as it is. *)
LEMMA ReadsPlain ==
  ASSUME NEW s \in Seq(Chars), NEW ps, Scanned(s) = Reading(ps, <<>>, "start"),
         NEW part \in Seq(Chars), part # <<>>, \A i \in 1..Len(part) : part[i] \notin {Dot, Quote}
  PROVE  Scanned(s \o part) = Reading(ps, part, "plain")
<1>. DEFINE A == {n \in Nat : n <= Len(part) =>
                    Scanned(s \o UpTo(part, n)) = Reading(ps, UpTo(part, n),
                                                            IF n = 0 THEN "start" ELSE "plain")}
<1>1. Len(part) \in Nat /\ Len(part) # 0
  OBVIOUS
<1>2. 0 \in A
  <2>1. UpTo(part, 0) = <<>> /\ s \o <<>> = s
    BY BeginningIs, ConcatEmptySeq
  <2>. QED  BY <2>1
<1>3. ASSUME NEW n \in Nat, n \in A PROVE n + 1 \in A
  <2>. SUFFICES ASSUME n + 1 <= Len(part)
                PROVE  Scanned(s \o UpTo(part, n + 1)) = Reading(ps, UpTo(part, n + 1), "plain")
    OBVIOUS
  <2>. DEFINE c == part[n + 1]
  <2>1. /\ UpTo(part, n + 1) = Append(UpTo(part, n), c) /\ c \in Chars /\ c \notin {Dot, Quote}
        /\ UpTo(part, n) \in Seq(Chars)
    BY <1>1, BeginningIs
  <2>2. Scanned(s \o UpTo(part, n))
          = Reading(ps, UpTo(part, n), IF n = 0 THEN "start" ELSE "plain")
    BY <1>1, <1>3
  <2>. HIDE DEF c
  <2>3. /\ s \o UpTo(part, n + 1) = Append(s \o UpTo(part, n), c)
        /\ s \o UpTo(part, n) \in Seq(Chars)
    <3>1. /\ s \o Append(UpTo(part, n), c) = Append(s \o UpTo(part, n), c)
          /\ s \o UpTo(part, n) \in Seq(Chars)
      BY <2>1, AppendLast
    <3>. QED  BY <2>1, <3>1, Zenon
  <2>4. Scanned(s \o UpTo(part, n + 1)) = Took(Scanned(s \o UpTo(part, n)), c)
    BY <2>1, <2>3, ScannedGrows
  <2>5. Took(Reading(ps, UpTo(part, n), IF n = 0 THEN "start" ELSE "plain"), c)
          = Reading(ps, Append(UpTo(part, n), c), "plain")
    BY <2>1, TookCases
  <2>. QED  BY <2>1, <2>2, <2>4, <2>5
<1>4. Len(part) \in A
  <2>. HIDE DEF A
  <2>. QED  BY <1>1, <1>2, <1>3, Induction
<1>5. UpTo(part, Len(part)) = part
  BY BeginningIs
<1>. QED  BY <1>1, <1>4, <1>5

(* A part inside quotes, with its own quotes doubled, is read as it was. *)
LEMMA ReadsQuoted ==
  ASSUME NEW s \in Seq(Chars), NEW ps, Scanned(s) = Reading(ps, <<>>, "start"),
         NEW part \in Seq(Chars)
  PROVE  /\ Scanned(s \o (<<Quote>> \o Doubled(part) \o <<Quote>>)) = Reading(ps, part, "quote")
         /\ Doubled(part) \in Seq(Chars)
<1>1. PICK f \in [0..Len(part) -> Seq(Chars)] :
        /\ f[0] = <<>> /\ \A n \in 1..Len(part) : f[n] = f[n - 1] \o Replaced(part[n])
        /\ Doubled(part) = f[Len(part)]
  BY DoubledIs
<1>2. Len(part) \in Nat /\ Quote \in Chars /\ Doubled(part) \in Seq(Chars)
  <2>1. Len(part) \in Nat /\ Len(part) \in 0..Len(part)
    OBVIOUS
  <2>. QED  BY <1>1, <2>1, Characters
<1>. DEFINE q == Append(s, Quote)
            A == {n \in Nat : n <= Len(part) =>
                    Scanned(q \o f[n]) = Reading(ps, UpTo(part, n), "quoted")}
<1>3. q \in Seq(Chars) /\ Scanned(q) = Reading(ps, <<>>, "quoted")
  BY <1>2, ScannedGrows, TookCases, Appended
<1>. HIDE DEF q
<1>4. 0 \in A
  <2>1. UpTo(part, 0) = <<>> /\ q \o <<>> = q
    BY <1>3, BeginningIs, ConcatEmptySeq
  <2>. QED  BY <1>1, <1>3, <2>1
<1>5. ASSUME NEW n \in Nat, n \in A PROVE n + 1 \in A
  <2>. SUFFICES ASSUME n + 1 <= Len(part)
                PROVE  Scanned(q \o f[n + 1]) = Reading(ps, UpTo(part, n + 1), "quoted")
    OBVIOUS
  <2>. DEFINE c == part[n + 1]
              x == f[n]
  <2>1. UpTo(part, n + 1) = Append(UpTo(part, n), c) /\ c \in Chars
    BY <1>2, BeginningIs
  <2>2. Scanned(q \o x) = Reading(ps, UpTo(part, n), "quoted")
    BY <1>2, <1>5
  <2>3. x \in Seq(Chars) /\ f[n + 1] = x \o Replaced(c)
    <3>1. n + 1 \in 1..Len(part) /\ n \in 0..Len(part) /\ (n + 1) - 1 = n
      BY <1>2
    <3>. QED  BY <1>1, <3>1
  <2>. HIDE DEF c, x
  <2>4. CASE c # Quote
    <3>1. f[n + 1] = Append(x, c)
      <4>1. Replaced(c) = <<c>>
        BY <2>4 DEF Replaced
      <4>. QED  BY <2>1, <2>3, <4>1, AppendIsConcat
    <3>2. q \o f[n + 1] = Append(q \o x, c) /\ q \o x \in Seq(Chars)
      <4>1. q \o Append(x, c) = Append(q \o x, c) /\ q \o x \in Seq(Chars)
        BY <1>3, <2>1, <2>3, OnceAtEnd
      <4>. QED  BY <3>1, <4>1, Zenon
    <3>3. Scanned(q \o f[n + 1]) = Took(Reading(ps, UpTo(part, n), "quoted"), c)
      BY <2>1, <2>2, <3>2, ScannedGrows
    <3>4. Took(Reading(ps, UpTo(part, n), "quoted"), c)
            = Reading(ps, Append(UpTo(part, n), c), "quoted")
      BY <2>4, TookCases
    <3>. QED  BY <2>1, <3>3, <3>4, Zenon
  <2>5. CASE c = Quote
    <3>1. Replaced(c) = <<c, c>>
      BY <2>5 DEF Replaced
    <3>2. /\ q \o f[n + 1] = Append(Append(q \o x, c), c)
          /\ q \o x \in Seq(Chars) /\ Append(q \o x, c) \in Seq(Chars)
      <4>1. /\ q \o (x \o <<c, c>>) = Append(Append(q \o x, c), c)
            /\ q \o x \in Seq(Chars) /\ Append(q \o x, c) \in Seq(Chars)
        BY <1>3, <2>1, <2>3, TwiceAtEnd
      <4>. QED  BY <2>3, <3>1, <4>1, Zenon
    <3>3. Scanned(Append(q \o x, c)) = Took(Reading(ps, UpTo(part, n), "quoted"), c)
      BY <2>1, <2>2, <3>2, ScannedGrows
    <3>4. Scanned(q \o f[n + 1]) = Took(Scanned(Append(q \o x, c)), c)
      BY <2>1, <3>2, ScannedGrows
    <3>5. Took(Took(Reading(ps, UpTo(part, n), "quoted"), c), c)
            = Reading(ps, Append(UpTo(part, n), c), "quoted")
      BY <2>5, TookCases
    <3>. QED  BY <2>1, <3>3, <3>4, <3>5, Zenon
  <2>. QED  BY <2>4, <2>5
<1>6. Scanned(q \o Doubled(part)) = Reading(ps, part, "quoted")
  <2>1. Len(part) \in A
    <3>. HIDE DEF A
    <3>. QED  BY <1>2, <1>4, <1>5, Induction
  <2>2. UpTo(part, Len(part)) = part
    BY BeginningIs
  <2>. QED  BY <1>1, <1>2, <2>1, <2>2
<1>. DEFINE d == Doubled(part)
            u == <<Quote>>
<1>7. u \in Seq(Chars) /\ d \in Seq(Chars)
  BY <1>2
<1>8. s \o (u \o d \o u) = Append(q \o d, Quote) /\ q \o d \in Seq(Chars)
  <2>. HIDE DEF d
  <2>. QED  BY <1>2, <1>7, BetweenAtEnd, Zenon DEF q, u
<1>. HIDE DEF d
<1>9. Scanned(Append(q \o d, Quote)) = Took(Reading(ps, part, "quoted"), Quote)
  BY <1>2, <1>6, <1>8, ScannedGrows DEF d
<1>10. Took(Reading(ps, part, "quoted"), Quote) = Reading(ps, part, "quote")
  BY TookCases
<1>. QED  BY <1>2, <1>8, <1>9, <1>10 DEF d, u

(* A part that is not quoted has nothing to quote in it. *)
LEMMA ReadsPart ==
  ASSUME NEW s \in Seq(Chars), NEW ps, Scanned(s) = Reading(ps, <<>>, "start"),
         NEW part \in Seq(Chars), part # <<>>
  PROVE  /\ quote(part) \in Seq(Chars) /\ quote(part) # <<>>
         /\ \E a \in {"plain", "quote"} : Scanned(s \o quote(part)) = Reading(ps, part, a)
<1>1. CASE Contains(part, Dot) \/ Contains(part, Quote)
  <2>. DEFINE d == Doubled(part)
              u == <<Quote>>
  <2>1. quote(part) = u \o d \o u
    BY <1>1 DEF quote
  <2>2. Scanned(s \o (u \o d \o u)) = Reading(ps, part, "quote") /\ d \in Seq(Chars)
    BY ReadsQuoted
  <2>3. u \in Seq(Chars) /\ u # <<>>
    BY Characters
  <2>. HIDE DEF d, u
  <2>. DEFINE v == u \o d
  <2>4. v \in Seq(Chars)
    BY <2>2, <2>3, ConcatProperties
  <2>. HIDE DEF v
  <2>5. v \o u \in Seq(Chars) /\ v \o u # <<>>
    BY <2>3, <2>4, ConcatProperties, ConcatEqualIffEmpty
  <2>. QED  BY <2>1, <2>2, <2>5 DEF v
<1>2. CASE ~(Contains(part, Dot) \/ Contains(part, Quote))
  <2>1. quote(part) = part
    BY <1>2 DEF quote
  <2>2. \A i \in 1..Len(part) : part[i] \notin {Dot, Quote}
    BY <1>2 DEF Contains
  <2>3. Scanned(s \o part) = Reading(ps, part, "plain")
    BY <2>2, ReadsPlain
  <2>. QED  BY <2>1, <2>3
<1>. QED  BY <1>1, <1>2

(* A name from which all its parts can be read, the last one to its end. *)
Readable(s, kept) ==
  /\ s \in Seq(Chars) /\ kept \in Seq(Seq(Chars))
  /\ s = <<>> <=> kept = <<>>
  /\ s # <<>> => \E ps \in Seq(Seq(Chars)), p \in Seq(Chars), a \in {"plain", "quote"} :
                   Scanned(s) = Reading(ps, p, a) /\ kept = Append(ps, p)

(* To append a part to a readable name gives a readable name. *)
LEMMA AppendedIsReadable ==
  ASSUME NEW s, NEW kept, Readable(s, kept), NEW part \in Seq(Chars)
  PROVE  Readable(AppendPart(s, part), IF part = <<>> THEN kept ELSE Append(kept, part))
<1>1. CASE part = <<>>
  BY <1>1 DEF AppendPart
<1>2. CASE part # <<>> /\ s = <<>>
  <2>. DEFINE q == quote(part)
  <2>1. Scanned(s) = Reading(<<>>, <<>>, "start") /\ kept = <<>> /\ s \in Seq(Chars)
    BY <1>2, Beginnings DEF Readable
  <2>2. PICK a \in {"plain", "quote"} : Scanned(s \o q) = Reading(<<>>, part, a)
    BY <1>2, <2>1, ReadsPart
  <2>3. q \in Seq(Chars) /\ q # <<>>
    BY <1>2, <2>1, ReadsPart
  <2>. HIDE DEF q
  <2>4. s \o q = q
    BY <1>2, <2>3, ConcatEmptySeq
  <2>5. AppendPart(s, part) = q
    BY <1>2 DEF AppendPart, q
  <2>6. Append(<<>>, part) \in Seq(Seq(Chars)) /\ Append(<<>>, part) # <<>>
        /\ <<>> \in Seq(Seq(Chars))
    BY AppendProperties
  <2>7. Scanned(q) = Reading(<<>>, part, a)
    BY <2>2, <2>4
  <2>8. Readable(q, Append(<<>>, part))
    BY <2>3, <2>6, <2>7 DEF Readable
  <2>. QED  BY <1>2, <2>1, <2>5, <2>8
<1>3. CASE part # <<>> /\ s # <<>>
  <2>. DEFINE q == quote(part)
              t == Append(s, Dot)
              S == Seq(Chars)
  <2>1. s \in Seq(Chars) /\ kept \in Seq(S) /\ kept # <<>>
    BY <1>3 DEF Readable
  <2>2. PICK ps \in Seq(S), p \in S, a \in {"plain", "quote"} :
          Scanned(s) = Reading(ps, p, a) /\ kept = Append(ps, p)
    BY <1>3 DEF Readable
  <2>3. Scanned(t) = Reading(kept, <<>>, "start") /\ t \in Seq(Chars)
    <3>1. Scanned(t) = Took(Reading(ps, p, a), Dot)
      BY <2>1, <2>2, Characters, ScannedGrows
    <3>2. Took(Reading(ps, p, a), Dot) = Reading(Append(ps, p), <<>>, "start")
      BY TookDot
    <3>. QED  BY <2>1, <2>2, <3>1, <3>2, Characters, Appended
  <2>. HIDE DEF t
  <2>4. PICK b \in {"plain", "quote"} : Scanned(t \o q) = Reading(kept, part, b)
    BY <1>3, <2>3, ReadsPart
  <2>5. q \in Seq(Chars) /\ q # <<>>
    BY <1>3, <2>3, ReadsPart
  <2>6. t = s \o <<Dot>>
    BY <2>1, Characters, AppendIsConcat DEF t
  <2>7. AppendPart(s, part) = t \o q
    BY <1>3, <2>6 DEF AppendPart
  <2>. HIDE DEF q
  <2>8. t \o q \in Seq(Chars) /\ t \o q # <<>>
    BY <2>3, <2>5, ConcatProperties, ConcatEqualIffEmpty
  <2>9. Append(kept, part) \in Seq(S) /\ Append(kept, part) # <<>>
    <3>. HIDE DEF S
    <3>1. part \in S
      BY DEF S
    <3>. QED  BY <2>1, <3>1, AppendProperties
  <2>10. Readable(t \o q, Append(kept, part))
    BY <2>1, <2>4, <2>8, <2>9 DEF Readable
  <2>. QED  BY <1>3, <2>7, <2>10
<1>. QED  BY <1>1, <1>2, <1>3

-----------------------------------------------------------------------------
(* To append a part to the name that Build makes is to build one more. *)
LEMMA BuildGrows ==
  ASSUME NEW ps \in Seq(Seq(Chars)), NEW part \in Seq(Chars), Readable(Build(ps), NonEmpty(ps))
  PROVE  Build(Append(ps, part)) = AppendPart(Build(ps), part)
<1>. DEFINE kept == NonEmpty(ps)
            qs == Quoted(kept)
            q == quote(part)
<1>1. /\ kept \in Seq(Seq(Chars))
      /\ NonEmpty(Append(ps, part)) = IF part = <<>> THEN kept ELSE Append(kept, part)
  BY NonEmptyGrows
<1>2. CASE part = <<>>
  BY <1>1, <1>2 DEF Build, AppendPart
<1>3. CASE part # <<>>
  <2>1. \A x \in Seq(Chars) : quote(x) \in Seq(Chars)
    <3>1. <<Quote>> \in Seq(Chars)
      BY Characters
    <3>2. ASSUME NEW x \in Seq(Chars) PROVE quote(x) \in Seq(Chars)
      <4>1. Doubled(x) \in Seq(Chars)
        <5>1. <<>> \in Seq(Chars)
          OBVIOUS
        <5>. QED  BY <5>1, Beginnings, ReadsQuoted
      <4>2. <<Quote>> \o Doubled(x) \in Seq(Chars)
        BY <3>1, <4>1, ConcatProperties
      <4>3. <<Quote>> \o Doubled(x) \o <<Quote>> \in Seq(Chars)
        BY <3>1, <4>2, ConcatProperties
      <4>. QED  BY <4>3 DEF quote
    <3>. QED  BY <3>2
  <2>2. qs \in Seq(Seq(Chars)) /\ Len(qs) = Len(kept) /\ Len(kept) \in Nat
    <3>1. \A i \in 1..Len(kept) : quote(kept[i]) \in Seq(Chars)
      BY <1>1, <2>1
    <3>. DEFINE S == Seq(Chars)
    <3>. HIDE DEF S, kept
    <3>2. kept \in Seq(S) /\ \A i \in 1..Len(kept) : quote(kept[i]) \in S
      BY <1>1, <3>1 DEF S
    <3>3. qs \in Seq(S) /\ Len(qs) = Len(kept) /\ Len(kept) \in Nat
      BY <3>2 DEF Quoted
    <3>. QED  BY <3>3 DEF S
  <2>3. Quoted(Append(kept, part)) = Append(qs, q)
    <3>. DEFINE S == Seq(Chars)
    <3>1. kept \in Seq(S) /\ part \in S /\ qs \in Seq(S) /\ q \in S
      BY <1>1, <2>1, <2>2
    <3>. HIDE DEF S, kept
    <3>2. /\ Len(Append(kept, part)) = Len(kept) + 1 /\ Len(kept) \in Nat
          /\ \A i \in 1..Len(kept) : Append(kept, part)[i] = kept[i]
          /\ Append(kept, part)[Len(kept) + 1] = part
      BY <3>1, AppendProperties
    <3>3. Quoted(Append(kept, part)) = [i \in 1..(Len(kept) + 1) |->
                                          IF i <= Len(kept) THEN quote(kept[i]) ELSE quote(part)]
      BY <3>2 DEF Quoted
    <3>4. Append(qs, q) = [i \in 1..(Len(kept) + 1) |->
                             IF i <= Len(kept) THEN quote(kept[i]) ELSE quote(part)]
      BY <3>2 DEF Quoted
    <3>. QED  BY <3>3, <3>4
  <2>4. Build(Append(ps, part)) = IF qs = <<>> THEN q ELSE Join(qs) \o <<Dot>> \o q
    <3>1. Build(Append(ps, part)) = Join(Append(qs, q))
      BY <1>1, <1>3, <2>3 DEF Build
    <3>2. q \in Seq(Chars)
      BY <2>1
    <3>. HIDE DEF qs, q
    <3>3. Join(Append(qs, q)) = IF qs = <<>> THEN q ELSE Join(qs) \o <<Dot>> \o q
      BY <2>2, <3>2, JoinGrows
    <3>. QED  BY <3>1, <3>3
  <2>5. qs = <<>> <=> Build(ps) = <<>>
    <3>1. Build(ps) = <<>> <=> kept = <<>>
      BY DEF Readable
    <3>2. qs = <<>> <=> kept = <<>>
      <4>. HIDE DEF kept, qs
      <4>. QED  BY <1>1, <2>2
    <3>. QED  BY <3>1, <3>2
  <2>6. Build(ps) = Join(qs)
    BY DEF Build
  <2>. HIDE DEF qs, q
  <2>. QED  BY <1>3, <2>4, <2>5, <2>6 DEF AppendPart, q
<1>. QED  BY <1>2, <1>3

(* The name built of the parts so far, and they can be read from it. *)
NameInv ==
  /\ parts \in Seq(Seq(Chars))
  /\ fqn = Build(parts)
  /\ Readable(fqn, NonEmpty(parts))

(* The name of no parts at all is empty, and readable. *)
LEMMA NothingNamed == Build(<<>>) = <<>> /\ Readable(Build(<<>>), NonEmpty(<<>>))
<1>1. Quoted(<<>>) = <<>>
  BY DEF Quoted
<1>2. Build(<<>>) = <<>>
  BY <1>1, Beginnings DEF Build
<1>3. <<>> \in Seq(Chars) /\ <<>> \in Seq(Seq(Chars))
  OBVIOUS
<1>. QED  BY <1>2, <1>3, Beginnings DEF Readable

(* A step that appends a part to the name keeps NameInv. *)
LEMMA OneMore ==
  ASSUME NameInv, NEW part \in Seq(Chars),
         parts' = Append(parts, part), fqn' = AppendPart(fqn, part)
  PROVE  NameInv'
<1>1. parts' \in Seq(Seq(Chars))
  <2>. DEFINE S == Seq(Chars)
  <2>1. parts \in Seq(S) /\ part \in S
    BY DEF NameInv
  <2>. HIDE DEF S
  <2>2. parts' \in Seq(S)
    BY <2>1
  <2>. QED  BY <2>2 DEF S
<1>2. fqn' = Build(parts')
  BY BuildGrows DEF NameInv
<1>3. Readable(fqn', NonEmpty(parts'))
  <2>1. NonEmpty(parts') = IF part = <<>> THEN NonEmpty(parts) ELSE Append(NonEmpty(parts), part)
    BY NonEmptyGrows DEF NameInv
  <2>2. Readable(AppendPart(fqn, part),
                 IF part = <<>> THEN NonEmpty(parts) ELSE Append(NonEmpty(parts), part))
    BY AppendedIsReadable DEF NameInv
  <2>. QED  BY <2>1, <2>2
<1>. QED  BY <1>1, <1>2, <1>3 DEF NameInv

(* The name of every entity is built of its parts, and readable. *)
THEOREM NameInvariance == Spec => []NameInv
<1>1. Init => NameInv
  <2>1. <<>> \in Seq(Seq(Chars))
    OBVIOUS
  <2>. QED  BY <2>1, NothingNamed DEF Init, NameInv
<1>2. NameInv /\ [Next]_<<parts, fqn>> => NameInv'
  <2>. SUFFICES ASSUME NameInv, [Next]_<<parts, fqn>> PROVE NameInv'
    OBVIOUS
  <2>1. ASSUME NEW part \in Parts, Service(part) PROVE NameInv'
    <3>1. part \in Seq(Chars)
      BY Characters
    <3>2. parts = <<>> /\ fqn = Build(<<>>) /\ Readable(fqn, NonEmpty(<<>>))
      BY <2>1 DEF Service, NameInv
    <3>3. <<part>> = Append(parts, part)
      BY <3>2
    <3>4. Build(Append(parts, part)) = AppendPart(fqn, part)
      BY <3>1, <3>2, BuildGrows DEF NameInv
    <3>5. parts' = Append(parts, part) /\ fqn' = AppendPart(fqn, part)
      BY <2>1, <3>3, <3>4 DEF Service
    <3>. QED  BY <3>1, <3>5, OneMore
  <2>2. ASSUME NEW part \in Parts, Child(part) PROVE NameInv'
    <3>1. part \in Seq(Chars)
      BY Characters
    <3>. QED  BY <2>2, <3>1, OneMore DEF Child
  <2>3. CASE UNCHANGED <<parts, fqn>>
    BY <2>3 DEF NameInv
  <2>. QED  BY <2>1, <2>2, <2>3 DEF Next
<1>. QED  BY <1>1, <1>2, PTL DEF Spec

(* Names that grow level by level are those that Build makes at once. *)
THEOREM NamesGrow == Spec => []AppendIsBuild
<1>1. NameInv => AppendIsBuild
  BY DEF NameInv, AppendIsBuild
<1>. QED  BY <1>1, NameInvariance, PTL

(* Whatever dots and quotes there are in the parts of a name, of any       *)
(* length, they can be read back, so that no two entities share a name.    *)
THEOREM NamesAreUnambiguous == Spec => []Unambiguous
<1>1. NameInv => Unambiguous
  <2>. SUFFICES ASSUME NameInv PROVE Read(fqn) = NonEmpty(parts)
    BY DEF Unambiguous
  <2>. QED  BY DEF NameInv, Readable, Read, Reading
<1>. QED  BY <1>1, NameInvariance, PTL

(* Whatever Build is called with, the name can be read. *)
LEMMA BuiltIsReadable ==
  ASSUME NEW ps \in Seq(Seq(Chars))
  PROVE  Readable(Build(ps), NonEmpty(ps))
<1>. DEFINE S == Seq(Chars)
            Good(qs) == Readable(Build(qs), NonEmpty(qs))
            A == {n \in Nat : n <= Len(ps) => Good(UpTo(ps, n))}
<1>1. ps \in Seq(S) /\ Len(ps) \in Nat
  OBVIOUS
<1>2. UpTo(ps, 0) = <<>> /\ UpTo(ps, Len(ps)) = ps
  BY <1>1, BeginningIs
<1>3. 0 \in A
  BY <1>2, NothingNamed
<1>4. ASSUME NEW n \in Nat, n \in A, n + 1 <= Len(ps) PROVE Good(UpTo(ps, n + 1))
  <2>. DEFINE qs == UpTo(ps, n)
              part == ps[n + 1]
  <2>1. qs \in Seq(S) /\ part \in S /\ UpTo(ps, n + 1) = Append(qs, part)
    <3>. HIDE DEF S
    <3>. QED  BY <1>1, <1>4, BeginningIs
  <2>2. Good(qs)
    BY <1>4
  <2>. HIDE DEF qs, part
  <2>3. Build(Append(qs, part)) = AppendPart(Build(qs), part)
    BY <2>1, <2>2, BuildGrows
  <2>4. NonEmpty(Append(qs, part))
          = IF part = <<>> THEN NonEmpty(qs) ELSE Append(NonEmpty(qs), part)
    BY <2>1, NonEmptyGrows
  <2>5. Readable(AppendPart(Build(qs), part),
                 IF part = <<>> THEN NonEmpty(qs) ELSE Append(NonEmpty(qs), part))
    BY <2>1, <2>2, AppendedIsReadable
  <2>. QED  BY <2>1, <2>3, <2>4, <2>5
<1>5. Len(ps) \in A
  <2>1. \A n \in Nat : n \in A => n + 1 \in A
    <3>. HIDE DEF Good
    <3>. QED  BY <1>1, <1>4
  <2>. HIDE DEF A
  <2>. QED  BY <1>1, <1>3, <2>1, Induction
<1>. QED  BY <1>2, <1>5

(* No two lists of parts are built into the same name, unless they differ  *)
(* in nothing but empty parts.                                             *)
THEOREM NamesDiffer ==
  ASSUME NEW ps \in Seq(Seq(Chars)), NEW qs \in Seq(Seq(Chars))
  PROVE  Build(ps) = Build(qs) => NonEmpty(ps) = NonEmpty(qs)
<1>1. \A s, kept : Readable(s, kept) => kept = Read(s)
  BY DEF Readable, Read, Reading
<1>2. Readable(Build(ps), NonEmpty(ps)) /\ Readable(Build(qs), NonEmpty(qs))
  BY BuiltIsReadable
<1>. QED  BY <1>1, <1>2, Zenon
=============================================================================
