-------------------------- MODULE VersionGateProofs --------------------------
(***************************************************************************)
(* VersionGateExact, for texts of any length: the gate of the worker lets  *)
(* exactly the decimal texts of 1 to MaxU32 pass.                          *)
(*                                                                         *)
(* Both directions are inductions: over the number, that its text is read  *)
(* back as the number, and over the text, that the text of what its first  *)
(* digits come to is those digits.  Induction is stated as a least         *)
(* element (LeastNumber), and that the two recursions of the model have a  *)
(* solution is an instance of Recursion.                                   *)
(***************************************************************************)
EXTENDS ManagedWorker, SequenceTheorems, WellFoundedInduction, TLAPS

\* A set of natural numbers has a least element.
LEMMA LeastNumber ==
  ASSUME NEW T \in SUBSET Nat, T # {}
  PROVE  \E n \in T : \A m \in Nat : m < n => m \notin T
  <1>1. PICK n \in T : \A m \in T : ~ (<<m, n>> \in OpToRel(<, Nat))
    BY WFMin, NatLessThanWellFounded
  <1>2. \A m \in Nat : m < n => <<m, n>> \in OpToRel(<, Nat)
    BY <1>1 DEF OpToRel
  <1> QED BY <1>1, <1>2

\* Induction, for a set: each number is reached from zero.
LEMMA Inductive ==
  ASSUME NEW S, 0 \in S, \A n \in Nat : n \in S => n + 1 \in S
  PROVE  Nat \subseteq S
  <1> SUFFICES ASSUME Nat \ S # {} PROVE FALSE
    OBVIOUS
  <1>1. PICK n \in Nat \ S : \A m \in Nat : m < n => m \notin Nat \ S
    BY LeastNumber
  <1>2. n # 0 /\ n \in Nat
    BY <1>1
  <1>3. n - 1 \in Nat /\ n - 1 < n /\ (n - 1) + 1 = n
    BY <1>2
  <1> QED BY <1>1, <1>3

\* What a function on the numbers is at n is a step from what it is below n.
Recursive(S, step) ==
  /\ step \in [Nat -> [[Nat -> S] -> S]]
  /\ \A n \in Nat : \A f, g \in [Nat -> S] :
       (\A m \in Nat : m < n => f[m] = g[m]) => step[n][f] = step[n][g]
Solves(f, S, step) == f \in [Nat -> S] /\ \A n \in Nat : f[n] = step[n][f]

\* A recursion has a solution.
LEMMA Recursion ==
  ASSUME NEW S, NEW start \in S, NEW step, Recursive(S, step)
  PROVE  \E f : Solves(f, S, step)
  <1>0. /\ step \in [Nat -> [[Nat -> S] -> S]]
        /\ \A n \in Nat : \A f, g \in [Nat -> S] :
             (\A m \in Nat : m < n => f[m] = g[m]) => step[n][f] = step[n][g]
    BY DEF Recursive
  <1> DEFINE Good(f, n) == f \in [Nat -> S] /\ \A m \in 0 .. n : f[m] = step[m][f]
  <1>1. \A n \in Nat : \E f : Good(f, n)
    <2> DEFINE G == {n \in Nat : \E f : Good(f, n)}
    <2>1. 0 \in G
      <3> DEFINE base == [m \in Nat |-> start]
                 f == [m \in Nat |-> step[0][base]]
      <3>1. base \in [Nat -> S] /\ step[0][base] \in S
        BY <1>0
      <3>2. f \in [Nat -> S]
        BY <3>1
      <3>3. step[0][f] = step[0][base]
        <4> HIDE DEF f, base
        <4>1. \A m \in Nat : ~ (m < 0)
          OBVIOUS
        <4> QED BY <1>0, <3>1, <3>2, <4>1
      <3>4. f[0] = step[0][f] /\ \A m \in 0 .. 0 : m = 0
        BY <3>3
      <3> HIDE DEF f
      <3>5. Good(f, 0)
        BY <3>2, <3>4
      <3> QED BY <3>5
    <2>2. ASSUME NEW n \in Nat, n \in G PROVE n + 1 \in G
      <3>1. PICK f : Good(f, n)
        BY <2>2
      <3>2. step[n + 1][f] \in S
        BY <1>0, <3>1
      <3> DEFINE g == [f EXCEPT ![n + 1] = step[n + 1][f]]
      <3>3. g \in [Nat -> S] /\ g[n + 1] = step[n + 1][f]
            /\ \A m \in 0 .. n : g[m] = f[m]
        <4>1. f \in [Nat -> S] /\ n + 1 \in Nat
          BY <3>1
        <4>2. g \in [Nat -> S] /\ g[n + 1] = step[n + 1][f]
              /\ \A m \in Nat : m # n + 1 => g[m] = f[m]
          BY <3>2, <4>1
        <4> HIDE DEF g, Good
        <4>3. \A m \in 0 .. n : m \in Nat /\ m # n + 1
          OBVIOUS
        <4> QED BY <4>2, <4>3
      <3> HIDE DEF g
      <3>4. ASSUME NEW m \in 0 .. n + 1 PROVE g[m] = step[m][g]
        <4>1. step[m][f] = step[m][g]
          <5>1. \A k \in Nat : k < m => k \in 0 .. n
            OBVIOUS
          <5>2. \A k \in Nat : k < m => f[k] = g[k]
            <6> HIDE DEF Good, G
            <6> QED BY <3>3, <5>1
          <5>3. m \in Nat /\ f \in [Nat -> S] /\ g \in [Nat -> S]
            BY <3>1, <3>3
          <5> HIDE DEF Good, G
          <5> QED BY <1>0, <5>2, <5>3
        <4>2. CASE m = n + 1
          BY <3>3, <4>1, <4>2
        <4>3. CASE m # n + 1
          <5>1. m \in 0 .. n
            BY <4>3
          <5> QED BY <3>1, <3>3, <4>1, <5>1
        <4> QED BY <4>2, <4>3
      <3>5. Good(g, n + 1)
        BY <3>3, <3>4
      <3> HIDE DEF Good
      <3> QED BY <3>5
    <2> HIDE DEF G, Good
    <2>3. Nat \subseteq G
      BY <2>1, <2>2, Inductive
    <2> QED BY <2>3 DEF G
  <1>2. ASSUME NEW n \in Nat, NEW f, NEW g, Good(f, n), Good(g, n)
        PROVE  f[n] = g[n]
    <2> DEFINE T == {m \in 0 .. n : f[m] # g[m]}
    <2> SUFFICES ASSUME T # {} PROVE FALSE
      BY <1>2
    <2>1. T \in SUBSET Nat
      OBVIOUS
    <2>2. PICK m \in T : \A k \in Nat : k < m => k \notin T
      <3> HIDE DEF T, Good
      <3> QED BY <2>1, LeastNumber
    <2>3. \A k \in Nat : k < m => f[k] = g[k]
      BY <2>2
    <2>4. m \in Nat /\ f \in [Nat -> S] /\ g \in [Nat -> S]
          /\ f[m] = step[m][f] /\ g[m] = step[m][g] /\ f[m] # g[m]
      BY <1>2, <2>2
    <2>5. step[m][f] = step[m][g]
      <3> HIDE DEF T, Good
      <3> QED BY <1>0, <2>3, <2>4
    <2> QED BY <2>4, <2>5
  <1> DEFINE H(n) == CHOOSE f : Good(f, n)
             F == [n \in Nat |-> H(n)[n]]
  <1>3. \A n \in Nat : Good(H(n), n)
    <2> HIDE DEF Good
    <2> QED BY <1>1
  <1>4. \A n \in Nat : \A m \in Nat : m < n => Good(H(n), m)
    <2> SUFFICES ASSUME NEW n \in Nat, NEW m \in Nat, m < n PROVE Good(H(n), m)
      OBVIOUS
    <2>1. Good(H(n), n)
      BY <1>3
    <2> HIDE DEF H
    <2> QED BY <2>1
  <1>5. \A n \in Nat : H(n) \in [Nat -> S] /\ H(n)[n] = step[n][H(n)]
    <2> SUFFICES ASSUME NEW n \in Nat
                 PROVE  H(n) \in [Nat -> S] /\ H(n)[n] = step[n][H(n)]
      OBVIOUS
    <2>1. Good(H(n), n)
      BY <1>3
    <2> HIDE DEF H
    <2> QED BY <2>1
  <1>6. \A n \in Nat : \A m \in Nat : m < n => H(n)[m] = H(m)[m]
    <2> HIDE DEF Good, H
    <2> QED BY <1>2, <1>3, <1>4
  <1> HIDE DEF Good, H
  <1>7. F \in [Nat -> S]
    BY <1>5
  <1>8. \A n \in Nat : F[n] = H(n)[n]
    OBVIOUS
  <1> HIDE DEF F
  <1>9. ASSUME NEW n \in Nat PROVE F[n] = step[n][F]
    <2>1. \A m \in Nat : m < n => F[m] = H(n)[m]
      BY <1>6, <1>8
    <2>2. step[n][F] = step[n][H(n)]
      BY <1>0, <1>5, <1>7, <2>1
    <2> QED BY <1>5, <1>8, <2>2
  <1> QED BY <1>7, <1>9 DEF Solves

-----------------------------------------------------------------------------
(* The two recursions of the model.                                        *)

LEMMA DecimalUnfold ==
  \A n \in Nat : Decimal[n] = IF n < 10 THEN <<n>> ELSE Append(Decimal[n \div 10], n % 10)
  <1> DEFINE S == Seq(Nat)
             step == [n \in Nat |-> [f \in [Nat -> S] |->
                        IF n < 10 THEN <<n>> ELSE Append(f[n \div 10], n % 10)]]
  <1>1. \A n \in Nat : n \div 10 \in Nat /\ n % 10 \in Nat /\ (~ n < 10 => n \div 10 < n)
    BY SMT
  <1>2. step \in [Nat -> [[Nat -> S] -> S]]
    <2> SUFFICES ASSUME NEW n \in Nat, NEW f \in [Nat -> S]
                 PROVE  (IF n < 10 THEN <<n>> ELSE Append(f[n \div 10], n % 10)) \in S
      OBVIOUS
    <2>1. f[n \div 10] \in S /\ n % 10 \in Nat
      BY <1>1
    <2> QED BY <2>1
  <1>3. ASSUME NEW n \in Nat, NEW f \in [Nat -> S], NEW g \in [Nat -> S],
               \A m \in Nat : m < n => f[m] = g[m]
        PROVE  step[n][f] = step[n][g]
    BY <1>1, <1>3
  <1>4. <<>> \in S
    OBVIOUS
  <1>5. PICK f \in [Nat -> S] : \A n \in Nat : f[n] = step[n][f]
    <2> HIDE DEF step, S
    <2>1. Recursive(S, step)
      BY <1>2, <1>3 DEF Recursive
    <2>2. \E f : Solves(f, S, step)
      BY <1>4, <2>1, Recursion
    <2> QED BY <2>2 DEF Solves
  <1>6. f = [n \in Nat |-> IF n < 10 THEN <<n>> ELSE Append(f[n \div 10], n % 10)]
    BY <1>5
  <1>7. Decimal = [n \in Nat |-> IF n < 10 THEN <<n>> ELSE Append(Decimal[n \div 10], n % 10)]
    BY <1>6 DEF Decimal
  <1> QED BY <1>7

LEMMA ValuesUnfold ==
  ASSUME NEW digits \in Seq(Int)
  PROVE  \A n \in 0 .. Len(digits) :
           Values(digits)[n] = IF n = 0 THEN 0 ELSE 10 * Values(digits)[n - 1] + digits[n]
  <1> DEFINE step == [n \in Nat |-> [f \in [Nat -> Int] |->
                        IF n = 0 THEN 0
                        ELSE IF n > Len(digits) THEN 0
                        ELSE 10 * f[n - 1] + digits[n]]]
  <1>1. Len(digits) \in Nat /\ \A n \in 1 .. Len(digits) : digits[n] \in Int
    OBVIOUS
  <1>2. step \in [Nat -> [[Nat -> Int] -> Int]]
    <2> SUFFICES ASSUME NEW n \in Nat, NEW f \in [Nat -> Int]
                 PROVE  (IF n = 0 THEN 0 ELSE IF n > Len(digits) THEN 0
                         ELSE 10 * f[n - 1] + digits[n]) \in Int
      OBVIOUS
    <2>1. n # 0 => n - 1 \in Nat /\ f[n - 1] \in Int
      OBVIOUS
    <2>2. n # 0 /\ ~ n > Len(digits) => digits[n] \in Int
      BY <1>1
    <2> QED BY <2>1, <2>2
  <1>3. ASSUME NEW n \in Nat, NEW f \in [Nat -> Int], NEW g \in [Nat -> Int],
               \A m \in Nat : m < n => f[m] = g[m]
        PROVE  step[n][f] = step[n][g]
    <2>1. n # 0 => n - 1 \in Nat /\ n - 1 < n
      OBVIOUS
    <2> QED BY <1>3, <2>1
  <1>4. PICK f \in [Nat -> Int] : \A n \in Nat : f[n] = step[n][f]
    <2> HIDE DEF step
    <2>1. Recursive(Int, step)
      BY <1>2, <1>3 DEF Recursive
    <2>2. 0 \in Int
      OBVIOUS
    <2>3. \E f : Solves(f, Int, step)
      BY <2>1, <2>2, Recursion
    <2> QED BY <2>3 DEF Solves
  <1> DEFINE g == [n \in 0 .. Len(digits) |-> f[n]]
  <1>5. ASSUME NEW n \in 0 .. Len(digits)
        PROVE  g[n] = IF n = 0 THEN 0 ELSE 10 * g[n - 1] + digits[n]
    <2>1. n \in Nat /\ ~ n > Len(digits) /\ (n # 0 => n - 1 \in 0 .. Len(digits))
      BY <1>1
    <2>2. f[n] = IF n = 0 THEN 0 ELSE 10 * f[n - 1] + digits[n]
      BY <1>4, <2>1
    <2> QED BY <2>1, <2>2
  <1>6. g = [n \in 0 .. Len(digits) |-> IF n = 0 THEN 0 ELSE 10 * g[n - 1] + digits[n]]
    BY <1>5
  <1>7. Values(digits) =
          [n \in 0 .. Len(digits) |->
             IF n = 0 THEN 0 ELSE 10 * Values(digits)[n - 1] + digits[n]]
    <2> HIDE DEF g
    <2> QED BY <1>6 DEF Values
  <1> QED BY <1>7

LEMMA ValuesStep ==
  ASSUME NEW digits \in Seq(Int)
  PROVE  /\ Len(digits) \in Nat
         /\ Values(digits)[0] = 0
         /\ \A n \in 1 .. Len(digits) :
              /\ digits[n] \in Int /\ n - 1 \in 0 .. Len(digits)
              /\ Values(digits)[n] = 10 * Values(digits)[n - 1] + digits[n]
         /\ \A n \in 0 .. Len(digits) : Values(digits)[n] \in Int
  <1> DEFINE V == Values(digits)
             L == Len(digits)
  <1>1. L \in Nat /\ \A n \in 1 .. L : digits[n] \in Int
    OBVIOUS
  <1>2. /\ V[0] = 0
        /\ \A n \in 1 .. L : n - 1 \in 0 .. L /\ V[n] = 10 * V[n - 1] + digits[n]
    <2>1. \A n \in 0 .. L : V[n] = IF n = 0 THEN 0 ELSE 10 * V[n - 1] + digits[n]
      BY ValuesUnfold
    <2> HIDE DEF V, L
    <2>2. 0 \in 0 .. L /\ \A n \in 1 .. L : n \in 0 .. L /\ n # 0 /\ n - 1 \in 0 .. L
      BY <1>1
    <2> QED BY <2>1, <2>2
  <1> HIDE DEF V, L
  <1> DEFINE S == {n \in Nat : n <= L => V[n] \in Int}
  <1>3. 0 \in S
    BY <1>2
  <1>4. ASSUME NEW n \in Nat, n \in S PROVE n + 1 \in S
    <2> SUFFICES ASSUME n + 1 <= L PROVE V[n + 1] \in Int
      OBVIOUS
    <2>1. n + 1 \in 1 .. L /\ (n + 1) - 1 = n /\ V[n] \in Int
      BY <1>1, <1>4
    <2>2. V[n + 1] = 10 * V[n] + digits[n + 1] /\ digits[n + 1] \in Int
      BY <1>1, <1>2, <2>1
    <2> QED BY <2>1, <2>2
  <1> HIDE DEF S
  <1>5. Nat \subseteq S
    BY <1>3, <1>4, Inductive
  <1>6. \A n \in 0 .. L : V[n] \in Int
    BY <1>5 DEF S
  <1> QED BY <1>1, <1>2, <1>6 DEF V, L

\* One digit more.
LEMMA NumeralAppend ==
  ASSUME NEW digits \in Seq(Int), NEW digit \in Int
  PROVE  /\ Numeral(Append(digits, digit)) = 10 * Numeral(digits) + digit
         /\ Numeral(digits) \in Int
  <1> DEFINE more == Append(digits, digit)
             V == Values(digits)
             W == Values(more)
             L == Len(digits)
  <1>1. /\ more \in Seq(Int) /\ L \in Nat /\ Len(more) = L + 1
        /\ more[L + 1] = digit /\ \A n \in 1 .. L : more[n] = digits[n]
    OBVIOUS
  <1> HIDE DEF more
  <1>2. /\ V[0] = 0 /\ \A n \in 1 .. L : V[n] = 10 * V[n - 1] + digits[n]
        /\ \A n \in 0 .. L : V[n] \in Int
    BY ValuesStep
  <1>3. W[0] = 0 /\ \A n \in 1 .. L + 1 : W[n] = 10 * W[n - 1] + more[n]
    BY <1>1, ValuesStep
  <1> HIDE DEF V, W, L
  <1> DEFINE S == {n \in Nat : n <= L => W[n] = V[n]}
  <1>4. 0 \in S
    BY <1>2, <1>3
  <1>5. ASSUME NEW n \in Nat, n \in S PROVE n + 1 \in S
    <2> SUFFICES ASSUME n + 1 <= L PROVE W[n + 1] = V[n + 1]
      OBVIOUS
    <2>1. n + 1 \in 1 .. L /\ n + 1 \in 1 .. L + 1 /\ (n + 1) - 1 = n /\ W[n] = V[n]
      BY <1>1, <1>5
    <2>2. W[n + 1] = 10 * W[n] + more[n + 1] /\ V[n + 1] = 10 * V[n] + digits[n + 1]
      BY <1>2, <1>3, <2>1
    <2> QED BY <1>1, <2>1, <2>2
  <1> HIDE DEF S
  <1>6. L \in S
    BY <1>1, <1>4, <1>5, Inductive
  <1>7. W[L] = V[L]
    BY <1>1, <1>6 DEF S
  <1>8. L + 1 \in 1 .. L + 1 /\ (L + 1) - 1 = L /\ L \in 0 .. L
    BY <1>1
  <1>9. W[L + 1] = 10 * V[L] + digit /\ V[L] \in Int
    BY <1>1, <1>2, <1>3, <1>7, <1>8
  <1> QED BY <1>1, <1>9 DEF Numeral, V, W, L, more

-----------------------------------------------------------------------------
(* A number is what its text comes to.                                     *)

Digits == 0 .. 9

LEMMA TextOfNumber ==
  \A n \in Nat : /\ Decimal[n] \in Seq(Digits) /\ Decimal[n] # <<>>
                 /\ Numeral(Decimal[n]) = n
                 /\ n # 0 => Decimal[n][1] # 0
  <1> DEFINE Read(n) == /\ Decimal[n] \in Seq(Digits) /\ Decimal[n] # <<>>
                        /\ Numeral(Decimal[n]) = n
                        /\ n # 0 => Decimal[n][1] # 0
             T == {n \in Nat : ~ Read(n)}
  <1> SUFFICES ASSUME T # {} PROVE FALSE
    OBVIOUS
  <1>1. PICK n \in T : \A m \in Nat : m < n => m \notin T
    <2>1. T \in SUBSET Nat
      OBVIOUS
    <2> HIDE DEF T
    <2> QED BY <2>1, LeastNumber
  <1>2. n \in Nat /\ ~ Read(n) /\ \A m \in Nat : m < n => Read(m)
    BY <1>1
  <1> HIDE DEF T
  <1>3. CASE n < 10
    <2>1. Decimal[n] = <<n>> /\ n \in Digits
      <3>1. Decimal[n] = <<n>>
        BY <1>2, <1>3, DecimalUnfold
      <3> HIDE DEF Read
      <3> QED BY <1>2, <1>3, <3>1 DEF Digits
    <2>2. Decimal[n] = Append(<<>>, n) /\ <<>> \in Seq(Int) /\ n \in Int
      BY <2>1 DEF Digits
    <2>3. Numeral(<<>>) = 0
      <3>1. Values(<<>>)[0] = 0
        BY <2>2, ValuesStep
      <3>2. Len(<<>>) = 0
        OBVIOUS
      <3> QED BY <3>1, <3>2 DEF Numeral
    <2>4. Numeral(Decimal[n]) = n
      <3>1. Numeral(Append(<<>>, n)) = 10 * Numeral(<<>>) + n
        BY <2>2, NumeralAppend
      <3> HIDE DEF Read
      <3> QED BY <1>2, <2>2, <2>3, <3>1
    <2> QED BY <1>2, <2>1, <2>4
  <1>4. CASE ~ n < 10
    <2> DEFINE a == n \div 10
               d == n % 10
    <2>1. a \in Nat /\ a < n /\ a # 0 /\ d \in Digits /\ n = 10 * a + d
      BY <1>2, <1>4, SMT DEF Digits
    <2>2. Decimal[n] = Append(Decimal[a], d)
      BY <1>2, <1>4, DecimalUnfold
    <2> HIDE DEF a, d
    <2>3. Read(a)
      BY <1>2, <2>1
    <2>4. PICK text \in Seq(Digits) :
            text = Decimal[a] /\ text # <<>> /\ Numeral(text) = a /\ text[1] # 0
      BY <2>1, <2>3
    <2>5. text \in Seq(Int) /\ d \in Int
      BY <2>1 DEF Digits
    <2>6. Numeral(Append(text, d)) = n
      BY <2>1, <2>4, <2>5, NumeralAppend
    <2>7. /\ Append(text, d) \in Seq(Digits) /\ Append(text, d) # <<>>
          /\ Append(text, d)[1] = text[1]
      BY <2>1, <2>4
    <2> QED BY <1>2, <2>2, <2>4, <2>6, <2>7
  <1> QED BY <1>3, <1>4

\* What a text without leading zeros comes to has that text.
LEMMA NumberOfText ==
  ASSUME NEW text \in Seq(Digits), text # <<>>, text[1] # 0
  PROVE  Numeral(text) \in Nat /\ Decimal[Numeral(text)] = text
  <1> DEFINE V == Values(text)
             L == Len(text)
             Read(k) == V[k] \in Nat \ {0} /\ Decimal[V[k]] = SubSeq(text, 1, k)
             S == {k \in Nat : k + 1 <= L => Read(k + 1)}
  <1>1. text \in Seq(Int) /\ L \in Nat /\ L # 0 /\ \A n \in 1 .. L : text[n] \in Digits
    BY DEF Digits
  <1>2. V[0] = 0 /\ \A n \in 1 .. L : V[n] = 10 * V[n - 1] + text[n]
    BY <1>1, ValuesStep
  <1> HIDE DEF V, L
  <1>3. 0 \in S
    <2>1. 1 \in 1 .. L
      BY <1>1
    <2>2. V[1] = text[1] /\ text[1] \in Digits /\ text[1] # 0
      BY <1>1, <1>2, <2>1 DEF Digits
    <2>3. V[1] \in Nat \ {0} /\ V[1] < 10
      BY <2>2 DEF Digits
    <2>4. Decimal[V[1]] = <<text[1]>>
      BY <2>2, <2>3, DecimalUnfold
    <2>5. SubSeq(text, 1, 1) = <<text[1]>>
      <3> DEFINE front == SubSeq(text, 1, 1)
      <3>1. 1 \in 1 .. Len(text)
        BY <2>1 DEF L
      <3>2. front \in Seq(Digits) /\ Len(front) = 1 /\ front[1] = text[1]
        BY <3>1, SubSeqProperties
      <3> HIDE DEF front
      <3>3. front = <<text[1]>>
        BY <3>2
      <3> QED BY <3>3 DEF front
    <2> QED BY <2>3, <2>4, <2>5
  <1>4. ASSUME NEW k \in Nat, k \in S PROVE k + 1 \in S
    <2> SUFFICES ASSUME (k + 1) + 1 <= L PROVE Read((k + 1) + 1)
      OBVIOUS
    <2> DEFINE m == k + 1
               d == text[m + 1]
    <2>1. m \in 1 .. L /\ m + 1 \in 1 .. L /\ (m + 1) - 1 = m
      BY <1>1
    <2>2. Read(m)
      BY <1>1, <1>4
    <2>3. d \in Digits
      BY <1>1, <2>1
    <2>4. V[m + 1] = 10 * V[m] + d
      BY <1>2, <2>1
    <2> HIDE DEF m, d
    <2>5. PICK a \in Nat \ {0} : a = V[m] /\ Decimal[a] = SubSeq(text, 1, m)
      BY <2>2
    <2>6. /\ V[m + 1] \in Nat \ {0} /\ ~ V[m + 1] < 10
          /\ V[m + 1] \div 10 = a /\ V[m + 1] % 10 = d
      <3>1. d \in 0 .. 9 /\ a \in Nat \ {0}
        BY <2>3, <2>5 DEF Digits
      <3>2. V[m + 1] = 10 * a + d
        BY <2>4, <2>5
      <3> HIDE DEF S, Read
      <3>3. \A x \in Nat \ {0}, y \in 0 .. 9 :
              /\ 10 * x + y \in Nat \ {0} /\ ~ 10 * x + y < 10
              /\ (10 * x + y) \div 10 = x /\ (10 * x + y) % 10 = y
        BY SMT
      <3> QED BY <3>1, <3>2, <3>3
    <2>7. Decimal[V[m + 1]] = Append(Decimal[a], d)
      BY <2>6, DecimalUnfold
    <2>8. SubSeq(text, 1, m + 1) = Append(SubSeq(text, 1, m), text[m + 1])
      BY <2>1 DEF L
    <2> QED BY <2>5, <2>6, <2>7, <2>8 DEF d, m
  <1>5. L - 1 \in S
    <2> HIDE DEF S
    <2>1. L - 1 \in Nat
      BY <1>1
    <2> QED BY <1>3, <1>4, <2>1, Inductive
  <1>6. Read(L)
    BY <1>1, <1>5
  <1>7. SubSeq(text, 1, L) = text
    BY DEF L
  <1> QED BY <1>6, <1>7 DEF Numeral, V, L

-----------------------------------------------------------------------------
\* The gate behind the prefix, for a text of any length.
THEOREM GatePassesNumbers ==
  \A text \in Seq(Int) :
    Compatible([prefix |-> "1.0.0-rc.", rest |-> text]) <=> text \in CandidateNumbers
  <1> SUFFICES ASSUME NEW text \in Seq(Int)
               PROVE  Compatible([prefix |-> "1.0.0-rc.", rest |-> text])
                        <=> text \in CandidateNumbers
    OBVIOUS
  <1>1. Compatible([prefix |-> "1.0.0-rc.", rest |-> text]) <=>
          /\ text # <<>>
          /\ \A i \in DOMAIN text : text[i] \in 0 .. 9
          /\ ~(text[1] = 0 /\ Len(text) > 1)
          /\ Numeral(text) \in 1 .. MaxU32
    BY VersionAssumption DEF Compatible
  <1>2. ASSUME text \in CandidateNumbers
        PROVE  Compatible([prefix |-> "1.0.0-rc.", rest |-> text])
    <2>1. PICK n \in 1 .. MaxU32 : text = Decimal[n]
      BY <1>2 DEF CandidateNumbers
    <2>2. n \in Nat /\ n # 0
      BY VersionAssumption
    <2>3. text \in Seq(Digits) /\ text # <<>> /\ Numeral(text) = n /\ text[1] # 0
      BY <2>1, <2>2, TextOfNumber
    <2> QED BY <1>1, <2>3 DEF Digits
  <1>3. ASSUME Compatible([prefix |-> "1.0.0-rc.", rest |-> text])
        PROVE  text \in CandidateNumbers
    <2>1. /\ text # <<>> /\ text \in Seq(Digits)
          /\ Numeral(text) \in 1 .. MaxU32
          /\ (text[1] # 0 \/ Len(text) <= 1)
      BY <1>1, <1>3 DEF Digits
    <2>2. text[1] # 0
      <3> SUFFICES ASSUME text[1] = 0 PROVE FALSE
        OBVIOUS
      <3>1. Len(text) = 1 /\ 1 \in 1 .. Len(text)
        <4>1. PICK n \in Nat : n = Len(text)
          OBVIOUS
        <4>2. n # 0 /\ n <= 1
          BY <2>1, <4>1, EmptySeq
        <4>3. n = 1
          BY <4>2
        <4> QED BY <4>1, <4>3
      <3>2. Values(text)[1] = 10 * Values(text)[0] + text[1] /\ Values(text)[0] = 0
        <4>1. Values(text)[1] = 10 * Values(text)[1 - 1] + text[1]
          BY <3>1, ValuesStep
        <4> QED BY <4>1, ValuesStep
      <3>3. Numeral(text) = 0
        BY <3>1, <3>2 DEF Numeral
      <3> QED BY <2>1, <3>3
    <2> QED BY <2>1, <2>2, NumberOfText DEF CandidateNumbers
  <1> QED BY <1>2, <1>3

\* A worker in a cycle was let through, and its version does not change while
\* it is in the cycle.
Passed ==
  /\ world \in Worlds
  /\ process = "CYCLE" => Compatible(world.version)

LEMMA PassedStep == Passed /\ [Next]_vars => Passed'
  <1> SUFFICES ASSUME Passed, [Next]_vars PROVE Passed'
    OBVIOUS
  <1>1. CASE UNCHANGED <<process, world>>
    BY <1>1 DEF Passed
  <1>2. CASE process' # "CYCLE" /\ world' \in Worlds
    BY <1>2 DEF Passed
  <1>3. CASE BeginCycle
    BY <1>3 DEF Passed, BeginCycle
  <1>4. CASE StartProcess \/ CycleFails \/ FinishCycle \/ WaitLatch \/ Crash
    BY <1>2, <1>4 DEF Passed, StartProcess, CycleFails, FinishCycle, WaitLatch, Crash
  <1>5. CASE RestartServer
    <2>1. world' = world /\ process' # "CYCLE"
      BY <1>5 DEF RestartServer, Booted
    <2> QED BY <1>2, <2>1 DEF Passed
  <1>6. CASE Administer
    <2>1. process' # "CYCLE" /\ world' \in Worlds
      BY <1>6 DEF Passed, Administer
    <2> QED BY <1>2, <2>1
  <1>7. CASE Terminate \/ UNCHANGED vars \/ (Age /\ UNCHANGED workerVars)
    BY <1>1, <1>7 DEF Terminate, vars, workerVars
  <1>8. CASE RunInCycle \/ ClaimInCycle \/ (TryCandidate(Manager) /\ UNCHANGED workerVars)
    BY <1>1, <1>8 DEF RunInCycle, ClaimInCycle, workerVars
  <1>9. CASE \E w \in Daemons : RunPass(w) \/ Progress(w)
    BY <1>1, <1>9 DEF RunPass, Progress, AbortClaim, workerVars
  <1> QED BY <1>3, <1>4, <1>5, <1>6, <1>7, <1>8, <1>9 DEF Next, WorkerStep

\* For texts of any length and u32::MAX, the gate lets the texts of 1 to it
\* pass and no other, and a worker in a cycle is under a version that passes.
THEOREM GateIsExact == Spec => []VersionGateExact
  <1>1. Init => Passed
    BY DEF Init, Passed, Booted
  <1>2. Passed => VersionGateExact
    <2> SUFFICES ASSUME Passed PROVE VersionGateExact
      OBVIOUS
    <2>1. \A text \in Texts : Compatible([prefix |-> "1.0.0-rc.", rest |-> text])
                                <=> text \in CandidateNumbers
      BY VersionAssumption, GatePassesNumbers
    <2>2. ASSUME process = "CYCLE"
          PROVE  \/ world.version.prefix \in Listed /\ world.version.rest = <<>>
                 \/ /\ world.version.prefix = "1.0.0-rc."
                    /\ world.version.rest \in CandidateNumbers
      <3>1. Compatible(world.version) /\ world.version.rest \in Seq(Int)
        BY <2>2, VersionAssumption DEF Passed
      <3>2. CASE world.version.prefix \in Listed /\ world.version.rest = <<>>
        BY <3>2
      <3>3. CASE ~ (world.version.prefix \in Listed /\ world.version.rest = <<>>)
        <4>1. /\ world.version.prefix = "1.0.0-rc."
              /\ Compatible([prefix |-> "1.0.0-rc.", rest |-> world.version.rest])
          BY <3>1, <3>3 DEF Compatible
        <4> QED BY <3>1, <4>1, GatePassesNumbers
      <3> QED BY <3>2, <3>3
    <2> QED BY <2>1, <2>2 DEF VersionGateExact
  <1> QED BY <1>1, <1>2, PassedStep, PTL DEF Spec
=============================================================================
