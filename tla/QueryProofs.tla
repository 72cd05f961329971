----------------------------- MODULE QueryProofs ----------------------------
(***************************************************************************)
(* Query's invariants, for any Queries, texts and parameters, in a program *)
(* that is careful with its defaults and disciplined in its templates.     *)
(***************************************************************************)
EXTENDS Query, NaturalsInduction, WellFoundedInduction, TLAPS

(***************************************************************************)
(* Sequences of anything.                                                  *)
(***************************************************************************)
LEMMA SequenceFacts ==
    ASSUME NEW s, IsSequence(s)
    PROVE  Len(s) \in Nat /\ DOMAIN s = 1..Len(s)
BY DEF IsSequence

\* The empty sequence, and the only one of length 0.
LEMMA EmptySequence ==
    /\ IsSequence(<<>>) /\ Len(<<>>) = 0 /\ DOMAIN <<>> = {}
    /\ \A s : IsSequence(s) => (s = <<>> <=> Len(s) = 0)
<1>1. IsSequence(<<>>) /\ Len(<<>>) = 0 /\ DOMAIN <<>> = {}
    BY DEF IsSequence
<1>2. ASSUME NEW s, IsSequence(s) PROVE s = <<>> <=> Len(s) = 0
    BY <1>2 DEF IsSequence
<1> QED BY <1>1, <1>2

\* A function over 1..n is a sequence.
LEMMA FunctionSequence ==
    ASSUME NEW n \in Nat, NEW f, f = [i \in 1..n |-> f[i]]
    PROVE  IsSequence(f) /\ Len(f) = n
<1>1. DOMAIN f = 1..n
    OBVIOUS
<1>2. f \in [1..n -> ToSet(f)]
    BY <1>1 DEF ToSet
<1>3. f \in Seq(ToSet(f))
    BY <1>2
<1> QED BY <1>1, <1>3 DEF IsSequence

\* A sequence is the function over its positions.
LEMMA SequenceIsFunction ==
    ASSUME NEW s, IsSequence(s)
    PROVE  s = [i \in 1..Len(s) |-> s[i]]
BY DEF IsSequence

\* A sequence is one of whatever its elements belong to.
LEMMA InSequenceOf ==
    ASSUME NEW s, IsSequence(s), NEW T, \A i \in 1..Len(s) : s[i] \in T
    PROVE  s \in Seq(T)
<1>1. Len(s) \in Nat /\ s = [i \in 1..Len(s) |-> s[i]]
    BY SequenceFacts, SequenceIsFunction
<1>2. s \in [1..Len(s) -> T]
    BY <1>1
<1> QED BY <1>1, <1>2

\* What Append adds and what it leaves.
LEMMA AppendFacts ==
    ASSUME NEW s, IsSequence(s), NEW x
    PROVE  /\ IsSequence(Append(s, x)) /\ Len(Append(s, x)) = Len(s) + 1
           /\ Append(s, x)[Len(s) + 1] = x
           /\ \A i \in 1..Len(s) : Append(s, x)[i] = s[i]
<1> DEFINE T == ToSet(s) \cup {x}
<1>1. s \in Seq(T) /\ x \in T
    <2>1. \A i \in 1..Len(s) : s[i] \in T
        BY SequenceFacts DEF ToSet
    <2> HIDE DEF T
    <2>2. s \in Seq(T)
        BY <2>1, InSequenceOf
    <2> QED BY <2>2 DEF T
<1> HIDE DEF T
<1>2. PICK t \in Seq(T) : t = Append(s, x)
    <2>1. Append(s, x) \in Seq(T)
        BY <1>1
    <2> QED BY <2>1
<1>3. Len(t) = Len(s) + 1 /\ Len(t) \in Nat /\ t[Len(s) + 1] = x /\ \A i \in 1..Len(s) : t[i] = s[i]
    BY <1>1, <1>2
<1>4. t = [i \in 1..Len(t) |-> t[i]]
    OBVIOUS
<1>5. IsSequence(t)
    BY <1>3, <1>4, FunctionSequence
<1> QED BY <1>2, <1>3, <1>5

\* What a concatenation has at each position.
LEMMA ConcatFacts ==
    ASSUME NEW s, IsSequence(s), NEW t, IsSequence(t)
    PROVE  /\ IsSequence(s \o t) /\ Len(s \o t) = Len(s) + Len(t)
           /\ \A i \in 1..Len(s) : (s \o t)[i] = s[i]
           /\ \A i \in 1..Len(t) : (s \o t)[Len(s) + i] = t[i]
<1> DEFINE T == ToSet(s) \cup ToSet(t)
<1>1. s \in Seq(T) /\ t \in Seq(T)
    <2>1. (\A i \in 1..Len(s) : s[i] \in T) /\ (\A i \in 1..Len(t) : t[i] \in T)
        BY SequenceFacts DEF ToSet
    <2> HIDE DEF T
    <2> QED BY <2>1, InSequenceOf
<1> HIDE DEF T
<1>2. PICK u \in Seq(T) : u = s \o t
    <2>1. s \o t \in Seq(T)
        BY <1>1
    <2> QED BY <2>1
<1>3. PICK m \in Nat, n \in Nat : m = Len(s) /\ n = Len(t)
    BY SequenceFacts
<1>4. /\ Len(u) = m + n
      /\ \A i \in 1..m : u[i] = s[i]
      /\ \A i \in 1..n : u[m + i] = t[i]
    BY <1>1, <1>2, <1>3
<1>5. u = [i \in 1..Len(u) |-> u[i]] /\ Len(u) \in Nat
    OBVIOUS
<1>6. IsSequence(u)
    BY <1>5, FunctionSequence
<1> QED BY <1>2, <1>3, <1>4, <1>6

\* Sequences that agree at each position are the same.
LEMMA SameSequence ==
    ASSUME NEW s, IsSequence(s), NEW t, IsSequence(t), Len(s) = Len(t),
           \A i \in 1..Len(s) : s[i] = t[i]
    PROVE  s = t
<1>1. s = [i \in 1..Len(s) |-> s[i]] /\ t = [i \in 1..Len(t) |-> t[i]]
    BY SequenceIsFunction
<1> QED BY <1>1

\* Text without placeholders stays so when such text is added.
LEMMA PlainFacts ==
    ASSUME NEW s, Plain(s)
    PROVE  /\ \A t : Plain(t) => Plain(s \o t)
           /\ \A x : x.kind # "hole" => Plain(Append(s, x))
<1>1. ASSUME NEW t, Plain(t) PROVE Plain(s \o t)
    <2>1. PICK m \in Nat, n \in Nat : m = Len(s) /\ n = Len(t)
        BY <1>1, SequenceFacts DEF Plain
    <2>2. /\ IsSequence(s \o t) /\ Len(s \o t) = m + n
          /\ \A i \in 1..m : (s \o t)[i] = s[i]
          /\ \A i \in 1..n : (s \o t)[m + i] = t[i]
        BY <1>1, <2>1, ConcatFacts DEF Plain
    <2>3. /\ \A i \in 1..m : s[i].kind # "hole"
          /\ \A i \in 1..n : t[i].kind # "hole"
        BY <1>1, <2>1, SequenceFacts DEF Plain
    <2>4. ASSUME NEW i \in DOMAIN (s \o t) PROVE (s \o t)[i].kind # "hole"
        <3>1. i \in 1..(m + n)
            BY <2>2, <2>4, SequenceFacts
        <3>2. CASE i <= m
            BY <2>2, <2>3, <3>1, <3>2
        <3>3. CASE i > m
            <4>1. i - m \in 1..n /\ m + (i - m) = i
                BY <3>1, <3>3
            <4> QED BY <2>2, <2>3, <4>1
        <3> QED BY <3>1, <3>2, <3>3
    <2> QED BY <2>2, <2>4 DEF Plain
<1>2. ASSUME NEW x, x.kind # "hole" PROVE Plain(Append(s, x))
    <2>1. PICK m \in Nat : m = Len(s)
        BY SequenceFacts DEF Plain
    <2>2. /\ IsSequence(Append(s, x)) /\ Len(Append(s, x)) = m + 1
          /\ Append(s, x)[m + 1] = x
          /\ \A i \in 1..m : Append(s, x)[i] = s[i]
        BY <2>1, AppendFacts DEF Plain
    <2>3. DOMAIN Append(s, x) = 1..(m + 1) /\ DOMAIN s = 1..m
        BY <2>1, <2>2, SequenceFacts DEF Plain
    <2>4. \A i \in 1..(m + 1) : i = m + 1 \/ i \in 1..m
        OBVIOUS
    <2> QED BY <1>2, <2>2, <2>3, <2>4 DEF Plain
<1> QED BY <1>1, <1>2

\* Text written behind text is text.
LEMMA TextConcat ==
    ASSUME NEW s, IsText(s), NEW t, IsText(t)
    PROVE  IsText(s \o t)
<1>1. PICK m \in Nat, n \in Nat : m = Len(s) /\ n = Len(t)
    BY SequenceFacts DEF IsText
<1>2. /\ IsSequence(s \o t) /\ Len(s \o t) = m + n
      /\ \A i \in 1..m : (s \o t)[i] = s[i]
      /\ \A i \in 1..n : (s \o t)[m + i] = t[i]
    BY <1>1, ConcatFacts DEF IsText
<1>3. /\ \A i \in 1..m : s[i].kind = "hole" => s[i] \in Placeholders
      /\ \A i \in 1..n : t[i].kind = "hole" => t[i] \in Placeholders
    BY <1>1, SequenceFacts DEF IsText
<1>4. ASSUME NEW i \in DOMAIN (s \o t), (s \o t)[i].kind = "hole"
      PROVE  (s \o t)[i] \in Placeholders
    <2>1. i \in 1..(m + n)
        BY <1>2, <1>4, SequenceFacts
    <2>2. CASE i <= m
        BY <1>2, <1>3, <1>4, <2>1, <2>2
    <2>3. CASE i > m
        <3>1. i - m \in 1..n /\ m + (i - m) = i
            BY <2>1, <2>3
        <3> QED BY <1>2, <1>3, <1>4, <3>1
    <2> QED BY <2>1, <2>2, <2>3
<1> QED BY <1>2, <1>4 DEF IsText

\* Text without placeholders is text.
LEMMA PlainIsText == \A s : Plain(s) => IsText(s)
BY DEF Plain, IsText

\* So is the empty one.
LEMMA EmptyText == Plain(<<>>) /\ IsText(<<>>)
BY EmptySequence DEF Plain, IsText

-----------------------------------------------------------------------------
(***************************************************************************)
(* The function that Spelling is defined with exists, and there is no      *)
(* other: a least n for which either failed would have one before it.      *)
(***************************************************************************)
SpellsTo(elems, n, f) ==
    f = [i \in 0..n |-> IF i = 0 THEN <<>> ELSE f[i - 1] \o Spelled(elems[i])]
Spellable(elems, n) == \E f : SpellsTo(elems, n, f)

\* The recursion of Spelling, read at each position.
LEMMA SpellsStep ==
    ASSUME NEW elems, NEW n \in Nat, NEW f, SpellsTo(elems, n, f)
    PROVE  f[0] = <<>> /\ \A i \in 1..n : f[i] = f[i - 1] \o Spelled(elems[i])
<1>1. \A i \in 0..n : f[i] = IF i = 0 THEN <<>> ELSE f[i - 1] \o Spelled(elems[i])
    BY DEF SpellsTo
<1>2. 0 \in 0..n /\ \A i \in 1..n : i \in 0..n /\ i # 0
    OBVIOUS
<1> QED BY <1>1, <1>2

\* The function that Spelling recurs through exists: there is no least
\* number of elements at which it does not.
LEMMA SpellingExists ==
    ASSUME NEW N \in Nat, NEW elems
    PROVE  Spellable(elems, N)
<1> DEFINE Bad == {n \in 0..N : ~Spellable(elems, n)}
<1>1. SUFFICES ASSUME ~Spellable(elems, N) PROVE FALSE
    OBVIOUS
<1>2. N \in Bad /\ Bad \subseteq Nat
    BY <1>1
<1>3. PICK n \in Bad : \A m \in Bad : ~(<<m, n>> \in OpToRel(<, Nat))
    <2> HIDE DEF Bad
    <2> QED BY <1>2, NatLessThanWellFounded, WFMin
<1>4. n \in 0..N /\ ~Spellable(elems, n)
    OBVIOUS
<1>5. CASE n = 0
    <2>1. SpellsTo(elems, 0, [i \in 0..0 |-> <<>>])
        BY DEF SpellsTo
    <2> QED BY <1>4, <1>5, <2>1 DEF Spellable
<1>6. CASE n # 0
    <2>1. n - 1 \in 0..N /\ <<n - 1, n>> \in OpToRel(<, Nat)
        BY <1>4, <1>6 DEF OpToRel
    <2>2. Spellable(elems, n - 1)
        BY <1>3, <2>1
    <2>3. PICK f : SpellsTo(elems, n - 1, f)
        BY <2>2 DEF Spellable
    <2>4. PICK x : x = f[n - 1] \o Spelled(elems[n])
        OBVIOUS
    <2>5. PICK g : g = [i \in 0..n |-> IF i = n THEN x ELSE f[i]]
        OBVIOUS
    <2>6. f[0] = <<>> /\ \A i \in 1..(n - 1) : f[i] = f[i - 1] \o Spelled(elems[i])
        <3>1. PICK m \in Nat : m = n - 1
            BY <1>4, <1>6
        <3>2. SpellsTo(elems, m, f)
            BY <2>3, <3>1
        <3>3. f[0] = <<>> /\ \A i \in 1..m : f[i] = f[i - 1] \o Spelled(elems[i])
            BY <3>2, SpellsStep
        <3> QED BY <3>1, <3>3
    <2>7. ASSUME NEW i \in 0..n
          PROVE  g[i] = IF i = 0 THEN <<>> ELSE g[i - 1] \o Spelled(elems[i])
        <3>1. CASE i = n
            BY <1>4, <1>6, <2>4, <2>5, <3>1
        <3>2. CASE i # n /\ i # 0
            <4>1. g[i] = f[i] /\ g[i - 1] = f[i - 1] /\ i \in 1..(n - 1)
                BY <1>4, <2>5, <3>2
            <4> QED BY <2>6, <3>2, <4>1
        <3>3. CASE i # n /\ i = 0
            BY <2>5, <2>6, <3>3
        <3> QED BY <3>1, <3>2, <3>3
    <2>8. SpellsTo(elems, n, g)
        BY <2>5, <2>7 DEF SpellsTo
    <2> QED BY <1>4, <2>8 DEF Spellable
<1> QED BY <1>5, <1>6

\* It depends on the elements it has read only: there is no least position
\* at which two of them differ.
LEMMA SpellingUnique ==
    ASSUME NEW N \in Nat, NEW c, NEW d, NEW f, SpellsTo(c, N, f),
           NEW M \in Nat, N <= M, NEW g, SpellsTo(d, M, g),
           \A i \in 1..N : d[i] = c[i]
    PROVE  g[N] = f[N]
<1> DEFINE Bad == {n \in 0..N : g[n] # f[n]}
<1>1. SUFFICES ASSUME Bad # {} PROVE FALSE
    OBVIOUS
<1>2. PICK n \in Bad : \A m \in Bad : ~(<<m, n>> \in OpToRel(<, Nat))
    <2>1. Bad \subseteq Nat
        OBVIOUS
    <2> HIDE DEF Bad
    <2> QED BY <1>1, <2>1, NatLessThanWellFounded, WFMin
<1>3. n \in 0..N /\ g[n] # f[n]
    OBVIOUS
<1>4. /\ f[0] = <<>> /\ \A i \in 1..N : f[i] = f[i - 1] \o Spelled(c[i])
      /\ g[0] = <<>> /\ \A i \in 1..M : g[i] = g[i - 1] \o Spelled(d[i])
    BY SpellsStep
<1>5. n # 0 /\ n \in 1..N /\ n \in 1..M
    BY <1>3, <1>4
<1>6. n - 1 \in 0..N /\ <<n - 1, n>> \in OpToRel(<, Nat)
    BY <1>5 DEF OpToRel
<1>7. g[n - 1] = f[n - 1]
    BY <1>2, <1>6
<1> QED BY <1>3, <1>4, <1>5, <1>7

\* So that Spelling is the value of any such function.
LEMMA SpellingIs ==
    ASSUME NEW elems, IsSequence(elems)
    PROVE  \E f : SpellsTo(elems, Len(elems), f) /\ Spelling(elems) = f[Len(elems)]
<1> DEFINE n == Len(elems)
           upTo == CHOOSE f : SpellsTo(elems, n, f)
<1>1. SpellsTo(elems, n, upTo)
    <2>1. n \in Nat
        BY SequenceFacts
    <2>2. \E f : SpellsTo(elems, n, f)
        BY <2>1, SpellingExists DEF Spellable
    <2> QED BY <2>2
<1>2. Spelling(elems) = upTo[n]
    BY DEF Spelling, SpellsTo
<1> HIDE DEF upTo
<1> QED BY <1>1, <1>2

\* Of no elements nothing is spelled; one more adds what it stands for.
LEMMA SpellingFacts ==
    /\ Spelling(<<>>) = <<>>
    /\ \A c, x : IsSequence(c) => Spelling(Append(c, x)) = Spelling(c) \o Spelled(x)
<1>1. Spelling(<<>>) = <<>>
    <2>1. PICK f : SpellsTo(<<>>, 0, f) /\ Spelling(<<>>) = f[0]
        BY EmptySequence, SpellingIs
    <2> QED BY <2>1, SpellsStep
<1>2. ASSUME NEW c, NEW x, IsSequence(c)
      PROVE  Spelling(Append(c, x)) = Spelling(c) \o Spelled(x)
    <2>1. PICK n \in Nat : n = Len(c)
        BY <1>2, SequenceFacts
    <2>2. PICK d : d = Append(c, x)
        OBVIOUS
    <2>3. IsSequence(d) /\ Len(d) = n + 1 /\ d[n + 1] = x /\ \A i \in 1..n : d[i] = c[i]
        BY <1>2, <2>1, <2>2, AppendFacts
    <2>4. PICK f : SpellsTo(c, n, f) /\ Spelling(c) = f[n]
        BY <1>2, <2>1, SpellingIs
    <2>5. PICK g : SpellsTo(d, n + 1, g) /\ Spelling(d) = g[n + 1]
        BY <2>3, SpellingIs
    <2>6. g[n] = f[n]
        <3>1. n + 1 \in Nat /\ n <= n + 1
            OBVIOUS
        <3> QED BY <2>3, <2>4, <2>5, <3>1, SpellingUnique
    <2>7. g[n + 1] = g[n] \o Spelled(d[n + 1])
        <3>1. n + 1 \in 1..(n + 1) /\ (n + 1) - 1 = n /\ n + 1 \in Nat
            OBVIOUS
        <3>2. \A i \in 1..(n + 1) : g[i] = g[i - 1] \o Spelled(d[i])
            BY <2>5, <3>1, SpellsStep
        <3> QED BY <3>1, <3>2
    <2> QED BY <2>2, <2>3, <2>4, <2>5, <2>6, <2>7
<1> QED BY <1>1, <1>2

-----------------------------------------------------------------------------
\* Adding nothing changes nothing.
LEMMA ConcatEmpty ==
    ASSUME NEW s, IsSequence(s)
    PROVE  s \o <<>> = s
<1>1. /\ IsSequence(s \o <<>>) /\ Len(s \o <<>>) = Len(s) + 0
      /\ \A i \in 1..Len(s) : (s \o <<>>)[i] = s[i]
    BY EmptySequence, ConcatFacts
<1>2. Len(s) \in Nat
    BY SequenceFacts
<1>3. Len(s \o <<>>) = Len(s)
    BY <1>1, <1>2
<1>4. PICK t : t = s \o <<>>
    OBVIOUS
<1>5. t = s
    BY <1>1, <1>3, <1>4, SameSequence
<1> QED BY <1>4, <1>5

\* Append at the end of a concatenation.
LEMMA ConcatAppend ==
    ASSUME NEW s, IsSequence(s), NEW t, IsSequence(t), NEW x
    PROVE  s \o Append(t, x) = Append(s \o t, x)
<1>1. PICK m \in Nat, n \in Nat : m = Len(s) /\ n = Len(t)
    BY SequenceFacts
<1>2. PICK tx : tx = Append(t, x)
    OBVIOUS
<1>3. IsSequence(tx) /\ Len(tx) = n + 1 /\ tx[n + 1] = x /\ \A i \in 1..n : tx[i] = t[i]
    BY <1>1, <1>2, AppendFacts
<1>4. PICK st : st = s \o t
    OBVIOUS
<1>5. /\ IsSequence(st) /\ Len(st) = m + n
      /\ \A i \in 1..m : st[i] = s[i]
      /\ \A i \in 1..n : st[m + i] = t[i]
    BY <1>1, <1>4, ConcatFacts
<1>6. PICK a : a = s \o tx
    OBVIOUS
<1>7. /\ IsSequence(a) /\ Len(a) = m + (n + 1)
      /\ \A i \in 1..m : a[i] = s[i]
      /\ \A i \in 1..(n + 1) : a[m + i] = tx[i]
    <2>1. /\ IsSequence(a) /\ Len(a) = Len(s) + Len(tx)
          /\ \A i \in 1..Len(s) : a[i] = s[i]
          /\ \A i \in 1..Len(tx) : a[Len(s) + i] = tx[i]
        <3>1. IsSequence(tx)
            BY <1>3
        <3> QED BY <1>6, <3>1, ConcatFacts
    <2>2. Len(tx) = n + 1 /\ Len(s) = m
        BY <1>1, <1>3
    <2> QED BY <2>1, <2>2
<1>8. PICK b : b = Append(st, x)
    OBVIOUS
<1>9. /\ IsSequence(b) /\ Len(b) = (m + n) + 1 /\ b[(m + n) + 1] = x
      /\ \A i \in 1..(m + n) : b[i] = st[i]
    BY <1>5, <1>8, AppendFacts
<1>10. ASSUME NEW i \in 1..(m + n + 1) PROVE a[i] = b[i]
    <2>1. CASE i \in 1..m
        <3>1. i \in 1..(m + n)
            BY <2>1
        <3> QED BY <1>5, <1>7, <1>9, <2>1, <3>1
    <2>2. CASE i \in (m + 1)..(m + n)
        <3>1. i - m \in 1..n /\ i - m \in 1..(n + 1) /\ m + (i - m) = i /\ i \in 1..(m + n)
            BY <2>2
        <3>2. a[i] = tx[i - m] /\ st[i] = t[i - m] /\ b[i] = st[i]
            BY <1>5, <1>7, <1>9, <3>1
        <3> QED BY <1>3, <3>1, <3>2
    <2>3. CASE i = m + n + 1
        <3>1. a[m + (n + 1)] = tx[n + 1]
            BY <1>7
        <3> QED BY <1>3, <1>9, <2>3, <3>1
    <2> QED BY <2>1, <2>2, <2>3
<1>11. a = b
    <2>1. Len(a) = m + n + 1 /\ Len(b) = m + n + 1
        BY <1>7, <1>9
    <2> QED BY <1>7, <1>9, <1>10, <2>1, SameSequence
<1> QED BY <1>2, <1>4, <1>6, <1>8, <1>11

\* The first k + 1 pieces, from the first k.
LEMMA PrefixStep ==
    ASSUME NEW text, NEW k \in Nat
    PROVE  LET P(n) == [i \in 1..n |-> Unnamed(text[i])]
           IN  /\ IsSequence(P(k)) /\ Len(P(k)) = k
               /\ P(k + 1) = Append(P(k), Unnamed(text[k + 1]))
               /\ P(0) = <<>>
<1>1. PICK p : p = [i \in 1..k |-> Unnamed(text[i])]
    OBVIOUS
<1>2. PICK r : r = [i \in 1..(k + 1) |-> Unnamed(text[i])]
    OBVIOUS
<1>3. IsSequence(p) /\ Len(p) = k
    BY <1>1, FunctionSequence
<1>4. IsSequence(r) /\ Len(r) = k + 1
    BY <1>2, FunctionSequence
<1>5. PICK a : a = Append(p, Unnamed(text[k + 1]))
    OBVIOUS
<1>6. /\ IsSequence(a) /\ Len(a) = k + 1 /\ a[k + 1] = Unnamed(text[k + 1])
      /\ \A i \in 1..k : a[i] = p[i]
    BY <1>3, <1>5, AppendFacts
<1>7. ASSUME NEW i \in 1..(k + 1) PROVE r[i] = a[i]
    <2>1. r[i] = Unnamed(text[i])
        BY <1>2
    <2>2. CASE i = k + 1
        BY <1>6, <2>1, <2>2
    <2>3. CASE i # k + 1
        <3>1. i \in 1..k
            BY <2>3
        <3> QED BY <1>1, <1>6, <2>1, <3>1
    <2> QED BY <2>2, <2>3
<1>8. r = a
    BY <1>4, <1>6, <1>7, SameSequence
<1>9. [i \in 1..0 |-> Unnamed(text[i])] = <<>>
    OBVIOUS
<1> QED BY <1>1, <1>2, <1>3, <1>5, <1>8, <1>9

(***************************************************************************)
(* parse().                                                                *)
(***************************************************************************)
ParseStart(elems, nums) == [before |-> <<>>, elems |-> elems, nums |-> nums]
ParsesTo(text, elems, nums, n, f) ==
    f = [i \in 0..n |-> IF i = 0 THEN ParseStart(elems, nums) ELSE ParsePiece(f[i - 1], text[i])]
Parsable(text, elems, nums, n) == \E f : ParsesTo(text, elems, nums, n, f)

\* The recursion of ParseAll, read at each position.
LEMMA ParsesStep ==
    ASSUME NEW text, NEW elems, NEW nums, NEW n \in Nat, NEW f,
           ParsesTo(text, elems, nums, n, f)
    PROVE  /\ f[0] = ParseStart(elems, nums)
           /\ \A i \in 1..n : f[i] = ParsePiece(f[i - 1], text[i])
<1>1. \A i \in 0..n :
          f[i] = IF i = 0 THEN ParseStart(elems, nums) ELSE ParsePiece(f[i - 1], text[i])
    BY DEF ParsesTo
<1>2. 0 \in 0..n /\ \A i \in 1..n : i \in 0..n /\ i # 0
    OBVIOUS
<1> QED BY <1>1, <1>2

\* The function that ParseAll recurs through exists.
LEMMA ParseExists ==
    ASSUME NEW N \in Nat, NEW text, NEW elems, NEW nums
    PROVE  Parsable(text, elems, nums, N)
<1> DEFINE Bad == {n \in 0..N : ~Parsable(text, elems, nums, n)}
<1>1. SUFFICES ASSUME ~Parsable(text, elems, nums, N) PROVE FALSE
    OBVIOUS
<1>2. N \in Bad /\ Bad \subseteq Nat
    BY <1>1
<1>3. PICK n \in Bad : \A m \in Bad : ~(<<m, n>> \in OpToRel(<, Nat))
    <2> HIDE DEF Bad
    <2> QED BY <1>2, NatLessThanWellFounded, WFMin
<1>4. n \in 0..N /\ ~Parsable(text, elems, nums, n)
    OBVIOUS
<1>5. CASE n = 0
    <2>1. ParsesTo(text, elems, nums, 0, [i \in 0..0 |-> ParseStart(elems, nums)])
        BY DEF ParsesTo
    <2> QED BY <1>4, <1>5, <2>1 DEF Parsable
<1>6. CASE n # 0
    <2>1. n - 1 \in 0..N /\ <<n - 1, n>> \in OpToRel(<, Nat)
        BY <1>4, <1>6 DEF OpToRel
    <2>2. Parsable(text, elems, nums, n - 1)
        BY <1>3, <2>1
    <2>3. PICK m \in Nat : m = n - 1
        BY <1>4, <1>6
    <2>4. PICK f : ParsesTo(text, elems, nums, m, f)
        BY <2>2, <2>3 DEF Parsable
    <2>5. PICK x : x = ParsePiece(f[n - 1], text[n])
        OBVIOUS
    <2>6. PICK g : g = [i \in 0..n |-> IF i = n THEN x ELSE f[i]]
        OBVIOUS
    <2>7. /\ f[0] = ParseStart(elems, nums)
          /\ \A i \in 1..m : f[i] = ParsePiece(f[i - 1], text[i])
        BY <2>4, ParsesStep
    <2>8. ASSUME NEW i \in 0..n
          PROVE  g[i] = IF i = 0 THEN ParseStart(elems, nums) ELSE ParsePiece(g[i - 1], text[i])
        <3>1. CASE i = n
            <4>1. g[i] = x /\ g[i - 1] = f[n - 1] /\ i # 0
                BY <1>4, <1>6, <2>6, <3>1
            <4> QED BY <2>5, <3>1, <4>1
        <3>2. CASE i # n /\ i # 0
            <4>1. g[i] = f[i] /\ g[i - 1] = f[i - 1] /\ i \in 1..m
                BY <1>4, <2>3, <2>6, <3>2
            <4> QED BY <2>7, <3>2, <4>1
        <3>3. CASE i # n /\ i = 0
            BY <2>6, <2>7, <3>3
        <3> QED BY <3>1, <3>2, <3>3
    <2>9. ParsesTo(text, elems, nums, n, g)
        BY <2>6, <2>8 DEF ParsesTo
    <2> QED BY <1>4, <2>9 DEF Parsable
<1> QED BY <1>5, <1>6

\* And ParseAll is made of its last value.
LEMMA ParseIs ==
    ASSUME NEW text, IsSequence(text), NEW elems, NEW nums
    PROVE  \E f : /\ ParsesTo(text, elems, nums, Len(text), f)
                  /\ ParseAll(text, elems, nums) =
                        [elems |-> Append(f[Len(text)].elems,
                                          Element(f[Len(text)].before, " ", -1)),
                         nums |-> f[Len(text)].nums]
<1> DEFINE n == Len(text)
           acc == CHOOSE f : ParsesTo(text, elems, nums, n, f)
<1>1. ParsesTo(text, elems, nums, n, acc)
    <2>1. n \in Nat
        BY SequenceFacts
    <2>2. \E f : ParsesTo(text, elems, nums, n, f)
        BY <2>1, ParseExists DEF Parsable
    <2> QED BY <2>2
<1>2. ParseAll(text, elems, nums) =
          [elems |-> Append(acc[n].elems, Element(acc[n].before, " ", -1)), nums |-> acc[n].nums]
    BY DEF ParseAll, ParsesTo, ParseStart
<1> HIDE DEF acc
<1> QED BY <1>1, <1>2

-----------------------------------------------------------------------------
\* What is known when k pieces of the text have been parsed.
Numbered(text, k, nums) ==
    \A i \in 1..k : text[i].kind = "hole" /\ text[i].name # NoName =>
        text[i].name \in DOMAIN nums /\ nums[text[i].name] = text[i].num
ElementsOK(elems) == IsSequence(elems) /\ \A i \in DOMAIN elems : IsElement(elems[i])
Prefix(text, k) == [i \in 1..k |-> Unnamed(text[i])]
Parsed(acc, elems, template, text, k) ==
    /\ acc = [before |-> acc.before, elems |-> acc.elems, nums |-> acc.nums]
    /\ Plain(acc.before) /\ ElementsOK(acc.elems)
    /\ IsSequence(Spelling(acc.elems))
    /\ Spelling(acc.elems) \o acc.before = Spelling(elems) \o Prefix(text, k)
    /\ AreNumbered(template, acc.nums) /\ Numbered(text, k, acc.nums)

\* An element spells the placeholder it was made from, whose position a
\* signed char holds.
LEMMA SpelledIs ==
    ASSUME Disciplined, NEW h \in Placeholders, NEW before
    PROVE  /\ IsElement(Element(before, h.option, h.num)) <=> Plain(before)
           /\ Spelled(Element(before, h.option, h.num)) = Append(before, Unnamed(h))
           /\ SignedChar(h.num) = h.num
<1>1. h.num \in 0..127 /\ h = Hole(h.num, h.option, h.name) /\ h.kind = "hole"
    <2>1. h.num \in 0..127 /\ h = Hole(h.num, h.option, h.name)
        <3>1. h.num \in 0..127
            BY DEF Disciplined
        <3>2. h = Hole(h.num, h.option, h.name)
            BY TextsAssumption
        <3> QED BY <3>1, <3>2
    <2>2. PICK n, o, name : h = Hole(n, o, name)
        BY <2>1
    <2>3. h.kind = "hole"
        BY <2>2 DEF Hole
    <2> QED BY <2>1, <2>3
<1>2. PICK e : e = Element(before, h.option, h.num)
    OBVIOUS
<1>3. e.before = before /\ e.option = h.option /\ e.num = h.num
    BY <1>2 DEF Element
<1>4. IsElement(e) <=> Plain(before)
    BY <1>2, <1>3 DEF IsElement
<1>5. Unnamed(h) = Hole(h.num, h.option, NoName)
    <2>1. PICK n, o, name : n = h.num /\ o = h.option /\ name = h.name
        OBVIOUS
    <2>2. h = [kind |-> "hole", num |-> n, option |-> o, name |-> name]
        BY <1>1, <2>1 DEF Hole
    <2>3. [h EXCEPT !.name = NoName] = [kind |-> "hole", num |-> n, option |-> o, name |-> NoName]
        BY <2>2
    <2> QED BY <1>1, <2>1, <2>3 DEF Unnamed, Hole
<1>6. Spelled(e) = Append(before, Unnamed(h))
    <2>1. e.num \in 0..127 /\ ~(e.num < 0)
        BY <1>1, <1>3
    <2>2. Spelled(e) = Append(e.before, Hole(e.num, e.option, NoName))
        BY <2>1 DEF Spelled
    <2> QED BY <1>3, <1>5, <2>2
<1>7. SignedChar(h.num) = h.num
    <2>1. PICK n \in 0..127 : n = h.num
        BY <1>1
    <2>2. n % 256 = n
        OBVIOUS
    <2>3. SignedChar(n) = n
        BY <2>2 DEF SignedChar
    <2> QED BY <2>1, <2>3
<1> QED BY <1>2, <1>4, <1>6, <1>7

\* One more element.
LEMMA ElementsAppend ==
    ASSUME NEW elems, ElementsOK(elems), NEW e, IsElement(e)
    PROVE  ElementsOK(Append(elems, e)) /\ Append(elems, e) # <<>>
<1>1. PICK n \in Nat : n = Len(elems)
    BY SequenceFacts DEF ElementsOK
<1>2. PICK a : a = Append(elems, e)
    OBVIOUS
<1>3. IsSequence(a) /\ Len(a) = n + 1 /\ a[n + 1] = e /\ \A i \in 1..n : a[i] = elems[i]
    <2>1. IsSequence(elems)
        BY DEF ElementsOK
    <2> QED BY <1>1, <1>2, <2>1, AppendFacts
<1>4. DOMAIN a = 1..(n + 1) /\ DOMAIN elems = 1..n
    BY <1>1, <1>3, SequenceFacts DEF ElementsOK
<1>5. ASSUME NEW i \in 1..(n + 1) PROVE IsElement(a[i])
    <2>1. CASE i = n + 1
        BY <1>3, <2>1
    <2>2. CASE i # n + 1
        <3>1. i \in 1..n
            BY <2>2
        <3> QED BY <1>3, <1>4, <3>1 DEF ElementsOK
    <2> QED BY <2>1, <2>2
<1>6. a # <<>>
    BY <1>3, EmptySequence
<1> QED BY <1>2, <1>3, <1>4, <1>5, <1>6 DEF ElementsOK

\* A further name leaves those before it where they were.
LEMMA NameAdded ==
    ASSUME Disciplined, NEW h \in Placeholders, h.name # NoName, NEW nums
    PROVE  LET new == WithName(nums, h.name, h.num)
           IN  /\ h.name \in DOMAIN new /\ new[h.name] = h.num
               /\ \A g \in Placeholders :
                     /\ g.name # NoName /\ g.name \in DOMAIN nums
                     /\ nums[g.name] = g.num
                     => g.name \in DOMAIN new /\ new[g.name] = g.num
<1>1. PICK new : new = WithName(nums, h.name, h.num)
    OBVIOUS
<1>2. /\ DOMAIN new = {h.name} \cup DOMAIN nums
      /\ \A x \in DOMAIN new : new[x] = IF x = h.name THEN h.num ELSE nums[x]
    BY <1>1 DEF WithName
<1> QED BY <1>1, <1>2 DEF Disciplined

\* parse(), one piece: text goes to what the next element will hold, a
\* placeholder makes one, and its name leads to its position.
LEMMA ParsePieceKeeps ==
    ASSUME Disciplined, NEW elems, IsSequence(Spelling(elems)),
           NEW template, IsText(template), NEW text, IsText(text),
           NEW k \in Nat, k + 1 \in 1..Len(text),
           NEW acc, Parsed(acc, elems, template, text, k)
    PROVE  Parsed(ParsePiece(acc, text[k + 1]), elems, template, text, k + 1)
<1>1. PICK t : t = text[k + 1]
    OBVIOUS
<1>2. PICK before, es, nums : acc = [before |-> before, elems |-> es, nums |-> nums]
    BY DEF Parsed
<1>3. /\ Plain(before) /\ ElementsOK(es) /\ IsSequence(Spelling(es))
      /\ Spelling(es) \o before = Spelling(elems) \o Prefix(text, k)
      /\ AreNumbered(template, nums) /\ Numbered(text, k, nums)
    BY <1>2 DEF Parsed
<1>4. /\ IsSequence(Prefix(text, k))
      /\ Prefix(text, k + 1) = Append(Prefix(text, k), Unnamed(t))
    BY <1>1, PrefixStep DEF Prefix
<1>5. Spelling(es) \o Append(before, Unnamed(t)) = Spelling(elems) \o Prefix(text, k + 1)
    <2>1. IsSequence(before) /\ IsSequence(Spelling(es))
        BY <1>3 DEF Plain
    <2>2. Spelling(es) \o Append(before, Unnamed(t)) = Append(Spelling(es) \o before, Unnamed(t))
        BY <2>1, ConcatAppend
    <2>3. Spelling(elems) \o Append(Prefix(text, k), Unnamed(t)) =
              Append(Spelling(elems) \o Prefix(text, k), Unnamed(t))
        BY <1>4, ConcatAppend
    <2> QED BY <1>3, <1>4, <2>2, <2>3, Zenon
<1>6. PICK r : r = ParsePiece(acc, t)
    OBVIOUS
<1>7. CASE t.kind # "hole"
    <2>1. r = [before |-> Append(before, t), elems |-> es, nums |-> nums]
        BY <1>2, <1>6, <1>7 DEF ParsePiece
    <2>2. Plain(Append(before, t))
        BY <1>3, <1>7, PlainFacts
    <2>3. Unnamed(t) = t
        BY <1>7 DEF Unnamed
    <2>4. Numbered(text, k + 1, nums)
        <3>1. \A i \in 1..(k + 1) : i \in 1..k \/ text[i] = t
            BY <1>1
        <3> QED BY <1>3, <1>7, <3>1 DEF Numbered
    <2>5. Spelling(es) \o Append(before, t) = Spelling(elems) \o Prefix(text, k + 1)
        BY <1>5, <2>3
    <2>6. PICK before2 : before2 = Append(before, t)
        OBVIOUS
    <2>7. Parsed(r, elems, template, text, k + 1)
        BY <1>3, <2>1, <2>2, <2>4, <2>5, <2>6 DEF Parsed
    <2> QED BY <1>1, <1>6, <2>7
<1>8. CASE t.kind = "hole"
    <2>1. t \in Placeholders
        BY <1>1, <1>8, SequenceFacts DEF IsText
    <2>2. PICK e : e = Element(before, t.option, t.num)
        OBVIOUS
    <2>3. /\ IsElement(e) /\ Spelled(e) = Append(before, Unnamed(t))
          /\ SignedChar(t.num) = t.num
        BY <1>3, <2>1, <2>2, SpelledIs
    <2>4. PICK new : new = IF t.name = NoName THEN nums ELSE WithName(nums, t.name, t.num)
        OBVIOUS
    <2>5. PICK es2 : es2 = Append(es, e)
        OBVIOUS
    <2>6. r = [before |-> <<>>, elems |-> es2, nums |-> new]
        BY <1>2, <1>6, <1>8, <2>2, <2>3, <2>4, <2>5 DEF ParsePiece
    <2>7. ElementsOK(es2)
        BY <1>3, <2>3, <2>5, ElementsAppend
    <2>8. Spelling(es2) = Spelling(elems) \o Prefix(text, k + 1)
        <3>1. Spelling(es2) = Spelling(es) \o Spelled(e)
            BY <1>3, <2>5, SpellingFacts DEF ElementsOK
        <3> QED BY <1>5, <2>3, <3>1
    <2>9. IsSequence(Spelling(es2))
        <3>1. IsSequence(Prefix(text, k + 1))
            BY <1>4, AppendFacts
        <3> QED BY <2>8, <3>1, ConcatFacts
    <2>10. Spelling(es2) \o <<>> = Spelling(elems) \o Prefix(text, k + 1)
        BY <2>8, <2>9, ConcatEmpty
    <2>11. ASSUME NEW g \in Placeholders, g.name # NoName,
                  g.name \in DOMAIN nums, nums[g.name] = g.num
           PROVE  g.name \in DOMAIN new /\ new[g.name] = g.num
        BY <2>1, <2>4, <2>11, NameAdded
    <2>12. AreNumbered(template, new)
        <3>1. \A i \in DOMAIN template : template[i].kind = "hole" => template[i] \in Placeholders
            BY DEF IsText
        <3> QED BY <1>3, <2>11, <3>1 DEF AreNumbered
    <2>13. Numbered(text, k + 1, new)
        <3>1. ASSUME NEW i \in 1..(k + 1), text[i].kind = "hole", text[i].name # NoName
              PROVE  text[i].name \in DOMAIN new /\ new[text[i].name] = text[i].num
            <4>1. CASE i = k + 1
                BY <1>1, <2>1, <2>4, <3>1, <4>1, NameAdded
            <4>2. CASE i # k + 1
                <5>1. i \in 1..k /\ i \in 1..Len(text)
                    BY <4>2
                <5>2. text[i] \in Placeholders
                    BY <3>1, <5>1, SequenceFacts DEF IsText
                <5> QED BY <1>3, <2>11, <3>1, <5>1, <5>2 DEF Numbered
            <4> QED BY <4>1, <4>2
        <3> QED BY <3>1 DEF Numbered
    <2> QED BY <1>1, <1>6, <2>6, <2>7, <2>9, <2>10, <2>12, <2>13, EmptyText DEF Parsed
<1> QED BY <1>7, <1>8

\* So parse() has kept, at each piece, what it has read.
LEMMA ParsedSoFar ==
    ASSUME Disciplined, NEW elems, ElementsOK(elems), IsSequence(Spelling(elems)),
           NEW template, IsText(template), NEW text, IsText(text),
           NEW nums, AreNumbered(template, nums),
           NEW N \in Nat, N = Len(text), NEW f, ParsesTo(text, elems, nums, N, f)
    PROVE  Parsed(f[N], elems, template, text, N)
<1> DEFINE Bad == {n \in 0..N : ~Parsed(f[n], elems, template, text, n)}
<1>1. SUFFICES ASSUME ~Parsed(f[N], elems, template, text, N) PROVE FALSE
    OBVIOUS
<1>2. N \in Bad /\ Bad \subseteq Nat
    BY <1>1
<1>3. PICK n \in Bad : \A m \in Bad : ~(<<m, n>> \in OpToRel(<, Nat))
    <2> HIDE DEF Bad
    <2> QED BY <1>2, NatLessThanWellFounded, WFMin
<1>4. n \in 0..N /\ ~Parsed(f[n], elems, template, text, n)
    OBVIOUS
<1>5. /\ f[0] = ParseStart(elems, nums)
      /\ \A i \in 1..N : f[i] = ParsePiece(f[i - 1], text[i])
    BY ParsesStep
<1>6. CASE n = 0
    <2>1. Prefix(text, 0) = <<>>
        BY PrefixStep DEF Prefix
    <2>2. Spelling(elems) \o <<>> = Spelling(elems) \o Prefix(text, 0)
        BY <2>1
    <2>3. Numbered(text, 0, nums)
        BY DEF Numbered
    <2>4. Parsed(f[0], elems, template, text, 0)
        BY <1>5, <2>2, <2>3, EmptyText DEF Parsed, ParseStart
    <2> QED BY <1>4, <1>6, <2>4
<1>7. CASE n # 0
    <2>1. PICK m \in Nat : m = n - 1
        BY <1>4, <1>7
    <2>2. m \in 0..N /\ <<m, n>> \in OpToRel(<, Nat) /\ m + 1 = n /\ m + 1 \in 1..N
        BY <1>4, <1>7, <2>1 DEF OpToRel
    <2>3. Parsed(f[m], elems, template, text, m)
        BY <1>3, <2>2
    <2>4. Parsed(ParsePiece(f[m], text[m + 1]), elems, template, text, m + 1)
        BY <2>2, <2>3, ParsePieceKeeps
    <2>5. f[n] = ParsePiece(f[m], text[n])
        BY <1>5, <2>1, <2>2
    <2> QED BY <1>4, <2>2, <2>4, <2>5
<1> QED BY <1>6, <1>7

\* The elements of what was parsed spell it, behind those that were there.
LEMMA ParseAllFacts ==
    ASSUME Disciplined, NEW elems, ElementsOK(elems), IsSequence(Spelling(elems)),
           NEW template, IsText(template), NEW text, IsText(text),
           NEW nums, AreNumbered(template, nums),
           Spelling(elems) = Prefix(template, Len(template))
    PROVE  LET r == ParseAll(text, elems, nums)
           IN  /\ ElementsOK(r.elems) /\ r.elems # <<>>
               /\ Spelling(r.elems) = Prefix(template \o text, Len(template \o text))
               /\ AreNumbered(template \o text, r.nums)
<1>1. PICK n \in Nat : n = Len(text)
    BY SequenceFacts DEF IsText
<1>2. PICK f : /\ ParsesTo(text, elems, nums, n, f)
               /\ ParseAll(text, elems, nums) =
                     [elems |-> Append(f[n].elems, Element(f[n].before, " ", -1)),
                      nums |-> f[n].nums]
    BY <1>1, ParseIs DEF IsText
<1>3. PICK acc : acc = f[n]
    OBVIOUS
<1>4. Parsed(acc, elems, template, text, n)
    BY <1>1, <1>2, <1>3, ParsedSoFar
<1>5. PICK e : e = Element(acc.before, " ", -1)
    OBVIOUS
<1>6. IsElement(e) /\ Spelled(e) = acc.before
    <2>1. e.before = acc.before /\ e.option = " " /\ e.num = -1
        BY <1>5 DEF Element
    <2>2. Plain(acc.before)
        BY <1>4 DEF Parsed
    <2>3. e = Element(e.before, e.option, e.num)
        BY <1>5, <2>1
    <2>4. Plain(e.before)
        BY <2>1, <2>2, Zenon
    <2>5. IsElement(e)
        BY <2>1, <2>3, <2>4 DEF IsElement
    <2>6. e.num < 0
        <3>1. PICK k : k = -1
            OBVIOUS
        <3>2. k < 0
            BY <3>1
        <3>3. e.num = k
            BY <2>1, <3>1, Zenon
        <3> QED BY <3>2, <3>3, Zenon
    <2>7. Spelled(e) = e.before
        BY <2>6 DEF Spelled
    <2> QED BY <2>1, <2>5, <2>7
<1>7. PICK es : es = Append(acc.elems, e)
    OBVIOUS
<1>8. ElementsOK(es) /\ es # <<>>
    BY <1>4, <1>6, <1>7, ElementsAppend DEF Parsed
<1>9. Spelling(es) = Spelling(elems) \o Prefix(text, n)
    <2>1. IsSequence(acc.elems)
        BY <1>4 DEF Parsed, ElementsOK
    <2>2. Spelling(es) = Spelling(acc.elems) \o acc.before
        BY <1>6, <1>7, <2>1, SpellingFacts
    <2> QED BY <1>4, <2>2 DEF Parsed
<1>10. PICK m \in Nat : m = Len(template)
    BY SequenceFacts DEF IsText
<1>11. PICK tt : tt = template \o text
    OBVIOUS
<1>12. /\ IsSequence(tt) /\ Len(tt) = m + n
       /\ \A i \in 1..m : tt[i] = template[i]
       /\ \A i \in 1..n : tt[m + i] = text[i]
    <2>1. /\ IsSequence(tt) /\ Len(tt) = Len(template) + Len(text)
          /\ \A i \in 1..Len(template) : tt[i] = template[i]
          /\ \A i \in 1..Len(text) : tt[Len(template) + i] = text[i]
        BY <1>11, ConcatFacts DEF IsText
    <2> QED BY <1>1, <1>10, <2>1
<1>13. Spelling(es) = Prefix(tt, m + n)
    <2>1. PICK a, b, c : /\ a = Prefix(template, m) /\ b = Prefix(text, n)
                         /\ c = a \o b
        OBVIOUS
    <2>2. /\ IsSequence(a) /\ Len(a) = m /\ IsSequence(b) /\ Len(b) = n
          /\ \A i \in 1..m : a[i] = Unnamed(template[i])
          /\ \A i \in 1..n : b[i] = Unnamed(text[i])
        BY <2>1, FunctionSequence DEF Prefix
    <2>3. /\ IsSequence(c) /\ Len(c) = Len(a) + Len(b)
          /\ \A i \in 1..Len(a) : c[i] = a[i]
          /\ \A i \in 1..Len(b) : c[Len(a) + i] = b[i]
        <3>1. IsSequence(a) /\ IsSequence(b)
            BY <2>2
        <3> QED BY <2>1, <3>1, ConcatFacts
    <2>4. PICK d : d = Prefix(tt, m + n)
        OBVIOUS
    <2>5. IsSequence(d) /\ Len(d) = m + n /\ \A i \in 1..(m + n) : d[i] = Unnamed(tt[i])
        BY <2>4, FunctionSequence DEF Prefix
    <2>6. ASSUME NEW i \in 1..(m + n) PROVE c[i] = d[i]
        <3>1. CASE i <= m
            <4>1. i \in 1..m
                BY <3>1
            <4> QED BY <1>12, <2>2, <2>3, <2>5, <4>1
        <3>2. CASE i > m
            <4>1. i - m \in 1..n /\ m + (i - m) = i
                BY <3>2
            <4>2. c[m + (i - m)] = b[i - m] /\ tt[m + (i - m)] = text[i - m]
                BY <1>12, <2>2, <2>3, <4>1
            <4> QED BY <2>2, <2>5, <4>1, <4>2
        <3> QED BY <3>1, <3>2
    <2>7. c = d
        <3>1. Len(c) = m + n
            BY <2>2, <2>3
        <3> QED BY <2>3, <2>5, <2>6, <3>1, SameSequence
    <2> QED BY <1>9, <1>10, <2>1, <2>4, <2>7
<1>14. AreNumbered(tt, acc.nums)
    <2>1. ASSUME NEW i \in 1..(m + n), tt[i].kind = "hole", tt[i].name # NoName
          PROVE  tt[i].name \in DOMAIN acc.nums /\ acc.nums[tt[i].name] = tt[i].num
        <3>1. CASE i <= m
            <4>1. i \in 1..m /\ i \in DOMAIN template
                BY <1>10, <3>1, SequenceFacts DEF IsText
            <4> QED BY <1>4, <1>12, <2>1, <4>1 DEF Parsed, AreNumbered
        <3>2. CASE i > m
            <4>1. i - m \in 1..n /\ m + (i - m) = i
                BY <3>2
            <4>2. tt[i] = text[i - m]
                BY <1>12, <4>1
            <4> QED BY <1>4, <2>1, <4>1, <4>2 DEF Parsed, Numbered
        <3> QED BY <3>1, <3>2
    <2>2. DOMAIN tt = 1..(m + n)
        BY <1>12, SequenceFacts
    <2> QED BY <2>1, <2>2 DEF AreNumbered
<1>15. ParseAll(text, elems, nums) = [elems |-> es, nums |-> acc.nums]
    BY <1>2, <1>3, <1>5, <1>7
<1> QED BY <1>8, <1>11, <1>12, <1>13, <1>14, <1>15

-----------------------------------------------------------------------------
(***************************************************************************)
(* proc().                                                                 *)
(***************************************************************************)
ProcStart(own) == [out |-> <<>>, own |-> own, thrown |-> FALSE]
ProcsTo(p, elems, own, n, f) ==
    f = [i \in 0..n |-> IF i = 0 THEN ProcStart(own) ELSE ProcElement(p, f[i - 1], elems[i])]
Procable(p, elems, own, n) == \E f : ProcsTo(p, elems, own, n, f)

\* The recursion of Proc, read at each position.
LEMMA ProcsStep ==
    ASSUME NEW p, NEW elems, NEW own, NEW n \in Nat, NEW f,
           ProcsTo(p, elems, own, n, f)
    PROVE  /\ f[0] = ProcStart(own)
           /\ \A i \in 1..n : f[i] = ProcElement(p, f[i - 1], elems[i])
<1>1. \A i \in 0..n :
          f[i] = IF i = 0 THEN ProcStart(own) ELSE ProcElement(p, f[i - 1], elems[i])
    BY DEF ProcsTo
<1>2. 0 \in 0..n /\ \A i \in 1..n : i \in 0..n /\ i # 0
    OBVIOUS
<1> QED BY <1>1, <1>2

\* The function that Proc recurs through exists.
LEMMA ProcExists ==
    ASSUME NEW N \in Nat, NEW p, NEW elems, NEW own
    PROVE  Procable(p, elems, own, N)
<1> DEFINE Bad == {n \in 0..N : ~Procable(p, elems, own, n)}
<1>1. SUFFICES ASSUME ~Procable(p, elems, own, N) PROVE FALSE
    OBVIOUS
<1>2. N \in Bad /\ Bad \subseteq Nat
    BY <1>1
<1>3. PICK n \in Bad : \A m \in Bad : ~(<<m, n>> \in OpToRel(<, Nat))
    <2> HIDE DEF Bad
    <2> QED BY <1>2, NatLessThanWellFounded, WFMin
<1>4. n \in 0..N /\ ~Procable(p, elems, own, n)
    OBVIOUS
<1>5. CASE n = 0
    <2>1. ProcsTo(p, elems, own, 0, [i \in 0..0 |-> ProcStart(own)])
        BY DEF ProcsTo
    <2> QED BY <1>4, <1>5, <2>1 DEF Procable
<1>6. CASE n # 0
    <2>1. n - 1 \in 0..N /\ <<n - 1, n>> \in OpToRel(<, Nat)
        BY <1>4, <1>6 DEF OpToRel
    <2>2. Procable(p, elems, own, n - 1)
        BY <1>3, <2>1
    <2>3. PICK m \in Nat : m = n - 1
        BY <1>4, <1>6
    <2>4. PICK f : ProcsTo(p, elems, own, m, f)
        BY <2>2, <2>3 DEF Procable
    <2>5. PICK x : x = ProcElement(p, f[n - 1], elems[n])
        OBVIOUS
    <2>6. PICK g : g = [i \in 0..n |-> IF i = n THEN x ELSE f[i]]
        OBVIOUS
    <2>7. /\ f[0] = ProcStart(own)
          /\ \A i \in 1..m : f[i] = ProcElement(p, f[i - 1], elems[i])
        BY <2>4, ProcsStep
    <2>8. ASSUME NEW i \in 0..n
          PROVE  g[i] = IF i = 0 THEN ProcStart(own) ELSE ProcElement(p, g[i - 1], elems[i])
        <3>1. CASE i = n
            <4>1. g[i] = x /\ g[i - 1] = f[n - 1] /\ i # 0
                BY <1>4, <1>6, <2>6, <3>1
            <4> QED BY <2>5, <3>1, <4>1
        <3>2. CASE i # n /\ i # 0
            <4>1. g[i] = f[i] /\ g[i - 1] = f[i - 1] /\ i \in 1..m
                BY <1>4, <2>3, <2>6, <3>2
            <4> QED BY <2>7, <3>2, <4>1
        <3>3. CASE i # n /\ i = 0
            BY <2>6, <2>7, <3>3
        <3> QED BY <3>1, <3>2, <3>3
    <2>9. ProcsTo(p, elems, own, n, g)
        BY <2>6, <2>8 DEF ProcsTo
    <2> QED BY <1>4, <2>9 DEF Procable
<1> QED BY <1>5, <1>6

\* And Proc is its last value.
LEMMA ProcIs ==
    ASSUME NEW p, NEW elems, IsSequence(elems), NEW own
    PROVE  \E f : /\ ProcsTo(p, elems, own, Len(elems), f)
                  /\ Proc(p, elems, own) = f[Len(elems)]
<1> DEFINE n == Len(elems)
           acc == CHOOSE f : ProcsTo(p, elems, own, n, f)
<1>1. ProcsTo(p, elems, own, n, acc)
    <2>1. n \in Nat
        BY SequenceFacts
    <2>2. \E f : ProcsTo(p, elems, own, n, f)
        BY <2>1, ProcExists DEF Procable
    <2> QED BY <2>2
<1>2. Proc(p, elems, own) = acc[n]
    BY DEF Proc, ProcsTo, ProcStart
<1> HIDE DEF acc
<1> QED BY <1>1, <1>2

-----------------------------------------------------------------------------
IsParm(S) ==
    S = [body |-> S.body, string |-> S.string, null |-> S.null, wraps |-> S.wraps,
         is_processed_ |-> S.is_processed_]
SameText(S, T) == S.null = T.null /\ S.body = T.body /\ S.wraps = T.wraps

\* Adapters of one text are written alike, and never as a placeholder.
LEMMA SameIsWritten ==
    \A S, T : SameText(S, T) =>
        /\ Written(S) = Written(T)
        /\ Written(S).kind # "hole"
<1>1. ASSUME NEW S, NEW T, SameText(S, T) PROVE Written(S) = Written(T)
    BY <1>1 DEF SameText, Written
<1>2. ASSUME NEW S PROVE Written(S).kind # "hole"
    <2>1. CASE S.null
        BY <2>1 DEF Written, Lit
    <2>2. CASE ~S.null
        BY <2>2 DEF Written
    <2> QED BY <2>1, <2>2
<1> QED BY <1>1, <1>2

\* An adapter that no call has used has no quotes.
LEMMA FreshFields ==
    ASSUME NEW S, IsFresh(S)
    PROVE  IsParm(S) /\ S.wraps = <<>> /\ ~S.is_processed_
<1>1. PICK b, st, nu : b = S.body /\ st = S.string /\ nu = S.null
    OBVIOUS
<1>2. S = [Adapter(b, st) EXCEPT !.null = nu]
    BY <1>1 DEF IsFresh
<1>3. PICK A : A = Adapter(b, st)
    OBVIOUS
<1>4. A = [body |-> b, string |-> st, null |-> FALSE, wraps |-> <<>>, is_processed_ |-> FALSE]
    BY <1>3 DEF Adapter
<1>5. S = [A EXCEPT !.null = nu]
    BY <1>2, <1>3, Zenon
<1>6. S = [body |-> b, string |-> st, null |-> nu, wraps |-> <<>>, is_processed_ |-> FALSE]
    BY <1>4, <1>5
<1>7. S.wraps = <<>> /\ S.is_processed_ = FALSE
    BY <1>6
<1>8. S = [body |-> S.body, string |-> S.string, null |-> S.null, wraps |-> S.wraps,
           is_processed_ |-> S.is_processed_]
    BY <1>1, <1>6, <1>7, Zenon
<1> QED BY <1>7, <1>8 DEF IsParm

\* set_processed() leaves the text.
LEMMA ProcessedFields ==
    ASSUME NEW S, IsParm(S)
    PROVE  /\ IsParm(Processed(S)) /\ SameText(Processed(S), S)
           /\ Processed(S).is_processed_
<1>1. PICK b, st, nu, w, pr :
          b = S.body /\ st = S.string /\ nu = S.null /\ w = S.wraps /\ pr = S.is_processed_
    OBVIOUS
<1>2. S = [body |-> b, string |-> st, null |-> nu, wraps |-> w, is_processed_ |-> pr]
    BY <1>1 DEF IsParm
<1>3. PICK T : T = Processed(S)
    OBVIOUS
<1>4. T = [S EXCEPT !.is_processed_ = TRUE]
    BY <1>3 DEF Processed
<1>5. T = [body |-> b, string |-> st, null |-> nu, wraps |-> w, is_processed_ |-> TRUE]
    BY <1>2, <1>4
<1>6. T.body = b /\ T.string = st /\ T.null = nu /\ T.wraps = w /\ T.is_processed_ = TRUE
    BY <1>5
<1>7. IsParm(T)
    <2>1. T = [body |-> T.body, string |-> T.string, null |-> T.null, wraps |-> T.wraps,
               is_processed_ |-> T.is_processed_]
        BY <1>5, <1>6, Zenon
    <2> QED BY <2>1 DEF IsParm
<1>8. SameText(T, S)
    BY <1>1, <1>6 DEF SameText
<1> QED BY <1>3, <1>6, <1>7, <1>8

\* What pprepare() does to each part of an adapter.
LEMMA PreparedFields ==
    ASSUME NEW S, IsParm(S), NEW o
    PROVE  /\ IsParm(Prepared(o, S))
           /\ Prepared(o, S).null = S.null /\ Prepared(o, S).body = S.body
           /\ Prepared(o, S).is_processed_ = S.is_processed_
           /\ Prepared(o, S).wraps = IF ~S.is_processed_ /\ S.string /\ o # " "
                                     THEN Append(S.wraps, o) ELSE S.wraps
           /\ S.is_processed_ => Prepared(o, S) = S
<1>1. CASE S.is_processed_ \/ o = " " \/ (o = "Q" /\ ~S.string)
    <2>1. Prepared(o, S) = S
        BY <1>1 DEF Prepared
    <2>2. ~(~S.is_processed_ /\ S.string /\ o # " ")
        BY <1>1, Zenon
    <2> QED BY <2>1, <2>2
<1>2. CASE ~(S.is_processed_ \/ o = " " \/ (o = "Q" /\ ~S.string))
    <2>1. PICK b, st, nu, w, pr :
              b = S.body /\ st = S.string /\ nu = S.null /\ w = S.wraps /\ pr = S.is_processed_
        OBVIOUS
    <2>2. S = [body |-> b, string |-> st, null |-> nu, wraps |-> w, is_processed_ |-> pr]
        BY <2>1 DEF IsParm
    <2>3. PICK w2 : w2 = IF S.string THEN Append(w, o) ELSE w
        OBVIOUS
    <2>4. PICK T : T = [S EXCEPT !.wraps = w2, !.string = TRUE]
        OBVIOUS
    <2>5. Prepared(o, S) = T
        BY <1>2, <2>1, <2>3, <2>4 DEF Prepared
    <2>6. T = [body |-> b, string |-> TRUE, null |-> nu, wraps |-> w2, is_processed_ |-> pr]
        BY <2>2, <2>4
    <2>7. T.body = b /\ T.string = TRUE /\ T.null = nu /\ T.wraps = w2 /\ T.is_processed_ = pr
        BY <2>6
    <2>8. IsParm(T)
        <3>1. T = [body |-> T.body, string |-> T.string, null |-> T.null, wraps |-> T.wraps,
                   is_processed_ |-> T.is_processed_]
            BY <2>6, <2>7, Zenon
        <3> QED BY <3>1 DEF IsParm
    <2>9. w2 = IF ~S.is_processed_ /\ S.string /\ o # " " THEN Append(S.wraps, o) ELSE S.wraps
        BY <1>2, <2>1, <2>3, Zenon
    <2> QED BY <1>2, <2>1, <2>5, <2>7, <2>8, <2>9, Zenon
<1> QED BY <1>1, <1>2

\* A parameter the program made is written as the statement should have it.
LEMMA FreshIsQuoted ==
    ASSUME NEW S, IsFresh(S), NEW o
    PROVE  Written(Prepared(o, S)) = Quoted(o, S) /\ Quoted(o, S).kind # "hole"
<1>1. IsParm(S) /\ S.wraps = <<>> /\ ~S.is_processed_
    BY FreshFields
<1>2. PICK P : P = Prepared(o, S)
    OBVIOUS
<1>3. P.null = S.null /\ P.body = S.body
    BY <1>1, <1>2, PreparedFields
<1>4. P.wraps = IF S.string /\ o # " " THEN Append(<<>>, o) ELSE <<>>
    <2>1. P.wraps = IF ~S.is_processed_ /\ S.string /\ o # " " THEN Append(S.wraps, o) ELSE S.wraps
        BY <1>1, <1>2, PreparedFields
    <2> QED BY <1>1, <2>1
<1>5. CASE S.string /\ o # " "
    <2>1. PICK T : T = [S EXCEPT !.wraps = <<o>>]
        OBVIOUS
    <2>2. T.null = S.null /\ T.body = S.body /\ T.wraps = <<o>>
        BY <1>1, <2>1 DEF IsParm
    <2>3. Append(<<>>, o) = <<o>>
        OBVIOUS
    <2>4. SameText(P, T)
        BY <1>3, <1>4, <1>5, <2>2, <2>3 DEF SameText
    <2>5. Quoted(o, S) = Written(T)
        BY <1>5, <2>1 DEF Quoted
    <2> QED BY <1>2, <2>4, <2>5, SameIsWritten
<1>6. CASE ~(S.string /\ o # " ")
    <2>1. SameText(P, S)
        BY <1>1, <1>3, <1>4, <1>6 DEF SameText
    <2>2. Quoted(o, S) = Written(S)
        BY <1>6 DEF Quoted
    <2> QED BY <1>2, <2>1, <2>2, SameIsWritten
<1> QED BY <1>5, <1>6

\* A default, processed or not, is written so too, and stays a default.
LEMMA DefaultIsQuoted ==
    ASSUME Disciplined, NEW given, IsFresh(given), NEW g \in Placeholders,
           NEW d, IsDefault(d, given, g.num)
    PROVE  /\ d.null => Written(d) = Quoted(g.option, given)
           /\ ~d.null => /\ Written(Prepared(g.option, d)) = Quoted(g.option, given)
                         /\ IsDefault(Processed(Prepared(g.option, d)), given, g.num)
<1>1. PICK o : o = g.option
    OBVIOUS
<1>2. Written(Prepared(o, given)) = Quoted(o, given)
    BY FreshIsQuoted
<1>3. IsParm(given)
    BY FreshFields
<1>4. CASE d = given
    <2>1. ASSUME d.null PROVE Written(d) = Quoted(o, given)
        <3>1. Prepared(o, given).null = given.null
            BY <1>3, PreparedFields
        <3>2. Written(given) = Lit("NULL") /\ Written(Prepared(o, given)) = Lit("NULL")
            BY <1>4, <2>1, <3>1 DEF Written
        <3> QED BY <1>2, <1>4, <3>2
    <2>2. ~d.null => IsDefault(Processed(Prepared(o, d)), given, g.num)
        BY <1>1, <1>4 DEF IsDefault
    <2> QED BY <1>1, <1>2, <1>4, <2>1, <2>2
<1>5. CASE d # given
    <2>1. ~given.null /\ d = Processed(Prepared(o, given))
        <3>1. PICK h \in Placeholders :
                  ~given.null /\ h.num = g.num /\ d = Processed(Prepared(h.option, given))
            BY <1>5 DEF IsDefault
        <3>2. h.option = o
            BY <1>1, <3>1 DEF Disciplined
        <3> QED BY <3>1, <3>2
    <2>2. PICK P : P = Prepared(o, given)
        OBVIOUS
    <2>3. IsParm(P) /\ P.null = given.null
        BY <1>3, <2>2, PreparedFields
    <2>4. d = Processed(P)
        BY <2>1, <2>2
    <2>5. IsParm(d) /\ SameText(d, P) /\ d.is_processed_
        BY <2>3, <2>4, ProcessedFields
    <2>6. Prepared(o, d) = d
        BY <2>5, PreparedFields
    <2>7. Processed(d) = d
        <3>1. d = [P EXCEPT !.is_processed_ = TRUE]
            BY <2>4 DEF Processed
        <3>2. Processed(d) = [d EXCEPT !.is_processed_ = TRUE]
            BY DEF Processed
        <3> QED BY <2>3, <3>1, <3>2 DEF IsParm
    <2>8. Written(d) = Quoted(o, given)
        BY <1>2, <2>2, <2>5, SameIsWritten
    <2>9. ~d.null
        BY <2>1, <2>3, <2>5 DEF SameText
    <2>10. IsDefault(d, given, g.num)
        OBVIOUS
    <2> QED BY <1>1, <2>6, <2>7, <2>8, <2>9, <2>10
<1> QED BY <1>4, <1>5

-----------------------------------------------------------------------------
(***************************************************************************)
(* A text with its placeholders replaced.                                  *)
(***************************************************************************)
ValueFor(p, given, n) == IF n < Len(p) THEN p[n + 1] ELSE given[n + 1]
HasValue(p, given, t) == t.kind = "hole" => t.num < Len(p) \/ t.num < Len(given)
Replaced(p, given, t) ==
    IF t.kind = "hole" THEN Quoted(t.option, ValueFor(p, given, t.num)) ELSE t
Filled(p, given, s) == [i \in 1..Len(s) |-> Replaced(p, given, s[i])]
Fillable(p, given, s) == \A i \in 1..Len(s) : HasValue(p, given, s[i])

\* Text without placeholders is filled in as it is.
LEMMA FilledConcat ==
    ASSUME NEW p, NEW given, NEW s, IsSequence(s), NEW t, Plain(t)
    PROVE  /\ Filled(p, given, s \o t) = Filled(p, given, s) \o t
           /\ Fillable(p, given, s \o t) <=> Fillable(p, given, s)
<1>1. PICK m \in Nat, n \in Nat : m = Len(s) /\ n = Len(t)
    BY SequenceFacts DEF Plain
<1>2. PICK st : st = s \o t
    OBVIOUS
<1>3. /\ IsSequence(st) /\ Len(st) = m + n
      /\ \A i \in 1..m : st[i] = s[i]
      /\ \A i \in 1..n : st[m + i] = t[i]
    BY <1>1, <1>2, ConcatFacts DEF Plain
<1>4. \A i \in 1..n : t[i].kind # "hole"
    BY <1>1, SequenceFacts DEF Plain
<1>5. \A i \in 1..(m + n) : i \in 1..m \/ (i - m \in 1..n /\ m + (i - m) = i)
    OBVIOUS
<1>6. Filled(p, given, st) = Filled(p, given, s) \o t
    <2>1. PICK f : f = Filled(p, given, s)
        OBVIOUS
    <2>2. IsSequence(f) /\ Len(f) = m /\ \A i \in 1..m : f[i] = Replaced(p, given, s[i])
        BY <1>1, <2>1, FunctionSequence DEF Filled
    <2>3. PICK a : a = f \o t
        OBVIOUS
    <2>4. /\ IsSequence(a) /\ Len(a) = m + n
          /\ \A i \in 1..m : a[i] = f[i]
          /\ \A i \in 1..n : a[m + i] = t[i]
        <3>1. /\ IsSequence(a) /\ Len(a) = Len(f) + Len(t)
              /\ \A i \in 1..Len(f) : a[i] = f[i]
              /\ \A i \in 1..Len(t) : a[Len(f) + i] = t[i]
            <4>1. IsSequence(f) /\ IsSequence(t)
                BY <2>2 DEF Plain
            <4> QED BY <2>3, <4>1, ConcatFacts
        <3> QED BY <1>1, <2>2, <3>1
    <2>5. PICK b : b = Filled(p, given, st)
        OBVIOUS
    <2>6. IsSequence(b) /\ Len(b) = m + n /\ \A i \in 1..(m + n) : b[i] = Replaced(p, given, st[i])
        BY <1>3, <2>5, FunctionSequence DEF Filled
    <2>7. ASSUME NEW i \in 1..(m + n) PROVE b[i] = a[i]
        <3>1. CASE i \in 1..m
            BY <1>3, <2>2, <2>4, <2>6, <3>1
        <3>2. CASE i - m \in 1..n /\ m + (i - m) = i
            <4>1. st[i] = t[i - m] /\ a[i] = t[i - m] /\ t[i - m].kind # "hole"
                BY <1>3, <1>4, <2>4, <3>2
            <4> QED BY <2>6, <4>1 DEF Replaced
        <3> QED BY <1>5, <3>1, <3>2
    <2>8. b = a
        BY <2>4, <2>6, <2>7, SameSequence
    <2> QED BY <2>1, <2>3, <2>5, <2>8
<1>7. Fillable(p, given, st) <=> Fillable(p, given, s)
    <2>1. ASSUME NEW i \in 1..n PROVE HasValue(p, given, st[m + i])
        BY <1>3, <1>4 DEF HasValue
    <2>2. ASSUME Fillable(p, given, s) PROVE Fillable(p, given, st)
        <3>1. ASSUME NEW i \in 1..(m + n) PROVE HasValue(p, given, st[i])
            <4>1. CASE i \in 1..m
                BY <1>1, <1>3, <2>2, <4>1 DEF Fillable
            <4>2. CASE i - m \in 1..n /\ m + (i - m) = i
                <5>1. HasValue(p, given, st[m + (i - m)])
                    BY <2>1, <4>2
                <5> QED BY <4>2, <5>1
            <4> QED BY <1>5, <4>1, <4>2
        <3> QED BY <1>3, <3>1 DEF Fillable
    <2>3. ASSUME Fillable(p, given, st) PROVE Fillable(p, given, s)
        <3>1. \A i \in 1..m : i \in 1..(m + n)
            OBVIOUS
        <3> QED BY <1>1, <1>3, <2>3, <3>1 DEF Fillable
    <2> QED BY <2>2, <2>3
<1> QED BY <1>2, <1>6, <1>7

\* A placeholder at the end is replaced by its value, if it has one.
LEMMA FilledAppend ==
    ASSUME NEW p, NEW given, NEW s, IsSequence(s), NEW h
    PROVE  /\ Filled(p, given, Append(s, h)) = Append(Filled(p, given, s), Replaced(p, given, h))
           /\ Fillable(p, given, Append(s, h)) <=> Fillable(p, given, s) /\ HasValue(p, given, h)
<1>1. PICK m \in Nat : m = Len(s)
    BY SequenceFacts
<1>2. PICK sh : sh = Append(s, h)
    OBVIOUS
<1>3. IsSequence(sh) /\ Len(sh) = m + 1 /\ sh[m + 1] = h /\ \A i \in 1..m : sh[i] = s[i]
    BY <1>1, <1>2, AppendFacts
<1>4. \A i \in 1..(m + 1) : i \in 1..m \/ i = m + 1
    OBVIOUS
<1>5. m + 1 \in 1..(m + 1) /\ \A i \in 1..m : i \in 1..(m + 1)
    OBVIOUS
<1>6. Filled(p, given, sh) = Append(Filled(p, given, s), Replaced(p, given, h))
    <2>1. PICK f : f = Filled(p, given, s)
        OBVIOUS
    <2>2. IsSequence(f) /\ Len(f) = m /\ \A i \in 1..m : f[i] = Replaced(p, given, s[i])
        BY <1>1, <2>1, FunctionSequence DEF Filled
    <2>3. PICK x : x = Replaced(p, given, h)
        OBVIOUS
    <2>4. PICK a : a = Append(f, x)
        OBVIOUS
    <2>5. IsSequence(a) /\ Len(a) = m + 1 /\ a[m + 1] = x /\ \A i \in 1..m : a[i] = f[i]
        BY <2>2, <2>4, AppendFacts
    <2>6. PICK b : b = Filled(p, given, sh)
        OBVIOUS
    <2>7. IsSequence(b) /\ Len(b) = m + 1 /\ \A i \in 1..(m + 1) : b[i] = Replaced(p, given, sh[i])
        BY <1>3, <2>6, FunctionSequence DEF Filled
    <2>8. ASSUME NEW i \in 1..(m + 1) PROVE b[i] = a[i]
        <3>1. CASE i \in 1..m
            BY <1>3, <1>5, <2>2, <2>5, <2>7, <3>1
        <3>2. CASE i = m + 1
            BY <1>3, <1>5, <2>3, <2>5, <2>7, <3>2
        <3> QED BY <1>4, <3>1, <3>2
    <2>9. b = a
        BY <2>5, <2>7, <2>8, SameSequence
    <2> QED BY <2>1, <2>3, <2>4, <2>6, <2>9
<1>7. Fillable(p, given, sh) <=> Fillable(p, given, s) /\ HasValue(p, given, h)
    <2>1. ASSUME Fillable(p, given, s), HasValue(p, given, h) PROVE Fillable(p, given, sh)
        <3>1. ASSUME NEW i \in 1..(m + 1) PROVE HasValue(p, given, sh[i])
            <4>1. CASE i \in 1..m
                BY <1>1, <1>3, <2>1, <4>1 DEF Fillable
            <4>2. CASE i = m + 1
                BY <1>3, <2>1, <4>2
            <4> QED BY <1>4, <4>1, <4>2
        <3> QED BY <1>3, <3>1 DEF Fillable
    <2>2. ASSUME Fillable(p, given, sh) PROVE Fillable(p, given, s) /\ HasValue(p, given, h)
        BY <1>1, <1>3, <1>5, <2>2 DEF Fillable
    <2> QED BY <2>1, <2>2
<1> QED BY <1>2, <1>6, <1>7

\* What is known of a statement when the text s of its template is behind it.
AreParms(p) == IsSequence(p) /\ \A i \in DOMAIN p : IsFresh(p[i])
Proceeds(acc, p, given, s) ==
    /\ acc = [out |-> acc.out, own |-> acc.own, thrown |-> acc.thrown]
    /\ Plain(acc.out) /\ Len(acc.out) <= Len(s)
    /\ AreDefaults(acc.own, given)
    /\ acc.thrown \in BOOLEAN
    /\ acc.thrown => ~Fillable(p, given, s)
    /\ ~acc.thrown => Fillable(p, given, s) /\ acc.out = Filled(p, given, s)

\* Proceeds, expanded once for all.
LEMMA ProceedsIs ==
    ASSUME NEW p, NEW given, NEW s, NEW out, NEW own, NEW thrown \in BOOLEAN
    PROVE  Proceeds([out |-> out, own |-> own, thrown |-> thrown], p, given, s) <=>
               /\ Plain(out) /\ Len(out) <= Len(s) /\ AreDefaults(own, given)
               /\ thrown => ~Fillable(p, given, s)
               /\ ~thrown => Fillable(p, given, s) /\ out = Filled(p, given, s)
<1>1. PICK acc : acc = [out |-> out, own |-> own, thrown |-> thrown]
    OBVIOUS
<1>2. acc.out = out /\ acc.own = own /\ acc.thrown = thrown
    BY <1>1
<1>3. acc = [out |-> acc.out, own |-> acc.own, thrown |-> acc.thrown]
    BY <1>1, <1>2, Zenon
<1>4. acc.thrown \in BOOLEAN
    BY <1>2, Zenon
<1>5. acc.thrown <=> thrown
    BY <1>2, Zenon
<1>6. Proceeds(acc, p, given, s) <=>
          /\ Plain(acc.out) /\ Len(acc.out) <= Len(s) /\ AreDefaults(acc.own, given)
          /\ acc.thrown => ~Fillable(p, given, s)
          /\ ~acc.thrown => Fillable(p, given, s) /\ acc.out = Filled(p, given, s)
    BY <1>3, <1>4, Zenon DEF Proceeds
<1> QED BY <1>1, <1>2, <1>5, <1>6, Zenon

\* The text before a placeholder is copied.
LEMMA TextProceeds ==
    ASSUME NEW p, NEW given, NEW s, IsSequence(s), NEW before, Plain(before),
           NEW out, NEW own, Proceeds([out |-> out, own |-> own, thrown |-> FALSE], p, given, s)
    PROVE  Proceeds([out |-> out \o before, own |-> own, thrown |-> FALSE], p, given, s \o before)
<1>3. /\ Plain(out) /\ Len(out) <= Len(s) /\ AreDefaults(own, given)
      /\ Fillable(p, given, s) /\ out = Filled(p, given, s)
    BY ProceedsIs
<1>4. PICK o2 : o2 = out \o before
    OBVIOUS
<1>5. PICK s2 : s2 = s \o before
    OBVIOUS
<1>6. Plain(o2)
    BY <1>3, <1>4, PlainFacts
<1>7. Len(o2) <= Len(s2)
    <2>1. PICK i \in Nat, j \in Nat, k \in Nat : i = Len(out) /\ j = Len(s) /\ k = Len(before)
        BY <1>3, SequenceFacts DEF Plain
    <2>2. Len(o2) = i + k
        BY <1>3, <1>4, <2>1, ConcatFacts DEF Plain
    <2>3. Len(s2) = j + k
        BY <1>5, <2>1, ConcatFacts DEF Plain
    <2> QED BY <1>3, <2>1, <2>2, <2>3
<1>8. Fillable(p, given, s2) /\ o2 = Filled(p, given, s2)
    <2>1. /\ Filled(p, given, s \o before) = Filled(p, given, s) \o before
          /\ Fillable(p, given, s \o before) <=> Fillable(p, given, s)
        BY FilledConcat
    <2> QED BY <1>3, <1>4, <1>5, <2>1, Zenon
<1>9. Proceeds([out |-> o2, own |-> own, thrown |-> FALSE], p, given, s2)
    BY <1>3, <1>6, <1>7, <1>8, ProceedsIs
<1> QED BY <1>4, <1>5, <1>9

\* Whatever is known stays so when a statement was given up.
LEMMA ThrownProceeds ==
    ASSUME NEW p, NEW given, NEW s, IsSequence(s), NEW t, IsSequence(t),
           \A i \in 1..Len(s) : t[i] = s[i], Len(s) <= Len(t),
           NEW acc, Proceeds(acc, p, given, s), acc.thrown
    PROVE  Proceeds(acc, p, given, t)
<1>1. PICK i \in Nat, m \in Nat, n \in Nat : i = Len(acc.out) /\ m = Len(s) /\ n = Len(t)
    BY SequenceFacts DEF Proceeds, Plain
<1>2. Len(acc.out) <= Len(t)
    <2>1. i <= m
        BY <1>1 DEF Proceeds
    <2> QED BY <1>1, <2>1
<1>3. ~Fillable(p, given, t)
    <2>1. PICK j \in 1..m : ~HasValue(p, given, s[j])
        BY <1>1 DEF Proceeds, Fillable
    <2>2. j \in 1..n
        BY <1>1, <2>1
    <2> QED BY <1>1, <2>1, <2>2 DEF Fillable
<1> QED BY <1>2, <1>3 DEF Proceeds

\* A placeholder is replaced by the text x and own stays what it should be;
\* if it has no value the text x ends the statement.
LEMMA HoleProceeds ==
    ASSUME NEW p, NEW given, NEW s, IsSequence(s), NEW h, NEW x, x.kind # "hole",
           NEW out, NEW own, Proceeds([out |-> out, own |-> own, thrown |-> FALSE], p, given, s),
           NEW own2, AreDefaults(own2, given), NEW thrown \in BOOLEAN,
           thrown => ~HasValue(p, given, h),
           ~thrown => HasValue(p, given, h) /\ x = Replaced(p, given, h)
    PROVE  Proceeds([out |-> Append(out, x), own |-> own2, thrown |-> thrown],
                    p, given, Append(s, h))
<1>3. /\ Plain(out) /\ Len(out) <= Len(s)
      /\ Fillable(p, given, s) /\ out = Filled(p, given, s)
    BY ProceedsIs
<1>4. PICK o2 : o2 = Append(out, x)
    OBVIOUS
<1>5. PICK s2 : s2 = Append(s, h)
    OBVIOUS
<1>6. Plain(o2)
    BY <1>3, <1>4, PlainFacts
<1>7. Len(o2) <= Len(s2)
    <2>1. PICK i \in Nat, j \in Nat : i = Len(out) /\ j = Len(s)
        BY <1>3, SequenceFacts DEF Plain
    <2>2. Len(o2) = i + 1
        BY <1>3, <1>4, <2>1, AppendFacts DEF Plain
    <2>3. Len(s2) = j + 1
        BY <1>5, <2>1, AppendFacts
    <2> QED BY <1>3, <2>1, <2>2, <2>3
<1>8. Fillable(p, given, s2) <=> HasValue(p, given, h)
    BY <1>3, <1>5, FilledAppend
<1>9. Filled(p, given, s2) = Append(out, Replaced(p, given, h))
    BY <1>3, <1>5, FilledAppend
<1>10. thrown => ~Fillable(p, given, s2)
    BY <1>8
<1>11. ~thrown => Fillable(p, given, s2) /\ o2 = Filled(p, given, s2)
    BY <1>4, <1>8, <1>9
<1>12. Proceeds([out |-> o2, own |-> own2, thrown |-> thrown], p, given, s2)
    BY <1>6, <1>7, <1>10, <1>11, ProceedsIs
<1> QED BY <1>4, <1>5, <1>12

\* A default that is processed in place is still the default it was.
LEMMA DefaultsStay ==
    ASSUME NEW own, NEW given, AreDefaults(own, given),
           NEW n \in DOMAIN own, NEW d, IsDefault(d, given[n], n - 1)
    PROVE  AreDefaults([own EXCEPT ![n] = d], given)
<1>1. PICK m \in Nat : m = Len(own)
    BY SequenceFacts DEF AreDefaults
<1>2. own = [i \in 1..m |-> own[i]] /\ DOMAIN own = 1..m
    BY <1>1, SequenceFacts, SequenceIsFunction DEF AreDefaults
<1>3. PICK new : new = [own EXCEPT ![n] = d]
    OBVIOUS
<1>4. new = [i \in 1..m |-> new[i]] /\ \A i \in 1..m : new[i] = IF i = n THEN d ELSE own[i]
    BY <1>2, <1>3
<1>5. IsSequence(new) /\ Len(new) = m /\ DOMAIN new = 1..m
    BY <1>4, FunctionSequence
<1>6. \A i \in 1..m : IsDefault(new[i], given[i], i - 1)
    BY <1>2, <1>4 DEF AreDefaults
<1> QED BY <1>1, <1>3, <1>5, <1>6 DEF AreDefaults

\* proc(), one element, in each of its cases.
LEMMA ProcElementProceeds ==
    ASSUME Disciplined, NEW p, AreParms(p), NEW given, AreParms(given),
           NEW s, IsSequence(s), NEW e, IsElement(e),
           NEW acc, Proceeds(acc, p, given, s)
    PROVE  IsSequence(s \o Spelled(e)) /\ Proceeds(ProcElement(p, acc, e), p, given, s \o Spelled(e))
<1>1. PICK out, own, thrown :
          acc = [out |-> out, own |-> own, thrown |-> thrown] /\ thrown \in BOOLEAN
    <2>1. PICK out, own, thrown : out = acc.out /\ own = acc.own /\ thrown = acc.thrown
        OBVIOUS
    <2>2. acc = [out |-> acc.out, own |-> acc.own, thrown |-> acc.thrown] /\ acc.thrown \in BOOLEAN
        BY Zenon DEF Proceeds
    <2> QED BY <2>1, <2>2, Zenon
<1>2. acc.out = out /\ acc.own = own /\ acc.thrown = thrown
    BY <1>1
<1>3. PICK before, num, o : before = e.before /\ num = e.num /\ o = e.option
    OBVIOUS
<1>4. Plain(before) /\ IsSequence(before)
    BY <1>3 DEF IsElement, Plain
<1>5. PICK s1 : s1 = s \o before
    OBVIOUS
<1>6. IsSequence(s1)
    BY <1>4, <1>5, ConcatFacts
<1>7. PICK s2 : s2 = s \o Spelled(e)
    OBVIOUS
<1>8. PICK h : h = Hole(num, o, NoName)
    OBVIOUS
<1>9. h.kind = "hole" /\ h.num = num /\ h.option = o
    BY <1>8 DEF Hole
<1>10. num = -1 => s2 = s1
    <2>1. ASSUME num = -1 PROVE Spelled(e) = before
        <3>1. e.num < 0
            BY <1>3, <2>1, -1 < 0
        <3> QED BY <1>3, <3>1 DEF Spelled
    <2> QED BY <1>5, <1>7, <2>1
<1>11. num # -1 => num \in 0..127 /\ \E g \in Placeholders : num = g.num /\ o = g.option
    BY <1>3 DEF IsElement, Disciplined
<1>12. num # -1 => s2 = Append(s1, h)
    <2>1. ASSUME num # -1 PROVE Spelled(e) = Append(before, h)
        <3>1. ~(num < 0)
            BY <1>11, <2>1
        <3> QED BY <1>3, <1>8, <3>1 DEF Spelled
    <2>2. s \o Append(before, h) = Append(s1, h)
        BY <1>4, <1>5, ConcatAppend
    <2> QED BY <1>7, <2>1, <2>2
<1>13. IsSequence(s2)
    <2>1. CASE num = -1
        BY <1>6, <1>10, <2>1
    <2>2. CASE num # -1
        <3>1. IsSequence(Append(s1, h))
            BY <1>6, AppendFacts
        <3> QED BY <1>12, <2>2, <3>1
    <2> QED BY <2>1, <2>2
<1>14. PICK r : r = ProcElement(p, acc, e)
    OBVIOUS
<1>15. CASE thrown
    <2>1. r = acc
        BY <1>2, <1>14, <1>15 DEF ProcElement
    <2>2. PICK sp : sp = Spelled(e)
        OBVIOUS
    <2>3. IsSequence(sp)
        BY <1>3, <1>4, <2>2, AppendFacts DEF Spelled
    <2>4. /\ Len(s2) = Len(s) + Len(sp) /\ \A i \in 1..Len(s) : s2[i] = s[i]
        BY <1>7, <2>2, <2>3, ConcatFacts
    <2>5. Len(s) <= Len(s2)
        <3>1. Len(s) \in Nat /\ Len(sp) \in Nat
            BY <2>3, SequenceFacts
        <3> QED BY <2>4, <3>1
    <2> QED BY <1>2, <1>7, <1>13, <1>14, <1>15, <2>1, <2>4, <2>5, ThrownProceeds
<1>16. CASE ~thrown
    <2>1. PICK o1 : o1 = out \o before
        OBVIOUS
    <2>2. Proceeds([out |-> o1, own |-> own, thrown |-> FALSE], p, given, s1)
        <3>1. Proceeds([out |-> out, own |-> own, thrown |-> FALSE], p, given, s)
            BY <1>1, <1>16
        <3> QED BY <1>4, <1>5, <2>1, <3>1, TextProceeds
    <2>3. CASE num = -1
        <3>1. num < 0
            BY <2>3, -1 < 0
        <3>2. r = [acc EXCEPT !.out = o1]
            BY <1>2, <1>3, <1>14, <1>16, <2>1, <3>1 DEF ProcElement
        <3>3. r = [out |-> o1, own |-> own, thrown |-> FALSE]
            BY <1>1, <1>16, <3>2
        <3> QED BY <1>7, <1>10, <1>13, <1>14, <2>2, <2>3, <3>3
    <2>4. CASE num # -1
        <3>1. PICK g \in Placeholders : num = g.num /\ o = g.option
            BY <1>11, <2>4
        <3>2. num \in 0..127 /\ ~(num < 0)
            BY <1>11, <2>4
        <3>3. PICK k \in Nat, m \in Nat : k = Len(p) /\ m = Len(own)
            <4>1. AreDefaults(own, given)
                BY <1>2 DEF Proceeds
            <4> QED BY <4>1, SequenceFacts DEF AreParms, AreDefaults
        <3>4. AreDefaults(own, given) /\ Len(given) = m /\ DOMAIN own = 1..m /\ DOMAIN given = 1..m
            <4>1. AreDefaults(own, given)
                BY <1>2 DEF Proceeds
            <4> QED BY <3>3, <4>1, SequenceFacts DEF AreDefaults, AreParms
        <3>5. HasValue(p, given, h) <=> num < k \/ num < m
            BY <1>9, <3>3, <3>4 DEF HasValue
        <3>6. CASE num < k
            <4>1. num + 1 \in DOMAIN p
                BY <3>2, <3>3, <3>6, SequenceFacts DEF AreParms
            <4>2. PICK x : x = Written(Prepared(o, p[num + 1]))
                OBVIOUS
            <4>3. x.kind # "hole"
                BY <4>2, SameIsWritten DEF SameText
            <4>4. x = Replaced(p, given, h)
                <5>1. IsFresh(p[num + 1])
                    BY <4>1 DEF AreParms
                <5>2. x = Quoted(o, p[num + 1])
                    BY <4>2, <5>1, FreshIsQuoted
                <5>3. ValueFor(p, given, num) = p[num + 1]
                    BY <3>3, <3>6 DEF ValueFor
                <5> QED BY <1>9, <5>2, <5>3 DEF Replaced
            <4>5. r = [acc EXCEPT !.out = Append(o1, x)]
                BY <1>2, <1>3, <1>14, <1>16, <2>1, <3>2, <3>3, <3>6, <4>2 DEF ProcElement
            <4>6. r = [out |-> Append(o1, x), own |-> own, thrown |-> FALSE]
                BY <1>1, <1>16, <4>5
            <4>7. Proceeds([out |-> Append(o1, x), own |-> own, thrown |-> FALSE], p, given, Append(s1, h))
                BY <1>6, <2>2, <3>4, <3>5, <3>6, <4>3, <4>4, HoleProceeds
            <4> QED BY <1>7, <1>12, <1>13, <1>14, <2>4, <4>6, <4>7
        <3>7. CASE ~(num < k) /\ num >= m
            <4>1. PICK x : x = Lit(" ERROR")
                OBVIOUS
            <4>2. x.kind # "hole"
                BY <4>1 DEF Lit
            <4>3. r = [acc EXCEPT !.out = Append(o1, x), !.thrown = TRUE]
                BY <1>2, <1>3, <1>14, <1>16, <2>1, <3>2, <3>3, <3>7, <4>1 DEF ProcElement
            <4>4. r = [out |-> Append(o1, x), own |-> own, thrown |-> TRUE]
                BY <1>1, <4>3
            <4>5. ~HasValue(p, given, h)
                BY <3>2, <3>5, <3>7
            <4>6. Proceeds([out |-> Append(o1, x), own |-> own, thrown |-> TRUE], p, given, Append(s1, h))
                BY <1>6, <2>2, <3>4, <4>2, <4>5, HoleProceeds
            <4> QED BY <1>7, <1>12, <1>13, <1>14, <2>4, <4>4, <4>6
        <3>8. CASE ~(num < k) /\ ~(num >= m)
            <4>1. PICK d, v : d = own[num + 1] /\ v = given[num + 1]
                OBVIOUS
            <4>2. num + 1 \in DOMAIN own /\ num + 1 \in DOMAIN given /\ (num + 1) - 1 = num
                <5>1. num + 1 \in 1..m /\ (num + 1) - 1 = num
                    BY <3>2, <3>3, <3>8
                <5> QED BY <3>4, <5>1
            <4>3. IsFresh(v) /\ IsDefault(d, v, g.num)
                BY <3>1, <3>4, <4>1, <4>2 DEF AreDefaults, AreParms
            <4>4. /\ d.null => Written(d) = Quoted(o, v)
                  /\ ~d.null => /\ Written(Prepared(o, d)) = Quoted(o, v)
                                /\ IsDefault(Processed(Prepared(o, d)), v, num)
                BY <3>1, <4>3, DefaultIsQuoted
            <4>5. Quoted(o, v) = Replaced(p, given, h) /\ Quoted(o, v).kind # "hole"
                <5>1. ValueFor(p, given, num) = v
                    BY <3>3, <3>8, <4>1 DEF ValueFor
                <5> QED BY <1>9, <4>3, <5>1, FreshIsQuoted DEF Replaced
            <4>6. HasValue(p, given, h)
                BY <3>2, <3>5, <3>8
            <4>7. PICK x : x = Quoted(o, v)
                OBVIOUS
            <4>8. CASE d.null
                <5>1. r = [acc EXCEPT !.out = Append(o1, x)]
                    BY <1>2, <1>3, <1>14, <1>16, <2>1, <3>2, <3>3, <3>8, <4>1, <4>4, <4>7, <4>8 DEF ProcElement
                <5>2. r = [out |-> Append(o1, x), own |-> own, thrown |-> FALSE]
                    BY <1>1, <1>16, <5>1
                <5>3. Proceeds([out |-> Append(o1, x), own |-> own, thrown |-> FALSE], p, given, Append(s1, h))
                    BY <1>6, <2>2, <3>4, <4>5, <4>6, <4>7, HoleProceeds
                <5> QED BY <1>7, <1>12, <1>13, <1>14, <2>4, <5>2, <5>3
            <4>9. CASE ~d.null
                <5>1. PICK d2 : d2 = Processed(Prepared(o, d))
                    OBVIOUS
                <5>2. PICK own2 : own2 = [own EXCEPT ![num + 1] = d2]
                    OBVIOUS
                <5>3. AreDefaults(own2, given)
                    BY <3>4, <4>1, <4>2, <4>4, <4>9, <5>1, <5>2, DefaultsStay
                <5>4. r = [acc EXCEPT !.out = Append(o1, x), !.own[num + 1] = d2]
                    BY <1>2, <1>3, <1>14, <1>16, <2>1, <3>2, <3>3, <3>8, <4>1, <4>4, <4>7, <4>9, <5>1 DEF ProcElement
                <5>5. r = [out |-> Append(o1, x), own |-> own2, thrown |-> FALSE]
                    BY <1>1, <1>16, <5>2, <5>4
                <5>6. Proceeds([out |-> Append(o1, x), own |-> own2, thrown |-> FALSE], p, given, Append(s1, h))
                    BY <1>6, <2>2, <4>5, <4>6, <4>7, <5>3, HoleProceeds
                <5> QED BY <1>7, <1>12, <1>13, <1>14, <2>4, <5>5, <5>6
            <4> QED BY <4>8, <4>9
        <3> QED BY <3>6, <3>7, <3>8
    <2> QED BY <2>3, <2>4
<1> QED BY <1>15, <1>16

\* So proc() has written, at each element, the template up to there.
LEMMA ProceedsSoFar ==
    ASSUME Disciplined, NEW p, AreParms(p), NEW given, AreParms(given),
           NEW own, AreDefaults(own, given), NEW elems, ElementsOK(elems),
           NEW N \in Nat, N = Len(elems), NEW g, SpellsTo(elems, N, g),
           NEW f, ProcsTo(p, elems, own, N, f)
    PROVE  IsSequence(g[N]) /\ Proceeds(f[N], p, given, g[N])
<1> DEFINE Good(n) == IsSequence(g[n]) /\ Proceeds(f[n], p, given, g[n])
           Bad == {n \in 0..N : ~Good(n)}
<1>1. SUFFICES ASSUME ~Good(N) PROVE FALSE
    OBVIOUS
<1>2. N \in Bad /\ Bad \subseteq Nat
    BY <1>1
<1>3. PICK n \in Bad : \A m \in Bad : ~(<<m, n>> \in OpToRel(<, Nat))
    <2> HIDE DEF Bad
    <2> QED BY <1>2, NatLessThanWellFounded, WFMin
<1>4. n \in 0..N /\ ~Good(n)
    OBVIOUS
<1>5. /\ f[0] = ProcStart(own) /\ g[0] = <<>>
      /\ \A i \in 1..N : f[i] = ProcElement(p, f[i - 1], elems[i])
      /\ \A i \in 1..N : g[i] = g[i - 1] \o Spelled(elems[i])
    <2>1. /\ f[0] = ProcStart(own)
          /\ \A i \in 1..N : f[i] = ProcElement(p, f[i - 1], elems[i])
        <3> HIDE DEF Good, Bad
        <3>1. \A i \in 0..N :
                  f[i] = IF i = 0 THEN ProcStart(own) ELSE ProcElement(p, f[i - 1], elems[i])
            BY DEF ProcsTo
        <3>2. 0 \in 0..N /\ \A i \in 1..N : i \in 0..N /\ i # 0
            OBVIOUS
        <3> QED BY <3>1, <3>2
    <2>2. g[0] = <<>> /\ \A i \in 1..N : g[i] = g[i - 1] \o Spelled(elems[i])
        BY SpellsStep
    <2> QED BY <2>1, <2>2
<1>6. CASE n = 0
    <2>1. Fillable(p, given, <<>>) /\ Filled(p, given, <<>>) = <<>>
        <3>1. Len(<<>>) = 0
            BY EmptySequence
        <3>2. Fillable(p, given, <<>>)
            BY <3>1 DEF Fillable
        <3>3. PICK e : e = <<>>
            OBVIOUS
        <3>4. PICK s : s = [i \in 1..0 |-> Replaced(p, given, e[i])]
            OBVIOUS
        <3>5. s = <<>>
            BY <3>4, FunctionSequence, EmptySequence
        <3>6. Filled(p, given, e) = s
            BY <3>1, <3>3, <3>4, Zenon DEF Filled
        <3> QED BY <3>2, <3>3, <3>5, <3>6
    <2>2. Plain(<<>>) /\ Len(<<>>) <= Len(<<>>)
        BY EmptyText, EmptySequence
    <2>3. Proceeds([out |-> <<>>, own |-> own, thrown |-> FALSE], p, given, <<>>)
        BY <2>1, <2>2, ProceedsIs
    <2>4. Good(0)
        BY <1>5, <2>3, EmptySequence DEF ProcStart
    <2> QED BY <1>4, <1>6, <2>4
<1>7. CASE n # 0
    <2>1. PICK m \in Nat : m = n - 1
        BY <1>4, <1>7
    <2>2. m \in 0..N /\ <<m, n>> \in OpToRel(<, Nat) /\ n \in 1..N
        BY <1>4, <1>7, <2>1 DEF OpToRel
    <2>3. Good(m)
        BY <1>3, <2>2
    <2>4. IsElement(elems[n])
        BY <2>2, SequenceFacts DEF ElementsOK
    <2>5. f[n] = ProcElement(p, f[m], elems[n]) /\ g[n] = g[m] \o Spelled(elems[n])
        BY <1>5, <2>1, <2>2
    <2>6. PICK fm, gm, e : fm = f[m] /\ gm = g[m] /\ e = elems[n]
        OBVIOUS
    <2>7. IsSequence(gm \o Spelled(e)) /\ Proceeds(ProcElement(p, fm, e), p, given, gm \o Spelled(e))
        BY <2>3, <2>4, <2>6, ProcElementProceeds
    <2> QED BY <1>4, <2>5, <2>6, <2>7
<1> QED BY <1>6, <1>7

\* A statement is the template's text with every placeholder replaced, or is
\* given up at one without a value; either way the defaults stay what they are.
LEMMA ProcFacts ==
    ASSUME Disciplined, NEW p, AreParms(p), NEW given, AreParms(given),
           NEW own, AreDefaults(own, given), NEW elems, ElementsOK(elems)
    PROVE  Proceeds(Proc(p, elems, own), p, given, Spelling(elems))
<1>1. PICK n \in Nat : n = Len(elems)
    BY SequenceFacts DEF ElementsOK
<1>2. PICK f : ProcsTo(p, elems, own, n, f) /\ Proc(p, elems, own) = f[n]
    BY <1>1, ProcIs DEF ElementsOK
<1>3. PICK g : SpellsTo(elems, n, g) /\ Spelling(elems) = g[n]
    BY <1>1, SpellingIs DEF ElementsOK
<1>4. Proceeds(f[n], p, given, g[n])
    BY <1>1, <1>2, <1>3, ProceedsSoFar
<1> QED BY <1>2, <1>3, <1>4

\* proc() over elements that spell a template, with defaults processed or
\* not, is the substitution of values in the template.
LEMMA ProcIsSubstituted ==
    ASSUME Disciplined, NEW p, AreParms(p), NEW given, AreParms(given),
           NEW own, AreDefaults(own, given), NEW elems, ElementsOK(elems),
           NEW template, IsText(template),
           Spelling(elems) = [i \in DOMAIN template |-> Unnamed(template[i])]
    PROVE  Statement(Proc(p, elems, own)) = Substituted(template, p, given)
<1>1. PICK n \in Nat : n = Len(template)
    BY SequenceFacts DEF IsText
<1>2. DOMAIN template = 1..n
    BY <1>1, SequenceFacts DEF IsText
<1>3. PICK F : F = [i \in 1..n |-> Unnamed(template[i])]
    OBVIOUS
<1>4. Spelling(elems) = F
    BY <1>2, <1>3
<1>5. IsSequence(F) /\ Len(F) = n /\ \A i \in 1..n : F[i] = Unnamed(template[i])
    BY <1>3, FunctionSequence
<1>6. PICK b : b = Proc(p, elems, own)
    OBVIOUS
<1>7. Proceeds(b, p, given, F)
    BY <1>4, <1>6, ProcFacts
<1>8. ASSUME NEW i \in 1..n
      PROVE  /\ F[i].kind = template[i].kind
             /\ template[i].kind = "hole" =>
                    F[i].num = template[i].num /\ F[i].option = template[i].option
             /\ template[i].kind # "hole" => F[i] = template[i]
    <2>1. PICK t : t = template[i]
        OBVIOUS
    <2>2. CASE t.kind = "hole"
        <3>1. t \in Placeholders
            BY <1>2, <2>1, <2>2 DEF IsText
        <3>2. t = Hole(t.num, t.option, t.name)
            BY <3>1, TextsAssumption
        <3>3. PICK m, o, name : m = t.num /\ o = t.option /\ name = t.name
            OBVIOUS
        <3>4. t = [kind |-> "hole", num |-> m, option |-> o, name |-> name]
            BY <3>2, <3>3 DEF Hole
        <3>5. F[i] = [t EXCEPT !.name = NoName]
            BY <1>5, <2>1, <2>2 DEF Unnamed
        <3>6. F[i] = [kind |-> "hole", num |-> m, option |-> o, name |-> NoName]
            BY <3>4, <3>5
        <3> QED BY <2>1, <2>2, <3>3, <3>6
    <2>3. CASE t.kind # "hole"
        BY <1>5, <2>1, <2>3 DEF Unnamed
    <2> QED BY <2>1, <2>2, <2>3
<1> DEFINE Values == \A i \in 1..n : template[i].kind = "hole" =>
                         template[i].num < Len(p) \/ template[i].num < Len(given)
           Text == [i \in 1..n |->
                      IF template[i].kind = "hole"
                      THEN Quoted(template[i].option,
                                  IF template[i].num < Len(p) THEN p[template[i].num + 1]
                                  ELSE given[template[i].num + 1])
                      ELSE template[i]]
<1>9. Substituted(template, p, given) =
          IF Values THEN [thrown |-> FALSE, text |-> Text] ELSE [thrown |-> TRUE, text |-> <<>>]
    BY <1>2, Zenon DEF Substituted
<1>10. Values <=> Fillable(p, given, F)
    BY <1>5, <1>8 DEF Fillable, HasValue
<1>11. Text = Filled(p, given, F)
    <2>1. ASSUME NEW i \in 1..n PROVE Text[i] = Replaced(p, given, F[i])
        BY <1>8 DEF Replaced, ValueFor
    <2>2. Filled(p, given, F) = [i \in 1..n |-> Replaced(p, given, F[i])]
        BY <1>5 DEF Filled
    <2>3. Text = [i \in 1..n |-> Text[i]]
        OBVIOUS
    <2> HIDE DEF Text
    <2> QED BY <2>1, <2>2, <2>3
<1> HIDE DEF Values, Text
<1>12. CASE b.thrown
    <2>1. ~Values
        BY <1>7, <1>10, <1>12 DEF Proceeds
    <2>2. b.thrown = TRUE
        BY <1>7, <1>12 DEF Proceeds
    <2> QED BY <1>6, <1>9, <1>12, <2>1, <2>2 DEF Statement
<1>13. CASE ~b.thrown
    <2>1. Values /\ b.out = Text
        BY <1>7, <1>10, <1>11, <1>13 DEF Proceeds
    <2>2. b.thrown = FALSE
        BY <1>7, <1>13 DEF Proceeds
    <2> QED BY <1>6, <1>9, <1>13, <2>1, <2>2 DEF Statement
<1> QED BY <1>12, <1>13

-----------------------------------------------------------------------------
(***************************************************************************)
(* Parameters and defaults.                                                *)
(***************************************************************************)
LEMMA ParmsAreParms ==
    /\ \A p \in Parms : AreParms(p)
    /\ \A S : IsFresh(S) => AreParms(<<S>>)
    /\ AreParms(<<>>)
<1>1. ASSUME NEW p \in Parms PROVE AreParms(p)
    <2>1. PICK m \in 0..MaxParms : p \in [1..m -> Parameters]
        BY <1>1, BoundsAssumption DEF Parms, BoundedSeq, SeqOf
    <2>2. DOMAIN p = 1..m /\ p = [i \in 1..m |-> p[i]] /\ m \in Nat
        BY <2>1
    <2>3. IsSequence(p)
        BY <2>2, FunctionSequence
    <2> QED BY <2>1, <2>2, <2>3, ParametersAssumption DEF AreParms
<1>2. ASSUME NEW S, IsFresh(S) PROVE AreParms(<<S>>)
    <2>1. <<S>> = Append(<<>>, S)
        OBVIOUS
    <2>2. IsSequence(<<S>>)
        <3>1. IsSequence(Append(<<>>, S))
            BY EmptySequence, AppendFacts
        <3> QED BY <2>1, <3>1, Zenon
    <2>3. DOMAIN <<S>> = {1} /\ <<S>>[1] = S
        OBVIOUS
    <2> QED BY <1>2, <2>2, <2>3 DEF AreParms
<1>3. AreParms(<<>>)
    BY EmptySequence DEF AreParms
<1> QED BY <1>1, <1>2, <1>3

\* The adapters that fill a gap in the vector are fresh.
LEMMA NewIsFresh == \A b : IsFresh(Adapter(b, TRUE))
<1> SUFFICES ASSUME NEW b PROVE IsFresh(Adapter(b, TRUE))
    OBVIOUS
<1>1. PICK A : A = Adapter(b, TRUE)
    OBVIOUS
<1>2. A = [body |-> b, string |-> TRUE, null |-> FALSE, wraps |-> <<>>, is_processed_ |-> FALSE]
    BY <1>1 DEF Adapter
<1>3. A.body = b /\ A.string = TRUE /\ A.null = FALSE
    BY <1>2
<1>4. A = [A EXCEPT !.null = FALSE]
    <2>1. PICK T : T = [A EXCEPT !.null = FALSE]
        OBVIOUS
    <2>2. T = [body |-> b, string |-> TRUE, null |-> FALSE, wraps |-> <<>>, is_processed_ |-> FALSE]
        BY <1>2, <2>1
    <2> QED BY <1>2, <2>1, <2>2, Zenon
<1>5. A = [Adapter(A.body, A.string) EXCEPT !.null = A.null]
    BY <1>1, <1>3, <1>4, Zenon
<1> QED BY <1>1, <1>3, <1>5 DEF IsFresh

\* A default without the mark is the one given, and loses nothing by a copy.
LEMMA UnprocessedIsGiven ==
    ASSUME NEW given, IsFresh(given), NEW d, NEW n, IsDefault(d, given, n), ~d.is_processed_
    PROVE  d = given /\ Lost(d) = d
<1>1. d = given
    <2>1. SUFFICES ASSUME NEW o, d = Processed(Prepared(o, given)) PROVE FALSE
        BY DEF IsDefault
    <2>2. IsParm(Prepared(o, given))
        BY FreshFields, PreparedFields
    <2>3. Processed(Prepared(o, given)).is_processed_
        BY <2>2, ProcessedFields
    <2> QED BY <2>1, <2>3
<1>2. PICK b, st, nu, w : /\ b = d.body /\ st = d.string /\ nu = d.null /\ w = d.wraps
    OBVIOUS
<1>3. d = [body |-> b, string |-> st, null |-> nu, wraps |-> w, is_processed_ |-> d.is_processed_]
    BY <1>1, <1>2, FreshFields DEF IsParm
<1>4. d = [Adapter(d.body, d.string) EXCEPT !.null = d.null]
    BY <1>1 DEF IsFresh
<1>5. d.is_processed_ = FALSE
    <2>1. PICK A : A = Adapter(d.body, d.string)
        OBVIOUS
    <2>2. A = [body |-> b, string |-> st, null |-> FALSE, wraps |-> <<>>, is_processed_ |-> FALSE]
        BY <1>2, <2>1 DEF Adapter
    <2>3. d = [A EXCEPT !.null = nu]
        BY <1>2, <1>4, <2>1, Zenon
    <2> QED BY <2>2, <2>3
<1>6. Lost(d) = [d EXCEPT !.is_processed_ = FALSE]
    BY DEF Lost
<1>7. d = [body |-> b, string |-> st, null |-> nu, wraps |-> w, is_processed_ |-> FALSE]
    BY <1>3, <1>5, Zenon
<1>8. Lost(d) = d
    BY <1>6, <1>7
<1> QED BY <1>1, <1>8

\* Nothing is lost of defaults that were not used yet.
LEMMA UnusedStay ==
    ASSUME NEW given, AreParms(given), NEW own, AreDefaults(own, given),
           \A i \in DOMAIN own : ~own[i].is_processed_
    PROVE  Moved(own) = own
<1>1. PICK m \in Nat : m = Len(own)
    BY SequenceFacts DEF AreDefaults
<1>2. own = [i \in 1..m |-> own[i]] /\ DOMAIN own = 1..m /\ DOMAIN given = 1..m
    BY <1>1, SequenceFacts, SequenceIsFunction DEF AreDefaults, AreParms
<1>3. ASSUME NEW i \in 1..m PROVE Lost(own[i]) = own[i]
    <2>1. IsFresh(given[i]) /\ IsDefault(own[i], given[i], i - 1) /\ ~own[i].is_processed_
        BY <1>2 DEF AreDefaults, AreParms
    <2> QED BY <2>1, UnprocessedIsGiven
<1>4. Moved(own) = [i \in 1..m |-> Lost(own[i])]
    BY <1>2 DEF Moved
<1> QED BY <1>2, <1>3, <1>4

\* What SQLQueryParms::operator[] leaves where it was.
LEMMA WithRoomFacts ==
    ASSUME NEW d, IsSequence(d), NEW n \in Nat
    PROVE  LET w == WithRoom(d, n)
           IN  /\ IsSequence(w)
               /\ Len(w) = IF n >= Len(d) THEN n + 1 ELSE Len(d)
               /\ \A i \in DOMAIN w : w[i] = IF i <= Len(d) THEN d[i] ELSE Adapter(<<>>, TRUE)
<1>1. PICK m \in Nat : m = Len(d)
    BY SequenceFacts
<1>2. PICK k \in Nat : k = IF n >= m THEN n + 1 - m ELSE 0
    <2>1. (IF n >= m THEN n + 1 - m ELSE 0) \in Nat
        OBVIOUS
    <2> QED BY <2>1
<1>3. 1..(n + 1 - m) = 1..k
    BY <1>2
<1>4. PICK x : x = Adapter(<<>>, TRUE)
    OBVIOUS
<1>5. PICK t : t = [i \in 1..k |-> x]
    OBVIOUS
<1>6. IsSequence(t) /\ Len(t) = k /\ \A i \in 1..k : t[i] = x
    BY <1>5, FunctionSequence
<1>7. PICK w : w = d \o t
    OBVIOUS
<1>8. WithRoom(d, n) = w
    BY <1>1, <1>3, <1>4, <1>5, <1>7 DEF WithRoom
<1>9. /\ IsSequence(w) /\ Len(w) = m + k
      /\ \A i \in 1..m : w[i] = d[i]
      /\ \A i \in 1..k : w[m + i] = t[i]
    <2>1. /\ IsSequence(w) /\ Len(w) = Len(d) + Len(t)
          /\ \A i \in 1..Len(d) : w[i] = d[i]
          /\ \A i \in 1..Len(t) : w[Len(d) + i] = t[i]
        <3>1. IsSequence(t)
            BY <1>6
        <3> QED BY <1>7, <3>1, ConcatFacts
    <2> QED BY <1>1, <1>6, <2>1
<1>10. DOMAIN w = 1..(m + k)
    BY <1>9, SequenceFacts
<1>11. m + k = IF n >= m THEN n + 1 ELSE m
    BY <1>2
<1>12. ASSUME NEW i \in 1..(m + k) PROVE w[i] = IF i <= m THEN d[i] ELSE x
    <2>1. CASE i <= m
        BY <1>9, <2>1
    <2>2. CASE ~(i <= m)
        <3>1. i - m \in 1..k /\ m + (i - m) = i
            BY <2>2
        <3> QED BY <1>6, <1>9, <2>2, <3>1
    <2> QED BY <2>1, <2>2
<1> QED BY <1>1, <1>4, <1>8, <1>9, <1>10, <1>11, <1>12

\* A default the program gives takes its place in both.
LEMMA GivenDefault ==
    ASSUME NEW given, AreParms(given), NEW own, AreDefaults(own, given),
           NEW n \in Nat, NEW v, IsFresh(v)
    PROVE  /\ AreParms([WithRoom(given, n) EXCEPT ![n + 1] = v])
           /\ AreDefaults([WithRoom(own, n) EXCEPT ![n + 1] = v],
                          [WithRoom(given, n) EXCEPT ![n + 1] = v])
<1>1. IsSequence(given) /\ IsSequence(own) /\ Len(own) = Len(given)
    BY DEF AreParms, AreDefaults
<1>2. PICK m \in Nat : m = Len(own) /\ m = Len(given)
    BY <1>1, SequenceFacts
<1>3. PICK k \in Nat : k = IF n >= m THEN n + 1 ELSE m
    OBVIOUS
<1>4. PICK x : x = Adapter(<<>>, TRUE)
    OBVIOUS
<1>5. PICK wo, wg : wo = WithRoom(own, n) /\ wg = WithRoom(given, n)
    OBVIOUS
<1>6. /\ IsSequence(wo) /\ Len(wo) = k
      /\ \A i \in DOMAIN wo : wo[i] = IF i <= m THEN own[i] ELSE x
    BY <1>1, <1>2, <1>3, <1>4, <1>5, WithRoomFacts
<1>7. /\ IsSequence(wg) /\ Len(wg) = k
      /\ \A i \in DOMAIN wg : wg[i] = IF i <= m THEN given[i] ELSE x
    BY <1>1, <1>2, <1>3, <1>4, <1>5, WithRoomFacts
<1>8. DOMAIN wo = 1..k /\ DOMAIN wg = 1..k /\ wo = [i \in 1..k |-> wo[i]] /\ wg = [i \in 1..k |-> wg[i]]
    BY <1>6, <1>7, SequenceFacts, SequenceIsFunction
<1>9. PICK new, gnew : new = [wo EXCEPT ![n + 1] = v] /\ gnew = [wg EXCEPT ![n + 1] = v]
    OBVIOUS
<1>10. /\ new = [i \in 1..k |-> new[i]] /\ gnew = [i \in 1..k |-> gnew[i]]
       /\ \A i \in 1..k : new[i] = IF i = n + 1 THEN v ELSE wo[i]
       /\ \A i \in 1..k : gnew[i] = IF i = n + 1 THEN v ELSE wg[i]
    BY <1>8, <1>9
<1>11. IsSequence(new) /\ Len(new) = k /\ IsSequence(gnew) /\ Len(gnew) = k
    BY <1>10, FunctionSequence
<1>12. DOMAIN new = 1..k /\ DOMAIN gnew = 1..k /\ DOMAIN own = 1..m /\ DOMAIN given = 1..m
    BY <1>1, <1>2, <1>11, SequenceFacts
<1>13. ASSUME NEW i \in 1..k PROVE IsFresh(gnew[i]) /\ IsDefault(new[i], gnew[i], i - 1)
    <2>1. CASE i = n + 1
        BY <1>10, <2>1 DEF IsDefault
    <2>2. CASE i # n + 1 /\ i <= m
        <3>1. i \in 1..m
            BY <2>2
        <3>2. new[i] = own[i] /\ gnew[i] = given[i]
            BY <1>6, <1>7, <1>8, <1>10, <2>2
        <3> QED BY <1>12, <3>1, <3>2 DEF AreParms, AreDefaults
    <2>3. CASE i # n + 1 /\ ~(i <= m)
        <3>1. new[i] = x /\ gnew[i] = x
            BY <1>6, <1>7, <1>8, <1>10, <2>3
        <3> QED BY <1>4, <3>1, NewIsFresh DEF IsDefault
    <2> QED BY <2>1, <2>2, <2>3
<1> QED BY <1>5, <1>9, <1>11, <1>12, <1>13 DEF AreParms, AreDefaults

-----------------------------------------------------------------------------
(***************************************************************************)
(* The invariant, of one Query at a time.                                  *)
(***************************************************************************)
SoundTemplate(elems, nums, r) ==
    /\ ElementsOK(elems)
    /\ Spelling(elems) = [i \in DOMAIN r.template |-> Unnamed(r.template[i])]
    /\ AreNumbered(r.template, nums)
SoundText(buf, elems, r) ==
    /\ IsText(buf) /\ Len(buf) <= MaxText
    /\ IF r.parsed THEN elems # <<>>
       ELSE r.text = buf /\ elems = <<>> /\ r.template = <<>>
Sound(buf, elems, nums, own, r) ==
    /\ IsIntent(r) /\ AreDefaults(own, r.given)
    /\ SoundTemplate(elems, nums, r) /\ SoundText(buf, elems, r)
SoundQuery(q) ==
    Sound(sbuffer_[q], parse_elems_[q], parsed_nums_[q], template_defaults[q], intent[q])
Shape ==
    /\ parent_ \in [Queries -> Queries \union {Temporary}]
    /\ copacetic_ \in [Queries -> BOOLEAN]
    /\ strayed \in BOOLEAN
    /\ DOMAIN sbuffer_ = Queries /\ DOMAIN parse_elems_ = Queries
    /\ DOMAIN parsed_nums_ = Queries /\ DOMAIN template_defaults = Queries
    /\ DOMAIN intent = Queries

\* The invariant, Query by Query.
LEMMA IInvSplit == IInv <=> Shape /\ \A q \in Queries : SoundQuery(q)
BY DEF IInv, TypeOK, ElementsSpellTemplate, WrittenKept, Shape, SoundQuery, Sound,
       SoundTemplate, SoundText, ElementsOK

\* The same of the next state.
LEMMA IInvSplitNext == IInv' <=> Shape' /\ \A q \in Queries : SoundQuery(q)'
BY DEF IInv, TypeOK, ElementsSpellTemplate, WrittenKept, Shape, SoundQuery, Sound,
       SoundTemplate, SoundText, ElementsOK

Becomes(f, g, q, v) ==
    DOMAIN g = Queries /\ g[q] = v /\ \A s \in Queries : s # q => g[s] = f[s]

\* A variable that stays, or changes for one Query.
LEMMA BecomesFacts ==
    ASSUME NEW f, DOMAIN f = Queries, NEW q \in Queries
    PROVE  Becomes(f, f, q, f[q]) /\ \A v : Becomes(f, [f EXCEPT ![q] = v], q, v)
BY DEF Becomes

\* A call changes its Query only.
LEMMA OneQueryChanges ==
    ASSUME IInv, NEW q \in Queries,
           NEW buf, Becomes(sbuffer_, sbuffer_', q, buf),
           NEW elems, Becomes(parse_elems_, parse_elems_', q, elems),
           NEW nums, Becomes(parsed_nums_, parsed_nums_', q, nums),
           NEW own, Becomes(template_defaults, template_defaults', q, own),
           NEW r, Becomes(intent, intent', q, r),
           parent_' \in [Queries -> Queries \union {Temporary}],
           copacetic_' \in [Queries -> BOOLEAN], strayed' \in BOOLEAN,
           Sound(buf, elems, nums, own, r)
    PROVE  IInv'
<1>1. Shape'
    BY DEF Shape, Becomes
<1>2. ASSUME NEW s \in Queries PROVE SoundQuery(s)'
    <2>1. SoundQuery(s)
        BY IInvSplit
    <2>2. CASE s = q
        <3>1. /\ sbuffer_'[s] = buf /\ parse_elems_'[s] = elems /\ parsed_nums_'[s] = nums
              /\ template_defaults'[s] = own /\ intent'[s] = r
            BY <2>2 DEF Becomes
        <3>2. Sound(sbuffer_'[s], parse_elems_'[s], parsed_nums_'[s], template_defaults'[s], intent'[s])
            BY <3>1, Zenon
        <3> QED BY <3>2, Zenon DEF SoundQuery
    <2>3. CASE s # q
        <3>1. /\ sbuffer_'[s] = sbuffer_[s] /\ parse_elems_'[s] = parse_elems_[s]
              /\ parsed_nums_'[s] = parsed_nums_[s]
              /\ template_defaults'[s] = template_defaults[s] /\ intent'[s] = intent[s]
            BY <2>3 DEF Becomes
        <3>2. Sound(sbuffer_'[s], parse_elems_'[s], parsed_nums_'[s], template_defaults'[s], intent'[s])
            BY <2>1, <3>1, Zenon DEF SoundQuery
        <3> QED BY <3>2, Zenon DEF SoundQuery
    <2> QED BY <2>2, <2>3
<1> QED BY <1>1, <1>2, IInvSplitNext

\* A Query with text and nothing else is sound.
LEMMA FreshQuery ==
    ASSUME NEW t, IsText(t), Len(t) <= MaxText, NEW nums, NEW r,
           r = [text |-> t, parsed |-> FALSE, template |-> <<>>, given |-> <<>>]
    PROVE  Sound(t, <<>>, nums, <<>>, r)
<1>1. r.text = t /\ r.parsed = FALSE /\ r.template = <<>> /\ r.given = <<>>
    OBVIOUS
<1>2. r = [text |-> r.text, parsed |-> r.parsed, template |-> r.template, given |-> r.given]
    BY <1>1, Zenon
<1>3. IsIntent(r)
    <2>1. IsText(r.template) /\ Len(r.template) <= MaxText
        BY <1>1, EmptyText, EmptySequence, BoundsAssumption
    <2>2. IsSequence(r.given) /\ \A i \in DOMAIN r.given : IsFresh(r.given[i])
        BY <1>1, EmptySequence
    <2> QED BY <1>1, <1>2, <2>1, <2>2 DEF IsIntent
<1>4. AreDefaults(<<>>, r.given)
    BY <1>1, EmptySequence DEF AreDefaults
<1>5. SoundTemplate(<<>>, nums, r)
    <2>1. DOMAIN r.template = {}
        BY <1>1, EmptySequence
    <2>2. ElementsOK(<<>>)
        BY EmptySequence DEF ElementsOK
    <2>3. Spelling(<<>>) = [i \in DOMAIN r.template |-> Unnamed(r.template[i])]
        <3>1. [i \in {} |-> Unnamed(r.template[i])] = <<>>
            BY EmptySequence
        <3> QED BY <2>1, <3>1, SpellingFacts
    <2> QED BY <2>1, <2>2, <2>3 DEF SoundTemplate, AreNumbered
<1>6. SoundText(t, <<>>, r)
    BY <1>1 DEF SoundText
<1> QED BY <1>3, <1>4, <1>5, <1>6 DEF Sound

\* What the program inserts is text.
LEMMA TextIsText == \A t \in Texts : IsText(t)
<1> SUFFICES ASSUME NEW t \in Texts PROVE IsText(t)
    OBVIOUS
<1>1. IsSequence(t)
    BY TextsAssumption
<1>2. ASSUME NEW i \in DOMAIN t, t[i].kind = "hole" PROVE t[i] \in Placeholders
    <2>1. t[i] \in {t[j] : j \in {k \in DOMAIN t : t[k].kind = "hole"}}
        BY <1>2
    <2> QED BY <2>1 DEF Placeholders
<1> QED BY <1>1, <1>2 DEF IsText

\* New Queries are sound.
LEMMA InitInv == Init => IInv
<1> SUFFICES ASSUME Init PROVE IInv
    OBVIOUS
<1>1. Shape
    BY DEF Init, Shape
<1>2. ASSUME NEW q \in Queries PROVE SoundQuery(q)
    <2>1. /\ sbuffer_[q] = <<>> /\ parse_elems_[q] = <<>> /\ parsed_nums_[q] = <<>>
          /\ template_defaults[q] = <<>> /\ intent[q] = NoIntent
        BY DEF Init
    <2>2. Len(<<>>) <= MaxText
        BY EmptySequence, BoundsAssumption
    <2>3. Sound(<<>>, <<>>, <<>>, <<>>, NoIntent)
        BY <2>2, EmptyText, FreshQuery DEF NoIntent
    <2> QED BY <2>1, <2>3 DEF SoundQuery
<1> QED BY <1>1, <1>2, IInvSplit

\* A variable that does not change.
LEMMA UnchangedBecomes ==
    ASSUME NEW f, DOMAIN f = Queries, NEW g, g = f, NEW q \in Queries
    PROVE  Becomes(f, g, q, f[q])
BY DEF Becomes

\* A variable that changes for one Query.
LEMMA ExceptBecomes ==
    ASSUME NEW f, DOMAIN f = Queries, NEW q \in Queries, NEW v, NEW g, g = [f EXCEPT ![q] = v]
    PROVE  Becomes(f, g, q, v)
BY DEF Becomes

\* The parts of an intent.
LEMMA MakeIntent ==
    ASSUME NEW text, NEW parsed \in BOOLEAN, NEW template, IsText(template),
           Len(template) <= MaxText, NEW given, AreParms(given), NEW r,
           r = [text |-> text, parsed |-> parsed, template |-> template, given |-> given]
    PROVE  /\ IsIntent(r)
           /\ r.text = text /\ r.parsed = parsed /\ r.template = template /\ r.given = given
<1>1. r.text = text /\ r.parsed = parsed /\ r.template = template /\ r.given = given
    OBVIOUS
<1>2. r = [text |-> r.text, parsed |-> r.parsed, template |-> r.template, given |-> r.given]
    BY <1>1, Zenon
<1>3. r.parsed \in BOOLEAN /\ IsText(r.template) /\ Len(r.template) <= MaxText
    BY <1>1
<1>4. IsSequence(r.given) /\ \A i \in DOMAIN r.given : IsFresh(r.given[i])
    BY <1>1 DEF AreParms
<1> QED BY <1>1, <1>2, <1>3, <1>4 DEF IsIntent

\* operator<< adds to the text, of the Query and of the program alike.
LEMMA InsertInv ==
    ASSUME IInv, NEW q \in Queries, Insert(q)
    PROVE  IInv'
<1>1. Shape /\ SoundQuery(q)
    BY IInvSplit
<1>2. PICK t \in Texts :
          /\ Room(q, Len(t))
          /\ sbuffer_' = [sbuffer_ EXCEPT ![q] = @ \o t]
          /\ intent' = [intent EXCEPT ![q].text = IF intent[q].parsed THEN @ ELSE @ \o t]
          /\ UNCHANGED <<parse_elems_, parsed_nums_, template_defaults, parent_, copacetic_, strayed>>
    BY DEF Insert
<1>3. PICK buf, elems, nums, own, r :
          /\ buf = sbuffer_[q] /\ elems = parse_elems_[q] /\ nums = parsed_nums_[q]
          /\ own = template_defaults[q] /\ r = intent[q]
    OBVIOUS
<1>4. Sound(buf, elems, nums, own, r)
    BY <1>1, <1>3 DEF SoundQuery
<1>5. PICK b2 : b2 = buf \o t
    OBVIOUS
<1>6. PICK text : text = IF r.parsed THEN r.text ELSE r.text \o t
    OBVIOUS
<1>7. PICK r2 : r2 = [r EXCEPT !.text = text]
    OBVIOUS
<1>8. /\ IsIntent(r2) /\ r2.text = text /\ r2.parsed = r.parsed
      /\ r2.template = r.template /\ r2.given = r.given
    <2>1. PICK pa, te, gi : pa = r.parsed /\ te = r.template /\ gi = r.given
        OBVIOUS
    <2>2. r = [text |-> r.text, parsed |-> pa, template |-> te, given |-> gi]
        BY <1>4, <2>1 DEF Sound, IsIntent
    <2>3. r2 = [text |-> text, parsed |-> pa, template |-> te, given |-> gi]
        BY <1>7, <2>2
    <2>4. pa \in BOOLEAN /\ IsText(te) /\ Len(te) <= MaxText /\ AreParms(gi)
        BY <1>4, <2>1 DEF Sound, IsIntent, AreParms
    <2>5. /\ IsIntent(r2) /\ r2.text = text /\ r2.parsed = pa
          /\ r2.template = te /\ r2.given = gi
        BY <2>3, <2>4, MakeIntent
    <2> QED BY <2>1, <2>5
<1>9. SoundText(b2, elems, r2)
    <2>1. IsText(buf) /\ IsText(t)
        BY <1>4, TextIsText DEF Sound, SoundText
    <2>2. IsText(b2)
        BY <1>5, <2>1, TextConcat
    <2>3. Len(b2) = Len(buf) + Len(t)
        BY <1>5, <2>1, ConcatFacts DEF IsText
    <2>4. Len(b2) <= MaxText
        BY <1>2, <1>3, <2>3 DEF Room
    <2>5. IF r2.parsed THEN elems # <<>>
          ELSE r2.text = b2 /\ elems = <<>> /\ r2.template = <<>>
        BY <1>4, <1>5, <1>6, <1>8, Zenon DEF Sound, SoundText
    <2> QED BY <2>2, <2>4, <2>5 DEF SoundText
<1>10. SoundTemplate(elems, nums, r2)
    BY <1>4, <1>8, Zenon DEF Sound, SoundTemplate
<1>11. Sound(b2, elems, nums, own, r2)
    BY <1>4, <1>8, <1>9, <1>10, Zenon DEF Sound
<1>12. /\ Becomes(sbuffer_, sbuffer_', q, b2)
       /\ Becomes(intent, intent', q, r2)
    <2>1. sbuffer_' = [sbuffer_ EXCEPT ![q] = b2]
        BY <1>2, <1>3, <1>5
    <2>2. intent' = [intent EXCEPT ![q] = r2]
        BY <1>2, <1>3, <1>6, <1>7
    <2> QED BY <1>1, <2>1, <2>2, ExceptBecomes DEF Shape
<1>13. /\ Becomes(parse_elems_, parse_elems_', q, elems)
       /\ Becomes(parsed_nums_, parsed_nums_', q, nums)
       /\ Becomes(template_defaults, template_defaults', q, own)
    BY <1>1, <1>2, <1>3, UnchangedBecomes DEF Shape
<1>14. /\ parent_' \in [Queries -> Queries \union {Temporary}]
       /\ copacetic_' \in [Queries -> BOOLEAN] /\ strayed' \in BOOLEAN
    BY <1>1, <1>2 DEF Shape
<1> QED BY <1>11, <1>12, <1>13, <1>14, OneQueryChanges

\* parse() extends the elements and the template they spell.
LEMMA ParseInv ==
    ASSUME Disciplined, IInv, NEW q \in Queries, Parse(q)
    PROVE  IInv'
<1>1. Shape /\ SoundQuery(q)
    BY IInvSplit
<1>2. PICK buf, elems, nums, own, r :
          /\ buf = sbuffer_[q] /\ elems = parse_elems_[q] /\ nums = parsed_nums_[q]
          /\ own = template_defaults[q] /\ r = intent[q]
    OBVIOUS
<1>3. Sound(buf, elems, nums, own, r)
    BY <1>1, <1>2 DEF SoundQuery
<1>4. PICK parsed : parsed = ParseAll(buf, elems, nums)
    OBVIOUS
<1>5. /\ Len(r.template) + Len(buf) <= MaxText
      /\ parse_elems_' = [parse_elems_ EXCEPT ![q] = parsed.elems]
      /\ parsed_nums_' = [parsed_nums_ EXCEPT ![q] = parsed.nums]
      /\ intent' = [intent EXCEPT ![q].parsed = TRUE, ![q].text = <<>>,
                                  ![q].template = @ \o buf]
      /\ UNCHANGED <<sbuffer_, template_defaults, parent_, copacetic_, strayed>>
    BY <1>2, <1>4 DEF Parse
<1>6. PICK template, te2 : template = r.template /\ te2 = template \o buf
    OBVIOUS
<1>7. IsText(template) /\ IsText(buf) /\ ElementsOK(elems) /\ AreNumbered(template, nums)
    BY <1>3, <1>6 DEF Sound, SoundTemplate, SoundText, IsIntent
<1>8. Spelling(elems) = Prefix(template, Len(template)) /\ IsSequence(Spelling(elems))
    <2>1. Spelling(elems) = [i \in DOMAIN template |-> Unnamed(template[i])]
        BY <1>3, <1>6 DEF Sound, SoundTemplate
    <2>2. DOMAIN template = 1..Len(template) /\ Len(template) \in Nat
        BY <1>7, SequenceFacts DEF IsText
    <2>3. Spelling(elems) = Prefix(template, Len(template))
        BY <2>1, <2>2 DEF Prefix
    <2>4. PICK k \in Nat : k = Len(template)
        BY <2>2
    <2>5. PICK P : P = [i \in 1..k |-> Unnamed(template[i])]
        OBVIOUS
    <2>6. IsSequence(P)
        BY <2>5, FunctionSequence
    <2>7. Prefix(template, k) = P
        BY <2>5 DEF Prefix
    <2> QED BY <2>3, <2>4, <2>6, <2>7
<1>9. /\ ElementsOK(parsed.elems) /\ parsed.elems # <<>>
      /\ Spelling(parsed.elems) = Prefix(te2, Len(te2))
      /\ AreNumbered(te2, parsed.nums)
    <2>1. /\ ElementsOK(ParseAll(buf, elems, nums).elems)
          /\ ParseAll(buf, elems, nums).elems # <<>>
          /\ Spelling(ParseAll(buf, elems, nums).elems) =
                 Prefix(template \o buf, Len(template \o buf))
          /\ AreNumbered(template \o buf, ParseAll(buf, elems, nums).nums)
        BY <1>7, <1>8, ParseAllFacts
    <2> QED BY <1>4, <1>6, <2>1, Zenon
<1>10. IsText(te2) /\ Len(te2) <= MaxText
    <2>1. IsText(te2)
        BY <1>6, <1>7, TextConcat
    <2>2. Len(te2) = Len(template) + Len(buf)
        BY <1>6, <1>7, ConcatFacts DEF IsText
    <2> QED BY <1>5, <1>6, <2>1, <2>2
<1>11. PICK r2 : r2 = [[[r EXCEPT !.parsed = TRUE] EXCEPT !.text = <<>>] EXCEPT !.template = te2]
    OBVIOUS
<1>12. /\ IsIntent(r2) /\ r2.text = <<>> /\ r2.parsed = TRUE
       /\ r2.template = te2 /\ r2.given = r.given
    <2>1. PICK gi : gi = r.given
        OBVIOUS
    <2>2. r = [text |-> r.text, parsed |-> r.parsed, template |-> r.template, given |-> gi]
        BY <1>3, <2>1 DEF Sound, IsIntent
    <2>3. PICK none, yes : none = <<>> /\ yes = TRUE
        OBVIOUS
    <2>4. r2 = [text |-> none, parsed |-> yes, template |-> te2, given |-> gi]
        <3>1. PICK a, b, c : a = r.text /\ b = r.parsed /\ c = r.template
            OBVIOUS
        <3>2. r = [text |-> a, parsed |-> b, template |-> c, given |-> gi]
            BY <2>2, <3>1
        <3>3. r2 = [[[r EXCEPT !.parsed = yes] EXCEPT !.text = none] EXCEPT !.template = te2]
            BY <1>11, <2>3
        <3> QED BY <3>2, <3>3
    <2>5. AreParms(gi)
        <3>1. IsIntent(r)
            BY <1>3 DEF Sound
        <3> QED BY <2>1, <3>1 DEF IsIntent, AreParms
    <2>6. yes \in BOOLEAN
        BY <2>3
    <2>7. /\ IsIntent(r2) /\ r2.text = none /\ r2.parsed = yes
          /\ r2.template = te2 /\ r2.given = gi
        BY <1>10, <2>4, <2>5, <2>6, MakeIntent
    <2> QED BY <2>1, <2>3, <2>7, Zenon
<1>13. SoundTemplate(parsed.elems, parsed.nums, r2)
    <2>1. DOMAIN te2 = 1..Len(te2)
        BY <1>10, SequenceFacts DEF IsText
    <2>2. Spelling(parsed.elems) = [i \in DOMAIN te2 |-> Unnamed(te2[i])]
        BY <1>9, <2>1 DEF Prefix
    <2> QED BY <1>9, <1>12, <2>2, Zenon DEF SoundTemplate
<1>14. SoundText(buf, parsed.elems, r2)
    BY <1>3, <1>9, <1>12 DEF Sound, SoundText
<1>15. Sound(buf, parsed.elems, parsed.nums, own, r2)
    BY <1>3, <1>12, <1>13, <1>14, Zenon DEF Sound
<1>16. Becomes(intent, intent', q, r2)
    <2>1. intent' = [intent EXCEPT ![q] = r2]
        BY <1>1, <1>2, <1>5, <1>6, <1>11 DEF Shape
    <2> QED BY <1>1, <2>1, ExceptBecomes DEF Shape
<1>17. /\ Becomes(parse_elems_, parse_elems_', q, parsed.elems)
       /\ Becomes(parsed_nums_, parsed_nums_', q, parsed.nums)
    BY <1>1, <1>5, ExceptBecomes DEF Shape
<1>18. /\ Becomes(sbuffer_, sbuffer_', q, buf)
       /\ Becomes(template_defaults, template_defaults', q, own)
    BY <1>1, <1>2, <1>5, UnchangedBecomes DEF Shape
<1>19. /\ parent_' \in [Queries -> Queries \union {Temporary}]
       /\ copacetic_' \in [Queries -> BOOLEAN] /\ strayed' \in BOOLEAN
    BY <1>1, <1>5 DEF Shape
<1> QED BY <1>15, <1>16, <1>17, <1>18, <1>19, OneQueryChanges

\* What str() and its kin leave behind.
BuildOK(q, b) ==
    /\ IsText(b.out) /\ Len(b.out) <= MaxText
    /\ AreDefaults(b.own, intent[q].given)
    /\ parse_elems_[q] = <<>> => b.out = sbuffer_[q]

\* What the invariant says of one Query.
LEMMA SoundFacts ==
    ASSUME IInv, NEW q \in Queries
    PROVE  /\ IsText(sbuffer_[q]) /\ Len(sbuffer_[q]) <= MaxText
           /\ AreDefaults(template_defaults[q], intent[q].given)
           /\ AreParms(intent[q].given) /\ ElementsOK(parse_elems_[q])
           /\ intent[q].parsed \in BOOLEAN
           /\ IsText(intent[q].template) /\ Len(intent[q].template) <= MaxText
           /\ Spelling(parse_elems_[q]) =
                  [i \in DOMAIN intent[q].template |-> Unnamed(intent[q].template[i])]
           /\ intent[q].parsed => parse_elems_[q] # <<>>
           /\ ~intent[q].parsed => parse_elems_[q] = <<>> /\ intent[q].text = sbuffer_[q]
<1>1. SoundQuery(q)
    BY IInvSplit
<1>2. PICK buf, elems, nums, own, r :
          /\ buf = sbuffer_[q] /\ elems = parse_elems_[q] /\ nums = parsed_nums_[q]
          /\ own = template_defaults[q] /\ r = intent[q]
    OBVIOUS
<1>3. Sound(buf, elems, nums, own, r)
    BY <1>1, <1>2 DEF SoundQuery
<1>4. IsIntent(r) /\ AreDefaults(own, r.given) /\ SoundTemplate(elems, nums, r) /\ SoundText(buf, elems, r)
    BY <1>3 DEF Sound
<1>5. AreParms(r.given) /\ r.parsed \in BOOLEAN /\ IsText(r.template) /\ Len(r.template) <= MaxText
    BY <1>4, Zenon DEF IsIntent, AreParms
<1>6. ElementsOK(elems) /\ Spelling(elems) = [i \in DOMAIN r.template |-> Unnamed(r.template[i])]
    BY <1>4, Zenon DEF SoundTemplate
<1>7. /\ IsText(buf) /\ Len(buf) <= MaxText
      /\ r.parsed => elems # <<>>
      /\ ~r.parsed => elems = <<>> /\ r.text = buf
    BY <1>4, Zenon DEF SoundText
<1> QED BY <1>2, <1>4, <1>5, <1>6, <1>7, Zenon

\* What proc() builds can be kept: text that fits, and defaults that are
\* still what was given.
LEMMA ProcOK ==
    ASSUME Disciplined, IInv, NEW q \in Queries, NEW p, AreParms(p),
           NEW own, AreDefaults(own, intent[q].given), parse_elems_[q] # <<>>
    PROVE  BuildOK(q, Proc(p, parse_elems_[q], own))
<1>1. PICK elems, r, b : elems = parse_elems_[q] /\ r = intent[q] /\ b = Proc(p, elems, own)
    OBVIOUS
<1>2. /\ AreParms(r.given) /\ ElementsOK(elems) /\ IsText(r.template) /\ Len(r.template) <= MaxText
      /\ Spelling(elems) = [i \in DOMAIN r.template |-> Unnamed(r.template[i])]
    BY <1>1, SoundFacts, Zenon
<1>3. Proceeds(b, p, r.given, Spelling(elems))
    BY <1>1, <1>2, ProcFacts, Zenon
<1>4. PICK n \in Nat : n = Len(r.template)
    BY <1>2, SequenceFacts DEF IsText
<1>5. Len(Spelling(elems)) = n
    <2>1. DOMAIN r.template = 1..n
        BY <1>2, <1>4, SequenceFacts DEF IsText
    <2>2. PICK F : F = [i \in 1..n |-> Unnamed(r.template[i])]
        OBVIOUS
    <2>3. Len(F) = n
        BY <2>2, FunctionSequence
    <2> QED BY <1>2, <2>1, <2>2, <2>3
<1>6. Plain(b.out) /\ Len(b.out) <= n /\ AreDefaults(b.own, r.given)
    BY <1>3, <1>5 DEF Proceeds
<1>7. Len(b.out) <= MaxText
    <2>1. PICK k \in Nat : k = Len(b.out)
        BY <1>6, SequenceFacts DEF Plain
    <2> QED BY <1>2, <1>4, <1>6, <2>1, BoundsAssumption
<1>8. IsText(b.out)
    BY <1>6, PlainIsText
<1> QED BY <1>1, <1>6, <1>7, <1>8 DEF BuildOK

\* So can what is left unbuilt,
LEMMA UnbuiltOK ==
    ASSUME IInv, NEW q \in Queries
    PROVE  BuildOK(q, Unbuilt(q))
<1>1. Unbuilt(q).out = sbuffer_[q] /\ Unbuilt(q).own = template_defaults[q]
    BY DEF Unbuilt
<1> QED BY <1>1, SoundFacts, Zenon DEF BuildOK

\* what str() builds,
LEMMA BuiltOK ==
    ASSUME Disciplined, IInv, NEW q \in Queries, NEW p, AreParms(p)
    PROVE  BuildOK(q, Built(q, p))
<1>1. CASE parse_elems_[q] = <<>>
    BY <1>1, UnbuiltOK DEF Built
<1>2. CASE parse_elems_[q] # <<>>
    <2>1. AreDefaults(template_defaults[q], intent[q].given)
        BY SoundFacts
    <2>2. BuildOK(q, Proc(p, parse_elems_[q], template_defaults[q]))
        BY <1>2, <2>1, ProcOK
    <2> QED BY <1>2, <2>2 DEF Built
<1> QED BY <1>1, <1>2

\* what a call with one parameter does,
LEMMA BuiltOfOneOK ==
    ASSUME Disciplined, IInv, NEW q \in Queries, NEW S \in Parameters
    PROVE  BuildOK(q, BuiltOfOne(q, S))
<1>1. AreParms(<<S>>)
    BY ParametersAssumption, ParmsAreParms
<1>2. BuildOK(q, Built(q, <<S>>)) /\ BuildOK(q, Unbuilt(q))
    BY <1>1, BuiltOK, UnbuiltOK
<1> QED BY <1>2 DEF BuiltOfOne

\* and storein(), which may go through proc() twice.
LEMMA BuiltByStoreinOK ==
    ASSUME Disciplined, IInv, NEW q \in Queries, NEW p, AreParms(p)
    PROVE  BuildOK(q, BuiltByStorein(q, p))
<1>1. PICK b : b = Built(q, p)
    OBVIOUS
<1>2. BuildOK(q, b)
    BY <1>1, BuiltOK
<1>3. CASE b.thrown \/ Len(parse_elems_[q]) # 2
    BY <1>1, <1>2, <1>3 DEF BuiltByStorein
<1>4. CASE ~(b.thrown \/ Len(parse_elems_[q]) # 2)
    <2>1. parse_elems_[q] # <<>>
        BY <1>4, EmptySequence
    <2>2. PICK S : S = Adapter(b.out, TRUE)
        OBVIOUS
    <2>3. AreParms(<<S>>)
        BY <2>2, NewIsFresh, ParmsAreParms
    <2>4. AreDefaults(b.own, intent[q].given)
        BY <1>2 DEF BuildOK
    <2>5. BuildOK(q, Proc(<<S>>, parse_elems_[q], b.own))
        BY <2>1, <2>3, <2>4, ProcOK
    <2> QED BY <1>1, <1>4, <2>2, <2>5 DEF BuiltByStorein
<1> QED BY <1>3, <1>4

\* A template, or a refused statement, keeps what was built.
LEMMA KeptInv ==
    ASSUME IInv, NEW q \in Queries, NEW b, BuildOK(q, b), Kept(q, b.out, b.own),
           UNCHANGED <<parsed_nums_, parent_, strayed>>, copacetic_' \in [Queries -> BOOLEAN]
    PROVE  IInv'
<1>1. Shape /\ SoundQuery(q)
    BY IInvSplit
<1>2. PICK buf, elems, nums, own, r, out, own2 :
          /\ buf = sbuffer_[q] /\ elems = parse_elems_[q] /\ nums = parsed_nums_[q]
          /\ own = template_defaults[q] /\ r = intent[q] /\ out = b.out /\ own2 = b.own
    OBVIOUS
<1>3. Sound(buf, elems, nums, own, r)
    BY <1>1, <1>2 DEF SoundQuery
<1>4. IsText(out) /\ Len(out) <= MaxText /\ AreDefaults(own2, r.given) /\ (elems = <<>> => out = buf)
    BY <1>2 DEF BuildOK
<1>5. SoundText(out, elems, r)
    BY <1>3, <1>4, Zenon DEF Sound, SoundText
<1>6. Sound(out, elems, nums, own2, r)
    BY <1>3, <1>4, <1>5, Zenon DEF Sound
<1>7. /\ Becomes(sbuffer_, sbuffer_', q, out)
      /\ Becomes(template_defaults, template_defaults', q, own2)
    <2>1. /\ sbuffer_' = [sbuffer_ EXCEPT ![q] = out]
          /\ template_defaults' = [template_defaults EXCEPT ![q] = own2]
        BY <1>2 DEF Kept
    <2> QED BY <1>1, <2>1, ExceptBecomes DEF Shape
<1>8. /\ Becomes(parse_elems_, parse_elems_', q, elems)
      /\ Becomes(parsed_nums_, parsed_nums_', q, nums)
      /\ Becomes(intent, intent', q, r)
    <2>1. parse_elems_' = parse_elems_ /\ parsed_nums_' = parsed_nums_ /\ intent' = intent
        BY DEF Kept
    <2> QED BY <1>1, <1>2, <2>1, UnchangedBecomes DEF Shape
<1>9. parent_' \in [Queries -> Queries \union {Temporary}] /\ strayed' \in BOOLEAN
    BY <1>1 DEF Shape
<1> QED BY <1>6, <1>7, <1>8, <1>9, OneQueryChanges

\* reset() leaves nothing but the names.
LEMMA ClearedInv ==
    ASSUME IInv, NEW q \in Queries, Cleared(q),
           UNCHANGED <<parsed_nums_, parent_, strayed>>, copacetic_' \in [Queries -> BOOLEAN]
    PROVE  IInv'
<1>1. Shape
    BY IInvSplit
<1>2. PICK nums, none : nums = parsed_nums_[q] /\ none = <<>>
    OBVIOUS
<1>3. Sound(none, none, nums, none, NoIntent)
    <2>1. IsText(none) /\ Len(none) <= MaxText
        BY <1>2, EmptyText, EmptySequence, BoundsAssumption
    <2>2. NoIntent = [text |-> none, parsed |-> FALSE, template |-> <<>>, given |-> <<>>]
        BY <1>2 DEF NoIntent
    <2>3. Sound(none, <<>>, nums, <<>>, NoIntent)
        BY <2>1, <2>2, FreshQuery
    <2> QED BY <1>2, <2>3
<1>4. /\ Becomes(sbuffer_, sbuffer_', q, none)
      /\ Becomes(parse_elems_, parse_elems_', q, none)
      /\ Becomes(template_defaults, template_defaults', q, none)
      /\ Becomes(intent, intent', q, NoIntent)
    <2>1. /\ sbuffer_' = [sbuffer_ EXCEPT ![q] = none]
          /\ parse_elems_' = [parse_elems_ EXCEPT ![q] = none]
          /\ template_defaults' = [template_defaults EXCEPT ![q] = none]
          /\ intent' = [intent EXCEPT ![q] = NoIntent]
        BY <1>2 DEF Cleared
    <2> QED BY <1>1, <2>1, ExceptBecomes DEF Shape
<1>5. Becomes(parsed_nums_, parsed_nums_', q, nums)
    BY <1>1, <1>2, UnchangedBecomes DEF Shape
<1>6. parent_' \in [Queries -> Queries \union {Temporary}] /\ strayed' \in BOOLEAN
    BY <1>1 DEF Shape
<1> QED BY <1>3, <1>4, <1>5, <1>6, OneQueryChanges

\* One or the other happens after a statement was taken.
LEMMA SettledInv ==
    ASSUME IInv, NEW q \in Queries, NEW b, BuildOK(q, b), Settled(q, b),
           UNCHANGED <<parsed_nums_, parent_, strayed>>, copacetic_' \in [Queries -> BOOLEAN]
    PROVE  IInv'
<1>1. CASE parse_elems_[q] = <<>>
    BY <1>1, ClearedInv DEF Settled
<1>2. CASE parse_elems_[q] # <<>>
    BY <1>2, KeptInv DEF Settled
<1> QED BY <1>1, <1>2

\* Whatever the driver says.
LEMMA SendInv ==
    ASSUME IInv, NEW q \in Queries, NEW b, BuildOK(q, b), Send(q, b) \/ BogusResult(q, b)
    PROVE  IInv'
<1>1. copacetic_ \in [Queries -> BOOLEAN]
    BY IInvSplit DEF Shape
<1>2. UNCHANGED <<parsed_nums_, parent_, strayed>> /\ copacetic_' \in [Queries -> BOOLEAN]
    BY <1>1 DEF Send, BogusResult
<1>3. Kept(q, b.out, b.own) \/ Settled(q, b)
    BY DEF Send, BogusResult
<1> QED BY <1>2, <1>3, KeptInv, SettledInv

\* Only defaults that were not used yet are moved.
LEMMA LeftAloneStay ==
    ASSUME Careful, IInv, NEW q \in Queries, LeftAlone(q)
    PROVE  Moved(template_defaults[q]) = template_defaults[q]
<1>1. AreDefaults(template_defaults[q], intent[q].given) /\ AreParms(intent[q].given)
    BY SoundFacts
<1>2. \A i \in DOMAIN template_defaults[q] : ~template_defaults[q][i].is_processed_
    BY DEF LeftAlone, Used
<1> QED BY <1>1, <1>2, UnusedStay

\* A default given by the program, at its position.
LEMMA StoreDefaultInv ==
    ASSUME Careful, IInv, NEW q \in Queries, NEW n \in Nat, NEW v \in Parameters,
           StoreDefault(q, n, n, v),
           UNCHANGED <<sbuffer_, parse_elems_, parent_, copacetic_, strayed>>,
           Becomes(parsed_nums_, parsed_nums_', q, parsed_nums_[q])
    PROVE  IInv'
<1>1. Shape /\ SoundQuery(q)
    BY IInvSplit
<1>2. PICK buf, elems, nums, own, r :
          /\ buf = sbuffer_[q] /\ elems = parse_elems_[q] /\ nums = parsed_nums_[q]
          /\ own = template_defaults[q] /\ r = intent[q]
    OBVIOUS
<1>3. Sound(buf, elems, nums, own, r)
    BY <1>1, <1>2 DEF SoundQuery
<1>4. PICK own2, given2 : /\ own2 = [WithRoom(own, n) EXCEPT ![n + 1] = v]
                          /\ given2 = [WithRoom(r.given, n) EXCEPT ![n + 1] = v]
    OBVIOUS
<1>5. AreDefaults(own, r.given) /\ AreParms(r.given) /\ IsFresh(v)
    BY <1>2, SoundFacts, ParametersAssumption
<1>6. AreDefaults(own2, given2) /\ AreParms(given2)
    BY <1>4, <1>5, GivenDefault
<1>7. template_defaults' = [template_defaults EXCEPT ![q] = own2]
    <2>1. PICK d \in {own, Moved(own)} :
              /\ n < Len(d) => d = own
              /\ template_defaults' = [template_defaults EXCEPT ![q] = [WithRoom(d, n) EXCEPT ![n + 1] = v]]
        BY <1>2 DEF StoreDefault
    <2>2. CASE n >= Len(own)
        <3>1. LeftAlone(q)
            BY <1>2, <2>2 DEF StoreDefault
        <3>2. Moved(own) = own
            BY <1>2, <3>1, LeftAloneStay
        <3> QED BY <1>4, <2>1, <3>2
    <2>3. CASE ~(n >= Len(own))
        <3>1. PICK m \in Nat : m = Len(own) /\ own = [i \in 1..m |-> own[i]] /\ DOMAIN own = 1..m
            BY <1>5, SequenceFacts, SequenceIsFunction DEF AreDefaults
        <3>2. PICK w : w = Moved(own)
            OBVIOUS
        <3>3. Len(w) = m
            <4>1. w = [i \in 1..m |-> Lost(own[i])]
                BY <3>1, <3>2 DEF Moved
            <4> QED BY <4>1, FunctionSequence
        <3>4. Len(d) = m
            BY <2>1, <3>1, <3>2, <3>3
        <3>5. d = own
            BY <2>1, <2>3, <3>1, <3>4
        <3> QED BY <1>4, <2>1, <3>5
    <2> QED BY <2>2, <2>3
<1>8. PICK r2 : r2 = [r EXCEPT !.given = given2]
    OBVIOUS
<1>9. intent' = [intent EXCEPT ![q] = r2]
    <2>1. intent' = [intent EXCEPT ![q].given = [WithRoom(@, n) EXCEPT ![n + 1] = v]]
        BY DEF StoreDefault
    <2> QED BY <1>1, <1>2, <1>4, <1>8, <2>1
<1>10. /\ IsIntent(r2) /\ r2.text = r.text /\ r2.parsed = r.parsed
       /\ r2.template = r.template /\ r2.given = given2
    <2>1. PICK te, pa, tm : te = r.text /\ pa = r.parsed /\ tm = r.template
        OBVIOUS
    <2>2. r = [text |-> te, parsed |-> pa, template |-> tm, given |-> r.given]
        BY <1>3, <2>1 DEF Sound, IsIntent
    <2>3. r2 = [text |-> te, parsed |-> pa, template |-> tm, given |-> given2]
        BY <1>8, <2>2
    <2>4. pa \in BOOLEAN /\ IsText(tm) /\ Len(tm) <= MaxText
        BY <1>3, <2>1, Zenon DEF Sound, IsIntent
    <2>5. AreParms(given2)
        BY <1>6
    <2>6. /\ IsIntent(r2) /\ r2.text = te /\ r2.parsed = pa
          /\ r2.template = tm /\ r2.given = given2
        BY <2>3, <2>4, <2>5, MakeIntent
    <2> QED BY <2>1, <2>6
<1>11. SoundText(buf, elems, r2) /\ SoundTemplate(elems, nums, r2)
    BY <1>3, <1>10, Zenon DEF Sound, SoundText, SoundTemplate
<1>12. Sound(buf, elems, nums, own2, r2)
    BY <1>6, <1>10, <1>11, Zenon DEF Sound
<1>13. /\ Becomes(template_defaults, template_defaults', q, own2)
       /\ Becomes(intent, intent', q, r2)
    BY <1>1, <1>7, <1>9, ExceptBecomes DEF Shape
<1>14. /\ Becomes(sbuffer_, sbuffer_', q, buf)
       /\ Becomes(parse_elems_, parse_elems_', q, elems)
       /\ Becomes(parsed_nums_, parsed_nums_', q, nums)
    <2>1. Becomes(parsed_nums_, parsed_nums_', q, nums)
        BY <1>2
    <2> QED BY <1>1, <1>2, <2>1, UnchangedBecomes DEF Shape
<1>15. /\ parent_' \in [Queries -> Queries \union {Temporary}]
       /\ copacetic_' \in [Queries -> BOOLEAN] /\ strayed' \in BOOLEAN
    BY <1>1 DEF Shape
<1> QED BY <1>12, <1>13, <1>14, <1>15, OneQueryChanges

\* By number.
LEMMA SetDefaultInv ==
    ASSUME Careful, IInv, NEW q \in Queries, SetDefault(q)
    PROVE  IInv'
<1>1. PICK n \in 0..MaxParms - 1, v \in Parameters :
          /\ StoreDefault(q, n, n, v)
          /\ UNCHANGED <<sbuffer_, parse_elems_, parsed_nums_, parent_, copacetic_, strayed>>
    BY DEF SetDefault
<1>2. n \in Nat
    BY BoundsAssumption
<1>3. Becomes(parsed_nums_, parsed_nums_', q, parsed_nums_[q])
    BY <1>1, IInvSplit, UnchangedBecomes DEF Shape
<1> QED BY <1>1, <1>2, <1>3, StoreDefaultInv

\* A name the template has leads to the position the program means by it.
LEMMA SetNamedDefaultInv ==
    ASSUME Careful, IInv, NEW q \in Queries, SetNamedDefault(q)
    PROVE  IInv'
<1>1. PICK name \in Names(intent[q].template), v \in Parameters :
          LET p == parent_[q]
              nums == IF name \in DOMAIN parsed_nums_[p] THEN parsed_nums_[p]
                      ELSE WithName(parsed_nums_[p], name, 0)
          IN  /\ p = q
              /\ nums[name] \in 0..MaxParms - 1
              /\ parsed_nums_' = [parsed_nums_ EXCEPT ![p] = nums]
              /\ StoreDefault(q, nums[name], NumberOf(intent[q].template, name), v)
              /\ UNCHANGED <<sbuffer_, parse_elems_, parent_, copacetic_, strayed>>
    BY DEF SetNamedDefault
<1>2. PICK template, nums : template = intent[q].template /\ nums = parsed_nums_[q]
    OBVIOUS
<1>3. AreNumbered(template, nums)
    BY <1>2, IInvSplit DEF SoundQuery, Sound, SoundTemplate
<1>4. name \in DOMAIN nums /\ NumberOf(template, name) = nums[name]
    <2>1. PICK S : S = {template[i].num : i \in {j \in DOMAIN template :
                            template[j].kind = "hole" /\ template[j].name = name}}
        OBVIOUS
    <2>2. PICK j \in DOMAIN template :
              template[j].kind = "hole" /\ template[j].name # NoName /\ template[j].name = name
        BY <1>1, <1>2 DEF Names
    <2>3. name \in DOMAIN nums /\ nums[name] = template[j].num /\ template[j].num \in S
        BY <1>3, <2>1, <2>2 DEF AreNumbered
    <2>4. \A n \in S : n = nums[name]
        BY <1>3, <2>1, <2>2 DEF AreNumbered
    <2>5. NumberOf(template, name) = CHOOSE n \in S : TRUE
        BY <2>1 DEF NumberOf
    <2>6. (CHOOSE n \in S : TRUE) \in S
        BY <2>3
    <2> QED BY <2>3, <2>4, <2>5, <2>6
<1>5. PICK n : n = nums[name]
    OBVIOUS
<1>6. /\ n \in 0..MaxParms - 1 /\ StoreDefault(q, n, n, v)
      /\ parsed_nums_' = [parsed_nums_ EXCEPT ![q] = nums]
      /\ UNCHANGED <<sbuffer_, parse_elems_, parent_, copacetic_, strayed>>
    <2>1. nums = IF name \in DOMAIN parsed_nums_[q] THEN parsed_nums_[q]
                 ELSE WithName(parsed_nums_[q], name, 0)
        BY <1>2, <1>4
    <2> QED BY <1>1, <1>2, <1>4, <1>5, <2>1
<1>7. n \in Nat
    BY <1>6, BoundsAssumption
<1>8. Becomes(parsed_nums_, parsed_nums_', q, parsed_nums_[q])
    BY <1>2, <1>6, IInvSplit, ExceptBecomes DEF Shape
<1> QED BY <1>6, <1>7, <1>8, StoreDefaultInv

\* Adding to nothing.
LEMMA EmptyConcat ==
    ASSUME NEW s, IsSequence(s)
    PROVE  <<>> \o s = s
<1>1. PICK e : e = <<>>
    OBVIOUS
<1>2. PICK t : t = e \o s
    OBVIOUS
<1>3. IsSequence(e) /\ Len(e) = 0
    BY <1>1, EmptySequence
<1>4. PICK n \in Nat : n = Len(s)
    BY SequenceFacts
<1>5. IsSequence(t) /\ Len(t) = n /\ \A i \in 1..n : t[i] = s[i]
    <2>1. /\ IsSequence(t) /\ Len(t) = Len(e) + Len(s)
          /\ \A i \in 1..Len(s) : t[Len(e) + i] = s[i]
        BY <1>2, <1>3, ConcatFacts
    <2>2. \A i \in 1..n : 0 + i = i
        OBVIOUS
    <2> QED BY <1>3, <1>4, <2>1, <2>2
<1>6. t = s
    BY <1>4, <1>5, SameSequence
<1> QED BY <1>1, <1>2, <1>6

\* operator= hands over elements, defaults and names together, and the
\* mark of no used default, since a careful program copies none.
LEMMA AssignInv ==
    ASSUME Careful, IInv, NEW q \in Queries, NEW r \in Queries, Assign(q, r)
    PROVE  IInv'
<1>1. Shape /\ SoundQuery(r)
    BY IInvSplit
<1>2. PICK buf, elems, nums, own, it :
          /\ buf = sbuffer_[r] /\ elems = parse_elems_[r] /\ nums = parsed_nums_[r]
          /\ own = template_defaults[r] /\ it = intent[r]
    OBVIOUS
<1>3. Sound(buf, elems, nums, own, it)
    BY <1>1, <1>2 DEF SoundQuery
<1>4. Moved(own) = own
    BY <1>2, LeftAloneStay DEF Assign
<1>5. sbuffer_[q] \o buf = buf
    <2>1. sbuffer_[q] = <<>>
        BY DEF Assign
    <2>2. IsSequence(buf)
        BY <1>2, SoundFacts DEF IsText
    <2> QED BY <2>1, <2>2, EmptyConcat
<1>6. /\ sbuffer_' = [sbuffer_ EXCEPT ![q] = buf]
      /\ parse_elems_' = [parse_elems_ EXCEPT ![q] = elems]
      /\ parsed_nums_' = [parsed_nums_ EXCEPT ![q] = nums]
      /\ template_defaults' = [template_defaults EXCEPT ![q] = own]
      /\ intent' = [intent EXCEPT ![q] = it]
    BY <1>2, <1>4, <1>5 DEF Assign
<1>7. /\ Becomes(sbuffer_, sbuffer_', q, buf)
      /\ Becomes(parse_elems_, parse_elems_', q, elems)
      /\ Becomes(parsed_nums_, parsed_nums_', q, nums)
      /\ Becomes(template_defaults, template_defaults', q, own)
      /\ Becomes(intent, intent', q, it)
    BY <1>1, <1>6, ExceptBecomes DEF Shape
<1>8. /\ parent_' \in [Queries -> Queries \union {Temporary}]
      /\ copacetic_' \in [Queries -> BOOLEAN] /\ strayed' \in BOOLEAN
    BY <1>1 DEF Shape, Assign
<1> QED BY <1>3, <1>7, <1>8, OneQueryChanges

\* q = conn.query(text) leaves text only.
LEMMA AssignNewInv ==
    ASSUME Careful, IInv, NEW q \in Queries, AssignNew(q)
    PROVE  IInv'
<1>1. Shape
    BY IInvSplit
<1>2. PICK t \in Texts :
        /\ Room(q, Len(t))
        /\ sbuffer_[q] = <<>>
        /\ sbuffer_' = [sbuffer_ EXCEPT ![q] = @ \o t]
        /\ parse_elems_' = [parse_elems_ EXCEPT ![q] = <<>>]
        /\ parsed_nums_' = [parsed_nums_ EXCEPT ![q] = <<>>]
        /\ template_defaults' = [template_defaults EXCEPT ![q] = <<>>]
        /\ parent_' = [parent_ EXCEPT ![q] = Temporary]
        /\ copacetic_' = [copacetic_ EXCEPT ![q] = TRUE]
        /\ intent' = [intent EXCEPT ![q] = [NoIntent EXCEPT !.text = t]]
        /\ UNCHANGED strayed
    BY DEF AssignNew
<1>3. IsText(t)
    BY TextIsText
<1>4. <<>> \o t = t
    BY <1>3, EmptyConcat DEF IsText
<1>5. Len(t) <= MaxText
    <2>1. PICK n \in Nat : n = Len(t)
        BY <1>3, SequenceFacts DEF IsText
    <2>2. Len(sbuffer_[q]) = 0
        BY <1>2, EmptySequence
    <2>3. Len(sbuffer_[q]) + Len(t) <= MaxText
        BY <1>2 DEF Room
    <2> QED BY <2>1, <2>2, <2>3, BoundsAssumption
<1>6. PICK none, r : none = <<>> /\ r = [NoIntent EXCEPT !.text = t]
    OBVIOUS
<1>7. Sound(t, none, none, none, r)
    <2>1. r = [text |-> t, parsed |-> FALSE, template |-> <<>>, given |-> <<>>]
        BY <1>6 DEF NoIntent
    <2>2. Sound(t, <<>>, none, <<>>, r)
        BY <1>3, <1>5, <2>1, FreshQuery
    <2> QED BY <1>6, <2>2
<1>8. /\ sbuffer_' = [sbuffer_ EXCEPT ![q] = t]
      /\ parse_elems_' = [parse_elems_ EXCEPT ![q] = none]
      /\ parsed_nums_' = [parsed_nums_ EXCEPT ![q] = none]
      /\ template_defaults' = [template_defaults EXCEPT ![q] = none]
      /\ intent' = [intent EXCEPT ![q] = r]
    BY <1>2, <1>4, <1>6
<1>9. /\ Becomes(sbuffer_, sbuffer_', q, t)
      /\ Becomes(parse_elems_, parse_elems_', q, none)
      /\ Becomes(parsed_nums_, parsed_nums_', q, none)
      /\ Becomes(template_defaults, template_defaults', q, none)
      /\ Becomes(intent, intent', q, r)
    BY <1>1, <1>8, ExceptBecomes DEF Shape
<1>10. /\ parent_' \in [Queries -> Queries \union {Temporary}]
       /\ copacetic_' \in [Queries -> BOOLEAN] /\ strayed' \in BOOLEAN
    BY <1>1, <1>2 DEF Shape
<1> QED BY <1>7, <1>9, <1>10, OneQueryChanges

\* Steps that change no Query.
LEMMA UnchangedInv ==
    ASSUME IInv,
           UNCHANGED <<sbuffer_, parse_elems_, parsed_nums_, template_defaults,
                       parent_, copacetic_, intent>>, strayed' \in BOOLEAN
    PROVE  IInv'
<1>1. Shape
    BY IInvSplit
<1>2. ASSUME NEW s \in Queries PROVE SoundQuery(s)'
    <2>1. SoundQuery(s)
        BY IInvSplit
    <2> QED BY <2>1 DEF SoundQuery
<1>3. Shape'
    BY <1>1 DEF Shape
<1> QED BY <1>2, <1>3, IInvSplitNext

\* Every step keeps the invariant.
LEMMA StepInv ==
    ASSUME Careful, Disciplined, IInv, [Next]_vars
    PROVE  IInv'
<1>1. strayed \in BOOLEAN
    BY IInvSplit DEF Shape
<1>2. CASE UNCHANGED vars
    BY <1>1, <1>2, UnchangedInv DEF vars
<1>3. ASSUME NEW q \in Queries, Step(q) PROVE IInv'
    <2>1. copacetic_ \in [Queries -> BOOLEAN]
        BY IInvSplit DEF Shape
    <2>2. CASE Insert(q)
        BY <2>2, InsertInv
    <2>3. CASE Parse(q)
        BY <2>3, ParseInv
    <2>4. CASE Reset(q)
        BY <2>1, <2>4, ClearedInv DEF Reset
    <2>5. CASE Str(q)
        <3>1. PICK p \in Parms : /\ Kept(q, Built(q, p).out, Built(q, p).own)
                                 /\ UNCHANGED <<parsed_nums_, parent_, copacetic_, strayed>>
            BY <2>5 DEF Str
        <3>2. BuildOK(q, Built(q, p))
            BY ParmsAreParms, BuiltOK
        <3> QED BY <2>1, <3>1, <3>2, KeptInv
    <2>6. CASE Execute(q)
        <3>1. PICK p \in Parms : Send(q, Built(q, p))
            BY <2>6 DEF Execute
        <3>2. BuildOK(q, Built(q, p))
            BY ParmsAreParms, BuiltOK
        <3> QED BY <3>1, <3>2, SendInv
    <2>7. CASE ExecuteOne(q)
        <3>1. PICK S \in Parameters : Send(q, BuiltOfOne(q, S))
            BY <2>7 DEF ExecuteOne
        <3> QED BY <3>1, BuiltOfOneOK, SendInv
    <2>8. CASE Storein(q)
        <3>1. PICK p \in Parms :
                  Send(q, BuiltByStorein(q, p)) \/ BogusResult(q, BuiltByStorein(q, p))
            BY <2>8 DEF Storein
        <3>2. BuildOK(q, BuiltByStorein(q, p))
            BY ParmsAreParms, BuiltByStoreinOK
        <3> QED BY <3>1, <3>2, SendInv
    <2>9. CASE SetDefault(q)
        BY <2>9, SetDefaultInv
    <2>10. CASE SetNamedDefault(q)
        BY <2>10, SetNamedDefaultInv
    <2>11. CASE StrayNamedDefault(q)
        BY <2>11, UnchangedInv DEF StrayNamedDefault
    <2>12. CASE \E r \in Queries : Assign(q, r)
        BY <2>12, AssignInv
    <2>13. CASE AssignNew(q)
        BY <2>13, AssignNewInv
    <2> QED BY <1>3, <2>2, <2>3, <2>4, <2>5, <2>6, <2>7, <2>8, <2>9, <2>10, <2>11,
               <2>12, <2>13 DEF Step
<1> QED BY <1>2, <1>3 DEF Next

-----------------------------------------------------------------------------
(***************************************************************************)
(* The theorems.                                                           *)
(***************************************************************************)
(* Between two calls every Query of a disciplined and careful program is   *)
(* sound: parse(), proc(), reset(), the defaults and operator= keep its    *)
(* text, elements and defaults to what the program wrote and gave.         *)
THEOREM QueriesStaySound ==
    ASSUME Careful, Disciplined
    PROVE  Spec => []IInv
<1>1. Init => IInv
    BY InitInv
<1>2. IInv /\ [Next]_vars => IInv'
    BY StepInv
<1> QED BY <1>1, <1>2, PTL DEF Spec

(* The elements that parse() made spell the template the program wrote,    *)
(* however often it is parsed, sent, refused or copied.                    *)
THEOREM TemplatesSurvive ==
    ASSUME Careful, Disciplined
    PROVE  Spec => []ElementsSpellTemplate
<1>1. IInv => ElementsSpellTemplate
    BY DEF IInv
<1> QED BY <1>1, QueriesStaySound, PTL

\* What is built for a call is what the specification expects.
LEMMA BuiltAsWritten ==
    ASSUME Disciplined, IInv, NEW q \in Queries, NEW p, AreParms(p)
    PROVE  Statement(Built(q, p)) = Expected(q, p)
<1>1. CASE ~intent[q].parsed
    <2>1. parse_elems_[q] = <<>> /\ intent[q].text = sbuffer_[q]
        BY <1>1, SoundFacts
    <2>2. Built(q, p) = Unbuilt(q)
        BY <2>1 DEF Built
    <2>3. Unbuilt(q).thrown = FALSE /\ Unbuilt(q).out = sbuffer_[q]
        BY DEF Unbuilt
    <2> QED BY <1>1, <2>1, <2>2, <2>3 DEF Statement, Expected
<1>2. CASE intent[q].parsed
    <2>1. PICK elems, own, r : elems = parse_elems_[q] /\ own = template_defaults[q] /\ r = intent[q]
        OBVIOUS
    <2>2. /\ elems # <<>> /\ AreDefaults(own, r.given) /\ AreParms(r.given)
          /\ ElementsOK(elems) /\ IsText(r.template)
          /\ Spelling(elems) = [i \in DOMAIN r.template |-> Unnamed(r.template[i])]
        BY <1>2, <2>1, SoundFacts, Zenon
    <2>3. Built(q, p) = Proc(p, elems, own)
        BY <2>1, <2>2 DEF Built
    <2>4. PICK given, template : given = r.given /\ template = r.template
        OBVIOUS
    <2>5. Statement(Proc(p, elems, own)) = Substituted(template, p, given)
        BY <2>2, <2>4, ProcIsSubstituted
    <2> QED BY <1>2, <2>1, <2>3, <2>4, <2>5 DEF Expected
<1> QED BY <1>1, <1>2

\* A sound Query sends what it should, whichever call comes next.
LEMMA SoundIsSent ==
    ASSUME Disciplined, IInv
    PROVE  SentAsWritten
<1>1. ASSUME NEW q \in Queries, NEW p \in Parms PROVE Statement(Built(q, p)) = Expected(q, p)
    BY ParmsAreParms, BuiltAsWritten
<1>2. ASSUME NEW q \in Queries, Len(parse_elems_[q]) \in {0, 2}, NEW S \in Parameters
      PROVE  SentOfOne(q, S) = ExpectedOfOne(q, S)
    <2>1. IsSequence(parse_elems_[q])
        BY SoundFacts DEF ElementsOK
    <2>2. CASE Len(parse_elems_[q]) = 0
        <3>1. parse_elems_[q] = <<>>
            BY <2>1, <2>2, EmptySequence
        <3>2. ~intent[q].parsed
            BY <3>1, SoundFacts
        <3> QED BY <2>2, <3>2 DEF SentOfOne, ExpectedOfOne
    <2>3. CASE Len(parse_elems_[q]) = 2
        <3>1. parse_elems_[q] # <<>>
            <4>1. Len(<<>>) = 0
                BY EmptySequence
            <4>2. parse_elems_[q] = <<>> => Len(parse_elems_[q]) = 0
                BY <4>1, Zenon
            <4> QED BY <2>3, <4>2
        <3>2. intent[q].parsed
            BY <3>1, SoundFacts
        <3>3. AreParms(<<S>>)
            BY ParametersAssumption, ParmsAreParms
        <3>4. Statement(Built(q, <<S>>)) = Expected(q, <<S>>)
            BY <3>3, BuiltAsWritten
        <3> QED BY <2>3, <3>2, <3>4 DEF SentOfOne, ExpectedOfOne
    <2> QED BY <1>2, <2>2, <2>3
<1>3. ASSUME NEW q \in Queries, Len(parse_elems_[q]) # 2, NEW p \in Parms
      PROVE  Statement(BuiltByStorein(q, p)) = Expected(q, p)
    <2>1. BuiltByStorein(q, p) = Built(q, p)
        BY <1>3 DEF BuiltByStorein
    <2> QED BY <1>1, <2>1
<1> QED BY <1>1, <1>2, <1>3 DEF SentAsWritten

(* Every call of a disciplined and careful program sends the text or the   *)
(* template the program wrote, with the parameters and defaults it gave,   *)
(* each quoted as its placeholder says, or throws BadParamCount where one  *)
(* is missing.                                                             *)
THEOREM StatementsAreSentAsWritten ==
    ASSUME Careful, Disciplined
    PROVE  Spec => []SentAsWritten
<1>1. IInv => SentAsWritten
    BY SoundIsSent
<1> QED BY <1>1, QueriesStaySound, PTL
=============================================================================
