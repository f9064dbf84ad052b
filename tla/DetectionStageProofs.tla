------------------------- MODULE DetectionStageProofs -------------------------
(***************************************************************************)
(* Whatever the rules, their conditions and their selections, and          *)
(* whatever is executed: what the recursive-descent parser accepts means   *)
(* what it says, a conjunction of terms is evaluated exactly, what the     *)
(* record of a command shows of its arguments is the command's own, and    *)
(* the noise filter drops no command for being like a listed one.          *)
(*                                                                         *)
(* Tokens, Meaning and the parser's calls are recursive functions; the     *)
(* first section shows when a recursion has a solution, and only one.  The *)
(* parser skips operands, so what it has read is not all there is: the     *)
(* invariant of the descent is that it comes to the meaning, or is Stuck   *)
(* before a token that no operand ends with, which parse() reports.        *)
(***************************************************************************)
EXTENDS DetectionStage, WellFoundedInduction, SequenceTheorems, TLAPS

---------------------------------------------------------------------------
(* Recursions.                                                             *)

\* Among numbers there is a least one: this is how the proofs below go by induction.
LEMMA LeastNumber ==
    ASSUME NEW T, T \subseteq Nat, T # {}
    PROVE  \E n \in T : \A m \in T : n <= m
  <1> DEFINE R == {p \in Nat \X Nat : p[1] < p[2]}
  <1>1. IsWellFoundedOn(R, Nat)
    BY NatLessThanWellFounded DEF OpToRel
  <1> HIDE DEF R
  <1>2. PICK n \in T : \A m \in T : ~ (<<m, n>> \in R)
    BY <1>1, WFMin
  <1>3. \A m, k \in Nat : m < k => <<m, k>> \in R
    BY DEF R
  <1>4. \A m \in T : m \in Nat /\ n \in Nat /\ ~ (m < n)
    BY <1>2, <1>3
  <1> QED
    BY <1>4

\* F unfolds a recursion once: what F[g] says at x depends on g only where mu is less.
IsRecursion(D, V, mu, W, F) ==
    /\ mu \in [D -> Nat]
    /\ \A x \in D : V[x] # {}
    /\ \A g : g \in W <=> g = [x \in D |-> g[x]] /\ \A x \in D : g[x] \in V[x]
    /\ \A g \in W : F[g] \in W
    /\ \A g, h \in W, x \in D :
           (\A y \in D : mu[y] < mu[x] => g[y] = h[y]) => F[g][x] = F[h][x]

\* A recursion that asks only about what is less has a solution, so the CHOOSE of a recursive
\* definition picks one.
LEMMA RecursionExists ==
    ASSUME NEW D, NEW V, NEW mu, NEW W, NEW F, IsRecursion(D, V, mu, W, F)
    PROVE  \E f \in W : f = F[f]
  <1> USE DEF IsRecursion
  <1> DEFINE Good(g, n) == \A x \in D : mu[x] < n => g[x] = F[g][x]
             T == {n \in Nat : ~ \E g \in W : Good(g, n)}
  <1>1. \A n \in Nat : \E g \in W : Good(g, n)
    <2>1. SUFFICES ASSUME T # {} PROVE FALSE
      OBVIOUS
    <2>2. PICK n \in T : \A m \in T : n <= m
      <3> HIDE DEF T
      <3>1. T \subseteq Nat
        BY DEF T
      <3> QED
        BY <2>1, <3>1, LeastNumber
    <2>3. n # 0
      <3>1. [x \in D |-> CHOOSE v \in V[x] : TRUE] \in W
        OBVIOUS
      <3>2. Good([x \in D |-> CHOOSE v \in V[x] : TRUE], 0)
        OBVIOUS
      <3> QED
        BY <3>1, <3>2
    <2>4. PICK g \in W : Good(g, n - 1)
      <3>1. n - 1 \in Nat /\ n - 1 \notin T
        BY <2>2, <2>3
      <3> HIDE DEF Good
      <3> QED
        BY <3>1
    <2>5. ASSUME NEW x \in D, mu[x] < n
          PROVE  F[g][x] = F[F[g]][x]
      <3>1. \A y \in D : mu[y] < mu[x] => g[y] = F[g][y]
        BY <2>2, <2>4, <2>5
      <3> QED
        BY <3>1
    <2>6. F[g] \in W /\ Good(F[g], n)
      BY <2>5
    <2> QED
      BY <2>6
  <1> HIDE DEF T
  <1>2. ASSUME NEW g \in W, NEW h \in W, NEW n \in Nat, NEW m \in Nat, Good(g, n), Good(h, m),
               NEW x \in D, mu[x] < n, mu[x] < m
        PROVE  g[x] = h[x]
    <2> DEFINE U == {k \in Nat : k < n /\ k < m /\ \E y \in D : mu[y] = k /\ g[y] # h[y]}
    <2>1. SUFFICES ASSUME U # {} PROVE FALSE
      BY <1>2
    <2>2. PICK k \in U : \A j \in U : k <= j
      <3>1. U \subseteq Nat
        OBVIOUS
      <3> HIDE DEF U
      <3> QED
        BY <2>1, <3>1, LeastNumber
    <2>3. PICK y \in D : mu[y] = k /\ g[y] # h[y]
      BY <2>2
    <2>4. ASSUME NEW z \in D, mu[z] < mu[y]
          PROVE  g[z] = h[z]
      BY <2>2, <2>3, <2>4
    <2>5. F[g][y] = F[h][y]
      BY <2>4
    <2> QED
      BY <1>2, <2>2, <2>3, <2>5
  <1> DEFINE G == [n \in Nat |-> CHOOSE g \in W : Good(g, n)]
             f == [x \in D |-> G[mu[x] + 1][x]]
  <1>3. ASSUME NEW n \in Nat PROVE G[n] \in W /\ Good(G[n], n)
    BY <1>1
  <1> HIDE DEF G
  <1>4. f \in W
    BY <1>3
  <1>5. ASSUME NEW x \in D PROVE f[x] = F[f][x]
    <2> DEFINE g == G[mu[x] + 1]
    <2>1. g \in W /\ Good(g, mu[x] + 1)
      BY <1>3
    <2>2. ASSUME NEW y \in D, mu[y] < mu[x] PROVE f[y] = g[y]
      <3>1. G[mu[y] + 1] \in W /\ Good(G[mu[y] + 1], mu[y] + 1) /\ mu[x] \in Nat /\ mu[y] \in Nat
        BY <1>3
      <3>2. mu[x] + 1 \in Nat /\ mu[y] + 1 \in Nat /\ mu[y] < mu[x] + 1 /\ mu[y] < mu[y] + 1
        BY <2>2, <3>1
      <3> HIDE DEF Good
      <3>3. G[mu[y] + 1][y] = g[y]
        BY <1>2, <2>1, <3>1, <3>2
      <3> QED
        BY <3>3
    <2>3. F[f][x] = F[g][x]
      BY <1>4, <2>1, <2>2
    <2>4. g[x] = F[g][x] /\ f[x] = g[x]
      BY <2>1
    <2> QED
      BY <2>3, <2>4
  <1>6. f = F[f]
    <2>1. F[f] \in W
      BY <1>4
    <2> QED
      BY <1>5, <2>1
  <1> HIDE DEF f
  <1> QED
    BY <1>4, <1>6

\* Two functions that obey the same recursion are the same.
LEMMA RecursionUnique ==
    ASSUME NEW D, NEW mu \in [D -> Nat], NEW f, NEW h,
           \A x \in D : (\A y \in D : mu[y] < mu[x] => f[y] = h[y]) => f[x] = h[x]
    PROVE  \A x \in D : f[x] = h[x]
  <1> DEFINE U == {k \in Nat : \E y \in D : mu[y] = k /\ f[y] # h[y]}
  <1>1. SUFFICES ASSUME U # {} PROVE FALSE
    OBVIOUS
  <1>2. PICK k \in U : \A j \in U : k <= j
    <2>1. U \subseteq Nat
      OBVIOUS
    <2> HIDE DEF U
    <2> QED
      BY <1>1, <2>1, LeastNumber
  <1>3. PICK y \in D : mu[y] = k /\ f[y] # h[y]
    BY <1>2
  <1>4. \A z \in D : mu[z] < mu[y] => f[z] = h[z]
    BY <1>2, <1>3
  <1> QED
    BY <1>3, <1>4

---------------------------------------------------------------------------
(* The tokens of an expression.                                            *)

\* The tokens the grammar is made of (_tokenize_condition).
Keywords == {"(", ")", "not", "and", "or", "1", "all", "of"}

\* Every token a condition may be made of.
Lexicon ==
    Keywords \cup DOMAIN Patterns
        \cup {e[2] : e \in {f \in Conditions : f[1] = "sel"}}

\* What may come after an operand.
Follow == {"", ")", "and", "or"}

\* The token lists that may be an operand: no operand is over before their first token.
Opening == {t \in Seq(Lexicon) : t # <<>> /\ t[1] \notin Follow}

\* The measure by which a recursion on expressions asks only about what is less.
NestingOf == [e \in Conditions |-> Depth[e]]

\* A token is a sequence of one.
LEMMA OneToken ==
    ASSUME NEW S, NEW x \in S
    PROVE  <<x>> \in Seq(S) /\ Len(<<x>>) = 1 /\ <<x>>[1] = x
  OBVIOUS

\* "1 of s*" is a sequence of three.
LEMMA ThreeTokens ==
    ASSUME NEW S, NEW x \in S, NEW y \in S, NEW z \in S
    PROVE  /\ <<x, y, z>> \in Seq(S) /\ Len(<<x, y, z>>) = 3 /\ <<x, y, z>> # <<>>
           /\ <<x, y, z>>[1] = x /\ <<x, y, z>>[2] = y /\ <<x, y, z>>[3] = z
  OBVIOUS

\* What stands where in a concatenation.
LEMMA Concatenation ==
    ASSUME NEW S, NEW t \in Seq(S), NEW u \in Seq(S)
    PROVE  /\ t \o u \in Seq(S) /\ Len(t \o u) = Len(t) + Len(u)
           /\ \A k \in 1..Len(t) : (t \o u)[k] = t[k]
           /\ \A k \in 1..Len(u) : (t \o u)[Len(t) + k] = u[k]
  OBVIOUS

\* The lexicon holds the keywords, the patterns and the names.
LEMMA LexiconHolds ==
    /\ {"(", ")", "not", "and", "or", "1", "all", "of"} \subseteq Lexicon
    /\ \A p \in DOMAIN Patterns : p \in Lexicon
    /\ \A e \in Conditions : e[1] = "sel" => e[2] \in Lexicon
  BY DEF Lexicon, Keywords

\* What follows an opening leaves it one.
LEMMA ConcatOpens ==
    ASSUME NEW t \in Opening, NEW u \in Seq(Lexicon)
    PROVE  t \o u \in Opening
  <1>1. t \o u \in Seq(Lexicon) /\ t \o u # <<>> /\ (t \o u)[1] = t[1]
    <2>1. t \in Seq(Lexicon) /\ Len(t) > 0 /\ Len(t) \in Nat /\ Len(u) \in Nat
      BY DEF Opening
    <2>2. t \o u \in Seq(Lexicon) /\ Len(t \o u) > 0 /\ (t \o u)[1] = t[1]
      BY <2>1, Concatenation
    <2> QED
      BY <2>2
  <1> QED
    BY <1>1 DEF Opening

\* A token that ends no operand opens one.
LEMMA KeywordOpens ==
    ASSUME NEW x \in Lexicon, x \notin Follow
    PROVE  <<x>> \in Opening
  <1> DEFINE t == <<x>>
  <1>1. t \in Seq(Lexicon) /\ Len(t) = 1 /\ t[1] = x
    BY OneToken
  <1> HIDE DEF t
  <1>2. t \in Opening
    BY <1>1 DEF Opening
  <1> QED
    BY <1>2 DEF t

\* So does an operand, with parentheses or without.
LEMMA WithinOpens ==
    ASSUME NEW g, NEW f, g[f] \in Opening, NEW level
    PROVE  Within(g, f, level) \in Opening
  <1>1. CASE Binding(f) < level
    <2> DEFINE open == <<"(">>
               close == <<")">>
    <2>1. open \in Opening
      BY LexiconHolds, KeywordOpens DEF Follow
    <2>2. close \in Seq(Lexicon)
      BY LexiconHolds, OneToken
    <2> HIDE DEF open, close
    <2>3. (open \o g[f]) \o close \in Opening
      BY <2>1, <2>2, ConcatOpens DEF Opening
    <2> QED
      BY <1>1, <2>3 DEF Within, open, close
  <1>2. CASE ~ (Binding(f) < level)
    BY <1>2 DEF Within
  <1> QED
    BY <1>1, <1>2

\* So does an expression whose operands do.
LEMMA TokensFromOpens ==
    ASSUME NEW g \in [Conditions -> Opening], NEW e \in Conditions
    PROVE  TokensFrom(g, e) \in Opening
  <1>1. CASE e[1] = "sel"
    <2>1. e[2] \in Lexicon /\ e[2] \notin Follow
      BY <1>1, ConditionsAssumption, LexiconHolds DEF Reserved, Follow
    <2>2. <<e[2]>> \in Opening
      BY <2>1, KeywordOpens
    <2> QED
      BY <1>1, <2>2 DEF TokensFrom
  <1>2. CASE e[1] \in {"1", "all"}
    <2> DEFINE x == e[1]
               y == "of"
               z == e[2]
    <2>1. x \in Lexicon /\ y \in Lexicon /\ z \in Lexicon /\ x \notin Follow
      BY <1>2, ConditionsAssumption, LexiconHolds DEF Follow
    <2> HIDE DEF x, y, z
    <2> DEFINE t == <<x, y, z>>
    <2>2. t \in Seq(Lexicon) /\ t # <<>> /\ t[1] = x
      BY <2>1, ThreeTokens
    <2> HIDE DEF t
    <2>3. t \in Opening
      BY <2>1, <2>2 DEF Opening
    <2> QED
      BY <1>2, <2>3 DEF TokensFrom, t, x, y, z
  <1>3. CASE e[1] = "not"
    <2> DEFINE x == <<"not">>
    <2>1. e[2] \in Conditions
      BY <1>3, ConditionsAssumption DEF IsOperand
    <2>2. Within(g, e[2], 3) \in Opening
      BY <2>1, WithinOpens
    <2>3. x \in Opening
      BY LexiconHolds, KeywordOpens DEF Follow
    <2> HIDE DEF x
    <2>4. x \o Within(g, e[2], 3) \in Opening
      BY <2>2, <2>3, ConcatOpens DEF Opening
    <2> QED
      BY <1>3, <2>4 DEF TokensFrom, x
  <1>4. ASSUME e[1] \in {"and", "or"}, NEW k \in 1..3, NEW l \in 1..3,
               NEW x, x \in Lexicon
        PROVE  (Within(g, e[2], k) \o <<x>>) \o Within(g, e[3], l) \in Opening
    <2>1. e[2] \in Conditions /\ e[3] \in Conditions
      BY <1>4, ConditionsAssumption DEF IsOperand
    <2>2. Within(g, e[2], k) \in Opening /\ Within(g, e[3], l) \in Opening
      BY <2>1, WithinOpens
    <2>3. <<x>> \in Seq(Lexicon)
      BY <1>4, OneToken
    <2>4. Within(g, e[2], k) \o <<x>> \in Opening
      BY <2>2, <2>3, ConcatOpens
    <2> QED
      BY <2>2, <2>4, ConcatOpens DEF Opening
  <1>5. CASE e[1] = "and"
    BY <1>4, <1>5, LexiconHolds DEF TokensFrom
  <1>6. CASE e[1] = "or"
    BY <1>4, <1>6, LexiconHolds DEF TokensFrom
  <1> QED
    BY <1>1, <1>2, <1>3, <1>5, <1>6, ConditionsAssumption

\* The tokens of an expression depend on those of its operands only.
LEMMA TokensFromCongruent ==
    ASSUME NEW g, NEW h, NEW e \in Conditions,
           \A f \in Conditions : Depth[f] < Depth[e] => g[f] = h[f]
    PROVE  TokensFrom(g, e) = TokensFrom(h, e)
  <1>1. ASSUME NEW f, IsOperand(f, e), NEW level
        PROVE  Within(g, f, level) = Within(h, f, level)
    BY <1>1 DEF IsOperand, Within
  <1>2. CASE e[1] \in {"sel", "1", "all"}
    BY <1>2 DEF TokensFrom
  <1>3. CASE e[1] = "not"
    BY <1>1, <1>3, ConditionsAssumption DEF TokensFrom
  <1>4. CASE e[1] \in {"and", "or"}
    BY <1>1, <1>4, ConditionsAssumption DEF TokensFrom
  <1> QED
    BY <1>2, <1>3, <1>4, ConditionsAssumption

\* Tokens obeys its recursion, and no expression is without tokens.
LEMMA TokensUnfold ==
    \A e \in Conditions : Tokens[e] \in Opening /\ Tokens[e] = TokensFrom(Tokens, e)
  <1> DEFINE V == [e \in Conditions |-> Opening]
             W == [Conditions -> Opening]
             F == [g \in W |-> [e \in Conditions |-> TokensFrom(g, e)]]
  <1>1. NestingOf \in [Conditions -> Nat]
    BY ConditionsAssumption DEF NestingOf
  <1>2. \A e \in Conditions : V[e] # {}
    <2>1. <<"of">> \in Opening
      BY LexiconHolds, KeywordOpens DEF Follow
    <2> QED
      BY <2>1
  <1>3. \A g : g \in W <=> g = [e \in Conditions |-> g[e]] /\ \A e \in Conditions : g[e] \in V[e]
    OBVIOUS
  <1>4. \A g \in W : F[g] \in W
    BY TokensFromOpens
  <1>5. \A g, h \in W, e \in Conditions :
            (\A f \in Conditions : NestingOf[f] < NestingOf[e] => g[f] = h[f]) => F[g][e] = F[h][e]
    BY TokensFromCongruent DEF NestingOf
  <1>6. PICK h \in W : h = F[h]
    <2>1. IsRecursion(Conditions, V, NestingOf, W, F)
      <3> HIDE DEF V, W, F
      <3> QED
        BY <1>1, <1>2, <1>3, <1>4, <1>5 DEF IsRecursion
    <2> HIDE DEF V, W, F
    <2> QED
      BY <2>1, RecursionExists
  <1>7. h = [e \in Conditions |-> TokensFrom(h, e)]
    BY <1>6
  <1>8. Tokens = [e \in Conditions |-> TokensFrom(Tokens, e)]
    BY <1>7, Zenon DEF Tokens
  <1>9. \A e \in Conditions :
            (\A f \in Conditions : NestingOf[f] < NestingOf[e] => Tokens[f] = h[f]) => Tokens[e] = h[e]
    <2>1. \A e \in Conditions : Tokens[e] = TokensFrom(Tokens, e) /\ h[e] = TokensFrom(h, e)
      BY <1>7, <1>8, Zenon
    <2> QED
      BY <2>1, TokensFromCongruent DEF NestingOf
  <1>10. \A e \in Conditions : Tokens[e] = h[e]
    BY <1>1, <1>9, RecursionUnique
  <1>11. \A e \in Conditions : Tokens[e] = TokensFrom(Tokens, e)
    BY <1>8, Zenon
  <1> QED
    BY <1>6, <1>10, <1>11

---------------------------------------------------------------------------
(* The meaning of an expression.                                           *)

\* What _rule_matches gives the parser: a Boolean for each selection.
IsResults(s) == \A n \in DOMAIN s : s[n] \in BOOLEAN

\* A condition holds or does not.
LEMMA MeaningFromBoolean ==
    ASSUME NEW s, IsResults(s), NEW g \in [Conditions -> BOOLEAN], NEW e \in Conditions
    PROVE  MeaningFrom(g, e, s) \in BOOLEAN
  <1>1. CASE e[1] \in {"sel", "1", "all"}
    BY <1>1 DEF MeaningFrom, IsResults
  <1>2. CASE e[1] = "not"
    BY <1>2, ConditionsAssumption DEF MeaningFrom, IsOperand
  <1>3. CASE e[1] \in {"and", "or"}
    BY <1>3, ConditionsAssumption DEF MeaningFrom, IsOperand
  <1> QED
    BY <1>1, <1>2, <1>3, ConditionsAssumption

\* The meaning of an expression depends on that of its operands only.
LEMMA MeaningFromCongruent ==
    ASSUME NEW s, NEW g, NEW h, NEW e \in Conditions,
           \A f \in Conditions : Depth[f] < Depth[e] => g[f] = h[f]
    PROVE  MeaningFrom(g, e, s) = MeaningFrom(h, e, s)
  <1>1. CASE e[1] \in {"sel", "1", "all"}
    BY <1>1 DEF MeaningFrom
  <1>2. CASE e[1] = "not"
    BY <1>2, ConditionsAssumption DEF MeaningFrom, IsOperand
  <1>3. CASE e[1] \in {"and", "or"}
    BY <1>3, ConditionsAssumption DEF MeaningFrom, IsOperand
  <1> QED
    BY <1>1, <1>2, <1>3, ConditionsAssumption

\* Meaning obeys its recursion.
LEMMA MeaningUnfolds ==
    ASSUME NEW s, IsResults(s)
    PROVE  \A e \in Conditions : /\ Meanings(s)[e] \in BOOLEAN
                                 /\ Meanings(s)[e] = MeaningFrom(Meanings(s), e, s)
  <1> DEFINE V == [e \in Conditions |-> BOOLEAN]
             W == [Conditions -> BOOLEAN]
             F == [g \in W |-> [e \in Conditions |-> MeaningFrom(g, e, s)]]
             m == Meanings(s)
  <1>1. NestingOf \in [Conditions -> Nat]
    BY ConditionsAssumption DEF NestingOf
  <1>2. \A e \in Conditions : V[e] # {}
    OBVIOUS
  <1>3. \A g : g \in W <=> g = [e \in Conditions |-> g[e]] /\ \A e \in Conditions : g[e] \in V[e]
    OBVIOUS
  <1>4. \A g \in W : F[g] \in W
    BY MeaningFromBoolean
  <1>5. \A g, h \in W, e \in Conditions :
            (\A f \in Conditions : NestingOf[f] < NestingOf[e] => g[f] = h[f]) => F[g][e] = F[h][e]
    BY MeaningFromCongruent DEF NestingOf
  <1>6. PICK h \in W : h = F[h]
    <2>1. IsRecursion(Conditions, V, NestingOf, W, F)
      <3> HIDE DEF V, W, F
      <3> QED
        BY <1>1, <1>2, <1>3, <1>4, <1>5 DEF IsRecursion
    <2> HIDE DEF V, W, F
    <2> QED
      BY <2>1, RecursionExists
  <1>7. h = [e \in Conditions |-> MeaningFrom(h, e, s)]
    BY <1>6
  <1>8. m = [e \in Conditions |-> MeaningFrom(m, e, s)]
    BY <1>7, Zenon DEF Meanings
  <1> HIDE DEF m
  <1>9. \A e \in Conditions :
            (\A f \in Conditions : NestingOf[f] < NestingOf[e] => m[f] = h[f]) => m[e] = h[e]
    <2>1. \A e \in Conditions : m[e] = MeaningFrom(m, e, s) /\ h[e] = MeaningFrom(h, e, s)
      BY <1>7, <1>8, Zenon
    <2> QED
      BY <2>1, MeaningFromCongruent DEF NestingOf
  <1>10. \A e \in Conditions : m[e] = h[e]
    BY <1>1, <1>9, RecursionUnique
  <1>11. \A e \in Conditions : m[e] = MeaningFrom(m, e, s)
    BY <1>8, Zenon
  <1>12. \A e \in Conditions : m[e] \in BOOLEAN
    BY <1>6, <1>10
  <1> QED
    BY <1>11, <1>12 DEF m

---------------------------------------------------------------------------
(* The parser's calls: they terminate, and obey the methods.               *)

\* What a call at token i may come to.
Results(t, i) == [ok : BOOLEAN, value : BOOLEAN, index : i..(Len(t) + 1)]

\* calls says of every call what its method does.
Consistent(calls, t, s) ==
    \A c \in Calls(t) :
        calls[c] \in Results(t, c.index) /\ calls[c] = Outcome(calls, t, s, c)

\* The measure for the calls: how many tokens are left.
Remaining(t) == [c \in Calls(t) |-> Len(t) + 1 - c.index]

\* The calls a call at token i makes are at later tokens.
AgreeAfter(g, h, t, i) == \A c \in Calls(t) : i < c.index => g[c] = h[c]

\* Every call comes to a result at its own token or a later one.
AreOutcomes(g, t) == \A c \in Calls(t) : g[c] \in Results(t, c.index)

\* The next token is x.
Ahead(t, i, x) == Peek(t, i) = x

\* There is no next token.
AtEnd(t, i) == Peek(t, i) = ""

\* A parser that is not at the end is at a token.
LEMMA AheadInside ==
    ASSUME NEW t \in Seq(Lexicon), NEW i \in Nat, i >= 1, ~ AtEnd(t, i)
    PROVE  i \in 1..Len(t)
  <1>1. ~ (i <= Len(t)) => AtEnd(t, i)
    BY DEF Peek, AtEnd
  <1>2. i <= Len(t)
    BY <1>1
  <1>3. Len(t) \in Nat
    OBVIOUS
  <1> QED
    BY <1>2, <1>3

\* A keyword is a token.
LEMMA AheadOther ==
    ASSUME NEW t, NEW i, NEW x \in Keywords, Ahead(t, i, x)
    PROVE  ~ AtEnd(t, i)
  BY DEF Ahead, AtEnd, Keywords

\* An "of" is read at token i.
AheadOf(t, i) == (Ahead(t, i, "1") \/ Ahead(t, i, "all")) /\ Ahead(t, i + 1, "of")

\* The four cases of _parse_primary.
LEMMA PrimaryReads ==
    ASSUME NEW t, NEW s, NEW g, NEW i
    PROVE  /\ AtEnd(t, i) => ParsePrimary(g, t, s, i) = Raised(i)
           /\ Ahead(t, i, "(") =>
                 ParsePrimary(g, t, s, i) =
                     IF ParseOr(g, i + 1).ok /\ Ahead(t, ParseOr(g, i + 1).index, ")")
                     THEN Consume(ParseOr(g, i + 1)) ELSE Raised(ParseOr(g, i + 1).index)
           /\ AheadOf(t, i) =>
                 ParsePrimary(g, t, s, i) =
                     IF AtEnd(t, i + 2) THEN Raised(i + 2)
                     ELSE Parsed(EvaluateOf(t[i], t[i + 2], s), i + 3)
           /\ ~ AtEnd(t, i) /\ ~ Ahead(t, i, "(") /\ ~ AheadOf(t, i) =>
                 ParsePrimary(g, t, s, i) = Parsed(t[i] \in DOMAIN s /\ s[t[i]], i + 1)
  BY DEF ParsePrimary, Ahead, AtEnd, AheadOf

\* What _parse_not makes of its operand.
Negated(r) == [r EXCEPT !.value = r.ok /\ ~@]

\* What _parse_and makes of the operand after an "and": nothing, if the result is FALSE.
AndOperand(g, v, i) == IF v THEN g[Call("not", FALSE, i + 1)] ELSE Parsed(FALSE, i + 1)

\* What _parse_or makes of the operand after an "or": nothing, if the result is TRUE.
OrOperand(g, v, i) == IF v THEN Parsed(TRUE, i + 1) ELSE ParseAnd(g, i + 1)

\* _parse_not with a "not" before it.
LEMMA NotTaken ==
    ASSUME NEW t, NEW s, NEW g, NEW i, Ahead(t, i, "not")
    PROVE  ParseNot(g, t, s, i) = Negated(g[Call("not", FALSE, i + 1)])
  BY DEF ParseNot, Ahead, Negated

\* _parse_not without.
LEMMA NotPassed ==
    ASSUME NEW t, NEW s, NEW g, NEW i, ~ Ahead(t, i, "not")
    PROVE  ParseNot(g, t, s, i) = ParsePrimary(g, t, s, i)
  BY DEF ParseNot, Ahead

\* A round of _parse_and's loop.
LEMMA AndTaken ==
    ASSUME NEW t, NEW v, NEW g, NEW i, Ahead(t, i, "and")
    PROVE  AndLoop(g, t, v, i) = Continue(g, "and", AndOperand(g, v, i))
  BY DEF AndLoop, Ahead, AndOperand

\* The end of _parse_and's loop.
LEMMA AndPassed ==
    ASSUME NEW t, NEW v, NEW g, NEW i, ~ Ahead(t, i, "and")
    PROVE  AndLoop(g, t, v, i) = Parsed(v, i)
  BY DEF AndLoop, Ahead

\* A round of _parse_or's loop.
LEMMA OrTaken ==
    ASSUME NEW t, NEW v, NEW g, NEW i, Ahead(t, i, "or")
    PROVE  OrLoop(g, t, v, i) = Continue(g, "or", OrOperand(g, v, i))
  BY DEF OrLoop, Ahead, OrOperand

\* The end of _parse_or's loop.
LEMMA OrPassed ==
    ASSUME NEW t, NEW v, NEW g, NEW i, ~ Ahead(t, i, "or")
    PROVE  OrLoop(g, t, v, i) = Parsed(v, i)
  BY DEF OrLoop, Ahead

\* To go on comes to a result at a later token.
LEMMA ContinueTyped ==
    ASSUME NEW t \in Seq(Lexicon), NEW g, AreOutcomes(g, t), NEW method \in {"and", "or"},
           NEW i \in 1..(Len(t) + 1), NEW r \in Results(t, i)
    PROVE  Continue(g, method, r) \in Results(t, i)
  <1>1. Call(method, r.value, r.index) \in Calls(t)
    BY DEF Results, Calls, Call
  <1>2. g[Call(method, r.value, r.index)] \in Results(t, r.index)
    BY <1>1 DEF AreOutcomes, Call
  <1>3. Results(t, r.index) \subseteq Results(t, i)
    BY DEF Results
  <1> QED
    BY <1>2, <1>3 DEF Continue

\* To go on depends on later calls only.
LEMMA ContinueCongruent ==
    ASSUME NEW t \in Seq(Lexicon), NEW g, NEW h, NEW i \in 1..(Len(t) + 1), AgreeAfter(g, h, t, i),
           NEW method \in {"and", "or"}, NEW j \in (i + 1)..(Len(t) + 1), NEW r \in Results(t, j)
    PROVE  Continue(g, method, r) = Continue(h, method, r)
  <1>1. Call(method, r.value, r.index) \in Calls(t) /\ i < r.index
    BY DEF Results, Calls, Call
  <1>2. g[Call(method, r.value, r.index)] = h[Call(method, r.value, r.index)]
    BY <1>1 DEF AgreeAfter, Call
  <1> QED
    BY <1>2 DEF Continue

\* _parse_not can be called at any token, and at the end.
LEMMA NotCall ==
    ASSUME NEW t \in Seq(Lexicon), NEW i \in 1..(Len(t) + 1)
    PROVE  Call("not", FALSE, i) \in Calls(t) /\ Call("not", FALSE, i).index = i
  BY DEF Calls, Call

\* _parse_and and _parse_or come to a result at a later token.
LEMMA ParseAndTyped ==
    ASSUME NEW t \in Seq(Lexicon), NEW g, AreOutcomes(g, t), NEW i \in 1..(Len(t) + 1)
    PROVE  ParseAnd(g, i) \in Results(t, i) /\ ParseOr(g, i) \in Results(t, i)
  <1>1. g[Call("not", FALSE, i)] \in Results(t, i)
    BY NotCall DEF AreOutcomes
  <1>2. ParseAnd(g, i) \in Results(t, i)
    BY <1>1, ContinueTyped DEF ParseAnd
  <1> QED
    BY <1>2, ContinueTyped DEF ParseOr

\* _parse_and and _parse_or depend on the calls from their token on.
LEMMA ParseAndCongruent ==
    ASSUME NEW t \in Seq(Lexicon), NEW g, NEW h, AreOutcomes(h, t), NEW i \in 1..Len(t),
           AgreeAfter(g, h, t, i)
    PROVE  ParseAnd(g, i + 1) = ParseAnd(h, i + 1) /\ ParseOr(g, i + 1) = ParseOr(h, i + 1)
  <1> DEFINE j == i + 1
  <1>1. i \in 1..(Len(t) + 1) /\ j \in (i + 1)..(Len(t) + 1) /\ j \in 1..(Len(t) + 1) /\ i < j
    OBVIOUS
  <1> HIDE DEF j
  <1>2. g[Call("not", FALSE, j)] = h[Call("not", FALSE, j)]
    BY <1>1, NotCall DEF AgreeAfter
  <1>3. h[Call("not", FALSE, j)] \in Results(t, j)
    BY <1>1, NotCall DEF AreOutcomes
  <1>4. ParseAnd(g, j) = ParseAnd(h, j)
    <2> DEFINE r == h[Call("not", FALSE, j)]
    <2>1. ParseAnd(g, j) = Continue(g, "and", r) /\ ParseAnd(h, j) = Continue(h, "and", r)
      BY <1>2 DEF ParseAnd
    <2>2. r \in Results(t, j)
      BY <1>3
    <2> HIDE DEF r
    <2>3. Continue(g, "and", r) = Continue(h, "and", r)
      BY <1>1, <2>2, ContinueCongruent
    <2> QED
      BY <2>1, <2>3
  <1>5. ParseAnd(h, j) \in Results(t, j)
    BY <1>1, ParseAndTyped
  <1>6. ParseOr(g, j) = ParseOr(h, j)
    <2>1. Continue(g, "or", ParseAnd(h, j)) = Continue(h, "or", ParseAnd(h, j))
      BY <1>1, <1>5, ContinueCongruent
    <2> QED
      BY <1>4, <2>1 DEF ParseOr
  <1> QED
    BY <1>4, <1>6 DEF j

\* _evaluate_of says yes or no.
LEMMA EvaluateOfBoolean ==
    ASSUME NEW s, IsResults(s), NEW quantifier, NEW pattern
    PROVE  EvaluateOf(quantifier, pattern, s) \in BOOLEAN
  BY DEF EvaluateOf

\* _parse_primary comes to a result at its own token or a later one.
LEMMA ParsePrimaryTyped ==
    ASSUME NEW t \in Seq(Lexicon), NEW s, IsResults(s), NEW g, AreOutcomes(g, t),
           NEW i \in 1..(Len(t) + 1)
    PROVE  ParsePrimary(g, t, s, i) \in Results(t, i)
  <1>1. CASE AtEnd(t, i)
    <2>1. ParsePrimary(g, t, s, i) = Raised(i)
      BY <1>1, PrimaryReads
    <2> QED
      BY <2>1 DEF Raised, Results
  <1>2. CASE ~ AtEnd(t, i)
    <2>1. i \in Nat /\ i >= 1 /\ i \in 1..Len(t) /\ Len(t) \in Nat
      BY <1>2, AheadInside
    <2>2. CASE Ahead(t, i, "(")
      <3> DEFINE j == i + 1
                 r == ParseOr(g, j)
      <3>1. j \in 1..(Len(t) + 1) /\ i <= j
        BY <2>1
      <3>2. ParsePrimary(g, t, s, i) =
                IF r.ok /\ Ahead(t, r.index, ")") THEN Consume(r) ELSE Raised(r.index)
        BY <2>2, PrimaryReads
      <3> HIDE DEF j
      <3>3. r \in Results(t, j)
        BY <3>1, ParseAndTyped
      <3> HIDE DEF r
      <3>4. r.index \in Nat /\ r.index >= 1 /\ r.index \in i..(Len(t) + 1)
        BY <2>1, <3>1, <3>3 DEF Results
      <3>5. Raised(r.index) \in Results(t, i)
        BY <3>4 DEF Results, Raised
      <3>6. ASSUME Ahead(t, r.index, ")") PROVE Consume(r) \in Results(t, i)
        <4>1. ~ AtEnd(t, r.index)
          BY <3>6, AheadOther DEF Keywords
        <4>2. r.index \in 1..Len(t)
          BY <3>4, <4>1, AheadInside
        <4> QED
          BY <2>1, <3>3, <3>4, <4>2 DEF Results, Consume
      <3> QED
        BY <3>2, <3>5, <3>6
    <2>3. CASE AheadOf(t, i)
      <3> DEFINE j == i + 1
                 k == i + 2
      <3>1. j \in Nat /\ j >= 1 /\ k \in Nat /\ k >= 1 /\ k = j + 1
        BY <2>1
      <3>2. Ahead(t, j, "of")
        BY <2>3 DEF AheadOf
      <3>3. ParsePrimary(g, t, s, i) =
                IF AtEnd(t, k) THEN Raised(k) ELSE Parsed(EvaluateOf(t[i], t[k], s), i + 3)
        BY <2>3, PrimaryReads
      <3>4. ~ AtEnd(t, k) => k \in 1..Len(t)
        <4> HIDE DEF k
        <4> QED
          BY <3>1, AheadInside
      <3>5. j \in 1..Len(t)
        <4> HIDE DEF j
        <4>1. ~ AtEnd(t, j)
          BY <3>2, AheadOther DEF Keywords
        <4> QED
          BY <3>1, <4>1, AheadInside
      <3>6. k \in i..(Len(t) + 1) /\ (~ AtEnd(t, k) => i + 3 \in i..(Len(t) + 1))
        BY <2>1, <3>4, <3>5
      <3>7. EvaluateOf(t[i], t[k], s) \in BOOLEAN
        BY EvaluateOfBoolean
      <3> HIDE DEF j, k
      <3> QED
        BY <3>3, <3>6, <3>7 DEF Raised, Parsed, Results
    <2>4. CASE ~ Ahead(t, i, "(") /\ ~ AheadOf(t, i)
      <3>1. ParsePrimary(g, t, s, i) = Parsed(t[i] \in DOMAIN s /\ s[t[i]], i + 1)
        BY <1>2, <2>4, PrimaryReads
      <3>2. i + 1 \in i..(Len(t) + 1)
        BY <2>1
      <3>3. (t[i] \in DOMAIN s /\ s[t[i]]) \in BOOLEAN
        BY DEF IsResults
      <3> QED
        BY <3>1, <3>2, <3>3 DEF Parsed, Results
    <2> QED
      BY <2>2, <2>3, <2>4
  <1> QED
    BY <1>1, <1>2

\* What a call at a token may rely on: it only asks about the tokens after it.
LEMMA Later ==
    ASSUME NEW t \in Seq(Lexicon), NEW g, AreOutcomes(g, t), NEW i \in 1..Len(t)
    PROVE  /\ i + 1 \in 1..(Len(t) + 1) /\ i + 1 \in (i + 1)..(Len(t) + 1)
           /\ Results(t, i + 1) \subseteq Results(t, i)
           /\ g[Call("not", FALSE, i + 1)] \in Results(t, i + 1)
           /\ ParseAnd(g, i + 1) \in Results(t, i + 1)
           /\ ParseOr(g, i + 1) \in Results(t, i + 1)
           /\ \A b \in BOOLEAN : Parsed(b, i + 1) \in Results(t, i + 1)
  <1> DEFINE j == i + 1
  <1>1. j \in 1..(Len(t) + 1) /\ i <= j /\ i \in Nat /\ j \in (i + 1)..(Len(t) + 1)
    OBVIOUS
  <1> HIDE DEF j
  <1>2. Results(t, j) \subseteq Results(t, i)
    BY <1>1 DEF Results
  <1>3. g[Call("not", FALSE, j)] \in Results(t, j)
    BY <1>1, NotCall DEF AreOutcomes
  <1>4. ParseAnd(g, j) \in Results(t, j) /\ ParseOr(g, j) \in Results(t, j)
    BY <1>1, ParseAndTyped
  <1>5. \A b \in BOOLEAN : Parsed(b, j) \in Results(t, j)
    BY <1>1 DEF Parsed, Results
  <1> QED
    BY <1>1, <1>2, <1>3, <1>4, <1>5 DEF j

\* A keyword ahead is inside the tokens.
LEMMA AheadWithin ==
    ASSUME NEW t \in Seq(Lexicon), NEW i \in 1..(Len(t) + 1), NEW x \in Keywords, Ahead(t, i, x)
    PROVE  i \in 1..Len(t)
  <1>1. ~ AtEnd(t, i)
    BY AheadOther
  <1>2. i \in Nat /\ i >= 1
    OBVIOUS
  <1> QED
    BY <1>1, <1>2, AheadInside

\* Every method comes to a result, never before its own token.
LEMMA OutcomeTyped ==
    ASSUME NEW t \in Seq(Lexicon), NEW s, IsResults(s), NEW g, AreOutcomes(g, t), NEW c \in Calls(t)
    PROVE  Outcome(g, t, s, c) \in Results(t, c.index)
  <1> DEFINE i == c.index
             v == c.value
  <1>1. i \in 1..(Len(t) + 1) /\ v \in BOOLEAN /\ c.method \in {"not", "and", "or"}
    BY DEF Calls
  <1>2. \A b \in BOOLEAN : Parsed(b, i) \in Results(t, i)
    BY <1>1 DEF Parsed, Results
  <1> HIDE DEF i, v
  <1>3. ParseNot(g, t, s, i) \in Results(t, i)
    <2>1. CASE Ahead(t, i, "not")
      <3> DEFINE r == g[Call("not", FALSE, i + 1)]
      <3>1. i \in 1..Len(t)
        BY <1>1, <2>1, AheadWithin DEF Keywords
      <3>2. r \in Results(t, i)
        BY <3>1, Later
      <3>3. ParseNot(g, t, s, i) = Negated(r)
        BY <2>1, NotTaken
      <3> HIDE DEF r
      <3> QED
        BY <3>2, <3>3 DEF Results, Negated
    <2>2. CASE ~ Ahead(t, i, "not")
      BY <1>1, <2>2, ParsePrimaryTyped, NotPassed
    <2> QED
      BY <2>1, <2>2
  <1>4. AndLoop(g, t, v, i) \in Results(t, i)
    <2>1. CASE Ahead(t, i, "and")
      <3> DEFINE r == AndOperand(g, v, i)
      <3>1. i \in 1..Len(t)
        BY <1>1, <2>1, AheadWithin DEF Keywords
      <3>2. r \in Results(t, i)
        BY <3>1, Later DEF AndOperand
      <3>3. AndLoop(g, t, v, i) = Continue(g, "and", r)
        BY <2>1, AndTaken
      <3> HIDE DEF r
      <3>4. Continue(g, "and", r) \in Results(t, i)
        BY <1>1, <3>2, ContinueTyped
      <3> QED
        BY <3>3, <3>4
    <2>2. CASE ~ Ahead(t, i, "and")
      BY <1>1, <1>2, <2>2, AndPassed
    <2> QED
      BY <2>1, <2>2
  <1>5. OrLoop(g, t, v, i) \in Results(t, i)
    <2>1. CASE Ahead(t, i, "or")
      <3> DEFINE r == OrOperand(g, v, i)
      <3>1. i \in 1..Len(t)
        BY <1>1, <2>1, AheadWithin DEF Keywords
      <3>2. r \in Results(t, i)
        BY <3>1, Later DEF OrOperand
      <3>3. OrLoop(g, t, v, i) = Continue(g, "or", r)
        BY <2>1, OrTaken
      <3> HIDE DEF r
      <3>4. Continue(g, "or", r) \in Results(t, i)
        BY <1>1, <3>2, ContinueTyped
      <3> QED
        BY <3>3, <3>4
    <2>2. CASE ~ Ahead(t, i, "or")
      BY <1>1, <1>2, <2>2, OrPassed
    <2> QED
      BY <2>1, <2>2
  <1> QED
    BY <1>1, <1>3, <1>4, <1>5 DEF Outcome, i, v

\* What a method comes to depends on later calls only: the parser never calls itself at the
\* same token in a circle.
LEMMA OutcomeCongruent ==
    ASSUME NEW t \in Seq(Lexicon), NEW s, NEW g, NEW h, AreOutcomes(h, t), NEW c \in Calls(t),
           AgreeAfter(g, h, t, c.index)
    PROVE  Outcome(g, t, s, c) = Outcome(h, t, s, c)
  <1> DEFINE i == c.index
             v == c.value
  <1>1. i \in 1..(Len(t) + 1) /\ c.method \in {"not", "and", "or"} /\ AgreeAfter(g, h, t, i)
    BY DEF Calls
  <1> HIDE DEF i, v
  <1>2. ASSUME i \in 1..Len(t)
        PROVE  /\ g[Call("not", FALSE, i + 1)] = h[Call("not", FALSE, i + 1)]
               /\ ParseAnd(g, i + 1) = ParseAnd(h, i + 1) /\ ParseOr(g, i + 1) = ParseOr(h, i + 1)
    <2> DEFINE j == i + 1
    <2>1. j \in 1..(Len(t) + 1) /\ i < j
      BY <1>2
    <2>2. ParseAnd(g, j) = ParseAnd(h, j) /\ ParseOr(g, j) = ParseOr(h, j)
      BY <1>1, <1>2, ParseAndCongruent
    <2> HIDE DEF j
    <2>3. g[Call("not", FALSE, j)] = h[Call("not", FALSE, j)]
      BY <1>1, <2>1, NotCall DEF AgreeAfter
    <2> QED
      BY <2>2, <2>3 DEF j
  <1>3. ASSUME NEW method \in {"and", "or"}, NEW r, i \in 1..Len(t), r \in Results(t, i + 1)
        PROVE  Continue(g, method, r) = Continue(h, method, r)
    <2> DEFINE j == i + 1
    <2>1. j \in (i + 1)..(Len(t) + 1) /\ r \in Results(t, j)
      BY <1>3, Later
    <2> HIDE DEF j
    <2> QED
      BY <1>1, <2>1, ContinueCongruent
  <1>4. ParseNot(g, t, s, i) = ParseNot(h, t, s, i)
    <2>1. CASE Ahead(t, i, "not")
      <3>1. g[Call("not", FALSE, i + 1)] = h[Call("not", FALSE, i + 1)]
        BY <1>1, <1>2, <2>1, AheadWithin DEF Keywords
      <3>2. /\ ParseNot(g, t, s, i) = Negated(g[Call("not", FALSE, i + 1)])
            /\ ParseNot(h, t, s, i) = Negated(h[Call("not", FALSE, i + 1)])
        BY <2>1, NotTaken
      <3> QED
        BY <3>1, <3>2
    <2>2. CASE ~ Ahead(t, i, "not")
      <3>1. Ahead(t, i, "(") => ParseOr(g, i + 1) = ParseOr(h, i + 1)
        BY <1>1, <1>2, AheadWithin DEF Keywords
      <3>2. ParsePrimary(g, t, s, i) = ParsePrimary(h, t, s, i)
        BY <3>1 DEF ParsePrimary, Ahead
      <3> QED
        BY <2>2, <3>2, NotPassed
    <2> QED
      BY <2>1, <2>2
  <1>5. AndLoop(g, t, v, i) = AndLoop(h, t, v, i)
    <2>1. CASE Ahead(t, i, "and")
      <3> DEFINE q == AndOperand(g, v, i)
                 r == AndOperand(h, v, i)
      <3>1. i \in 1..Len(t)
        BY <1>1, <2>1, AheadWithin DEF Keywords
      <3>2. q = r /\ r \in Results(t, i + 1)
        BY <1>2, <3>1, Later DEF AndOperand
      <3>3. AndLoop(g, t, v, i) = Continue(g, "and", q) /\ AndLoop(h, t, v, i) = Continue(h, "and", r)
        BY <2>1, AndTaken
      <3> HIDE DEF q, r
      <3>4. Continue(g, "and", r) = Continue(h, "and", r)
        BY <1>3, <3>1, <3>2
      <3> QED
        BY <3>2, <3>3, <3>4
    <2>2. CASE ~ Ahead(t, i, "and")
      BY <2>2, AndPassed
    <2> QED
      BY <2>1, <2>2
  <1>6. OrLoop(g, t, v, i) = OrLoop(h, t, v, i)
    <2>1. CASE Ahead(t, i, "or")
      <3> DEFINE q == OrOperand(g, v, i)
                 r == OrOperand(h, v, i)
      <3>1. i \in 1..Len(t)
        BY <1>1, <2>1, AheadWithin DEF Keywords
      <3>2. q = r /\ r \in Results(t, i + 1)
        BY <1>2, <3>1, Later DEF OrOperand
      <3>3. OrLoop(g, t, v, i) = Continue(g, "or", q) /\ OrLoop(h, t, v, i) = Continue(h, "or", r)
        BY <2>1, OrTaken
      <3> HIDE DEF q, r
      <3>4. Continue(g, "or", r) = Continue(h, "or", r)
        BY <1>3, <3>1, <3>2
      <3> QED
        BY <3>2, <3>3, <3>4
    <2>2. CASE ~ Ahead(t, i, "or")
      BY <2>2, OrPassed
    <2> QED
      BY <2>1, <2>2
  <1> QED
    BY <1>1, <1>4, <1>5, <1>6 DEF Outcome, i, v

\* Whatever the tokens, the parser terminates: Outcomes obeys the recursion of the methods.
LEMMA OutcomesConsistent ==
    ASSUME NEW t \in Seq(Lexicon), NEW s, IsResults(s)
    PROVE  Consistent(Outcomes(t, s), t, s)
  <1> DEFINE D == Calls(t)
             V == [c \in D |-> Results(t, c.index)]
             W == {g \in [D -> Results(t, 1)] : AreOutcomes(g, t)}
             F == [g \in W |-> [c \in D |-> Outcome(g, t, s, c)]]
             o == Outcomes(t, s)
  <1>1. Len(t) \in Nat /\ \A c \in D : c.index \in 1..(Len(t) + 1)
    BY DEF Calls
  <1>2. Remaining(t) \in [D -> Nat]
    BY <1>1 DEF Remaining
  <1>3. ASSUME NEW c \in D PROVE V[c] # {} /\ V[c] \subseteq Results(t, 1)
    <2>1. Raised(c.index) \in Results(t, c.index)
      BY <1>1 DEF Raised, Results
    <2>2. Results(t, c.index) \subseteq Results(t, 1)
      BY <1>1 DEF Results
    <2> QED
      BY <2>1, <2>2
  <1>4. \A g : g \in W <=> g = [c \in D |-> g[c]] /\ \A c \in D : g[c] \in V[c]
    BY <1>3 DEF AreOutcomes
  <1>5. \A g \in W : F[g] \in W
    <2>1. ASSUME NEW g \in W PROVE F[g] \in W
      <3>1. AreOutcomes(g, t)
        OBVIOUS
      <3>2. \A c \in D : F[g][c] \in V[c]
        BY <3>1, OutcomeTyped
      <3>3. F[g] = [c \in D |-> F[g][c]]
        OBVIOUS
      <3> QED
        BY <1>4, <3>2, <3>3
    <2> QED
      BY <2>1
  <1>6. ASSUME NEW g, NEW h, AreOutcomes(h, t), NEW c \in D,
               \A b \in D : Remaining(t)[b] < Remaining(t)[c] => g[b] = h[b]
        PROVE  Outcome(g, t, s, c) = Outcome(h, t, s, c)
    <2>1. \A b \in D : c.index < b.index => Remaining(t)[b] < Remaining(t)[c]
      BY <1>1 DEF Remaining
    <2>2. AgreeAfter(g, h, t, c.index)
      BY <1>6, <2>1 DEF AgreeAfter
    <2> QED
      BY <1>6, <2>2, OutcomeCongruent
  <1>7. \A g, h \in W, c \in D :
            (\A b \in D : Remaining(t)[b] < Remaining(t)[c] => g[b] = h[b]) => F[g][c] = F[h][c]
    BY <1>6
  <1>8. PICK h \in W : h = F[h]
    <2>1. IsRecursion(D, V, Remaining(t), W, F)
      <3> HIDE DEF D, V, W, F
      <3> QED
        BY <1>2, <1>3, <1>4, <1>5, <1>7 DEF IsRecursion
    <2> HIDE DEF D, V, W, F
    <2> QED
      BY <2>1, RecursionExists
  <1>9. h = [c \in Calls(t) |-> Outcome(h, t, s, c)] /\ AreOutcomes(h, t)
    BY <1>8
  <1>10. o = [c \in Calls(t) |-> Outcome(o, t, s, c)]
    BY <1>9, Zenon DEF Outcomes
  <1> HIDE DEF o
  <1>11. \A c \in D : o[c] = Outcome(o, t, s, c) /\ h[c] = Outcome(h, t, s, c)
    BY <1>9, <1>10, Zenon
  <1>12. \A c \in D : o[c] = h[c]
    <2> DEFINE mu == Remaining(t)
    <2>1. \A c \in D : (\A b \in D : mu[b] < mu[c] => o[b] = h[b]) => o[c] = h[c]
      BY <1>6, <1>9, <1>11
    <2>2. mu \in [D -> Nat]
      BY <1>2
    <2> HIDE DEF D, V, W, F, mu
    <2> QED
      BY <2>1, <2>2, RecursionUnique
  <1> QED
    BY <1>9, <1>11, <1>12 DEF Consistent, AreOutcomes, o

---------------------------------------------------------------------------
(* Where tokens occur, and where a parser is stuck.                        *)

\* The tokens u are those of t from i on.
Occurs(u, t, i) ==
    /\ i \in Nat /\ i >= 1 /\ i + Len(u) <= Len(t) + 1
    /\ \A k \in 1..Len(u) : t[i + k - 1] = u[k]

\* Concatenation as a term the lemmas can be instantiated with.
Cat(u, w) == u \o w

\* A concatenation is a sequence as long as its parts.
LEMMA CatIn ==
    ASSUME NEW S, NEW u \in Seq(S), NEW w \in Seq(S)
    PROVE  /\ Cat(u, w) \in Seq(S)
           /\ Len(Cat(u, w)) = Len(u) + Len(w) /\ Len(u) \in Nat /\ Len(w) \in Nat
  BY Concatenation DEF Cat

\* The elements of a concatenation are those of its parts.
LEMMA CatElements ==
    ASSUME NEW S, NEW u \in Seq(S), NEW w \in Seq(S)
    PROVE  /\ \A k \in 1..Len(u) : Cat(u, w)[k] = u[k]
           /\ \A k \in 1..Len(w) : Cat(u, w)[Len(u) + k] = w[k]
  BY Concatenation DEF Cat

\* Where a concatenation occurs, so do its parts.
LEMMA OccursConcat ==
    ASSUME NEW t \in Seq(Lexicon), NEW u \in Seq(Lexicon), NEW w \in Seq(Lexicon), NEW i,
           Occurs(Cat(u, w), t, i)
    PROVE  Occurs(u, t, i) /\ Occurs(w, t, i + Len(u))
  <1> DEFINE x == Cat(u, w)
  <1>1. /\ Len(t) \in Nat /\ Len(u) \in Nat /\ Len(w) \in Nat
        /\ Len(x) = Len(u) + Len(w)
        /\ \A k \in 1..Len(u) : x[k] = u[k]
        /\ \A k \in 1..Len(w) : x[Len(u) + k] = w[k]
    <2>1. Len(t) \in Nat /\ Len(u) \in Nat /\ Len(w) \in Nat
      OBVIOUS
    <2>2. Len(x) = Len(u) + Len(w)
      BY CatIn
    <2>3. \A k \in 1..Len(u) : x[k] = u[k]
      BY CatElements
    <2>4. \A k \in 1..Len(w) : x[Len(u) + k] = w[k]
      BY CatElements
    <2> QED
      BY <2>1, <2>2, <2>3, <2>4
  <1>2. i \in Nat /\ i >= 1 /\ i + Len(x) <= Len(t) + 1 /\ \A k \in 1..Len(x) : t[i + k - 1] = x[k]
    BY DEF Occurs
  <1> HIDE DEF x
  <1>3. i \in Nat /\ i >= 1 /\ i + Len(u) + Len(w) <= Len(t) + 1
    BY <1>1, <1>2
  <1>4. \A k \in 1..Len(u) : t[i + k - 1] = u[k]
    <2>1. \A k \in 1..Len(u) : k \in 1..Len(x)
      BY <1>1
    <2> QED
      BY <1>1, <1>2, <2>1
  <1>5. ASSUME NEW k \in 1..Len(w) PROVE t[(i + Len(u)) + k - 1] = w[k]
    <2>1. Len(u) + k \in 1..Len(x) /\ (i + Len(u)) + k - 1 = i + (Len(u) + k) - 1
      BY <1>1, <1>3
    <2>2. t[i + (Len(u) + k) - 1] = x[Len(u) + k]
      BY <1>2, <2>1
    <2> QED
      BY <1>1, <2>1, <2>2
  <1> QED
    BY <1>1, <1>3, <1>4, <1>5 DEF Occurs

\* Where tokens occur, the first of them is ahead.
LEMMA OccursFirst ==
    ASSUME NEW S, NEW t \in Seq(S), NEW u \in Seq(S), u # <<>>, NEW i, Occurs(u, t, i)
    PROVE  i \in 1..Len(t) /\ Peek(t, i) = u[1] /\ t[i] = u[1]
  <1>1. Len(t) \in Nat /\ Len(u) \in Nat /\ Len(u) >= 1
    OBVIOUS
  <1>2. i \in 1..Len(t) /\ 1 \in 1..Len(u) /\ i + 1 - 1 = i
    BY <1>1 DEF Occurs
  <1>3. t[i + 1 - 1] = u[1]
    BY <1>2 DEF Occurs
  <1> QED
    BY <1>2, <1>3 DEF Peek

\* Where a token occurs it is ahead.
LEMMA OccursOne ==
    ASSUME NEW t \in Seq(Lexicon), NEW x \in Lexicon, NEW i, Occurs(<<x>>, t, i)
    PROVE  i \in 1..Len(t) /\ Ahead(t, i, x) /\ t[i] = x
  <1> DEFINE u == <<x>>
  <1>1. u \in Seq(Lexicon) /\ u # <<>> /\ u[1] = x
    BY OneToken
  <1>2. Occurs(u, t, i)
    OBVIOUS
  <1> HIDE DEF u
  <1> QED
    BY <1>1, <1>2, OccursFirst DEF Ahead

\* What may come after an operand comes at j.
Over(t, j) == Peek(t, j) \in Follow

\* A parser that stands before the first token of an operand it did not read.
Stuck(r, t) == r.ok => ~ Over(t, r.index)

\* What a keyword ahead ends, and what else it is not.
LEMMA KeywordOver ==
    ASSUME NEW t, NEW j
    PROVE  /\ Ahead(t, j, "and") \/ Ahead(t, j, "or") \/ Ahead(t, j, ")") => Over(t, j)
           /\ AtEnd(t, j) => Over(t, j)
           /\ Ahead(t, j, "and") \/ Ahead(t, j, "or") => ~ Ahead(t, j, ")")
           /\ Ahead(t, j, "or") \/ Ahead(t, j, ")") => ~ Ahead(t, j, "and")
           /\ Ahead(t, j, ")") => ~ Ahead(t, j, "or")
           /\ AtEnd(t, j) => ~ Ahead(t, j, "and") /\ ~ Ahead(t, j, "or")
  BY DEF Ahead, AtEnd, Over, Follow

\* Before the first token of an operand there is no operator, no ")" and no end.
LEMMA NotOver ==
    ASSUME NEW t, NEW j, ~ Over(t, j)
    PROVE  ~ Ahead(t, j, "and") /\ ~ Ahead(t, j, "or") /\ ~ Ahead(t, j, ")") /\ ~ AtEnd(t, j)
  BY KeywordOver

\* A call comes to what its method says.
LEMMA CallsGive ==
    ASSUME NEW t \in Seq(Lexicon), NEW s, NEW o, Consistent(o, t, s),
           NEW i \in 1..(Len(t) + 1), NEW v \in BOOLEAN
    PROVE  /\ o[Call("not", FALSE, i)] = ParseNot(o, t, s, i)
           /\ o[Call("and", v, i)] = AndLoop(o, t, v, i)
           /\ o[Call("or", v, i)] = OrLoop(o, t, v, i)
           /\ \A c \in {Call("not", FALSE, i), Call("and", v, i), Call("or", v, i)} :
                  o[c] \in Results(t, i)
  <1>1. /\ Call("not", FALSE, i) \in Calls(t) /\ Call("and", v, i) \in Calls(t)
        /\ Call("or", v, i) \in Calls(t)
    BY DEF Calls, Call
  <1>2. /\ Outcome(o, t, s, Call("not", FALSE, i)) = ParseNot(o, t, s, i)
        /\ Outcome(o, t, s, Call("and", v, i)) = AndLoop(o, t, v, i)
        /\ Outcome(o, t, s, Call("or", v, i)) = OrLoop(o, t, v, i)
    BY DEF Outcome, Call
  <1>3. \A c \in {Call("not", FALSE, i), Call("and", v, i), Call("or", v, i)} : c.index = i
    BY DEF Call
  <1> QED
    BY <1>1, <1>2, <1>3 DEF Consistent

\* And so does one of _parse_not.
LEMMA NotCallGives ==
    ASSUME NEW t \in Seq(Lexicon), NEW s, NEW o, Consistent(o, t, s), NEW i \in 1..(Len(t) + 1)
    PROVE  o[Call("not", FALSE, i)] = ParseNot(o, t, s, i) /\ o[Call("not", FALSE, i)] \in Results(t, i)
  BY CallsGive

\* Consistent outcomes are outcomes.
LEMMA ConsistentAre ==
    ASSUME NEW t, NEW s, NEW o, Consistent(o, t, s)
    PROVE  AreOutcomes(o, t)
  BY DEF Consistent, AreOutcomes

\* The loops end, and what is stuck stays as it is.
LEMMA LoopsEnd ==
    ASSUME NEW t \in Seq(Lexicon), NEW s, NEW o, Consistent(o, t, s),
           NEW i \in 1..(Len(t) + 1), NEW v \in BOOLEAN
    PROVE  /\ ~ Ahead(t, i, "and") => o[Call("and", v, i)] = Parsed(v, i)
           /\ ~ Ahead(t, i, "or") => o[Call("or", v, i)] = Parsed(v, i)
  <1>1. o[Call("and", v, i)] = AndLoop(o, t, v, i) /\ o[Call("or", v, i)] = OrLoop(o, t, v, i)
    BY CallsGive
  <1>2. ~ Ahead(t, i, "and") => AndLoop(o, t, v, i) = Parsed(v, i)
    BY AndPassed
  <1>3. ~ Ahead(t, i, "or") => OrLoop(o, t, v, i) = Parsed(v, i)
    BY OrPassed
  <1> QED
    BY <1>1, <1>2, <1>3

\* After a result the loop goes on where the result ends.
LEMMA ContinueParsed ==
    ASSUME NEW o, NEW method, NEW v, NEW i
    PROVE  Continue(o, method, Parsed(v, i)) = o[Call(method, v, i)]
  BY DEF Continue, Parsed

\* No loop gets a stuck parser on.
LEMMA ContinueStuck ==
    ASSUME NEW t \in Seq(Lexicon), NEW s, NEW o, Consistent(o, t, s),
           NEW i \in 1..(Len(t) + 1), NEW r \in Results(t, i), Stuck(r, t)
    PROVE  Continue(o, "and", r) = r /\ Continue(o, "or", r) = r
  <1>1. CASE ~ r.ok
    BY <1>1 DEF Continue
  <1>2. CASE r.ok
    <2> DEFINE v == r.value
               k == r.index
    <2>1. v \in BOOLEAN /\ k \in 1..(Len(t) + 1) /\ r = Parsed(v, k)
      BY <1>2 DEF Results, Parsed
    <2>2. ~ Over(t, k)
      BY <1>2 DEF Stuck
    <2> HIDE DEF v, k
    <2>3. o[Call("and", v, k)] = r /\ o[Call("or", v, k)] = r
      BY <2>1, <2>2, NotOver, LoopsEnd
    <2> QED
      BY <2>1, <2>3, ContinueParsed
  <1> QED
    BY <1>1, <1>2

---------------------------------------------------------------------------
(* Reading an expression.                                                  *)

\* r is x, or stuck.
Comes(r, x, t) == r = x \/ Stuck(r, t)

\* What the methods make of the tokens from i to j, which mean v.
AsTerm(o, t, i, v, j) == Comes(o[Call("not", FALSE, i)], Parsed(v, j), t)
\* _parse_not makes v of the tokens from i to j.
AsExactTerm(o, i, v, j) == o[Call("not", FALSE, i)] = Parsed(v, j)
\* _parse_and goes on from j with the result v, or is stuck.
AsAnd(o, t, i, v, j) == Comes(ParseAnd(o, i), o[Call("and", v, j)], t)
\* _parse_or goes on from j with the result v, or is stuck.
AsOr(o, t, i, v, j) == Comes(ParseOr(o, i), o[Call("or", v, j)], t)

\* What _parse_not reads, _parse_and reads.
LEMMA TermIsAnd ==
    ASSUME NEW t \in Seq(Lexicon), NEW s, NEW o, Consistent(o, t, s),
           NEW i \in 1..(Len(t) + 1), NEW j, NEW v, AsTerm(o, t, i, v, j)
    PROVE  AsAnd(o, t, i, v, j)
  <1> DEFINE r == o[Call("not", FALSE, i)]
  <1>1. ParseAnd(o, i) = Continue(o, "and", r)
    BY DEF ParseAnd
  <1>2. r \in Results(t, i)
    BY CallsGive
  <1>3. r = Parsed(v, j) \/ Stuck(r, t)
    BY DEF AsTerm, Comes
  <1> HIDE DEF r
  <1>4. CASE r = Parsed(v, j)
    BY <1>1, <1>4, ContinueParsed DEF AsAnd, Comes
  <1>5. CASE Stuck(r, t)
    <2>1. Continue(o, "and", r) = r
      BY <1>2, <1>5, ContinueStuck
    <2> QED
      BY <1>1, <1>5, <2>1 DEF AsAnd, Comes
  <1> QED
    BY <1>3, <1>4, <1>5

\* What _parse_and reads to its end, _parse_or reads.
LEMMA AndIsOr ==
    ASSUME NEW t \in Seq(Lexicon), NEW s, NEW o, Consistent(o, t, s),
           NEW i \in 1..(Len(t) + 1), NEW j \in 1..(Len(t) + 1), NEW v \in BOOLEAN,
           AsAnd(o, t, i, v, j), ~ Ahead(t, j, "and")
    PROVE  AsOr(o, t, i, v, j)
  <1> DEFINE r == ParseAnd(o, i)
  <1>1. ParseOr(o, i) = Continue(o, "or", r)
    BY DEF ParseOr
  <1>2. r \in Results(t, i)
    BY ConsistentAre, ParseAndTyped
  <1>3. r = o[Call("and", v, j)] \/ Stuck(r, t)
    BY DEF AsAnd, Comes
  <1> HIDE DEF r
  <1>4. CASE r = o[Call("and", v, j)]
    <2>1. r = Parsed(v, j)
      BY <1>4, LoopsEnd
    <2> QED
      BY <1>1, <2>1, ContinueParsed DEF AsOr, Comes
  <1>5. CASE Stuck(r, t)
    <2>1. Continue(o, "or", r) = r
      BY <1>2, <1>5, ContinueStuck
    <2> QED
      BY <1>1, <1>5, <2>1 DEF AsOr, Comes
  <1> QED
    BY <1>3, <1>4, <1>5

\* What _parse_or reads to its end is its result.
LEMMA OrIsParsed ==
    ASSUME NEW t \in Seq(Lexicon), NEW s, NEW o, Consistent(o, t, s),
           NEW i, NEW j \in 1..(Len(t) + 1), NEW v \in BOOLEAN,
           AsOr(o, t, i, v, j), ~ Ahead(t, j, "or")
    PROVE  Comes(ParseOr(o, i), Parsed(v, j), t)
  <1>1. o[Call("or", v, j)] = Parsed(v, j)
    BY LoopsEnd
  <1> QED
    BY <1>1 DEF AsOr, Comes

\* What _parse_and reads to its end is its result.
LEMMA AndIsParsed ==
    ASSUME NEW t \in Seq(Lexicon), NEW s, NEW o, Consistent(o, t, s),
           NEW i, NEW j \in 1..(Len(t) + 1), NEW v \in BOOLEAN,
           AsAnd(o, t, i, v, j), ~ Ahead(t, j, "and")
    PROVE  Comes(ParseAnd(o, i), Parsed(v, j), t)
  <1>1. o[Call("and", v, j)] = Parsed(v, j)
    BY LoopsEnd
  <1> QED
    BY <1>1 DEF AsAnd, Comes

\* The expression e, wherever it stands, is read as what it means by the methods that may
\* meet it without parentheses, or leaves them stuck.
Reads(o, t, m, e) ==
    \A i : LET j == i + Len(Tokens[e])
           IN  Occurs(Tokens[e], t, i) /\ Over(t, j) =>
                  /\ Binding(e) = 3 => AsTerm(o, t, i, m[e], j)
                  /\ Binding(e) # 1 => AsAnd(o, t, i, m[e], j)
                  /\ ~ Ahead(t, j, "and") => AsOr(o, t, i, m[e], j)

\* An expression is a disjunction, a conjunction or a term.
LEMMA BindingRange == \A e : Binding(e) \in {1, 2, 3}
  BY DEF Binding

\* Where tokens occur and where they end.
LEMMA OccursEnds ==
    ASSUME NEW t \in Seq(Lexicon), NEW u \in Seq(Lexicon), NEW i, Occurs(u, t, i)
    PROVE  i \in 1..(Len(t) + 1) /\ i + Len(u) \in 1..(Len(t) + 1) /\ Len(u) \in Nat
  <1>1. Len(t) \in Nat /\ Len(u) \in Nat
    OBVIOUS
  <1> QED
    BY <1>1 DEF Occurs

\* The tokens in parentheses.
Group(u) == <<"(">> \o u \o <<")">>

\* An expression in parentheses is read as a term (_parse_primary).
LEMMA GroupReads ==
    ASSUME NEW t \in Seq(Lexicon), NEW s, NEW o, Consistent(o, t, s), NEW m,
           NEW f \in Conditions, m[f] \in BOOLEAN, Reads(o, t, m, f),
           NEW i, Occurs(Group(Tokens[f]), t, i)
    PROVE  AsTerm(o, t, i, m[f], i + Len(Group(Tokens[f])))
  <1> DEFINE open == <<"(">>
             close == <<")">>
             u == Tokens[f]
             ou == Cat(open, u)
             g == Group(u)
             a == i + 1
             k == a + Len(u)
             q == ParseOr(o, a)
             r == o[Call("not", FALSE, i)]
  <1>1. open \in Seq(Lexicon) /\ close \in Seq(Lexicon) /\ Len(open) = 1 /\ Len(close) = 1
    BY LexiconHolds, OneToken
  <1>2. u \in Seq(Lexicon)
    BY TokensUnfold DEF Opening
  <1>3. g = Cat(ou, close)
    BY DEF Group, Cat
  <1>4. Occurs(Cat(ou, close), t, i)
    BY <1>3
  <1>5. Occurs(open, t, i) => i \in 1..Len(t) /\ Ahead(t, i, "(")
    BY LexiconHolds, OccursOne
  <1>6. ASSUME NEW x, Occurs(close, t, x) PROVE x \in 1..Len(t) /\ Ahead(t, x, ")")
    BY <1>6, LexiconHolds, OccursOne
  <1> HIDE DEF open, close, u, g
  <1>7. ou \in Seq(Lexicon) /\ Len(ou) = 1 + Len(u) /\ Len(u) \in Nat
    BY <1>1, <1>2, CatIn
  <1>8. Occurs(ou, t, i) => Occurs(open, t, i) /\ Occurs(u, t, i + Len(open))
    BY <1>1, <1>2, OccursConcat
  <1> HIDE DEF ou
  <1>9. Occurs(ou, t, i) /\ Occurs(close, t, i + Len(ou)) /\ Len(g) = Len(ou) + 1
    <2>1. Len(Cat(ou, close)) = Len(ou) + Len(close)
      BY <1>1, <1>7, CatIn
    <2> QED
      BY <1>1, <1>3, <1>4, <1>7, <2>1, OccursConcat
  <1>10. Occurs(open, t, i) /\ Occurs(u, t, i + 1)
    BY <1>1, <1>8, <1>9
  <1>11. i \in 1..Len(t) /\ i \in Nat /\ Ahead(t, i, "(")
    BY <1>5, <1>10
  <1>12. k = i + Len(ou) /\ i + Len(g) = k + 1
    BY <1>7, <1>9, <1>11
  <1> HIDE DEF k
  <1>13. k \in 1..Len(t) /\ Ahead(t, k, ")")
    BY <1>6, <1>9, <1>12
  <1>14. a \in 1..(Len(t) + 1) /\ k \in 1..(Len(t) + 1) /\ i \in 1..(Len(t) + 1)
    BY <1>11, <1>13
  <1>15. Comes(q, Parsed(m[f], k), t)
    <2>1. Over(t, k) /\ ~ Ahead(t, k, "and") /\ ~ Ahead(t, k, "or")
      BY <1>13, KeywordOver
    <2>2. AsOr(o, t, a, m[f], k)
      BY <1>10, <2>1 DEF Reads, k, u
    <2> HIDE DEF a
    <2> QED
      BY <1>14, <2>1, <2>2, OrIsParsed DEF Comes
  <1>16. r = IF q.ok /\ Ahead(t, q.index, ")") THEN Consume(q) ELSE Raised(q.index)
    <2>1. r = ParseNot(o, t, s, i)
      BY <1>14, NotCallGives
    <2>2. ~ Ahead(t, i, "not")
      BY <1>11 DEF Ahead
    <2>3. r = ParsePrimary(o, t, s, i)
      BY <2>1, <2>2, NotPassed
    <2> QED
      BY <1>11, <2>3, PrimaryReads
  <1> HIDE DEF q, r
  <1>17. CASE q = Parsed(m[f], k)
    <2>1. r = Parsed(m[f], k + 1)
      BY <1>13, <1>16, <1>17 DEF Parsed, Consume
    <2> QED
      BY <1>12, <2>1 DEF AsTerm, Comes, g, u, r
  <1>18. CASE Stuck(q, t)
    <2>1. q.ok => ~ Ahead(t, q.index, ")")
      BY <1>18, NotOver DEF Stuck
    <2>2. r = Raised(q.index)
      BY <1>16, <2>1
    <2>3. Stuck(r, t)
      BY <2>2 DEF Raised, Stuck
    <2> QED
      BY <2>3 DEF AsTerm, Comes, r
  <1> QED
    BY <1>15, <1>17, <1>18 DEF Comes

\* m is what the expressions say of the results s.
IsMeaning(m, s) == \A e \in Conditions : m[e] \in BOOLEAN /\ m[e] = MeaningFrom(m, e, s)

\* Where an operand stands none is over.
LEMMA OpeningStands ==
    ASSUME NEW t \in Seq(Lexicon), NEW u \in Opening, NEW i, Occurs(u, t, i)
    PROVE  i \in 1..Len(t) /\ ~ Over(t, i)
  <1>1. u \in Seq(Lexicon) /\ u # <<>> /\ u[1] \notin Follow
    BY DEF Opening
  <1> QED
    BY <1>1, OccursFirst DEF Over

\* Where three tokens occur each of them is ahead.
LEMMA ThreeOccur ==
    ASSUME NEW t \in Seq(Lexicon), NEW x \in Lexicon, NEW y \in Lexicon, NEW z \in Lexicon,
           NEW i, Occurs(<<x, y, z>>, t, i)
    PROVE  /\ i \in 1..(Len(t) + 1) /\ i + Len(<<x, y, z>>) = i + 3
           /\ Ahead(t, i, x) /\ Ahead(t, i + 1, y) /\ Ahead(t, i + 2, z)
           /\ t[i] = x /\ t[i + 2] = z
  <1> DEFINE u == <<x, y, z>>
  <1>1. Len(u) = 3 /\ u[1] = x /\ u[2] = y /\ u[3] = z
    BY ThreeTokens
  <1>2. Occurs(u, t, i) /\ Len(t) \in Nat
    OBVIOUS
  <1> HIDE DEF u
  <1>3. i \in Nat /\ i >= 1 /\ i + 3 <= Len(t) + 1 /\ \A k \in 1..3 : t[i + k - 1] = u[k]
    BY <1>1, <1>2 DEF Occurs
  <1>4. t[i + 1 - 1] = x /\ t[i + 2 - 1] = y /\ t[i + 3 - 1] = z
    BY <1>1, <1>3
  <1>5. i + 1 - 1 = i /\ i + 2 - 1 = i + 1 /\ i + 3 - 1 = i + 2
    BY <1>3
  <1>6. t[i] = x /\ t[i + 1] = y /\ t[i + 2] = z
    BY <1>4, <1>5
  <1>7. i <= Len(t) /\ i + 1 <= Len(t) /\ i + 2 <= Len(t) /\ i \in 1..(Len(t) + 1)
    BY <1>2, <1>3
  <1>8. Ahead(t, i, x) /\ Ahead(t, i + 1, y) /\ Ahead(t, i + 2, z)
    BY <1>6, <1>7 DEF Ahead, Peek
  <1> QED
    BY <1>1, <1>6, <1>7, <1>8 DEF u

\* A name is read as its selection.
LEMMA SelectionReads ==
    ASSUME NEW t \in Seq(Lexicon), NEW s, NEW o, Consistent(o, t, s), NEW m, IsMeaning(m, s),
           NEW e \in Conditions, e[1] = "sel",
           NEW i, Occurs(Tokens[e], t, i), Over(t, i + Len(Tokens[e]))
    PROVE  AsExactTerm(o, i, m[e], i + Len(Tokens[e]))
  <1> DEFINE x == e[2]
             u == <<x>>
             v == x \in DOMAIN s /\ s[x]
  <1>1. x \in Lexicon /\ x \notin Reserved
    BY ConditionsAssumption, LexiconHolds
  <1>2. Tokens[e] = u
    BY TokensUnfold DEF TokensFrom
  <1>3. m[e] = v
    BY DEF IsMeaning, MeaningFrom
  <1>4. Len(u) = 1
    BY OneToken
  <1>5. Occurs(u, t, i) /\ Over(t, i + 1) /\ i + Len(Tokens[e]) = i + 1
    BY <1>2, <1>4
  <1> HIDE DEF x, v
  <1>6. i \in 1..Len(t) /\ Ahead(t, i, x) /\ t[i] = x
    BY <1>1, <1>5, OccursOne
  <1>7. ~ AtEnd(t, i) /\ ~ Ahead(t, i, "(") /\ ~ Ahead(t, i, "not")
    BY <1>1, <1>6, Zenon DEF Ahead, AtEnd, Reserved
  <1>8. ~ AheadOf(t, i)
    BY <1>5, Zenon DEF AheadOf, Ahead, Over, Follow
  <1>9. i \in 1..(Len(t) + 1)
    BY <1>6
  <1>10. o[Call("not", FALSE, i)] = ParsePrimary(o, t, s, i)
    <2>1. o[Call("not", FALSE, i)] = ParseNot(o, t, s, i)
      BY <1>9, NotCallGives
    <2> QED
      BY <1>7, <2>1, NotPassed
  <1>11. ParsePrimary(o, t, s, i) = Parsed(t[i] \in DOMAIN s /\ s[t[i]], i + 1)
    BY <1>7, <1>8, PrimaryReads
  <1>12. Parsed(t[i] \in DOMAIN s /\ s[t[i]], i + 1) = Parsed(v, i + 1)
    BY <1>6 DEF v
  <1> QED
    BY <1>3, <1>5, <1>10, <1>11, <1>12 DEF AsExactTerm

\* "1 of" and "all of" are read as what they mean (_evaluate_of).
LEMMA OfReads ==
    ASSUME NEW t \in Seq(Lexicon), NEW s, NEW o, Consistent(o, t, s), NEW m, IsMeaning(m, s),
           NEW e \in Conditions, e[1] \in {"1", "all"},
           NEW i, Occurs(Tokens[e], t, i)
    PROVE  AsExactTerm(o, i, m[e], i + Len(Tokens[e]))
  <1> DEFINE q == e[1]
             y == "of"
             p == e[2]
             v == EvaluateOf(q, p, s)
  <1>1. q \in Lexicon /\ y \in Lexicon /\ p \in Lexicon /\ p \in DOMAIN Patterns
    BY ConditionsAssumption, LexiconHolds
  <1>2. Tokens[e] = <<q, y, p>>
    BY TokensUnfold DEF TokensFrom
  <1>3. m[e] = v
    <2>1. CASE q = "1"
      BY <2>1 DEF IsMeaning, MeaningFrom, EvaluateOf
    <2>2. CASE q = "all"
      BY <2>2 DEF IsMeaning, MeaningFrom, EvaluateOf
    <2> QED
      BY <2>1, <2>2
  <1>4. q = "1" \/ q = "all"
    OBVIOUS
  <1>5. y = "of"
    OBVIOUS
  <1> HIDE DEF q, y, p, v
  <1>6. Occurs(<<q, y, p>>, t, i)
    BY <1>2
  <1>7. /\ i \in 1..(Len(t) + 1) /\ i + Len(<<q, y, p>>) = i + 3
        /\ Ahead(t, i, q) /\ Ahead(t, i + 1, y) /\ Ahead(t, i + 2, p)
        /\ t[i] = q /\ t[i + 2] = p
    BY <1>1, <1>6, ThreeOccur
  <1>8. AheadOf(t, i) /\ ~ Ahead(t, i, "not")
    BY <1>4, <1>5, <1>7 DEF AheadOf, Ahead
  <1>9. ~ AtEnd(t, i + 2)
    BY <1>1, <1>7, PatternsAssumption, Zenon DEF Ahead, AtEnd
  <1>10. o[Call("not", FALSE, i)] = ParsePrimary(o, t, s, i)
    <2>1. o[Call("not", FALSE, i)] = ParseNot(o, t, s, i)
      BY <1>7, NotCallGives
    <2> QED
      BY <1>8, <2>1, NotPassed
  <1>11. ParsePrimary(o, t, s, i) = Parsed(EvaluateOf(t[i], t[i + 2], s), i + 3)
    BY <1>8, <1>9, PrimaryReads
  <1>12. EvaluateOf(t[i], t[i + 2], s) = v
    BY <1>7 DEF v
  <1> QED
    BY <1>2, <1>3, <1>7, <1>10, <1>11, <1>12 DEF AsExactTerm

\* An operand is read by the method that meets it, with its parentheses if it has them.
LEMMA WithinReads ==
    ASSUME NEW t \in Seq(Lexicon), NEW s, NEW o, Consistent(o, t, s), NEW m,
           NEW f \in Conditions, m[f] \in BOOLEAN, Reads(o, t, m, f), NEW level, NEW i,
           Occurs(Within(Tokens, f, level), t, i), Over(t, i + Len(Within(Tokens, f, level)))
    PROVE  /\ level = 3 => AsTerm(o, t, i, m[f], i + Len(Within(Tokens, f, level)))
           /\ level = 2 => AsAnd(o, t, i, m[f], i + Len(Within(Tokens, f, level)))
  <1> DEFINE w == Within(Tokens, f, level)
             j == i + Len(w)
  <1>1. Binding(f) \in {1, 2, 3}
    BY BindingRange
  <1>2. i \in 1..(Len(t) + 1)
    <2>1. w \in Opening
      BY TokensUnfold, WithinOpens
    <2>2. w \in Seq(Lexicon) /\ Occurs(w, t, i)
      BY <2>1 DEF Opening
    <2> HIDE DEF w
    <2> QED
      BY <2>2, OccursEnds
  <1>3. CASE Binding(f) < level
    <2>1. w = Group(Tokens[f])
      BY <1>3 DEF Within, Group
    <2>2. AsTerm(o, t, i, m[f], j)
      BY <2>1, GroupReads
    <2>3. AsAnd(o, t, i, m[f], j)
      BY <1>2, <2>2, TermIsAnd
    <2> QED
      BY <2>2, <2>3
  <1>4. CASE ~ (Binding(f) < level)
    <2>1. w = Tokens[f]
      BY <1>4 DEF Within
    <2>2. level = 3 => Binding(f) = 3
      BY <1>1, <1>4
    <2>3. level = 2 => Binding(f) # 1
      BY <1>1, <1>4
    <2>4. Occurs(Tokens[f], t, i) /\ Over(t, i + Len(Tokens[f]))
      BY <2>1
    <2> HIDE DEF w, j
    <2> QED
      BY <2>1, <2>2, <2>3, <2>4 DEF Reads, w, j
  <1> QED
    BY <1>3, <1>4

\* _parse_not at i is the negation of _parse_not at the next token.
AsNegated(o, i) == o[Call("not", FALSE, i)] = Negated(o[Call("not", FALSE, i + 1)])

\* Where a negation stands its operand follows the "not".
LEMMA NotStands ==
    ASSUME NEW t \in Seq(Lexicon), NEW s, NEW o, Consistent(o, t, s),
           NEW e \in Conditions, e[1] = "not", NEW i, Occurs(Tokens[e], t, i)
    PROVE  /\ Occurs(Within(Tokens, e[2], 3), t, i + 1)
           /\ i + Len(Tokens[e]) = (i + 1) + Len(Within(Tokens, e[2], 3))
           /\ i \in 1..Len(t)
           /\ AsNegated(o, i)
  <1> DEFINE f == e[2]
             x == <<"not">>
             w == Within(Tokens, f, 3)
             r == o[Call("not", FALSE, i)]
  <1>1. f \in Conditions
    BY ConditionsAssumption DEF IsOperand
  <1>2. Tokens[e] = Cat(x, w)
    BY TokensUnfold DEF TokensFrom, Cat
  <1>3. x \in Seq(Lexicon) /\ Len(x) = 1
    BY LexiconHolds, OneToken
  <1>4. Occurs(x, t, i) => i \in 1..Len(t) /\ Ahead(t, i, "not")
    BY LexiconHolds, OccursOne
  <1> HIDE DEF f, x
  <1>5. w \in Seq(Lexicon)
    <2>1. w \in Opening
      BY <1>1, TokensUnfold, WithinOpens
    <2> QED
      BY <2>1 DEF Opening
  <1> HIDE DEF w
  <1>6. Occurs(Cat(x, w), t, i) /\ Len(Cat(x, w)) = 1 + Len(w) /\ Len(w) \in Nat
    BY <1>2, <1>3, <1>5, CatIn
  <1>7. Occurs(x, t, i) /\ Occurs(w, t, i + Len(x))
    BY <1>3, <1>5, <1>6, OccursConcat
  <1>8. i \in 1..Len(t) /\ Ahead(t, i, "not") /\ i \in 1..(Len(t) + 1) /\ i \in Nat
    BY <1>4, <1>7
  <1>9. i + Len(Tokens[e]) = (i + 1) + Len(w) /\ Occurs(w, t, i + 1)
    <2>1. i + (1 + Len(w)) = (i + 1) + Len(w)
      BY <1>6, <1>8
    <2> QED
      BY <1>2, <1>3, <1>6, <1>7, <2>1
  <1>10. r = Negated(o[Call("not", FALSE, i + 1)])
    <2>1. r = ParseNot(o, t, s, i)
      BY <1>8, NotCallGives
    <2> QED
      BY <1>8, <2>1, NotTaken
  <1> QED
    BY <1>8, <1>9, <1>10 DEF w, f, r, AsNegated

\* A negation is read as one (_parse_not).
LEMMA NotReads ==
    ASSUME NEW t \in Seq(Lexicon), NEW s, NEW o, Consistent(o, t, s), NEW m, IsMeaning(m, s),
           NEW e \in Conditions, e[1] = "not", Reads(o, t, m, e[2]),
           NEW i, Occurs(Tokens[e], t, i), Over(t, i + Len(Tokens[e]))
    PROVE  AsTerm(o, t, i, m[e], i + Len(Tokens[e]))
  <1> DEFINE f == e[2]
             w == Within(Tokens, f, 3)
             n == i + 1
             j == n + Len(w)
             q == o[Call("not", FALSE, n)]
             r == o[Call("not", FALSE, i)]
  <1>1. f \in Conditions /\ m[f] \in BOOLEAN /\ m[e] = ~ m[f] /\ Reads(o, t, m, f)
    BY ConditionsAssumption DEF IsOperand, IsMeaning, MeaningFrom
  <1>2. Occurs(w, t, n) /\ i + Len(Tokens[e]) = j /\ Over(t, j) /\ r = Negated(q) /\ i \in 1..Len(t)
    <2>1. Occurs(w, t, n)
      BY NotStands
    <2>2. i + Len(Tokens[e]) = j
      BY NotStands
    <2>3. r = Negated(q)
      <3>1. AsNegated(o, i)
        BY NotStands
      <3> QED
        BY <3>1 DEF AsNegated
    <2>4. i \in 1..Len(t)
      BY NotStands
    <2> QED
      BY <2>1, <2>2, <2>3, <2>4
  <1>3. n \in 1..(Len(t) + 1)
    BY <1>2
  <1> HIDE DEF f, n
  <1>4. AsTerm(o, t, n, m[f], j)
    BY <1>1, <1>2, WithinReads DEF w
  <1>5. q = Parsed(m[f], j) \/ Stuck(q, t)
    BY <1>4 DEF AsTerm, Comes
  <1>6. q \in Results(t, n)
    BY <1>3, NotCallGives
  <1> HIDE DEF q, r, j
  <1>7. CASE q = Parsed(m[f], j)
    <2>1. r = Parsed(m[e], j)
      BY <1>1, <1>2, <1>7 DEF Negated, Parsed
    <2> QED
      BY <1>2, <2>1 DEF AsTerm, Comes, r
  <1>8. CASE Stuck(q, t)
    <2>1. r.ok = q.ok /\ r.index = q.index
      BY <1>2, <1>6 DEF Negated, Results
    <2>2. Stuck(r, t)
      BY <1>8, <2>1 DEF Stuck
    <2> QED
      BY <1>2, <2>2 DEF AsTerm, Comes, r
  <1> QED
    BY <1>5, <1>7, <1>8

\* Where an operator stands between its operands.
LEMMA BetweenOperands ==
    ASSUME NEW t \in Seq(Lexicon), NEW u \in Opening, NEW w \in Opening, NEW x \in Lexicon,
           NEW i, Occurs(u \o <<x>> \o w, t, i)
    PROVE  /\ Occurs(u, t, i) /\ Ahead(t, i + Len(u), x) /\ Occurs(w, t, i + Len(u) + 1)
           /\ i + Len(u \o <<x>> \o w) = (i + Len(u) + 1) + Len(w)
           /\ i \in 1..(Len(t) + 1) /\ i + Len(u) \in 1..Len(t) /\ i + Len(u) + 1 \in 1..Len(t)
           /\ ~ Over(t, i + Len(u) + 1)
           /\ (i + Len(u) + 1) + Len(w) \in 1..(Len(t) + 1)
  <1> DEFINE y == <<x>>
             uy == Cat(u, y)
             k == i + Len(u)
             a == k + 1
  <1>1. y \in Seq(Lexicon) /\ Len(y) = 1 /\ u \in Seq(Lexicon) /\ w \in Seq(Lexicon)
    BY OneToken DEF Opening
  <1>2. u \o <<x>> \o w = Cat(uy, w)
    BY DEF Cat
  <1>3. Occurs(Cat(uy, w), t, i)
    BY <1>2
  <1>4. Occurs(y, t, k) => k \in 1..Len(t) /\ Ahead(t, k, x)
    BY OccursOne
  <1> HIDE DEF y
  <1>5. uy \in Seq(Lexicon) /\ Len(uy) = Len(u) + 1 /\ Len(u) \in Nat
    BY <1>1, CatIn
  <1>6. Occurs(uy, t, i) => Occurs(u, t, i) /\ Occurs(y, t, k)
    BY <1>1, OccursConcat
  <1> HIDE DEF uy
  <1>7. Occurs(uy, t, i) /\ Occurs(w, t, i + Len(uy))
    BY <1>1, <1>3, <1>5, OccursConcat
  <1>8. Len(Cat(uy, w)) = Len(uy) + Len(w) /\ Len(w) \in Nat
    BY <1>1, <1>5, CatIn
  <1>9. i \in 1..(Len(t) + 1) /\ i \in Nat
    BY <1>1, <1>6, <1>7, OccursEnds
  <1>10. i + Len(uy) = a /\ i + Len(Cat(uy, w)) = a + Len(w)
    BY <1>5, <1>8, <1>9
  <1>11. k \in 1..Len(t) /\ Ahead(t, k, x) /\ Occurs(u, t, i)
    BY <1>4, <1>6, <1>7
  <1>12. Occurs(w, t, a)
    BY <1>7, <1>10
  <1> HIDE DEF a
  <1>13. a \in 1..Len(t) /\ ~ Over(t, a)
    BY <1>12, OpeningStands
  <1>14. a + Len(w) \in 1..(Len(t) + 1)
    BY <1>1, <1>12, OccursEnds
  <1> QED
    BY <1>2, <1>9, <1>10, <1>11, <1>12, <1>13, <1>14 DEF a

\* A result that ends before an operand that was not read is stuck.
LEMMA ParsedStuck ==
    ASSUME NEW t \in Seq(Lexicon), NEW n \in 1..(Len(t) + 1), ~ Over(t, n), NEW v \in BOOLEAN
    PROVE  Parsed(v, n) \in Results(t, n) /\ Stuck(Parsed(v, n), t)
  <1>1. Parsed(v, n) \in Results(t, n)
    BY DEF Parsed, Results
  <1>2. Parsed(v, n).index = n
    BY DEF Parsed
  <1> QED
    BY <1>1, <1>2 DEF Stuck

\* A conjunction is read as one, though its second operand is not read when the first is FALSE
\* (_parse_and).
LEMMA AndReads ==
    ASSUME NEW t \in Seq(Lexicon), NEW s, NEW o, Consistent(o, t, s), NEW m, IsMeaning(m, s),
           NEW e \in Conditions, e[1] = "and", Reads(o, t, m, e[2]), Reads(o, t, m, e[3]),
           NEW i, Occurs(Tokens[e], t, i), Over(t, i + Len(Tokens[e]))
    PROVE  /\ AsAnd(o, t, i, m[e], i + Len(Tokens[e]))
           /\ i \in 1..(Len(t) + 1) /\ i + Len(Tokens[e]) \in 1..(Len(t) + 1)
  <1> DEFINE a == e[2]
             b == e[3]
             va == m[a]
             vb == m[b]
             u == Within(Tokens, a, 2)
             w == Within(Tokens, b, 3)
             k == i + Len(u)
             n == k + 1
             j == n + Len(w)
             p == ParseAnd(o, i)
             q == o[Call("not", FALSE, n)]
             r == AndOperand(o, va, k)
  <1>1. /\ a \in Conditions /\ va \in BOOLEAN /\ Reads(o, t, m, a)
        /\ b \in Conditions /\ vb \in BOOLEAN /\ Reads(o, t, m, b)
        /\ m[e] = (va /\ vb)
    BY ConditionsAssumption DEF IsOperand, IsMeaning, MeaningFrom
  <1>2. Tokens[e] = u \o <<"and">> \o w
    BY TokensUnfold DEF TokensFrom
  <1> HIDE DEF a, b, va, vb
  <1>3. u \in Opening /\ w \in Opening /\ "and" \in Lexicon
    BY <1>1, TokensUnfold, WithinOpens, LexiconHolds
  <1> HIDE DEF u, w
  <1>4. /\ Occurs(u, t, i) /\ Ahead(t, k, "and") /\ Occurs(w, t, n) /\ i + Len(Tokens[e]) = j
        /\ i \in 1..(Len(t) + 1) /\ k \in 1..Len(t) /\ n \in 1..Len(t) /\ ~ Over(t, n)
        /\ j \in 1..(Len(t) + 1)
    BY <1>2, <1>3, BetweenOperands
  <1>5. k \in 1..(Len(t) + 1) /\ n \in 1..(Len(t) + 1)
    BY <1>4
  <1>6. Over(t, k) /\ Over(t, j)
    BY <1>4, KeywordOver
  <1>7. AsAnd(o, t, i, va, k)
    BY <1>1, <1>4, <1>6, WithinReads DEF u, va
  <1>8. AsTerm(o, t, n, vb, j)
    <2> HIDE DEF n
    <2> QED
      BY <1>1, <1>4, <1>6, WithinReads DEF w, vb, j
  <1>9. q \in Results(t, n)
    <2> HIDE DEF n
    <2> QED
      BY <1>5, NotCallGives
  <1>10. o[Call("and", va, k)] = Continue(o, "and", r)
    <2>1. o[Call("and", va, k)] = AndLoop(o, t, va, k)
      <3> HIDE DEF k
      <3> QED
        BY <1>1, <1>5, CallsGive
    <2> QED
      BY <1>4, <2>1, AndTaken
  <1>11. (va => r = q) /\ (~ va => r = Parsed(FALSE, n))
    BY DEF AndOperand
  <1>12. p = o[Call("and", va, k)] \/ Stuck(p, t)
    BY <1>7 DEF AsAnd, Comes
  <1>13. q = Parsed(vb, j) \/ Stuck(q, t)
    BY <1>8 DEF AsTerm, Comes
  <1> HIDE DEF k, n, j, p, q, r
  <1>14. CASE Stuck(p, t)
    BY <1>4, <1>14 DEF AsAnd, Comes, p
  <1>15. CASE p = o[Call("and", va, k)] /\ ~ va
    <2>1. r \in Results(t, n) /\ Stuck(r, t)
      <3>1. r = Parsed(FALSE, n)
        BY <1>11, <1>15
      <3>2. Parsed(FALSE, n) \in Results(t, n) /\ Stuck(Parsed(FALSE, n), t)
        BY <1>4, <1>5, ParsedStuck
      <3> QED
        BY <3>1, <3>2
    <2>2. Continue(o, "and", r) = r
      BY <1>5, <2>1, ContinueStuck
    <2>3. Stuck(p, t)
      BY <1>10, <1>15, <2>1, <2>2
    <2> QED
      BY <1>4, <2>3 DEF AsAnd, Comes, p
  <1>16. CASE p = o[Call("and", va, k)] /\ va /\ q = Parsed(vb, j)
    <2>1. p = o[Call("and", vb, j)]
      <3>1. r = Parsed(vb, j)
        BY <1>11, <1>16
      <3>2. Continue(o, "and", Parsed(vb, j)) = o[Call("and", vb, j)]
        BY ContinueParsed
      <3> QED
        BY <1>10, <1>16, <3>1, <3>2
    <2>2. m[e] = vb
      BY <1>1, <1>16
    <2> QED
      BY <1>4, <2>1, <2>2 DEF AsAnd, Comes, p
  <1>17. CASE p = o[Call("and", va, k)] /\ va /\ Stuck(q, t)
    <2>1. Continue(o, "and", q) = q
      BY <1>5, <1>9, <1>17, ContinueStuck
    <2>2. Stuck(p, t)
      BY <1>10, <1>11, <1>17, <2>1
    <2> QED
      BY <1>4, <2>2 DEF AsAnd, Comes, p
  <1> QED
    BY <1>12, <1>13, <1>14, <1>15, <1>16, <1>17

\* A disjunction is read as one, though its second operand is not read when the first is TRUE
\* (_parse_or).
LEMMA OrReads ==
    ASSUME NEW t \in Seq(Lexicon), NEW s, NEW o, Consistent(o, t, s), NEW m, IsMeaning(m, s),
           NEW e \in Conditions, e[1] = "or", Reads(o, t, m, e[2]), Reads(o, t, m, e[3]),
           NEW i, Occurs(Tokens[e], t, i), Over(t, i + Len(Tokens[e])),
           ~ Ahead(t, i + Len(Tokens[e]), "and")
    PROVE  AsOr(o, t, i, m[e], i + Len(Tokens[e]))
  <1> DEFINE a == e[2]
             b == e[3]
             va == m[a]
             vb == m[b]
             u == Tokens[a]
             w == Within(Tokens, b, 2)
             k == i + Len(u)
             n == k + 1
             j == n + Len(w)
             p == ParseOr(o, i)
             q == ParseAnd(o, n)
             r == OrOperand(o, va, k)
  <1>1. /\ a \in Conditions /\ va \in BOOLEAN /\ Reads(o, t, m, a)
        /\ b \in Conditions /\ vb \in BOOLEAN /\ Reads(o, t, m, b)
        /\ m[e] = (va \/ vb)
    BY ConditionsAssumption DEF IsOperand, IsMeaning, MeaningFrom
  <1>2. Tokens[e] = u \o <<"or">> \o w
    <2>1. Within(Tokens, a, 1) = u
      BY BindingRange DEF Within
    <2> QED
      BY <2>1, TokensUnfold DEF TokensFrom
  <1> HIDE DEF a, b, va, vb
  <1>3. u \in Opening /\ w \in Opening /\ "or" \in Lexicon
    BY <1>1, TokensUnfold, WithinOpens, LexiconHolds
  <1> HIDE DEF u, w
  <1>4. /\ Occurs(u, t, i) /\ Ahead(t, k, "or") /\ Occurs(w, t, n) /\ i + Len(Tokens[e]) = j
        /\ i \in 1..(Len(t) + 1) /\ k \in 1..Len(t) /\ n \in 1..Len(t) /\ ~ Over(t, n)
        /\ j \in 1..(Len(t) + 1)
    BY <1>2, <1>3, BetweenOperands
  <1>5. k \in 1..(Len(t) + 1) /\ n \in 1..(Len(t) + 1)
    BY <1>4
  <1>6. Over(t, k) /\ ~ Ahead(t, k, "and") /\ Over(t, j) /\ ~ Ahead(t, j, "and")
    BY <1>4, KeywordOver
  <1>7. AsOr(o, t, i, va, k)
    BY <1>1, <1>4, <1>6 DEF Reads, u, va
  <1>8. AsAnd(o, t, n, vb, j)
    <2> HIDE DEF n
    <2> QED
      BY <1>1, <1>4, <1>6, WithinReads DEF w, vb, j
  <1>9. q \in Results(t, n) /\ (q = Parsed(vb, j) \/ Stuck(q, t))
    <2> HIDE DEF n, j
    <2>1. q \in Results(t, n)
      BY <1>5, ConsistentAre, ParseAndTyped
    <2>2. Comes(q, Parsed(vb, j), t)
      BY <1>1, <1>4, <1>6, <1>8, AndIsParsed
    <2> QED
      BY <2>1, <2>2 DEF Comes
  <1>10. o[Call("or", va, k)] = Continue(o, "or", r)
    <2>1. o[Call("or", va, k)] = OrLoop(o, t, va, k)
      <3> HIDE DEF k
      <3> QED
        BY <1>1, <1>5, CallsGive
    <2> QED
      BY <1>4, <2>1, OrTaken
  <1>11. (va => r = Parsed(TRUE, n)) /\ (~ va => r = q)
    BY DEF OrOperand
  <1>12. p = o[Call("or", va, k)] \/ Stuck(p, t)
    BY <1>7 DEF AsOr, Comes
  <1> HIDE DEF k, n, j, p, q, r
  <1>13. CASE Stuck(p, t)
    BY <1>4, <1>13 DEF AsOr, Comes, p
  <1>14. CASE p = o[Call("or", va, k)] /\ va
    <2>1. r \in Results(t, n) /\ Stuck(r, t)
      <3>1. r = Parsed(TRUE, n)
        BY <1>11, <1>14
      <3>2. Parsed(TRUE, n) \in Results(t, n) /\ Stuck(Parsed(TRUE, n), t)
        BY <1>4, <1>5, ParsedStuck
      <3> QED
        BY <3>1, <3>2
    <2>2. Continue(o, "or", r) = r
      BY <1>5, <2>1, ContinueStuck
    <2>3. Stuck(p, t)
      BY <1>10, <1>14, <2>1, <2>2
    <2> QED
      BY <1>4, <2>3 DEF AsOr, Comes, p
  <1>15. CASE p = o[Call("or", va, k)] /\ ~ va /\ q = Parsed(vb, j)
    <2>1. p = o[Call("or", vb, j)]
      BY <1>10, <1>11, <1>15, ContinueParsed
    <2>2. m[e] = vb
      BY <1>1, <1>15
    <2> QED
      BY <1>4, <2>1, <2>2 DEF AsOr, Comes, p
  <1>16. CASE p = o[Call("or", va, k)] /\ ~ va /\ Stuck(q, t)
    <2>1. Continue(o, "or", q) = q
      BY <1>5, <1>9, <1>16, ContinueStuck
    <2>2. Stuck(p, t)
      BY <1>10, <1>11, <1>16, <2>1
    <2> QED
      BY <1>4, <2>2 DEF AsOr, Comes, p
  <1> QED
    BY <1>9, <1>12, <1>13, <1>14, <1>15, <1>16

\* An expression is read as what it means if its operands are.
LEMMA ReadsFromOperands ==
    ASSUME NEW t \in Seq(Lexicon), NEW s, NEW o, Consistent(o, t, s), NEW m, IsMeaning(m, s),
           NEW e \in Conditions, \A f \in Conditions : Depth[f] < Depth[e] => Reads(o, t, m, f)
    PROVE  Reads(o, t, m, e)
  <1> DEFINE u == Tokens[e]
  <1>1. SUFFICES ASSUME NEW i, Occurs(u, t, i), Over(t, i + Len(u))
                 PROVE  /\ Binding(e) = 3 => AsTerm(o, t, i, m[e], i + Len(u))
                        /\ Binding(e) # 1 => AsAnd(o, t, i, m[e], i + Len(u))
                        /\ ~ Ahead(t, i + Len(u), "and") => AsOr(o, t, i, m[e], i + Len(u))
    BY DEF Reads
  <1> DEFINE j == i + Len(u)
  <1>2. i \in 1..(Len(t) + 1) /\ j \in 1..(Len(t) + 1)
    <2>1. u \in Seq(Lexicon)
      BY TokensUnfold DEF Opening
    <2> HIDE DEF u
    <2> QED
      BY <1>1, <2>1, OccursEnds
  <1>3. m[e] \in BOOLEAN
    BY DEF IsMeaning
  <1>4. ASSUME AsTerm(o, t, i, m[e], j) PROVE AsAnd(o, t, i, m[e], j)
    <2> HIDE DEF j
    <2> QED
      BY <1>2, <1>4, TermIsAnd
  <1>5. ASSUME AsAnd(o, t, i, m[e], j), ~ Ahead(t, j, "and") PROVE AsOr(o, t, i, m[e], j)
    <2> HIDE DEF j
    <2> QED
      BY <1>2, <1>3, <1>5, AndIsOr
  <1>6. CASE e[1] = "sel"
    <2>1. AsExactTerm(o, i, m[e], j)
      BY <1>1, <1>6, SelectionReads
    <2>2. AsTerm(o, t, i, m[e], j)
      BY <2>1 DEF AsExactTerm, AsTerm, Comes
    <2> QED
      BY <1>4, <1>5, <2>2
  <1>7. CASE e[1] \in {"1", "all"}
    <2>1. AsExactTerm(o, i, m[e], j)
      BY <1>1, <1>7, OfReads
    <2>2. AsTerm(o, t, i, m[e], j)
      BY <2>1 DEF AsExactTerm, AsTerm, Comes
    <2> QED
      BY <1>4, <1>5, <2>2
  <1>8. CASE e[1] = "not"
    <2>1. Reads(o, t, m, e[2])
      BY <1>8, ConditionsAssumption DEF IsOperand
    <2>2. AsTerm(o, t, i, m[e], j)
      BY <1>1, <1>8, <2>1, NotReads
    <2> QED
      BY <1>4, <1>5, <2>2
  <1>9. CASE e[1] = "and"
    <2>1. Reads(o, t, m, e[2]) /\ Reads(o, t, m, e[3])
      BY <1>9, ConditionsAssumption DEF IsOperand
    <2>2. AsAnd(o, t, i, m[e], j)
      BY <1>1, <1>9, <2>1, AndReads
    <2>3. Binding(e) # 3
      BY <1>9 DEF Binding
    <2> QED
      BY <1>5, <2>2, <2>3
  <1>10. CASE e[1] = "or"
    <2>1. Reads(o, t, m, e[2]) /\ Reads(o, t, m, e[3])
      BY <1>10, ConditionsAssumption DEF IsOperand
    <2>2. ~ Ahead(t, j, "and") => AsOr(o, t, i, m[e], j)
      BY <1>1, <1>10, <2>1, OrReads
    <2>3. Binding(e) = 1
      BY <1>10 DEF Binding
    <2> QED
      BY <2>2, <2>3
  <1> QED
    BY <1>6, <1>7, <1>8, <1>9, <1>10, ConditionsAssumption

\* What holds of an expression when it holds of its operands holds of every expression.
LEMMA InductionOnDepth ==
    ASSUME NEW H, \A e \in Conditions : (\A f \in Conditions : Depth[f] < Depth[e] => f \in H) => e \in H
    PROVE  \A e \in Conditions : e \in H
  <1> DEFINE U == {n \in Nat : \E e \in Conditions : Depth[e] = n /\ e \notin H}
  <1>1. \A e \in Conditions : Depth[e] \in Nat
    BY ConditionsAssumption
  <1>2. SUFFICES ASSUME U # {} PROVE FALSE
    BY <1>1
  <1>3. PICK n \in U : \A k \in U : n <= k
    <2>1. U \subseteq Nat
      OBVIOUS
    <2> HIDE DEF U
    <2> QED
      BY <1>2, <2>1, LeastNumber
  <1>4. PICK e \in Conditions : Depth[e] = n /\ e \notin H
    BY <1>3
  <1>5. \A f \in Conditions : Depth[f] < Depth[e] => f \in H
    BY <1>1, <1>3, <1>4
  <1> QED
    BY <1>4, <1>5

\* Every expression is read as what it means, or leaves the parser stuck.
LEMMA EveryExpressionReads ==
    ASSUME NEW t \in Seq(Lexicon), NEW s, NEW o, Consistent(o, t, s), NEW m, IsMeaning(m, s)
    PROVE  \A e \in Conditions : Reads(o, t, m, e)
  <1> DEFINE H == {e \in Conditions : Reads(o, t, m, e)}
  <1>1. \A e \in Conditions : (\A f \in Conditions : Depth[f] < Depth[e] => f \in H) => e \in H
    BY ReadsFromOperands
  <1>2. \A e \in Conditions : e \in H
    <2> HIDE DEF H
    <2> QED
      BY <1>1, InductionOnDepth
  <1> QED
    BY <1>2

\* The tokens occur in themselves.
LEMMA OccursItself ==
    ASSUME NEW u \in Seq(Lexicon)
    PROVE  /\ Occurs(u, u, 1) /\ 1 + Len(u) = Len(u) + 1 /\ Len(u) \in Nat
           /\ AtEnd(u, Len(u) + 1)
  <1>1. Len(u) \in Nat
    OBVIOUS
  <1>2. \A k \in 1..Len(u) : 1 + k - 1 = k
    BY <1>1
  <1>3. Occurs(u, u, 1)
    BY <1>1, <1>2 DEF Occurs
  <1>4. ~ (Len(u) + 1 <= Len(u))
    BY <1>1
  <1>5. AtEnd(u, Len(u) + 1)
    BY <1>4, Zenon DEF AtEnd, Peek
  <1> QED
    BY <1>1, <1>3, <1>5

\* What parse() is given and how it ends.
LEMMA ParseReads ==
    ASSUME NEW s, IsResults(s), NEW e \in Conditions
    PROVE  LET t == Tokens[e]
               o == Outcomes(t, s)
               p == ParseOr(o, 1)
           IN  /\ t \in Opening /\ t \in Seq(Lexicon) /\ Consistent(o, t, s)
               /\ Occurs(t, t, 1) /\ 1 + Len(t) = Len(t) + 1
               /\ Len(t) + 1 \in 1..(Len(t) + 1) /\ 1 \in 1..(Len(t) + 1)
               /\ Over(t, Len(t) + 1)
               /\ ~ Ahead(t, Len(t) + 1, "and") /\ ~ Ahead(t, Len(t) + 1, "or")
               /\ Parse(t, s) = IF p.ok /\ p.index # Len(t) + 1 THEN Raised(p.index) ELSE p
  <1> DEFINE t == Tokens[e]
  <1>1. t \in Opening /\ t \in Seq(Lexicon) /\ t # <<>>
    BY TokensUnfold DEF Opening
  <1> HIDE DEF t
  <1>2. Consistent(Outcomes(t, s), t, s)
    BY <1>1, OutcomesConsistent
  <1>3. Occurs(t, t, 1) /\ 1 + Len(t) = Len(t) + 1 /\ AtEnd(t, Len(t) + 1) /\ Len(t) \in Nat
    BY <1>1, OccursItself
  <1>4. /\ Over(t, Len(t) + 1)
        /\ ~ Ahead(t, Len(t) + 1, "and") /\ ~ Ahead(t, Len(t) + 1, "or")
    BY <1>3, KeywordOver
  <1>5. Len(t) + 1 \in 1..(Len(t) + 1) /\ 1 \in 1..(Len(t) + 1)
    BY <1>3
  <1>6. Parse(t, s) = IF ParseOr(Outcomes(t, s), 1).ok /\ ParseOr(Outcomes(t, s), 1).index # Len(t) + 1
                      THEN Raised(ParseOr(Outcomes(t, s), 1).index) ELSE ParseOr(Outcomes(t, s), 1)
    BY <1>1, Zenon DEF Parse
  <1> QED
    BY <1>1, <1>2, <1>3, <1>4, <1>5, <1>6 DEF t

\* Meanings is what the expressions say.
LEMMA MeaningsAre ==
    ASSUME NEW s, IsResults(s)
    PROVE  IsMeaning(Meanings(s), s)
  BY MeaningUnfolds DEF IsMeaning

\* Whatever the expression, however deep, and whatever the selections say: a condition that is
\* parsed without an error gives what its words mean, although operands are left unread when
\* Python does not evaluate them (_ConditionParser.parse).
THEOREM ParserMeans ==
    ASSUME NEW s, IsResults(s), NEW e \in Conditions, Parse(Tokens[e], s).ok
    PROVE  Parse(Tokens[e], s).value = Meaning(e, s)
  <1> DEFINE t == Tokens[e]
             o == Outcomes(t, s)
             p == ParseOr(o, 1)
             m == Meanings(s)
             j == Len(t) + 1
  <1>1. /\ t \in Seq(Lexicon) /\ Consistent(o, t, s)
        /\ Occurs(t, t, 1) /\ 1 + Len(t) = j
        /\ j \in 1..(Len(t) + 1) /\ Over(t, j)
        /\ ~ Ahead(t, j, "and") /\ ~ Ahead(t, j, "or")
        /\ Parse(t, s) = IF p.ok /\ p.index # j THEN Raised(p.index) ELSE p
    BY ParseReads
  <1>2. IsMeaning(m, s) /\ m[e] \in BOOLEAN
    BY MeaningsAre DEF IsMeaning
  <1>3. AsOr(o, t, 1, m[e], j)
    <2>1. Reads(o, t, m, e)
      <3> HIDE DEF t, o, m
      <3> QED
        BY <1>1, <1>2, EveryExpressionReads
    <2> QED
      BY <1>1, <2>1 DEF Reads
  <1>4. Parse(t, s).ok /\ Meaning(e, s) = m[e]
    BY DEF Meaning
  <1> HIDE DEF t, o, m
  <1>5. p = Parsed(m[e], j) \/ Stuck(p, t)
    <2> HIDE DEF j
    <2> QED
      BY <1>1, <1>2, <1>3, OrIsParsed DEF Comes
  <1> HIDE DEF j, p
  <1>6. p.ok /\ p.index = j /\ Parse(t, s) = p
    BY <1>1, <1>4 DEF Raised
  <1>7. ~ Stuck(p, t)
    BY <1>1, <1>6 DEF Stuck
  <1>8. Parse(t, s).value = m[e]
    BY <1>5, <1>6, <1>7 DEF Parsed
  <1> QED
    BY <1>4, <1>8 DEF t

---------------------------------------------------------------------------
(* Conjunctions.                                                           *)

\* Whether an expression is a conjunction depends on its operands only.
LEMMA ConjunctionFromCongruent ==
    ASSUME NEW g, NEW h, NEW e \in Conditions,
           \A f \in Conditions : Depth[f] < Depth[e] => g[f] = h[f]
    PROVE  ConjunctionFrom(g, e) = ConjunctionFrom(h, e)
  <1>1. CASE e[1] = "and"
    <2>1. g[e[2]] = h[e[2]]
      BY <1>1, ConditionsAssumption DEF IsOperand
    <2> QED
      BY <2>1 DEF ConjunctionFrom
  <1>2. CASE e[1] # "and"
    BY <1>2 DEF ConjunctionFrom
  <1> QED
    BY <1>1, <1>2

\* IsConjunction obeys its recursion.
LEMMA ConjunctionUnfolds ==
    \A e \in Conditions : IsConjunction[e] = ConjunctionFrom(IsConjunction, e)
  <1> DEFINE V == [e \in Conditions |-> BOOLEAN]
             W == [Conditions -> BOOLEAN]
             F == [g \in W |-> [e \in Conditions |-> ConjunctionFrom(g, e)]]
  <1>1. NestingOf \in [Conditions -> Nat]
    BY ConditionsAssumption DEF NestingOf
  <1>2. \A e \in Conditions : V[e] # {}
    OBVIOUS
  <1>3. \A g : g \in W <=> g = [e \in Conditions |-> g[e]] /\ \A e \in Conditions : g[e] \in V[e]
    OBVIOUS
  <1>4. \A g \in W : F[g] \in W
    BY DEF ConjunctionFrom
  <1>5. \A g, h \in W, e \in Conditions :
            (\A f \in Conditions : NestingOf[f] < NestingOf[e] => g[f] = h[f]) => F[g][e] = F[h][e]
    BY ConjunctionFromCongruent DEF NestingOf
  <1>6. PICK h \in W : h = F[h]
    <2>1. IsRecursion(Conditions, V, NestingOf, W, F)
      <3> HIDE DEF V, W, F
      <3> QED
        BY <1>1, <1>2, <1>3, <1>4, <1>5 DEF IsRecursion
    <2> HIDE DEF V, W, F
    <2> QED
      BY <2>1, RecursionExists
  <1>7. h = [e \in Conditions |-> ConjunctionFrom(h, e)]
    BY <1>6
  <1>8. IsConjunction = [e \in Conditions |-> ConjunctionFrom(IsConjunction, e)]
    BY <1>7, Zenon DEF IsConjunction
  <1> QED
    BY <1>8, Zenon

\* A selection, a quantified pattern and their negation are always read to their end.
LEMMA TermReads ==
    ASSUME NEW t \in Seq(Lexicon), NEW s, NEW o, Consistent(o, t, s), NEW m, IsMeaning(m, s),
           NEW e \in Conditions, IsTerm(e),
           NEW i, Occurs(Tokens[e], t, i), Over(t, i + Len(Tokens[e]))
    PROVE  AsExactTerm(o, i, m[e], i + Len(Tokens[e]))
  <1>1. CASE e[1] \in {"sel", "1", "all"}
    BY <1>1, SelectionReads, OfReads
  <1>2. CASE e[1] = "not" /\ e[2][1] \in {"sel", "1", "all"}
    <2> DEFINE f == e[2]
               w == Within(Tokens, f, 3)
               j == (i + 1) + Len(w)
               q == o[Call("not", FALSE, i + 1)]
               r == o[Call("not", FALSE, i)]
    <2>1. f \in Conditions /\ m[f] \in BOOLEAN /\ m[e] = ~ m[f]
      BY <1>2, ConditionsAssumption DEF IsOperand, IsMeaning, MeaningFrom
    <2>2. w = Tokens[f]
      BY <1>2 DEF Within, Binding
    <2>3. Occurs(w, t, i + 1) /\ i + Len(Tokens[e]) = j /\ r = Negated(q)
      <3>1. Occurs(w, t, i + 1)
        BY <1>2, NotStands
      <3>2. i + Len(Tokens[e]) = j
        BY <1>2, NotStands
      <3>3. AsNegated(o, i)
        BY <1>2, NotStands
      <3> QED
        BY <3>1, <3>2, <3>3 DEF AsNegated
    <2>4. AsExactTerm(o, i + 1, m[f], j)
      <3> DEFINE n == i + 1
      <3>1. f[1] \in {"sel", "1", "all"} /\ Occurs(Tokens[f], t, n) /\ Over(t, n + Len(Tokens[f]))
            /\ j = n + Len(Tokens[f])
        BY <1>2, <2>2, <2>3
      <3> HIDE DEF n, f, j
      <3>2. AsExactTerm(o, n, m[f], n + Len(Tokens[f]))
        BY <2>1, <3>1, SelectionReads, OfReads
      <3> QED
        BY <3>1, <3>2 DEF n
    <2>5. q = Parsed(m[f], j)
      BY <2>4 DEF AsExactTerm
    <2> HIDE DEF q, r, j, f
    <2>6. r = Parsed(m[e], j)
      BY <2>1, <2>3, <2>5 DEF Negated, Parsed
    <2> QED
      BY <2>3, <2>6 DEF AsExactTerm, r
  <1> QED
    BY <1>1, <1>2 DEF IsTerm

\* A conjunction that holds is read to its end.
HoldsToEnd(o, t, e) ==
    \A i : Occurs(Tokens[e], t, i) /\ Over(t, i + Len(Tokens[e])) =>
               ParseAnd(o, i) = o[Call("and", TRUE, i + Len(Tokens[e]))]

\* A conjunction that holds is read to its end.
LEMMA ConjunctionReads ==
    ASSUME NEW t \in Seq(Lexicon), NEW s, NEW o, Consistent(o, t, s), NEW m, IsMeaning(m, s)
    PROVE  \A e \in Conditions : IsConjunction[e] /\ m[e] => HoldsToEnd(o, t, e)
  <1> DEFINE H == {e \in Conditions : IsConjunction[e] /\ m[e] => HoldsToEnd(o, t, e)}
  <1>1. ASSUME NEW e \in Conditions, IsTerm(e), m[e] PROVE HoldsToEnd(o, t, e)
    <2>1. SUFFICES ASSUME NEW i, Occurs(Tokens[e], t, i), Over(t, i + Len(Tokens[e]))
                   PROVE  ParseAnd(o, i) = o[Call("and", TRUE, i + Len(Tokens[e]))]
      BY DEF HoldsToEnd
    <2> DEFINE j == i + Len(Tokens[e])
    <2>2. AsExactTerm(o, i, m[e], j)
      BY <1>1, <2>1, TermReads
    <2>3. m[e] = TRUE
      BY <1>1 DEF IsMeaning
    <2> HIDE DEF j
    <2>4. ParseAnd(o, i) = Continue(o, "and", Parsed(TRUE, j))
      BY <2>2, <2>3 DEF ParseAnd, AsExactTerm
    <2>5. ParseAnd(o, i) = o[Call("and", TRUE, j)]
      BY <2>4, ContinueParsed
    <2> QED
      BY <2>5 DEF j
  <1>2. ASSUME NEW e \in Conditions, e[1] = "and", e[2] \in H, IsConjunction[e[2]], IsTerm(e[3]), m[e]
        PROVE  HoldsToEnd(o, t, e)
    <2>1. SUFFICES ASSUME NEW i, Occurs(Tokens[e], t, i), Over(t, i + Len(Tokens[e]))
                   PROVE  ParseAnd(o, i) = o[Call("and", TRUE, i + Len(Tokens[e]))]
      BY DEF HoldsToEnd
    <2> DEFINE a == e[2]
               b == e[3]
               u == Tokens[a]
               w == Tokens[b]
               k == i + Len(u)
               n == k + 1
               j == n + Len(w)
    <2>2. a \in Conditions /\ b \in Conditions /\ m[a] = TRUE /\ m[b] = TRUE
      BY <1>2, ConditionsAssumption DEF IsOperand, IsMeaning, MeaningFrom
    <2>3. HoldsToEnd(o, t, a)
      BY <1>2, <2>2
    <2>4. Within(Tokens, a, 2) = u /\ Within(Tokens, b, 3) = w
      <3>1. Binding(b) = 3
        BY <1>2 DEF IsTerm, Binding
      <3>2. Binding(a) \in {2, 3}
        BY <1>2, <2>2, ConjunctionUnfolds DEF ConjunctionFrom, IsTerm, Binding
      <3> QED
        BY <3>1, <3>2 DEF Within
    <2>5. Tokens[e] = u \o <<"and">> \o w
      BY <1>2, <2>4, TokensUnfold DEF TokensFrom
    <2>6. u \in Opening /\ w \in Opening /\ "and" \in Lexicon
      BY <2>2, TokensUnfold, LexiconHolds
    <2>7. IsTerm(b)
      BY <1>2
    <2> HIDE DEF a, b, u, w, H
    <2>8. /\ Occurs(u, t, i) /\ Ahead(t, k, "and") /\ Occurs(w, t, n) /\ i + Len(Tokens[e]) = j
          /\ k \in 1..Len(t) /\ n \in 1..Len(t)
      BY <2>1, <2>5, <2>6, BetweenOperands
    <2>9. k \in 1..(Len(t) + 1) /\ Over(t, k) /\ Over(t, j)
      BY <2>1, <2>8, KeywordOver
    <2>10. ParseAnd(o, i) = o[Call("and", TRUE, k)]
      BY <2>3, <2>8, <2>9 DEF HoldsToEnd, u
    <2>11. AsExactTerm(o, n, TRUE, j)
      <3> HIDE DEF n
      <3> QED
        BY <2>2, <2>7, <2>8, <2>9, TermReads DEF w, j
    <2>12. o[Call("and", TRUE, k)] = Continue(o, "and", AndOperand(o, TRUE, k))
      <3>1. o[Call("and", TRUE, k)] = AndLoop(o, t, TRUE, k)
        <4> HIDE DEF k
        <4> QED
          BY <2>9, CallsGive
      <3>2. AndLoop(o, t, TRUE, k) = Continue(o, "and", AndOperand(o, TRUE, k))
        BY <2>8 DEF AndLoop, Ahead, AndOperand
      <3> QED
        BY <3>1, <3>2
    <2>13. AndOperand(o, TRUE, k) = Parsed(TRUE, j)
      BY <2>11 DEF AndOperand, AsExactTerm
    <2> HIDE DEF j, k
    <2>14. ParseAnd(o, i) = o[Call("and", TRUE, j)]
      BY <2>10, <2>12, <2>13, ContinueParsed
    <2> QED
      BY <2>8, <2>14
  <1>3. \A e \in Conditions : (\A f \in Conditions : Depth[f] < Depth[e] => f \in H) => e \in H
    <2>1. SUFFICES ASSUME NEW e \in Conditions, \A f \in Conditions : Depth[f] < Depth[e] => f \in H,
                          IsConjunction[e], m[e]
                   PROVE  HoldsToEnd(o, t, e)
      OBVIOUS
    <2>2. CASE IsTerm(e)
      BY <1>1, <2>1, <2>2
    <2>3. CASE e[1] = "and" /\ IsConjunction[e[2]] /\ IsTerm(e[3])
      <3>1. e[2] \in H
        BY <2>1, <2>3, ConditionsAssumption DEF IsOperand
      <3> QED
        BY <1>2, <2>1, <2>3, <3>1
    <2> QED
      BY <2>1, <2>2, <2>3, ConjunctionUnfolds DEF ConjunctionFrom
  <1>4. \A e \in Conditions : e \in H
    <2> HIDE DEF H
    <2> QED
      BY <1>3, InductionOnDepth
  <1> QED
    BY <1>4

\* A conjunction of terms that holds is parsed without an error, however many terms it has: no
\* rule of the shape of those under rules/ misses a document it describes (_rule_matches).
THEOREM ConjunctionsParse ==
    ASSUME NEW s, IsResults(s), NEW e \in Conditions, IsConjunction[e], Meaning(e, s)
    PROVE  Parse(Tokens[e], s).ok /\ Parse(Tokens[e], s).value
  <1> DEFINE t == Tokens[e]
             o == Outcomes(t, s)
             p == ParseOr(o, 1)
             m == Meanings(s)
             j == Len(t) + 1
  <1>1. /\ t \in Seq(Lexicon) /\ Consistent(o, t, s)
        /\ Occurs(t, t, 1) /\ 1 + Len(t) = j
        /\ j \in 1..(Len(t) + 1) /\ Over(t, j)
        /\ ~ Ahead(t, j, "and") /\ ~ Ahead(t, j, "or")
        /\ Parse(t, s) = IF p.ok /\ p.index # j THEN Raised(p.index) ELSE p
    BY ParseReads
  <1>2. IsMeaning(m, s) /\ m[e]
    BY MeaningsAre DEF Meaning
  <1>3. ParseAnd(o, 1) = o[Call("and", TRUE, j)]
    <2>1. HoldsToEnd(o, t, e)
      <3> HIDE DEF t, o, m
      <3> QED
        BY <1>1, <1>2, ConjunctionReads
    <2> QED
      BY <1>1, <2>1 DEF HoldsToEnd
  <1> HIDE DEF t, o, m
  <1>4. o[Call("and", TRUE, j)] = Parsed(TRUE, j) /\ o[Call("or", TRUE, j)] = Parsed(TRUE, j)
    <2> DEFINE v == TRUE
    <2>1. v \in BOOLEAN
      OBVIOUS
    <2> HIDE DEF j, v
    <2>2. o[Call("and", v, j)] = Parsed(v, j) /\ o[Call("or", v, j)] = Parsed(v, j)
      BY <1>1, <2>1, LoopsEnd
    <2> QED
      BY <2>2 DEF v
  <1>5. p = Parsed(TRUE, j)
    <2>1. p = Continue(o, "or", Parsed(TRUE, j))
      BY <1>3, <1>4 DEF ParseOr
    <2> QED
      BY <1>4, <2>1, ContinueParsed
  <1> HIDE DEF p, j
  <1>6. Parse(t, s) = Parsed(TRUE, j)
    BY <1>1, <1>5 DEF Parsed
  <1> QED
    BY <1>6 DEF Parsed, t

---------------------------------------------------------------------------
(* The engine.                                                             *)

\* What the engine last said is what its rules say of the document.
DetectionInv ==
    /\ rules \in RuleSets
    /\ detection.matches = IF detection.evaluated
                           THEN {i \in DOMAIN rules : RuleMatches(rules[i], detection.doc)}
                           ELSE {}

\* SelectionResults gives the parser Booleans.
LEMMA ResultsAre ==
    ASSUME NEW rule, NEW doc
    PROVE  IsResults(SelectionResults(rule, doc))
  BY DEF IsResults, SelectionResults, SelectionMatches

\* evaluate() leaves what the rules say of the document.
LEMMA EvaluateKeeps ==
    ASSUME NEW doc, Evaluate(doc), rules \in RuleSets
    PROVE  DetectionInv'
  BY DEF Evaluate, DetectionInv, RuleMatches, Evaluated

\* It always holds: the two theorems below rest on it.
LEMMA DetectionInvHolds == Spec => []DetectionInv
  <1>1. Init => DetectionInv
    BY DEF Init, InitSigma, NoDetection, DetectionInv
  <1>2. DetectionInv /\ [Next]_vars => DetectionInv'
    <2>1. SUFFICES ASSUME DetectionInv, [Next]_vars PROVE DetectionInv'
      OBVIOUS
    <2>2. rules \in RuleSets
      BY <2>1 DEF DetectionInv
    <2>3. ASSUME UNCHANGED sigmaVars PROVE DetectionInv'
      BY <2>1, <2>3 DEF DetectionInv, sigmaVars, RuleMatches, Evaluated
    <2>4. ASSUME NEW command \in CommandsOf(rules), NEW look \in Looks(command), ProcessCommand(command, look)
          PROVE  DetectionInv'
      BY <2>2, <2>3, <2>4, EvaluateKeeps DEF ProcessCommand
    <2>5. ASSUME NEW doc \in DocumentsOf(rules), ProcessOther(doc)
          PROVE  DetectionInv'
      BY <2>2, <2>5, EvaluateKeeps DEF ProcessOther
    <2>6. ASSUME Return
          PROVE  DetectionInv'
      BY <2>2, <2>6 DEF Return, DetectionInv, NoDetection
    <2>7. ASSUME UNCHANGED vars
          PROVE  DetectionInv'
      BY <2>3, <2>7 DEF vars
    <2> QED
      BY <2>1, <2>4, <2>5, <2>6, <2>7 DEF Next
  <1> QED
    BY <1>1, <1>2, PTL DEF Spec

\* An alert is never raised against the words of its rule, whatever the rules and documents.
THEOREM DetectionMatchesAreTrue == Spec => []MatchesAreTrue
  <1>1. DetectionInv => MatchesAreTrue
    <2>1. SUFFICES ASSUME DetectionInv, NEW i \in detection.matches
                   PROVE  MeansMatch(rules[i])
      BY DEF MatchesAreTrue
    <2>2. i \in DOMAIN rules /\ RuleMatches(rules[i], detection.doc) /\ rules[i].expr \in Conditions
      BY <2>1, RulesAssumption DEF DetectionInv
    <2> QED
      BY <2>2, ParserMeans, ResultsAre DEF RuleMatches, Evaluated, MeansMatch
  <1> QED
    BY <1>1, DetectionInvHolds, PTL

\* A rule that is a conjunction matches exactly the documents it describes, whatever the rules
\* and documents.
THEOREM DetectionConjunctionsExact == Spec => []ConjunctionsExact
  <1>1. DetectionInv => ConjunctionsExact
    <2>1. SUFFICES ASSUME DetectionInv, detection.evaluated, NEW i \in DOMAIN rules,
                          IsConjunction[rules[i].expr]
                   PROVE  MeansMatch(rules[i]) <=> i \in detection.matches
      BY DEF ConjunctionsExact
    <2>2. i \in detection.matches <=> RuleMatches(rules[i], detection.doc)
      BY <2>1 DEF DetectionInv
    <2>3. rules[i].expr \in Conditions
      BY <2>1, RulesAssumption DEF DetectionInv
    <2>4. MeansMatch(rules[i]) => RuleMatches(rules[i], detection.doc)
      BY <2>1, <2>3, ConjunctionsParse, ResultsAre DEF RuleMatches, Evaluated, MeansMatch
    <2>5. RuleMatches(rules[i], detection.doc) => MeansMatch(rules[i])
      BY <2>3, ParserMeans, ResultsAre DEF RuleMatches, Evaluated, MeansMatch
    <2> QED
      BY <2>2, <2>4, <2>5
  <1> QED
    BY <1>1, DetectionInvHolds, PTL

---------------------------------------------------------------------------
(* The arguments of a command in its record.                               *)

\* GetArgv stops at the first null.
LEMMA FirstNul ==
    ASSUME NEW raw, NEW n \in 0..ArgvFields, \A j \in 1..n : raw[j] # Null,
           n < ArgvFields => raw[n + 1] = Null
    PROVE  (CHOOSE k \in 0..ArgvFields : /\ \A j \in 1..k : raw[j] # Null
                                         /\ k < ArgvFields => raw[k + 1] = Null) = n
  <1> DEFINE P(k) == /\ \A j \in 1..k : raw[j] # Null
                     /\ k < ArgvFields => raw[k + 1] = Null
  <1>1. ASSUME NEW k \in 0..ArgvFields, P(k) PROVE k = n
    <2>1. k \in Nat /\ n \in Nat /\ k <= ArgvFields /\ n <= ArgvFields /\ ArgvFields \in Nat
      BY DEF ArgvFields
    <2>2. ~ (k < n)
      <3>1. k < n => k + 1 \in 1..n /\ k < ArgvFields
        BY <2>1
      <3> QED
        BY <1>1, <3>1
    <2>3. ~ (n < k)
      <3>1. n < k => n + 1 \in 1..k /\ n < ArgvFields
        BY <2>1
      <3> QED
        BY <1>1, <3>1
    <2> QED
      BY <2>1, <2>2, <2>3
  <1>2. P(n)
    OBVIOUS
  <1> HIDE DEF P
  <1>3. (CHOOSE k \in 0..ArgvFields : P(k)) = n
    BY <1>1, <1>2
  <1> QED
    BY <1>3 DEF P

\* An element after a sequence.
LEMMA CatLast ==
    ASSUME NEW S, NEW u \in Seq(S), NEW e \in S
    PROVE  Cat(u, <<e>>)[Len(u) + 1] = e
  BY DEF Cat

\* Sequences that agree up to n have the same beginning.
LEMMA SamePrefix ==
    ASSUME NEW S, NEW n \in Nat, NEW r, NEW a, \A i \in 1..n : r[i] \in S /\ r[i] = a[i]
    PROVE  SubSeq(r, 1, n) = SubSeq(a, 1, n)
  <1> DEFINE x == SubSeq(r, 1, n)
             y == SubSeq(a, 1, n)
  <1>1. n \in Int /\ 1 \in Int
    OBVIOUS
  <1>2. \A i \in 1..n : r[i] \in S
    OBVIOUS
  <1>3. \A i \in 1..n : a[i] \in S
    OBVIOUS
  <1>4. /\ x \in Seq(S) /\ Len(x) = (IF 1 <= n THEN n - 1 + 1 ELSE 0)
        /\ \A i \in 1..(n - 1 + 1) : x[i] = r[1 + i - 1]
    BY <1>1, <1>2, SubSeqProperties
  <1>5. /\ y \in Seq(S) /\ Len(y) = (IF 1 <= n THEN n - 1 + 1 ELSE 0)
        /\ \A i \in 1..(n - 1 + 1) : y[i] = a[1 + i - 1]
    BY <1>1, <1>3, SubSeqProperties
  <1> HIDE DEF x, y
  <1>6. Len(x) = n /\ Len(y) = n
    BY <1>4, <1>5
  <1>7. \A i \in 1..n : x[i] = r[i] /\ y[i] = a[i]
    BY <1>4, <1>5
  <1>8. \A i \in 1..Len(x) : x[i] = y[i]
    BY <1>6, <1>7
  <1>9. x = y
    BY <1>4, <1>5, <1>6, <1>8, SeqEqual
  <1> QED
    BY <1>9 DEF x, y

\* What is in memory where argv is.
Ended(argv, e, beyond) == argv \o <<e>> \o beyond

\* memory begins with argv and, after it, e.
Holding(memory, argv, e) ==
    /\ DOMAIN memory = 1..Len(memory) /\ Len(memory) \in Nat /\ Len(memory) >= Len(argv) + 1
    /\ \A i \in 1..Len(argv) : memory[i] = argv[i]
    /\ memory[Len(argv) + 1] = e

\* In memory argv's end comes between its arguments and what lies beyond.
LEMMA Terminated ==
    ASSUME NEW U, NEW argv \in Seq(U), NEW beyond \in Seq(U), NEW e \in U,
           NEW memory, memory = Ended(argv, e, beyond)
    PROVE  Holding(memory, argv, e)
  <1> DEFINE one == <<e>>
             c == Cat(argv, one)
             d == Cat(c, beyond)
  <1>1. one \in Seq(U) /\ Len(one) = 1 /\ one[1] = e
    BY OneToken
  <1>2. memory = d
    BY DEF Cat, Ended
  <1> HIDE DEF one
  <1>3. c \in Seq(U) /\ Len(c) = Len(argv) + 1 /\ Len(argv) \in Nat
    BY <1>1, CatIn
  <1>4. (\A i \in 1..Len(argv) : c[i] = argv[i]) /\ c[Len(argv) + 1] = e
    <2>1. \A k \in 1..Len(argv) : c[k] = argv[k]
      BY <1>1, CatElements
    <2>2. c[Len(argv) + 1] = e
      BY CatLast DEF one
    <2> QED
      BY <2>1, <2>2
  <1> HIDE DEF c
  <1>5. d \in Seq(U) /\ Len(d) = Len(c) + Len(beyond) /\ Len(beyond) \in Nat
    BY <1>3, CatIn
  <1>6. \A i \in 1..Len(c) : d[i] = c[i]
    BY <1>3, CatElements
  <1> HIDE DEF d
  <1>7. DOMAIN d = 1..Len(d) /\ Len(d) >= Len(argv) + 1 /\ Len(d) \in Nat
    BY <1>3, <1>5, LenProperties
  <1>8. (\A i \in 1..Len(argv) : d[i] = argv[i]) /\ d[Len(argv) + 1] = e
    BY <1>3, <1>4, <1>6
  <1> QED
    BY <1>2, <1>7, <1>8 DEF Holding

\* The arguments of a record are the command's first ones, six at most, and end before one only
\* because it is empty or cannot be read; what lies in memory after them never shows
\* (submit_exec_event, get_argv).
THEOREM ArgvIsOwn ==
    ASSUME NEW S, NEW command, command.argv \in Seq(S), command.beyond \in Seq(S)
    PROVE  \E n \in 0..Len(command.argv) :
              /\ n <= ArgvFields
              /\ GetArgv(command) = SubSeq(command.argv, 1, n)
              /\ \A i \in 1..n : Recorded(command, i)
              /\ (n < Len(command.argv) /\ n < ArgvFields) => ~ Recorded(command, n + 1)
  <1> DEFINE argv == command.argv
             unread == command.unread
             memory == argv \o <<Null>> \o command.beyond
             raw == RawArgs(command)
             l == Len(argv)
             P(k) == /\ \A j \in 1..k : raw[j] # Null
                     /\ k < ArgvFields => raw[k + 1] = Null
             T == {k \in 0..ArgvFields : k < ArgvFields => raw[k + 1] = Null}
  <1>1. l \in Nat /\ (\A i \in 1..l : argv[i] \in S) /\ ArgvFields = 6
    BY LenProperties DEF ArgvFields
  <1>2. /\ DOMAIN memory = 1..Len(memory) /\ Len(memory) \in Nat /\ Len(memory) >= l + 1
        /\ \A i \in 1..l : memory[i] = argv[i]
        /\ memory[l + 1] = Null
    <2> DEFINE U == S \cup {Null}
               e == Null
               beyond == command.beyond
    <2>1. argv \in Seq(U) /\ beyond \in Seq(U) /\ e \in U
      OBVIOUS
    <2>2. memory = Ended(argv, e, beyond)
      BY DEF Ended
    <2> HIDE DEF U, memory, argv, beyond, e, l
    <2>3. Holding(memory, argv, e)
      BY <2>1, <2>2, Terminated
    <2> QED
      BY <2>3 DEF Holding, l, e
  <1>3. raw = [i \in 1..ArgvFields |-> IF i \in DOMAIN memory \ unread THEN memory[i] ELSE Null]
    BY Zenon DEF RawArgs
  <1>4. GetArgv(command) = SubSeq(raw, 1, CHOOSE k \in 0..ArgvFields : P(k))
    BY Zenon DEF GetArgv
  <1> HIDE DEF memory, raw, P
  <1>5. PICK n \in T : \A m \in T : n <= m
    <2>1. T \subseteq Nat
      BY <1>1
    <2>2. ArgvFields \in T
      BY <1>1
    <2> HIDE DEF T
    <2> QED
      BY <2>1, <2>2, LeastNumber
  <1>6. n \in 0..ArgvFields /\ n \in Nat /\ n <= ArgvFields
    BY <1>1, <1>5
  <1>7. ASSUME NEW j \in 1..n PROVE raw[j] # Null
    <2>1. j - 1 \in 0..ArgvFields /\ j - 1 < n /\ (j - 1) + 1 = j
      BY <1>1, <1>6, <1>7
    <2>2. raw[j] = Null => j - 1 \in T
      BY <2>1
    <2> HIDE DEF T
    <2> QED
      BY <1>5, <1>6, <2>1, <2>2
  <1>8. n < ArgvFields => raw[n + 1] = Null
    BY <1>5
  <1>9. (CHOOSE k \in 0..ArgvFields : P(k)) = n
    BY <1>6, <1>7, <1>8, FirstNul DEF P
  <1>10. n <= l
    <2>1. CASE l < ArgvFields
      <3>1. raw[l + 1] = Null
        BY <1>1, <1>2, <1>3, <2>1
      <3>2. l \in T
        <4> HIDE DEF l
        <4>1. l \in 0..ArgvFields
          BY <1>1, <2>1
        <4> QED
          BY <3>1, <4>1
      <3> QED
        BY <1>5, <3>2
    <2>2. CASE ~ (l < ArgvFields)
      BY <1>1, <1>6, <2>2
    <2> QED
      BY <2>1, <2>2
  <1>11. ASSUME NEW i \in 1..n PROVE raw[i] = argv[i] /\ Recorded(command, i)
    <2>1. i \in 1..ArgvFields /\ i \in 1..l /\ i \in DOMAIN memory
      BY <1>1, <1>2, <1>6, <1>10
    <2>2. raw[i] = IF i \in DOMAIN memory \ unread THEN memory[i] ELSE Null
      BY <1>3, <2>1
    <2>3. i \notin unread /\ raw[i] = memory[i] /\ memory[i] = argv[i]
      BY <1>2, <1>7, <2>1, <2>2
    <2> QED
      BY <1>7, <2>3 DEF Recorded
  <1>12. ASSUME n < l, n < ArgvFields PROVE ~ Recorded(command, n + 1)
    <2>1. n + 1 \in 1..ArgvFields /\ n + 1 \in 1..l /\ n + 1 \in DOMAIN memory
      BY <1>1, <1>2, <1>6, <1>12
    <2>2. raw[n + 1] = IF n + 1 \in DOMAIN memory \ unread THEN memory[n + 1] ELSE Null
      BY <1>3, <2>1
    <2> QED
      BY <1>2, <1>8, <1>12, <2>1, <2>2 DEF Recorded
  <1>13. SubSeq(raw, 1, n) = SubSeq(argv, 1, n)
    <2>1. \A i \in 1..n : i \in 1..l
      BY <1>1, <1>6, <1>10
    <2>2. \A i \in 1..n : raw[i] \in S /\ raw[i] = argv[i]
      BY <1>1, <1>11, <2>1
    <2> HIDE DEF argv, l
    <2> QED
      BY <1>6, <2>2, SamePrefix
  <1>14. n \in 0..l
    BY <1>1, <1>6, <1>10
  <1> HIDE DEF T
  <1> QED
    BY <1>4, <1>6, <1>9, <1>11, <1>12, <1>13, <1>14

---------------------------------------------------------------------------
(* The documents of a command of whole words.                              *)

\* f's elements are what the first elements of q, joined, come to.
Joins(f, q, n) == \A i \in 1..n : f[i] = IF i = 1 THEN q[i] ELSE Cat(f[i - 1], q[i])

\* There is one way to join.
LEMMA CatsAgree ==
    ASSUME NEW q, NEW n \in Nat, NEW g, NEW h, Joins(g, q, n), Joins(h, q, n)
    PROVE  \A i \in 1..n : g[i] = h[i]
  <1> USE DEF Joins
  <1> DEFINE D == 1..n
             mu == [i \in D |-> i]
  <1>1. mu \in [D -> Nat]
    OBVIOUS
  <1>2. ASSUME NEW i \in D, \A j \in D : mu[j] < mu[i] => g[j] = h[j] PROVE g[i] = h[i]
    <2>1. CASE i = 1
      BY <2>1
    <2>2. CASE i # 1
      <3>1. i - 1 \in D /\ mu[i - 1] < mu[i]
        BY <2>2
      <3>2. g[i - 1] = h[i - 1]
        BY <1>2, <3>1
      <3>3. g[i] = Cat(g[i - 1], q[i]) /\ h[i] = Cat(h[i - 1], q[i])
        BY <2>2
      <3> QED
        BY <3>2, <3>3
    <2> QED
      BY <2>1, <2>2
  <1>3. \A i \in D : (\A j \in D : mu[j] < mu[i] => g[j] = h[j]) => g[i] = h[i]
    BY <1>2
  <1>4. \A i \in D : g[i] = h[i]
    <2> HIDE DEF D, mu
    <2> QED
      BY <1>1, <1>3, RecursionUnique
  <1> QED
    BY <1>4

\* FlattenSeq joins its sequences one after the other.
LEMMA FlattenUnfolds ==
    ASSUME NEW q, Len(q) \in Nat, Len(q) # 0,
           NEW h, h = [i \in 1..Len(q) |-> IF i = 1 THEN q[i] ELSE Cat(h[i - 1], q[i])]
    PROVE  FlattenSeq(q) = h[Len(q)]
  <1> DEFINE D == 1..Len(q)
             F(f) == [i \in D |-> IF i = 1 THEN q[i] ELSE Cat(f[i - 1], q[i])]
             g == CHOOSE f : f = F(f)
             n == Len(q)
  <1>1. FlattenSeq(q) = g[n]
    BY Zenon DEF FlattenSeq, Cat
  <1>2. h = F(h)
    OBVIOUS
  <1>3. g = F(g)
    <2> HIDE DEF F
    <2> QED
      BY <1>2, Zenon
  <1>4. /\ \A i \in D : g[i] = IF i = 1 THEN q[i] ELSE Cat(g[i - 1], q[i])
        /\ \A i \in D : h[i] = IF i = 1 THEN q[i] ELSE Cat(h[i - 1], q[i])
    <2> HIDE DEF g
    <2> QED
      BY <1>2, <1>3, Zenon
  <1>5. n \in Nat /\ n \in 1..n /\ D = 1..n
    OBVIOUS
  <1> HIDE DEF g, F, n
  <1>6. Joins(g, q, n) /\ Joins(h, q, n)
    BY <1>4, <1>5, Zenon DEF Joins
  <1>7. \A i \in 1..n : g[i] = h[i]
    BY <1>5, <1>6, CatsAgree
  <1> QED
    BY <1>1, <1>5, <1>7 DEF n

\* One-word arguments joined with spaces are the arguments.
LEMMA FlattenOnes ==
    ASSUME NEW S, NEW a \in Seq(S)
    PROVE  FlattenSeq([i \in DOMAIN a |-> <<a[i]>>]) = a
  <1> DEFINE n == Len(a)
             q == [i \in 1..n |-> <<a[i]>>]
             h == [i \in 1..n |-> SubSeq(a, 1, i)]
  <1>1. n \in Nat /\ DOMAIN a = 1..n /\ \A i \in 1..n : a[i] \in S
    BY LenProperties
  <1>2. Len(q) = n /\ q \in Seq(Seq(S))
    BY <1>1
  <1>3. CASE n = 0
    <2>1. q = <<>> /\ a = <<>>
      BY <1>1, <1>2, <1>3
    <2>2. FlattenSeq(q) = q
      BY <1>2, <1>3 DEF FlattenSeq
    <2> QED
      BY <1>1, <2>1, <2>2
  <1>4. CASE n # 0
    <2>1. ASSUME NEW i \in 1..n
          PROVE  h[i] = IF i = 1 THEN q[i] ELSE Cat(h[i - 1], q[i])
      <3>1. SubSeq(a, 1, i) = Cat(SubSeq(a, 1, i - 1), <<a[i]>>)
        <4>1. 1 \in 1..Len(a) /\ i \in 1..Len(a)
          BY <1>1, <2>1
        <4> QED
          BY <4>1, SubSeqRecursiveSecond DEF Cat
      <3>2. h[i] = SubSeq(a, 1, i) /\ q[i] = <<a[i]>>
        BY <2>1
      <3> HIDE DEF q
      <3>3. CASE i = 1
        <4>1. SubSeq(a, 1, 0) = <<>>
          BY SubSeqEmpty
        <4>2. Cat(<<>>, <<a[1]>>) = <<a[1]>>
          BY DEF Cat
        <4>3. i - 1 = 0 /\ a[i] = a[1]
          BY <3>3
        <4>4. h[i] = q[i]
          BY <3>1, <3>2, <4>1, <4>2, <4>3, Zenon
        <4> QED
          BY <3>3, <4>4
      <3>4. CASE i # 1
        <4>1. i - 1 \in 1..n
          BY <1>1, <2>1, <3>4
        <4>2. h[i - 1] = SubSeq(a, 1, i - 1)
          BY <4>1
        <4>3. h[i] = Cat(h[i - 1], q[i])
          BY <3>1, <3>2, <4>2, Zenon
        <4> QED
          BY <3>4, <4>3
      <3> QED
        BY <3>3, <3>4
    <2>2. h = [i \in 1..Len(q) |-> IF i = 1 THEN q[i] ELSE Cat(h[i - 1], q[i])]
      <3>1. 1..Len(q) = 1..n
        BY <1>2
      <3> QED
        BY <2>1, <3>1, Zenon
    <2>3. FlattenSeq(q) = h[n]
      <3> HIDE DEF n, q, h
      <3> QED
        BY <1>1, <1>2, <1>4, <2>2, FlattenUnfolds
    <2>4. h[n] = a
      BY <1>1, <1>4, SubSeqFull
    <2> QED
      BY <1>1, <2>3, <2>4
  <1> QED
    BY <1>3, <1>4

\* A command whose arguments are whole words: none is empty, and neither spaces nor shlex.quote
\* make anything else of one, as it has none of the shell's characters.
IsPlain(command) ==
    \A i \in DOMAIN command.argv : command.argv[i] \notin DOMAIN Quoted \cup DOMAIN Words \cup {Null}

\* Both command lines of whole words are these words (_read_cmdline, shlex.join).
LEMMA PlainLines ==
    ASSUME NEW S, NEW a \in Seq(S),
           \A i \in DOMAIN a : a[i] \notin DOMAIN Quoted \cup DOMAIN Words \cup {Null}
    PROVE  ShlexJoin(a) = a /\ JoinCmdline(a) = a
  <1>1. a = [i \in DOMAIN a |-> a[i]]
    BY LenProperties
  <1>2. ShlexJoin(a) = [i \in DOMAIN a |-> a[i]]
    BY DEF ShlexJoin
  <1>3. JoinCmdline(a) = FlattenSeq([i \in DOMAIN a |-> <<a[i]>>])
    <2>1. [i \in DOMAIN a |-> WordsOf(a[i])] = [i \in DOMAIN a |-> <<a[i]>>]
      BY DEF WordsOf
    <2> QED
      BY <2>1, Zenon DEF JoinCmdline
  <1>4. FlattenSeq([i \in DOMAIN a |-> <<a[i]>>]) = a
    BY FlattenOnes
  <1> QED
    BY <1>1, <1>2, <1>3, <1>4, Zenon

\* A complete record has the arguments.
LEMMA CompleteArgv ==
    ASSUME NEW S, NEW command, command.argv \in Seq(S), command.beyond \in Seq(S),
           RecordComplete(command)
    PROVE  GetArgv(command) = command.argv
  <1> DEFINE a == command.argv
             l == Len(a)
  <1>1. PICK n \in 0..l : /\ n <= ArgvFields
                          /\ GetArgv(command) = SubSeq(a, 1, n)
                          /\ (n < l /\ n < ArgvFields) => ~ Recorded(command, n + 1)
    BY ArgvIsOwn
  <1>2. l \in Nat /\ l <= ArgvFields /\ ArgvFields \in Nat /\ \A i \in 1..l : Recorded(command, i)
    BY LenProperties DEF RecordComplete, ArgvFields
  <1>3. n = l
    <2> HIDE DEF l
    <2>1. n < l => n + 1 \in 1..l /\ n < ArgvFields
      BY <1>1, <1>2
    <2> QED
      BY <1>1, <1>2, <2>1
  <1>4. SubSeq(a, 1, l) = a
    BY SubSeqFull
  <1> QED
    BY <1>1, <1>3, <1>4, Zenon

\* Nothing joined is nothing.
LEMMA JoinNothing == JoinCmdline(<<>>) = <<>>
  <1>1. [i \in DOMAIN <<>> |-> WordsOf(<<>>[i])] = <<>>
    OBVIOUS
  <1>2. FlattenSeq(<<>>) = <<>>
    BY DEF FlattenSeq
  <1> QED
    BY <1>1, <1>2, Zenon DEF JoinCmdline

\* Of whole words, looks that show the command itself or nothing make the record's document.
LEMMA PlainDocument ==
    ASSUME NEW S, NEW command, command.argv \in Seq(S), command.beyond \in Seq(S),
           IsPlain(command), RecordComplete(command), NEW look,
           look.cmdline \in {<<>>, command.argv}, look.exe \in {Null, command.image}
    PROVE  ProcessDocument(command, look) = ProcessDocument(command, NoLook)
  <1>1. GetArgv(command) = command.argv
    BY CompleteArgv
  <1>2. ShlexJoin(command.argv) = command.argv /\ JoinCmdline(command.argv) = command.argv
    BY PlainLines DEF IsPlain
  <1>3. NoLook.cmdline = <<>> /\ NoLook.exe = Null
    BY DEF NoLook
  <1>4. command.image = command.filename /\ command.filename # Null
    BY DEF RecordComplete
  <1>5. SetDefault(look.exe, Null, SetDefault(command.filename, Null, Unknown))
          = SetDefault(NoLook.exe, Null, SetDefault(command.filename, Null, Unknown))
    BY <1>3, <1>4 DEF SetDefault
  <1>6. JoinCmdline(look.cmdline) \in {<<>>, command.argv} /\ JoinCmdline(NoLook.cmdline) = <<>>
    BY <1>2, <1>3, JoinNothing, Zenon
  <1>7. SetDefault(JoinCmdline(look.cmdline), <<>>, SetDefault(ShlexJoin(GetArgv(command)), <<>>, <<Unknown>>))
          = SetDefault(JoinCmdline(NoLook.cmdline), <<>>, SetDefault(ShlexJoin(GetArgv(command)), <<>>, <<Unknown>>))
    BY <1>1, <1>2, <1>6, Zenon DEF SetDefault
  <1> QED
    BY <1>5, <1>7, Zenon DEF ProcessDocument, ProcessEvent

\* The command handled was executed, and became what the filter and the rules make of its document.
HandledInv ==
    /\ rules \in RuleSets
    /\ Handled =>
         LET doc == ProcessDocument(handled.command, handled.look)
         IN  /\ handled.command \in CommandsOf(rules)
             /\ handled.noise <=> IsNoise(doc)
             /\ ~handled.noise => detection.evaluated /\ detection.doc = Flatten(doc)

\* It always holds: the two theorems below rest on it.
LEMMA HandledInvHolds == Spec => []HandledInv
  <1>1. Init => HandledInv
    BY DEF Init, InitSigma, NotHandled, HandledInv, Handled
  <1>2. HandledInv /\ [Next]_vars => HandledInv'
    <2>1. SUFFICES ASSUME HandledInv, [Next]_vars PROVE HandledInv'
      OBVIOUS
    <2>2. ASSUME NEW command \in CommandsOf(rules), NEW look \in Looks(command), ProcessCommand(command, look)
          PROVE  HandledInv'
      <3> DEFINE doc == ProcessDocument(command, look)
      <3>1. rules' = rules /\ handled' = [command |-> command, look |-> look, noise |-> IsNoise(doc)]
        BY <2>2 DEF ProcessCommand, Evaluate, sigmaVars
      <3>2. IsNoise(doc) \/ (detection'.evaluated /\ detection'.doc = Flatten(doc))
        BY <2>2 DEF ProcessCommand, Evaluate
      <3>3. handled'.command = command /\ handled'.look = look /\ handled'.noise = IsNoise(doc)
        BY <3>1
      <3> HIDE DEF doc
      <3> QED
        BY <2>1, <2>2, <3>1, <3>2, <3>3 DEF HandledInv, Handled, doc
    <2>3. ASSUME NEW doc \in DocumentsOf(rules), ProcessOther(doc)
          PROVE  HandledInv'
      BY <2>1, <2>3 DEF ProcessOther, Evaluate, HandledInv, Handled, Ready, NotHandled
    <2>4. ASSUME Return
          PROVE  HandledInv'
      BY <2>1, <2>4 DEF Return, NotHandled, HandledInv, Handled
    <2>5. ASSUME UNCHANGED vars
          PROVE  HandledInv'
      BY <2>1, <2>5 DEF vars, sigmaVars, HandledInv, Handled
    <2> QED
      BY <2>1, <2>2, <2>3, <2>4, <2>5 DEF Next
  <1> QED
    BY <1>1, <1>2, PTL DEF Spec

\* Whatever the rules, the kinds of noise and the memory beyond argv: a command of whole words
\* is judged by its record alone for as long as /proc shows no other program of its pid
\* (ProcEnricher.enrich, get_argv, SystemNoiseFilter.evaluate, SigmaEngine.evaluate).
THEOREM PlainOwnLooksKeepVerdict ==
    Spec => [](IsPlain(handled.command) => OwnLooksKeepVerdict)
  <1>1. HandledInv /\ DetectionInv => (IsPlain(handled.command) => OwnLooksKeepVerdict)
    <2> DEFINE command == handled.command
               look == handled.look
               doc == ProcessDocument(command, look)
               own == ProcessDocument(command, NoLook)
    <2>1. SUFFICES ASSUME HandledInv, DetectionInv, IsPlain(command), Handled, RecordComplete(command), OwnLook
                   PROVE  /\ handled.noise <=> IsNoise(own)
                          /\ ~handled.noise =>
                                detection.matches = {i \in DOMAIN rules : RuleMatches(rules[i], Flatten(own))}
      BY Zenon DEF OwnLooksKeepVerdict, RecordDocument
    <2>2. /\ command \in CommandsOf(rules) /\ (handled.noise <=> IsNoise(doc))
          /\ ~handled.noise => detection.evaluated /\ detection.doc = Flatten(doc)
      BY <2>1 DEF HandledInv
    <2>3. command.argv \in Seq(STRING) /\ command.beyond \in Seq(STRING)
      BY <2>1, <2>2, CommandsAssumption DEF HandledInv
    <2>4. look.cmdline \in {<<>>, command.argv} /\ look.exe \in {Null, command.image}
      BY <2>1 DEF OwnLook
    <2>5. doc = own
      <3> HIDE DEF command, look
      <3> QED
        BY <2>1, <2>3, <2>4, PlainDocument
    <2>6. detection.evaluated =>
            detection.matches = {i \in DOMAIN rules : RuleMatches(rules[i], detection.doc)}
      BY <2>1 DEF DetectionInv
    <2> HIDE DEF doc, own
    <2> QED
      BY <2>2, <2>5, <2>6, Zenon
  <1> QED
    BY <1>1, HandledInvHolds, DetectionInvHolds, PTL

---------------------------------------------------------------------------
(* The listed commands.                                                    *)

\* A sequence, whatever its elements are.
OwnSeq(x) == x \in Seq({x[i] : i \in 1..Len(x)})

\* a begins like x and is longer.
Outgrows(x, a) == Len(a) > Len(x) /\ a[1] = x[1] /\ a[2] = x[2]

\* What the lengths and the first words of the listed commands are.
ListedShape(x) ==
    /\ OwnSeq(x) /\ Len(x) \in 2..4
    /\ Len(x) = 2 => x[1] \in {"which", "dircolors"}
    /\ Len(x) = 3 => x[1] = "/bin/sh" \/ (x[1] = "git" /\ x[2] = "rev-parse")
    /\ Len(x) = 4 => \/ x[1] \in {"/usr/bin/ps", "sed"}
                     \/ x[1] = "git" /\ x[2] \in {"config", "status", "worktree"}

\* A strict prefix by its elements.
LEMMA PrefixExtends ==
    ASSUME NEW S, NEW T, NEW x \in Seq(S), NEW a \in Seq(T), IsStrictPrefix(x, a)
    PROVE  Len(a) > Len(x) /\ \A i \in 1..Len(x) : a[i] = x[i]
  <1> DEFINE n == Len(x)
             m == Len(a)
             U == S \cup T
             y == SubSeq(a, 1, n)
  <1>1. n \in Nat /\ m \in Nat /\ (\A i \in 1..m : a[i] \in T) /\ x \in Seq(U) /\ a \in Seq(U)
    BY LenProperties
  <1>2. n <= m /\ SubSeq(x, 1, n) = y /\ x # a
    BY DEF IsStrictPrefix, IsPrefix
  <1>3. SubSeq(x, 1, n) = x
    BY SubSeqFull
  <1>4. x = y
    BY <1>2, <1>3, Zenon
  <1>5. \A i \in 1..n : y[i] = a[i]
    <2>1. \A i \in 1..n : a[i] \in T
      BY <1>1, <1>2
    <2>2. n \in Int /\ 1 \in Int
      BY <1>1
    <2>3. \A i \in 1..(n - 1 + 1) : y[i] = a[1 + i - 1]
      BY <2>1, <2>2, SubSeqProperties
    <2> HIDE DEF n, y
    <2> QED
      BY <1>1, <2>3
  <1>6. \A i \in 1..n : a[i] = x[i]
    BY <1>4, <1>5, Zenon
  <1>7. n # m
    <2>1. n = m => \A i \in 1..n : x[i] = a[i]
      BY <1>6
    <2> QED
      BY <1>1, <1>2, <2>1, SeqEqual
  <1>8. m > n
    <2> HIDE DEF n, m
    <2> QED
      BY <1>1, <1>2, <1>7
  <1> QED
    BY <1>6, <1>8

\* A command of two words.
LEMMA TwoWords ==
    ASSUME NEW a, NEW b, NEW x, x = <<a, b>>
    PROVE  OwnSeq(x) /\ Len(x) = 2 /\ x[1] = a /\ x[2] = b
  BY DEF OwnSeq

\* A command of three words.
LEMMA ThreeWords ==
    ASSUME NEW a, NEW b, NEW c, NEW x, x = <<a, b, c>>
    PROVE  OwnSeq(x) /\ Len(x) = 3 /\ x[1] = a /\ x[2] = b
  BY DEF OwnSeq

\* A command of four words.
LEMMA FourWords ==
    ASSUME NEW a, NEW b, NEW c, NEW d, NEW x, x = <<a, b, c, d>>
    PROVE  OwnSeq(x) /\ Len(x) = 4 /\ x[1] = a /\ x[2] = b
  BY DEF OwnSeq

\* Every sequence is one.
LEMMA OwnSeqOf ==
    ASSUME NEW S, NEW x \in Seq(S)
    PROVE  OwnSeq(x)
  BY DEF OwnSeq

\* The poller's ps has the shape of a listed command.
LEMMA PsWords == ListedShape(<<"/usr/bin/ps">> \o PsArgs)
  <1> DEFINE p == "/usr/bin/ps"
             u == <<p>>
             w == PsArgs
             U == {p} \cup {w[i] : i \in 1..Len(w)}
             x == Cat(u, w)
  <1>1. OwnSeq(w) /\ Len(w) = 3
    <2>1. PICK b, c, d : w = <<b, c, d>>
      BY Zenon DEF PsArgs
    <2> HIDE DEF w
    <2> QED
      BY <2>1, ThreeWords
  <1> HIDE DEF w, p
  <1>2. w \in Seq(U)
    BY <1>1 DEF OwnSeq
  <1>3. u \in Seq(U) /\ Len(u) = 1 /\ u[1] = p
    OBVIOUS
  <1> HIDE DEF u, U
  <1>4. x \in Seq(U) /\ Len(x) = 4
    <2>1. x \in Seq(U) /\ Len(x) = Len(u) + Len(w)
      BY <1>2, <1>3, CatIn
    <2> QED
      BY <1>1, <1>3, <2>1
  <1>5. x[1] = p
    <2>1. \A k \in 1..Len(u) : x[k] = u[k]
      BY <1>2, <1>3, CatElements
    <2> QED
      BY <1>3, <2>1
  <1> HIDE DEF x
  <1>6. OwnSeq(x)
    BY <1>4, OwnSeqOf
  <1>7. ListedShape(x)
    BY <1>4, <1>5, <1>6 DEF ListedShape, p
  <1> QED
    BY <1>7 DEF x, u, w, p, Cat

\* So have the git queries.
LEMMA GitWords ==
    ASSUME NEW x \in GitQueries \cup RevParseQueries
    PROVE  ListedShape(x)
  <1>1. CASE x \in GitQueries
    <2>1. PICK b \in {"config", "status", "worktree"} : \E c, d : x = <<"git", b, c, d>>
      BY <1>1, Zenon DEF GitQueries
    <2> QED
      BY <2>1, FourWords DEF ListedShape
  <1>2. CASE x \in RevParseQueries
    <2>1. PICK c : x = <<"git", "rev-parse", c>>
      BY <1>2 DEF RevParseQueries
    <2> QED
      BY <2>1, ThreeWords DEF ListedShape
  <1> QED
    BY <1>1, <1>2

\* So have the commands of the process inventory.
LEMMA InventoryWords ==
    ASSUME NEW x \in InventoryArgs \cup InventoryCommands
    PROVE  ListedShape(x)
  <1>1. \/ x = <<"which", "ps">>
        \/ x = <<"/usr/bin/ps">> \o PsArgs
        \/ \E c : x = <<"/bin/sh", "-c", c>>
    BY Zenon DEF InventoryArgs, InventoryCommands
  <1>2. CASE x = <<"which", "ps">>
    BY <1>2, TwoWords DEF ListedShape
  <1>3. CASE x = <<"/usr/bin/ps">> \o PsArgs
    BY <1>3, PsWords, Zenon
  <1>4. CASE \E c : x = <<"/bin/sh", "-c", c>>
    BY <1>4, ThreeWords DEF ListedShape
  <1> QED
    BY <1>1, <1>2, <1>3, <1>4

\* So has every listed command.
LEMMA ListedWords ==
    ASSUME NEW x \in Listed
    PROVE  ListedShape(x)
  <1>1. CASE x = <<"dircolors", "-b">>
    BY <1>1, TwoWords DEF ListedShape
  <1>2. CASE x = <<"sed", "-n", "s/^cpu\\s//p", "/proc/stat">>
    BY <1>2, FourWords DEF ListedShape
  <1>3. CASE x \in GitQueries \cup RevParseQueries \cup InventoryArgs
    BY <1>3, GitWords, InventoryWords
  <1> QED
    BY <1>1, <1>2, <1>3 DEF Listed

\* No listed command is the beginning of another.
LEMMA ExtendedWords ==
    ASSUME NEW x, ListedShape(x), NEW a, Outgrows(x, a)
    PROVE  /\ ~ ListedShape(a)
           /\ Len(a) # 2
           /\ ~ (a[1] = "git" /\ a[2] = "for-each-ref")
  <1> DEFINE n == Len(x)
             m == Len(a)
  <1>1. n \in 2..4 /\ m > n /\ a[1] = x[1] /\ a[2] = x[2]
    BY DEF ListedShape, Outgrows
  <1>2. /\ n = 2 => x[1] \in {"which", "dircolors"}
        /\ n = 3 => x[1] = "/bin/sh" \/ (x[1] = "git" /\ x[2] = "rev-parse")
        /\ n = 4 => \/ x[1] \in {"/usr/bin/ps", "sed"}
                    \/ x[1] = "git" /\ x[2] \in {"config", "status", "worktree"}
    BY DEF ListedShape
  <1>3. ListedShape(a) =>
          /\ m \in 2..4
          /\ m = 3 => a[1] = "/bin/sh" \/ (a[1] = "git" /\ a[2] = "rev-parse")
          /\ m = 4 => \/ a[1] \in {"/usr/bin/ps", "sed"}
                      \/ a[1] = "git" /\ a[2] \in {"config", "status", "worktree"}
    BY DEF ListedShape
  <1> HIDE DEF n, m
  <1>4. n = 2 \/ n = 3 \/ n = 4
    BY <1>1
  <1>5. ~ ListedShape(a)
    <2>1. ListedShape(a) => (n = 2 /\ m = 3) \/ (n = 2 /\ m = 4) \/ (n = 3 /\ m = 4)
      BY <1>1, <1>3, <1>4
    <2> QED
      BY <1>1, <1>2, <1>3, <2>1
  <1>6. m # 2
    BY <1>1
  <1>7. ~ (a[1] = "git" /\ a[2] = "for-each-ref")
    BY <1>1, <1>2, <1>4
  <1> QED
    BY <1>5, <1>6, <1>7 DEF m

\* A document without a token is noise only for being a listed command as a whole.
LEMMA NoiseWithoutToken ==
    ASSUME NEW doc, IsNoise(doc), ~ HasToken(doc)
    PROVE  \/ \E a \in {doc.args, doc.command_line} :
                 \/ a \in Listed \cup InventoryCommands
                 \/ a = <<"sleep", "1">>
                 \/ IsPrefix(<<"git", "for-each-ref">>, a)
           \/ Len(doc.args) = 2
  <1>1. ~ IsEventReceiverServerNoise(doc)
    BY DEF HasToken, IsEventReceiverServerNoise
  <1>2. ~ IsVscodeServerNoise(doc)
    BY DEF HasToken, IsVscodeServerNoise
  <1>3. IsShellStartupNoise(doc) => Executes(doc, <<"dircolors", "-b">>)
    BY DEF HasToken, IsShellStartupNoise
  <1>4. ~ (doc.name = "cpuUsage.sh")
        /\ ~ (\E word \in {doc.executable} \cup ToSet(doc.command_line) : Holds("contains", "cpuUsage.sh", word))
    BY DEF HasToken, Mentions, Holds
  <1>5. IsProcPollingNoise(doc) => doc.args = <<"sed", "-n", "s/^cpu\\s//p", "/proc/stat">> \/ Len(doc.args) = 2
    BY <1>4 DEF IsProcPollingNoise
  <1>6. IsDevelopmentGitNoise(doc) =>
          \E a \in {doc.args, doc.command_line} :
              a \in GitQueries \cup RevParseQueries \/ IsPrefix(<<"git", "for-each-ref">>, a)
    BY Zenon DEF IsDevelopmentGitNoise, IsStrictPrefix
  <1>7. IsProcessInventoryNoise(doc) =>
          \E a \in {doc.args, doc.command_line} : a \in InventoryArgs \cup InventoryCommands
    BY Zenon DEF IsProcessInventoryNoise
  <1>8. IsKnownSleepPollingNoise(doc) => \E a \in {doc.args, doc.command_line} : a = <<"sleep", "1">>
    BY Zenon DEF IsKnownSleepPollingNoise, Executes
  <1>9. \/ IsShellStartupNoise(doc) \/ IsDevelopmentGitNoise(doc) \/ IsProcPollingNoise(doc)
        \/ IsProcessInventoryNoise(doc) \/ IsKnownSleepPollingNoise(doc)
    BY <1>1, <1>2, Zenon DEF IsNoise
  <1> QED
    BY <1>3, <1>5, <1>6, <1>7, <1>8, <1>9, Zenon DEF Executes, Listed

\* Without a token, a document whose arguments extend a listed command is let through.
LEMMA ExtendedIsNotNoise ==
    ASSUME NEW doc, NEW x \in Listed, Outgrows(x, doc.args), Outgrows(x, doc.command_line), ~ HasToken(doc)
    PROVE  ~ IsNoise(doc)
  <1>1. ListedShape(x)
    BY ListedWords
  <1>2. ASSUME NEW a, Outgrows(x, a)
        PROVE  /\ a \notin Listed \cup InventoryCommands
               /\ a # <<"sleep", "1">>
               /\ ~ IsPrefix(<<"git", "for-each-ref">>, a)
               /\ Len(a) # 2
    <2>1. ~ ListedShape(a) /\ Len(a) # 2 /\ ~ (a[1] = "git" /\ a[2] = "for-each-ref")
      BY <1>1, <1>2, ExtendedWords
    <2>2. a \notin Listed \cup InventoryCommands
      BY <2>1, ListedWords, InventoryWords
    <2>3. a # <<"sleep", "1">>
      BY <2>1, TwoWords
    <2>4. ~ IsPrefix(<<"git", "for-each-ref">>, a)
      BY <2>1 DEF IsPrefix
    <2> QED
      BY <2>1, <2>2, <2>3, <2>4
  <1> QED
    BY <1>2, NoiseWithoutToken

\* FlattenSeq is the last of what its sequences, joined one after the other, come to.
LEMMA FlattenJoins ==
    ASSUME NEW S, NEW q \in Seq(Seq(S)), Len(q) # 0
    PROVE  \E h \in [1..Len(q) -> Seq(S)] : Joins(h, q, Len(q)) /\ FlattenSeq(q) = h[Len(q)]
  <1> DEFINE n == Len(q)
             D == 1..n
             V == [i \in D |-> Seq(S)]
             W == [D -> Seq(S)]
             mu == [i \in D |-> i]
             F == [g \in W |-> [i \in D |-> IF i = 1 THEN q[i] ELSE Cat(g[i - 1], q[i])]]
  <1>1. n \in Nat /\ \A i \in D : q[i] \in Seq(S)
    BY LenProperties
  <1>2. \A u, w \in Seq(S) : Cat(u, w) \in Seq(S)
    BY CatIn
  <1>3. \A i \in D : i # 1 => i - 1 \in D /\ i - 1 < i
    BY <1>1
  <1>4. IsRecursion(D, V, mu, W, F)
    <2>1. mu \in [D -> Nat]
      BY <1>1
    <2>2. \A i \in D : V[i] # {}
      BY <1>1
    <2>3. \A g : g \in W <=> g = [i \in D |-> g[i]] /\ \A i \in D : g[i] \in V[i]
      <3> HIDE DEF D
      <3> QED
        OBVIOUS
    <2>4. \A g \in W : F[g] \in W
      <3>1. SUFFICES ASSUME NEW g \in W, NEW i \in D
                     PROVE  (IF i = 1 THEN q[i] ELSE Cat(g[i - 1], q[i])) \in Seq(S)
        <4> HIDE DEF D
        <4> QED
          OBVIOUS
      <3> HIDE DEF D
      <3>2. i # 1 => g[i - 1] \in Seq(S)
        BY <1>3, <3>1
      <3> QED
        BY <1>1, <1>2, <3>1, <3>2
    <2>5. \A g, h \in W, i \in D : (\A j \in D : mu[j] < mu[i] => g[j] = h[j]) => F[g][i] = F[h][i]
      <3>1. SUFFICES ASSUME NEW g \in W, NEW h \in W, NEW i \in D, \A j \in D : mu[j] < mu[i] => g[j] = h[j]
                     PROVE  F[g][i] = F[h][i]
        BY Zenon
      <3> HIDE DEF D
      <3>2. i # 1 => g[i - 1] = h[i - 1]
        BY <1>3, <3>1
      <3> QED
        BY <3>2
    <2> HIDE DEF D, V, W, mu, F
    <2> QED
      BY <2>1, <2>2, <2>3, <2>4, <2>5 DEF IsRecursion
  <1>5. PICK h \in W : h = F[h]
    <2> HIDE DEF D, V, W, mu, F
    <2> QED
      BY <1>4, RecursionExists
  <1>6. h = [i \in 1..Len(q) |-> IF i = 1 THEN q[i] ELSE Cat(h[i - 1], q[i])]
    BY <1>5
  <1>7. FlattenSeq(q) = h[Len(q)]
    BY <1>1, <1>6, FlattenUnfolds
  <1>8. Joins(h, q, Len(q))
    BY <1>6, Zenon DEF Joins
  <1> QED
    BY <1>5, <1>7, <1>8

\* The words of an argument that is not empty.
LEMMA WordsAre ==
    ASSUME NEW arg \in STRING
    PROVE  /\ WordsOf(arg) \in Seq(STRING)
           /\ arg # Null => Len(WordsOf(arg)) > 0
           /\ arg \notin DOMAIN Words \cup {Null} => WordsOf(arg) = <<arg>>
  <1>1. CASE arg = Null
    BY <1>1 DEF WordsOf
  <1>2. CASE arg # Null /\ arg \in DOMAIN Words
    <2> DEFINE w == WordsOf(arg)
    <2>1. w = Words[arg] /\ Words[arg] \in Seq(STRING) /\ Words[arg] # <<>>
      BY <1>2, TextsAssumption DEF WordsOf
    <2> HIDE DEF w
    <2>2. w \in Seq(STRING) /\ w # <<>>
      BY <2>1
    <2>3. Len(w) > 0
      BY <2>2
    <2> QED
      BY <1>2, <2>2, <2>3 DEF w
  <1>3. CASE arg # Null /\ arg \notin DOMAIN Words
    <2> DEFINE w == <<arg>>
    <2>1. WordsOf(arg) = w
      BY <1>3 DEF WordsOf
    <2>2. w \in Seq(STRING) /\ Len(w) = 1
      BY OneToken
    <2> HIDE DEF w
    <2>3. WordsOf(arg) \in Seq(STRING) /\ Len(WordsOf(arg)) > 0
      BY <2>1, <2>2
    <2> QED
      BY <2>1, <2>3 DEF w
  <1> QED
    BY <1>1, <1>2, <1>3

\* Of m arguments that are not empty, the command line in /proc has at least as many words, and
\* begins with the first two when those are words.
LEMMA JoinOutgrows ==
    ASSUME NEW a \in Seq(STRING), NEW m \in Nat, 2 <= m, m <= Len(a),
           \A i \in 1..m : a[i] # Null, a[1] \notin DOMAIN Words, a[2] \notin DOMAIN Words
    PROVE  /\ JoinCmdline(a) \in Seq(STRING) /\ Len(JoinCmdline(a)) >= m
           /\ JoinCmdline(a)[1] = a[1] /\ JoinCmdline(a)[2] = a[2]
  <1> DEFINE l == Len(a)
             q == [i \in DOMAIN a |-> WordsOf(a[i])]
  <1>1. l \in Nat /\ DOMAIN a = 1..l /\ \A i \in 1..l : a[i] \in STRING
    BY LenProperties
  <1>2. q \in Seq(Seq(STRING)) /\ Len(q) = l /\ \A i \in 1..l : q[i] = WordsOf(a[i])
    <2>1. \A i \in 1..l : WordsOf(a[i]) \in Seq(STRING)
      BY <1>1, WordsAre
    <2> QED
      BY <1>1, <2>1
  <1>3. JoinCmdline(a) = FlattenSeq(q)
    BY Zenon DEF JoinCmdline
  <1>4. \A i \in 1..l : q[i] \in Seq(STRING) /\ Len(q[i]) \in Nat
    BY <1>1, <1>2, LenProperties, WordsAre
  <1>5. \A i \in 1..m : Len(q[i]) > 0
    <2> HIDE DEF q
    <2>1. SUFFICES ASSUME NEW i \in 1..m PROVE Len(q[i]) > 0
      OBVIOUS
    <2>2. i \in 1..l /\ a[i] # Null
      BY <1>1
    <2> HIDE DEF l
    <2>3. a[i] \in STRING /\ q[i] = WordsOf(a[i])
      BY <1>1, <1>2, <2>2
    <2> QED
      BY <2>2, <2>3, WordsAre
  <1>6. q[1] = <<a[1]>> /\ q[2] = <<a[2]>>
    <2>1. 1 \in 1..l /\ 2 \in 1..l /\ 1 \in 1..m /\ 2 \in 1..m
      BY <1>1
    <2>2. a[1] \notin DOMAIN Words \cup {Null} /\ a[2] \notin DOMAIN Words \cup {Null}
      BY <2>1
    <2> QED
      BY <1>1, <1>2, <2>1, <2>2, WordsAre
  <1> HIDE DEF q, l
  <1>7. PICK h \in [1..l -> Seq(STRING)] : Joins(h, q, l) /\ FlattenSeq(q) = h[l]
    <2>1. Len(q) # 0 /\ Len(q) = l
      BY <1>1, <1>2 DEF l
    <2>2. \E h \in [1..Len(q) -> Seq(STRING)] : Joins(h, q, Len(q)) /\ FlattenSeq(q) = h[Len(q)]
      BY <1>2, <2>1, FlattenJoins
    <2> QED
      BY <2>1, <2>2, Zenon
  <1>8. h[1] = q[1] /\ \A i \in 1..l : i # 1 => h[i] = Cat(h[i - 1], q[i])
    BY <1>1, <1>7 DEF Joins, l
  <1> DEFINE Good(i) == /\ Len(h[i]) >= IF i < m THEN i ELSE m
                        /\ h[i][1] = a[1]
                        /\ i # 1 => h[i][2] = a[2]
             T == {i \in 1..l : ~ Good(i)}
  <1>9. Good(1)
    <2> DEFINE b == a[1]
    <2>1. h[1] = <<b>>
      BY <1>6, <1>8
    <2>2. Len(<<b>>) = 1 /\ <<b>>[1] = b
      OBVIOUS
    <2> HIDE DEF b
    <2>3. Len(h[1]) = 1 /\ h[1][1] = b
      BY <2>1, <2>2
    <2> QED
      BY <2>3 DEF b
  <1>10. ASSUME NEW i \in 1..l, i # 1, Good(i - 1) PROVE Good(i)
    <2> DEFINE u == h[i - 1]
               w == q[i]
               v == h[i]
    <2>1. i - 1 \in 1..l /\ i \in Nat /\ i > 1
      BY <1>1, <1>10
    <2>2. u \in Seq(STRING) /\ w \in Seq(STRING) /\ v = Cat(u, w)
      BY <1>4, <1>7, <1>8, <1>10, <2>1
    <2>3. Len(u) >= (IF i - 1 < m THEN i - 1 ELSE m) /\ u[1] = a[1] /\ (i - 1 # 1 => u[2] = a[2])
      BY <1>10
    <2>4. i <= m => Len(w) > 0
      BY <1>5, <2>1
    <2>5. i = 2 => w = <<a[2]>>
      BY <1>6
    <2>6. i = 2 => Len(u) = 1
      <3> DEFINE b == a[1]
      <3>1. i = 2 => u = h[1]
        OBVIOUS
      <3>2. h[1] = <<b>>
        BY <1>6, <1>8
      <3> HIDE DEF b, u
      <3> QED
        BY <3>1, <3>2
    <2> HIDE DEF u, w, v
    <2>7. Len(v) = Len(u) + Len(w) /\ Len(u) \in Nat /\ Len(w) \in Nat
      BY <2>2, CatIn, LenProperties
    <2>8. \A k \in 1..Len(u) : v[k] = u[k]
      BY <2>2, CatElements
    <2>9. \A k \in 1..Len(w) : v[Len(u) + k] = w[k]
      BY <2>2, CatElements
    <2>10. Len(v) >= IF i < m THEN i ELSE m
      BY <2>1, <2>3, <2>4, <2>7
    <2>11. v[1] = a[1]
      <3>1. 1 \in 1..Len(u)
        BY <2>1, <2>3, <2>7
      <3> QED
        BY <2>3, <2>8, <3>1
    <2>12. v[2] = a[2]
      <3>1. CASE i = 2
        <4> DEFINE b == a[2]
        <4>1. w = <<b>>
          BY <2>5, <3>1
        <4> HIDE DEF b
        <4>2. Len(w) = 1 /\ w[1] = b
          BY <4>1
        <4>3. v[Len(u) + 1] = w[1]
          <5>1. 1 \in 1..Len(w)
            BY <4>2
          <5> QED
            BY <2>9, <5>1
        <4>4. Len(u) + 1 = 2
          <5>1. Len(u) = 1
            BY <2>6, <3>1, Zenon
          <5> QED
            BY <5>1
        <4>5. v[2] = b
          BY <4>2, <4>3, <4>4, Zenon
        <4> QED
          BY <4>5 DEF b
      <3>2. CASE i # 2
        <4>1. 2 \in 1..Len(u) /\ i - 1 # 1
          BY <2>1, <2>3, <2>7, <3>2
        <4> QED
          BY <2>3, <2>8, <4>1
      <3> QED
        BY <3>1, <3>2
    <2> QED
      BY <2>10, <2>11, <2>12 DEF v
  <1>11. Good(l)
    <2>1. l \in 1..l
      BY <1>1 DEF l
    <2>2. SUFFICES ASSUME T # {} PROVE FALSE
      BY <2>1
    <2>3. T \subseteq Nat
      BY <1>1
    <2>4. PICK i \in T : \A j \in T : i <= j
      <3> HIDE DEF T
      <3> QED
        BY <2>2, <2>3, LeastNumber
    <2>5. i \in 1..l /\ ~ Good(i) /\ i # 1
      <3> HIDE DEF Good
      <3> QED
        BY <1>9, <2>4
    <2>6. i - 1 \in 1..l /\ i - 1 < i /\ i \in Nat
      BY <1>1, <2>5
    <2>7. Good(i - 1)
      <3> HIDE DEF Good
      <3>1. i - 1 \notin T
        <4> HIDE DEF T
        <4> QED
          BY <2>3, <2>4, <2>6
      <3> QED
        BY <2>6, <3>1
    <2> HIDE DEF Good
    <2> QED
      BY <1>10, <2>5, <2>7
  <1>12. l # 1 /\ ~ (l < m) /\ l \in 1..l
    BY <1>1 DEF l
  <1>13. h[l] \in Seq(STRING)
    BY <1>7, <1>12
  <1> QED
    BY <1>3, <1>7, <1>11, <1>12, <1>13

\* A listed command's first two words are words.
LEMMA ListedFirst ==
    ASSUME NEW x \in Listed
    PROVE  /\ Len(x) \in 2..4
           /\ x[1] \notin DOMAIN Words \cup DOMAIN Quoted \cup {Null}
           /\ x[2] \notin DOMAIN Words \cup DOMAIN Quoted \cup {Null}
  <1>1. Len(x) \in 2..4
    BY ListedWords DEF ListedShape
  <1>2. \A i \in {1, 2} : x[i] \notin DOMAIN Words \cup DOMAIN Quoted \cup {Null}
    BY TextsAssumption, Zenon
  <1> QED
    BY <1>1, <1>2

\* When a record shows that a listed command goes on, its arguments do.
LEMMA ArgsOutgrow ==
    ASSUME NEW command, command.argv \in Seq(STRING), command.beyond \in Seq(STRING),
           NEW x \in Listed, GoesOn(command, x)
    PROVE  /\ GetArgv(command) \in Seq(STRING) /\ Outgrows(x, GetArgv(command))
           /\ Outgrows(x, command.argv)
           /\ \A i \in 1..(Len(x) + 1) : command.argv[i] # Null
  <1> DEFINE a == command.argv
             l == Len(a)
             k == Len(x)
  <1>1. k \in 2..4 /\ l \in Nat /\ (\A i \in 1..l : a[i] \in STRING) /\ ArgvFields = 6
    BY ListedFirst, LenProperties DEF ArgvFields
  <1>2. l > k /\ \A i \in 1..k : a[i] = x[i]
    <2>1. x \in Seq({x[i] : i \in 1..Len(x)}) /\ IsStrictPrefix(x, a)
      BY ListedWords DEF ListedShape, OwnSeq, GoesOn
    <2> QED
      BY <2>1, PrefixExtends
  <1>3. \A i \in 1..(k + 1) : Recorded(command, i)
    BY DEF GoesOn
  <1>4. PICK n \in 0..l : /\ n <= ArgvFields
                          /\ GetArgv(command) = SubSeq(a, 1, n)
                          /\ (n < l /\ n < ArgvFields) => ~ Recorded(command, n + 1)
    BY ArgvIsOwn
  <1> DEFINE y == SubSeq(a, 1, n)
  <1> HIDE DEF l, k
  <1>5. n > k
    <2>1. n <= k => n < l /\ n < ArgvFields /\ n + 1 \in 1..(k + 1)
      BY <1>1, <1>2, <1>4
    <2> QED
      BY <1>1, <1>3, <1>4, <2>1
  <1>6. y \in Seq(STRING) /\ Len(y) = n /\ \A i \in 1..n : y[i] = a[i]
    <2>1. n \in Int /\ 1 \in Int /\ 1 <= n /\ \A i \in 1..n : a[i] \in STRING
      BY <1>1, <1>4, <1>5
    <2>2. /\ y \in Seq(STRING) /\ Len(y) = (IF 1 <= n THEN n - 1 + 1 ELSE 0)
          /\ \A i \in 1..(n - 1 + 1) : y[i] = a[1 + i - 1]
      BY <2>1, SubSeqProperties
    <2> HIDE DEF y
    <2> QED
      BY <2>1, <2>2
  <1> HIDE DEF y
  <1>7. 1 \in 1..k /\ 2 \in 1..k /\ 1 \in 1..n /\ 2 \in 1..n
    BY <1>1, <1>5
  <1>8. y[1] = x[1] /\ y[2] = x[2] /\ a[1] = x[1] /\ a[2] = x[2]
    BY <1>2, <1>6, <1>7
  <1>9. \A i \in 1..(k + 1) : a[i] # Null
    BY <1>3 DEF Recorded
  <1> QED
    BY <1>2, <1>4, <1>5, <1>6, <1>8, <1>9 DEF Outgrows, y, k, l

\* So does either command line.
LEMMA LinesOutgrow ==
    ASSUME NEW command, command.argv \in Seq(STRING), command.beyond \in Seq(STRING),
           NEW x \in Listed, GoesOn(command, x)
    PROVE  Outgrows(x, ShlexJoin(GetArgv(command))) /\ Outgrows(x, JoinCmdline(command.argv))
  <1> DEFINE a == command.argv
             y == GetArgv(command)
             z == ShlexJoin(y)
             k == Len(x)
  <1>1. /\ y \in Seq(STRING) /\ Outgrows(x, y) /\ Outgrows(x, a)
        /\ \A i \in 1..(k + 1) : a[i] # Null
    BY ArgsOutgrow
  <1>2. /\ k \in 2..4
        /\ x[1] \notin DOMAIN Words \cup DOMAIN Quoted \cup {Null}
        /\ x[2] \notin DOMAIN Words \cup DOMAIN Quoted \cup {Null}
    BY ListedFirst
  <1>3. Outgrows(x, z)
    <2> HIDE DEF y
    <2>1. DOMAIN y = 1..Len(y) /\ Len(y) \in Nat
      BY <1>1, LenProperties
    <2>2. z = [i \in DOMAIN y |-> IF y[i] \in DOMAIN Quoted THEN Quoted[y[i]] ELSE y[i]]
      BY Zenon DEF ShlexJoin
    <2> HIDE DEF z, k
    <2>3. Len(y) > k /\ y[1] = x[1] /\ y[2] = x[2]
      BY <1>1 DEF Outgrows, k
    <2>4. 1 \in DOMAIN y /\ 2 \in DOMAIN y
      BY <1>2, <2>1, <2>3
    <2>5. z[1] = x[1] /\ z[2] = x[2]
      BY <1>2, <2>2, <2>3, <2>4
    <2>6. Len(z) = Len(y)
      BY <2>1, <2>2
    <2> QED
      BY <2>3, <2>5, <2>6 DEF Outgrows, k
  <1>4. Outgrows(x, JoinCmdline(a))
    <2> DEFINE m == k + 1
               b == JoinCmdline(a)
    <2>1. a \in Seq(STRING) /\ Len(a) \in Nat
      BY LenProperties
    <2>2. Len(a) > k /\ a[1] = x[1] /\ a[2] = x[2]
      BY <1>1 DEF Outgrows
    <2> HIDE DEF a, k, b
    <2>3. m \in Nat /\ 2 <= m /\ m <= Len(a) /\ m > k
      BY <1>2, <2>1, <2>2
    <2>4. (\A i \in 1..m : a[i] # Null) /\ a[1] \notin DOMAIN Words /\ a[2] \notin DOMAIN Words
      BY <1>1, <1>2, <2>2
    <2> HIDE DEF m
    <2>5. b \in Seq(STRING) /\ Len(b) >= m /\ b[1] = a[1] /\ b[2] = a[2]
      BY <2>1, <2>3, <2>4, JoinOutgrows DEF b
    <2>6. Len(b) \in Nat
      BY <2>5, LenProperties
    <2>7. Len(b) > k
      BY <1>2, <2>3, <2>5, <2>6
    <2> QED
      BY <2>2, <2>5, <2>7 DEF Outgrows, b, k, a
  <1> QED
    BY <1>3, <1>4

\* A sequence that outgrows another is not empty.
LEMMA OutgrowsSomething ==
    ASSUME NEW x, Len(x) \in Nat, NEW a, Outgrows(x, a)
    PROVE  a # <<>>
  BY DEF Outgrows

\* Whatever the configuration and the rules, and whether or not /proc answers: a command whose
\* record shows that it goes on after a listed one is not dropped for being like it
\* (SystemNoiseFilter.evaluate, get_argv, ProcEnricher.enrich).
THEOREM NoiseAlwaysWhole == Spec => []NoiseIsWhole
  <1>1. HandledInv => NoiseIsWhole
    <2> DEFINE command == handled.command
               look == handled.look
               doc == ProcessDocument(command, look)
               args == GetArgv(command)
    <2>1. SUFFICES ASSUME HandledInv, Handled, handled.noise, NEW x \in Listed, GoesOn(command, x),
                          ~ HasToken(doc), look.cmdline \in {<<>>, command.argv}
                   PROVE  FALSE
      BY Zenon DEF NoiseIsWhole
    <2>2. command.argv \in Seq(STRING) /\ command.beyond \in Seq(STRING) /\ IsNoise(doc)
      BY <2>1, CommandsAssumption DEF HandledInv
    <2>3. /\ doc.args = args
          /\ doc.command_line = SetDefault(JoinCmdline(look.cmdline), <<>>,
                                           SetDefault(ShlexJoin(args), <<>>, <<Unknown>>))
      BY DEF ProcessDocument, ProcessEvent
    <2> HIDE DEF command, look, doc
    <2>4. Outgrows(x, args)
      BY <2>1, <2>2, ArgsOutgrow
    <2>5. Outgrows(x, ShlexJoin(args)) /\ Outgrows(x, JoinCmdline(command.argv))
      BY <2>1, <2>2, LinesOutgrow
    <2>6. ShlexJoin(args) # <<>>
      <3>1. Len(x) \in Nat
        BY ListedFirst
      <3> QED
        BY <2>5, <3>1, OutgrowsSomething
    <2> HIDE DEF args
    <2>7. doc.command_line \in {ShlexJoin(args), JoinCmdline(command.argv)}
      BY <2>1, <2>3, <2>6, JoinNothing, Zenon DEF SetDefault
    <2>8. Outgrows(x, doc.args) /\ Outgrows(x, doc.command_line)
      BY <2>3, <2>4, <2>5, <2>7, Zenon
    <2> QED
      BY <2>1, <2>2, <2>8, ExtendedIsNotNoise
  <1> QED
    BY <1>1, HandledInvHolds, PTL
=============================================================================
