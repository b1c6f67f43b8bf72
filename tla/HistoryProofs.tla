--------------------------- MODULE HistoryProofs ---------------------------
(***************************************************************************)
(* What a reload and a fetch make of a game is what the game had, and a    *)
(* Play is what the loop of FixPosition does, for every finite set of      *)
(* players, word length and number of guesses.                             *)
(*                                                                         *)
(* Resynced and Loop are recursive: FoldLeft walks the subsets of a        *)
(* sequence's domain, and Round counts swaps.  Of a recursive function one *)
(* has to show that it exists, by a witness, and what it is, by induction. *)
(* Induction comes from the well-foundedness of the natural numbers.       *)
(***************************************************************************)
EXTENDS History, GameProofs

LEMMA NatMin ==
  ASSUME NEW T, T \subseteq Nat, T # {}
  PROVE  \E x \in T : \A y \in T : x <= y
<1> DEFINE R == {ss \in Nat \X Nat : ss[1] < ss[2]}
<1>1. IsWellFoundedOn(R, Nat)
  <2>1. R = OpToRel(<, Nat)
    BY Zenon DEF OpToRel
  <2> QED
    BY <2>1, NatLessThanWellFounded, Zenon
<1>2. PICK x \in T : \A y \in T : ~ (<<y, x>> \in R)
  <2> HIDE DEF R
  <2> QED
    BY <1>1, WFMin, Zenon
<1>3. ASSUME NEW y, y \in T
      PROVE  x <= y
  <2>1. x \in Nat /\ y \in Nat
    BY <1>3
  <2>2. ~ (<<y, x>> \in R)
    BY <1>2, <1>3
  <2>3. ~ (y < x)
    BY <2>1, <2>2
  <2> QED
    BY <2>1, <2>3
<1> QED
  BY <1>3

(* Induction over a set of numbers.                                        *)
LEMMA Induction ==
  ASSUME NEW T, 0 \in T, \A n \in Nat : n \in T => n + 1 \in T
  PROVE  Nat \subseteq T
<1> SUFFICES ASSUME Nat \ T # {} PROVE FALSE
  OBVIOUS
<1>1. PICK x \in Nat \ T : \A y \in Nat \ T : x <= y
  BY NatMin
<1>2. x # 0 /\ x - 1 \in Nat
  BY <1>1
<1>3. x - 1 \in T
  BY <1>1, <1>2
<1> QED
  BY <1>1, <1>2, <1>3

LEMMA NatMax ==
  ASSUME NEW n \in Nat, NEW T, T \subseteq 1..n, T # {}
  PROVE  Max(T) \in T /\ \A y \in T : Max(T) >= y
<1> DEFINE U == {n - y : y \in T}
<1>1. U \subseteq Nat /\ U # {}
  <2>1. \A y \in T : n - y \in Nat
    OBVIOUS
  <2>2. \E y \in T : n - y \in U
    OBVIOUS
  <2> QED
    BY <2>1, <2>2
<1>2. PICK u \in U : \A z \in U : u <= z
  BY <1>1, NatMin
<1>3. PICK x \in T : u = n - x
  BY <1>2
<1>4. \A y \in T : n - x <= n - y
  BY <1>2, <1>3
<1>5. \A y \in T : x >= y
  BY <1>4
<1> QED
  BY <1>5 DEF Max

-----------------------------------------------------------------------------
(* g follows FoldLeft's recursion over the guesses s.                      *)
Walk(s, g) ==
  g = [t \in SUBSET DOMAIN s |->
         IF t = {} THEN NewSession
         ELSE AddGuess(g[t \ {Max(t)}], s[Max(t)])]

LEMMA ResyncedWalks ==
  \A s : Resynced(s) = (CHOOSE g : Walk(s, g))[DOMAIN s]
BY Zenon DEF Resynced, FoldLeft, MapThenFoldSet, Walk

(* The last number of a set of numbers up to n + 1.                        *)
LEMMA MaxNext ==
  ASSUME NEW n \in Nat, NEW t, t \subseteq 1..(n + 1)
  PROVE  /\ n + 1 \in t => Max(t) = n + 1
         /\ n + 1 \notin t => t \subseteq 1..n
<1>1. ASSUME n + 1 \in t
      PROVE  Max(t) = n + 1
  <2>1. n + 1 \in Nat /\ t # {}
    BY <1>1
  <2>2. Max(t) \in t /\ \A y \in t : Max(t) >= y
    BY <2>1, NatMax, Zenon
  <2>3. Max(t) >= n + 1 /\ Max(t) \in 1..(n + 1)
    BY <1>1, <2>2
  <2> QED
    BY <2>3
<1> QED
  BY <1>1

(* One guess more, and the walk goes on.                                   *)
LEMMA WalkExtends ==
  ASSUME NEW s \in Seq(Guess), NEW w \in Guess, NEW g, Walk(s, g)
  PROVE  \E h : Walk(Append(s, w), h)
<1> DEFINE n == Len(s)
           a == Append(s, w)
           h == [t \in SUBSET (1..(n + 1)) |->
                   IF n + 1 \in t THEN AddGuess(g[t \ {n + 1}], w) ELSE g[t]]
<1>1. n \in Nat /\ DOMAIN s = 1..n /\ DOMAIN a = 1..(n + 1)
  OBVIOUS
<1>2. a[n + 1] = w /\ \A k \in 1..n : a[k] = s[k]
  OBVIOUS
<1>3. ASSUME NEW t \in SUBSET (1..(n + 1))
      PROVE  h[t] = IF t = {} THEN NewSession ELSE AddGuess(h[t \ {Max(t)}], a[Max(t)])
  <2>1. CASE n + 1 \in t
    <3>1. Max(t) = n + 1
      BY <1>1, <2>1, MaxNext
    <3>2. h[t \ {n + 1}] = g[t \ {n + 1}]
      OBVIOUS
    <3> QED
      BY <1>2, <2>1, <3>1, <3>2
  <2>2. CASE n + 1 \notin t
    <3>1. t \subseteq 1..n
      BY <1>1, <2>2, MaxNext
    <3>2. h[t] = g[t]
      BY <2>2
    <3>3. g[t] = IF t = {} THEN NewSession ELSE AddGuess(g[t \ {Max(t)}], s[Max(t)])
      BY <1>1, <3>1 DEF Walk
    <3>4. ASSUME t # {}
          PROVE  /\ h[t \ {Max(t)}] = g[t \ {Max(t)}]
                 /\ a[Max(t)] = s[Max(t)]
      <4>1. Max(t) \in 1..n
        BY <1>1, <3>1, <3>4, NatMax
      <4> QED
        BY <1>2, <2>2, <4>1
    <3> QED
      BY <3>2, <3>3, <3>4
  <2> QED
    BY <2>1, <2>2
<1>4. h = [t \in SUBSET DOMAIN a |->
             IF t = {} THEN NewSession ELSE AddGuess(h[t \ {Max(t)}], a[Max(t)])]
  <2>1. DOMAIN h = SUBSET DOMAIN a
    BY <1>1
  <2> HIDE DEF a
  <2> QED
    BY <1>1, <1>3, <2>1
<1> QED
  BY <1>4 DEF Walk

LEMMA WalkExists ==
  ASSUME NEW s \in Seq(Guess)
  PROVE  \E g : Walk(s, g)
<1> DEFINE T == {n \in Nat : \A q \in Seq(Guess) : Len(q) = n => \E g : Walk(q, g)}
<1>1. 0 \in T
  <2>1. ASSUME NEW q \in Seq(Guess), Len(q) = 0
        PROVE  \E g : Walk(q, g)
    <3> DEFINE g == [t \in SUBSET DOMAIN q |-> NewSession]
    <3>1. DOMAIN q = {}
      BY <2>1
    <3>2. Walk(q, g)
      BY <3>1 DEF Walk
    <3> QED
      BY <3>2
  <2> QED
    BY <2>1
<1>2. ASSUME NEW n \in Nat, n \in T
      PROVE  n + 1 \in T
  <2>1. ASSUME NEW q \in Seq(Guess), Len(q) = n + 1
        PROVE  \E g : Walk(q, g)
    <3> DEFINE f == SubSeq(q, 1, n)
    <3>1. /\ f \in Seq(Guess) /\ Len(f) = n /\ q[n + 1] \in Guess
          /\ q = Append(f, q[n + 1])
      BY <2>1
    <3>2. \E g : Walk(f, g)
      BY <1>2, <3>1
    <3> HIDE DEF f
    <3> QED
      BY <3>1, <3>2, WalkExtends
  <2> QED
    BY <2>1
<1>3. Nat \subseteq T
  <2> HIDE DEF T
  <2> QED
    BY <1>1, <1>2, Induction
<1>4. Len(s) \in T
  BY <1>3
<1> QED
  BY <1>4

(* Two walks over the same guesses see the same sessions on their way.     *)
LEMMA WalksAgree ==
  ASSUME NEW s \in Seq(Guess), NEW w \in Guess,
         NEW g, Walk(s, g), NEW h, Walk(Append(s, w), h)
  PROVE  /\ g[DOMAIN s] = h[DOMAIN s]
         /\ h[DOMAIN Append(s, w)] = AddGuess(h[DOMAIN s], w)
<1> DEFINE n == Len(s)
           a == Append(s, w)
<1>1. n \in Nat /\ DOMAIN s = 1..n /\ DOMAIN a = 1..(n + 1)
  OBVIOUS
<1>2. a[n + 1] = w /\ \A k \in 1..n : a[k] = s[k]
  OBVIOUS
<1> HIDE DEF n, a
<1>3. /\ g[{}] = NewSession /\ h[{}] = NewSession
      /\ \A t : t \subseteq 1..n /\ t # {} =>
           g[t] = AddGuess(g[t \ {Max(t)}], s[Max(t)])
      /\ \A t : t \subseteq 1..(n + 1) /\ t # {} =>
           h[t] = AddGuess(h[t \ {Max(t)}], a[Max(t)])
  BY <1>1 DEF Walk, a
<1>4. ASSUME NEW m \in 0..n
      PROVE  /\ Max(1..(m + 1)) = m + 1
             /\ 1..(m + 1) # {} /\ 1..(m + 1) \subseteq 1..(n + 1)
             /\ (1..(m + 1)) \ {m + 1} = 1..m
  <2>1. m \in Nat /\ m + 1 \in 1..(m + 1)
    BY <1>1
  <2>2. Max(1..(m + 1)) = m + 1
    BY <2>1, MaxNext
  <2> QED
    BY <1>1, <2>1, <2>2
<1>5. ASSUME NEW m \in 0..n
      PROVE  /\ h[1..(m + 1)] = AddGuess(h[1..m], a[m + 1])
             /\ m < n => g[1..(m + 1)] = AddGuess(g[1..m], s[m + 1])
  <2>1. PICK X : X = 1..(m + 1)
    OBVIOUS
  <2>2. Max(X) = m + 1 /\ X \ {Max(X)} = 1..m
    BY <1>4, <2>1
  <2>3. h[X] = AddGuess(h[X \ {Max(X)}], a[Max(X)])
    BY <1>3, <1>4, <2>1
  <2>4. ASSUME m < n
        PROVE  g[X] = AddGuess(g[X \ {Max(X)}], s[Max(X)])
    <3>1. 1..(m + 1) \subseteq 1..n
      BY <1>1, <2>4
    <3> QED
      BY <1>3, <1>4, <2>1, <3>1
  <2> QED
    BY <2>1, <2>2, <2>3, <2>4
<1> DEFINE T == {m \in Nat : m <= n => g[1..m] = h[1..m]}
<1>6. 0 \in T
  <2>1. 1..0 = {}
    OBVIOUS
  <2> QED
    BY <1>3, <2>1
<1>7. ASSUME NEW m \in Nat, m \in T
      PROVE  m + 1 \in T
  <2>1. ASSUME m + 1 <= n
        PROVE  g[1..(m + 1)] = h[1..(m + 1)]
    <3>1. m \in 0..n /\ 1..(m + 1) \subseteq 1..n
      BY <1>1, <2>1
    <3>2. g[1..(m + 1)] = AddGuess(g[1..m], s[m + 1])
      BY <1>1, <1>5, <2>1, <3>1
    <3>3. h[1..(m + 1)] = AddGuess(h[1..m], a[m + 1])
      BY <1>5, <3>1
    <3>4. g[1..m] = h[1..m] /\ a[m + 1] = s[m + 1]
      BY <1>1, <1>2, <1>7, <2>1
    <3> QED
      BY <3>2, <3>3, <3>4
  <2> QED
    BY <2>1
<1>8. Nat \subseteq T
  <2> HIDE DEF T
  <2> QED
    BY <1>6, <1>7, Induction
<1>9. g[1..n] = h[1..n]
  BY <1>1, <1>8
<1>10. h[1..(n + 1)] = AddGuess(h[1..n], w)
  <2>1. n \in 0..n
    BY <1>1
  <2> QED
    BY <1>2, <1>5, <2>1
<1> QED
  BY <1>1, <1>9, <1>10 DEF a

(* Session.Resync of a guess more is play of that guess.                   *)
LEMMA ResyncedEmpty == Resynced(<<>>) = NewSession
<1>1. PICK g : Walk(<<>>, g)
  <2>1. <<>> \in Seq(Guess)
    OBVIOUS
  <2> QED
    BY <2>1, WalkExists, Zenon
<1>2. Walk(<<>>, CHOOSE h : Walk(<<>>, h))
  BY <1>1, Zenon
<1>3. DOMAIN <<>> = {}
  OBVIOUS
<1>4. \A h : Walk(<<>>, h) => h[{}] = NewSession
  BY <1>3 DEF Walk
<1>5. Resynced(<<>>) = (CHOOSE h : Walk(<<>>, h))[{}]
  BY <1>3, ResyncedWalks
<1> QED
  BY <1>2, <1>4, <1>5, Zenon

LEMMA ResyncedAppend ==
  ASSUME NEW s \in Seq(Guess), NEW w \in Guess
  PROVE  Resynced(Append(s, w)) = AddGuess(Resynced(s), w)
<1> DEFINE g == CHOOSE x : Walk(s, x)
           h == CHOOSE x : Walk(Append(s, w), x)
<1>1. Walk(s, g)
  BY WalkExists, Zenon
<1>2. Append(s, w) \in Seq(Guess)
  OBVIOUS
<1>3. Walk(Append(s, w), h)
  BY <1>2, WalkExists, Zenon
<1>4. Resynced(s) = g[DOMAIN s] /\ Resynced(Append(s, w)) = h[DOMAIN Append(s, w)]
  BY ResyncedWalks, Zenon
<1> HIDE DEF g, h
<1> QED
  BY <1>1, <1>3, <1>4, WalksAgree

-----------------------------------------------------------------------------
(* Playing the guesses of a session again gives the session.               *)
Unfolds == \A p \in joined : Resynced(sessions[p].guesses) = sessions[p]

(* A best guess was played before now.                                     *)
BestInPast == \A p \in joined : sessions[p].best.at < now

(* No two players made their best guesses at one moment.                   *)
BestApart ==
  \A p, q \in joined :
    p # q /\ sessions[p].best # NoGuess
      => sessions[p].best.at # sessions[q].best.at

(* The inductive invariant of Game, and what the stores rely on.           *)
HistoryInv == IInv /\ Unfolds /\ BestInPast /\ BestApart

LEMMA InitHistory == Init => HistoryInv
<1> SUFFICES ASSUME Init PROVE HistoryInv
  OBVIOUS
<1>1. joined = {}
  BY DEF Init, joined
<1> QED
  BY <1>1, InitInv DEF HistoryInv, Unfolds, BestInPast, BestApart

LEMMA JoinHistory ==
  ASSUME HistoryInv, NEW p \in Players, Join(p)
  PROVE  Unfolds' /\ BestInPast' /\ BestApart'
<1>1. /\ joined' = joined \cup {p} /\ now' = now
      /\ \A q \in joined' : sessions'[q] = IF q \in joined THEN sessions[q]
                                           ELSE NewSession
  BY DEF Join, SessionsWith, joined
<1>2. Unfolds'
  <2>1. ASSUME NEW q, q \in joined'
        PROVE  Resynced(sessions'[q].guesses) = sessions'[q]
    <3>1. CASE q \in joined
      BY <1>1, <2>1, <3>1 DEF HistoryInv, Unfolds
    <3>2. CASE q \notin joined
      <4>1. NewSession.guesses = <<>>
        BY DEF NewSession
      <4> QED
        BY <1>1, <2>1, <3>2, <4>1, ResyncedEmpty
    <3> QED
      BY <3>1, <3>2
  <2> QED
    BY <2>1 DEF Unfolds
<1>3. NewSession.best = NoGuess /\ NoGuess.at = 0
  BY DEF NewSession, NoGuess
<1>4. \A q \in joined : sessions[q].best # NoGuess => sessions[q].best.at \in Nat \ {0}
  BY DEF HistoryInv, IInv, TypeOK, Session, Guess
<1>5. now \in Nat \ {0}
  BY DEF HistoryInv, IInv, TypeOK
<1>6. BestInPast'
  BY <1>1, <1>3, <1>5 DEF HistoryInv, BestInPast
<1>7. BestApart'
  BY <1>1, <1>3, <1>4 DEF HistoryInv, BestApart
<1> QED
  BY <1>2, <1>6, <1>7

LEMMA PlayHistory ==
  ASSUME HistoryInv, NEW p \in Players, NEW score \in Scores, Play(p, score)
  PROVE  Unfolds' /\ BestInPast' /\ BestApart'
<1> DEFINE w == NewGuess(score, now)
<1>1. /\ p \in joined /\ joined' = joined /\ w \in Guess
      /\ sessions[p] \in Session
      /\ sessions'[p] = AddGuess(sessions[p], w)
      /\ \A q \in joined : q # p => sessions'[q] = sessions[q]
  BY PlaySession DEF HistoryInv
<1>2. now' = now + 1 /\ now \in Nat
  BY DEF Play, HistoryInv, IInv, TypeOK
<1>3. AddGuess(sessions[p], w).guesses = Append(sessions[p].guesses, w)
      /\ AddGuess(sessions[p], w).best \in {sessions[p].best, w}
      /\ w.at = now
  BY DEF AddGuess, NewGuess
<1> HIDE DEF w
<1>4. Unfolds'
  <2>1. Resynced(sessions'[p].guesses) = sessions'[p]
    <3>1. sessions[p].guesses \in Seq(Guess)
      BY <1>1 DEF Session
    <3>2. Resynced(sessions[p].guesses) = sessions[p]
      BY <1>1 DEF HistoryInv, Unfolds
    <3> QED
      BY <1>1, <1>3, <3>1, <3>2, ResyncedAppend
  <2> QED
    BY <1>1, <2>1 DEF HistoryInv, Unfolds
<1>5. \A q \in joined : sessions[q].best.at \in Nat /\ sessions[q].best.at < now
  <2>1. \A q \in joined : sessions[q].best.at \in Nat
    BY DEF HistoryInv, IInv, TypeOK, Session, Guess, NoGuess
  <2> QED
    BY <2>1 DEF HistoryInv, BestInPast
<1>6. BestInPast'
  BY <1>1, <1>2, <1>3, <1>5 DEF BestInPast
<1>7. BestApart'
  BY <1>1, <1>3, <1>5 DEF HistoryInv, BestApart
<1> QED
  BY <1>4, <1>6, <1>7

LEMMA NextHistory == HistoryInv /\ [Next]_vars => HistoryInv'
<1> SUFFICES ASSUME HistoryInv, [Next]_vars PROVE HistoryInv'
  OBVIOUS
<1>1. IInv'
  BY NextInv DEF HistoryInv
<1>2. CASE UNCHANGED <<sessions, now>>
  BY <1>1, <1>2 DEF HistoryInv, Unfolds, BestInPast, BestApart, joined
<1>3. CASE \E p \in Players : Join(p)
  BY <1>1, <1>3, JoinHistory DEF HistoryInv
<1>4. CASE \E p \in Players, score \in Scores : Play(p, score)
  BY <1>1, <1>4, PlayHistory DEF HistoryInv
<1>5. \/ UNCHANGED <<sessions, now>>
      \/ \E p \in Players : Join(p)
      \/ \E p \in Players, score \in Scores : Play(p, score)
  BY DEF Next, Admit, Start, Started, Close, GoDeaf, vars
<1> QED
  BY <1>2, <1>3, <1>4, <1>5

(* Sessions can be played again, and best guesses have times of their own. *)
THEOREM HistoryInductive == Spec => []HistoryInv
BY InitHistory, NextHistory, PTL DEF Spec

-----------------------------------------------------------------------------
(* r has each of the players D once.                                       *)
Orders(r, D) ==
  /\ DOMAIN r = 1..Cardinality(D)
  /\ Range(r) = D
  /\ IsInjective(r)

(* best gives each of the players D a best guess of its own.               *)
BestsOf(best, D) ==
  /\ \A p \in D : best[p] \in Best
  /\ \A p, q \in D : p # q /\ best[p] # NoGuess => best[p].at # best[q].at

(* As many players stand in front as there are places.                     *)
LEMMA FrontCounts ==
  ASSUME NEW r, NEW m \in Nat, 1..m \subseteq DOMAIN r, IsInjective(r)
  PROVE  /\ IsFiniteSet({r[k] : k \in 1..m})
         /\ Cardinality({r[k] : k \in 1..m}) = m
<1> DEFINE F == {r[k] : k \in 1..m}
           f == [k \in 1..m |-> r[k]]
<1>1. f \in Bijection(1..m, F)
  <2>1. f \in [1..m -> F]
    OBVIOUS
  <2>2. IsInjective(f)
    BY DEF IsInjective
  <2>3. \A p \in F : \E k \in 1..m : f[k] = p
    OBVIOUS
  <2> QED
    BY <2>1, <2>2, <2>3 DEF Bijection, Injection, Surjection
<1>2. ExistsBijection(1..m, F)
  BY <1>1 DEF ExistsBijection
<1>3. IsFiniteSet(1..m) /\ Cardinality(1..m) = m
  BY FS_Interval
<1> HIDE DEF F
<1> QED
  BY <1>2, <1>3, FS_Bijection DEF F

(* What SetToSeqs gives, for a finite set.                                 *)
LEMMA SeqsOrder ==
  ASSUME NEW D, IsFiniteSet(D), NEW r, r \in SetToSeqs(D)
  PROVE  Orders(r, D)
<1> DEFINE n == Cardinality(D)
<1>1. n \in Nat
  BY FS_CardinalityType
<1>2. /\ r \in [1..n -> D]
      /\ \A i, j \in 1..n : i # j => r[i] # r[j]
  BY Zenon DEF SetToSeqs
<1> HIDE DEF n
<1>3. IsInjective(r) /\ DOMAIN r = 1..n
  BY <1>2 DEF IsInjective
<1>4. Cardinality({r[k] : k \in 1..n}) = n
  BY <1>1, <1>3, FrontCounts
<1>5. {r[k] : k \in 1..n} \subseteq D
  BY <1>2
<1>6. {r[k] : k \in 1..n} = D
  BY <1>4, <1>5, FS_Subset DEF n
<1>7. Range(r) = {r[k] : k \in 1..n}
  BY <1>3, Zenon DEF Range
<1> QED
  BY <1>3, <1>6, <1>7 DEF Orders, n

(* If nobody with some letter right is right below one it beats, then none *)
(* of them is anywhere below one it beats: whoever stands above it has     *)
(* some letter right as well.                                              *)
LEMMA AdjacentSorted ==
  ASSUME NEW r, NEW n \in Nat, DOMAIN r = 1..n, NEW best,
         \A k \in 1..n : best[r[k]] \in Best,
         \A k \in 1..n :
           k > 1 /\ Scored(best[r[k]]) => ~ GreaterThan(best[r[k]], best[r[k - 1]])
  PROVE  SortedByScore(r, best)
<1> SUFFICES ASSUME NEW m \in 1..n, Scored(best[r[m]])
             PROVE  \A k \in 1..n : k < m => ~ GreaterThan(best[r[m]], best[r[k]])
  BY DEF SortedByScore
<1> DEFINE T == {d \in Nat : d < m => /\ Scored(best[r[m - d]])
                                      /\ ~ GreaterThan(best[r[m]], best[r[m - d]])}
<1>1. 0 \in T
  <2>1. ~ GreaterThan(best[r[m]], best[r[m]])
    BY GreaterThanAsymmetric
  <2>2. m - 0 = m
    OBVIOUS
  <2> QED
    BY <2>1, <2>2
<1>2. ASSUME NEW d \in Nat, d \in T
      PROVE  d + 1 \in T
  <2>1. ASSUME d + 1 < m
        PROVE  /\ Scored(best[r[m - (d + 1)]])
               /\ ~ GreaterThan(best[r[m]], best[r[m - (d + 1)]])
    <3>1. /\ m - d \in 1..n /\ m - d > 1 /\ (m - d) - 1 = m - (d + 1)
          /\ m - (d + 1) \in 1..n
      BY <2>1
    <3>2. Scored(best[r[m - d]]) /\ ~ GreaterThan(best[r[m]], best[r[m - d]])
      BY <1>2, <2>1
    <3>3. ~ GreaterThan(best[r[m - d]], best[r[m - (d + 1)]])
      BY <3>1, <3>2
    <3>4. best[r[m]] \in Best /\ best[r[m - d]] \in Best /\ best[r[m - (d + 1)]] \in Best
      BY <3>1
    <3>5. ~ GreaterThan(best[r[m]], best[r[m - (d + 1)]])
      BY <3>2, <3>3, <3>4, ScoredNotBeatenChain
    <3>6. Scored(best[r[m - (d + 1)]])
      BY <3>2, <3>3, <3>4, GreaterThanAsymmetric, ScoredNotBeatenChain
    <3> QED
      BY <3>5, <3>6
  <2> QED
    BY <2>1
<1>3. Nat \subseteq T
  <2> HIDE DEF T
  <2> QED
    BY <1>1, <1>2, Induction
<1>4. ASSUME NEW k \in 1..n, k < m
      PROVE  ~ GreaterThan(best[r[m]], best[r[k]])
  <2>1. m - k \in Nat /\ m - k < m /\ m - (m - k) = k
    BY <1>4
  <2>2. m - k \in T
    BY <1>3, <2>1
  <2> QED
    BY <2>1, <2>2
<1> QED
  BY <1>4

(* With some letter right, one stands behind those that beat one's guess.  *)
LEMMA RankIsBeaters ==
  ASSUME NEW D, NEW r, Orders(r, D), Cardinality(D) \in Nat,
         NEW best, BestsOf(best, D), SortedByScore(r, best),
         NEW m \in DOMAIN r, Scored(best[r[m]])
  PROVE  Cardinality({q \in D : GreaterThan(best[q], best[r[m]])}) = m - 1
<1> DEFINE B == {q \in D : GreaterThan(best[q], best[r[m]])}
<1>1. /\ DOMAIN r = 1..Cardinality(D) /\ m \in Nat /\ m - 1 \in Nat
      /\ \A k \in DOMAIN r : k \in Nat \ {0} /\ r[k] \in D /\ best[r[k]] \in Best
  BY DEF Orders, BestsOf, Range
<1>2. ASSUME NEW k \in DOMAIN r, k < m
      PROVE  r[k] \in B
  <2>1. ~ GreaterThan(best[r[m]], best[r[k]])
    BY <1>2 DEF SortedByScore
  <2>2. r[k] # r[m]
    BY <1>1, <1>2 DEF Orders, IsInjective
  <2>3. best[r[m]].at # best[r[k]].at
    BY <1>1, <2>2 DEF BestsOf, Scored, ScoreOf, NoGuess
  <2>4. GreaterThan(best[r[k]], best[r[m]])
    BY <1>1, <2>1, <2>3, LengthAssumption
    DEF Best, Guess, NoGuess, GreaterThan, Scored, ScoreOf
  <2> QED
    BY <1>1, <2>4
<1>3. ASSUME NEW k \in DOMAIN r, ~ (k < m)
      PROVE  r[k] \notin B
  <2>1. CASE k = m
    BY <1>1, <2>1, GreaterThanAsymmetric
  <2>2. CASE m < k
    <3>1. ASSUME GreaterThan(best[r[k]], best[r[m]])
          PROVE  FALSE
      <4>1. Scored(best[r[k]])
        BY <1>1, <3>1, LengthAssumption
        DEF Best, Guess, NoGuess, GreaterThan, Scored, ScoreOf
      <4> QED
        BY <2>2, <3>1, <4>1 DEF SortedByScore
    <3> QED
      BY <3>1
  <2> QED
    BY <1>1, <1>3, <2>1, <2>2
<1>4. B = {r[k] : k \in 1..(m - 1)}
  <2>1. \A q \in D : \E k \in DOMAIN r : r[k] = q
    BY DEF Orders, Range
  <2>2. \A k \in DOMAIN r : k < m <=> k \in 1..(m - 1)
    BY <1>1
  <2>3. 1..(m - 1) \subseteq DOMAIN r
    BY <1>1
  <2>4. B \subseteq D
    OBVIOUS
  <2> HIDE DEF B
  <2> QED
    BY <1>2, <1>3, <2>1, <2>2, <2>3, <2>4
<1>5. 1..(m - 1) \subseteq DOMAIN r /\ IsInjective(r)
  BY <1>1 DEF Orders
<1> HIDE DEF B
<1>6. Cardinality(B) = m - 1
  BY <1>1, <1>4, <1>5, FrontCounts
<1> QED
  BY <1>6 DEF B

(* So two boards of the same players have the same ranks, as far as they   *)
(* have some letter right.                                                 *)
LEMMA SameRank ==
  ASSUME NEW D, Cardinality(D) \in Nat, NEW best, BestsOf(best, D),
         NEW r, Orders(r, D), SortedByScore(r, best),
         NEW s, Orders(s, D), SortedByScore(s, best),
         NEW m \in DOMAIN r, Scored(best[r[m]])
  PROVE  m \in DOMAIN s /\ s[m] = r[m]
<1>1. r[m] \in D
  BY DEF Orders, Range
<1>2. PICK k \in DOMAIN s : s[k] = r[m]
  BY <1>1 DEF Orders, Range
<1>3. Cardinality({q \in D : GreaterThan(best[q], best[r[m]])}) = m - 1
  BY RankIsBeaters
<1>4. Scored(best[s[k]])
  BY <1>2
<1>5. Cardinality({q \in D : GreaterThan(best[q], best[s[k]])}) = k - 1
  BY <1>4, RankIsBeaters
<1>6. m - 1 = k - 1 /\ m \in Nat /\ k \in Nat
  BY <1>2, <1>3, <1>5 DEF Orders
<1> QED
  BY <1>2, <1>6

(* The entries with some letter right depend on nothing else.              *)
LEMMA ScoringWithin ==
  ASSUME NEW D, Cardinality(D) \in Nat, NEW best, BestsOf(best, D),
         NEW r, Orders(r, D), SortedByScore(r, best),
         NEW s, Orders(s, D), SortedByScore(s, best),
         NEW sess, NEW sess2, NEW played, NEW played2,
         \A p \in D : /\ sess[p].best = best[p] /\ sess2[p].best = best[p]
                      /\ played[p] = played2[p]
  PROVE  Scoring(ToLeaderboard(r, sess, played))
           \subseteq Scoring(ToLeaderboard(s, sess2, played2))
<1> DEFINE a == ToLeaderboard(r, sess, played)
           b == ToLeaderboard(s, sess2, played2)
<1>1. ASSUME NEW e \in Scoring(a)
      PROVE  e \in Scoring(b)
  <2>1. e \in Range(a) /\ e.best # <<0, 0>>
    BY DEF Scoring
  <2>2. PICK k \in DOMAIN r : e = Summary(r, sess, played, k)
    BY <2>1 DEF Range, ToLeaderboard
  <2>3. r[k] \in D
    BY DEF Orders, Range
  <2>4. e = [username |-> r[k], rank |-> k - 1, best |-> ScoreOf(best[r[k]]),
             words_played |-> played[r[k]]]
    BY <2>2, <2>3 DEF Summary
  <2>5. Scored(best[r[k]])
    BY <2>1, <2>4 DEF Scored
  <2>6. k \in DOMAIN s /\ s[k] = r[k]
    BY <2>5, SameRank
  <2>7. b[k] = e
    BY <2>3, <2>4, <2>6 DEF ToLeaderboard, Summary
  <2>8. k \in DOMAIN b
    BY <2>6 DEF ToLeaderboard
  <2> HIDE DEF b
  <2>9. e \in Range(b)
    BY <2>7, <2>8 DEF Range
  <2> QED
    BY <2>1, <2>9 DEF Scoring
<1> QED
  BY <1>1

LEMMA SameScoring ==
  ASSUME NEW D, Cardinality(D) \in Nat, NEW best, BestsOf(best, D),
         NEW r, Orders(r, D), SortedByScore(r, best),
         NEW s, Orders(s, D), SortedByScore(s, best),
         NEW sess, NEW sess2, NEW played, NEW played2,
         \A p \in D : /\ sess[p].best = best[p] /\ sess2[p].best = best[p]
                      /\ played[p] = played2[p]
  PROVE  Scoring(ToLeaderboard(r, sess, played))
           = Scoring(ToLeaderboard(s, sess2, played2))
<1>1. Scoring(ToLeaderboard(r, sess, played))
        \subseteq Scoring(ToLeaderboard(s, sess2, played2))
  BY ScoringWithin
<1>2. \A p \in D : /\ sess2[p].best = best[p] /\ sess[p].best = best[p]
                   /\ played2[p] = played[p]
  OBVIOUS
<1>3. Scoring(ToLeaderboard(s, sess2, played2))
        \subseteq Scoring(ToLeaderboard(r, sess, played))
  BY <1>2, ScoringWithin
<1> QED
  BY <1>1, <1>3

(* What RankBoard.Resync leaves is such a board.                           *)
LEMMA SortedBoardOrders ==
  ASSUME NEW D, IsFiniteSet(D), NEW best, BestsOf(best, D),
         NEW sess, DOMAIN sess = D, \A p \in D : sess[p].best = best[p],
         NEW r, r \in SortedBoards(sess)
  PROVE  Orders(r, D) /\ SortedByScore(r, best)
<1>1. /\ r \in SetToSeqs(D)
      /\ \A k \in DOMAIN r :
           k > 1 /\ ScoreOf(sess[r[k]].best) # <<0, 0>> => ~ Better(sess, r[k], r[k - 1])
  BY Zenon DEF SortedBoards
<1>2. Orders(r, D)
  BY <1>1, SeqsOrder
<1>3. Cardinality(D) \in Nat
  BY FS_CardinalityType
<1>4. DOMAIN r = 1..Cardinality(D) /\ \A k \in DOMAIN r : r[k] \in D
  BY <1>2 DEF Orders, Range
<1>5. \A k \in 1..Cardinality(D) : best[r[k]] \in Best
  BY <1>4 DEF BestsOf
<1>6. ASSUME NEW k \in 1..Cardinality(D), k > 1, Scored(best[r[k]])
      PROVE  ~ GreaterThan(best[r[k]], best[r[k - 1]])
  <2>1. k \in DOMAIN r /\ k - 1 \in DOMAIN r
    BY <1>3, <1>4, <1>6
  <2> QED
    BY <1>1, <1>4, <1>6, <2>1 DEF Better, Scored
<1>7. SortedByScore(r, best)
  BY <1>3, <1>4, <1>5, <1>6, AdjacentSorted
<1> QED
  BY <1>2, <1>7

-----------------------------------------------------------------------------
(* The best guesses of those on the board.                                 *)
bests == [p \in Range(ranks) |-> sessions[p].best]

(* The board of the running game is one of them too.                       *)
LEMMA LiveOrders ==
  ASSUME HistoryInv
  PROVE  /\ IsFiniteSet(Range(ranks)) /\ Cardinality(Range(ranks)) \in Nat
         /\ Cardinality(Range(ranks)) = Len(ranks)
         /\ Orders(ranks, Range(ranks))
         /\ BestsOf(bests, Range(ranks))
         /\ collector = "away" => SortedByScore(ranks, bests)
         /\ Range(ranks) \subseteq joined
<1>1. /\ ranks \in Seq(Players) /\ Consistent(ranks, positions)
      /\ Range(ranks) \subseteq joined
  BY DEF HistoryInv, IInv, TypeOK, BoardConsistent, BoardJoined, Consistent
<1>2. Len(ranks) \in Nat /\ DOMAIN ranks = 1..Len(ranks)
  BY <1>1
<1>3. IsInjective(ranks)
  BY <1>1, ConsistentInjective DEF IsInjective
<1>4. IsFiniteSet(Range(ranks)) /\ Cardinality(Range(ranks)) = Len(ranks)
  <2>1. Range(ranks) = {ranks[k] : k \in 1..Len(ranks)}
    BY <1>2, Zenon DEF Range
  <2> QED
    BY <1>2, <1>3, <2>1, FrontCounts
<1>5. Orders(ranks, Range(ranks))
  BY <1>2, <1>3, <1>4 DEF Orders
<1>6. BestsOf(bests, Range(ranks))
  <2>1. \A p \in joined : sessions[p].best \in Best
    BY DEF HistoryInv, IInv, TypeOK, Session, Best
  <2> QED
    BY <1>1, <2>1 DEF HistoryInv, BestApart, BestsOf, bests
<1>7. collector = "away" => SortedByScore(ranks, bests)
  <2>1. \A k \in DOMAIN ranks : ranks[k] \in Range(ranks)
    BY DEF Range
  <2> QED
    BY <2>1
    DEF HistoryInv, IInv, BoardSortedByScore, SortedByScore, Better, Scored, bests
<1> QED
  BY <1>1, <1>2, <1>4, <1>5, <1>6, <1>7

(* A reload finds the sessions and the leaderboard of the running game.    *)
LEMMA ReloadKeeps == HistoryInv => ReloadKeepsBoard
<1> SUFFICES ASSUME HistoryInv, collector = "away"
             PROVE  /\ Reloaded = onBoard
                    /\ \A r \in SortedBoards(Reloaded) :
                         Scoring(ToLeaderboard(r, Reloaded, Played(Reloaded)))
                           = Scoring(liveBoard)
  BY DEF ReloadKeepsBoard
<1>1. Reloaded = onBoard
  BY LiveOrders DEF HistoryInv, Unfolds, Reloaded, onBoard
<1>2. /\ DOMAIN onBoard = Range(ranks)
      /\ \A p \in Range(ranks) : onBoard[p].best = bests[p]
  BY DEF onBoard, bests
<1>3. ASSUME NEW r, r \in SortedBoards(onBoard)
      PROVE  Scoring(ToLeaderboard(r, onBoard, Played(onBoard))) = Scoring(liveBoard)
  <2>1. Orders(r, Range(ranks)) /\ SortedByScore(r, bests)
    BY <1>2, <1>3, LiveOrders, SortedBoardOrders
  <2>2. Scoring(ToLeaderboard(r, onBoard, Played(onBoard)))
          = Scoring(ToLeaderboard(ranks, onBoard, Played(onBoard)))
    BY <1>2, <2>1, LiveOrders, SameScoring
  <2> QED
    BY <2>2 DEF liveBoard
<1> QED
  BY <1>1, <1>3

(* Whoever comes back after a reload finds what it left.                   *)
THEOREM ReloadCorrect == Spec => []ReloadKeepsBoard
BY ReloadKeeps, HistoryInductive, PTL

-----------------------------------------------------------------------------
(* A session made of the best guess alone has that best guess.             *)
LEMMA ResyncedOne ==
  ASSUME NEW w \in Guess
  PROVE  Resynced(<<w>>).best = w
<1>1. <<>> \in Seq(Guess) /\ <<w>> = Append(<<>>, w)
  OBVIOUS
<1>2. Resynced(<<w>>) = AddGuess(NewSession, w)
  BY <1>1, ResyncedEmpty, ResyncedAppend
<1> QED
  BY <1>2 DEF AddGuess, NewSession

(* Each row fills the entry of Ranks of its player.                        *)
LEMMA RowsFill == HistoryInv => RanksFilled(Rows)
<1> SUFFICES ASSUME HistoryInv, NEW k \in 1..Cardinality(DOMAIN Rows)
             PROVE  \E p \in DOMAIN Rows : Rows[p].rank = k - 1
  BY DEF RanksFilled
<1>1. DOMAIN Rows = Range(ranks)
  BY DEF Rows
<1>2. k \in DOMAIN ranks /\ k \in Nat
  BY <1>1, LiveOrders DEF Orders
<1>3. /\ ranks[k] \in Range(ranks)
      /\ positions[ranks[k]] = k - 1 /\ ranks[k] \in DOMAIN positions
  BY <1>2 DEF HistoryInv, IInv, BoardConsistent, Range
<1>4. Rows[ranks[k]].rank = k - 1
  BY <1>2, <1>3 DEF Rows, StartIndex
<1> QED
  BY <1>1, <1>3, <1>4

(* Of every player the answer has the best guess, and of the one that asks *)
(* its session.                                                            *)
LEMMA FetchedBest ==
  ASSUME HistoryInv, endedAt, collector = "away", NEW asker, NEW p, p \in Range(ranks)
  PROVE  /\ Fetched(Rows, asker, p).best = bests[p]
         /\ p = asker => Fetched(Rows, asker, p) = sessions[p]
<1>1. /\ Rows[p].played_words = sessions[p].guesses
      /\ Rows[p].best_guess = sessions[p].best
      /\ bests[p] = sessions[p].best
  BY DEF Rows, bests
<1>2. p \in joined /\ Resynced(sessions[p].guesses) = sessions[p]
  BY LiveOrders DEF HistoryInv, Unfolds
<1>3. CASE p = asker
  BY <1>1, <1>2, <1>3 DEF Fetched
<1>4. CASE p # asker
  <2>1. Ended(sessions[p])
    BY <1>2 DEF HistoryInv, IInv, EndsWithLastPlayer, endedPlayers
  <2>2. sessions[p].guesses # <<>>
    BY <2>1, MaxGuessesAssumption DEF Ended, Won
  <2>3. sessions[p].best \in Guess
    BY <1>2, <2>2 DEF HistoryInv, IInv, TypeOK, BestIsBest, Session, Range
  <2>4. Resynced(<<sessions[p].best>>).best = sessions[p].best
    BY <2>3, ResyncedOne
  <2> QED
    BY <1>1, <1>4, <2>4 DEF Fetched
<1> QED
  BY <1>3, <1>4

LEMMA FetchShows == HistoryInv => FetchShowsResults
<1> SUFFICES ASSUME HistoryInv, endedAt, collector = "away",
                    NEW asker, asker \in DOMAIN Rows,
                    NEW answer, answer \in Responses(Rows, asker)
             PROVE  /\ answer.guesses = sessions[asker].guesses
                    /\ Scoring(answer.performance) = Scoring(liveBoard)
  BY RowsFill DEF FetchShowsResults
<1> DEFINE sess == [p \in DOMAIN Rows |-> Fetched(Rows, asker, p)]
<1>1. PICK r \in SortedBoards(sess) :
        answer = [guesses |-> sess[asker].guesses,
                  performance |-> ToLeaderboard(r, sess, WordsCount(Rows))]
  BY DEF Responses
<1>2. DOMAIN Rows = Range(ranks) /\ DOMAIN sess = Range(ranks)
  BY DEF Rows
<1>3. /\ \A p \in Range(ranks) : sess[p].best = bests[p]
      /\ sess[asker] = sessions[asker]
  BY <1>2, FetchedBest
<1>4. \A p \in Range(ranks) :
        onBoard[p].best = bests[p] /\ WordsCount(Rows)[p] = Played(onBoard)[p]
  BY <1>2 DEF onBoard, bests, WordsCount, Played, Rows
<1> HIDE DEF sess
<1>5. Orders(r, Range(ranks)) /\ SortedByScore(r, bests)
  BY <1>2, <1>3, LiveOrders, SortedBoardOrders
<1>6. Scoring(ToLeaderboard(r, sess, WordsCount(Rows)))
        = Scoring(ToLeaderboard(ranks, onBoard, Played(onBoard)))
  BY <1>3, <1>4, <1>5, LiveOrders, SameScoring
<1> QED
  BY <1>1, <1>3, <1>6 DEF liveBoard

(* GET /room/{id} shows the ranks that the last broadcast showed.          *)
THEOREM FetchCorrect == Spec => []FetchShowsResults
BY FetchShows, HistoryInductive, PTL

-----------------------------------------------------------------------------
(* What one round of FixPosition's loop makes of b, the n-th of them.      *)
RoundFrom(b, n, i, sess) ==
  IF b.at = i - n + 1 /\ Better(sess, b.ranks[b.at], b.ranks[b.at - 1])
  THEN [ranks |-> [b.ranks EXCEPT ![b.at] = b.ranks[b.at - 1],
                                  ![b.at - 1] = b.ranks[b.at]],
        positions |-> [b.positions EXCEPT ![b.ranks[b.at]] = b.at - 2,
                                          ![b.ranks[b.at - 1]] = b.at - 1],
        at |-> b.at - 1]
  ELSE b

(* g follows the rounds from index i.                                      *)
Runs(g, r, pos, sess, i) ==
  g = [n \in 0..(i - 1) |->
         IF n = 0 THEN [ranks |-> r, positions |-> pos, at |-> i]
         ELSE RoundFrom(g[n - 1], n, i, sess)]

LEMMA LoopRuns ==
  \A r, pos, sess, p :
    Loop(r, pos, sess, p) =
      (CHOOSE g : Runs(g, r, pos, sess, StartIndex(pos, p)))[StartIndex(pos, p) - 1]
BY Zenon DEF Loop, Runs, RoundFrom

(* The board when the player at index i of r has come up to a.             *)
Reached(r, pos, i, a) ==
  [ranks |-> MovedUp(r, i, a),
   positions |-> Repositioned(pos, MovedUp(r, i, a), i, a),
   at |-> a]

(* At the start nobody has moved.                                          *)
LEMMA ReachedFirst ==
  ASSUME NEW P, NEW r \in Seq(P), NEW pos, pos \in [DOMAIN pos -> Nat],
         NEW i \in Nat \ {0}
  PROVE  Reached(r, pos, i, i) = [ranks |-> r, positions |-> pos, at |-> i]
<1>1. MovedUp(r, i, i) = r
  BY DEF MovedUp
<1>2. Repositioned(pos, r, i, i) = pos
  BY DEF Repositioned
<1> QED
  BY <1>1, <1>2 DEF Reached

(* A function with two values replaced.                                    *)
LEMMA TwoReplaced ==
  ASSUME NEW f, NEW x, NEW u, NEW y, NEW v, NEW k \in DOMAIN f
  PROVE  [f EXCEPT ![x] = u, ![y] = v][k] =
           IF k = y THEN v ELSE IF k = x THEN u ELSE f[k]
<1> DEFINE g == [f EXCEPT ![x] = u]
<1>1. DOMAIN g = DOMAIN f /\ g[k] = IF k = x THEN u ELSE f[k]
  OBVIOUS
<1> HIDE DEF g
<1>2. [g EXCEPT ![y] = v][k] = IF k = y THEN v ELSE g[k]
  BY <1>1
<1> QED
  BY <1>1, <1>2 DEF g

(* A swap takes the player from a to a - 1.                                *)
LEMMA RoundSwaps ==
  ASSUME NEW P, NEW r \in Seq(P), NEW pos, Consistent(r, pos),
         pos \in [DOMAIN pos -> Nat], NEW sess,
         NEW i \in DOMAIN r, NEW a \in 2..i, Better(sess, r[i], r[a - 1])
  PROVE  RoundFrom(Reached(r, pos, i, a), i - a + 1, i, sess)
           = Reached(r, pos, i, a - 1)
<1> DEFINE m == MovedUp(r, i, a)
           q == Repositioned(pos, m, i, a)
           m2 == MovedUp(r, i, a - 1)
           q2 == Repositioned(pos, m2, i, a - 1)
<1>1. /\ DOMAIN r = 1..Len(r) /\ Len(r) \in Nat /\ i \in Nat \ {0}
      /\ a \in Nat /\ a <= i /\ a - 1 \in 1..i /\ a \in 1..i /\ a \in DOMAIN r
      /\ a - 1 \in DOMAIN r /\ i - (i - a + 1) + 1 = a
  <2>1. DOMAIN r = 1..Len(r) /\ Len(r) \in Nat
    OBVIOUS
  <2>2. i \in Nat \ {0} /\ i <= Len(r)
    BY <2>1
  <2>3. a \in Nat /\ 2 <= a /\ a <= i
    BY <2>2
  <2> QED
    BY <2>1, <2>2, <2>3
<1>2. m[a] = r[i] /\ m[a - 1] = r[a - 1]
  BY <1>1 DEF MovedUp
<1>3. [m EXCEPT ![a] = m[a - 1], ![a - 1] = m[a]] = m2
  <2>1. /\ m = [k \in DOMAIN r |-> IF k = a /\ a < i THEN r[i]
                                   ELSE IF k \in (a + 1)..i THEN r[k - 1] ELSE r[k]]
        /\ m2 = [k \in DOMAIN r |-> IF k = a - 1 /\ a - 1 < i THEN r[i]
                                    ELSE IF k \in ((a - 1) + 1)..i THEN r[k - 1]
                                    ELSE r[k]]
    BY DEF MovedUp
  <2>2. ASSUME NEW k \in DOMAIN r
        PROVE  [m EXCEPT ![a] = r[a - 1], ![a - 1] = r[i]][k] = m2[k]
    <3>1. k \in DOMAIN m /\ k \in Nat
      BY <1>1, <2>1
    <3>2. [m EXCEPT ![a] = r[a - 1], ![a - 1] = r[i]][k] =
            IF k = a - 1 THEN r[i] ELSE IF k = a THEN r[a - 1] ELSE m[k]
      BY <3>1, TwoReplaced
    <3>3. m[k] = IF k = a /\ a < i THEN r[i]
                 ELSE IF k \in (a + 1)..i THEN r[k - 1] ELSE r[k]
      BY <2>1
    <3>4. m2[k] = IF k = a - 1 /\ a - 1 < i THEN r[i]
                  ELSE IF k \in ((a - 1) + 1)..i THEN r[k - 1] ELSE r[k]
      BY <2>1
    <3> HIDE DEF m, m2
    <3> QED
      BY <1>1, <3>1, <3>2, <3>3, <3>4
  <2>3. [m EXCEPT ![a] = r[a - 1], ![a - 1] = r[i]] = m2
    <3>1. DOMAIN m = DOMAIN r /\ DOMAIN m2 = DOMAIN r
      BY <2>1
    <3> QED
      BY <2>1, <2>2, <3>1
  <2> HIDE DEF m, m2
  <2> QED
    BY <1>2, <2>3
<1>4. r[i] # r[a - 1]
  BY <1>1, ConsistentInjective
<1>5. \A k \in DOMAIN r :
        q[r[k]] = IF k = i THEN a - 1 ELSE IF k \in a..(i - 1) THEN k ELSE k - 1
  BY <1>1, MovedUpPositions
<1>6. \A k \in DOMAIN r :
        q2[r[k]] = IF k = i THEN (a - 1) - 1
                   ELSE IF k \in (a - 1)..(i - 1) THEN k ELSE k - 1
  BY <1>1, MovedUpPositions
<1>7. DOMAIN q = Range(r) /\ DOMAIN q2 = Range(r)
      /\ q = [p \in Range(r) |-> q[p]] /\ q2 = [p \in Range(r) |-> q2[p]]
  BY DEF Repositioned, Consistent
<1> HIDE DEF m, m2, q, q2
<1>8. [q EXCEPT ![r[i]] = a - 2, ![r[a - 1]] = a - 1] = q2
  <2>1. ASSUME NEW p \in Range(r)
        PROVE  [q EXCEPT ![r[i]] = a - 2, ![r[a - 1]] = a - 1][p] = q2[p]
    <3>1. PICK k \in DOMAIN r : p = r[k]
      BY DEF Range
    <3>2. p = r[i] => k = i
      BY <3>1, ConsistentInjective
    <3>3. p = r[a - 1] => k = a - 1
      BY <1>1, <3>1, ConsistentInjective
    <3>4. k \in Nat
      BY <1>1
    <3> QED
      <4>1. [q EXCEPT ![r[i]] = a - 2, ![r[a - 1]] = a - 1][p] =
              IF p = r[a - 1] THEN a - 1 ELSE IF p = r[i] THEN a - 2 ELSE q[p]
        BY <1>7, TwoReplaced
      <4>2. q[p] = IF k = i THEN a - 1 ELSE IF k \in a..(i - 1) THEN k ELSE k - 1
        BY <1>5, <3>1
      <4>3. q2[p] = IF k = i THEN (a - 1) - 1
                    ELSE IF k \in (a - 1)..(i - 1) THEN k ELSE k - 1
        BY <1>6, <3>1
      <4> QED
        BY <1>1, <1>4, <3>1, <3>2, <3>3, <3>4, <4>1, <4>2, <4>3
  <2> QED
    BY <1>7, <2>1
<1>9. Reached(r, pos, i, a) = [ranks |-> m, positions |-> q, at |-> a]
      /\ Reached(r, pos, i, a - 1) = [ranks |-> m2, positions |-> q2, at |-> a - 1]
  BY DEF Reached, m, m2, q, q2
<1> DEFINE b == Reached(r, pos, i, a)
<1>10. /\ b.at = i - (i - a + 1) + 1 /\ b.ranks = m /\ b.positions = q
       /\ Better(sess, b.ranks[b.at], b.ranks[b.at - 1])
  BY <1>1, <1>2, <1>9 DEF Better
<1>11. RoundFrom(b, i - a + 1, i, sess) =
         [ranks |-> [m EXCEPT ![a] = m[a - 1], ![a - 1] = m[a]],
          positions |-> [q EXCEPT ![r[i]] = a - 2, ![r[a - 1]] = a - 1],
          at |-> a - 1]
  <2>1. b.at = a
    BY <1>9
  <2> HIDE DEF b
  <2> QED
    BY <1>2, <1>10, <2>1 DEF RoundFrom
<1> QED
  BY <1>3, <1>8, <1>9, <1>11

(* Where it does not beat the one above, the player stays.                 *)
LEMMA RoundStays ==
  ASSUME NEW r, NEW pos, NEW sess, NEW i \in Nat, NEW j \in 1..i,
         NEW P, r \in Seq(P), i \in DOMAIN r, NEW n \in 1..(i - 1), n > i - j,
         j > 1 => ~ Better(sess, r[i], r[j - 1])
  PROVE  RoundFrom(Reached(r, pos, i, j), n, i, sess) = Reached(r, pos, i, j)
<1> DEFINE b == Reached(r, pos, i, j)
<1>1. b.at = j /\ b.ranks = MovedUp(r, i, j)
  BY DEF Reached
<1> HIDE DEF b
<1>2. ASSUME b.at = i - n + 1
      PROVE  ~ Better(sess, b.ranks[b.at], b.ranks[b.at - 1])
  <2>1. DOMAIN r = 1..Len(r) /\ Len(r) \in Nat
    OBVIOUS
  <2>2. j > 1 /\ j \in DOMAIN r /\ j - 1 \in DOMAIN r
    BY <1>1, <1>2, <2>1
  <2>3. MovedUp(r, i, j)[j] = r[i] /\ MovedUp(r, i, j)[j - 1] = r[j - 1]
    BY <2>1, <2>2 DEF MovedUp
  <2> QED
    BY <1>1, <2>2, <2>3
<1> QED
  BY <1>2 DEF RoundFrom, b

(* The loop of FixPosition ends where LandsAt says.                        *)
LEMMA LoopLands ==
  ASSUME NEW P, NEW r \in Seq(P), NEW pos, Consistent(r, pos),
         pos \in [DOMAIN pos -> Nat], NEW sess,
         NEW i \in Nat \ {0}, NEW j \in 1..i, i > 1 => i \in DOMAIN r,
         LandsAt(r, sess, i, j)
  PROVE  (CHOOSE g : Runs(g, r, pos, sess, i))[i - 1] = Reached(r, pos, i, j)
<1> DEFINE at(n) == IF n <= i - j THEN i - n ELSE j
           g == [n \in 0..(i - 1) |-> Reached(r, pos, i, at(n))]
           first == [ranks |-> r, positions |-> pos, at |-> i]
<1>1. Reached(r, pos, i, at(0)) = first
  <2>1. at(0) = i
    OBVIOUS
  <2> HIDE DEF at
  <2> QED
    BY <2>1, ReachedFirst
<1>2. ASSUME NEW n \in 1..(i - 1)
      PROVE  RoundFrom(Reached(r, pos, i, at(n - 1)), n, i, sess)
               = Reached(r, pos, i, at(n))
  <2>1. i > 1 /\ i \in DOMAIN r /\ n \in Nat
    BY <1>2
  <2>2. CASE n <= i - j
    <3>1. /\ at(n - 1) = i - n + 1 /\ at(n) = (i - n + 1) - 1
          /\ i - n + 1 \in 2..i /\ (i - n + 1) - 1 \in j..(i - 1)
          /\ i - (i - n + 1) + 1 = n
      BY <2>1, <2>2
    <3>2. PICK a : a = i - n + 1
      OBVIOUS
    <3>3. Better(sess, r[i], r[a - 1])
      BY <3>1, <3>2 DEF LandsAt
    <3>4. a \in 2..i
      BY <3>1, <3>2
    <3>5. RoundFrom(Reached(r, pos, i, a), i - a + 1, i, sess)
            = Reached(r, pos, i, a - 1)
      BY <2>1, <3>3, <3>4, RoundSwaps
    <3>6. at(n - 1) = a /\ at(n) = a - 1 /\ i - a + 1 = n
      BY <3>1, <3>2
    <3> HIDE DEF at
    <3> QED
      BY <3>5, <3>6
  <2>3. CASE ~ (n <= i - j)
    <3>1. at(n - 1) = j /\ at(n) = j /\ n > i - j
      BY <2>1, <2>3
    <3>2. RoundFrom(Reached(r, pos, i, j), n, i, sess) = Reached(r, pos, i, j)
      BY <2>1, <3>1, RoundStays DEF LandsAt
    <3> HIDE DEF at
    <3> QED
      BY <3>1, <3>2
  <2> QED
    BY <2>2, <2>3
<1>3. at(i - 1) = j
  OBVIOUS
<1> HIDE DEF at, first
<1>4. Runs(g, r, pos, sess, i)
  <2>1. ASSUME NEW n \in 0..(i - 1)
        PROVE  g[n] = IF n = 0 THEN first ELSE RoundFrom(g[n - 1], n, i, sess)
    <3>1. CASE n = 0
      BY <1>1, <3>1
    <3>2. CASE n # 0
      <4>1. n \in 1..(i - 1) /\ n - 1 \in 0..(i - 1)
        BY <3>2
      <4> QED
        BY <1>2, <3>2, <4>1
    <3> QED
      BY <3>1, <3>2
  <2>2. g = [n \in 0..(i - 1) |->
               IF n = 0 THEN first ELSE RoundFrom(g[n - 1], n, i, sess)]
    BY <2>1
  <2> QED
    BY <2>2 DEF Runs, first
<1>5. ASSUME NEW h, Runs(h, r, pos, sess, i)
      PROVE  h[i - 1] = Reached(r, pos, i, j)
  <2>1. \A n \in 0..(i - 1) :
          h[n] = IF n = 0 THEN first ELSE RoundFrom(h[n - 1], n, i, sess)
    BY <1>5 DEF Runs, first
  <2> DEFINE T == {n \in Nat : n <= i - 1 => h[n] = Reached(r, pos, i, at(n))}
  <2>2. 0 \in T
    BY <1>1, <2>1
  <2>3. ASSUME NEW n \in Nat, n \in T
        PROVE  n + 1 \in T
    <3>1. ASSUME n + 1 <= i - 1
          PROVE  h[n + 1] = Reached(r, pos, i, at(n + 1))
      <4>1. /\ n + 1 \in 1..(i - 1) /\ n + 1 \in 0..(i - 1) /\ n + 1 # 0
            /\ (n + 1) - 1 = n /\ n <= i - 1
        BY <3>1
      <4>2. h[n] = Reached(r, pos, i, at(n))
        BY <2>3, <4>1
      <4>3. h[n + 1] = RoundFrom(h[n], n + 1, i, sess)
        BY <2>1, <4>1
      <4> QED
        BY <1>2, <4>1, <4>2, <4>3
    <3> QED
      BY <3>1
  <2>4. Nat \subseteq T
    <3> HIDE DEF T
    <3> QED
      BY <2>2, <2>3, Induction
  <2>5. i - 1 \in T
    BY <2>4
  <2> QED
    BY <1>3, <2>5
<1>6. Runs(CHOOSE h : Runs(h, r, pos, sess, i), r, pos, sess, i)
  BY <1>4, Zenon
<1> QED
  BY <1>5, <1>6, Zenon

(* What Play does to the board is what the loop arrives at.                *)
LEMMA PlayLoops ==
  ASSUME IInv, NEW p \in Players, NEW score \in Scores, Play(p, score)
  PROVE  /\ ranks' = Loop(ranks, positions, sessions', p).ranks
         /\ positions' = Loop(ranks, positions, sessions', p).positions
<1> DEFINE i == StartIndex(positions, p)
<1>1. PICK j \in 1..i : /\ LandsAt(ranks, sessions', i, j)
                        /\ ranks' = MovedUp(ranks, i, j)
                        /\ positions' = Repositioned(positions, ranks', i, j)
  BY DEF Play
<1>2. /\ ranks \in Seq(Players) /\ Consistent(ranks, positions)
      /\ positions \in [DOMAIN positions -> Nat]
  BY DEF IInv, TypeOK, BoardConsistent, Consistent
<1>3. i \in Nat \ {0} /\ (i > 1 => i \in DOMAIN ranks)
  <2>1. CASE p \in DOMAIN positions
    <3>1. PICK k \in DOMAIN ranks : ranks[k] = p
      BY <1>2, <2>1 DEF Consistent, Range
    <3>2. k \in Nat \ {0} /\ positions[p] = k - 1
      BY <1>2, <3>1 DEF Consistent
    <3>3. i = k
      BY <2>1, <3>2 DEF StartIndex
    <3> QED
      BY <3>1, <3>2, <3>3
  <2>2. CASE p \notin DOMAIN positions
    BY <2>2 DEF StartIndex
  <2> QED
    BY <2>1, <2>2
<1>4. PICK at : at = i
  OBVIOUS
<1>5. PICK sess : sess = sessions'
  OBVIOUS
<1>6. at \in Nat \ {0} /\ j \in 1..at /\ (at > 1 => at \in DOMAIN ranks)
      /\ LandsAt(ranks, sess, at, j)
  BY <1>1, <1>3, <1>4, <1>5
<1>7. (CHOOSE g : Runs(g, ranks, positions, sess, at))[at - 1]
        = Reached(ranks, positions, at, j)
  BY <1>2, <1>6, LoopLands
<1>8. Loop(ranks, positions, sess, p) = Reached(ranks, positions, at, j)
  BY <1>4, <1>7, LoopRuns
<1> HIDE DEF i
<1> QED
  BY <1>1, <1>4, <1>5, <1>8 DEF Reached

(* The closed form of FixPosition is its loop, in every game.              *)
THEOREM LoopCorrect == Spec => PlayRunsTheLoop
<1>1. ASSUME IInv, [Next]_vars, NEW p, p \in joined, sessions'[p] # sessions[p]
      PROVE  LET b == Loop(ranks, positions, sessions', p)
             IN ranks' = b.ranks /\ positions' = b.positions
  <2>1. CASE UNCHANGED sessions
    BY <1>1, <2>1
  <2>2. ASSUME NEW q \in Players, Join(q)
        PROVE  FALSE
    BY <1>1, <2>2 DEF Join, SessionsWith, joined
  <2>3. ASSUME NEW q \in Players, NEW score \in Scores, Play(q, score)
        PROVE  /\ ranks' = Loop(ranks, positions, sessions', p).ranks
               /\ positions' = Loop(ranks, positions, sessions', p).positions
    <3>1. p = q
      BY <1>1, <2>3, PlaySession
    <3>2. /\ ranks' = Loop(ranks, positions, sessions', q).ranks
          /\ positions' = Loop(ranks, positions, sessions', q).positions
      BY <1>1, <2>3, PlayLoops
    <3> QED
      BY <3>1, <3>2
  <2>4. \/ UNCHANGED sessions
        \/ \E q \in Players : Join(q)
        \/ \E q \in Players, score \in Scores : Play(q, score)
    BY <1>1 DEF Next, Admit, Start, Started, Close, GoDeaf, vars
  <2> QED
    BY <2>1, <2>2, <2>3, <2>4, <1>1
<1>2. IInv /\ [Next]_vars =>
        [\A p \in joined :
           sessions'[p] # sessions[p] =>
             LET b == Loop(ranks, positions, sessions', p)
             IN ranks' = b.ranks /\ positions' = b.positions]_vars
  BY <1>1
<1> QED
  BY <1>2, Inductive, PTL DEF Spec, PlayRunsTheLoop
=============================================================================
