--------------------------- MODULE HistoryProofs ----------------------------
(***************************************************************************)
(* The history of threads for any number of them: what a model request     *)
(* carries, over any forks, turns and messages, and what the projection    *)
(* makes of any events.                                                    *)
(*                                                                         *)
(* The contexts of threads are recursive: a fork inherits the context of   *)
(* its parent up to the fork point. Threads are numbered in the order of   *)
(* their creation, so that parents have smaller numbers than their forks,  *)
(* and a claim about every thread is shown by refuting the least           *)
(* exception; so are claims about every prefix of a log.  What is added to *)
(* make the properties of the projection inductive is that turns and       *)
(* children are filed under threads the projection has already seen.       *)
(***************************************************************************)
EXTENDS History, Integers, WellFoundedInduction, SequenceTheorems,
        FiniteSetTheorems, TLAPS

(* Nonempty sets of natural numbers have a least element. It takes the     *)
(* place of induction: a claim about every prefix or every thread is shown *)
(* by refuting the least exception.                                        *)
LEMMA LeastElement ==
  ASSUME NEW S, S \subseteq Nat, S # {}
  PROVE  \E n \in S : \A m \in S : n <= m
<1> DEFINE R == OpToRel(<, Nat)
<1>1. IsWellFoundedOn(R, Nat) BY NatLessThanWellFounded, Zenon
<1> HIDE DEF R
<1>2. \E x \in S : \A y \in S : ~ (<<y, x>> \in R)
  BY <1>1, WFMin
<1>3. PICK x \in S : \A y \in S : ~ (<<y, x>> \in R) BY <1>2
<1>4. ASSUME NEW y \in S PROVE x <= y
  <2>1. ~(<<y, x>> \in R) BY <1>3
  <2>2. y \in Nat /\ x \in Nat OBVIOUS
  <2>3. ~(y < x) BY <2>1, <2>2 DEF R, OpToRel
  <2> QED BY <2>2, <2>3
<1> QED BY <1>4

(* Kinds of entries of a log.                                              *)
Kinds == {"born", "archived", "user", "steer", "request", "call", "result",
          "unknown", "ended"}
Entry == [kind : Kinds, thread : Ids]
(* The kinds that open or answer a call, see Unresolved.                   *)
Outcomes == {"call", "result", "unknown"}
(* What a request shows of a conversation besides steering.                *)
Talk == Visible \ {"steer"}

(* Bounded sets of numbers have a greatest element.                        *)
LEMMA Greatest ==
  ASSUME NEW N \in Nat, NEW S, S \subseteq 1 .. N, S # {}
  PROVE  \E n \in S : \A m \in S : m <= n
<1> DEFINE D == {N - n : n \in S}
<1>0. PICK x \in S : TRUE OBVIOUS
<1>1. D \subseteq Nat /\ D # {}
  <2>1. N - x \in D BY <1>0
  <2>2. \A n \in S : n \in 1 .. N /\ N - n \in Nat OBVIOUS
  <2> QED BY <2>1, <2>2
<1> HIDE DEF D
<1>2. PICK d \in D : \A e \in D : d <= e BY <1>1, LeastElement
<1>3. PICK n \in S : d = N - n BY DEF D
<1>4. ASSUME NEW m \in S PROVE m <= n
  <2>1. N - m \in D BY DEF D
  <2> QED BY <1>2, <1>3, <2>1
<1> QED BY <1>4

(* Last when there is no such entry.                                       *)
LEMMA LastNone ==
  ASSUME NEW s \in Seq(Entry), NEW K, \A n \in 1 .. Len(s) : s[n].kind \notin K
  PROVE  Last(s, K) = "none"
<1>1. {n \in DOMAIN s : s[n].kind \in K} = {} OBVIOUS
<1> QED BY <1>1 DEF Last

(* Last when n is the place of the last such entry.                        *)
LEMMA LastAt ==
  ASSUME NEW s \in Seq(Entry), NEW K, NEW n \in 1 .. Len(s), s[n].kind \in K,
         \A m \in 1 .. Len(s) : m > n => s[m].kind \notin K
  PROVE  Last(s, K) = s[n].kind
<1> DEFINE P == {m \in DOMAIN s : s[m].kind \in K}
           c == CHOOSE m \in P : \A k \in P : k <= m
<1>1. n \in P /\ P \subseteq 1 .. Len(s) OBVIOUS
<1>2. \A k \in P : k <= n OBVIOUS
<1>3. c \in P /\ \A k \in P : k <= c BY <1>1, <1>2
<1>4. Last(s, K) = s[c].kind BY <1>1 DEF Last
<1>5. c = n BY <1>1, <1>2, <1>3
<1> QED BY <1>4, <1>5

(* There is none or there is a last one.                                   *)
LEMMA LastCases ==
  ASSUME NEW s \in Seq(Entry), NEW K
  PROVE  \/ \A n \in 1 .. Len(s) : s[n].kind \notin K
         \/ \E n \in 1 .. Len(s) :
              s[n].kind \in K /\ \A m \in 1 .. Len(s) : m > n => s[m].kind \notin K
<1> DEFINE P == {m \in 1 .. Len(s) : s[m].kind \in K}
<1>1. CASE P = {} BY <1>1
<1>2. CASE P # {}
  <2>1. P \subseteq 1 .. Len(s) /\ Len(s) \in Nat OBVIOUS
  <2> HIDE DEF P
  <2>2. PICK n \in P : \A m \in P : m <= n BY <1>2, <2>1, Greatest
  <2>3. \A m \in 1 .. Len(s) : m > n => m \notin P BY <2>1, <2>2
  <2> QED BY <2>1, <2>3 DEF P
<1> QED BY <1>1, <1>2

(* Last after one more entry.                                              *)
LEMMA LastAppend ==
  ASSUME NEW s \in Seq(Entry), NEW e \in Entry, NEW K
  PROVE  Last(Append(s, e), K) = IF e.kind \in K THEN e.kind ELSE Last(s, K)
<1> DEFINE a == Append(s, e)
<1>1. /\ a \in Seq(Entry) /\ Len(a) = Len(s) + 1 /\ a[Len(s) + 1] = e
      /\ \A n \in 1 .. Len(s) : a[n] = s[n]
  BY AppendProperties
<1>2. Len(s) \in Nat OBVIOUS
<1> HIDE DEF a
<1>3. CASE e.kind \in K
  <2>1. \A m \in 1 .. Len(a) : m > Len(s) + 1 => a[m].kind \notin K BY <1>1, <1>2
  <2>2. Last(a, K) = a[Len(s) + 1].kind BY <1>1, <1>2, <1>3, <2>1, LastAt
  <2> QED BY <1>1, <1>3, <2>2 DEF a
<1>4. CASE e.kind \notin K
  <2>1. CASE \A n \in 1 .. Len(s) : s[n].kind \notin K
    <3>1. \A n \in 1 .. Len(a) : a[n].kind \notin K BY <1>1, <1>2, <1>4, <2>1
    <3>2. Last(a, K) = "none" BY <1>1, <3>1, LastNone
    <3>3. Last(s, K) = "none" BY <2>1, LastNone
    <3> QED BY <1>4, <3>2, <3>3 DEF a
  <2>2. ASSUME NEW n \in 1 .. Len(s), s[n].kind \in K,
               \A m \in 1 .. Len(s) : m > n => s[m].kind \notin K
        PROVE  Last(a, K) = Last(s, K)
    <3>1. \A m \in 1 .. Len(a) : m > n => a[m].kind \notin K BY <1>1, <1>2, <1>4, <2>2
    <3>2. n \in 1 .. Len(a) /\ a[n] = s[n] BY <1>1, <1>2
    <3>3. Last(a, K) = a[n].kind BY <1>1, <2>2, <3>1, <3>2, LastAt
    <3>4. Last(s, K) = s[n].kind BY <2>2, LastAt
    <3> QED BY <3>2, <3>3, <3>4
  <2> QED BY <1>4, <2>1, <2>2, LastCases DEF a
<1> QED BY <1>3, <1>4

(* Last of a lineage.                                                      *)
LEMMA LastConcat ==
  ASSUME NEW a \in Seq(Entry), NEW b \in Seq(Entry), NEW K, "none" \notin K
  PROVE  Last(a \o b, K) = IF Last(b, K) \in K THEN Last(b, K) ELSE Last(a, K)
<1> DEFINE c == a \o b
<1>1. /\ c \in Seq(Entry) /\ Len(c) = Len(a) + Len(b)
      /\ \A i \in 1 .. Len(a) + Len(b) : c[i] = IF i <= Len(a) THEN a[i] ELSE b[i - Len(a)]
  BY ConcatProperties
<1>2. Len(a) \in Nat /\ Len(b) \in Nat OBVIOUS
<1> HIDE DEF c
<1>3. ASSUME NEW n \in 1 .. Len(b), b[n].kind \in K,
             \A m \in 1 .. Len(b) : m > n => b[m].kind \notin K
      PROVE  Last(c, K) = Last(b, K) /\ Last(b, K) \in K
  <2>1. Last(b, K) = b[n].kind BY <1>3, LastAt
  <2>2. n + Len(a) \in 1 .. Len(c) /\ c[n + Len(a)] = b[n] BY <1>1, <1>2
  <2>3. ASSUME NEW m \in 1 .. Len(c), m > n + Len(a) PROVE c[m].kind \notin K
    <3>1. m - Len(a) \in 1 .. Len(b) /\ m - Len(a) > n /\ c[m] = b[m - Len(a)]
      BY <1>1, <1>2, <2>3
    <3> QED BY <1>3, <3>1
  <2>4. Last(c, K) = c[n + Len(a)].kind BY <1>1, <1>3, <2>2, <2>3, LastAt
  <2> QED BY <1>3, <2>1, <2>2, <2>4
<1>4. ASSUME \A n \in 1 .. Len(b) : b[n].kind \notin K
      PROVE  Last(c, K) = Last(a, K) /\ Last(b, K) \notin K
  <2>1. Last(b, K) = "none" BY <1>4, LastNone
  <2>2. ASSUME NEW m \in 1 .. Len(c), m > Len(a) PROVE c[m].kind \notin K
    <3>1. m - Len(a) \in 1 .. Len(b) /\ c[m] = b[m - Len(a)] BY <1>1, <1>2, <2>2
    <3> QED BY <1>4, <3>1
  <2>3. \A m \in 1 .. Len(a) : m \in 1 .. Len(c) /\ c[m] = a[m] BY <1>1, <1>2
  <2>4. CASE \A n \in 1 .. Len(a) : a[n].kind \notin K
    <3>1. \A m \in 1 .. Len(c) : c[m].kind \notin K BY <1>2, <2>2, <2>3, <2>4
    <3>2. Last(c, K) = "none" BY <1>1, <3>1, LastNone
    <3> QED BY <2>1, <2>4, <3>2, LastNone
  <2>5. ASSUME NEW n \in 1 .. Len(a), a[n].kind \in K,
               \A m \in 1 .. Len(a) : m > n => a[m].kind \notin K
        PROVE  Last(c, K) = Last(a, K)
    <3>1. Last(a, K) = a[n].kind BY <2>5, LastAt
    <3>2. \A m \in 1 .. Len(c) : m > n => c[m].kind \notin K BY <1>2, <2>2, <2>3, <2>5
    <3>3. Last(c, K) = c[n].kind BY <1>1, <2>3, <2>5, <3>2, LastAt
    <3> QED BY <2>3, <3>1, <3>3
  <2>6. Last(c, K) = Last(a, K) BY <2>1, <2>4, <2>5, LastCases, LastNone
  <2> QED BY <2>1, <2>6
<1>5. Last(c, K) = IF Last(b, K) \in K THEN Last(b, K) ELSE Last(a, K)
  BY <1>3, <1>4, LastCases
<1> QED BY <1>5 DEF c

-----------------------------------------------------------------------------

(* f is the recursive function of Kept on the first N entries of s.        *)
Keeps(f, s, K, N) ==
  f = [n \in 0 .. N |->
         IF n = 0 THEN << >>
         ELSE IF s[n].kind \in K THEN Append(f[n - 1], s[n]) ELSE f[n - 1]]

(* There is such a function.                                               *)
LEMMA KeepsExists ==
  ASSUME NEW s, NEW K, NEW N \in Nat
  PROVE  \E f : Keeps(f, s, K, N)
<1> DEFINE T == {M \in Nat : ~ \E f : Keeps(f, s, K, M)}
<1> SUFFICES ASSUME T # {} PROVE FALSE OBVIOUS
<1> HIDE DEF T
<1>0. T \subseteq Nat BY DEF T
<1>1. PICK M \in T : \A m \in T : M <= m BY <1>0, LeastElement
<1>2. M \in Nat /\ ~ \E f : Keeps(f, s, K, M) BY DEF T
<1>3. CASE M = 0
  <2> DEFINE f == [n \in 0 .. 0 |-> << >>]
  <2>1. Keeps(f, s, K, 0) BY DEF Keeps
  <2> QED BY <1>2, <1>3, <2>1
<1>4. CASE M # 0
  <2>1. M - 1 \in Nat /\ M - 1 \notin T BY <1>1, <1>2, <1>4
  <2>2. PICK g : Keeps(g, s, K, M - 1) BY <2>1 DEF T
  <2> DEFINE f == [n \in 0 .. M |->
                     IF n = M
                     THEN IF s[M].kind \in K THEN Append(g[M - 1], s[M]) ELSE g[M - 1]
                     ELSE g[n]]
  <2>3. ASSUME NEW n \in 0 .. M
        PROVE  f[n] = IF n = 0 THEN << >>
                      ELSE IF s[n].kind \in K THEN Append(f[n - 1], s[n]) ELSE f[n - 1]
    <3>1. CASE n = M
      <4>1. f[n] = IF s[M].kind \in K THEN Append(g[M - 1], s[M]) ELSE g[M - 1] BY <3>1
      <4>2. f[n - 1] = g[M - 1] BY <1>2, <1>4, <3>1
      <4> QED BY <1>4, <3>1, <4>1, <4>2
    <3>2. CASE n # M
      <4>1. f[n] = g[n] /\ n \in 0 .. M - 1 BY <1>2, <3>2
      <4>2. g[n] = IF n = 0 THEN << >>
                   ELSE IF s[n].kind \in K THEN Append(g[n - 1], s[n]) ELSE g[n - 1]
        BY <2>2, <4>1 DEF Keeps
      <4>3. n # 0 => f[n - 1] = g[n - 1] BY <1>2, <3>2
      <4> QED BY <4>1, <4>2, <4>3
    <3> QED BY <3>1, <3>2
  <2>4. f = [n \in 0 .. M |-> f[n]] OBVIOUS
  <2> HIDE DEF f
  <2>5. Keeps(f, s, K, M) BY <2>3, <2>4 DEF Keeps
  <2> QED BY <1>2, <2>5
<1> QED BY <1>3, <1>4

(* Kept is its last value.                                                 *)
LEMMA KeptKeeps ==
  ASSUME NEW s, NEW K, Len(s) \in Nat
  PROVE  \E f : Keeps(f, s, K, Len(s)) /\ Kept(s, K) = f[Len(s)]
<1> DEFINE kept[n \in 0 .. Len(s)] ==
        IF n = 0 THEN << >>
        ELSE IF s[n].kind \in K THEN Append(kept[n - 1], s[n]) ELSE kept[n - 1]
<1>1. Kept(s, K) = kept[Len(s)] BY DEF Kept
<1>2. \E f : f = [n \in 0 .. Len(s) |->
        IF n = 0 THEN << >>
        ELSE IF s[n].kind \in K THEN Append(f[n - 1], s[n]) ELSE f[n - 1]]
  <2>1. \E f : Keeps(f, s, K, Len(s)) BY KeepsExists
  <2> QED BY <2>1 DEF Keeps
<1>3. kept = [n \in 0 .. Len(s) |->
        IF n = 0 THEN << >>
        ELSE IF s[n].kind \in K THEN Append(kept[n - 1], s[n]) ELSE kept[n - 1]]
  BY <1>2, Zenon DEF kept
<1> HIDE DEF kept
<1> QED BY <1>1, <1>3 DEF Keeps

(* Nothing is kept of nothing.                                             *)
LEMMA KeptEmpty == \A K : Kept(<< >>, K) = << >>
<1> SUFFICES ASSUME NEW K PROVE Kept(<< >>, K) = << >> OBVIOUS
<1>0. Len(<< >>) = 0 OBVIOUS
<1>1. PICK f : Keeps(f, << >>, K, 0) /\ Kept(<< >>, K) = f[0] BY <1>0, KeptKeeps
<1> QED BY <1>1 DEF Keeps

(* Kept after one more entry.                                              *)
LEMMA KeptAppend ==
  ASSUME NEW s \in Seq(Entry), NEW e \in Entry, NEW K
  PROVE  Kept(Append(s, e), K) = IF e.kind \in K THEN Append(Kept(s, K), e) ELSE Kept(s, K)
<1> DEFINE a == Append(s, e)
           N == Len(s)
<1>1. /\ N \in Nat /\ Len(a) = N + 1 /\ a[N + 1] = e /\ \A n \in 1 .. N : a[n] = s[n]
  BY AppendProperties
<1>2. PICK f : Keeps(f, s, K, N) /\ Kept(s, K) = f[N] BY <1>1, KeptKeeps
<1> HIDE DEF a, N
<1>3. PICK g : Keeps(g, a, K, N + 1) /\ Kept(a, K) = g[N + 1]
  <2>1. Len(a) \in Nat BY <1>1
  <2>2. \E g : Keeps(g, a, K, Len(a)) /\ Kept(a, K) = g[Len(a)] BY <2>1, KeptKeeps
  <2> QED BY <1>1, <2>2
<1>4. ASSUME NEW n \in 0 .. N PROVE f[n] = g[n]
  <2> DEFINE T == {m \in 0 .. N : f[m] # g[m]}
  <2> SUFFICES ASSUME T # {} PROVE FALSE OBVIOUS
  <2> HIDE DEF T
  <2>0. T \subseteq Nat BY <1>1 DEF T
  <2>1. PICK m \in T : \A i \in T : m <= i BY <2>0, LeastElement
  <2>2. m \in 0 .. N /\ f[m] # g[m] BY DEF T
  <2>3. /\ f[m] = IF m = 0 THEN << >>
                  ELSE IF s[m].kind \in K THEN Append(f[m - 1], s[m]) ELSE f[m - 1]
        /\ g[m] = IF m = 0 THEN << >>
                  ELSE IF a[m].kind \in K THEN Append(g[m - 1], a[m]) ELSE g[m - 1]
    <3>1. m \in 0 .. N + 1 BY <1>1, <2>2
    <3> QED BY <1>2, <1>3, <2>2, <3>1 DEF Keeps
  <2>4. m # 0 BY <2>2, <2>3
  <2>5. m - 1 \in 0 .. N /\ m - 1 \notin T BY <1>1, <2>1, <2>2, <2>4
  <2>6. f[m - 1] = g[m - 1] BY <2>5 DEF T
  <2>7. a[m] = s[m] BY <1>1, <2>2, <2>4
  <2> QED BY <2>2, <2>3, <2>4, <2>6, <2>7
<1>5. g[N + 1] = IF a[N + 1].kind \in K THEN Append(g[N], a[N + 1]) ELSE g[N]
  <2>1. N + 1 \in 0 .. N + 1 /\ N + 1 # 0 /\ (N + 1) - 1 = N BY <1>1
  <2> QED BY <1>3, <2>1 DEF Keeps
<1>6. f[N] = g[N] BY <1>1, <1>4
<1> QED BY <1>1, <1>2, <1>3, <1>5, <1>6 DEF a

(* A prefix is a shorter one with an entry.                                *)
LEMMA Prefixes ==
  ASSUME NEW s \in Seq(Entry), NEW n \in 1 .. Len(s)
  PROVE  /\ SubSeq(s, 1, n) = Append(SubSeq(s, 1, n - 1), s[n])
         /\ SubSeq(s, 1, n - 1) \in Seq(Entry) /\ s[n] \in Entry
         /\ SubSeq(s, 1, n) \in Seq(Entry) /\ Len(SubSeq(s, 1, n - 1)) = n - 1
<1>1. Len(s) \in Nat /\ s[n] \in Entry OBVIOUS
<1>2. SubSeq(s, 1, n - 1) \in Seq(Entry) /\ Len(SubSeq(s, 1, n - 1)) = n - 1
  BY <1>1, SubSeqProperties
<1>3. SubSeq(s, 1, n) = SubSeq(s, 1, n - 1) \o << s[n] >>
  <2>1. 1 \in 1 .. Len(s) /\ n \in 1 .. Len(s) BY <1>1
  <2> QED BY <1>1, <2>1, SubSeqRecursiveSecond
<1>4. SubSeq(s, 1, n) = Append(SubSeq(s, 1, n - 1), s[n])
  BY <1>1, <1>2, <1>3, AppendIsConcat
<1>5. SubSeq(s, 1, n) \in Seq(Entry) BY <1>1, <1>2, <1>4, AppendProperties
<1> QED BY <1>1, <1>2, <1>4, <1>5

(* Kept along the prefixes of a log.                                       *)
LEMMA KeptNext ==
  ASSUME NEW s \in Seq(Entry), NEW n \in 1 .. Len(s), NEW K
  PROVE  Kept(SubSeq(s, 1, n), K) =
           IF s[n].kind \in K THEN Append(Kept(SubSeq(s, 1, n - 1), K), s[n])
           ELSE Kept(SubSeq(s, 1, n - 1), K)
<1> DEFINE p == SubSeq(s, 1, n - 1)
           q == SubSeq(s, 1, n)
           e == s[n]
<1>1. q = Append(p, e) /\ p \in Seq(Entry) /\ e \in Entry BY Prefixes
<1> HIDE DEF p, q, e
<1>2. Kept(Append(p, e), K) = IF e.kind \in K THEN Append(Kept(p, K), e) ELSE Kept(p, K)
  BY <1>1, KeptAppend
<1>3. Kept(q, K) = IF e.kind \in K THEN Append(Kept(p, K), e) ELSE Kept(p, K)
  BY <1>1, <1>2, Zenon
<1> QED BY <1>3, Zenon DEF p, q, e

(* What is kept are entries.                                               *)
LEMMA KeptIsSeq ==
  ASSUME NEW s \in Seq(Entry), NEW K
  PROVE  Kept(s, K) \in Seq(Entry)
<1> DEFINE T == {n \in 0 .. Len(s) : Kept(SubSeq(s, 1, n), K) \notin Seq(Entry)}
<1>1. T = {}
  <2> SUFFICES ASSUME T # {} PROVE FALSE OBVIOUS
  <2> HIDE DEF T
  <2>0. T \subseteq Nat BY DEF T
  <2>1. PICK m \in T : \A i \in T : m <= i BY <2>0, LeastElement
  <2>2. m \in 0 .. Len(s) /\ Kept(SubSeq(s, 1, m), K) \notin Seq(Entry) BY DEF T
  <2>3. m # 0
    <3>1. SubSeq(s, 1, 0) = << >> BY SubSeqEmpty
    <3>2. Kept(SubSeq(s, 1, 0), K) = << >> BY <3>1, KeptEmpty, Zenon
    <3>3. << >> \in Seq(Entry) OBVIOUS
    <3> QED BY <2>2, <3>2, <3>3, Zenon
  <2>4. m - 1 \in 0 .. Len(s) /\ m - 1 \notin T BY <2>1, <2>2, <2>3
  <2>5. Kept(SubSeq(s, 1, m - 1), K) \in Seq(Entry) BY <2>4 DEF T
  <2>6. m \in 1 .. Len(s) BY <2>2, <2>3
  <2>7. Kept(SubSeq(s, 1, m), K) =
          IF s[m].kind \in K THEN Append(Kept(SubSeq(s, 1, m - 1), K), s[m])
          ELSE Kept(SubSeq(s, 1, m - 1), K)
    BY <2>6, KeptNext
  <2>8. s[m] \in Entry BY <2>6
  <2>9. Append(Kept(SubSeq(s, 1, m - 1), K), s[m]) \in Seq(Entry)
    BY <2>5, <2>8, AppendProperties
  <2> QED BY <2>2, <2>5, <2>7, <2>9, Zenon
<1>2. Len(s) \in 0 .. Len(s) /\ SubSeq(s, 1, Len(s)) = s BY SubSeqFull
<1> QED BY <1>1, <1>2

-----------------------------------------------------------------------------

(* An entry of kind k may follow when the last outcome is b.               *)
Follows(b, k) == /\ b = "call" => k \in {"result", "unknown"}
                 /\ b = "unknown" => k = "result"

(* A call is followed by its result, an unknown outcome by the reviewed    *)
(* one, before the conversation goes on.                                   *)
Tidy(s) ==
  \A n \in 1 .. Len(s) :
    s[n].kind \in Talk => Follows(Last(SubSeq(s, 1, n - 1), Outcomes), s[n].kind)

(* Entries of a prefix.                                                    *)
LEMMA PrefixOfSeq ==
  ASSUME NEW s \in Seq(Entry), NEW n \in 0 .. Len(s)
  PROVE  /\ SubSeq(s, 1, n) \in Seq(Entry) /\ Len(SubSeq(s, 1, n)) = n
         /\ \A i \in 1 .. n : SubSeq(s, 1, n)[i] = s[i]
<1>1. \A i \in 1 .. n : s[i] \in Entry OBVIOUS
<1> QED BY <1>1, SubSeqProperties

(* A prefix of a prefix.                                                   *)
LEMMA PrefixOfPrefix ==
  ASSUME NEW s \in Seq(Entry), NEW n \in 0 .. Len(s), NEW k \in 0 .. n
  PROVE  SubSeq(SubSeq(s, 1, n), 1, k) = SubSeq(s, 1, k)
<1> DEFINE p == SubSeq(s, 1, n)
<1>1. p \in Seq(Entry) /\ Len(p) = n /\ \A i \in 1 .. n : p[i] = s[i] BY PrefixOfSeq
<1> HIDE DEF p
<1>2. /\ SubSeq(p, 1, k) \in Seq(Entry) /\ Len(SubSeq(p, 1, k)) = k
      /\ \A i \in 1 .. k : SubSeq(p, 1, k)[i] = p[i]
  BY <1>1, PrefixOfSeq
<1>3. /\ SubSeq(s, 1, k) \in Seq(Entry) /\ Len(SubSeq(s, 1, k)) = k
      /\ \A i \in 1 .. k : SubSeq(s, 1, k)[i] = s[i]
  BY PrefixOfSeq
<1>4. \A i \in 1 .. k : SubSeq(p, 1, k)[i] = SubSeq(s, 1, k)[i] BY <1>1, <1>2, <1>3
<1>5. SubSeq(p, 1, k) = SubSeq(s, 1, k) BY <1>2, <1>3, <1>4, SeqEqual
<1> QED BY <1>5 DEF p

(* Prefixes before one more entry.                                         *)
LEMMA PrefixOfAppend ==
  ASSUME NEW s \in Seq(Entry), NEW e \in Entry, NEW k \in 0 .. Len(s)
  PROVE  SubSeq(Append(s, e), 1, k) = SubSeq(s, 1, k)
<1> DEFINE p == Append(s, e)
<1>1. p \in Seq(Entry) /\ Len(p) = Len(s) + 1 /\ \A i \in 1 .. Len(s) : p[i] = s[i]
  BY AppendProperties
<1>0. Len(s) \in Nat /\ k \in 0 .. Len(p) BY <1>1
<1> HIDE DEF p
<1>2. /\ SubSeq(p, 1, k) \in Seq(Entry) /\ Len(SubSeq(p, 1, k)) = k
      /\ \A i \in 1 .. k : SubSeq(p, 1, k)[i] = p[i]
  BY <1>0, <1>1, PrefixOfSeq
<1>3. /\ SubSeq(s, 1, k) \in Seq(Entry) /\ Len(SubSeq(s, 1, k)) = k
      /\ \A i \in 1 .. k : SubSeq(s, 1, k)[i] = s[i]
  BY PrefixOfSeq
<1>4. \A i \in 1 .. k : SubSeq(p, 1, k)[i] = SubSeq(s, 1, k)[i] BY <1>0, <1>1, <1>2, <1>3
<1>5. SubSeq(p, 1, k) = SubSeq(s, 1, k) BY <1>2, <1>3, <1>4, SeqEqual
<1> QED BY <1>5 DEF p

(* Prefixes of a concatenation.                                            *)
LEMMA PrefixOfConcat ==
  ASSUME NEW a \in Seq(Entry), NEW b \in Seq(Entry)
  PROVE  /\ \A k \in 0 .. Len(a) : SubSeq(a \o b, 1, k) = SubSeq(a, 1, k)
         /\ \A k \in 0 .. Len(b) : SubSeq(a \o b, 1, Len(a) + k) = a \o SubSeq(b, 1, k)
<1> DEFINE c == a \o b
<1>1. /\ c \in Seq(Entry) /\ Len(c) = Len(a) + Len(b)
      /\ \A i \in 1 .. Len(a) + Len(b) : c[i] = IF i <= Len(a) THEN a[i] ELSE b[i - Len(a)]
  BY ConcatProperties
<1>2. Len(a) \in Nat /\ Len(b) \in Nat OBVIOUS
<1> HIDE DEF c
<1>3. ASSUME NEW k \in 0 .. Len(a) PROVE SubSeq(c, 1, k) = SubSeq(a, 1, k)
  <2>0. k \in 0 .. Len(c) BY <1>1, <1>2
  <2>1. /\ SubSeq(c, 1, k) \in Seq(Entry) /\ Len(SubSeq(c, 1, k)) = k
        /\ \A i \in 1 .. k : SubSeq(c, 1, k)[i] = c[i]
    BY <1>1, <2>0, PrefixOfSeq
  <2>2. /\ SubSeq(a, 1, k) \in Seq(Entry) /\ Len(SubSeq(a, 1, k)) = k
        /\ \A i \in 1 .. k : SubSeq(a, 1, k)[i] = a[i]
    BY PrefixOfSeq
  <2>3. \A i \in 1 .. k : SubSeq(c, 1, k)[i] = SubSeq(a, 1, k)[i] BY <1>1, <1>2, <2>1, <2>2
  <2> QED BY <2>1, <2>2, <2>3, SeqEqual
<1>4. ASSUME NEW k \in 0 .. Len(b) PROVE SubSeq(c, 1, Len(a) + k) = a \o SubSeq(b, 1, k)
  <2> DEFINE n == Len(a) + k
             q == SubSeq(b, 1, k)
             r == a \o q
  <2>0. n \in 0 .. Len(c) BY <1>1, <1>2
  <2>1. /\ SubSeq(c, 1, n) \in Seq(Entry) /\ Len(SubSeq(c, 1, n)) = n
        /\ \A i \in 1 .. n : SubSeq(c, 1, n)[i] = c[i]
    BY <1>1, <2>0, PrefixOfSeq
  <2>2. q \in Seq(Entry) /\ Len(q) = k /\ \A i \in 1 .. k : q[i] = b[i]
    BY PrefixOfSeq
  <2> HIDE DEF q
  <2>3. /\ r \in Seq(Entry) /\ Len(r) = Len(a) + k
        /\ \A i \in 1 .. Len(a) + k : r[i] = IF i <= Len(a) THEN a[i] ELSE q[i - Len(a)]
    BY <2>2, ConcatProperties
  <2>4. \A i \in 1 .. n : c[i] = IF i <= Len(a) THEN a[i] ELSE b[i - Len(a)] BY <1>1, <1>2
  <2> HIDE DEF r
  <2>5. ASSUME NEW i \in 1 .. n PROVE SubSeq(c, 1, n)[i] = r[i]
    <3>1. CASE i <= Len(a) BY <1>2, <2>1, <2>3, <2>4, <3>1
    <3>2. CASE ~(i <= Len(a))
      <4>1. i - Len(a) \in 1 .. k BY <1>2, <3>2
      <4> QED BY <1>2, <2>1, <2>2, <2>3, <2>4, <3>2, <4>1
    <3> QED BY <3>1, <3>2
  <2>6. SubSeq(c, 1, n) = r BY <2>1, <2>3, <2>5, SeqEqual
  <2> QED BY <2>6 DEF n, q, r
<1> QED BY <1>3, <1>4 DEF c

(* One more entry that may follow leaves a log tidy.                       *)
LEMMA TidyAppend ==
  ASSUME NEW s \in Seq(Entry), NEW e \in Entry, Tidy(s),
         e.kind \in Talk => Follows(Last(s, Outcomes), e.kind)
  PROVE  Tidy(Append(s, e))
<1> DEFINE a == Append(s, e)
<1>1. /\ a \in Seq(Entry) /\ Len(a) = Len(s) + 1 /\ a[Len(s) + 1] = e
      /\ \A n \in 1 .. Len(s) : a[n] = s[n] /\ Len(s) \in Nat
  BY AppendProperties
<1>2. \A k \in 0 .. Len(s) : SubSeq(a, 1, k) = SubSeq(s, 1, k) BY PrefixOfAppend
<1>3. SubSeq(s, 1, Len(s)) = s BY SubSeqFull
<1>0. Len(s) \in Nat OBVIOUS
<1> HIDE DEF a
<1>4. ASSUME NEW n \in 1 .. Len(a), a[n].kind \in Talk
      PROVE  Follows(Last(SubSeq(a, 1, n - 1), Outcomes), a[n].kind)
  <2>1. CASE n = Len(s) + 1
    <3>1. SubSeq(a, 1, n - 1) = s BY <1>0, <1>2, <1>3, <2>1
    <3> QED BY <1>1, <1>4, <2>1, <3>1
  <2>2. CASE n # Len(s) + 1
    <3>1. n \in 1 .. Len(s) /\ n - 1 \in 0 .. Len(s) BY <1>0, <1>1, <2>2
    <3>2. SubSeq(a, 1, n - 1) = SubSeq(s, 1, n - 1) /\ a[n] = s[n] BY <1>1, <1>2, <3>1
    <3> QED BY <1>4, <3>1, <3>2 DEF Tidy
  <2> QED BY <2>1, <2>2
<1>5. Tidy(a) BY <1>4 DEF Tidy
<1> QED BY <1>5 DEF a

(* So does cutting it.                                                     *)
LEMMA TidyPrefix ==
  ASSUME NEW s \in Seq(Entry), NEW k \in 0 .. Len(s), Tidy(s)
  PROVE  Tidy(SubSeq(s, 1, k))
<1> DEFINE p == SubSeq(s, 1, k)
<1>1. p \in Seq(Entry) /\ Len(p) = k /\ \A i \in 1 .. k : p[i] = s[i] BY PrefixOfSeq
<1>2. \A i \in 0 .. k : SubSeq(p, 1, i) = SubSeq(s, 1, i) BY PrefixOfPrefix
<1> HIDE DEF p
<1>3. ASSUME NEW n \in 1 .. Len(p), p[n].kind \in Talk
      PROVE  Follows(Last(SubSeq(p, 1, n - 1), Outcomes), p[n].kind)
  <2>1. n \in 1 .. Len(s) /\ n - 1 \in 0 .. k /\ p[n] = s[n] BY <1>1
  <2>2. SubSeq(p, 1, n - 1) = SubSeq(s, 1, n - 1) BY <1>2, <2>1
  <2> QED BY <1>3, <2>1, <2>2 DEF Tidy
<1>4. Tidy(p) BY <1>3 DEF Tidy
<1> QED BY <1>4 DEF p

(* Logs may be joined where no call is open.                               *)
LEMMA TidyConcat ==
  ASSUME NEW a \in Seq(Entry), NEW b \in Seq(Entry), Tidy(a), Tidy(b),
         Last(a, Outcomes) \notin {"call", "unknown"}
  PROVE  Tidy(a \o b)
<1> DEFINE c == a \o b
<1>1. /\ c \in Seq(Entry) /\ Len(c) = Len(a) + Len(b)
      /\ \A i \in 1 .. Len(a) + Len(b) : c[i] = IF i <= Len(a) THEN a[i] ELSE b[i - Len(a)]
  BY ConcatProperties
<1>2. Len(a) \in Nat /\ Len(b) \in Nat OBVIOUS
<1>3. /\ \A k \in 0 .. Len(a) : SubSeq(c, 1, k) = SubSeq(a, 1, k)
      /\ \A k \in 0 .. Len(b) : SubSeq(c, 1, Len(a) + k) = a \o SubSeq(b, 1, k)
  BY PrefixOfConcat
<1> HIDE DEF c
<1>4. ASSUME NEW n \in 1 .. Len(c), c[n].kind \in Talk
      PROVE  Follows(Last(SubSeq(c, 1, n - 1), Outcomes), c[n].kind)
  <2>1. CASE n <= Len(a)
    <3>1. n \in 1 .. Len(a) /\ n - 1 \in 0 .. Len(a) BY <1>2, <2>1
    <3>2. SubSeq(c, 1, n - 1) = SubSeq(a, 1, n - 1) /\ c[n] = a[n] BY <1>1, <1>2, <1>3, <3>1
    <3> QED BY <1>4, <3>1, <3>2 DEF Tidy
  <2>2. CASE ~(n <= Len(a))
    <3> DEFINE m == n - Len(a)
    <3>1. m \in 1 .. Len(b) /\ m - 1 \in 0 .. Len(b) /\ n - 1 = Len(a) + (m - 1)
      BY <1>1, <1>2, <2>2
    <3>2. c[n] = b[m] BY <1>1, <1>2, <2>2
    <3>3. SubSeq(c, 1, n - 1) = a \o SubSeq(b, 1, m - 1) BY <1>3, <3>1
    <3>4. SubSeq(b, 1, m - 1) \in Seq(Entry) BY <3>1, PrefixOfSeq
    <3> DEFINE l == Last(SubSeq(b, 1, m - 1), Outcomes)
    <3>5. Follows(l, b[m].kind) BY <1>4, <3>1, <3>2 DEF Tidy
    <3>6. Last(SubSeq(c, 1, n - 1), Outcomes) = IF l \in Outcomes THEN l ELSE Last(a, Outcomes)
      <4> DEFINE q == SubSeq(b, 1, m - 1)
      <4>1. q \in Seq(Entry) BY <3>4
      <4> HIDE DEF q
      <4>2. "none" \notin Outcomes BY DEF Outcomes
      <4>3. Last(a \o q, Outcomes) = IF Last(q, Outcomes) \in Outcomes THEN Last(q, Outcomes)
                                     ELSE Last(a, Outcomes)
        BY <4>1, <4>2, LastConcat
      <4> QED BY <3>3, <4>3, Zenon DEF q, l
    <3> HIDE DEF l, m
    <3> QED BY <3>2, <3>5, <3>6 DEF Follows
  <2> QED BY <2>1, <2>2
<1>5. Tidy(c) BY <1>4 DEF Tidy
<1> QED BY <1>5 DEF c

-----------------------------------------------------------------------------

(* What Paired and Resolved look at.                                       *)
Spoken(s) == Kept(MessagesFromEvents(s), Talk)

(* Spoken along the prefixes of a log.                                     *)
LEMMA SpokenNext ==
  ASSUME NEW s \in Seq(Entry), NEW n \in 1 .. Len(s)
  PROVE  Spoken(SubSeq(s, 1, n)) =
           IF s[n].kind \in Talk THEN Append(Spoken(SubSeq(s, 1, n - 1)), s[n])
           ELSE Spoken(SubSeq(s, 1, n - 1))
<1> DEFINE p == SubSeq(s, 1, n - 1)
           q == SubSeq(s, 1, n)
           e == s[n]
           k == Kept(p, Visible)
<1>1. q = Append(p, e) /\ p \in Seq(Entry) /\ e \in Entry BY Prefixes
<1>2. k \in Seq(Entry) BY <1>1, KeptIsSeq
<1>3. Kept(q, Visible) = IF e.kind \in Visible THEN Append(k, e) ELSE k BY KeptNext
<1> HIDE DEF p, q, e, k
<1>4. Kept(Append(k, e), Talk) = IF e.kind \in Talk THEN Append(Kept(k, Talk), e) ELSE Kept(k, Talk)
  BY <1>1, <1>2, KeptAppend
<1>5. CASE e.kind \in Visible
  <2>1. Kept(q, Visible) = Append(k, e) BY <1>3, <1>5, Zenon
  <2>2. Spoken(q) = IF e.kind \in Talk THEN Append(Kept(k, Talk), e) ELSE Kept(k, Talk)
    BY <1>4, <2>1, Zenon DEF Spoken, MessagesFromEvents
  <2> QED BY <2>2, Zenon DEF Spoken, MessagesFromEvents, p, q, e, k
<1>6. CASE e.kind \notin Visible
  <2>1. Kept(q, Visible) = k BY <1>3, <1>6, Zenon
  <2>2. e.kind \notin Talk BY <1>6 DEF Talk
  <2>3. Spoken(q) = Kept(k, Talk) BY <2>1, Zenon DEF Spoken, MessagesFromEvents
  <2> QED BY <2>2, <2>3, Zenon DEF Spoken, MessagesFromEvents, p, q, e, k
<1> QED BY <1>5, <1>6

(* Neighbours in sp may follow each other, and l is its last outcome.      *)
Linked(sp, l) ==
  /\ sp \in Seq(Entry)
  /\ \A k \in 1 .. Len(sp) : k < Len(sp) => Follows(sp[k].kind, sp[k + 1].kind)
  /\ sp # << >> /\ sp[Len(sp)].kind \in Outcomes => sp[Len(sp)].kind = l

(* One more message that may follow keeps the links.                       *)
LEMMA LinkedAppend ==
  ASSUME NEW sp, NEW l, Linked(sp, l), NEW e \in Entry, e.kind \in Talk, Follows(l, e.kind)
  PROVE  Linked(Append(sp, e), IF e.kind \in Outcomes THEN e.kind ELSE l)
<1> DEFINE a == Append(sp, e)
<1>1. sp \in Seq(Entry) BY DEF Linked
<1>2. /\ a \in Seq(Entry) /\ Len(a) = Len(sp) + 1 /\ a[Len(sp) + 1] = e
      /\ \A n \in 1 .. Len(sp) : a[n] = sp[n]
  BY <1>1, AppendProperties
<1>3. Len(sp) \in Nat BY <1>1
<1> HIDE DEF a
<1>4. ASSUME NEW k \in 1 .. Len(a), k < Len(a) PROVE Follows(a[k].kind, a[k + 1].kind)
  <2>1. CASE k = Len(sp)
    <3>1. a[k] = sp[Len(sp)] /\ a[k + 1] = e /\ sp # << >> BY <1>1, <1>2, <1>3, <2>1
    <3>2. sp[Len(sp)].kind \in Outcomes => sp[Len(sp)].kind = l BY <3>1 DEF Linked
    <3> QED BY <3>1, <3>2 DEF Follows, Outcomes
  <2>2. CASE k # Len(sp)
    <3>1. k \in 1 .. Len(sp) /\ k < Len(sp) /\ k + 1 \in 1 .. Len(sp) BY <1>2, <1>3, <1>4, <2>2
    <3>2. a[k] = sp[k] /\ a[k + 1] = sp[k + 1] BY <1>2, <3>1
    <3> QED BY <3>1, <3>2 DEF Linked
  <2> QED BY <2>1, <2>2
<1>5. a[Len(a)].kind \in Outcomes => a[Len(a)].kind = IF e.kind \in Outcomes THEN e.kind ELSE l
  BY <1>2
<1>6. Linked(a, IF e.kind \in Outcomes THEN e.kind ELSE l) BY <1>2, <1>4, <1>5 DEF Linked
<1> QED BY <1>6 DEF a

(* What is spoken in a tidy log is linked.                                 *)
LEMMA TidyIsLinked ==
  ASSUME NEW s \in Seq(Entry), Tidy(s)
  PROVE  Linked(Spoken(s), Last(s, Outcomes))
<1> DEFINE C(n) == Linked(Spoken(SubSeq(s, 1, n)), Last(SubSeq(s, 1, n), Outcomes))
           T == {n \in 0 .. Len(s) : ~C(n)}
<1>1. T = {}
  <2> SUFFICES ASSUME T # {} PROVE FALSE OBVIOUS
  <2>0. T \subseteq Nat OBVIOUS
  <2> HIDE DEF T, C
  <2>1. PICK m \in T : \A i \in T : m <= i BY <2>0, LeastElement
  <2>2. m \in 0 .. Len(s) /\ ~C(m) BY DEF T
  <2>3. C(0)
    <3>1. SubSeq(s, 1, 0) = << >> BY SubSeqEmpty
    <3>2. Spoken(<< >>) = << >> BY KeptEmpty, Zenon DEF Spoken, MessagesFromEvents
    <3>3. Linked(<< >>, Last(<< >>, Outcomes)) BY DEF Linked
    <3> QED BY <3>1, <3>2, <3>3, Zenon DEF C
  <2>4. m # 0 BY <2>2, <2>3
  <2>5. m - 1 \in 0 .. Len(s) /\ m - 1 \notin T BY <2>1, <2>2, <2>4
  <2>6. C(m - 1) BY <2>5 DEF T
  <2>7. m \in 1 .. Len(s) BY <2>2, <2>4
  <2> DEFINE p == SubSeq(s, 1, m - 1)
             q == SubSeq(s, 1, m)
             e == s[m]
  <2>8. q = Append(p, e) /\ p \in Seq(Entry) /\ e \in Entry BY <2>7, Prefixes
  <2>9. Spoken(q) = IF e.kind \in Talk THEN Append(Spoken(p), e) ELSE Spoken(p)
    BY <2>7, SpokenNext
  <2>10. e.kind \in Talk => Follows(Last(p, Outcomes), e.kind) BY <2>7 DEF Tidy
  <2>11. Linked(Spoken(p), Last(p, Outcomes)) BY <2>6 DEF C
  <2>12. ~Linked(Spoken(q), Last(q, Outcomes)) BY <2>2 DEF C
  <2> HIDE DEF p, q, e
  <2>13. Last(q, Outcomes) = IF e.kind \in Outcomes THEN e.kind ELSE Last(p, Outcomes)
    BY <2>8, LastAppend
  <2>14. CASE e.kind \in Talk
    <3>1. Linked(Append(Spoken(p), e), IF e.kind \in Outcomes THEN e.kind ELSE Last(p, Outcomes))
      BY <2>8, <2>10, <2>11, <2>14, LinkedAppend
    <3> QED BY <2>9, <2>12, <2>13, <2>14, <3>1, Zenon
  <2>15. CASE e.kind \notin Talk
    <3>1. e.kind \notin Outcomes BY <2>15 DEF Talk, Outcomes, Visible
    <3> QED BY <2>9, <2>11, <2>12, <2>13, <2>15, <3>1, Zenon
  <2> QED BY <2>14, <2>15
<1>2. Len(s) \in 0 .. Len(s) /\ SubSeq(s, 1, Len(s)) = s BY SubSeqFull
<1>3. C(Len(s)) BY <1>1, <1>2
<1> QED BY <1>2, <1>3, Zenon DEF C

(* So a request built from a tidy log without an open call is paired and   *)
(* resolved.                                                               *)
LEMMA TidyIsPaired ==
  ASSUME NEW s \in Seq(Entry), Tidy(s), Last(s, Outcomes) \notin {"call", "unknown"}
  PROVE  Paired(MessagesFromEvents(s)) /\ Resolved(MessagesFromEvents(s))
<1> DEFINE sp == Spoken(s)
<1>1. Linked(sp, Last(s, Outcomes)) BY TidyIsLinked
<1>2. sp = Kept(MessagesFromEvents(s), Visible \ {"steer"}) BY DEF Spoken, Talk
<1> HIDE DEF sp
<1>3. ASSUME NEW n \in DOMAIN sp, sp[n].kind \in {"call", "unknown"}
      PROVE  n < Len(sp) /\ Follows(sp[n].kind, sp[n + 1].kind)
  <2>1. sp \in Seq(Entry) /\ n \in 1 .. Len(sp) /\ Len(sp) \in Nat BY <1>1 DEF Linked
  <2>2. n # Len(sp)
    <3>1. SUFFICES ASSUME n = Len(sp) PROVE FALSE OBVIOUS
    <3>2. sp # << >> /\ sp[Len(sp)].kind \in Outcomes BY <1>3, <2>1, <3>1 DEF Outcomes
    <3> QED BY <1>1, <1>3, <3>1, <3>2 DEF Linked
  <2> QED BY <1>1, <2>1, <2>2 DEF Linked
<1>4. \A n \in DOMAIN sp : sp[n].kind = "call" =>
        n < Len(sp) /\ sp[n + 1].kind \in {"result", "unknown"}
  BY <1>3 DEF Follows
<1>5. \A n \in DOMAIN sp : sp[n].kind = "unknown" => n < Len(sp) /\ sp[n + 1].kind = "result"
  BY <1>3 DEF Follows
<1>6. Paired(MessagesFromEvents(s)) BY <1>2, <1>4, Zenon DEF Paired
<1>7. Resolved(MessagesFromEvents(s)) BY <1>2, <1>5, Zenon DEF Resolved
<1> QED BY <1>6, <1>7

(* Count is a number.                                                      *)
LEMMA CountIsNat ==
  ASSUME NEW s \in Seq(Entry), NEW k
  PROVE  Count(s, k) \in Nat /\ IsFiniteSet({n \in DOMAIN s : s[n].kind = k})
<1>1. IsFiniteSet(1 .. Len(s)) BY FS_Interval
<1>2. {n \in DOMAIN s : s[n].kind = k} \subseteq 1 .. Len(s) OBVIOUS
<1>3. IsFiniteSet({n \in DOMAIN s : s[n].kind = k}) BY <1>1, <1>2, FS_Subset
<1> QED BY <1>3, FS_CardinalityType DEF Count

(* Count after one more entry.                                             *)
LEMMA CountAppend ==
  ASSUME NEW s \in Seq(Entry), NEW e \in Entry, NEW k
  PROVE  Count(Append(s, e), k) = IF e.kind = k THEN Count(s, k) + 1 ELSE Count(s, k)
<1> DEFINE a == Append(s, e)
           P == {n \in DOMAIN s : s[n].kind = k}
           Q == {n \in DOMAIN a : a[n].kind = k}
<1>1. /\ a \in Seq(Entry) /\ Len(a) = Len(s) + 1 /\ a[Len(s) + 1] = e
      /\ \A n \in 1 .. Len(s) : a[n] = s[n]
  BY AppendProperties
<1>2. IsFiniteSet(P) BY CountIsNat
<1>0. Len(s) \in Nat /\ DOMAIN s = 1 .. Len(s) OBVIOUS
<1>a. DOMAIN a = 1 .. Len(s) + 1 BY <1>1
<1> HIDE DEF a
<1>3. CASE e.kind = k
  <2>1. Q = P \cup {Len(s) + 1} BY <1>0, <1>1, <1>a, <1>3
  <2>2. Len(s) + 1 \notin P BY <1>0
  <2>3. Cardinality(Q) = Cardinality(P) + 1 BY <1>2, <2>1, <2>2, FS_AddElement
  <2> QED BY <1>3, <2>3 DEF Count, a
<1>4. CASE e.kind # k
  <2>1. Q = P BY <1>0, <1>1, <1>a, <1>4
  <2> QED BY <1>4, <2>1 DEF Count, a
<1> QED BY <1>3, <1>4

(* A prefix has no more of a kind.                                         *)
LEMMA CountPrefix ==
  ASSUME NEW s \in Seq(Entry), NEW m \in 0 .. Len(s), NEW k
  PROVE  Count(SubSeq(s, 1, m), k) <= Count(s, k)
<1> DEFINE p == SubSeq(s, 1, m)
           P == {n \in DOMAIN p : p[n].kind = k}
           Q == {n \in DOMAIN s : s[n].kind = k}
<1>1. p \in Seq(Entry) /\ Len(p) = m /\ \A i \in 1 .. m : p[i] = s[i] BY PrefixOfSeq
<1> HIDE DEF p
<1>2. P \subseteq Q BY <1>1
<1>3. IsFiniteSet(Q) BY CountIsNat
<1>4. Cardinality(P) <= Cardinality(Q) BY <1>2, <1>3, FS_Subset
<1> QED BY <1>4 DEF Count, p

(* messages_from_events loses no steering.                                 *)
LEMMA SteersKept ==
  ASSUME NEW a \in Seq(Entry), NEW b \in Seq(Entry)
  PROVE  Count(b, "steer") <= Count(MessagesFromEvents(a \o b), "steer")
<1> DEFINE M(n) == Kept(a \o SubSeq(b, 1, n), Visible)
           C(n) == Count(SubSeq(b, 1, n), "steer") <= Count(M(n), "steer")
           T == {n \in 0 .. Len(b) : ~C(n)}
<1>1. T = {}
  <2> SUFFICES ASSUME T # {} PROVE FALSE OBVIOUS
  <2>0. T \subseteq Nat OBVIOUS
  <2> HIDE DEF T, C, M
  <2>1. PICK m \in T : \A i \in T : m <= i BY <2>0, LeastElement
  <2>2. m \in 0 .. Len(b) /\ ~C(m) BY DEF T
  <2>3. C(0)
    <3>1. SubSeq(b, 1, 0) = << >> BY SubSeqEmpty
    <3>2. a \o << >> = a BY ConcatEmptySeq
    <3>3. M(0) \in Seq(Entry) BY <3>1, <3>2, KeptIsSeq DEF M
    <3>4. Count(<< >>, "steer") = 0
      <4>1. {n \in DOMAIN << >> : << >>[n].kind = "steer"} = {} OBVIOUS
      <4> QED BY <4>1, FS_EmptySet DEF Count
    <3>5. Count(M(0), "steer") \in Nat BY <3>3, CountIsNat
    <3>6. 0 <= Count(M(0), "steer") BY <3>5
    <3> QED BY <3>1, <3>4, <3>6, Zenon DEF C
  <2>4. m # 0 BY <2>2, <2>3
  <2>5. m - 1 \in 0 .. Len(b) /\ m - 1 \notin T BY <2>1, <2>2, <2>4
  <2>6. C(m - 1) BY <2>5 DEF T
  <2>7. m \in 1 .. Len(b) BY <2>2, <2>4
  <2> DEFINE p == SubSeq(b, 1, m - 1)
             q == SubSeq(b, 1, m)
             e == b[m]
             k == M(m - 1)
  <2>8. q = Append(p, e) /\ p \in Seq(Entry) /\ e \in Entry BY <2>7, Prefixes
  <2>9. Count(p, "steer") <= Count(k, "steer") BY <2>6 DEF C
  <2>10. ~(Count(q, "steer") <= Count(M(m), "steer")) BY <2>2 DEF C
  <2>11. k = Kept(a \o p, Visible) /\ M(m) = Kept(a \o q, Visible) BY DEF M
  <2> HIDE DEF p, q, e, k
  <2>12. a \o q = Append(a \o p, e) /\ a \o p \in Seq(Entry)
    <3>1. a \o p \in Seq(Entry) /\ q = p \o <<e>> /\ <<e>> \in Seq(Entry)
      BY <2>8, AppendIsConcat, ConcatProperties
    <3>2. a \o (p \o <<e>>) = (a \o p) \o <<e>> BY <2>8, <3>1, ConcatAssociative
    <3>3. Append(a \o p, e) = (a \o p) \o <<e>> BY <2>8, <3>1, AppendIsConcat
    <3> QED BY <3>1, <3>2, <3>3, Zenon
  <2>13. k \in Seq(Entry) BY <2>11, <2>12, KeptIsSeq
  <2> DEFINE c == a \o p
  <2>14. Kept(Append(c, e), Visible) = IF e.kind \in Visible THEN Append(k, e) ELSE k
    <3>1. c \in Seq(Entry) /\ k = Kept(c, Visible) BY <2>11, <2>12
    <3> HIDE DEF c
    <3> QED BY <2>8, <3>1, KeptAppend
  <2>15. M(m) = IF e.kind \in Visible THEN Append(k, e) ELSE k
    BY <2>11, <2>12, <2>14, Zenon
  <2>16. Count(q, "steer") = IF e.kind = "steer" THEN Count(p, "steer") + 1 ELSE Count(p, "steer")
    BY <2>8, CountAppend
  <2>17. Count(Append(k, e), "steer") =
           IF e.kind = "steer" THEN Count(k, "steer") + 1 ELSE Count(k, "steer")
    BY <2>8, <2>13, CountAppend
  <2>18. Count(k, "steer") \in Nat /\ Count(p, "steer") \in Nat BY <2>8, <2>13, CountIsNat
  <2>19. "steer" \in Visible BY DEF Visible
  <2>20. Count(M(m), "steer") =
           IF e.kind = "steer" THEN Count(k, "steer") + 1 ELSE Count(k, "steer")
    BY <2>15, <2>17, <2>19, Zenon
  <2> QED BY <2>9, <2>10, <2>16, <2>18, <2>20
<1>2. Len(b) \in 0 .. Len(b) /\ SubSeq(b, 1, Len(b)) = b BY SubSeqFull
<1>3. C(Len(b)) BY <1>1, <1>2
<1> QED BY <1>2, <1>3, Zenon DEF C, M, MessagesFromEvents

-----------------------------------------------------------------------------

(* The number of threads is a natural number; the other bounds may be      *)
(* anything.                                                               *)
ThreadConstants == MaxThreads \in Nat

(* f is the recursive function of Inherited, and of ForkedAtRest below,    *)
(* for N threads with logs l, parents p and fork points c.                 *)
Descends(f, l, p, c, N) ==
  f = [t \in 1 .. N |->
         IF p[t] = 0 THEN << >> ELSE f[p[t]] \o SubSeq(l[p[t]], 1, c[t])]

Rests(f, l, p, c, N) ==
  f = [t \in 1 .. N |->
         \/ p[t] = 0
         \/ /\ ~Live(SubSeq(l[p[t]], 1, c[t]))
            /\ ~Unresolved(SubSeq(l[p[t]], 1, c[t]))
            /\ f[p[t]]]

(* Both exist as long as parents are older than their forks.               *)
LEMMA DescentExists ==
  ASSUME NEW l, NEW p, NEW c, NEW N \in Nat, \A t \in 1 .. N : p[t] \in 0 .. t - 1
  PROVE  \E f : Descends(f, l, p, c, N)
<1> DEFINE T == {M \in 0 .. N : ~ \E f : Descends(f, l, p, c, M)}
<1> SUFFICES ASSUME T # {} PROVE FALSE OBVIOUS
<1> HIDE DEF T
<1>0. T \subseteq Nat BY DEF T
<1>1. PICK M \in T : \A m \in T : M <= m BY <1>0, LeastElement
<1>2. M \in 0 .. N /\ ~ \E f : Descends(f, l, p, c, M) BY DEF T
<1>3. CASE M = 0
  <2> DEFINE f == [t \in 1 .. 0 |-> << >>]
  <2>1. Descends(f, l, p, c, 0) BY DEF Descends
  <2> QED BY <1>2, <1>3, <2>1
<1>4. CASE M # 0
  <2>1. M - 1 \in 0 .. N /\ M - 1 \notin T BY <1>1, <1>2, <1>4
  <2>2. PICK g : Descends(g, l, p, c, M - 1) BY <2>1 DEF T
  <2> DEFINE v == IF p[M] = 0 THEN << >> ELSE g[p[M]] \o SubSeq(l[p[M]], 1, c[M])
             f == [t \in 1 .. M |-> IF t = M THEN v ELSE g[t]]
  <2> HIDE DEF v
  <2>3. ASSUME NEW t \in 1 .. M
        PROVE  f[t] = IF p[t] = 0 THEN << >> ELSE f[p[t]] \o SubSeq(l[p[t]], 1, c[t])
    <3>0. p[t] \in 0 .. t - 1 BY <1>2
    <3>1. p[t] # 0 => f[p[t]] = g[p[t]] BY <1>2, <3>0
    <3>2. CASE t = M
      <4>1. f[t] = v BY <3>2
      <4> QED BY <3>1, <3>2, <4>1 DEF v
    <3>3. CASE t # M
      <4>1. f[t] = g[t] /\ t \in 1 .. M - 1 BY <1>2, <3>3
      <4>2. g[t] = IF p[t] = 0 THEN << >> ELSE g[p[t]] \o SubSeq(l[p[t]], 1, c[t])
        BY <2>2, <4>1 DEF Descends
      <4> QED BY <3>1, <4>1, <4>2
    <3> QED BY <3>2, <3>3
  <2>4. f = [t \in 1 .. M |-> f[t]] OBVIOUS
  <2> HIDE DEF f
  <2>5. Descends(f, l, p, c, M) BY <2>3, <2>4 DEF Descends
  <2> QED BY <1>2, <2>5
<1> QED BY <1>3, <1>4

(* The same for ForkedAtRest.                                              *)
LEMMA RestExists ==
  ASSUME NEW l, NEW p, NEW c, NEW N \in Nat, \A t \in 1 .. N : p[t] \in 0 .. t - 1
  PROVE  \E f : Rests(f, l, p, c, N)
<1> DEFINE T == {M \in 0 .. N : ~ \E f : Rests(f, l, p, c, M)}
           Still(t) == /\ ~Live(SubSeq(l[p[t]], 1, c[t]))
                       /\ ~Unresolved(SubSeq(l[p[t]], 1, c[t]))
<1> SUFFICES ASSUME T # {} PROVE FALSE OBVIOUS
<1> HIDE DEF T
<1>0. T \subseteq Nat BY DEF T
<1>1. PICK M \in T : \A m \in T : M <= m BY <1>0, LeastElement
<1>2. M \in 0 .. N /\ ~ \E f : Rests(f, l, p, c, M) BY DEF T
<1>3. CASE M = 0
  <2> DEFINE f == [t \in 1 .. 0 |-> TRUE]
  <2>1. Rests(f, l, p, c, 0) BY DEF Rests
  <2> QED BY <1>2, <1>3, <2>1
<1>4. CASE M # 0
  <2>1. M - 1 \in 0 .. N /\ M - 1 \notin T BY <1>1, <1>2, <1>4
  <2>2. PICK g : Rests(g, l, p, c, M - 1) BY <2>1 DEF T
  <2> DEFINE v == p[M] = 0 \/ (Still(M) /\ g[p[M]])
             f == [t \in 1 .. M |-> IF t = M THEN v ELSE g[t]]
  <2> HIDE DEF v, Still
  <2>3. ASSUME NEW t \in 1 .. M
        PROVE  f[t] = (p[t] = 0 \/ (Still(t) /\ f[p[t]]))
    <3>0. p[t] \in 0 .. t - 1 BY <1>2
    <3>1. p[t] # 0 => f[p[t]] = g[p[t]] BY <1>2, <3>0
    <3>2. CASE t = M
      <4>1. f[t] = v BY <3>2
      <4> QED BY <3>1, <3>2, <4>1 DEF v
    <3>3. CASE t # M
      <4>1. f[t] = g[t] /\ t \in 1 .. M - 1 BY <1>2, <3>3
      <4>2. g[t] = (p[t] = 0 \/ (Still(t) /\ g[p[t]]))
        BY <2>2, <4>1 DEF Rests, Still
      <4> QED BY <3>1, <4>1, <4>2
    <3> QED BY <3>2, <3>3
  <2>4. f = [t \in 1 .. M |-> f[t]] OBVIOUS
  <2> HIDE DEF f
  <2>5. f = [t \in 1 .. M |-> (p[t] = 0 \/ (Still(t) /\ f[p[t]]))] BY <2>3, <2>4
  <2>6. Rests(f, l, p, c, M) BY <2>5, Zenon DEF Rests, Still
  <2> QED BY <1>2, <2>6
<1> QED BY <1>3, <1>4

(* Parents are older than their forks.                                     *)
Downward == \A t \in Ids : parent[t] \in 0 .. t - 1

(* Inherited is what its definition says.                                  *)
LEMMA InheritedDescends ==
  ThreadConstants /\ Downward => Descends(Inherited, log, parent, cut, MaxThreads)
<1> SUFFICES ASSUME ThreadConstants, Downward
             PROVE  Descends(Inherited, log, parent, cut, MaxThreads)
  OBVIOUS
<1>1. \E f : Descends(f, log, parent, cut, MaxThreads)
  BY DescentExists DEF ThreadConstants, Downward, Ids
<1>2. \E f : f = [t \in Ids |->
                    IF parent[t] = 0 THEN << >>
                    ELSE f[parent[t]] \o SubSeq(log[parent[t]], 1, cut[t])]
  BY <1>1 DEF Descends, Ids
<1>3. Inherited = [t \in Ids |->
                     IF parent[t] = 0 THEN << >>
                     ELSE Inherited[parent[t]] \o SubSeq(log[parent[t]], 1, cut[t])]
  BY <1>2, Zenon DEF Inherited
<1> QED BY <1>3, Zenon DEF Descends, Ids

(* So is ForkedAtRest.                                                     *)
LEMMA ForkedAtRestRests ==
  ThreadConstants /\ Downward => Rests(ForkedAtRest, log, parent, cut, MaxThreads)
<1> SUFFICES ASSUME ThreadConstants, Downward
             PROVE  Rests(ForkedAtRest, log, parent, cut, MaxThreads)
  OBVIOUS
<1>1. \E f : Rests(f, log, parent, cut, MaxThreads)
  BY RestExists DEF ThreadConstants, Downward, Ids
<1>2. \E f : f = [t \in Ids |->
                    \/ parent[t] = 0
                    \/ /\ ~Live(SubSeq(log[parent[t]], 1, cut[t]))
                       /\ ~Unresolved(SubSeq(log[parent[t]], 1, cut[t]))
                       /\ f[parent[t]]]
  BY <1>1 DEF Rests, Ids
<1>3. ForkedAtRest = [t \in Ids |->
                    \/ parent[t] = 0
                    \/ /\ ~Live(SubSeq(log[parent[t]], 1, cut[t]))
                       /\ ~Unresolved(SubSeq(log[parent[t]], 1, cut[t]))
                       /\ ForkedAtRest[parent[t]]]
  BY <1>2, Zenon DEF ForkedAtRest
<1> QED BY <1>3, Zenon DEF Rests, Ids

-----------------------------------------------------------------------------

(* Places of a runner.                                                     *)
Phases == {"none", "ready", "loaded", "streaming", "proposed", "executing", "failing"}

(* Types of the state.                                                     *)
ThreadTypes ==
  /\ log \in [Ids -> Seq(Entry)] /\ parent \in [Ids -> Nat] /\ cut \in [Ids -> Nat]
  /\ run \in [Ids -> Phases] /\ messages \in [Ids -> Seq(Entry)]
  /\ snapshot \in [Ids -> Seq(Entry)]

(* Threads are created in order, forks refer to entries their parents      *)
(* have.                                                                   *)
Forest ==
  /\ \A t, u \in Ids : Born(t) /\ u < t => Born(u)
  /\ \A t \in Ids : ~Born(t) => parent[t] = 0 /\ run[t] = "none" /\ snapshot[t] = << >>
  /\ \A t \in Ids : parent[t] # 0 => parent[t] < t /\ cut[t] <= Len(log[parent[t]])

(* What the log of a thread says about its runner.                         *)
PlaceKnown(t) ==
  /\ run[t] = "none" <=> ~Live(log[t])
  /\ run[t] \in {"proposed", "executing"} <=> Last(log[t], Outcomes) = "call"
  /\ run[t] \in {"ready", "loaded", "streaming"} => Last(log[t], Outcomes) # "unknown"

(* A log is tidy, and a call is open only under a live turn.               *)
Orderly(s) ==
  /\ Tidy(s)
  /\ \A n \in 0 .. Len(s) :
       Last(SubSeq(s, 1, n), Outcomes) = "call" => Live(SubSeq(s, 1, n))

(* The inductive invariant of Threads. The three properties speak of what  *)
(* was loaded; where the log stands when it is loaded, in this thread and  *)
(* at the fork points of its ancestors, is in the other conjuncts.         *)
ThreadInv ==
  /\ ThreadTypes /\ Forest
  /\ \A t \in Ids : PlaceKnown(t) /\ Orderly(log[t])
  /\ InheritsSnapshot /\ RequestsPaired /\ SteersReachModel

(* Parents are older in a forest.                                          *)
LEMMA ForestDescends ==
  ThreadTypes /\ Forest => Downward
<1> SUFFICES ASSUME ThreadTypes, Forest, NEW t \in Ids PROVE parent[t] \in 0 .. t - 1
  BY DEF Downward
<1>1. t \in Nat /\ t > 0 /\ parent[t] \in Nat BY DEF ThreadTypes, Ids
<1> QED BY <1>1 DEF Forest

(* The parent of a thread exists.                                          *)
LEMMA ParentsAreBorn ==
  ASSUME ThreadConstants, ThreadTypes, Forest, NEW t \in Ids, parent[t] # 0
  PROVE  /\ Born(t) /\ parent[t] \in Ids /\ parent[t] < t /\ Born(parent[t])
         /\ cut[t] \in 0 .. Len(log[parent[t]])
<1>1. Born(t) /\ parent[t] < t /\ cut[t] <= Len(log[parent[t]]) BY DEF Forest
<1>2. parent[t] \in Ids
  <2>1. parent[t] \in Nat BY DEF ThreadTypes
  <2> QED BY <1>1, <2>1 DEF Ids, ThreadConstants
<1>3. Born(parent[t]) BY <1>1, <1>2 DEF Forest
<1>4. Len(log[parent[t]]) \in Nat /\ cut[t] \in Nat BY <1>2 DEF ThreadTypes
<1> QED BY <1>1, <1>2, <1>3, <1>4

(* The recursive definitions may be unfolded once.                         *)
LEMMA InheritedUnfolds ==
  ASSUME ThreadConstants, ThreadTypes, Forest, NEW t \in Ids
  PROVE  /\ Inherited[t] = IF parent[t] = 0 THEN << >>
                           ELSE Inherited[parent[t]] \o SubSeq(log[parent[t]], 1, cut[t])
         /\ ForkedAtRest[t] <=> \/ parent[t] = 0
                              \/ /\ ~Live(SubSeq(log[parent[t]], 1, cut[t]))
                                 /\ ~Unresolved(SubSeq(log[parent[t]], 1, cut[t]))
                                 /\ ForkedAtRest[parent[t]]
<1>1. /\ Descends(Inherited, log, parent, cut, MaxThreads)
      /\ Rests(ForkedAtRest, log, parent, cut, MaxThreads)
  BY ForestDescends, InheritedDescends, ForkedAtRestRests
<1>2. MaxThreads \in Nat /\ t \in 1 .. MaxThreads BY DEF ThreadConstants, Ids
<1> HIDE DEF Inherited, ForkedAtRest
<1> QED BY <1>1, <1>2 DEF Descends, Rests

(* What is inherited are entries.                                          *)
LEMMA InheritedIsSeq ==
  ASSUME ThreadConstants, ThreadTypes, Forest, NEW t \in Ids
  PROVE  Inherited[t] \in Seq(Entry)
<1> DEFINE T == {u \in Ids : Inherited[u] \notin Seq(Entry)}
<1> SUFFICES ASSUME T # {} PROVE FALSE OBVIOUS
<1> HIDE DEF T
<1>0. T \subseteq Nat BY DEF T, Ids
<1>1. PICK u \in T : \A v \in T : u <= v BY <1>0, LeastElement
<1>2. u \in Ids /\ Inherited[u] \notin Seq(Entry) BY DEF T
<1>3. Inherited[u] = IF parent[u] = 0 THEN << >>
                     ELSE Inherited[parent[u]] \o SubSeq(log[parent[u]], 1, cut[u])
  BY <1>2, InheritedUnfolds
<1>4. << >> \in Seq(Entry) OBVIOUS
<1>5. parent[u] # 0 BY <1>2, <1>3, <1>4, Zenon
<1>6. parent[u] \in Ids /\ parent[u] < u /\ cut[u] \in 0 .. Len(log[parent[u]])
  BY <1>2, <1>5, ParentsAreBorn
<1>7. parent[u] \notin T BY <1>0, <1>1, <1>6 DEF Ids
<1>8. Inherited[parent[u]] \in Seq(Entry) BY <1>6, <1>7 DEF T
<1>9. log[parent[u]] \in Seq(Entry) BY <1>6 DEF ThreadTypes
<1>10. SubSeq(log[parent[u]], 1, cut[u]) \in Seq(Entry) BY <1>6, <1>9, PrefixOfSeq
<1>11. Inherited[parent[u]] \o SubSeq(log[parent[u]], 1, cut[u]) \in Seq(Entry)
  BY <1>8, <1>10, ConcatProperties
<1> QED BY <1>2, <1>3, <1>5, <1>11, Zenon

(* If all fork points lie between turns, what is inherited is tidy and has *)
(* no call open.                                                           *)
LEMMA RestIsTidy ==
  ASSUME ThreadConstants, ThreadTypes, Forest, \A u \in Ids : Orderly(log[u]),
         NEW t \in Ids, ForkedAtRest[t]
  PROVE  Tidy(Inherited[t]) /\ Last(Inherited[t], Outcomes) \notin {"call", "unknown"}
<1> DEFINE Good(u) == Tidy(Inherited[u]) /\ Last(Inherited[u], Outcomes) \notin {"call", "unknown"}
           T == {u \in Ids : ForkedAtRest[u] /\ ~Good(u)}
<1> SUFFICES ASSUME T # {} PROVE FALSE OBVIOUS
<1> HIDE DEF T, Good
<1>0. T \subseteq Nat BY DEF T, Ids
<1>1. PICK u \in T : \A v \in T : u <= v BY <1>0, LeastElement
<1>2. u \in Ids /\ ForkedAtRest[u] /\ ~Good(u) BY DEF T
<1> DEFINE p == parent[u]
           b == SubSeq(log[p], 1, cut[u])
<1>3. /\ Inherited[u] = IF p = 0 THEN << >> ELSE Inherited[p] \o b
      /\ ForkedAtRest[u] <=> (p = 0 \/ (~Live(b) /\ ~Unresolved(b) /\ ForkedAtRest[p]))
  BY <1>2, InheritedUnfolds
<1>4. p # 0
  <2>1. SUFFICES ASSUME p = 0 PROVE FALSE OBVIOUS
  <2>2. Inherited[u] = << >> BY <1>3, <2>1
  <2>3. Tidy(<< >>) BY DEF Tidy
  <2>4. Last(<< >>, Outcomes) = "none" BY DEF Last
  <2>5. Good(u) BY <2>2, <2>3, <2>4 DEF Good
  <2> QED BY <1>2, <2>5
<1>5. p \in Ids /\ p < u /\ cut[u] \in 0 .. Len(log[p]) BY <1>2, <1>4, ParentsAreBorn
<1>6. log[p] \in Seq(Entry) /\ Orderly(log[p]) BY <1>5 DEF ThreadTypes
<1>7. b \in Seq(Entry) BY <1>5, <1>6, PrefixOfSeq
<1>8. Tidy(b) BY <1>5, <1>6, TidyPrefix DEF Orderly
<1>9. Last(b, Outcomes) = "call" => Live(b) BY <1>5, <1>6 DEF Orderly
<1> HIDE DEF b, p
<1>10. ~Live(b) /\ ~Unresolved(b) /\ ForkedAtRest[p] BY <1>2, <1>3, <1>4
<1>11. Last(b, Outcomes) \notin {"call", "unknown"} BY <1>9, <1>10 DEF Unresolved, Outcomes
<1>12. p \notin T BY <1>0, <1>1, <1>5 DEF Ids
<1>13. Good(p) BY <1>5, <1>10, <1>12 DEF T
<1> DEFINE a == Inherited[p]
<1>14. a \in Seq(Entry) BY <1>5, InheritedIsSeq
<1>15. Tidy(a) /\ Last(a, Outcomes) \notin {"call", "unknown"} BY <1>13 DEF Good
<1>16. Inherited[u] = a \o b BY <1>3, <1>4
<1> HIDE DEF a
<1>17. Tidy(a \o b) BY <1>7, <1>8, <1>14, <1>15, TidyConcat
<1>18. Last(a \o b, Outcomes) = IF Last(b, Outcomes) \in Outcomes THEN Last(b, Outcomes)
                                ELSE Last(a, Outcomes)
  BY <1>7, <1>14, LastConcat DEF Outcomes
<1>19. Last(a \o b, Outcomes) \notin {"call", "unknown"} BY <1>11, <1>15, <1>18
<1>20. Good(u) BY <1>16, <1>17, <1>19, Zenon DEF Good
<1> QED BY <1>2, <1>20

(* Logs of threads that exist only grow, their fork points stay.           *)
Grown ==
  \A u \in Ids : Born(u) =>
    /\ parent'[u] = parent[u] /\ cut'[u] = cut[u]
    /\ \A k \in 0 .. Len(log[u]) : SubSeq(log'[u], 1, k) = SubSeq(log[u], 1, k)

(* The same in the next state.                                             *)
LEMMA InheritedUnfoldsNext ==
  ASSUME ThreadConstants, ThreadTypes', Forest', NEW t \in Ids
  PROVE  /\ Inherited'[t] = IF parent'[t] = 0 THEN << >>
                           ELSE Inherited'[parent'[t]] \o SubSeq(log'[parent'[t]], 1, cut'[t])
         /\ ForkedAtRest'[t] <=> \/ parent'[t] = 0
                              \/ /\ ~Live(SubSeq(log'[parent'[t]], 1, cut'[t]))
                                 /\ ~Unresolved(SubSeq(log'[parent'[t]], 1, cut'[t]))
                                 /\ ForkedAtRest'[parent'[t]]
<1>0. Downward' BY ForestDescends, PTL
<1>1. (ThreadConstants /\ Downward)' => Descends(Inherited, log, parent, cut, MaxThreads)'
  BY InheritedDescends, PTL
<1>2. (ThreadConstants /\ Downward)' => Rests(ForkedAtRest, log, parent, cut, MaxThreads)'
  BY ForkedAtRestRests, PTL
<1>3. ThreadConstants' BY DEF ThreadConstants
<1>4. /\ Descends(Inherited', log', parent', cut', MaxThreads)
      /\ Rests(ForkedAtRest', log', parent', cut', MaxThreads)
  BY <1>0, <1>1, <1>2, <1>3 DEF Descends, Rests
<1>5. MaxThreads \in Nat /\ t \in 1 .. MaxThreads BY DEF ThreadConstants, Ids
<1> HIDE DEF Inherited, ForkedAtRest
<1> QED BY <1>4, <1>5 DEF Descends, Rests

(* Then nothing that is inherited changes.                                 *)
LEMMA InheritedStays ==
  ASSUME ThreadConstants, ThreadTypes, Forest, ThreadTypes', Forest', Grown,
         NEW t \in Ids, Born(t)
  PROVE  Inherited'[t] = Inherited[t] /\ (ForkedAtRest'[t] <=> ForkedAtRest[t])
<1>a. ASSUME NEW v \in Ids
      PROVE  Inherited'[v] = IF parent'[v] = 0 THEN << >>
                             ELSE Inherited'[parent'[v]] \o SubSeq(log'[parent'[v]], 1, cut'[v])
  BY InheritedUnfoldsNext
<1>b. ASSUME NEW v \in Ids
      PROVE  ForkedAtRest'[v] <=> \/ parent'[v] = 0
                                \/ /\ ~Live(SubSeq(log'[parent'[v]], 1, cut'[v]))
                                   /\ ~Unresolved(SubSeq(log'[parent'[v]], 1, cut'[v]))
                                   /\ ForkedAtRest'[parent'[v]]
  BY InheritedUnfoldsNext
<1> DEFINE Same(u) == Inherited'[u] = Inherited[u] /\ (ForkedAtRest'[u] <=> ForkedAtRest[u])
           T == {u \in Ids : Born(u) /\ ~Same(u)}
<1> SUFFICES ASSUME T # {} PROVE FALSE OBVIOUS
<1> HIDE DEF T, Same
<1>0. T \subseteq Nat BY DEF T, Ids
<1>1. PICK u \in T : \A v \in T : u <= v BY <1>0, LeastElement
<1>2. u \in Ids /\ Born(u) /\ ~Same(u) BY DEF T
<1> DEFINE p == parent[u]
           b == SubSeq(log[p], 1, cut[u])
           c == SubSeq(log'[p], 1, cut[u])
<1>3. /\ Inherited[u] = IF p = 0 THEN << >> ELSE Inherited[p] \o b
      /\ ForkedAtRest[u] <=> (p = 0 \/ (~Live(b) /\ ~Unresolved(b) /\ ForkedAtRest[p]))
  BY <1>2, InheritedUnfolds
<1>4. parent'[u] = p /\ cut'[u] = cut[u] BY <1>2 DEF Grown
<1>5. /\ Inherited'[u] = IF p = 0 THEN << >> ELSE Inherited'[p] \o c
      /\ ForkedAtRest'[u] <=> (p = 0 \/ (~Live(c) /\ ~Unresolved(c) /\ ForkedAtRest'[p]))
  <2> HIDE DEF p
  <2> QED BY <1>2, <1>4, <1>a, <1>b, Zenon
<1>6. CASE p = 0
  <2>a. Inherited[u] = << >> /\ Inherited'[u] = << >> BY <1>3, <1>5, <1>6
  <2>b. ForkedAtRest[u] /\ ForkedAtRest'[u] BY <1>3, <1>5, <1>6
  <2>1. Same(u) BY <2>a, <2>b DEF Same
  <2> QED BY <1>2, <2>1
<1>7. CASE p # 0
  <2>1. p \in Ids /\ p < u /\ Born(p) /\ cut[u] \in 0 .. Len(log[p]) BY <1>2, <1>7, ParentsAreBorn
  <2>2. c = b BY <2>1 DEF Grown
  <2>3. p \notin T BY <1>0, <1>1, <2>1 DEF Ids
  <2>4. Same(p) BY <2>1, <2>3 DEF T
  <2> HIDE DEF p, b, c
  <2>5. Same(u) BY <1>3, <1>5, <2>2, <2>4, Zenon DEF Same
  <2> QED BY <1>2, <2>5
<1> QED BY <1>6, <1>7

-----------------------------------------------------------------------------

(* The last outcome after an entry of kind k ...                           *)
Outcome(s, k) == IF k \in Outcomes THEN k ELSE Last(s, Outcomes)
(* ... and whether a turn is live then.                                    *)
Living(s, k) == IF k \in {"user", "ended"} THEN k = "user" ELSE Live(s)

(* A commit to the log of a thread that exists.                            *)
Extends(t, k, r) ==
  /\ t \in Ids /\ k \in Kinds /\ r \in Phases /\ Born(t)
  /\ Commit(t, k) /\ Goto(t, r) /\ UNCHANGED <<parent, cut, messages, snapshot>>
  /\ k \in Talk => Follows(Last(log[t], Outcomes), k)
  /\ Outcome(log[t], k) = "call" => Living(log[t], k)
  /\ r = "none" <=> ~Living(log[t], k)
  /\ r \in {"proposed", "executing"} <=> Outcome(log[t], k) = "call"
  /\ r \in {"ready", "loaded", "streaming"} => Outcome(log[t], k) # "unknown"
  /\ r = "loaded" => run[t] = "loaded" /\ k # "request"

(* A new thread.                                                           *)
Founds(t) ==
  /\ t \in Ids /\ NextThread(t) /\ Commit(t, "born") /\ UNCHANGED <<run, messages>>
  /\ \/ UNCHANGED <<parent, cut, snapshot>>
     \/ \E p \in Ids : \E at \in 0 .. Len(log[p]) :
          /\ Born(p)
          /\ parent' = [parent EXCEPT ![t] = p] /\ cut' = [cut EXCEPT ![t] = at]
          /\ snapshot' = [snapshot EXCEPT ![t] = SubSeq(Lineage(p), 1, Len(InheritedOf(p)) + at)]

(* A step that only moves the runner.                                      *)
Quiet(t) ==
  /\ t \in Ids /\ run[t] = "proposed" /\ Goto(t, "executing")
  /\ UNCHANGED <<log, parent, cut, messages, snapshot>>

(* The commands other than those that create threads are commits.          *)
LEMMA CommandsExtend ==
  ASSUME ThreadInv, NEW t \in Ids
  PROVE  /\ ThreadArchive(t) => Extends(t, "archived", "none")
         /\ TurnStart(t) => Extends(t, "user", "ready")
         /\ TurnSteer(t) => Extends(t, "steer", run[t])
         /\ Reconcile(t) => Extends(t, "result", "none")
<1>1. /\ log \in [Ids -> Seq(Entry)] /\ run \in [Ids -> Phases] /\ run[t] \in Phases
      /\ PlaceKnown(t) /\ (~Born(t) => run[t] = "none")
  BY DEF ThreadInv, ThreadTypes, Forest
<1>2. run = [run EXCEPT ![t] = run[t]] BY <1>1
<1>3. Live(log[t]) => Born(t)
  BY <1>1 DEF PlaceKnown
<1>4. Last(log[t], Outcomes) = "unknown" => Born(t)
  <2>1. SUFFICES ASSUME ~Born(t) PROVE Last(log[t], Outcomes) # "unknown" OBVIOUS
  <2>2. log[t] = << >> BY <2>1 DEF Born
  <2>3. Last(<< >>, Outcomes) = "none" BY DEF Last
  <2> QED BY <2>2, <2>3
<1>5. ASSUME ThreadArchive(t) PROVE Extends(t, "archived", "none")
  <2>1. run[t] = "none" BY <1>1, <1>5 DEF ThreadArchive, MayArchive, PlaceKnown
  <2> QED BY <1>1, <1>2, <1>5, <2>1 DEF ThreadArchive, MayArchive, PlaceKnown, Extends, Goto,
               Outcome, Living, Kinds, Talk, Visible, Outcomes, Phases
<1>6. ASSUME TurnStart(t) PROVE Extends(t, "user", "ready")
  <2>1. run[t] = "none" BY <1>1, <1>6 DEF TurnStart, PlaceKnown
  <2>2. Last(log[t], Outcomes) \notin {"call", "unknown"}
    BY <1>1, <1>6, <2>1 DEF TurnStart, PlaceKnown, Unresolved, Outcomes
  <2> QED BY <1>1, <1>6, <2>1, <2>2 DEF TurnStart, Extends, Follows,
               Outcome, Living, Kinds, Talk, Visible, Outcomes, Phases
<1>7. ASSUME TurnSteer(t) PROVE Extends(t, "steer", run[t])
  <2>1. run[t] # "none" BY <1>1, <1>7 DEF TurnSteer, PlaceKnown
  <2> QED BY <1>1, <1>2, <1>3, <1>7, <2>1 DEF TurnSteer, PlaceKnown, Extends, Goto,
               Outcome, Living, Kinds, Talk, Visible, Outcomes, Phases
<1>8. ASSUME Reconcile(t) PROVE Extends(t, "result", "none")
  <2>1. run[t] = "none" BY <1>1, <1>8 DEF Reconcile, PlaceKnown
  <2>2. Last(log[t], Outcomes) = "unknown" BY <1>8 DEF Reconcile, Unresolved, Outcomes
  <2> QED BY <1>1, <1>2, <1>4, <1>8, <2>1, <2>2 DEF Reconcile, Extends, Goto, Follows,
               Outcome, Living, Kinds, Talk, Visible, Outcomes, Phases
<1> QED BY <1>5, <1>6, <1>7, <1>8

(* So are most steps of the runner.                                        *)
LEMMA RunnerExtends ==
  ASSUME ThreadInv, NEW t \in Ids
  PROVE  /\ RequestModel(t) => Extends(t, "request", "streaming")
         /\ ProposeTools(t) => Extends(t, "call", "proposed")
         /\ PersistOutcome(t) => \E r \in {"ready", "failing"} : Extends(t, "result", r)
         /\ PersistUnknown(t) => Extends(t, "unknown", "failing")
         /\ EndTurn(t) => Extends(t, "ended", "none")
         /\ StartTool(t) => Quiet(t)
<1>1. /\ log \in [Ids -> Seq(Entry)] /\ run \in [Ids -> Phases] /\ run[t] \in Phases
      /\ PlaceKnown(t) /\ (~Born(t) => run[t] = "none")
  BY DEF ThreadInv, ThreadTypes, Forest
<1> USE DEF PlaceKnown, Extends, Follows, Outcome, Living, Kinds, Talk, Visible, Outcomes, Phases
<1>2. RequestModel(t) => Extends(t, "request", "streaming") BY <1>1 DEF RequestModel
<1>3. ProposeTools(t) => Extends(t, "call", "proposed")
  <2>1. SUFFICES ASSUME ProposeTools(t) PROVE Extends(t, "call", "proposed") OBVIOUS
  <2>2. Last(log[t], Outcomes) \notin {"call", "unknown"} /\ Live(log[t]) BY <1>1, <2>1
      DEF ProposeTools
  <2> QED BY <1>1, <2>1, <2>2 DEF ProposeTools
<1>4. PersistOutcome(t) => \E r \in {"ready", "failing"} : Extends(t, "result", r)
  <2>1. SUFFICES ASSUME PersistOutcome(t), NEW r \in {"ready", "failing"}, Goto(t, r)
                 PROVE Extends(t, "result", r)
    BY DEF PersistOutcome
  <2>2. Last(log[t], Outcomes) = "call" /\ Live(log[t]) BY <1>1, <2>1 DEF PersistOutcome
  <2> QED BY <1>1, <2>1, <2>2 DEF PersistOutcome
<1>5. PersistUnknown(t) => Extends(t, "unknown", "failing")
  <2>1. SUFFICES ASSUME PersistUnknown(t) PROVE Extends(t, "unknown", "failing") OBVIOUS
  <2>2. Last(log[t], Outcomes) = "call" /\ Live(log[t]) BY <1>1, <2>1 DEF PersistUnknown
  <2> QED BY <1>1, <2>1, <2>2 DEF PersistUnknown
<1>6. EndTurn(t) => Extends(t, "ended", "none")
  <2>1. SUFFICES ASSUME EndTurn(t) PROVE Extends(t, "ended", "none") OBVIOUS
  <2>2. Last(log[t], Outcomes) # "call" /\ Live(log[t]) BY <1>1, <2>1 DEF EndTurn
  <2> QED BY <1>1, <2>1, <2>2 DEF EndTurn
<1>7. StartTool(t) => Quiet(t) BY DEF StartTool, Quiet
<1> QED BY <1>2, <1>3, <1>4, <1>5, <1>6, <1>7

(* thread/start and thread/fork create threads.                            *)
LEMMA ThreadsFound ==
  ASSUME NEW t \in Ids
  PROVE  /\ ThreadStart(t) => Founds(t)
         /\ \A p \in Ids : ThreadFork(p, t) => Founds(t)
<1>1. ThreadStart(t) => Founds(t) BY DEF ThreadStart, Founds
<1>2. ASSUME NEW p \in Ids, ThreadFork(p, t) PROVE Founds(t)
  <2>1. PICK at \in 0 .. Len(log[p]) :
          /\ cut' = [cut EXCEPT ![t] = at]
          /\ snapshot' = [snapshot EXCEPT ![t] = SubSeq(Lineage(p), 1, Len(InheritedOf(p)) + at)]
    BY <1>2 DEF ThreadFork
  <2> QED BY <1>2, <2>1 DEF ThreadFork, Founds
<1> QED BY <1>1, <1>2

(* Every step is of one of these kinds or reloads the lineage.             *)
LEMMA NextKinds ==
  ASSUME ThreadInv, [Next]_vars
  PROVE  \/ \E t \in Ids, k \in Kinds, r \in Phases : Extends(t, k, r)
         \/ \E t \in Ids : Founds(t) \/ Quiet(t) \/ ReloadLineage(t)
         \/ UNCHANGED vars
<1>1. \A t \in Ids : run[t] \in Phases BY DEF ThreadInv, ThreadTypes
<1>2. \A k \in Kinds : TRUE OBVIOUS
<1>3. \A t, k, r : Extends(t, k, r) => k \in Kinds /\ r \in Phases BY DEF Extends
<1>4. ASSUME NEW t \in Ids, ThreadStart(t) \/ \E p \in Ids : ThreadFork(p, t) PROVE Founds(t)
  BY <1>4, ThreadsFound
<1>5. ASSUME NEW t \in Ids, ThreadArchive(t) \/ TurnStart(t) \/ TurnSteer(t) \/ Reconcile(t)
      PROVE  \E k \in Kinds, r \in Phases : Extends(t, k, r)
  BY <1>3, <1>5, CommandsExtend
<1>6. ASSUME NEW t \in Ids, Runner(t)
      PROVE  \/ \E k \in Kinds, r \in Phases : Extends(t, k, r)
             \/ Quiet(t) \/ ReloadLineage(t)
  BY <1>3, <1>6, RunnerExtends DEF Runner
<1> QED BY <1>4, <1>5, <1>6 DEF Next

-----------------------------------------------------------------------------

(* One more entry that may follow leaves a log orderly.                    *)
LEMMA OrderlyAppend ==
  ASSUME NEW s \in Seq(Entry), NEW e \in Entry, Orderly(s),
         e.kind \in Talk => Follows(Last(s, Outcomes), e.kind),
         Outcome(s, e.kind) = "call" => Living(s, e.kind)
  PROVE  Orderly(Append(s, e))
<1> DEFINE a == Append(s, e)
<1>1. Tidy(a) BY TidyAppend DEF Orderly
<1>2. /\ Last(a, Outcomes) = Outcome(s, e.kind) /\ (Live(a) <=> Living(s, e.kind))
  BY LastAppend DEF Outcome, Living, Live
<1>3. a \in Seq(Entry) /\ Len(a) = Len(s) + 1 BY AppendProperties
<1>4. SubSeq(a, 1, Len(a)) = a BY <1>3, SubSeqFull
<1>5. \A k \in 0 .. Len(s) : SubSeq(a, 1, k) = SubSeq(s, 1, k) BY PrefixOfAppend
<1>6. Len(s) \in Nat OBVIOUS
<1> HIDE DEF a
<1>7. ASSUME NEW n \in 0 .. Len(a), Last(SubSeq(a, 1, n), Outcomes) = "call"
      PROVE  Live(SubSeq(a, 1, n))
  <2>1. CASE n = Len(a)
    <3>1. Last(a, Outcomes) = "call" BY <1>4, <1>7, <2>1, Zenon
    <3>2. Live(a) BY <1>2, <3>1
    <3> QED BY <1>4, <2>1, <3>2, Zenon
  <2>2. CASE n # Len(a)
    <3>1. n \in 0 .. Len(s) BY <1>3, <1>6, <2>2
    <3>2. SubSeq(a, 1, n) = SubSeq(s, 1, n) BY <1>5, <3>1
    <3> QED BY <1>7, <3>1, <3>2, Zenon DEF Orderly
  <2> QED BY <2>1, <2>2
<1>8. Orderly(a) BY <1>1, <1>7 DEF Orderly
<1> QED BY <1>8 DEF a

(* A commit keeps the invariant. A request that is loaded stays as it was, *)
(* and the log behind it gets no further request before it is reloaded.    *)
LEMMA ExtendsKeeps ==
  ASSUME ThreadConstants, ThreadInv, NEW t, NEW k, NEW r, Extends(t, k, r)
  PROVE  ThreadInv'
<1> DEFINE e == [kind |-> k, thread |-> t]
<1>1. /\ t \in Ids /\ k \in Kinds /\ r \in Phases /\ Born(t)
      /\ log' = [log EXCEPT ![t] = Append(@, e)] /\ run' = [run EXCEPT ![t] = r]
      /\ parent' = parent /\ cut' = cut /\ messages' = messages /\ snapshot' = snapshot
  BY DEF Extends, Commit, Goto
<1>2. e \in Entry /\ e.kind = k BY <1>1 DEF Entry
<1> HIDE DEF e
<1>3. ThreadTypes /\ Forest BY DEF ThreadInv
<1>4. log[t] \in Seq(Entry) BY <1>1, <1>3 DEF ThreadTypes
<1> DEFINE a == Append(log[t], e)
<1>5. /\ a \in Seq(Entry) /\ Len(a) = Len(log[t]) + 1 /\ a # << >>
      /\ \A n \in 1 .. Len(log[t]) : a[n] = log[t][n]
      /\ a[Len(log[t]) + 1] = e
  BY <1>2, <1>4, AppendProperties
<1>6. \A n \in 0 .. Len(log[t]) : SubSeq(a, 1, n) = SubSeq(log[t], 1, n)
  BY <1>2, <1>4, PrefixOfAppend
<1>7. log'[t] = a /\ \A u \in Ids : u # t => log'[u] = log[u] BY <1>1, <1>3 DEF ThreadTypes
<1> HIDE DEF a
<1>8. run'[t] = r /\ \A u \in Ids : u # t => run'[u] = run[u] BY <1>1, <1>3 DEF ThreadTypes
<1>9. ThreadTypes'
  <2>1. log' \in [Ids -> Seq(Entry)]
    <3>1. log' = [log EXCEPT ![t] = a] BY <1>1 DEF a
    <3> QED BY <1>1, <1>3, <1>5, <3>1 DEF ThreadTypes
  <2>2. run' \in [Ids -> Phases] BY <1>1, <1>3 DEF ThreadTypes
  <2>3. Ids' = Ids /\ Entry' = Entry /\ Phases' = Phases BY DEF Ids, Entry, Phases
  <2> QED BY <1>1, <1>3, <2>1, <2>2 DEF ThreadTypes
<1>10. \A u \in Ids : Born(u)' <=> Born(u) BY <1>1, <1>5, <1>7 DEF Born
<1>11. ASSUME NEW u \in Ids PROVE Len(log[u]) \in Nat /\ Len(log'[u]) >= Len(log[u])
  <2>1. log[u] \in Seq(Entry) BY <1>3 DEF ThreadTypes
  <2>2. Len(log[u]) \in Nat BY <2>1
  <2> QED BY <1>5, <1>7, <2>2
<1>12. Forest'
  <2>1. \A u \in Ids : ~Born(u) => run'[u] = "none" BY <1>1, <1>3, <1>8 DEF Forest
  <2>2. ASSUME NEW u \in Ids, parent[u] # 0
        PROVE  parent[u] < u /\ cut[u] <= Len(log'[parent[u]])
    <3>1. parent[u] \in Ids /\ parent[u] < u /\ cut[u] \in 0 .. Len(log[parent[u]])
      BY <1>3, <2>2, ParentsAreBorn
    <3>2. Len(log'[parent[u]]) >= Len(log[parent[u]]) /\ Len(log[parent[u]]) \in Nat
          /\ Len(log'[parent[u]]) \in Nat
      BY <1>9, <1>11, <3>1 DEF ThreadTypes
    <3> QED BY <3>1, <3>2
  <2>3. Ids' = Ids BY DEF Ids
  <2> QED BY <1>1, <1>3, <1>10, <2>1, <2>2, <2>3 DEF Forest
<1>13. Grown BY <1>1, <1>6, <1>7 DEF Grown
<1>14. \A u \in Ids : Born(u) => Inherited'[u] = Inherited[u]
                                 /\ (ForkedAtRest'[u] <=> ForkedAtRest[u])
  BY <1>3, <1>9, <1>12, <1>13, InheritedStays
<1>15. InheritsSnapshot'
  <2>1. SUFFICES ASSUME NEW u \in Ids, Born(u) PROVE Inherited'[u] = snapshot[u]
    BY <1>1, <1>10 DEF InheritsSnapshot, InheritedOf, Ids
  <2>2. Inherited[u] = snapshot[u] BY <2>1 DEF ThreadInv, InheritsSnapshot, InheritedOf
  <2> QED BY <1>14, <2>1, <2>2
<1>16. ASSUME NEW u \in Ids PROVE PlaceKnown(u)' /\ Orderly(log'[u])
  <2>1. CASE u = t
    <3>1. Last(a, Outcomes) = Outcome(log[t], k) /\ (Live(a) <=> Living(log[t], k))
      BY <1>2, <1>4, LastAppend DEF Outcome, Living, Live, a
    <3>2. /\ r = "none" <=> ~Living(log[t], k)
          /\ r \in {"proposed", "executing"} <=> Outcome(log[t], k) = "call"
          /\ r \in {"ready", "loaded", "streaming"} => Outcome(log[t], k) # "unknown"
      BY DEF Extends
    <3>3. PlaceKnown(t)' BY <1>7, <1>8, <3>1, <3>2 DEF PlaceKnown
    <3>4. Orderly(log[t]) BY <1>1 DEF ThreadInv
    <3>5. /\ k \in Talk => Follows(Last(log[t], Outcomes), k)
          /\ Outcome(log[t], k) = "call" => Living(log[t], k)
      BY DEF Extends
    <3>6. Orderly(a) BY <1>2, <1>4, <3>4, <3>5, OrderlyAppend DEF a
    <3> QED BY <1>7, <2>1, <3>3, <3>6
  <2>2. CASE u # t
    <3>1. PlaceKnown(u) /\ Orderly(log[u]) BY DEF ThreadInv
    <3>2. PlaceKnown(u)' BY <1>7, <1>8, <2>2, <3>1 DEF PlaceKnown
    <3> QED BY <1>7, <2>2, <3>1, <3>2
  <2> QED BY <2>1, <2>2
<1>17. \A u \in Ids : run'[u] = "loaded" => run[u] = "loaded" /\ Born(u)
  BY <1>1, <1>3, <1>8 DEF Extends, Forest
<1>18. RequestsPaired'
  <2>1. SUFFICES ASSUME NEW u \in Ids, run'[u] = "loaded", ForkedAtRest'[u]
                 PROVE  Paired(messages[u]) /\ Resolved(messages[u])
    BY <1>1 DEF RequestsPaired, Ids
  <2>2. run[u] = "loaded" /\ ForkedAtRest[u] BY <1>14, <1>17, <2>1
  <2> QED BY <2>2 DEF ThreadInv, RequestsPaired
<1>19. SteersReachModel'
  <2>1. SUFFICES ASSUME NEW u \in Ids, run'[u] = "loaded",
                        NEW n \in DOMAIN log'[u], NEW m \in DOMAIN log'[u],
                        n < m, log'[u][n].kind = "steer", log'[u][m].kind = "request"
                 PROVE  Count(messages[u], "steer") >= Count(SubSeq(log'[u], 1, m), "steer")
    BY <1>1 DEF SteersReachModel, Ids
  <2>2. /\ run[u] = "loaded"
        /\ \A i, j \in DOMAIN log[u] :
             i < j /\ log[u][i].kind = "steer" /\ log[u][j].kind = "request" =>
               Count(messages[u], "steer") >= Count(SubSeq(log[u], 1, j), "steer")
    BY <1>17, <2>1 DEF ThreadInv, SteersReachModel
  <2>3. CASE u # t BY <1>7, <2>1, <2>2, <2>3
  <2>4. CASE u = t
    <3>1. k # "request" BY <1>8, <2>1, <2>4 DEF Extends
    <3>2. n \in 1 .. Len(a) /\ m \in 1 .. Len(a) /\ Len(log[t]) \in Nat BY <1>4, <1>5, <1>7,
        <2>1, <2>4
    <3>3. m # Len(log[t]) + 1 BY <1>2, <1>5, <1>7, <2>1, <2>4, <3>1
    <3>4. n \in 1 .. Len(log[t]) /\ m \in 1 .. Len(log[t]) /\ m \in 0 .. Len(log[t])
      BY <1>5, <2>1, <3>2, <3>3
    <3>5. n \in DOMAIN log[t] /\ m \in DOMAIN log[t] BY <1>4, <3>4
    <3>6. log[t][n].kind = "steer" /\ log[t][m].kind = "request" BY <1>5, <1>7, <2>1, <2>4, <3>4
    <3>7. SubSeq(log'[u], 1, m) = SubSeq(log[t], 1, m) BY <1>6, <1>7, <2>4, <3>4
    <3> QED BY <2>1, <2>2, <2>4, <3>5, <3>6, <3>7
  <2> QED BY <2>3, <2>4
<1>20. Ids' = Ids BY DEF Ids
<1>21. (\A u \in Ids : PlaceKnown(u) /\ Orderly(log[u]))'
  BY <1>16, <1>20 DEF Orderly, Tidy
<1> QED BY <1>9, <1>12, <1>15, <1>18, <1>19, <1>21 DEF ThreadInv

(* Starting a tool keeps it.                                               *)
LEMMA QuietKeeps ==
  ASSUME ThreadConstants, ThreadInv, NEW t, Quiet(t)
  PROVE  ThreadInv'
<1>1. /\ t \in Ids /\ run[t] = "proposed" /\ run' = [run EXCEPT ![t] = "executing"]
      /\ log' = log /\ parent' = parent /\ cut' = cut /\ messages' = messages
      /\ snapshot' = snapshot
  BY DEF Quiet, Goto
<1>2. ThreadTypes' /\ Forest' BY <1>1 DEF ThreadInv, ThreadTypes, Forest, Phases, Born, Ids
<1>3. Inherited' = Inherited /\ ForkedAtRest' = ForkedAtRest BY <1>1 DEF Inherited, ForkedAtRest
<1>4. InheritsSnapshot' BY <1>1, <1>3 DEF ThreadInv, InheritsSnapshot, InheritedOf, Born, Ids
<1>5. \A u \in Ids : run'[u] = IF u = t THEN "executing" ELSE run[u]
  BY <1>1 DEF ThreadInv, ThreadTypes
<1>6. (\A u \in Ids : PlaceKnown(u) /\ Orderly(log[u]))'
  BY <1>1, <1>5 DEF ThreadInv, PlaceKnown, Orderly, Tidy, Ids
<1>7. RequestsPaired' BY <1>1, <1>3, <1>5 DEF ThreadInv, RequestsPaired, Ids
<1>8. SteersReachModel' BY <1>1, <1>5 DEF ThreadInv, SteersReachModel, Ids
<1> QED BY <1>2, <1>4, <1>6, <1>7, <1>8 DEF ThreadInv

(* Reloading the lineage establishes what is said of requests.             *)
LEMMA ReloadKeeps ==
  ASSUME ThreadConstants, ThreadInv, NEW t \in Ids, ReloadLineage(t)
  PROVE  ThreadInv'
<1>1. /\ run[t] = "ready" /\ run' = [run EXCEPT ![t] = "loaded"]
      /\ log' = log /\ parent' = parent /\ cut' = cut /\ snapshot' = snapshot
      /\ messages' = [messages EXCEPT ![t] = MessagesFromEvents(Lineage(t))]
  BY DEF ReloadLineage, Goto
<1>0. ThreadTypes /\ Forest /\ log[t] \in Seq(Entry) BY DEF ThreadInv, ThreadTypes
<1> DEFINE h == Inherited[t]
           s == h \o log[t]
           w == MessagesFromEvents(s)
<1>2. h \in Seq(Entry) BY <1>0, InheritedIsSeq
<1>3. s \in Seq(Entry) BY <1>0, <1>2, ConcatProperties
<1>4. w \in Seq(Entry) BY <1>3, KeptIsSeq DEF MessagesFromEvents
<1>5. Lineage(t) = s BY DEF Lineage, InheritedOf
<1>6. messages' = [messages EXCEPT ![t] = w] BY <1>1, <1>5
<1>7. ThreadTypes'
  <2>1. messages' \in [Ids -> Seq(Entry)] BY <1>0, <1>4, <1>6 DEF ThreadTypes
  <2>2. run' \in [Ids -> Phases] BY <1>0, <1>1 DEF ThreadTypes, Phases
  <2> QED BY <1>0, <1>1, <2>1, <2>2 DEF ThreadTypes, Ids, Entry, Phases
<1>8. \A u \in Ids : run'[u] = IF u = t THEN "loaded" ELSE run[u]
  BY <1>0, <1>1 DEF ThreadTypes
<1>9. \A u \in Ids : messages'[u] = IF u = t THEN w ELSE messages[u]
  BY <1>0, <1>6 DEF ThreadTypes
<1>10. Forest' BY <1>0, <1>1, <1>8 DEF Forest, Born, Ids
<1>11. Inherited' = Inherited /\ ForkedAtRest' = ForkedAtRest BY <1>1 DEF Inherited, ForkedAtRest
<1>12. InheritsSnapshot' BY <1>1, <1>11 DEF ThreadInv, InheritsSnapshot, InheritedOf, Born, Ids
<1>13. (\A u \in Ids : PlaceKnown(u) /\ Orderly(log[u]))'
  BY <1>1, <1>8 DEF ThreadInv, PlaceKnown, Orderly, Tidy, Ids
<1>14. RequestsPaired'
  <2>1. ASSUME ForkedAtRest[t] PROVE Paired(w) /\ Resolved(w)
    <3>1. Tidy(h) /\ Last(h, Outcomes) \notin {"call", "unknown"}
      BY <1>0, <2>1, RestIsTidy DEF ThreadInv
    <3>2. Tidy(log[t]) /\ Last(log[t], Outcomes) \notin {"call", "unknown"}
      BY <1>1 DEF ThreadInv, PlaceKnown, Orderly
    <3> HIDE DEF h, w
    <3>3. Tidy(s) BY <1>0, <1>2, <3>1, <3>2, TidyConcat
    <3>4. Last(s, Outcomes) = IF Last(log[t], Outcomes) \in Outcomes THEN Last(log[t], Outcomes)
                              ELSE Last(h, Outcomes)
      BY <1>0, <1>2, LastConcat DEF Outcomes
    <3>5. Last(s, Outcomes) \notin {"call", "unknown"} BY <3>1, <3>2, <3>4
    <3> HIDE DEF s
    <3> QED BY <1>3, <3>3, <3>5, TidyIsPaired DEF w
  <2> HIDE DEF w
  <2>2. \A u \in Ids : u # t /\ run[u] = "loaded" /\ ForkedAtRest[u] =>
          Paired(messages[u]) /\ Resolved(messages[u])
    BY DEF ThreadInv, RequestsPaired
  <2> QED BY <1>8, <1>9, <1>11, <2>1, <2>2 DEF RequestsPaired, Ids
<1>15. SteersReachModel'
  <2>1. SUFFICES ASSUME NEW u \in Ids, run'[u] = "loaded",
                        NEW n \in DOMAIN log[u], NEW m \in DOMAIN log[u],
                        n < m, log[u][n].kind = "steer", log[u][m].kind = "request"
                 PROVE  Count(messages'[u], "steer") >= Count(SubSeq(log[u], 1, m), "steer")
    BY <1>1 DEF SteersReachModel, Ids
  <2>2. CASE u # t
    <3>1. run[u] = "loaded" /\ messages'[u] = messages[u] BY <1>8, <1>9, <2>1, <2>2
    <3> QED BY <2>1, <3>1 DEF ThreadInv, SteersReachModel
  <2>3. CASE u = t
    <3>1. Count(log[t], "steer") <= Count(w, "steer") BY <1>0, <1>2, SteersKept
    <3>2. m \in 0 .. Len(log[t]) /\ m \in 1 .. Len(log[t]) BY <1>0, <2>1, <2>3
    <3>3. Count(SubSeq(log[t], 1, m), "steer") <= Count(log[t], "steer")
      BY <1>0, <3>2, CountPrefix
    <3>4. SubSeq(log[t], 1, m) \in Seq(Entry) BY <1>0, <3>2, PrefixOfSeq
    <3>5. /\ Count(SubSeq(log[t], 1, m), "steer") \in Nat /\ Count(log[t], "steer") \in Nat
          /\ Count(w, "steer") \in Nat
      BY <1>0, <1>4, <3>4, CountIsNat
    <3> QED BY <1>9, <2>3, <3>1, <3>3, <3>5
  <2> QED BY <2>2, <2>3
<1> QED BY <1>7, <1>10, <1>12, <1>13, <1>14, <1>15 DEF ThreadInv

-----------------------------------------------------------------------------

(* A new thread inherits its parent's context up to the fork point; nobody *)
(* inherits from it yet.                                                   *)
LEMMA FoundsKeeps ==
  ASSUME ThreadConstants, ThreadInv, NEW t, Founds(t)
  PROVE  ThreadInv'
<1> DEFINE e == [kind |-> "born", thread |-> t]
<1>1. /\ t \in Ids /\ ~Born(t) /\ (\A u \in Ids : u < t => Born(u))
      /\ log' = [log EXCEPT ![t] = Append(@, e)] /\ run' = run /\ messages' = messages
  BY DEF Founds, Commit, NextThread
<1>2. e \in Entry /\ e.kind = "born" BY <1>1 DEF Entry, Kinds
<1> HIDE DEF e
<1>3. ThreadTypes /\ Forest BY DEF ThreadInv
<1>4. log[t] = << >> /\ parent[t] = 0 /\ run[t] = "none" /\ snapshot[t] = << >>
  BY <1>1, <1>3 DEF Born, Forest
<1> DEFINE a == Append(<< >>, e)
<1>5. a \in Seq(Entry) /\ a # << >> /\ << >> \in Seq(Entry) BY <1>2, AppendProperties
<1>6. log'[t] = a /\ \A u \in Ids : u # t => log'[u] = log[u] BY <1>1, <1>3, <1>4 DEF ThreadTypes
<1> HIDE DEF a
<1>7. log' \in [Ids -> Seq(Entry)]
  <2>1. log' = [log EXCEPT ![t] = a] BY <1>1, <1>4 DEF a
  <2> QED BY <1>1, <1>3, <1>5, <2>1 DEF ThreadTypes
<1>8. \A u \in Ids : Born(u)' <=> u = t \/ Born(u) BY <1>5, <1>6 DEF Born
<1> DEFINE Forks(p, at) ==
             /\ p \in Ids /\ at \in 0 .. Len(log[p]) /\ Born(p)
             /\ parent' = [parent EXCEPT ![t] = p] /\ cut' = [cut EXCEPT ![t] = at]
             /\ snapshot' = [snapshot EXCEPT
                               ![t] = SubSeq(Lineage(p), 1, Len(InheritedOf(p)) + at)]
<1>9. \/ UNCHANGED <<parent, cut, snapshot>>
      \/ \E p, at : Forks(p, at)
  BY DEF Founds
<1>10. ASSUME NEW p, NEW at, Forks(p, at)
       PROVE  /\ p < t /\ p # 0 /\ p # t /\ log[p] \in Seq(Entry) /\ at \in Nat
              /\ Inherited[p] \in Seq(Entry)
              /\ snapshot' = [snapshot EXCEPT ![t] = Inherited[p] \o SubSeq(log[p], 1, at)]
              /\ Inherited[p] \o SubSeq(log[p], 1, at) \in Seq(Entry)
  <2>1. p \in Ids /\ Born(p) /\ at \in 0 .. Len(log[p]) BY <1>10
  <2>2. p # t BY <1>1, <2>1
  <2>3. ~(t < p) BY <1>1, <1>3, <2>1 DEF Forest
  <2>4. p < t /\ p # 0 BY <1>1, <2>1, <2>2, <2>3 DEF Ids
  <2>5. log[p] \in Seq(Entry) /\ Len(log[p]) \in Nat BY <1>3, <2>1 DEF ThreadTypes
  <2>6. Inherited[p] \in Seq(Entry) BY <1>3, <2>1, InheritedIsSeq
  <2>7. SubSeq(Inherited[p] \o log[p], 1, Len(Inherited[p]) + at) =
          Inherited[p] \o SubSeq(log[p], 1, at)
    BY <2>1, <2>5, <2>6, PrefixOfConcat
  <2>8. Inherited[p] \o SubSeq(log[p], 1, at) \in Seq(Entry)
    BY <2>1, <2>5, <2>6, PrefixOfSeq, ConcatProperties
  <2>9. SubSeq(Lineage(p), 1, Len(InheritedOf(p)) + at) = Inherited[p] \o SubSeq(log[p], 1, at)
    BY <2>7 DEF Lineage, InheritedOf
  <2>10. snapshot' = [snapshot EXCEPT ![t] = Inherited[p] \o SubSeq(log[p], 1, at)]
    BY <1>10, <2>9, Zenon
  <2> QED BY <2>1, <2>2, <2>4, <2>5, <2>6, <2>8, <2>10
<1> HIDE DEF Forks
<1>11. /\ parent' \in [Ids -> Nat] /\ cut' \in [Ids -> Nat] /\ snapshot' \in [Ids -> Seq(Entry)]
       /\ \A u \in Ids : u # t =>
            parent'[u] = parent[u] /\ cut'[u] = cut[u] /\ snapshot'[u] = snapshot[u]
  <2>1. CASE UNCHANGED <<parent, cut, snapshot>> BY <1>3, <2>1 DEF ThreadTypes
  <2>2. ASSUME NEW p, NEW at, Forks(p, at)
        PROVE  /\ parent' \in [Ids -> Nat] /\ cut' \in [Ids -> Nat]
               /\ snapshot' \in [Ids -> Seq(Entry)]
               /\ \A u \in Ids : u # t =>
                    parent'[u] = parent[u] /\ cut'[u] = cut[u] /\ snapshot'[u] = snapshot[u]
    <3> DEFINE v == Inherited[p] \o SubSeq(log[p], 1, at)
    <3>1. /\ p \in Nat /\ at \in Nat /\ v \in Seq(Entry)
          /\ parent' = [parent EXCEPT ![t] = p] /\ cut' = [cut EXCEPT ![t] = at]
          /\ snapshot' = [snapshot EXCEPT ![t] = v]
      <4>1. p \in Ids /\ parent' = [parent EXCEPT ![t] = p] /\ cut' = [cut EXCEPT ![t] = at]
        BY <2>2 DEF Forks
      <4>2. at \in Nat /\ v \in Seq(Entry) /\ snapshot' = [snapshot EXCEPT ![t] = v]
        BY <1>10, <2>2
      <4> QED BY <4>1, <4>2 DEF Ids
    <3> HIDE DEF v
    <3> QED BY <1>1, <1>3, <3>1 DEF ThreadTypes
  <2> QED BY <1>9, <2>1, <2>2
<1>12. ThreadTypes'
  <2>1. Ids' = Ids /\ Entry' = Entry /\ Phases' = Phases BY DEF Ids, Entry, Phases
  <2> QED BY <1>1, <1>3, <1>7, <1>11 DEF ThreadTypes
<1>13. \A u \in Ids : u # t => Len(log'[u]) = Len(log[u]) BY <1>6
<1>14. parent'[t] # 0 => parent'[t] < t /\ cut'[t] <= Len(log'[parent'[t]])
  <2>1. CASE UNCHANGED <<parent, cut, snapshot>> BY <1>4, <2>1
  <2>2. ASSUME NEW p, NEW at, Forks(p, at)
        PROVE  parent'[t] < t /\ cut'[t] <= Len(log'[parent'[t]])
    <3>1. parent'[t] = p /\ cut'[t] = at BY <1>1, <1>3, <2>2 DEF Forks, ThreadTypes
    <3>2. p \in Ids /\ p # t /\ p < t /\ at <= Len(log[p])
      <4>1. p \in Ids /\ at \in 0 .. Len(log[p]) BY <2>2 DEF Forks
      <4>2. p # t /\ p < t BY <1>10, <2>2
      <4> QED BY <4>1, <4>2
    <3> QED BY <1>6, <3>1, <3>2
  <2> QED BY <1>9, <2>1, <2>2
<1>15. Forest'
  <2>1. ASSUME NEW u \in Ids, NEW v \in Ids, Born(u)', v < u PROVE Born(v)'
    <3>1. CASE u = t BY <1>1, <1>8, <2>1, <3>1
    <3>2. CASE u # t BY <1>3, <1>8, <2>1, <3>2 DEF Forest
    <3> QED BY <3>1, <3>2
  <2>2. ASSUME NEW u \in Ids, ~Born(u)'
        PROVE  parent'[u] = 0 /\ run'[u] = "none" /\ snapshot'[u] = << >>
    BY <1>1, <1>3, <1>8, <1>11, <2>2 DEF Forest
  <2>3. ASSUME NEW u \in Ids, parent'[u] # 0
        PROVE  parent'[u] < u /\ cut'[u] <= Len(log'[parent'[u]])
    <3>1. CASE u = t BY <1>14, <2>3, <3>1
    <3>2. CASE u # t
      <4>1. parent'[u] = parent[u] /\ cut'[u] = cut[u] BY <1>11, <3>2
      <4>2. /\ parent[u] \in Ids /\ parent[u] < u /\ Born(parent[u])
            /\ cut[u] \in 0 .. Len(log[parent[u]])
        BY <1>3, <2>3, <4>1, ParentsAreBorn
      <4>3. parent[u] # t BY <1>1, <4>2
      <4>4. log'[parent[u]] = log[parent[u]] BY <1>6, <4>2, <4>3
      <4>5. cut[u] <= Len(log[parent[u]]) BY <4>2
      <4> QED BY <4>1, <4>2, <4>4, <4>5
    <3> QED BY <3>1, <3>2
  <2>4. Ids' = Ids BY DEF Ids
  <2> QED BY <2>1, <2>2, <2>3, <2>4 DEF Forest
<1>16. Grown
  <2>1. \A u \in Ids : Born(u) => u # t BY <1>1
  <2> QED BY <1>6, <1>11, <2>1 DEF Grown
<1>17. ASSUME NEW u \in Ids, Born(u)
       PROVE  Inherited'[u] = Inherited[u] /\ (ForkedAtRest'[u] <=> ForkedAtRest[u])
  BY <1>3, <1>12, <1>15, <1>16, <1>17, InheritedStays
<1>18. Inherited'[t] = snapshot'[t]
  <2>1. Inherited'[t] = IF parent'[t] = 0 THEN << >>
                        ELSE Inherited'[parent'[t]] \o SubSeq(log'[parent'[t]], 1, cut'[t])
    BY <1>1, <1>12, <1>15, InheritedUnfoldsNext
  <2>2. CASE UNCHANGED <<parent, cut, snapshot>> BY <1>4, <2>1, <2>2
  <2>3. ASSUME NEW p, NEW at, Forks(p, at) PROVE Inherited'[t] = snapshot'[t]
    <3>1. parent'[t] = p /\ cut'[t] = at BY <1>1, <1>3, <2>3 DEF Forks, ThreadTypes
    <3>2. p \in Ids /\ p # 0 /\ p # t /\ Born(p) BY <1>10, <2>3 DEF Forks
    <3>3. Inherited'[p] = Inherited[p] /\ log'[p] = log[p] BY <1>6, <1>17, <3>2
    <3>4. Inherited'[t] = Inherited[p] \o SubSeq(log[p], 1, at)
      BY <2>1, <3>1, <3>2, <3>3, Zenon
    <3>5. snapshot' = [snapshot EXCEPT ![t] = Inherited[p] \o SubSeq(log[p], 1, at)]
      BY <1>10, <2>3
    <3>6. snapshot'[t] = Inherited[p] \o SubSeq(log[p], 1, at)
      <4> DEFINE v == Inherited[p] \o SubSeq(log[p], 1, at)
      <4>1. snapshot' = [snapshot EXCEPT ![t] = v] BY <3>5
      <4> HIDE DEF v
      <4>2. snapshot'[t] = v BY <1>1, <1>3, <4>1 DEF ThreadTypes
      <4> QED BY <4>2 DEF v
    <3> QED BY <3>4, <3>6, Zenon
  <2> QED BY <1>9, <2>2, <2>3
<1>19. InheritsSnapshot'
  <2>1. SUFFICES ASSUME NEW u \in Ids, u = t \/ Born(u) PROVE Inherited'[u] = snapshot'[u]
    BY <1>8 DEF InheritsSnapshot, InheritedOf, Ids
  <2>2. CASE u = t BY <1>18, <2>2, Zenon
  <2>3. CASE u # t
    <3>1. Inherited[u] = snapshot[u] BY <2>1, <2>3 DEF ThreadInv, InheritsSnapshot, InheritedOf
    <3> QED BY <1>11, <1>17, <2>1, <2>3, <3>1
  <2> QED BY <2>2, <2>3
<1>20. ASSUME NEW u \in Ids PROVE PlaceKnown(u)' /\ Orderly(log'[u])
  <2>0. PlaceKnown(u) /\ Orderly(log[u]) BY DEF ThreadInv
  <2>1. CASE u = t
    <3>1. \A K : Last(a, K) = IF e.kind \in K THEN e.kind ELSE Last(<< >>, K)
      BY <1>2, <1>5, LastAppend DEF a
    <3>2. /\ Last(a, Outcomes) = Last(log[t], Outcomes) /\ (Live(a) <=> Live(log[t]))
      BY <1>2, <1>4, <3>1 DEF Live, Outcomes
    <3>3. PlaceKnown(u)' BY <1>1, <1>6, <2>0, <2>1, <3>2 DEF PlaceKnown
    <3>4. Orderly(<< >>) BY <1>4, <2>0, <2>1
    <3>5. e.kind \notin Talk BY <1>2 DEF Talk, Visible
    <3>6. Last(<< >>, Outcomes) # "call" BY DEF Last
    <3>7. Outcome(<< >>, e.kind) # "call" BY <1>2, <3>6 DEF Outcome, Outcomes
    <3>8. Orderly(a) BY <1>2, <1>5, <3>4, <3>5, <3>7, OrderlyAppend DEF a
    <3> QED BY <1>6, <2>1, <3>3, <3>8
  <2>2. CASE u # t
    <3>1. PlaceKnown(u)' BY <1>1, <1>6, <2>0, <2>2 DEF PlaceKnown
    <3> QED BY <1>6, <2>0, <2>2, <3>1
  <2> QED BY <2>1, <2>2
<1>21. \A u \in Ids : run[u] = "loaded" => Born(u) BY <1>3 DEF Forest
<1>22. RequestsPaired'
  <2>1. SUFFICES ASSUME NEW u \in Ids, run[u] = "loaded", ForkedAtRest'[u]
                 PROVE  Paired(messages[u]) /\ Resolved(messages[u])
    BY <1>1 DEF RequestsPaired, Ids
  <2>2. ForkedAtRest[u] BY <1>17, <1>21, <2>1
  <2> QED BY <2>1, <2>2 DEF ThreadInv, RequestsPaired
<1>23. SteersReachModel'
  <2>1. \A u \in Ids : run[u] = "loaded" => log'[u] = log[u] BY <1>1, <1>6, <1>21
  <2> QED BY <1>1, <2>1 DEF ThreadInv, SteersReachModel, Ids
<1>24. (\A u \in Ids : PlaceKnown(u) /\ Orderly(log[u]))'
  <2>1. Ids' = Ids BY DEF Ids
  <2> QED BY <1>20, <2>1 DEF Orderly, Tidy
<1> QED BY <1>12, <1>15, <1>19, <1>22, <1>23, <1>24 DEF ThreadInv

(* The invariant of Threads is inductive.                                  *)
LEMMA ThreadStep == ThreadConstants /\ ThreadInv /\ [Next]_vars => ThreadInv'
<1> SUFFICES ASSUME ThreadConstants, ThreadInv, [Next]_vars PROVE ThreadInv' OBVIOUS
<1>1. ASSUME UNCHANGED vars PROVE ThreadInv'
  <2>1. /\ log' = log /\ parent' = parent /\ cut' = cut /\ run' = run /\ messages' = messages
        /\ snapshot' = snapshot
    BY <1>1 DEF vars
  <2>2. ThreadTypes' /\ Forest' BY <2>1 DEF ThreadInv, ThreadTypes, Forest, Born, Ids, Phases, Entry
  <2>3. Inherited' = Inherited /\ ForkedAtRest' = ForkedAtRest BY <2>1 DEF Inherited, ForkedAtRest
  <2>4. InheritsSnapshot' BY <2>1, <2>3 DEF ThreadInv, InheritsSnapshot, InheritedOf, Born, Ids
  <2>5. (\A u \in Ids : PlaceKnown(u) /\ Orderly(log[u]))'
    BY <2>1 DEF ThreadInv, PlaceKnown, Orderly, Tidy, Ids
  <2>6. RequestsPaired' BY <2>1, <2>3 DEF ThreadInv, RequestsPaired, Ids
  <2>7. SteersReachModel' BY <2>1 DEF ThreadInv, SteersReachModel, Ids
  <2> QED BY <2>2, <2>4, <2>5, <2>6, <2>7 DEF ThreadInv
<1> QED BY <1>1, NextKinds, ExtendsKeeps, FoundsKeeps, QuietKeeps, ReloadKeeps

(* It holds of an empty ledger.                                            *)
LEMMA ThreadInit == ThreadConstants /\ Init => ThreadInv
<1> SUFFICES ASSUME ThreadConstants, Init PROVE ThreadInv OBVIOUS
<1>0. << >> \in Seq(Entry) OBVIOUS
<1>1. ThreadTypes BY <1>0 DEF Init, ThreadTypes, Phases
<1>2. Forest BY DEF Init, Forest, Born
<1>3. ASSUME NEW t \in Ids PROVE PlaceKnown(t) /\ Orderly(log[t])
  <2>1. log[t] = << >> /\ run[t] = "none" BY DEF Init
  <2>2. \A K : Last(<< >>, K) = "none" BY DEF Last
  <2>3. PlaceKnown(t) BY <2>1, <2>2 DEF PlaceKnown, Live
  <2>4. Tidy(<< >>) BY DEF Tidy
  <2>5. \A n \in 0 .. Len(<< >>) : SubSeq(<< >>, 1, n) = << >> BY SubSeqEmpty
  <2>6. Orderly(<< >>)
    <3>1. \A n \in 0 .. Len(<< >>) : Last(SubSeq(<< >>, 1, n), Outcomes) # "call"
      BY <2>2, <2>5
    <3> QED BY <2>4, <3>1 DEF Orderly
  <2> QED BY <2>1, <2>3, <2>6
<1>4. InheritsSnapshot BY DEF Init, InheritsSnapshot, Born
<1>5. RequestsPaired BY DEF Init, RequestsPaired
<1>6. SteersReachModel BY DEF Init, SteersReachModel
<1> QED BY <1>1, <1>2, <1>3, <1>4, <1>5, <1>6 DEF ThreadInv

(* ThreadInv is an invariant of Threads.                                   *)
LEMMA ThreadInvariant == ThreadConstants => (Spec => []ThreadInv)
<1> SUFFICES ASSUME ThreadConstants PROVE Spec => []ThreadInv OBVIOUS
<1>1. Init => ThreadInv BY ThreadInit
<1>2. ThreadInv /\ [Next]_vars => ThreadInv' BY ThreadStep
<1> QED BY <1>1, <1>2, PTL DEF Spec

(* A fork keeps the context its parent had up to the fork point, whatever  *)
(* is committed to the parent or any other ancestor afterwards             *)
(* (thread_fork, load_lineage_events), for any number of threads and       *)
(* levels of forks and logs of any length.                                 *)
THEOREM ForksKeepTheirContext == ThreadConstants => (Spec => []InheritsSnapshot)
<1> SUFFICES ASSUME ThreadConstants PROVE Spec => []InheritsSnapshot OBVIOUS
<1>1. ThreadInv => InheritsSnapshot BY DEF ThreadInv
<1>2. Spec => []ThreadInv BY ThreadInvariant
<1> QED BY <1>1, <1>2, PTL

(* A model request never carries a call without its result or a result     *)
(* still unknown, in any thread whose fork points lie between turns,       *)
(* through interrupts, restarts, reviews and steering                      *)
(* (settle_interrupted_turn, turn_start, thread_fork), for any number of   *)
(* threads, turns and calls.                                               *)
THEOREM RequestsCarryResults == ThreadConstants => (Spec => []RequestsPaired)
<1> SUFFICES ASSUME ThreadConstants PROVE Spec => []RequestsPaired OBVIOUS
<1>1. ThreadInv => RequestsPaired BY DEF ThreadInv
<1>2. Spec => []ThreadInv BY ThreadInvariant
<1> QED BY <1>1, <1>2, PTL

(* A steering message that was accepted before a request is in every       *)
(* request built later (turn_steer, the reload at the head of the agent    *)
(* loop), for any number of threads and messages.                          *)
THEOREM SteeringArrives == ThreadConstants => (Spec => []SteersReachModel)
<1> SUFFICES ASSUME ThreadConstants PROVE Spec => []SteersReachModel OBVIOUS
<1>1. ThreadInv => SteersReachModel BY DEF ThreadInv
<1>2. Spec => []ThreadInv BY ThreadInvariant
<1> QED BY <1>1, <1>2, PTL

-----------------------------------------------------------------------------
(* The projection.                                                         *)
USE DEF Replay!TurnStates, Replay!TurnDriven, Replay!TurnTerminal, Replay!Absent

(* What exists is filed under something that exists.                       *)
Filed ==
  /\ \A u \in Turns :
       /\ turn[u] # Replay!Absent => on[u] \in Threads /\ status[on[u]] # Replay!Absent
       /\ turn[u] = Replay!Absent => on[u] = Replay!Nothing
  /\ \A t \in Threads : ancestor[t] # Replay!Nothing => status[ancestor[t]] # Replay!Absent

-----------------------------------------------------------------------------
(* The projection keeps to its types: every accepted event carries states  *)
(* of the lifecycles.                                                      *)
LEMMA ReplayTypeStep == Replay!TypeOK /\ [Replay!Next]_(Replay!vars) => Replay!TypeOK'
<1> SUFFICES ASSUME Replay!TypeOK, [Replay!Next]_(Replay!vars) PROVE Replay!TypeOK' OBVIOUS
<1> USE DEF Replay!TypeOK, Replay!Statuses
<1>1. ASSUME NEW t \in Threads, NEW s \in Replay!Statuses \ {Replay!Absent}, Replay!ThreadStarted(t, s)
      PROVE Replay!TypeOK'
  BY <1>1 DEF Replay!ThreadStarted
<1>2. ASSUME NEW t \in Threads, Replay!ThreadArchived(t) PROVE Replay!TypeOK'
  BY <1>2 DEF Replay!ThreadArchived
<1>3. ASSUME NEW t \in Threads, NEW p \in Threads, NEW s \in Replay!Statuses \ {Replay!Absent},
             Replay!ThreadForked(t, p, s)
      PROVE Replay!TypeOK'
  BY <1>3 DEF Replay!ThreadForked
<1>4. ASSUME NEW t \in Threads, NEW u \in Turns, Replay!TurnStarted(t, u)
      PROVE Replay!TypeOK'
  BY <1>4 DEF Replay!TurnStarted
<1>5. ASSUME NEW u \in Turns, NEW from \in Replay!TurnStates, NEW to \in Replay!TurnStates,
             Replay!TurnStateChanged(u, from, to)
      PROVE Replay!TypeOK'
  <2>1. Replay!StatusAfter(to) \in Replay!Statuses BY DEF Replay!StatusAfter
  <2>2. turn' \in [Turns -> Replay!TurnStates \cup {Replay!Absent}]
    BY <1>5 DEF Replay!TurnStateChanged
  <2>3. status' \in [Threads -> Replay!Statuses]
    BY <1>5, <2>1 DEF Replay!TurnStateChanged
  <2> QED BY <1>5, <2>2, <2>3 DEF Replay!TurnStateChanged
<1>6. ASSUME NEW i \in Invs, NEW t \in Threads, NEW u \in Turns,
             NEW b \in BOOLEAN, Replay!InvocationProposed(i, t, u, b)
      PROVE Replay!TypeOK'
  <2>1. inv' \in [Invs -> Replay!InvStates \cup {Replay!Absent}]
    BY <1>6 DEF Replay!InvocationProposed, Replay!InvStates, Replay!PreExecution
  <2>2. of' \in [Invs -> Turns \cup {Replay!Nothing}]
        /\ home' \in [Invs -> Threads \cup {Replay!Nothing}]
    BY <1>6 DEF Replay!InvocationProposed
  <2>3. retry' \in SUBSET Invs BY <1>6 DEF Replay!InvocationProposed
  <2> QED BY <1>6, <2>1, <2>2, <2>3 DEF Replay!InvocationProposed
<1>7. ASSUME NEW i \in Invs, NEW t \in Threads, NEW u \in Turns,
             NEW from \in Replay!InvStates, NEW to \in Replay!InvStates,
             Replay!InvocationStateChanged(i, t, u, from, to)
      PROVE Replay!TypeOK'
  BY <1>7 DEF Replay!InvocationStateChanged
<1>8. ASSUME NEW i \in Invs, NEW t \in Threads, NEW u \in Turns,
             NEW to \in Replay!InvStates, Replay!InvocationReconciled(i, t, u, to)
      PROVE Replay!TypeOK'
  BY <1>8 DEF Replay!InvocationReconciled
<1>9. CASE UNCHANGED Replay!vars BY <1>9 DEF Replay!vars
<1> HIDE DEF Replay!TypeOK
<1> QED BY <1>1, <1>2, <1>3, <1>4, <1>5, <1>6, <1>7, <1>8, <1>9 DEF Replay!Next

(* Turns are filed under threads that exist, children under parents that   *)
(* do: threads are never removed.                                          *)
LEMMA ReplayFiledStep == Replay!TypeOK /\ Filed /\ [Replay!Next]_(Replay!vars) => Filed'
<1> SUFFICES ASSUME Replay!TypeOK, Filed, [Replay!Next]_(Replay!vars) PROVE Filed' OBVIOUS
<1> USE HistoryAssumption DEF Replay!TypeOK, Replay!Statuses, Filed
<1>1. ASSUME NEW t \in Threads, NEW s \in Replay!Statuses \ {Replay!Absent}, Replay!ThreadStarted(t, s)
      PROVE Filed'
  BY <1>1 DEF Replay!ThreadStarted
<1>2. ASSUME NEW t \in Threads, Replay!ThreadArchived(t) PROVE Filed'
  BY <1>2 DEF Replay!ThreadArchived
<1>3. ASSUME NEW t \in Threads, NEW p \in Threads, NEW s \in Replay!Statuses \ {Replay!Absent},
             Replay!ThreadForked(t, p, s)
      PROVE Filed'
  BY <1>3 DEF Replay!ThreadForked
<1>4. ASSUME NEW t \in Threads, NEW u \in Turns, Replay!TurnStarted(t, u)
      PROVE Filed'
  BY <1>4 DEF Replay!TurnStarted
<1>5. ASSUME NEW u \in Turns, NEW from \in Replay!TurnStates, NEW to \in Replay!TurnStates,
             Replay!TurnStateChanged(u, from, to)
      PROVE Filed'
  <2>1. Replay!StatusAfter(to) # Replay!Absent BY DEF Replay!StatusAfter
  <2>2. \A t \in Threads : status[t] # Replay!Absent => status'[t] # Replay!Absent
    BY <1>5, <2>1 DEF Replay!TurnStateChanged
  <2>3. \A v \in Turns : turn'[v] # Replay!Absent => turn[v] # Replay!Absent
    BY <1>5 DEF Replay!TurnStateChanged
  <2> QED BY <1>5, <2>2, <2>3 DEF Replay!TurnStateChanged
<1>6. CASE UNCHANGED <<status, ancestor, turn, on>> BY <1>6
<1> QED BY <1>1, <1>2, <1>3, <1>4, <1>5, <1>6
         DEF Replay!Next, Replay!vars, Replay!InvocationProposed, Replay!InvocationStateChanged,
             Replay!InvocationReconciled

-----------------------------------------------------------------------------
(* A turn that ends was the only live one of its thread, so that the       *)
(* status it leaves behind is true.                                        *)
LEMMA ReplayStatusStep ==
  Replay!TypeOK /\ Filed /\ StatusTellsTruth /\ [Replay!Next]_(Replay!vars) => StatusTellsTruth'
<1> SUFFICES ASSUME Replay!TypeOK, Filed, StatusTellsTruth, [Replay!Next]_(Replay!vars)
             PROVE StatusTellsTruth'
  OBVIOUS
<1> USE DEF Replay!TypeOK, Replay!Statuses, StatusTellsTruth, Replay!StatusTellsTruth
<1>1. ASSUME NEW t \in Threads, NEW s \in Replay!Statuses \ {Replay!Absent}, Replay!ThreadStarted(t, s)
      PROVE StatusTellsTruth'
  <2>1. \A u \in Turns : on[u] # t BY <1>1, HistoryAssumption DEF Replay!ThreadStarted, Filed
  <2>2. \A r \in Threads : Replay!ActiveTurns(r)' = Replay!ActiveTurns(r)
    BY <1>1 DEF Replay!ThreadStarted, Replay!ActiveTurns
  <2>3. Replay!ActiveTurns(t) = {} BY <2>1 DEF Replay!ActiveTurns
  <2>4. \A r \in Threads \ {t} : status'[r] = status[r] BY <1>1 DEF Replay!ThreadStarted
  <2> QED BY <1>1, <2>1, <2>2, <2>3, <2>4 DEF Replay!ThreadStarted
<1>2. ASSUME NEW t \in Threads, Replay!ThreadArchived(t) PROVE StatusTellsTruth'
  BY <1>2 DEF Replay!ThreadArchived, Replay!ActiveTurns
<1>3. ASSUME NEW t \in Threads, NEW p \in Threads, NEW s \in Replay!Statuses \ {Replay!Absent},
             Replay!ThreadForked(t, p, s)
      PROVE StatusTellsTruth'
  <2>1. \A u \in Turns : on[u] # t BY <1>3, HistoryAssumption DEF Replay!ThreadForked, Filed
  <2>2. \A r \in Threads : Replay!ActiveTurns(r)' = Replay!ActiveTurns(r)
    BY <1>3 DEF Replay!ThreadForked, Replay!ActiveTurns
  <2>3. Replay!ActiveTurns(t) = {} BY <2>1 DEF Replay!ActiveTurns
  <2>4. \A r \in Threads \ {t} : status'[r] = status[r] BY <1>3 DEF Replay!ThreadForked
  <2> QED BY <1>3, <2>1, <2>2, <2>3, <2>4 DEF Replay!ThreadForked
<1>4. ASSUME NEW t \in Threads, NEW u \in Turns, Replay!TurnStarted(t, u)
      PROVE StatusTellsTruth'
  <2>1. Replay!ActiveTurns(t)' = {u} BY <1>4 DEF Replay!TurnStarted, Replay!ActiveTurns
  <2>2. \A s \in Threads \ {t} :
          Replay!ActiveTurns(s)' = Replay!ActiveTurns(s) /\ status'[s] = status[s]
    BY <1>4 DEF Replay!TurnStarted, Replay!ActiveTurns, Filed
  <2>3. status'[t] = "active" BY <1>4 DEF Replay!TurnStarted
  <2>4. \A s \in Threads \ {t}, v \in Turns : on'[v] = s => on[v] = s
    BY <1>4 DEF Replay!TurnStarted
  <2> QED BY <2>1, <2>2, <2>3, <2>4, SMTT(30)
<1>5. ASSUME NEW u \in Turns, NEW from \in Replay!TurnStates, NEW to \in Replay!TurnStates,
             Replay!TurnStateChanged(u, from, to)
      PROVE StatusTellsTruth'
  <2>1. PICK h \in Threads : h = on[u] BY <1>5 DEF Replay!TurnStateChanged, Filed
  <2>2. u \in Replay!ActiveTurns(h) /\ turn'[u] = to /\ to # Replay!Absent
    BY <1>5, <2>1 DEF Replay!TurnStateChanged, Replay!CanTransitionTurn, Filed, Replay!ActiveTurns
  <2>3. Replay!ActiveTurns(h) = {u} BY <2>2
  <2>4. \A s \in Threads \ {h} :
          Replay!ActiveTurns(s)' = Replay!ActiveTurns(s) /\ status'[s] = status[s]
    BY <1>5, <2>1 DEF Replay!TurnStateChanged, Replay!ActiveTurns
  <2>5. CASE to \in Replay!TurnTerminal
    <3>1. Replay!ActiveTurns(h)' = {}
      BY <1>5, <2>2, <2>1, <2>3, <2>5 DEF Replay!TurnStateChanged, Replay!ActiveTurns
    <3>2. status'[h] \in {"idle", "failed"}
      BY <1>5, <2>1, <2>5 DEF Replay!TurnStateChanged, Replay!StatusAfter
    <3>3. on' = on BY <1>5 DEF Replay!TurnStateChanged
    <3> QED BY <2>4, <3>1, <3>2, <3>3
  <2>6. CASE to \notin Replay!TurnTerminal
    <3>1. Replay!ActiveTurns(h)' = {u}
      BY <1>5, <2>2, <2>1, <2>3, <2>6 DEF Replay!TurnStateChanged, Replay!ActiveTurns
    <3>2. status' = status BY <1>5, <2>6 DEF Replay!TurnStateChanged
    <3>3. \A s \in Threads : Replay!ActiveTurns(s)' = Replay!ActiveTurns(s)
      BY <2>3, <2>4, <3>1
    <3>4. on' = on BY <1>5 DEF Replay!TurnStateChanged
    <3> QED BY <3>2, <3>3, <3>4
  <2> QED BY <2>5, <2>6
<1>6. CASE UNCHANGED <<status, ancestor, turn, on>> BY <1>6 DEF Replay!ActiveTurns
<1> QED BY <1>1, <1>2, <1>3, <1>4, <1>5, <1>6
         DEF Replay!Next, Replay!vars, Replay!InvocationProposed, Replay!InvocationStateChanged,
             Replay!InvocationReconciled

(* A fork is new, so no thread of a set without it has it as its parent.   *)
LEMMA ReplayLineageStep ==
  Replay!TypeOK /\ Filed /\ Replay!LineageEnds /\ [Replay!Next]_(Replay!vars) => Replay!LineageEnds'
<1> SUFFICES ASSUME Replay!TypeOK, Filed, Replay!LineageEnds, [Replay!Next]_(Replay!vars)
             PROVE Replay!LineageEnds'
  OBVIOUS
<1>1. ASSUME NEW t \in Threads, NEW p \in Threads, NEW s \in Replay!Statuses \ {Replay!Absent},
             Replay!ThreadForked(t, p, s)
      PROVE Replay!LineageEnds'
  <2> SUFFICES ASSUME NEW S \in SUBSET Threads, S # {}
               PROVE \E u \in S : ancestor'[u] \notin S
    BY DEF Replay!LineageEnds
  <2>1. t # p /\ ancestor'[t] = p
        /\ \A u \in Threads \ {t} : ancestor'[u] = ancestor[u] /\ ancestor[u] # t
    BY <1>1, HistoryAssumption DEF Replay!ThreadForked, Replay!TypeOK, Filed
  <2>2. CASE S \subseteq {t} BY <2>1, <2>2
  <2>3. CASE ~(S \subseteq {t})
    <3>1. PICK u \in S \ {t} : ancestor[u] \notin S \ {t}
      <4>1. S \ {t} \in SUBSET Threads /\ S \ {t} # {} BY <2>3
      <4> QED BY <4>1 DEF Replay!LineageEnds
    <3>2. ancestor'[u] \notin S BY <2>1, <3>1
    <3> QED BY <3>1, <3>2
  <2> QED BY <2>2, <2>3
<1>2. CASE UNCHANGED ancestor BY <1>2 DEF Replay!LineageEnds
<1> QED BY <1>1, <1>2
         DEF Replay!Next, Replay!vars, Replay!ThreadStarted, Replay!ThreadArchived, Replay!TurnStarted,
             Replay!TurnStateChanged, Replay!InvocationProposed, Replay!InvocationStateChanged,
             Replay!InvocationReconciled

-----------------------------------------------------------------------------
(* All four hold of every state of a replay.                               *)
ReplayInv == Replay!TypeOK /\ Filed /\ StatusTellsTruth /\ Replay!LineageEnds

(* An empty projection has nothing to file and no lineage.                 *)
LEMMA ReplayStart == Replay!Init => ReplayInv
<1> SUFFICES ASSUME Replay!Init PROVE ReplayInv OBVIOUS
<1>1. Replay!TypeOK BY DEF Replay!Init, Replay!TypeOK, Replay!Statuses
<1>2. Filed BY DEF Replay!Init, Filed
<1>3. StatusTellsTruth BY DEF Replay!Init, StatusTellsTruth, Replay!StatusTellsTruth, Replay!ActiveTurns
<1>4. Replay!LineageEnds BY HistoryAssumption DEF Replay!Init, Replay!LineageEnds
<1> QED BY <1>1, <1>2, <1>3, <1>4 DEF ReplayInv

(* Every event that apply accepts keeps the invariant.                     *)
LEMMA ReplayStep == ReplayInv /\ [Replay!Next]_(Replay!vars) => ReplayInv'
  BY ReplayTypeStep, ReplayFiledStep, ReplayStatusStep, ReplayLineageStep DEF ReplayInv

(* Every history that replays keeps the invariant.                         *)
LEMMA ReplayInvariant == Replay!Spec => []ReplayInv
  BY ReplayStart, ReplayStep, PTL DEF Replay!Spec

(* Whatever events a ledger holds, what Projection::apply accepts leaves   *)
(* every thread with at most one live turn and a status that agrees.       *)
THEOREM StatusAlwaysTrue == Replay!Spec => []StatusTellsTruth
<1>1. ReplayInv => StatusTellsTruth BY DEF ReplayInv
<1> QED BY <1>1, ReplayInvariant, PTL

(* Following parents ends, over any number of threads and levels of forks  *)
(* (Projection::apply, load_lineage_events).                               *)
THEOREM LineageAlwaysEnds == Replay!Spec => []Replay!LineageEnds
<1>1. ReplayInv => Replay!LineageEnds BY DEF ReplayInv
<1> QED BY <1>1, ReplayInvariant, PTL

(* No event, in whatever order and with whatever envelope, changes a turn  *)
(* or an outcome that is settled (Projection::apply).                      *)
THEOREM SettledForGood == Replay!Spec => Replay!SettledStaysSettled
<1> DEFINE Step ==
      /\ \A u \in Turns : turn[u] \in Replay!TurnTerminal => turn'[u] = turn[u]
      /\ \A i \in Invs :
           /\ inv[i] \in Replay!InvTerminal => inv'[i] = inv[i]
           /\ inv[i] = "unknown" /\ i \notin retry =>
                inv'[i] \in {"unknown", "completed", "failed"}
           /\ inv[i] \in Replay!PreExecution => inv'[i] # "unknown"
<1>1. Replay!TypeOK /\ Replay!Next => Step
  <2> SUFFICES ASSUME Replay!TypeOK, Replay!Next PROVE Step OBVIOUS
  <2>1. \A u \in Turns : turn[u] \in Replay!TurnTerminal => turn'[u] = turn[u]
    <3>1. ASSUME NEW t \in Threads, NEW v \in Turns, Replay!TurnStarted(t, v)
          PROVE \A u \in Turns : turn[u] \in Replay!TurnTerminal => turn'[u] = turn[u]
      BY <3>1 DEF Replay!TurnStarted, Replay!TypeOK
    <3>2. ASSUME NEW v \in Turns, NEW from \in Replay!TurnStates, NEW to \in Replay!TurnStates,
                 Replay!TurnStateChanged(v, from, to)
          PROVE \A u \in Turns : turn[u] \in Replay!TurnTerminal => turn'[u] = turn[u]
      <4>1. turn[v] \notin Replay!TurnTerminal
        BY <3>2 DEF Replay!TurnStateChanged, Replay!CanTransitionTurn
      <4>2. \A u \in Turns : u # v => turn'[u] = turn[u]
        BY <3>2 DEF Replay!TurnStateChanged, Replay!TypeOK
      <4> QED BY <4>1, <4>2, Zenon
    <3>3. \/ turn' = turn
          \/ \E t \in Threads, v \in Turns : Replay!TurnStarted(t, v)
          \/ \E v \in Turns, from, to \in Replay!TurnStates : Replay!TurnStateChanged(v, from, to)
      BY Zenon DEF Replay!Next, Replay!ThreadStarted, Replay!ThreadArchived, Replay!ThreadForked,
           Replay!InvocationProposed, Replay!InvocationStateChanged, Replay!InvocationReconciled
    <3> QED BY <3>1, <3>2, <3>3, Zenon
  <2>2. ASSUME NEW i \in Invs
        PROVE /\ inv[i] \in Replay!InvTerminal => inv'[i] = inv[i]
              /\ inv[i] = "unknown" /\ i \notin retry =>
                   inv'[i] \in {"unknown", "completed", "failed"}
              /\ inv[i] \in Replay!PreExecution => inv'[i] # "unknown"
    <3> USE DEF Replay!InvTerminal, Replay!PreExecution
    <3>1. ASSUME NEW j \in Invs, NEW t \in Threads, NEW u \in Turns,
                 NEW b \in BOOLEAN, Replay!InvocationProposed(j, t, u, b)
          PROVE inv'[i] = inv[i] \/ inv[i] = Replay!Absent
      BY <3>1 DEF Replay!InvocationProposed, Replay!TypeOK
    <3>2. ASSUME NEW j \in Invs, NEW t \in Threads, NEW u \in Turns,
                 NEW from \in Replay!InvStates, NEW to \in Replay!InvStates,
                 Replay!InvocationStateChanged(j, t, u, from, to)
          PROVE \/ inv'[i] = inv[i]
                \/ Replay!CanTransitionWithIdempotency(i, inv[i], inv'[i])
      BY <3>2 DEF Replay!InvocationStateChanged, Replay!TypeOK
    <3>3. ASSUME NEW j \in Invs, NEW t \in Threads, NEW u \in Turns,
                 NEW to \in Replay!InvStates, Replay!InvocationReconciled(j, t, u, to)
          PROVE inv'[i] = inv[i] \/ Replay!CanReconcileInvocation(inv[i], inv'[i])
      BY <3>3 DEF Replay!InvocationReconciled, Replay!TypeOK
    <3>4. \/ inv'[i] = inv[i] \/ inv[i] = Replay!Absent
          \/ Replay!CanTransitionWithIdempotency(i, inv[i], inv'[i])
          \/ Replay!CanReconcileInvocation(inv[i], inv'[i])
      BY <3>1, <3>2, <3>3
         DEF Replay!Next, Replay!ThreadStarted, Replay!ThreadArchived, Replay!ThreadForked, Replay!TurnStarted,
             Replay!TurnStateChanged
    <3> QED BY <3>4 DEF Replay!CanTransitionWithIdempotency, Replay!CanTransitionInvocation,
                        Replay!CanReconcileInvocation
  <2> QED BY <2>1, <2>2
<1>2. Replay!TypeOK /\ [Replay!Next]_(Replay!vars) => [Step]_(Replay!vars) BY <1>1
<1>3. ReplayInv => Replay!TypeOK BY DEF ReplayInv
<1> QED BY <1>2, <1>3, ReplayInvariant, PTL DEF Replay!Spec, Replay!SettledStaysSettled

=============================================================================
