--------------------------- MODULE DecodingProofs ---------------------------
(***************************************************************************)
(* Decoding for responses of any length, cut into any pieces.              *)
(***************************************************************************)
EXTENDS Decoding, SequenceTheorems, FiniteSetTheorems, WellFoundedInduction, TLAPS

-----------------------------------------------------------------------------
(* Prefixes of a pattern, after Knuth, Morris and Pratt.                   *)

(* Nonempty sets of natural numbers have a least element.  It takes the    *)
(* place of induction: a claim about every number is shown by refuting the *)
(* least exception.                                                        *)
LEMMA LeastElement ==
  ASSUME NEW S, S \subseteq Nat, S # {}
  PROVE  \E n \in S : \A m \in S : n <= m
<1> DEFINE R == OpToRel(<, Nat)
<1>1. IsWellFoundedOn(R, Nat) BY NatLessThanWellFounded, Zenon
<1> HIDE DEF R
<1>2. \E x \in S : \A y \in S : ~ (<<y, x>> \in R)
  BY <1>1, WFMin
<1>3. PICK x \in S : \A y \in S : ~ (<<y, x>> \in R) BY <1>2
<1>4. ASSUME NEW y \in S PROVE x <= y
  <2>1. ~(<<y, x>> \in R) BY <1>3
  <2>2. y \in Nat /\ x \in Nat OBVIOUS
  <2>3. ~(y < x) BY <2>1, <2>2 DEF R, OpToRel
  <2> QED BY <2>2, <2>3
<1> QED BY <1>4

-----------------------------------------------------------------------------
(* The first m letters of q are the last m of the first n of t.            *)
Ends(q, m, t, n) == m <= n /\ \A i \in 1 .. m : q[i] = t[n - m + i]

(* The longest border of the first n letters of q has length m.            *)
Longest(q, n, m) == m < n /\ Ends(q, m, q, n) /\ \A b \in m + 1 .. n - 1 : ~Ends(q, b, q, n)

(* The first n letters of t end with the first m of q, and no longer       *)
(* prefix of q, of up to B letters, that they end with can be continued by *)
(* the next letter of t.                                                   *)
Candidate(q, m, t, n, B) ==
  Ends(q, m, t, n) /\ \A b \in m + 1 .. B : Ends(q, b, t, n) => q[b + 1] # t[n + 1]

(* A prefix can be extended exactly by the letter that follows.            *)
LEMMA EndsLonger ==
  ASSUME NEW q, NEW t, NEW m \in Nat, NEW n \in Nat
  PROVE  Ends(q, m + 1, t, n + 1) <=> Ends(q, m, t, n) /\ q[m + 1] = t[n + 1]
<1>1. ASSUME Ends(q, m + 1, t, n + 1) PROVE Ends(q, m, t, n) /\ q[m + 1] = t[n + 1]
  <2>1. \A i \in 1 .. m + 1 : q[i] = t[(n + 1) - (m + 1) + i] BY <1>1 DEF Ends
  <2>2. q[m + 1] = t[n + 1]
    <3>1. m + 1 \in 1 .. m + 1 /\ (n + 1) - (m + 1) + (m + 1) = n + 1 OBVIOUS
    <3> QED BY <2>1, <3>1
  <2>3. ASSUME NEW i \in 1 .. m PROVE q[i] = t[n - m + i]
    <3>1. i \in 1 .. m + 1 /\ (n + 1) - (m + 1) + i = n - m + i OBVIOUS
    <3> QED BY <2>1, <3>1
  <2> QED BY <1>1, <2>2, <2>3 DEF Ends
<1>2. ASSUME Ends(q, m, t, n), q[m + 1] = t[n + 1] PROVE Ends(q, m + 1, t, n + 1)
  <2>1. \A i \in 1 .. m : q[i] = t[n - m + i] BY <1>2 DEF Ends
  <2>2. ASSUME NEW i \in 1 .. m + 1 PROVE q[i] = t[(n + 1) - (m + 1) + i]
    <3>1. CASE i = m + 1
      <4>1. (n + 1) - (m + 1) + i = n + 1 BY <3>1
      <4> QED BY <4>1, <3>1, <1>2
    <3>2. CASE i # m + 1
      <4>1. i \in 1 .. m /\ (n + 1) - (m + 1) + i = n - m + i BY <3>2
      <4> QED BY <4>1, <2>1
    <3> QED BY <3>1, <3>2
  <2> QED BY <1>2, <2>2 DEF Ends
<1> QED BY <1>1, <1>2

(* A border of a prefix that the text ends with is a shorter prefix that   *)
(* it ends with, and conversely.                                           *)
LEMMA EndsTransitive ==
  ASSUME NEW q, NEW t, NEW b \in Nat, NEW m \in Nat, NEW n \in Nat, b <= m, Ends(q, m, t, n)
  PROVE  Ends(q, b, q, m) <=> Ends(q, b, t, n)
<1>1. \A i \in 1 .. m : q[i] = t[n - m + i] BY DEF Ends
<1>2. m <= n BY DEF Ends
<1>3. ASSUME NEW i \in 1 .. b PROVE q[m - b + i] = t[n - b + i]
  <2>1. m - b + i \in 1 .. m /\ n - m + (m - b + i) = n - b + i BY <1>2
  <2> QED BY <1>1, <2>1
<1> QED BY <1>2, <1>3 DEF Ends

(* Falling back to the longest border loses no candidate.                  *)
LEMMA FallBack ==
  ASSUME NEW q, NEW t, NEW m \in Nat, NEW n \in Nat, NEW B \in Nat, NEW p \in Nat,
         Candidate(q, m, t, n, B), q[m + 1] # t[n + 1], Longest(q, m, p)
  PROVE  Candidate(q, p, t, n, B)
<1>1. p < m /\ p <= m /\ Ends(q, p, q, m) /\ Ends(q, m, t, n) BY DEF Longest, Candidate
<1>2. Ends(q, p, t, n) BY <1>1, EndsTransitive
<1>3. ASSUME NEW b \in p + 1 .. B, Ends(q, b, t, n) PROVE q[b + 1] # t[n + 1]
  <2>1. b \in Nat BY <1>3
  <2>2. CASE b > m
    <3>1. b \in m + 1 .. B BY <2>2, <1>3
    <3> QED BY <3>1, <1>3 DEF Candidate
  <2>3. CASE b = m BY <2>3
  <2>4. CASE b < m
    <3>1. b \in p + 1 .. m - 1 /\ b <= m BY <2>4, <1>3
    <3>2. Ends(q, b, q, m) BY <3>1, <2>1, <1>1, <1>3, EndsTransitive
    <3> QED BY <3>1, <3>2 DEF Longest
  <2> QED BY <2>1, <2>2, <2>3, <2>4
<1> QED BY <1>2, <1>3 DEF Candidate

(* When the next letter continues the candidate, the longer prefix is the  *)
(* longest the text ends with.                                             *)
LEMMA GoesOn ==
  ASSUME NEW q, NEW t, NEW m \in Nat, NEW n \in Nat, NEW B \in Nat,
         Candidate(q, m, t, n, B), q[m + 1] = t[n + 1]
  PROVE  /\ Ends(q, m + 1, t, n + 1)
         /\ \A b \in m + 2 .. B + 1 : ~Ends(q, b, t, n + 1)
<1>1. Ends(q, m + 1, t, n + 1) BY EndsLonger DEF Candidate
<1>2. ASSUME NEW b \in m + 2 .. B + 1, Ends(q, b, t, n + 1) PROVE FALSE
  <2>1. PICK a \in Nat : a = b - 1 OBVIOUS
  <2>2. a \in m + 1 .. B /\ b = a + 1 BY <2>1
  <2>3. Ends(q, a, t, n) /\ q[a + 1] = t[n + 1] BY <2>2, <1>2, EndsLonger
  <2> QED BY <2>2, <2>3 DEF Candidate
<1> QED BY <1>1, <1>2

(* When not even the first letter continues, the text ends with no prefix. *)
LEMMA GoesNowhere ==
  ASSUME NEW q, NEW t, NEW n \in Nat, NEW B \in Nat,
         Candidate(q, 0, t, n, B), q[1] # t[n + 1]
  PROVE  /\ Ends(q, 0, t, n + 1)
         /\ \A b \in 1 .. B + 1 : ~Ends(q, b, t, n + 1)
<1>1. Ends(q, 0, t, n + 1) BY DEF Ends
<1>2. ASSUME NEW b \in 1 .. B + 1, Ends(q, b, t, n + 1) PROVE FALSE
  <2>1. PICK a \in Nat : a = b - 1 OBVIOUS
  <2>2. a \in 0 .. B /\ b = a + 1 BY <2>1
  <2>3. Ends(q, a, t, n) /\ q[a + 1] = t[n + 1] BY <2>2, <1>2, EndsLonger
  <2>4. CASE a = 0 BY <2>3, <2>4
  <2>5. CASE a # 0
    <3>1. a \in 0 + 1 .. B BY <2>5, <2>2
    <3> QED BY <3>1, <2>3 DEF Candidate
  <2> QED BY <2>4, <2>5
<1> QED BY <1>1, <1>2

-----------------------------------------------------------------------------
(* The redactor.                                                           *)

(* The credential is not empty; the replacement contains a space, which no *)
(* credential does (validate_credential_value, SecretPattern::new).        *)
Output == Letters \cup {Secrecy!Mark}
SecrecyConstants ==
  Secrecy!Mark \notin Letters /\ \A f \in Fields : KeysOf[f] \subseteq Keys

-----------------------------------------------------------------------------
(* Falling back in the table.                                              *)

(* f is the recursive function of FallBack on the lengths up to m.         *)
Falls(f, q, table, m, c) ==
  f = [n \in 0 .. m |-> IF n > 0 /\ c # q[n + 1] THEN f[table[n]] ELSE n]

(* There is such a function if the table leads to smaller lengths.         *)
LEMMA FallsExists ==
  ASSUME NEW q, NEW table, NEW c, NEW m \in Nat, \A n \in 1 .. m : table[n] \in 0 .. n - 1
  PROVE  \E f : Falls(f, q, table, m, c)
<1> DEFINE T == {M \in 0 .. m : ~ \E f : Falls(f, q, table, M, c)}
<1> SUFFICES ASSUME T # {} PROVE FALSE OBVIOUS
<1> HIDE DEF T
<1>0. T \subseteq Nat BY DEF T
<1>1. PICK M \in T : \A k \in T : M <= k BY <1>0, LeastElement
<1>2. M \in 0 .. m /\ ~ \E f : Falls(f, q, table, M, c) BY DEF T
<1>3. CASE M = 0
  <2> DEFINE f == [n \in 0 .. 0 |-> 0]
  <2>1. Falls(f, q, table, 0, c) BY DEF Falls
  <2> QED BY <1>2, <1>3, <2>1
<1>4. CASE M # 0
  <2>1. M - 1 \in 0 .. m /\ M - 1 \notin T BY <1>1, <1>2, <1>4
  <2>2. PICK g : Falls(g, q, table, M - 1, c) BY <2>1 DEF T
  <2> DEFINE f == [n \in 0 .. M |->
                     IF n = M
                     THEN IF c # q[M + 1] THEN g[table[M]] ELSE M
                     ELSE g[n]]
  <2>3. ASSUME NEW n \in 0 .. M
        PROVE  f[n] = IF n > 0 /\ c # q[n + 1] THEN f[table[n]] ELSE n
    <3>1. n > 0 => table[n] \in 0 .. n - 1 /\ table[n] \in 0 .. M /\ table[n] # M
      BY <1>2
    <3>2. CASE n = M
      <4>1. f[n] = IF c # q[M + 1] THEN g[table[M]] ELSE M BY <3>2
      <4>2. f[table[n]] = g[table[M]] BY <1>2, <1>4, <3>1, <3>2
      <4>3. n > 0 BY <1>2, <1>4, <3>2
      <4> QED BY <3>2, <4>1, <4>2, <4>3
    <3>3. CASE n # M
      <4>1. f[n] = g[n] /\ n \in 0 .. M - 1 BY <1>2, <3>3
      <4>2. g[n] = IF n > 0 /\ c # q[n + 1] THEN g[table[n]] ELSE n
        BY <2>2, <4>1 DEF Falls
      <4>3. n > 0 => f[table[n]] = g[table[n]] BY <3>1
      <4> QED BY <4>1, <4>2, <4>3
    <3> QED BY <3>2, <3>3
  <2>4. f = [n \in 0 .. M |-> f[n]] OBVIOUS
  <2> HIDE DEF f
  <2>5. Falls(f, q, table, M, c) BY <2>3, <2>4 DEF Falls
  <2> QED BY <1>2, <2>5
<1> QED BY <1>3, <1>4

(* FallBack is its last value.                                             *)
LEMMA FallBackFalls ==
  ASSUME NEW q, NEW table, NEW c, NEW m \in Nat, \A n \in 1 .. m : table[n] \in 0 .. n - 1
  PROVE  \E f : Falls(f, q, table, m, c) /\ Secrecy!FallBack(q, table, m, c) = f[m]
<1> DEFINE from[n \in 0 .. m] ==
        IF n > 0 /\ c # q[n + 1] THEN from[table[n]] ELSE n
<1>1. Secrecy!FallBack(q, table, m, c) = from[m] BY DEF Secrecy!FallBack
<1>2. \E f : f = [n \in 0 .. m |-> IF n > 0 /\ c # q[n + 1] THEN f[table[n]] ELSE n]
  <2>1. \E f : Falls(f, q, table, m, c) BY FallsExists
  <2> QED BY <2>1 DEF Falls
<1>3. from = [n \in 0 .. m |-> IF n > 0 /\ c # q[n + 1] THEN from[table[n]] ELSE n]
  BY <1>2, Zenon DEF from
<1> HIDE DEF from
<1> QED BY <1>1, <1>3 DEF Falls

(* The first m entries of the table are longest borders.                   *)
Tabled(q, table, m) == \A k \in 1 .. m : table[k] \in Nat /\ Longest(q, k, table[k])

(* r is the longest candidate of the first n letters of t that goes on     *)
(* with c, or 0.                                                           *)
Settles(q, m, t, n, B, c, r) ==
  r \in 0 .. m /\ Candidate(q, r, t, n, B) /\ (r = 0 \/ c = q[r + 1])

(* The fallback ends at the longest candidate that goes on, or at 0.       *)
LEMMA FallBackFinds ==
  ASSUME NEW q, NEW table, NEW t, NEW m \in Nat, NEW n \in Nat, NEW B \in Nat,
         Tabled(q, table, m), Candidate(q, m, t, n, B),
         NEW c, c = t[n + 1], NEW r, r = Secrecy!FallBack(q, table, m, c)
  PROVE  Settles(q, m, t, n, B, c, r)
<1>1. \A k \in 1 .. m : table[k] \in 0 .. k - 1
  <2> SUFFICES ASSUME NEW k \in 1 .. m PROVE table[k] \in 0 .. k - 1 OBVIOUS
  <2>1. table[k] \in Nat /\ table[k] < k BY DEF Tabled, Longest
  <2> QED BY <2>1
<1>2. PICK f : Falls(f, q, table, m, c) /\ r = f[m] BY <1>1, FallBackFalls
<1> DEFINE Good(k) == f[k] \in 0 .. k /\ Candidate(q, f[k], t, n, B)
                      /\ (f[k] = 0 \/ c = q[f[k] + 1])
           T == {k \in 0 .. m : Candidate(q, k, t, n, B) /\ ~Good(k)}
<1>3. T = {}
  <2> SUFFICES ASSUME T # {} PROVE FALSE OBVIOUS
  <2> HIDE DEF T
  <2>0. T \subseteq Nat BY DEF T
  <2>1. PICK k \in T : \A i \in T : k <= i BY <2>0, LeastElement
  <2>2. k \in 0 .. m /\ Candidate(q, k, t, n, B) /\ ~Good(k) BY DEF T
  <2>3. f[k] = IF k > 0 /\ c # q[k + 1] THEN f[table[k]] ELSE k
    BY <1>2, <2>2 DEF Falls
  <2>4. CASE ~(k > 0 /\ c # q[k + 1])
    <3>1. f[k] = k BY <2>3, <2>4
    <3>2. k = 0 \/ c = q[k + 1] BY <2>2, <2>4
    <3> QED BY <2>2, <3>1, <3>2
  <2>5. CASE k > 0 /\ c # q[k + 1]
    <3>1. k \in 1 .. m /\ k \in Nat BY <2>2, <2>5
    <3>2. table[k] \in Nat /\ Longest(q, k, table[k]) /\ table[k] \in 0 .. k - 1
      BY <1>1, <3>1 DEF Tabled
    <3>3. Candidate(q, table[k], t, n, B) BY <2>2, <2>5, <3>1, <3>2, FallBack
    <3>4. table[k] \in 0 .. m /\ table[k] < k BY <2>2, <3>2
    <3>5. table[k] \notin T BY <2>0, <2>1, <3>4
    <3>6. Good(table[k]) BY <3>3, <3>4, <3>5 DEF T
    <3>7. f[k] = f[table[k]] BY <2>3, <2>5
    <3>8. f[table[k]] \in 0 .. k
      <4>1. PICK a \in Nat : a = table[k] BY <3>2
      <4>2. a < k /\ f[a] \in 0 .. a BY <3>4, <3>6, <4>1
      <4>3. f[a] \in 0 .. k BY <3>1, <4>2
      <4> QED BY <4>1, <4>3
    <3> QED BY <2>2, <3>6, <3>7, <3>8
  <2> QED BY <2>4, <2>5
<1>4. m \in 0 .. m OBVIOUS
<1>5. Good(m) BY <1>3, <1>4
<1> QED BY <1>2, <1>5 DEF Settles

-----------------------------------------------------------------------------
(* The table of a pattern.                                                 *)

(* SecretPattern::new, one entry more.                                     *)
Extend(q, before, n) ==
  Append(before,
         IF q[n] = q[Secrecy!FallBack(q, before, before[n - 1], q[n]) + 1]
         THEN Secrecy!FallBack(q, before, before[n - 1], q[n]) + 1
         ELSE Secrecy!FallBack(q, before, before[n - 1], q[n]))

(* f is the recursive function of Failure on the lengths up to N.          *)
Builds(f, q, N) == f = [n \in 1 .. N |-> IF n = 1 THEN <<0>> ELSE Extend(q, f[n - 1], n)]

(* There is such a function.                                               *)
LEMMA BuildsExists ==
  ASSUME NEW q, NEW N \in Nat
  PROVE  \E f : Builds(f, q, N)
<1> DEFINE T == {M \in Nat : ~ \E f : Builds(f, q, M)}
<1> SUFFICES ASSUME T # {} PROVE FALSE OBVIOUS
<1> HIDE DEF T
<1>0. T \subseteq Nat BY DEF T
<1>1. PICK M \in T : \A k \in T : M <= k BY <1>0, LeastElement
<1>2. M \in Nat /\ ~ \E f : Builds(f, q, M) BY DEF T
<1>3. CASE M = 0
  <2> DEFINE f == [n \in 1 .. 0 |-> <<0>>]
  <2>1. Builds(f, q, 0) BY DEF Builds
  <2> QED BY <1>2, <1>3, <2>1
<1>4. CASE M # 0
  <2>1. M - 1 \in Nat /\ M - 1 \notin T BY <1>1, <1>2, <1>4
  <2>2. PICK g : Builds(g, q, M - 1) BY <2>1 DEF T
  <2> DEFINE f == [n \in 1 .. M |->
                     IF n = M THEN IF M = 1 THEN <<0>> ELSE Extend(q, g[M - 1], M)
                     ELSE g[n]]
  <2>3. ASSUME NEW n \in 1 .. M
        PROVE  f[n] = IF n = 1 THEN <<0>> ELSE Extend(q, f[n - 1], n)
    <3>1. CASE n = M
      <4>1. f[n] = IF M = 1 THEN <<0>> ELSE Extend(q, g[M - 1], M) BY <3>1
      <4>2. n # 1 => f[n - 1] = g[M - 1] BY <1>2, <3>1
      <4> QED BY <3>1, <4>1, <4>2
    <3>2. CASE n # M
      <4>1. f[n] = g[n] /\ n \in 1 .. M - 1 BY <1>2, <3>2
      <4>2. g[n] = IF n = 1 THEN <<0>> ELSE Extend(q, g[n - 1], n)
        BY <2>2, <4>1 DEF Builds
      <4>3. n # 1 => f[n - 1] = g[n - 1] BY <1>2, <3>2
      <4> QED BY <4>1, <4>2, <4>3
    <3> QED BY <3>1, <3>2
  <2>4. f = [n \in 1 .. M |-> f[n]] OBVIOUS
  <2> HIDE DEF f
  <2>5. Builds(f, q, M) BY <2>3, <2>4 DEF Builds
  <2> QED BY <1>2, <2>5
<1> QED BY <1>3, <1>4

(* Failure is its last value.                                              *)
LEMMA FailureBuilds ==
  ASSUME NEW q, Len(q) \in Nat
  PROVE  \E f : Builds(f, q, Len(q)) /\ Secrecy!Failure(q) = f[Len(q)]
<1> DEFINE table[n \in 1 .. Len(q)] ==
        IF n = 1 THEN <<0>> ELSE Extend(q, table[n - 1], n)
<1>1. Secrecy!Failure(q) = table[Len(q)] BY DEF Secrecy!Failure, Extend
<1>2. \E f : f = [n \in 1 .. Len(q) |-> IF n = 1 THEN <<0>> ELSE Extend(q, f[n - 1], n)]
  <2>1. \E f : Builds(f, q, Len(q)) BY BuildsExists
  <2> QED BY <2>1 DEF Builds
<1>3. table = [n \in 1 .. Len(q) |-> IF n = 1 THEN <<0>> ELSE Extend(q, table[n - 1], n)]
  BY <1>2, Zenon DEF table
<1> HIDE DEF table
<1> QED BY <1>1, <1>3 DEF Builds

(* The first n entries of the table are right.                             *)
Borders(q, p, n) ==
  p \in Seq(Nat) /\ Len(p) = n /\ \A k \in 1 .. n : p[k] \in Nat /\ Longest(q, k, p[k])

(* One entry more is the longest border of one letter more.                *)
LEMMA ExtendOK ==
  ASSUME NEW q, NEW p, NEW n \in Nat, n >= 2, Borders(q, p, n - 1)
  PROVE  Borders(q, Extend(q, p, n), n)
<1>1. PICK i \in Nat : i = n - 1 /\ i >= 1 /\ n = i + 1 OBVIOUS
<1>2. PICK B \in Nat : B = i - 1 /\ B + 1 = i BY <1>1
<1>3. p \in Seq(Nat) /\ Len(p) = i /\ \A k \in 1 .. i : p[k] \in Nat /\ Longest(q, k, p[k])
  BY <1>1 DEF Borders
<1>4. PICK m \in Nat : m = p[i] /\ Longest(q, i, m) BY <1>1, <1>3
<1>5. m < i /\ Ends(q, m, q, i) /\ \A b \in m + 1 .. B : ~Ends(q, b, q, i)
  BY <1>2, <1>4 DEF Longest
<1>6. Candidate(q, m, q, i, B) BY <1>5 DEF Candidate
<1>7. Tabled(q, p, m) BY <1>3, <1>5 DEF Tabled
<1>8. PICK c : c = q[i + 1] OBVIOUS
<1>81. PICK r : r = Secrecy!FallBack(q, p, m, c) OBVIOUS
<1>9. r \in 0 .. m /\ Candidate(q, r, q, i, B) /\ (r = 0 \/ c = q[r + 1])
  <2>1. Settles(q, m, q, i, B, c, r) BY <1>6, <1>7, <1>8, <1>81, FallBackFinds
  <2> QED BY <2>1 DEF Settles
<1>10. r \in Nat /\ r < i BY <1>5, <1>9
<1>11. PICK e : e = IF q[i + 1] = q[r + 1] THEN r + 1 ELSE r OBVIOUS
<1>12. Extend(q, p, n) = Append(p, e) BY <1>1, <1>4, <1>8, <1>81, <1>11 DEF Extend
<1>13. e \in Nat /\ Longest(q, i + 1, e)
  <2>1. CASE q[r + 1] = q[i + 1]
    <3>1. Ends(q, r + 1, q, i + 1) /\ \A b \in r + 2 .. B + 1 : ~Ends(q, b, q, i + 1)
      BY <1>9, <1>10, <2>1, GoesOn
    <3>2. e = r + 1 /\ e \in Nat /\ e < i + 1 /\ e + 1 = r + 2 /\ (i + 1) - 1 = B + 1
      BY <1>2, <1>10, <1>11, <2>1
    <3> QED BY <3>1, <3>2 DEF Longest
  <2>2. CASE q[r + 1] # q[i + 1]
    <3>1. r = 0 /\ q[1] # q[i + 1] BY <1>8, <1>9, <2>2
    <3>2. Candidate(q, 0, q, i, B) BY <1>9, <3>1
    <3>3. Ends(q, 0, q, i + 1) /\ \A b \in 1 .. B + 1 : ~Ends(q, b, q, i + 1)
      BY <3>1, <3>2, GoesNowhere
    <3>4. e = 0 /\ 0 < i + 1 /\ 0 + 1 = 1 /\ (i + 1) - 1 = B + 1 BY <1>2, <1>11, <2>2, <3>1
    <3> QED BY <3>3, <3>4 DEF Longest
  <2> QED BY <2>1, <2>2
<1>14. /\ Append(p, e) \in Seq(Nat) /\ Len(Append(p, e)) = i + 1
       /\ \A k \in 1 .. i : Append(p, e)[k] = p[k] /\ Append(p, e)[i + 1] = e
  BY <1>3, <1>13, AppendProperties
<1>15. ASSUME NEW k \in 1 .. i + 1 PROVE Append(p, e)[k] \in Nat /\ Longest(q, k, Append(p, e)[k])
  <2>1. CASE k = i + 1 BY <1>1, <1>13, <1>14, <2>1
  <2>2. CASE k # i + 1
    <3>1. k \in 1 .. i BY <2>2
    <3> QED BY <1>3, <1>14, <3>1
  <2> QED BY <2>1, <2>2
<1> QED BY <1>1, <1>12, <1>14, <1>15 DEF Borders

(* SecretPattern::new computes the longest border of every prefix.         *)
LEMMA FailureOK ==
  ASSUME NEW q, Len(q) \in Nat, Len(q) >= 1
  PROVE  Borders(q, Secrecy!Failure(q), Len(q))
<1>1. PICK f : Builds(f, q, Len(q)) /\ Secrecy!Failure(q) = f[Len(q)] BY FailureBuilds
<1> DEFINE T == {n \in 1 .. Len(q) : ~Borders(q, f[n], n)}
<1>2. T = {}
  <2> SUFFICES ASSUME T # {} PROVE FALSE OBVIOUS
  <2> HIDE DEF T
  <2>0. T \subseteq Nat BY DEF T
  <2>1. PICK n \in T : \A i \in T : n <= i BY <2>0, LeastElement
  <2>2. n \in 1 .. Len(q) /\ ~Borders(q, f[n], n) BY DEF T
  <2>3. f[n] = IF n = 1 THEN <<0>> ELSE Extend(q, f[n - 1], n) BY <1>1, <2>2 DEF Builds
  <2>4. CASE n = 1
    <3>1. f[n] = <<0>> BY <2>3, <2>4
    <3>2. <<0>> \in Seq(Nat) /\ Len(<<0>>) = 1 /\ <<0>>[1] = 0 OBVIOUS
    <3>3. Longest(q, 1, 0) BY DEF Longest, Ends
    <3> QED BY <2>2, <2>4, <3>1, <3>2, <3>3 DEF Borders
  <2>5. CASE n # 1
    <3>1. n - 1 \in 1 .. Len(q) /\ n - 1 \notin T BY <2>1, <2>2, <2>5
    <3>2. Borders(q, f[n - 1], n - 1) BY <3>1 DEF T
    <3>3. n \in Nat /\ n >= 2 BY <2>2, <2>5
    <3> QED BY <2>2, <2>3, <2>5, <3>2, <3>3, ExtendOK
  <2> QED BY <2>4, <2>5
<1>3. Len(q) \in 1 .. Len(q) OBVIOUS
<1> QED BY <1>1, <1>2, <1>3

-----------------------------------------------------------------------------
(* The reference: replacing occurrences.                                   *)

(* A part of the second of two sequences.                                  *)
LEMMA PartOfSecond ==
  ASSUME NEW S, NEW x \in Seq(S), NEW v \in Seq(S), NEW i \in Nat, NEW j \in Nat,
         1 <= i, j <= Len(v)
  PROVE  SubSeq(x \o v, Len(x) + i, Len(x) + j) = SubSeq(v, i, j)
<1>0. Len(x) \in Nat /\ Len(v) \in Nat BY LenProperties
<1>1. CASE j < i
  <2>1. Len(x) + j < Len(x) + i /\ Len(x) + j \in Int /\ Len(x) + i \in Int BY <1>0, <1>1
  <2>2. SubSeq(x \o v, Len(x) + i, Len(x) + j) = << >> BY <2>1, SubSeqEmpty
  <2>3. SubSeq(v, i, j) = << >> BY <1>1, SubSeqEmpty
  <2> QED BY <2>2, <2>3
<1>2. CASE i <= j
  <2>1. PICK m \in Len(x) + 1 .. Len(x) + Len(v) : m = Len(x) + i BY <1>0, <1>2
  <2>2. PICK n \in Len(x) + 1 .. Len(x) + Len(v) : n = Len(x) + j BY <1>0, <1>2
  <2>3. SubSeq(x \o v, m, n) = SubSeq(v, m - Len(x), n - Len(x)) BY SubSeqOfConcat2
  <2>4. m - Len(x) = i /\ n - Len(x) = j BY <1>0, <2>1, <2>2
  <2> QED BY <2>1, <2>2, <2>3, <2>4
<1> QED BY <1>1, <1>2

(* Replace for the last n letters of t, if f is it for fewer.              *)
Rest(f, q, t, n) ==
  IF n < Len(q) THEN SubSeq(t, Len(t) - n + 1, Len(t))
  ELSE IF SubSeq(t, Len(t) - n + 1, Len(t) - n + Len(q)) = q
       THEN <<Secrecy!Mark>> \o f[n - Len(q)]
       ELSE <<t[Len(t) - n + 1]>> \o f[n - 1]

(* f is the recursive function of Replace on the last up to N letters.     *)
Rests(f, q, t, N) == f = [n \in 0 .. N |-> Rest(f, q, t, n)]

(* Only the values for fewer letters matter.                               *)
LEMMA RestLocal ==
  ASSUME NEW q, NEW t, NEW f, NEW g, NEW n \in Nat, Len(q) \in Nat, Len(q) >= 1,
         \A k \in 0 .. n - 1 : f[k] = g[k]
  PROVE  Rest(f, q, t, n) = Rest(g, q, t, n)
<1>1. CASE n < Len(q) BY <1>1 DEF Rest
<1>2. CASE n >= Len(q)
  <2>1. n - Len(q) \in 0 .. n - 1 /\ n - 1 \in 0 .. n - 1 BY <1>2
  <2>2. f[n - Len(q)] = g[n - Len(q)] /\ f[n - 1] = g[n - 1] BY <2>1
  <2> QED BY <2>2 DEF Rest
<1> QED BY <1>1, <1>2

(* There is such a function.                                               *)
LEMMA RestsExists ==
  ASSUME NEW q, NEW t, NEW N \in Nat, Len(q) \in Nat, Len(q) >= 1
  PROVE  \E f : Rests(f, q, t, N)
<1> DEFINE T == {M \in Nat : ~ \E f : Rests(f, q, t, M)}
<1> SUFFICES ASSUME T # {} PROVE FALSE OBVIOUS
<1> HIDE DEF T
<1>0. T \subseteq Nat BY DEF T
<1>1. PICK M \in T : \A k \in T : M <= k BY <1>0, LeastElement
<1>2. M \in Nat /\ ~ \E f : Rests(f, q, t, M) BY DEF T
<1>3. \E g : M # 0 => Rests(g, q, t, M - 1)
  <2>1. CASE M = 0 BY <2>1
  <2>2. CASE M # 0
    <3>1. M - 1 \in Nat /\ M - 1 \notin T BY <1>1, <1>2, <2>2
    <3> QED BY <3>1 DEF T
  <2> QED BY <2>1, <2>2
<1>4. PICK g : M # 0 => Rests(g, q, t, M - 1) BY <1>3
<1> DEFINE f == [n \in 0 .. M |-> IF n = M THEN Rest(g, q, t, M) ELSE g[n]]
<1>5. \A k \in 0 .. M - 1 : f[k] = g[k] BY <1>2
<1>6. ASSUME NEW n \in 0 .. M PROVE f[n] = Rest(f, q, t, n)
  <2>1. n \in Nat /\ \A k \in 0 .. n - 1 : f[k] = g[k] BY <1>2, <1>5
  <2>2. Rest(f, q, t, n) = Rest(g, q, t, n)
    <3> HIDE DEF f
    <3> QED BY <2>1, RestLocal
  <2>3. CASE n = M BY <2>2, <2>3
  <2>4. CASE n # M
    <3>1. f[n] = g[n] /\ n \in 0 .. M - 1 /\ M # 0 BY <1>2, <2>4
    <3>2. g[n] = Rest(g, q, t, n) BY <1>4, <3>1 DEF Rests
    <3> QED BY <2>2, <3>1, <3>2
  <2> QED BY <2>3, <2>4
<1>7. f = [n \in 0 .. M |-> f[n]] OBVIOUS
<1> HIDE DEF f
<1>8. Rests(f, q, t, M) BY <1>6, <1>7 DEF Rests
<1> QED BY <1>2, <1>8

(* Replace is its last value.                                              *)
LEMMA ReplaceRests ==
  ASSUME NEW q, NEW t, Len(q) \in Nat, Len(q) >= 1, Len(t) \in Nat
  PROVE  \E f : Rests(f, q, t, Len(t)) /\ Secrecy!Replace(q, t) = f[Len(t)]
<1> DEFINE rest[n \in 0 .. Len(t)] == Rest(rest, q, t, n)
<1>1. Secrecy!Replace(q, t) = rest[Len(t)] BY DEF Secrecy!Replace, Rest
<1>2. \E f : f = [n \in 0 .. Len(t) |-> Rest(f, q, t, n)]
  <2>1. \E f : Rests(f, q, t, Len(t)) BY RestsExists
  <2> QED BY <2>1 DEF Rests
<1>3. rest = [n \in 0 .. Len(t) |-> Rest(rest, q, t, n)] BY <1>2, Zenon DEF rest
<1> HIDE DEF rest
<1> QED BY <1>1, <1>3 DEF Rests

(* What is replaced in a rest does not depend on what is before it.        *)
LEMMA RestOfLonger ==
  ASSUME NEW S, NEW q, NEW x \in Seq(S), NEW v \in Seq(S), Len(q) \in Nat, Len(q) >= 1,
         NEW f, Rests(f, q, x \o v, Len(x \o v)), NEW g, Rests(g, q, v, Len(v))
  PROVE  \A n \in 0 .. Len(v) : f[n] = g[n]
<1>0. Len(x) \in Nat /\ Len(v) \in Nat BY LenProperties
<1>1. Len(x \o v) = Len(x) + Len(v) BY ConcatProperties
<1> DEFINE T == {n \in 0 .. Len(v) : f[n] # g[n]}
<1> SUFFICES ASSUME T # {} PROVE FALSE OBVIOUS
<1> HIDE DEF T
<1>2. T \subseteq Nat BY <1>0 DEF T
<1>3. PICK n \in T : \A k \in T : n <= k BY <1>2, LeastElement
<1>4. n \in Nat /\ n \in 0 .. Len(v) /\ f[n] # g[n] BY <1>2 DEF T
<1>5. f[n] = Rest(f, q, x \o v, n)
  <2>1. n \in 0 .. Len(x \o v) BY <1>0, <1>1, <1>4
  <2> QED BY <2>1 DEF Rests
<1>6. g[n] = Rest(g, q, v, n) BY <1>4 DEF Rests
<1>7. \A k \in 0 .. n - 1 : f[k] = g[k]
  <2> SUFFICES ASSUME NEW k \in 0 .. n - 1 PROVE f[k] = g[k] OBVIOUS
  <2>1. k \in 0 .. Len(v) /\ k \notin T BY <1>0, <1>2, <1>3, <1>4
  <2> QED BY <2>1 DEF T
<1>8. Rest(f, q, x \o v, n) = Rest(g, q, x \o v, n) BY <1>4, <1>7, RestLocal
<1>90. Len(v) - n + 1 \in Nat BY <1>0, <1>4
<1>9. PICK i \in Nat : i = Len(v) - n + 1 BY <1>90
<1>91. PICK a \in Nat : a = Len(x) + i BY <1>0
<1>10. Len(x \o v) \in Nat /\ Len(x \o v) - n + 1 = a /\ 1 <= i BY <1>0, <1>1, <1>4, <1>9, <1>91
<1>100. 1 <= i BY <1>10
<1>11. SubSeq(x \o v, a, Len(x \o v)) = SubSeq(v, i, Len(v))
  <2>1. Len(v) <= Len(v) BY <1>0
  <2>2. SubSeq(x \o v, Len(x) + i, Len(x) + Len(v)) = SubSeq(v, i, Len(v))
    BY <1>0, <1>100, <2>1, PartOfSecond
  <2> QED BY <1>1, <1>91, <2>2, Zenon
<1>12. CASE n < Len(q)
  <2>1. Rest(g, q, x \o v, n) = SubSeq(x \o v, a, Len(x \o v))
    BY <1>10, <1>12 DEF Rest
  <2>2. Rest(g, q, v, n) = SubSeq(v, i, Len(v)) BY <1>9, <1>12 DEF Rest
  <2> QED BY <1>4, <1>5, <1>6, <1>8, <1>11, <2>1, <2>2
<1>13. CASE n >= Len(q)
  <2>0. Len(v) - n + Len(q) \in Nat BY <1>0, <1>4
  <2>1. PICK j \in Nat : j = Len(v) - n + Len(q) BY <2>0
  <2>11. PICK b \in Nat : b = Len(x) + j BY <1>0
  <2>2. j <= Len(v) /\ Len(x \o v) - n + Len(q) = b
    BY <1>0, <1>1, <1>4, <1>13, <2>1, <2>11
  <2>22. j <= Len(v) BY <2>2
  <2>3. SubSeq(x \o v, a, b) = SubSeq(v, i, j)
    <3>1. SubSeq(x \o v, Len(x) + i, Len(x) + j) = SubSeq(v, i, j)
      BY <1>100, <2>22, PartOfSecond
    <3> QED BY <1>91, <2>11, <3>1, Zenon
  <2>4. (x \o v)[a] = v[i]
    <3>1. i \in 1 .. Len(v) /\ a \in 1 .. Len(x) + Len(v) /\ ~(a <= Len(x)) /\ a - Len(x) = i
      BY <1>0, <1>4, <1>9, <1>91, <1>13
    <3> QED BY <3>1, ConcatProperties
  <2>5. Rest(g, q, x \o v, n) =
          IF SubSeq(x \o v, a, b) = q
          THEN <<Secrecy!Mark>> \o g[n - Len(q)] ELSE <<(x \o v)[a]>> \o g[n - 1]
    <3>1. ~(n < Len(q)) BY <1>4, <1>13
    <3>2. Len(x \o v) - n + 1 = a /\ Len(x \o v) - n + Len(q) = b BY <1>10, <2>2
    <3> QED BY <3>1, <3>2, Zenon DEF Rest
  <2>6. Rest(g, q, v, n) =
          IF SubSeq(v, i, j) = q
          THEN <<Secrecy!Mark>> \o g[n - Len(q)] ELSE <<v[i]>> \o g[n - 1]
    BY <1>4, <1>9, <1>13, <2>1 DEF Rest
  <2> QED BY <1>4, <1>5, <1>6, <1>8, <2>3, <2>4, <2>5, <2>6
<1> QED BY <1>4, <1>12, <1>13

(* Less than the value holds no occurrence.                                *)
LEMMA ReplaceOfShort ==
  ASSUME NEW S, NEW q, NEW v \in Seq(S), Len(q) \in Nat, Len(v) < Len(q)
  PROVE  Secrecy!Replace(q, v) = v
<1>0. Len(v) \in Nat /\ Len(q) >= 1 BY LenProperties
<1>1. PICK f : Rests(f, q, v, Len(v)) /\ Secrecy!Replace(q, v) = f[Len(v)]
  BY <1>0, ReplaceRests
<1>2. f[Len(v)] = Rest(f, q, v, Len(v))
  <2>1. Len(v) \in 0 .. Len(v) BY <1>0
  <2> QED BY <1>1, <2>1 DEF Rests
<1>3. Len(v) - Len(v) + 1 = 1 BY <1>0
<1>4. Rest(f, q, v, Len(v)) = SubSeq(v, 1, Len(v)) BY <1>3, Zenon DEF Rest
<1>5. SubSeq(v, 1, Len(v)) = v BY SubSeqFull
<1> QED BY <1>1, <1>2, <1>4, <1>5

(* What follows the first letters x is replaced as if it were alone.       *)
LEMMA ReplaceOfRest ==
  ASSUME NEW S, NEW q, NEW x \in Seq(S), NEW v \in Seq(S), Len(q) \in Nat, Len(q) >= 1
  PROVE  \E f : /\ Secrecy!Replace(q, x \o v) = Rest(f, q, x \o v, Len(x \o v))
                /\ f[Len(v)] = Secrecy!Replace(q, v)
<1>0. Len(x) \in Nat /\ Len(v) \in Nat /\ Len(x \o v) \in Nat
  BY ConcatProperties, LenProperties
<1>1. PICK f : Rests(f, q, x \o v, Len(x \o v)) /\ Secrecy!Replace(q, x \o v) = f[Len(x \o v)]
  BY <1>0, ReplaceRests
<1>2. PICK g : Rests(g, q, v, Len(v)) /\ Secrecy!Replace(q, v) = g[Len(v)]
  BY <1>0, ReplaceRests
<1>3. f[Len(v)] = g[Len(v)]
  <2>1. \A n \in 0 .. Len(v) : f[n] = g[n] BY <1>1, <1>2, RestOfLonger
  <2>2. Len(v) \in 0 .. Len(v) BY <1>0
  <2> QED BY <2>1, <2>2
<1>4. f[Len(x \o v)] = Rest(f, q, x \o v, Len(x \o v))
  <2>1. Len(x \o v) \in 0 .. Len(x \o v) BY <1>0
  <2> QED BY <1>1, <2>1 DEF Rests
<1> QED BY <1>1, <1>2, <1>3, <1>4

(* An occurrence in front is replaced.                                     *)
LEMMA ReplaceFound ==
  ASSUME NEW S, NEW q \in Seq(S), NEW v \in Seq(S), Len(q) >= 1
  PROVE  Secrecy!Replace(q, q \o v) = <<Secrecy!Mark>> \o Secrecy!Replace(q, v)
<1>0. Len(q) \in Nat /\ Len(v) \in Nat BY LenProperties
<1>1. PICK f : /\ Secrecy!Replace(q, q \o v) = Rest(f, q, q \o v, Len(q \o v))
               /\ f[Len(v)] = Secrecy!Replace(q, v)
  BY <1>0, ReplaceOfRest
<1>2. Len(q \o v) = Len(q) + Len(v) BY ConcatProperties
<1>3. /\ ~(Len(q \o v) < Len(q)) /\ Len(q \o v) - Len(q) = Len(v)
      /\ Len(q \o v) - Len(q \o v) + 1 = 1 /\ Len(q \o v) - Len(q \o v) + Len(q) = Len(q)
  BY <1>0, <1>2
<1>4. SubSeq(q \o v, 1, Len(q)) = q
  <2>1. 1 \in 1 .. Len(q) /\ Len(q) \in 1 .. Len(q) BY <1>0
  <2>2. SubSeq(q \o v, 1, Len(q)) = SubSeq(q, 1, Len(q)) BY <2>1, SubSeqOfConcat1
  <2> QED BY <2>2, SubSeqFull
<1> QED BY <1>1, <1>3, <1>4, Zenon DEF Rest

(* The text begins with q.                                                 *)
Leads(q, t) == Len(q) <= Len(t) /\ SubSeq(t, 1, Len(q)) = q

(* A letter stays.                                                         *)
Stays(q, c, v) == Secrecy!Replace(q, <<c>> \o v) = <<c>> \o Secrecy!Replace(q, v)

(* A letter no occurrence begins with does.                                *)
LEMMA ReplaceSkips ==
  ASSUME NEW S, NEW q, NEW c \in S, NEW v \in Seq(S), Len(q) \in Nat, Len(q) >= 1,
         ~Leads(q, <<c>> \o v)
  PROVE  Stays(q, c, v)
<1> DEFINE x == <<c>>
           t == x \o v
<1>0. Len(v) \in Nat BY LenProperties
<1>1. x \in Seq(S) /\ Len(x) = 1 /\ x[1] = c OBVIOUS
<1>2. t \in Seq(S) /\ Len(t) = 1 + Len(v)
  <2> HIDE DEF x
  <2> QED BY <1>0, <1>1, ConcatProperties
<1>21. t[1] = c
  <2>1. 1 \in 1 .. Len(x) + Len(v) /\ 1 <= Len(x) BY <1>0, <1>1
  <2> HIDE DEF x
  <2> QED BY <1>1, <2>1, ConcatProperties
<1> HIDE DEF x
<1>3. PICK f : Secrecy!Replace(q, t) = Rest(f, q, t, Len(t)) /\ f[Len(v)] = Secrecy!Replace(q, v)
  BY <1>0, <1>1, ReplaceOfRest
<1> HIDE DEF t
<1>4. CASE Len(t) < Len(q)
  <2>1. Secrecy!Replace(q, t) = t BY <1>2, <1>4, ReplaceOfShort
  <2>2. Len(v) < Len(q) BY <1>0, <1>2, <1>4
  <2>3. Secrecy!Replace(q, v) = v BY <2>2, ReplaceOfShort
  <2> QED BY <2>1, <2>3 DEF t, x, Stays
<1>5. CASE ~(Len(t) < Len(q))
  <2>1. Len(t) - 1 = Len(v) /\ Len(t) - Len(t) + 1 = 1 /\ Len(t) - Len(t) + Len(q) = Len(q)
        /\ Len(q) <= Len(t)
    BY <1>0, <1>2, <1>5
  <2>2. SubSeq(t, 1, Len(q)) # q BY <2>1 DEF t, x, Leads
  <2>3. Rest(f, q, t, Len(t)) = <<t[1]>> \o f[Len(v)] BY <1>5, <2>1, <2>2, Zenon DEF Rest
  <2> QED BY <1>3, <1>21, <2>3 DEF t, x, Stays
<1> QED BY <1>4, <1>5

(* An instance of the law of association, for the provers to find.         *)
Regroups(a, b, c) == (a \o b) \o c = a \o (b \o c)

(* Concatenation is associative.                                           *)
LEMMA Regroup ==
  ASSUME NEW S, NEW a \in Seq(S), NEW b \in Seq(S), NEW c \in Seq(S)
  PROVE  Regroups(a, b, c)
BY ConcatAssociative DEF Regroups

(* The result is a sequence of letters and marks.                          *)
LEMMA ReplaceTyped ==
  ASSUME NEW q \in Seq(Output), NEW t \in Seq(Output), Len(q) >= 1
  PROVE  Secrecy!Replace(q, t) \in Seq(Output)
<1>0. Len(t) \in Nat /\ Len(q) \in Nat BY LenProperties
<1>1. PICK f : Rests(f, q, t, Len(t)) /\ Secrecy!Replace(q, t) = f[Len(t)]
  BY <1>0, ReplaceRests
<1> DEFINE T == {n \in 0 .. Len(t) : f[n] \notin Seq(Output)}
<1>2. T = {}
  <2> SUFFICES ASSUME T # {} PROVE FALSE OBVIOUS
  <2> HIDE DEF T
  <2>0. T \subseteq Nat BY <1>0 DEF T
  <2>1. PICK n \in T : \A i \in T : n <= i BY <2>0, LeastElement
  <2>2. n \in Nat /\ n \in 0 .. Len(t) /\ f[n] \notin Seq(Output) BY <2>0 DEF T
  <2>3. f[n] = Rest(f, q, t, n) BY <1>1, <2>2 DEF Rests
  <2>4. CASE n < Len(q)
    <3>1. f[n] = SubSeq(t, Len(t) - n + 1, Len(t)) BY <2>3, <2>4 DEF Rest
    <3>2. Len(t) - n + 1 \in Int /\ Len(t) \in Int BY <1>0, <2>2
    <3>3. \A i \in Len(t) - n + 1 .. Len(t) : t[i] \in Output
      <4> SUFFICES ASSUME NEW i \in Len(t) - n + 1 .. Len(t) PROVE t[i] \in Output OBVIOUS
      <4>1. i \in 1 .. Len(t) BY <1>0, <2>2
      <4> QED BY <4>1, ElementOfSeq
    <3>4. SubSeq(t, Len(t) - n + 1, Len(t)) \in Seq(Output) BY <3>2, <3>3, SubSeqProperties
    <3> QED BY <2>2, <3>1, <3>4
  <2>5. CASE ~(n < Len(q))
    <3>1. n - 1 \in 0 .. Len(t) /\ n - Len(q) \in 0 .. Len(t) /\ n - 1 < n /\ n - Len(q) < n
          /\ Len(t) - n + 1 \in 1 .. Len(t)
      BY <1>0, <2>2, <2>5
    <3>2. n - 1 \notin T /\ n - Len(q) \notin T BY <2>0, <2>1, <2>2, <3>1
    <3>3. f[n - 1] \in Seq(Output) /\ f[n - Len(q)] \in Seq(Output) BY <3>1, <3>2 DEF T
    <3>4. t[Len(t) - n + 1] \in Output /\ Secrecy!Mark \in Output BY <3>1, ElementOfSeq DEF Output
    <3>5. <<t[Len(t) - n + 1]>> \in Seq(Output) /\ <<Secrecy!Mark>> \in Seq(Output) BY <3>4
    <3>6. /\ <<Secrecy!Mark>> \o f[n - Len(q)] \in Seq(Output)
          /\ <<t[Len(t) - n + 1]>> \o f[n - 1] \in Seq(Output)
      BY <3>3, <3>5, ConcatProperties
    <3>7. \/ f[n] = <<Secrecy!Mark>> \o f[n - Len(q)]
          \/ f[n] = <<t[Len(t) - n + 1]>> \o f[n - 1]
      BY <2>3, <2>5, Zenon DEF Rest
    <3> QED BY <2>2, <3>6, <3>7
  <2> QED BY <2>4, <2>5
<1>3. Len(t) \in 0 .. Len(t) BY <1>0
<1> QED BY <1>1, <1>2, <1>3

-----------------------------------------------------------------------------
(* Where the value ends in a text.                                         *)

(* A prefix of q is a part of t exactly if it ends there.                  *)
LEMMA EndsPart ==
  ASSUME NEW S, NEW q \in Seq(S), NEW t \in Seq(S), NEW k \in Nat, NEW n \in Nat,
         k <= Len(q), k <= n, n <= Len(t)
  PROVE  Ends(q, k, t, n) <=> SubSeq(t, n - k + 1, n) = SubSeq(q, 1, k)
<1>0. Len(q) \in Nat /\ Len(t) \in Nat BY LenProperties
<1> DEFINE a == SubSeq(t, n - k + 1, n)
           b == SubSeq(q, 1, k)
<1>1. a \in Seq(S) /\ Len(a) = k /\ \A i \in 1 .. k : a[i] = t[n - k + i]
  <2>1. \A i \in n - k + 1 .. n : t[i] \in S
    <3> SUFFICES ASSUME NEW i \in n - k + 1 .. n PROVE t[i] \in S OBVIOUS
    <3>1. i \in 1 .. Len(t) BY <1>0
    <3> QED BY <3>1, ElementOfSeq
  <2>2. n - k + 1 \in Int /\ n \in Int OBVIOUS
  <2>3. /\ a \in Seq(S) /\ Len(a) = IF n - k + 1 <= n THEN n - (n - k + 1) + 1 ELSE 0
        /\ \A i \in 1 .. n - (n - k + 1) + 1 : a[i] = t[(n - k + 1) + i - 1]
    BY <2>1, <2>2, SubSeqProperties
  <2>4. n - (n - k + 1) + 1 = k /\ Len(a) = k BY <2>3
  <2>5. \A i \in 1 .. k : (n - k + 1) + i - 1 = n - k + i OBVIOUS
  <2> HIDE DEF a
  <2> QED BY <2>3, <2>4, <2>5
<1>2. b \in Seq(S) /\ Len(b) = k /\ \A i \in 1 .. k : b[i] = q[i]
  <2>1. \A i \in 1 .. k : q[i] \in S BY <1>0, ElementOfSeq
  <2>2. /\ b \in Seq(S) /\ Len(b) = IF 1 <= k THEN k - 1 + 1 ELSE 0
        /\ \A i \in 1 .. k - 1 + 1 : b[i] = q[1 + i - 1]
    BY <2>1, SubSeqProperties
  <2>3. k - 1 + 1 = k /\ Len(b) = k BY <2>2
  <2>4. \A i \in 1 .. k : 1 + i - 1 = i OBVIOUS
  <2> HIDE DEF b
  <2> QED BY <2>2, <2>3, <2>4
<1> HIDE DEF a, b
<1>3. ASSUME Ends(q, k, t, n) PROVE a = b
  <2>1. \A i \in 1 .. k : a[i] = b[i] BY <1>1, <1>2, <1>3 DEF Ends
  <2> QED BY <1>1, <1>2, <2>1, SeqEqual
<1>4. ASSUME a = b PROVE Ends(q, k, t, n) BY <1>1, <1>2, <1>4 DEF Ends
<1> QED BY <1>3, <1>4 DEF a, b

(* What ends in the first of two sequences ends there in both.             *)
LEMMA EndsFirst ==
  ASSUME NEW S, NEW q, NEW a \in Seq(S), NEW b \in Seq(S), NEW k \in Nat, NEW n \in Nat,
         n <= Len(a)
  PROVE  Ends(q, k, a \o b, n) <=> Ends(q, k, a, n)
<1>0. Len(a) \in Nat /\ Len(b) \in Nat BY LenProperties
<1>1. ASSUME k <= n, NEW i \in 1 .. k PROVE (a \o b)[n - k + i] = a[n - k + i]
  <2>1. n - k + i \in 1 .. Len(a) + Len(b) /\ n - k + i <= Len(a) BY <1>0, <1>1
  <2> QED BY <2>1, ConcatProperties
<1> QED BY <1>1 DEF Ends

(* What ends in the second and is not longer ends there in both.           *)
LEMMA EndsSecond ==
  ASSUME NEW S, NEW q, NEW a \in Seq(S), NEW b \in Seq(S), NEW k \in Nat, NEW n \in Nat,
         k <= n, n <= Len(b)
  PROVE  Ends(q, k, a \o b, Len(a) + n) <=> Ends(q, k, b, n)
<1>0. Len(a) \in Nat /\ Len(b) \in Nat BY LenProperties
<1>1. ASSUME NEW i \in 1 .. k PROVE (a \o b)[Len(a) + n - k + i] = b[n - k + i]
  <2>1. /\ Len(a) + n - k + i \in 1 .. Len(a) + Len(b) /\ ~(Len(a) + n - k + i <= Len(a))
        /\ Len(a) + n - k + i - Len(a) = n - k + i
    BY <1>0
  <2> QED BY <2>1, ConcatProperties
<1>2. PICK N \in Nat : N = Len(a) + n /\ k <= N BY <1>0
<1>3. PICK t : t = a \o b OBVIOUS
<1>4. ASSUME NEW i \in 1 .. k PROVE t[N - k + i] = b[n - k + i]
  <2>1. (a \o b)[Len(a) + n - k + i] = b[n - k + i] BY <1>1
  <2>2. Len(a) + n - k + i = N - k + i BY <1>2
  <2> QED BY <1>3, <2>1, <2>2
<1>5. Ends(q, k, t, N) <=> Ends(q, k, b, n) BY <1>2, <1>4 DEF Ends
<1> QED BY <1>2, <1>3, <1>5

(* No occurrence of q in x \o z begins in x.                               *)
Apart(q, x, z) ==
  \A n \in 0 .. Len(x) + Len(z) : n < Len(x) + Len(q) => ~Ends(q, Len(q), x \o z, n)

(* Then x stays as it is.                                                  *)
LEMMA ReplaceApart ==
  ASSUME NEW q \in Seq(Output), NEW x \in Seq(Output), NEW z \in Seq(Output),
         Len(q) >= 1, Apart(q, x, z)
  PROVE  Secrecy!Replace(q, x \o z) = x \o Secrecy!Replace(q, z)
<1>0. Len(q) \in Nat /\ Len(x) \in Nat /\ Len(z) \in Nat BY LenProperties
<1>01. Secrecy!Replace(q, z) \in Seq(Output) BY ReplaceTyped
<1> DEFINE Bad(y) == Apart(q, y, z) /\ Secrecy!Replace(q, y \o z) # y \o Secrecy!Replace(q, z)
           T == {k \in Nat : \E y \in Seq(Output) : Len(y) = k /\ Bad(y)}
<1>1. T = {}
  <2> SUFFICES ASSUME T # {} PROVE FALSE OBVIOUS
  <2> HIDE DEF T
  <2>0. T \subseteq Nat BY DEF T
  <2>1. PICK k \in T : \A i \in T : k <= i BY <2>0, LeastElement
  <2>2. PICK y \in Seq(Output) : Len(y) = k /\ Bad(y) BY DEF T
  <2>3. k \in Nat BY <2>0
  <2>4. CASE y = << >>
    <3>1. y \o z = z /\ y \o Secrecy!Replace(q, z) = Secrecy!Replace(q, z)
      BY <1>01, <2>4, ConcatEmptySeq
    <3> QED BY <2>2, <3>1
  <2>5. CASE y # << >>
    <3>1. PICK d : d = Tail(y) OBVIOUS
    <3>2. PICK c : c = y[1] OBVIOUS
    <3>3. Len(y) >= 1 /\ c \in Output /\ d \in Seq(Output) /\ Len(d) = Len(y) - 1
      <4>1. Len(y) \in Nat \ {0} BY <2>5, EmptySeq
      <4>2. 1 \in 1 .. Len(y) BY <4>1
      <4>3. c \in Output BY <3>2, <4>2, ElementOfSeq
      <4>4. d \in Seq(Output) /\ Len(d) = Len(y) - 1 BY <2>5, <3>1, HeadTailProperties
      <4> QED BY <4>1, <4>3, <4>4
    <3>4. y = <<c>> \o d
      <4>1. 1 \in 1 .. Len(y) /\ Len(y) \in 1 .. Len(y) BY <2>2, <2>3, <3>3
      <4>2. SubSeq(y, 1, Len(y)) = <<y[1]>> \o SubSeq(y, 1 + 1, Len(y)) BY <4>1, SubSeqRecursiveFirst
      <4>3. d = SubSeq(y, 2, Len(y)) BY <2>5, <3>1, TailIsSubSeq
      <4>4. SubSeq(y, 1, Len(y)) = y BY SubSeqFull
      <4> QED BY <3>2, <4>2, <4>3, <4>4
    <3>5. <<c>> \in Seq(Output) /\ Len(<<c>>) = 1 BY <3>3
    <3>6. PICK e \in Seq(Output) : e = d \o z /\ Len(e) = Len(d) + Len(z)
      BY <3>3, ConcatProperties
    <3>7. y \o z = <<c>> \o e
      <4>1. Regroups(<<c>>, d, z) BY <3>3, <3>5, Regroup
      <4> QED BY <3>4, <3>6, <4>1 DEF Regroups
    <3>8. Len(y \o z) = 1 + Len(e) /\ Len(e) \in Nat /\ y \o z \in Seq(Output)
      BY <3>5, <3>6, <3>7, ConcatProperties, LenProperties
    <3>9. Apart(q, d, z)
      <4> SUFFICES ASSUME NEW n \in 0 .. Len(d) + Len(z), n < Len(d) + Len(q),
                          Ends(q, Len(q), d \o z, n)
                   PROVE  FALSE
        BY DEF Apart
      <4>1. n \in Nat /\ Len(q) <= n /\ n <= Len(e) BY <1>0, <2>2, <2>3, <3>3, <3>6 DEF Ends
      <4>2. Ends(q, Len(q), <<c>> \o e, Len(<<c>>) + n)
        <5>1. Ends(q, Len(q), e, n) BY <3>6
        <5> QED BY <1>0, <3>5, <4>1, <5>1, EndsSecond
      <4>3. PICK j : j = 1 + n OBVIOUS
      <4>4. Ends(q, Len(q), y \o z, j) BY <3>5, <3>7, <4>2, <4>3
      <4>5. j \in 0 .. Len(y) + Len(z) /\ j < Len(y) + Len(q)
        BY <1>0, <2>2, <2>3, <3>3, <3>6, <4>1, <4>3
      <4> QED BY <2>2, <4>4, <4>5 DEF Apart
    <3>10. Secrecy!Replace(q, e) = d \o Secrecy!Replace(q, z)
      <4>1. PICK i : i = k - 1 OBVIOUS
      <4>2. i \in Nat /\ ~(k <= i) /\ Len(d) = i BY <2>2, <2>3, <3>3, <4>1
      <4>3. i \notin T BY <2>1, <4>2
      <4>4. ~Bad(d) BY <3>3, <4>2, <4>3 DEF T
      <4> QED BY <3>6, <3>9, <4>4
    <3>11. ~Leads(q, <<c>> \o e)
      <4> SUFFICES ASSUME Len(q) <= Len(y \o z), SubSeq(y \o z, 1, Len(q)) = q PROVE FALSE
        BY <3>7 DEF Leads
      <4>1. Len(q) - Len(q) + 1 = 1 /\ Len(q) <= Len(q) /\ Len(q) <= Len(y \o z) BY <1>0, <3>8
      <4>2. SubSeq(y \o z, Len(q) - Len(q) + 1, Len(q)) = SubSeq(q, 1, Len(q))
        BY <4>1, SubSeqFull
      <4>3. Ends(q, Len(q), y \o z, Len(q)) BY <1>0, <3>8, <4>1, <4>2, EndsPart
      <4>4. Len(q) \in 0 .. Len(y) + Len(z) /\ Len(q) < Len(y) + Len(q)
        BY <1>0, <2>2, <2>3, <3>3, <3>6, <3>8
      <4> QED BY <2>2, <4>3, <4>4 DEF Apart
    <3>12. Secrecy!Replace(q, <<c>> \o e) = <<c>> \o Secrecy!Replace(q, e)
      <4>1. c \in Output /\ Len(q) \in Nat /\ Len(q) >= 1 BY <1>0, <3>3
      <4>2. Stays(q, c, e) BY <3>11, <4>1, ReplaceSkips
      <4> QED BY <4>2 DEF Stays
    <3>13. <<c>> \o (d \o Secrecy!Replace(q, z)) = y \o Secrecy!Replace(q, z)
      <4>1. PICK R \in Seq(Output) : R = Secrecy!Replace(q, z) BY <1>01
      <4>2. PICK a \in Seq(Output) : a = <<c>> BY <3>5
      <4>3. d \in Seq(Output) BY <3>3
      <4>4. Regroups(a, d, R) BY <4>3, Regroup
      <4> QED BY <3>4, <4>1, <4>2, <4>4 DEF Regroups
    <3> QED BY <2>2, <3>7, <3>10, <3>12, <3>13
  <2> QED BY <2>4, <2>5
<1>2. Len(x) \notin T BY <1>1
<1> QED BY <1>0, <1>2

-----------------------------------------------------------------------------
(* One letter more.                                                        *)

(* Of the text t, w is shown or held back: it holds no occurrence, ends    *)
(* with the first m letters of q and no more, and whatever comes after it  *)
(* is treated as it would be after t.                                      *)
Open(q, t, m, w) ==
  /\ w \in Seq(Output)
  /\ Ends(q, m, w, Len(w))
  /\ \A b \in m + 1 .. Len(q) : ~Ends(q, b, w, Len(w))
  /\ \A n \in 0 .. Len(w) : ~Ends(q, Len(q), w, n)
  /\ \A v \in Seq(Letters) : Secrecy!Replace(q, t \o v) = Secrecy!Replace(q, w \o v)

(* A letter is a text.                                                     *)
LEMMA OneLetter ==
  ASSUME NEW S, NEW c \in S
  PROVE  <<c>> \in Seq(S) /\ Len(<<c>>) = 1 /\ <<c>>[1] = c
OBVIOUS

(* The letters are output.                                                 *)
LEMMA LettersOut ==
  /\ \A s \in Seq(Letters) : s \in Seq(Output)
  /\ \A c \in Letters : c \in Output
  /\ Secrecy!Mark \in Output
<1>1. Letters \subseteq Output BY DEF Output
<1>2. ASSUME NEW s \in Seq(Letters) PROVE s \in Seq(Output) BY <1>1, SeqMonotonic
<1> QED BY <1>1, <1>2 DEF Output

(* What comes after t and c comes after t.                                 *)
LEMMA ReplaceLater ==
  ASSUME NEW q, NEW t \in Seq(Letters), NEW w \in Seq(Output), NEW c \in Letters,
         \A v \in Seq(Letters) : Secrecy!Replace(q, t \o v) = Secrecy!Replace(q, w \o v)
  PROVE  \A v \in Seq(Letters) :
           Secrecy!Replace(q, (t \o <<c>>) \o v) = Secrecy!Replace(q, (w \o <<c>>) \o v)
<1> SUFFICES ASSUME NEW v \in Seq(Letters)
             PROVE  Secrecy!Replace(q, (t \o <<c>>) \o v) = Secrecy!Replace(q, (w \o <<c>>) \o v)
  OBVIOUS
<1>1. PICK a \in Seq(Letters) : a = <<c>> BY OneLetter
<1>2. a \in Seq(Output) /\ v \in Seq(Output) BY LettersOut
<1>3. Regroups(t, a, v) BY Regroup
<1>4. Regroups(w, a, v) BY <1>2, Regroup
<1>5. a \o v \in Seq(Letters) BY ConcatProperties
<1>6. Secrecy!Replace(q, t \o (a \o v)) = Secrecy!Replace(q, w \o (a \o v)) BY <1>5
<1>7. Secrecy!Replace(q, (t \o a) \o v) = Secrecy!Replace(q, (w \o a) \o v)
  BY <1>3, <1>4, <1>6, Zenon DEF Regroups
<1> QED BY <1>1, <1>7

(* The text and one letter more.                                           *)
Added(q, w, c, d) ==
  /\ d \in Seq(Output) /\ Len(d) = Len(w) + 1 /\ d[Len(w) + 1] = c
  /\ \A k \in Nat, n \in 0 .. Len(w) : Ends(q, k, d, n) <=> Ends(q, k, w, n)

(* It ends as before, and in the letter.                                   *)
LEMMA OneMore ==
  ASSUME NEW q, NEW w \in Seq(Output), NEW c \in Output, NEW d, d = w \o <<c>>
  PROVE  Added(q, w, c, d)
<1>1. PICK a \in Seq(Output) : a = <<c>> /\ Len(a) = 1 /\ a[1] = c BY OneLetter
<1>2. Len(w) \in Nat BY LenProperties
<1>3. d \in Seq(Output) /\ Len(d) = Len(w) + 1 BY <1>1, ConcatProperties
<1>4. d[Len(w) + 1] = c
  <2>1. Len(w) + 1 \in 1 .. Len(w) + Len(a) /\ ~(Len(w) + 1 <= Len(w)) /\ Len(w) + 1 - Len(w) = 1
    BY <1>1, <1>2
  <2>2. (w \o a)[Len(w) + 1] = a[1] BY <2>1, ConcatProperties
  <2> QED BY <1>1, <2>2
<1>5. ASSUME NEW k \in Nat, NEW n \in 0 .. Len(w) PROVE Ends(q, k, d, n) <=> Ends(q, k, w, n)
  <2>1. n \in Nat /\ n <= Len(w) BY <1>2
  <2> QED BY <1>1, <2>1, EndsFirst
<1> QED BY <1>3, <1>4, <1>5 DEF Added

(* The letter does not complete the value: the longest prefix that the     *)
(* text ends with is the one that went on.                                 *)
LEMMA LetterPasses ==
  ASSUME NEW q \in Seq(Letters), NEW t \in Seq(Letters), NEW m \in Nat, NEW w, NEW c \in Letters,
         Open(q, t, m, w), NEW e \in Nat, e < Len(q),
         Ends(q, e, w \o <<c>>, Len(w) + 1),
         \A b \in e + 1 .. Len(q) : ~Ends(q, b, w \o <<c>>, Len(w) + 1)
  PROVE  Open(q, t \o <<c>>, e, w \o <<c>>)
<1>0. w \in Seq(Output) /\ c \in Output BY LettersOut DEF Open
<1>01. Len(w) \in Nat /\ Len(q) \in Nat BY <1>0, LenProperties
<1>1. PICK d : d = w \o <<c>> OBVIOUS
<1>2. /\ d \in Seq(Output) /\ Len(d) = Len(w) + 1
      /\ \A k \in Nat, n \in 0 .. Len(w) : Ends(q, k, d, n) <=> Ends(q, k, w, n)
  <2>1. Added(q, w, c, d) BY <1>0, <1>1, OneMore
  <2> QED BY <2>1 DEF Added
<1>3. ASSUME NEW n \in 0 .. Len(d) PROVE ~Ends(q, Len(q), d, n)
  <2>1. CASE n = Len(w) + 1
    <3>1. Len(q) \in e + 1 .. Len(q) BY <1>01
    <3> QED BY <1>1, <2>1, <3>1
  <2>2. CASE n # Len(w) + 1
    <3>1. n \in 0 .. Len(w) BY <1>01, <1>2, <2>2
    <3>2. ~Ends(q, Len(q), w, n) BY <3>1 DEF Open
    <3> QED BY <1>01, <1>2, <3>1, <3>2
  <2> QED BY <2>1, <2>2
<1>4. \A v \in Seq(Letters) : Secrecy!Replace(q, (t \o <<c>>) \o v) = Secrecy!Replace(q, d \o v)
  <2>1. \A v \in Seq(Letters) : Secrecy!Replace(q, t \o v) = Secrecy!Replace(q, w \o v) BY DEF Open
  <2> QED BY <1>0, <1>1, <2>1, ReplaceLater
<1>5. Ends(q, e, d, Len(d)) /\ \A b \in e + 1 .. Len(q) : ~Ends(q, b, d, Len(d)) BY <1>1, <1>2
<1>6. Open(q, t \o <<c>>, e, d) BY <1>2, <1>3, <1>4, <1>5 DEF Open
<1> QED BY <1>1, <1>6

(* w and c end in the value, which is taken out.                           *)
TakenOut(q, t, w, c) ==
  \E x \in Seq(Output) :
    w \o <<c>> = x \o q /\ Open(q, t \o <<c>>, 0, x \o <<Secrecy!Mark>>)

(* The letter completes the value: it is taken out, and what follows is    *)
(* read as from the beginning.                                             *)
LEMMA LetterCompletes ==
  ASSUME SecrecyConstants, NEW q \in Seq(Letters), Len(q) >= 1, NEW t \in Seq(Letters),
         NEW m \in Nat, NEW w, NEW c \in Letters, Open(q, t, m, w),
         Ends(q, Len(q), w \o <<c>>, Len(w) + 1)
  PROVE  TakenOut(q, t, w, c)
<1>0. w \in Seq(Output) /\ c \in Output /\ q \in Seq(Output) BY LettersOut DEF Open
<1>01. Len(w) \in Nat /\ Len(q) \in Nat BY <1>0, LenProperties
<1>02. \A i \in 1 .. Len(q) : q[i] # Secrecy!Mark
  <2>1. \A i \in 1 .. Len(q) : q[i] \in Letters BY ElementOfSeq
  <2> QED BY <2>1 DEF SecrecyConstants
<1>1. PICK d : d = w \o <<c>> OBVIOUS
<1>2. /\ d \in Seq(Output) /\ Len(d) = Len(w) + 1
      /\ \A k \in Nat, n \in 0 .. Len(w) : Ends(q, k, d, n) <=> Ends(q, k, w, n)
  <2>1. Added(q, w, c, d) BY <1>0, <1>1, OneMore
  <2> QED BY <2>1 DEF Added
<1>3. Ends(q, Len(q), d, Len(d)) /\ Len(q) <= Len(d) BY <1>1, <1>2 DEF Ends
<1>31. Len(d) - Len(q) \in Nat BY <1>01, <1>2, <1>3
<1>4. PICK k \in Nat : k = Len(d) - Len(q) BY <1>31
<1>5. PICK x : x = SubSeq(d, 1, k) OBVIOUS
<1>6. x \in Seq(Output) /\ Len(x) = k
  <2>1. \A i \in 1 .. k : d[i] \in Output
    <3> SUFFICES ASSUME NEW i \in 1 .. k PROVE d[i] \in Output OBVIOUS
    <3>1. i \in 1 .. Len(d) BY <1>01, <1>2, <1>4
    <3> QED BY <1>2, <3>1, ElementOfSeq
  <2>2. x \in Seq(Output) /\ Len(x) = IF 1 <= k THEN k - 1 + 1 ELSE 0
    BY <1>5, <2>1, SubSeqProperties
  <2> QED BY <2>2
<1>7. d = x \o q
  <2>1. Len(q) <= Len(q) /\ Len(d) <= Len(d) /\ Len(d) \in Nat BY <1>01, <1>2
  <2>2. SubSeq(d, Len(d) - Len(q) + 1, Len(d)) = SubSeq(q, 1, Len(q))
    BY <1>0, <1>01, <1>2, <1>3, <2>1, EndsPart
  <2>3. SubSeq(q, 1, Len(q)) = q /\ SubSeq(d, 1, Len(d)) = d BY <1>2, SubSeqFull
  <2>4. 1 \in 1 .. Len(d) + 1 /\ k \in 1 - 1 .. Len(d) /\ Len(d) \in k .. Len(d)
    BY <1>01, <1>2, <1>3, <1>4
  <2>5. SubSeq(d, 1, k) \o SubSeq(d, k + 1, Len(d)) = SubSeq(d, 1, Len(d))
    BY <1>2, <2>4, ConcatAdjacentSubSeq
  <2> QED BY <1>4, <1>5, <2>2, <2>3, <2>5
<1>8. k <= Len(w) /\ k + Len(q) = Len(w) + 1 BY <1>01, <1>2, <1>4
<1>9. PICK y : y = x \o <<Secrecy!Mark>> OBVIOUS
<1>10. /\ y \in Seq(Output) /\ Len(y) = k + 1 /\ y[k + 1] = Secrecy!Mark
       /\ \A a \in Nat, n \in 0 .. k : Ends(q, a, y, n) <=> Ends(q, a, x, n)
  <2>1. Secrecy!Mark \in Output /\ x \in Seq(Output) BY <1>6, LettersOut
  <2>2. Added(q, x, Secrecy!Mark, y) BY <1>9, <2>1, OneMore
  <2> QED BY <1>6, <2>2 DEF Added
<1>11. \A b \in 1 .. Len(q) : ~Ends(q, b, y, Len(y))
  <2> SUFFICES ASSUME NEW b \in 1 .. Len(q), Ends(q, b, y, Len(y)) PROVE FALSE OBVIOUS
  <2>1. b \in 1 .. b /\ (k + 1) - b + b = k + 1 BY <1>01
  <2>2. q[b] = y[k + 1] BY <1>10, <2>1 DEF Ends
  <2> QED BY <1>02, <1>10, <2>2
<1>12. \A n \in 0 .. Len(y) : ~Ends(q, Len(q), y, n)
  <2> SUFFICES ASSUME NEW n \in 0 .. Len(y) PROVE ~Ends(q, Len(q), y, n) OBVIOUS
  <2>1. CASE n = Len(y)
    <3>1. Len(q) \in 1 .. Len(q) BY <1>01
    <3> QED BY <1>11, <2>1, <3>1
  <2>2. CASE n # Len(y)
    <3>1. n \in 0 .. k /\ n \in Nat /\ n <= Len(x) /\ n \in 0 .. Len(w)
      BY <1>01, <1>6, <1>8, <1>10, <2>2
    <3>2. Ends(q, Len(q), y, n) <=> Ends(q, Len(q), x, n) BY <1>01, <1>10, <3>1
    <3>3. Ends(q, Len(q), d, n) <=> Ends(q, Len(q), x, n)
      BY <1>0, <1>01, <1>6, <1>7, <3>1, EndsFirst
    <3>4. Ends(q, Len(q), d, n) <=> Ends(q, Len(q), w, n) BY <1>01, <1>2, <3>1
    <3>5. ~Ends(q, Len(q), w, n) BY <3>1 DEF Open
    <3> QED BY <3>2, <3>3, <3>4, <3>5
  <2> QED BY <2>1, <2>2
<1>13. ASSUME NEW v \in Seq(Letters)
       PROVE  Secrecy!Replace(q, (t \o <<c>>) \o v) = Secrecy!Replace(q, y \o v)
  <2>0. v \in Seq(Output) BY LettersOut
  <2>01. Len(v) \in Nat BY LenProperties
  <2>1. Secrecy!Replace(q, (t \o <<c>>) \o v) = Secrecy!Replace(q, d \o v)
    <3>1. \A u \in Seq(Letters) : Secrecy!Replace(q, t \o u) = Secrecy!Replace(q, w \o u)
      BY DEF Open
    <3> QED BY <1>0, <1>1, <3>1, ReplaceLater
  <2>2. PICK z \in Seq(Output) : z = q \o v /\ Len(z) = Len(q) + Len(v)
    BY <1>0, <2>0, ConcatProperties
  <2>3. d \o v = x \o z
    <3>1. Regroups(x, q, v) BY <1>0, <1>6, <2>0, Regroup
    <3> QED BY <1>7, <2>2, <3>1 DEF Regroups
  <2>4. Apart(q, x, z)
    <3> SUFFICES ASSUME NEW n \in 0 .. Len(x) + Len(z), n < Len(x) + Len(q) PROVE ~Ends(q, Len(q), x \o z, n)
      BY DEF Apart
    <3>1. n \in Nat /\ n \in 0 .. Len(w) /\ n <= Len(d)
      BY <1>01, <1>2, <1>6, <1>8, <2>01, <2>2
    <3>2. Ends(q, Len(q), d \o v, n) <=> Ends(q, Len(q), d, n)
      BY <1>01, <1>2, <2>0, <3>1, EndsFirst
    <3>3. Ends(q, Len(q), d, n) <=> Ends(q, Len(q), w, n) BY <1>01, <1>2, <3>1
    <3>4. ~Ends(q, Len(q), w, n) BY <3>1 DEF Open
    <3> QED BY <2>3, <3>2, <3>3, <3>4
  <2>5. Secrecy!Replace(q, x \o z) = x \o Secrecy!Replace(q, z)
    BY <1>0, <1>6, <2>4, ReplaceApart
  <2>6. Secrecy!Replace(q, z) = <<Secrecy!Mark>> \o Secrecy!Replace(q, v)
    BY <1>0, <2>0, <2>2, ReplaceFound
  <2>7. Apart(q, y, v)
    <3> SUFFICES ASSUME NEW n \in 0 .. Len(y) + Len(v), n < Len(y) + Len(q),
                        Ends(q, Len(q), y \o v, n)
                 PROVE  FALSE
      BY DEF Apart
    <3>0. n \in Nat /\ Len(y) \in Nat BY <1>10, <2>01
    <3>1. CASE n <= Len(y)
      <4>1. Ends(q, Len(q), y, n) BY <1>01, <1>10, <2>0, <3>0, <3>1, EndsFirst
      <4>2. n \in 0 .. Len(y) BY <3>0, <3>1
      <4> QED BY <1>12, <4>1, <4>2
    <3>2. CASE n > Len(y)
      <4>1. Len(q) <= n /\ \A i \in 1 .. Len(q) : q[i] = (y \o v)[n - Len(q) + i] BY DEF Ends
      <4>20. Len(y) - (n - Len(q)) \in Int BY <1>01, <3>0
      <4>2. PICK i \in Int : i = Len(y) - (n - Len(q)) BY <4>20
      <4>3. i \in 1 .. Len(q) /\ n - Len(q) + i = k + 1 BY <1>01, <1>10, <3>0, <3>2, <4>1, <4>2
      <4>4. q[i] = (y \o v)[k + 1] BY <4>1, <4>3
      <4>5. k + 1 \in 1 .. Len(y) + Len(v) /\ k + 1 <= Len(y) BY <1>10, <2>01
      <4>6. (y \o v)[k + 1] = y[k + 1] BY <1>10, <2>0, <4>5, ConcatProperties
      <4> QED BY <1>02, <1>10, <4>3, <4>4, <4>6
    <3> QED BY <3>0, <3>1, <3>2
  <2>8. Secrecy!Replace(q, y \o v) = y \o Secrecy!Replace(q, v)
    BY <1>0, <1>10, <2>0, <2>7, ReplaceApart
  <2>9. x \o (<<Secrecy!Mark>> \o Secrecy!Replace(q, v)) = y \o Secrecy!Replace(q, v)
    <3>1. Secrecy!Replace(q, v) \in Seq(Output) BY <1>0, <2>0, ReplaceTyped
    <3>2. <<Secrecy!Mark>> \in Seq(Output) BY LettersOut
    <3>3. Regroups(x, <<Secrecy!Mark>>, Secrecy!Replace(q, v)) BY <1>6, <3>1, <3>2, Regroup
    <3> QED BY <1>9, <3>3 DEF Regroups
  <2> QED BY <2>1, <2>3, <2>5, <2>6, <2>8, <2>9
<1>14. Open(q, t \o <<c>>, 0, y)
  <2>1. Ends(q, 0, y, Len(y)) BY <1>10 DEF Ends
  <2>2. \A b \in 0 + 1 .. Len(q) : ~Ends(q, b, y, Len(y)) BY <1>11
  <2> QED BY <1>10, <1>12, <1>13, <2>1, <2>2 DEF Open
<1> QED BY <1>1, <1>6, <1>7, <1>9, <1>14 DEF TakenOut

(* The first letters of q.                                                 *)
LEMMA FirstLetters ==
  ASSUME NEW q \in Seq(Letters), NEW k \in Nat, k <= Len(q)
  PROVE  SubSeq(q, 1, k) \in Seq(Output) /\ Len(SubSeq(q, 1, k)) = k
<1>0. Len(q) \in Nat BY LenProperties
<1>1. \A i \in 1 .. k : q[i] \in Letters BY <1>0, ElementOfSeq
<1>2. SubSeq(q, 1, k) \in Seq(Letters) /\ Len(SubSeq(q, 1, k)) = IF 1 <= k THEN k - 1 + 1 ELSE 0
  BY <1>1, SubSeqProperties
<1>3. SubSeq(q, 1, k) \in Seq(Output) BY <1>2, LettersOut
<1> QED BY <1>2, <1>3

(* What leaves the withheld prefix and what stays in it are the prefix.    *)
LEMMA BorderSplits ==
  ASSUME NEW q \in Seq(Letters), NEW r \in Nat, NEW m \in Nat, r <= m, m <= Len(q),
         Ends(q, r, q, m)
  PROVE  SubSeq(q, 1, m - r) \o SubSeq(q, 1, r) = SubSeq(q, 1, m)
<1>0. Len(q) \in Nat BY LenProperties
<1>01. m - r \in Nat BY <1>0
<1>1. PICK k \in Nat : k = m - r BY <1>01
<1>2. r <= Len(q) BY <1>0
<1>3. SubSeq(q, m - r + 1, m) = SubSeq(q, 1, r) BY <1>2, EndsPart
<1>4. 1 \in 1 .. Len(q) + 1 /\ k \in 1 - 1 .. Len(q) /\ m \in k .. Len(q) BY <1>0, <1>1
<1>5. SubSeq(q, 1, k) \o SubSeq(q, k + 1, m) = SubSeq(q, 1, m) BY <1>4, ConcatAdjacentSubSeq
<1> QED BY <1>1, <1>3, <1>5

(* The state of a field: of the text t, o was shown and the first m        *)
(* letters of q are held back.                                             *)
Redacted(q, t, m, o) ==
  m \in Nat /\ m < Len(q) /\ o \in Seq(Output) /\ Open(q, t, m, o \o SubSeq(q, 1, m))

(* What Step finds by falling back from m letters held back at the end of  *)
(* w, when c makes it d.                                                   *)
Found(q, m, w, c, d, r) ==
  /\ r \in 0 .. m
  /\ Candidate(q, r, d, Len(w), Len(q) - 1)
  /\ r = 0 \/ c = q[r + 1]
  /\ Ends(q, r, q, m)
  /\ d[Len(w) + 1] = c

(* The fallback of Step finds it.                                          *)
LEMMA StepFinds ==
  ASSUME NEW q \in Seq(Letters), Len(q) >= 1, NEW t \in Seq(Letters), NEW m \in Nat,
         m < Len(q), NEW w, Open(q, t, m, w), NEW c \in Letters,
         NEW r, r = Secrecy!FallBack(q, Secrecy!Failure(q), m, c),
         NEW d, d = w \o <<c>>
  PROVE  Found(q, m, w, c, d, r)
<1>0. w \in Seq(Output) /\ c \in Output BY LettersOut DEF Open
<1>01. Len(w) \in Nat /\ Len(q) \in Nat BY <1>0, LenProperties
<1>1. /\ Len(d) = Len(w) + 1 /\ d[Len(w) + 1] = c
      /\ \A k \in Nat, n \in 0 .. Len(w) : Ends(q, k, d, n) <=> Ends(q, k, w, n)
  <2>1. Added(q, w, c, d) BY <1>0, OneMore
  <2> QED BY <2>1 DEF Added
<1>2. Tabled(q, Secrecy!Failure(q), m)
  <2>1. Borders(q, Secrecy!Failure(q), Len(q)) BY <1>01, FailureOK
  <2>2. \A k \in 1 .. m : k \in 1 .. Len(q) BY <1>01
  <2> QED BY <2>1, <2>2 DEF Borders, Tabled
<1>3. \A k \in Nat : Ends(q, k, d, Len(w)) <=> Ends(q, k, w, Len(w))
  <2>1. Len(w) \in 0 .. Len(w) BY <1>01
  <2> QED BY <1>1, <2>1
<1>31. Len(q) - 1 \in Nat BY <1>01
<1>4. PICK B \in Nat : B = Len(q) - 1 BY <1>31
<1>5. Ends(q, m, d, Len(w)) BY <1>3 DEF Open
<1>6. Candidate(q, m, d, Len(w), B)
  <2>1. ASSUME NEW b \in m + 1 .. B PROVE ~Ends(q, b, d, Len(w))
    <3>1. b \in Nat /\ b \in m + 1 .. Len(q) BY <1>01, <1>4
    <3>2. ~Ends(q, b, w, Len(w)) BY <3>1 DEF Open
    <3> QED BY <1>3, <3>1, <3>2
  <2> QED BY <1>5, <2>1 DEF Candidate
<1>7. c = d[Len(w) + 1] BY <1>1
<1>8. r \in 0 .. m /\ Candidate(q, r, d, Len(w), B) /\ (r = 0 \/ c = q[r + 1])
  <2>1. Settles(q, m, d, Len(w), B, c, r) BY <1>01, <1>2, <1>6, <1>7, FallBackFinds
  <2> QED BY <2>1 DEF Settles
<1>9. r \in Nat /\ r <= m /\ Ends(q, r, d, Len(w)) BY <1>8 DEF Candidate
<1>10. Ends(q, r, q, m) BY <1>01, <1>5, <1>9, EndsTransitive
<1> QED BY <1>4, <1>7, <1>8, <1>10 DEF Found

(* The parts of the state of a field.                                      *)
LEMMA FieldParts ==
  ASSUME NEW a, NEW b, NEW z, z = [matched |-> a, out |-> b]
  PROVE  z.matched = a /\ z.out = b
  OBVIOUS

(* redact_chunk keeps the state of the field for one letter more.          *)
LEMMA StepOK ==
  ASSUME SecrecyConstants, NEW q \in Seq(Letters), Len(q) >= 1, NEW t \in Seq(Letters),
         NEW h \in Seq(Output), NEW s, s.out \in Seq(Output),
         Redacted(q, t, s.matched, h \o s.out), NEW c \in Letters,
         NEW z, z = Secrecy!Step(q, s, c)
  PROVE  z.out \in Seq(Output) /\ Redacted(q, t \o <<c>>, z.matched, h \o z.out)
<1>0. PICK m \in Nat : m = s.matched BY DEF Redacted
<1>1. PICK o \in Seq(Output) : o = h \o s.out BY ConcatProperties
<1>2. PICK w : w = o \o SubSeq(q, 1, m) OBVIOUS
<1>3. m < Len(q) /\ Open(q, t, m, w) BY <1>0, <1>1, <1>2 DEF Redacted
<1>4. PICK r : r = Secrecy!FallBack(q, Secrecy!Failure(q), m, c) OBVIOUS
<1>5. PICK d : d = w \o <<c>> OBVIOUS
<1>6. /\ r \in 0 .. m
      /\ Candidate(q, r, d, Len(w), Len(q) - 1)
      /\ r = 0 \/ c = q[r + 1]
      /\ Ends(q, r, q, m)
      /\ d[Len(w) + 1] = c
  <2>1. Found(q, m, w, c, d, r) BY <1>3, <1>4, <1>5, StepFinds
  <2> QED BY <2>1 DEF Found
<1>7. w \in Seq(Output) /\ c \in Output /\ Secrecy!Mark \in Output /\ q \in Seq(Output)
  BY <1>3, LettersOut DEF Open
<1>8. Len(w) \in Nat /\ Len(q) \in Nat /\ r \in Nat /\ r <= m /\ m - r \in Nat /\ m - r <= Len(q)
      /\ r <= Len(q) /\ m <= Len(q) /\ Len(q) - 1 \in Nat
  BY <1>3, <1>6, <1>7, LenProperties
<1>9. PICK g \in Seq(Output) : g = SubSeq(q, 1, m - r) BY <1>8, FirstLetters
<1>10. PICK k \in Seq(Output) : k = SubSeq(q, 1, r) BY <1>8, FirstLetters
<1>11. g \o k = SubSeq(q, 1, m) BY <1>6, <1>8, <1>9, <1>10, BorderSplits
<1>12. PICK l \in Seq(Output) : l = <<c>> BY <1>7, OneLetter
<1>13. s.out \o g \in Seq(Output) BY ConcatProperties
<1>14. z = IF c # q[r + 1] THEN [matched |-> 0, out |-> Append(s.out \o g, c)]
           ELSE IF r + 1 = Len(q) THEN [matched |-> 0, out |-> Append(s.out \o g, Secrecy!Mark)]
           ELSE [matched |-> r + 1, out |-> s.out \o g]
  BY <1>0, <1>4, <1>9, Zenon DEF Secrecy!Step
<1>15. (h \o s.out) \o g = h \o (s.out \o g)
  <2>1. Regroups(h, s.out, g) BY Regroup
  <2> QED BY <2>1 DEF Regroups
<1>16. w = (o \o g) \o k
  <2>1. Regroups(o, g, k) BY Regroup
  <2> QED BY <1>2, <1>11, <2>1 DEF Regroups
<1>17. o \o g \in Seq(Output) /\ h \o (s.out \o g) = o \o g BY <1>1, <1>15, ConcatProperties
<1>18. CASE c # q[r + 1]
  <2>1. r = 0 /\ c # q[1] BY <1>6, <1>18
  <2>2. z.matched = 0 /\ z.out = Append(s.out \o g, c) BY <1>14, <1>18
  <2>3. Append(s.out \o g, c) = (s.out \o g) \o l BY <1>7, <1>12, <1>13, AppendIsConcat
  <2>4. z.out \in Seq(Output) BY <2>2, <2>3, <1>13, ConcatProperties
  <2>5. h \o z.out = d
    <3>1. Regroups(h, s.out \o g, l) BY <1>13, Regroup
    <3>2. k = << >> BY <1>10, <2>1, SubSeqEmpty
    <3>3. w = o \o g BY <1>16, <1>17, <3>2, ConcatEmptySeq
    <3> QED BY <1>5, <1>12, <1>17, <2>2, <2>3, <3>1, <3>3 DEF Regroups
  <2>6. Open(q, t \o <<c>>, 0, w \o <<c>>)
    <3>1. Candidate(q, 0, d, Len(w), Len(q) - 1) /\ q[1] # d[Len(w) + 1] BY <1>6, <2>1
    <3>2. /\ Ends(q, 0, d, Len(w) + 1)
          /\ \A b \in 1 .. (Len(q) - 1) + 1 : ~Ends(q, b, d, Len(w) + 1)
      BY <1>8, <3>1, GoesNowhere
    <3>3. (Len(q) - 1) + 1 = Len(q) /\ 0 + 1 = 1 /\ 0 < Len(q) BY <1>8
    <3> QED BY <1>3, <1>5, <3>2, <3>3, LetterPasses
  <2>7. d \o SubSeq(q, 1, 0) = d
    <3>1. SubSeq(q, 1, 0) = << >> BY SubSeqEmpty
    <3>2. d \in Seq(Output) BY <2>6, <1>5 DEF Open
    <3> QED BY <3>1, <3>2, ConcatEmptySeq
  <2>8. d \in Seq(Output) /\ 0 < Len(q) BY <1>5, <1>8, <2>6 DEF Open
  <2>9. Redacted(q, t \o <<c>>, 0, d) BY <1>5, <2>6, <2>7, <2>8 DEF Redacted
  <2> QED BY <2>2, <2>4, <2>5, <2>9
<1>19. CASE c = q[r + 1] /\ r + 1 # Len(q)
  <2>0. PICK u, v : u = s.out \o g /\ v = r + 1 OBVIOUS
  <2>01. z = [matched |-> v, out |-> u] BY <1>14, <1>19, <2>0, Zenon
  <2>02. z.matched = v /\ z.out = u BY <2>01, FieldParts
  <2>1. z.matched = r + 1 /\ z.out = s.out \o g BY <2>0, <2>02, Zenon
  <2>2. z.out \in Seq(Output) /\ h \o z.out = o \o g BY <1>13, <1>17, <2>1
  <2>3. r + 1 < Len(q) /\ r + 1 \in Nat BY <1>3, <1>8, <1>19
  <2>4. Open(q, t \o <<c>>, r + 1, w \o <<c>>)
    <3>1. /\ Ends(q, r + 1, d, Len(w) + 1)
          /\ \A b \in r + 2 .. (Len(q) - 1) + 1 : ~Ends(q, b, d, Len(w) + 1)
      BY <1>6, <1>8, <1>19, GoesOn
    <3>2. (Len(q) - 1) + 1 = Len(q) /\ (r + 1) + 1 = r + 2 BY <1>8
    <3> QED BY <1>3, <1>5, <2>3, <3>1, <3>2, LetterPasses
  <2>5. (o \o g) \o SubSeq(q, 1, r + 1) = w \o <<c>>
    <3>1. 1 \in 1 .. Len(q) /\ r + 1 \in 1 .. Len(q) /\ (r + 1) - 1 = r BY <1>8, <2>3
    <3>2. SubSeq(q, 1, r + 1) = SubSeq(q, 1, (r + 1) - 1) \o <<q[r + 1]>> BY <3>1, SubSeqRecursiveSecond
    <3>3. SubSeq(q, 1, r + 1) = k \o l BY <1>10, <1>12, <1>19, <3>1, <3>2
    <3>4. Regroups(o \o g, k, l) BY <1>17, Regroup
    <3> QED BY <1>12, <1>16, <3>3, <3>4 DEF Regroups
  <2>6. Redacted(q, t \o <<c>>, r + 1, o \o g) BY <1>17, <2>3, <2>4, <2>5 DEF Redacted
  <2> QED BY <2>1, <2>2, <2>6
<1>20. CASE c = q[r + 1] /\ r + 1 = Len(q)
  <2>0. PICK u : u = Append(s.out \o g, Secrecy!Mark) OBVIOUS
  <2>01. z = [matched |-> 0, out |-> u] BY <1>14, <1>20, <2>0, Zenon
  <2>02. z.matched = 0 /\ z.out = u BY <2>01, FieldParts
  <2>1. z.matched = 0 /\ z.out = Append(s.out \o g, Secrecy!Mark) BY <2>0, <2>02, Zenon
  <2>03. r \in Nat /\ Len(q) \in Nat /\ r <= m /\ m < Len(q) /\ r + 1 = Len(q) BY <1>3, <1>8, <1>20
  <2>2. r = m /\ m - r = 0 /\ Len(q) = m + 1 BY <2>03
  <2>3. g = << >> BY <1>9, <2>2, SubSeqEmpty
  <2>4. PICK y \in Seq(Output) : y = <<Secrecy!Mark>> BY <1>7, OneLetter
  <2>5. z.out = s.out \o y
    <3>1. s.out \o g = s.out BY <2>3, ConcatEmptySeq
    <3> QED BY <1>7, <2>1, <2>4, <3>1, AppendIsConcat
  <2>6. z.out \in Seq(Output) /\ h \o z.out = o \o y
    <3>1. Regroups(h, s.out, y) BY Regroup
    <3>2. s.out \o y \in Seq(Output) BY ConcatProperties
    <3> QED BY <1>1, <2>5, <3>1, <3>2 DEF Regroups
  <2>7. Ends(q, r + 1, d, Len(w) + 1) BY <1>6, <1>8, <1>20, GoesOn
  <2>8. PICK x \in Seq(Output) : w \o <<c>> = x \o q /\ Open(q, t \o <<c>>, 0, x \o <<Secrecy!Mark>>)
    <3>1. Ends(q, Len(q), w \o <<c>>, Len(w) + 1) BY <1>5, <1>20, <2>7
    <3>2. TakenOut(q, t, w, c) BY <1>3, <3>1, LetterCompletes
    <3> QED BY <3>2 DEF TakenOut
  <2>9. w \o <<c>> = o \o q
    <3>1. 1 \in 1 .. Len(q) /\ Len(q) \in 1 .. Len(q) /\ Len(q) - 1 = r BY <1>8, <2>2
    <3>2. SubSeq(q, 1, Len(q)) = SubSeq(q, 1, Len(q) - 1) \o <<q[Len(q)]>>
      BY <3>1, SubSeqRecursiveSecond
    <3>3. SubSeq(q, 1, Len(q)) = q BY SubSeqFull
    <3>4. q = k \o l BY <1>10, <1>12, <1>20, <3>1, <3>2, <3>3
    <3>5. Regroups(o, k, l) BY Regroup
    <3>6. o \o g = o BY <2>3, ConcatEmptySeq
    <3> QED BY <1>12, <1>16, <3>4, <3>5, <3>6 DEF Regroups
  <2>10. x = o
    <3>1. x \o q = o \o q BY <2>8, <2>9
    <3> QED BY <1>7, <3>1, ConcatSimplifications
  <2>11. o \o y \in Seq(Output) /\ 0 < Len(q) /\ 0 \in Nat BY <1>8, ConcatProperties
  <2>12. (o \o y) \o SubSeq(q, 1, 0) = o \o y
    <3>1. SubSeq(q, 1, 0) = << >> BY SubSeqEmpty
    <3> QED BY <2>11, <3>1, ConcatEmptySeq
  <2>13. Open(q, t \o <<c>>, 0, o \o y) BY <2>4, <2>8, <2>10
  <2>14. Redacted(q, t \o <<c>>, 0, o \o y) BY <2>11, <2>12, <2>13 DEF Redacted
  <2> QED BY <2>1, <2>6, <2>14
<1> QED BY <1>18, <1>19, <1>20

-----------------------------------------------------------------------------
(* A chunk.                                                                *)

(* The state of a field after one letter more.                             *)
Move(f, q, m, chunk, n) ==
  IF n = 0 THEN [matched |-> m, out |-> << >>] ELSE Secrecy!Step(q, f[n - 1], chunk[n])

(* f is the recursive function of RedactChunk on the first up to N letters.*)
Moves(f, q, m, chunk, N) == f = [n \in 0 .. N |-> Move(f, q, m, chunk, n)]

(* There is such a function.                                               *)
LEMMA MovesExists ==
  ASSUME NEW q, NEW m, NEW chunk, NEW N \in Nat
  PROVE  \E f : Moves(f, q, m, chunk, N)
<1> DEFINE T == {M \in Nat : ~ \E f : Moves(f, q, m, chunk, M)}
<1> SUFFICES ASSUME T # {} PROVE FALSE OBVIOUS
<1> HIDE DEF T
<1>0. T \subseteq Nat BY DEF T
<1>1. PICK M \in T : \A k \in T : M <= k BY <1>0, LeastElement
<1>2. M \in Nat /\ ~ \E f : Moves(f, q, m, chunk, M) BY DEF T
<1>3. \E g : M # 0 => Moves(g, q, m, chunk, M - 1)
  <2>1. CASE M = 0 BY <2>1
  <2>2. CASE M # 0
    <3>1. M - 1 \in Nat /\ M - 1 \notin T BY <1>1, <1>2, <2>2
    <3> QED BY <3>1 DEF T
  <2> QED BY <2>1, <2>2
<1>4. PICK g : M # 0 => Moves(g, q, m, chunk, M - 1) BY <1>3
<1> DEFINE f == [n \in 0 .. M |-> IF n = M THEN Move(g, q, m, chunk, M) ELSE g[n]]
<1>6. ASSUME NEW n \in 0 .. M PROVE f[n] = Move(f, q, m, chunk, n)
  <2>1. n # 0 => f[n - 1] = g[n - 1] BY <1>2
  <2>2. Move(f, q, m, chunk, n) = Move(g, q, m, chunk, n)
    <3> HIDE DEF f
    <3> QED BY <2>1 DEF Move
  <2>3. CASE n = M BY <2>2, <2>3
  <2>4. CASE n # M
    <3>1. f[n] = g[n] /\ n \in 0 .. M - 1 /\ M # 0 BY <1>2, <2>4
    <3>2. g[n] = Move(g, q, m, chunk, n) BY <1>4, <3>1 DEF Moves
    <3> QED BY <2>2, <3>1, <3>2
  <2> QED BY <2>3, <2>4
<1>7. f = [n \in 0 .. M |-> f[n]] OBVIOUS
<1> HIDE DEF f
<1>8. Moves(f, q, m, chunk, M) BY <1>6, <1>7 DEF Moves
<1> QED BY <1>2, <1>8

(* RedactChunk is its last value.                                          *)
LEMMA ChunkMoves ==
  ASSUME NEW q, NEW m, NEW chunk, Len(chunk) \in Nat
  PROVE  \E f : Moves(f, q, m, chunk, Len(chunk)) /\ Secrecy!RedactChunk(q, m, chunk) = f[Len(chunk)]
<1> DEFINE after[n \in 0 .. Len(chunk)] == Move(after, q, m, chunk, n)
<1>1. Secrecy!RedactChunk(q, m, chunk) = after[Len(chunk)] BY DEF Secrecy!RedactChunk, Move
<1>2. \E f : f = [n \in 0 .. Len(chunk) |-> Move(f, q, m, chunk, n)]
  <2>1. \E f : Moves(f, q, m, chunk, Len(chunk)) BY MovesExists
  <2> QED BY <2>1 DEF Moves
<1>3. after = [n \in 0 .. Len(chunk) |-> Move(after, q, m, chunk, n)] BY <1>2, Zenon DEF after
<1> HIDE DEF after
<1> QED BY <1>1, <1>3 DEF Moves

(* redact_chunk keeps the state of the field.                              *)
LEMMA ChunkOK ==
  ASSUME SecrecyConstants, NEW q \in Seq(Letters), Len(q) >= 1, NEW t \in Seq(Letters),
         NEW m, NEW h, Redacted(q, t, m, h), NEW chunk \in Seq(Letters),
         NEW z, z = Secrecy!RedactChunk(q, m, chunk)
  PROVE  z.out \in Seq(Output) /\ Redacted(q, t \o chunk, z.matched, h \o z.out)
<1>0. Len(chunk) \in Nat BY LenProperties
<1>01. h \in Seq(Output) BY DEF Redacted
<1>1. PICK f : Moves(f, q, m, chunk, Len(chunk)) /\ z = f[Len(chunk)] BY <1>0, ChunkMoves
<1> DEFINE Good(n) == /\ f[n].out \in Seq(Output)
                      /\ Redacted(q, t \o SubSeq(chunk, 1, n), f[n].matched, h \o f[n].out)
           T == {n \in 0 .. Len(chunk) : ~Good(n)}
<1>2. T = {}
  <2> SUFFICES ASSUME T # {} PROVE FALSE OBVIOUS
  <2> HIDE DEF T
  <2>0. T \subseteq Nat BY <1>0 DEF T
  <2>1. PICK n \in T : \A i \in T : n <= i BY <2>0, LeastElement
  <2>2. n \in Nat /\ n \in 0 .. Len(chunk) /\ ~Good(n) BY <2>0 DEF T
  <2>3. f[n] = Move(f, q, m, chunk, n) BY <1>1, <2>2 DEF Moves
  <2>4. CASE n = 0
    <3>1. f[0].matched = m /\ f[0].out = << >> BY <2>3, <2>4 DEF Move
    <3>2. SubSeq(chunk, 1, 0) = << >> BY SubSeqEmpty
    <3>3. t \o << >> = t /\ h \o << >> = h BY <1>01, ConcatEmptySeq
    <3>4. << >> \in Seq(Output) BY EmptySeq
    <3> QED BY <2>2, <2>4, <3>1, <3>2, <3>3, <3>4
  <2>5. CASE n # 0
    <3>1. PICK i \in Nat : i = n - 1 BY <2>2, <2>5
    <3>2. i \in 0 .. Len(chunk) /\ ~(n <= i) /\ n \in 1 .. Len(chunk) BY <1>0, <2>2, <2>5, <3>1
    <3>3. Good(i) BY <2>1, <3>2 DEF T
    <3>4. PICK c \in Letters : c = chunk[n] BY <3>2, ElementOfSeq
    <3>5. f[n] = Secrecy!Step(q, f[i], c) BY <2>3, <2>5, <3>1, <3>4 DEF Move
    <3>6. PICK u \in Seq(Letters) : u = SubSeq(chunk, 1, i)
      <4>1. \A j \in 1 .. i : chunk[j] \in Letters BY <1>0, <3>2, ElementOfSeq
      <4>2. SubSeq(chunk, 1, i) \in Seq(Letters) BY <4>1, SubSeqProperties
      <4> QED BY <4>2
    <3>7. t \o u \in Seq(Letters) BY ConcatProperties
    <3>8. f[n].out \in Seq(Output) /\ Redacted(q, (t \o u) \o <<c>>, f[n].matched, h \o f[n].out)
      <4>1. f[i].out \in Seq(Output) /\ Redacted(q, t \o u, f[i].matched, h \o f[i].out)
        BY <3>3, <3>6
      <4> QED BY <1>01, <3>5, <3>7, <4>1, StepOK
    <3>9. (t \o u) \o <<c>> = t \o SubSeq(chunk, 1, n)
      <4>1. 1 \in 1 .. Len(chunk) /\ n \in 1 .. Len(chunk) BY <1>0, <3>2
      <4>2. SubSeq(chunk, 1, n) = SubSeq(chunk, 1, n - 1) \o <<chunk[n]>>
        BY <4>1, SubSeqRecursiveSecond
      <4>3. <<c>> \in Seq(Letters) BY OneLetter
      <4>4. Regroups(t, u, <<c>>) BY <4>3, Regroup
      <4> QED BY <3>1, <3>4, <3>6, <4>2, <4>4 DEF Regroups
    <3> QED BY <2>2, <3>8, <3>9
  <2> QED BY <2>4, <2>5
<1>3. Good(Len(chunk))
  <2>1. Len(chunk) \in 0 .. Len(chunk) BY <1>0
  <2> QED BY <1>2, <2>1
<1>4. SubSeq(chunk, 1, Len(chunk)) = chunk BY SubSeqFull
<1> QED BY <1>1, <1>3, <1>4

-----------------------------------------------------------------------------
(* The redactor.                                                           *)

(* No prefix of q that is not empty ends the text o.                       *)
Concealed(q, o) == \A b \in 1 .. Len(q) : ~Ends(q, b, o, Len(o))

(* The value ends nowhere in o.                                            *)
Clean(q, o) == o \in Seq(Output) /\ \A n \in 0 .. Len(o) : ~Ends(q, Len(q), o, n)

(* A field is in the state redact_chunk left it in since it was closed.    *)
FieldHidden(f) ==
  /\ Clean(secret, closed[f]) /\ Concealed(secret, closed[f])
  /\ Clean(secret, shown[f])
  /\ said[f] = << >> => Concealed(secret, shown[f])
  /\ redacting = "open" =>
       \E o \in Seq(Output) : Redacted(secret, said[f], matched[f], o) /\ shown[f] = closed[f] \o o

(* What is joined under a key is what its only field has shown.            *)
KeysHidden ==
  /\ \A f \in Fields : matched[f] > 0 => <<f, last[f]>> \in came
  /\ \A f \in Fields, k \in Keys : Secrecy!Alone(f, k) => joined[k] = shown[f]

Hidden ==
  /\ secret \in Seq(Letters) /\ Len(secret) >= 1
  /\ said \in [Fields -> Seq(Letters)]
  /\ matched \in [Fields -> Nat]
  /\ closed \in [Fields -> Seq(Output)] /\ shown \in [Fields -> Seq(Output)]
  /\ last \in [Fields -> Keys \union {Secrecy!NoKey}] /\ joined = [h \in Keys |-> joined[h]]
  /\ \A f \in Fields : FieldHidden(f)
  /\ KeysHidden

(* What is shown is a part of what is shown or held back.                  *)
LEMMA ShownClean ==
  ASSUME NEW q \in Seq(Letters), NEW t, NEW m, NEW o, Redacted(q, t, m, o)
  PROVE  Clean(q, o)
<1>0. Len(q) \in Nat /\ m \in Nat /\ m < Len(q) /\ o \in Seq(Output) BY LenProperties DEF Redacted
<1>01. m <= Len(q) /\ Len(o) \in Nat BY <1>0, LenProperties
<1>1. PICK g \in Seq(Output) : g = SubSeq(q, 1, m) BY <1>0, <1>01, FirstLetters
<1>2. \A n \in 0 .. Len(o \o g) : ~Ends(q, Len(q), o \o g, n) BY <1>1 DEF Redacted, Open
<1>3. Len(o \o g) = Len(o) + Len(g) /\ Len(g) \in Nat BY <1>0, ConcatProperties, LenProperties
<1>4. ASSUME NEW n \in 0 .. Len(o) PROVE ~Ends(q, Len(q), o, n)
  <2>1. n \in 0 .. Len(o \o g) /\ n \in Nat /\ n <= Len(o) BY <1>01, <1>3
  <2>2. Ends(q, Len(q), o \o g, n) <=> Ends(q, Len(q), o, n) BY <1>0, <2>1, EndsFirst
  <2> QED BY <1>2, <2>1, <2>2
<1> QED BY <1>0, <1>4 DEF Clean

(* In the beginning nothing is shown or held back.                         *)
LEMMA RedactedStart ==
  ASSUME NEW q \in Seq(Letters), Len(q) >= 1
  PROVE  Redacted(q, << >>, 0, << >>) /\ Clean(q, << >>)
<1>0. Len(q) \in Nat BY LenProperties
<1>1. << >> \in Seq(Output) /\ Len(<< >>) = 0 BY EmptySeq
<1>2. << >> \o SubSeq(q, 1, 0) = << >>
  <2>1. SubSeq(q, 1, 0) = << >> BY SubSeqEmpty
  <2> QED BY <1>1, <2>1, ConcatEmptySeq
<1>3. \A b \in 1 .. Len(q) : ~Ends(q, b, << >>, 0) BY <1>0 DEF Ends
<1>4. Open(q, << >>, 0, << >>)
  <2>1. Ends(q, 0, << >>, 0) BY DEF Ends
  <2>2. \A n \in 0 .. 0 : ~Ends(q, Len(q), << >>, n) BY <1>0 DEF Ends
  <2> QED BY <1>1, <1>3, <2>1, <2>2 DEF Open
<1>5. Redacted(q, << >>, 0, << >>)
  <2>1. 0 \in Nat /\ 0 < Len(q) BY <1>0
  <2>2. Open(q, << >>, 0, << >> \o SubSeq(q, 1, 0)) BY <1>2, <1>4, Zenon
  <2> QED BY <1>1, <2>1, <2>2, Zenon DEF Redacted
<1> QED BY <1>5, ShownClean

(* Concealing what is held back.                                           *)
LEMMA PendingConcealed ==
  ASSUME SecrecyConstants, NEW q \in Seq(Letters), Len(q) >= 1, NEW t, NEW m, NEW o,
         Redacted(q, t, m, o), NEW e, e = IF m > 0 THEN Append(o, Secrecy!Mark) ELSE o
  PROVE  Clean(q, e) /\ Concealed(q, e)
<1>0. Len(q) \in Nat /\ m \in Nat /\ m < Len(q) /\ o \in Seq(Output) /\ Len(o) \in Nat
  BY LenProperties DEF Redacted
<1>1. Clean(q, o) BY ShownClean
<1>2. CASE m = 0
  <2>1. e = o BY <1>2
  <2>2. o \o SubSeq(q, 1, 0) = o
    <3>1. SubSeq(q, 1, 0) = << >> BY SubSeqEmpty
    <3> QED BY <1>0, <3>1, ConcatEmptySeq
  <2>3. Open(q, t, 0, o) BY <1>2, <2>2 DEF Redacted
  <2>4. Concealed(q, o) BY <2>3 DEF Open, Concealed
  <2> QED BY <1>1, <2>1, <2>4
<1>3. CASE m # 0
  <2>0. Secrecy!Mark \in Output BY LettersOut
  <2>1. e = o \o <<Secrecy!Mark>>
    <3>1. e = Append(o, Secrecy!Mark) BY <1>0, <1>3
    <3> QED BY <1>0, <2>0, <3>1, AppendIsConcat
  <2>2. Added(q, o, Secrecy!Mark, e) BY <1>0, <2>0, <2>1, OneMore
  <2>3. Len(e) = Len(o) + 1 /\ e[Len(o) + 1] = Secrecy!Mark /\ e \in Seq(Output)
    BY <2>2 DEF Added
  <2>4. Concealed(q, e)
    <3> SUFFICES ASSUME NEW b \in 1 .. Len(q), Ends(q, b, e, Len(e)) PROVE FALSE
      BY DEF Concealed
    <3>1. b \in 1 .. b /\ Len(e) - b + b = Len(o) + 1 BY <1>0, <2>3
    <3>2. q[b] = e[Len(o) + 1] BY <3>1 DEF Ends
    <3>3. q[b] \in Letters BY ElementOfSeq
    <3> QED BY <2>3, <3>2, <3>3 DEF SecrecyConstants
  <2>5. ASSUME NEW n \in 0 .. Len(e) PROVE ~Ends(q, Len(q), e, n)
    <3>1. CASE n = Len(e)
      <4>1. Len(q) \in 1 .. Len(q) BY <1>0
      <4> QED BY <2>4, <3>1, <4>1 DEF Concealed
    <3>2. CASE n # Len(e)
      <4>1. n \in 0 .. Len(o) BY <1>0, <2>3, <3>2
      <4>2. Ends(q, Len(q), e, n) <=> Ends(q, Len(q), o, n) BY <1>0, <2>2, <4>1 DEF Added
      <4> QED BY <1>1, <4>1, <4>2 DEF Clean
    <3> QED BY <3>1, <3>2
  <2> QED BY <2>3, <2>4, <2>5 DEF Clean
<1> QED BY <1>2, <1>3

(* An occurrence across two texts would begin at the end of the first.     *)
LEMMA CleanJoin ==
  ASSUME NEW q \in Seq(Letters), Len(q) >= 1, NEW x, NEW y, Clean(q, x), Concealed(q, x), Clean(q, y)
  PROVE  Clean(q, x \o y)
<1>0. /\ x \in Seq(Output) /\ y \in Seq(Output)
      /\ Len(q) \in Nat /\ Len(x) \in Nat /\ Len(y) \in Nat
  BY LenProperties DEF Clean
<1>1. x \o y \in Seq(Output) /\ Len(x \o y) = Len(x) + Len(y) BY <1>0, ConcatProperties
<1>2. ASSUME NEW n \in 0 .. Len(x) + Len(y), Ends(q, Len(q), x \o y, n) PROVE FALSE
  <2>0. n \in Nat /\ Len(q) <= n BY <1>0, <1>2 DEF Ends
  <2>1. CASE n <= Len(x)
    <3>1. Ends(q, Len(q), x, n) BY <1>0, <1>2, <2>0, <2>1, EndsFirst
    <3> QED BY <1>0, <2>0, <2>1, <3>1 DEF Clean
  <2>2. CASE Len(x) + Len(q) <= n
    <3>1. n - Len(x) \in Nat BY <1>0, <2>2
    <3>2. PICK m \in Nat : m = n - Len(x) BY <3>1
    <3>3. Len(q) <= m /\ m <= Len(y) /\ n = Len(x) + m BY <1>0, <2>0, <2>2, <3>2
    <3>4. Ends(q, Len(q), y, m) BY <1>0, <1>2, <3>3, EndsSecond
    <3> QED BY <1>0, <3>3, <3>4 DEF Clean
  <2>3. CASE Len(x) < n /\ n < Len(x) + Len(q)
    <3>1. Len(q) - (n - Len(x)) \in 1 .. Len(q) BY <1>0, <2>0, <2>3
    <3>2. PICK b \in 1 .. Len(q) : b = Len(q) - (n - Len(x)) BY <3>1
    <3>3. b \in Nat /\ b <= Len(x) /\ n - Len(q) + b = Len(x) BY <1>0, <2>0, <3>2
    <3>4. Ends(q, b, x, Len(x))
      <4>1. ASSUME NEW i \in 1 .. b PROVE q[i] = x[Len(x) - b + i]
        <5>1. i \in 1 .. Len(q) /\ n - Len(q) + i = Len(x) - b + i
              /\ Len(x) - b + i \in 1 .. Len(x) + Len(y) /\ Len(x) - b + i <= Len(x)
          BY <1>0, <2>0, <3>2, <3>3
        <5>2. q[i] = (x \o y)[Len(x) - b + i] BY <1>2, <5>1 DEF Ends
        <5>3. (x \o y)[Len(x) - b + i] = x[Len(x) - b + i] BY <1>0, <5>1, ConcatProperties
        <5> QED BY <5>2, <5>3
      <4> QED BY <3>3, <4>1 DEF Ends
    <3> QED BY <3>4 DEF Concealed
  <2> QED BY <1>0, <2>0, <2>1, <2>2, <2>3
<1> QED BY <1>1, <1>2 DEF Clean

(* Nor does a prefix of the value end both.                                *)
LEMMA ConcealedJoin ==
  ASSUME NEW q \in Seq(Letters), NEW x \in Seq(Output), NEW y \in Seq(Output),
         Concealed(q, x), Concealed(q, y)
  PROVE  Concealed(q, x \o y)
<1>0. Len(q) \in Nat /\ Len(x) \in Nat /\ Len(y) \in Nat BY LenProperties
<1>1. x \o y \in Seq(Output) /\ Len(x \o y) = Len(x) + Len(y) BY ConcatProperties
<1> SUFFICES ASSUME NEW b \in 1 .. Len(q), Ends(q, b, x \o y, Len(x) + Len(y)) PROVE FALSE
  BY <1>1 DEF Concealed
<1>2. b \in Nat /\ b <= Len(x) + Len(y) BY <1>0 DEF Ends
<1>21. PICK N \in Nat : N = Len(x) + Len(y) /\ Ends(q, b, x \o y, N) BY <1>0
<1>3. CASE b <= Len(y)
  <2>1. Ends(q, b, y, Len(y)) BY <1>0, <1>2, <1>3, EndsSecond
  <2> QED BY <2>1 DEF Concealed
<1>4. CASE Len(y) < b
  <2>1. PICK c \in 1 .. Len(q) : c = b - Len(y)
    <3>1. b - Len(y) \in 1 .. Len(q) BY <1>0, <1>2, <1>4
    <3> QED BY <3>1
  <2>2. c \in Nat /\ c <= Len(x) /\ Len(x) + Len(y) - b = Len(x) - c BY <1>0, <1>2, <2>1
  <2>3. ASSUME NEW i \in 1 .. c PROVE q[i] = x[Len(x) - c + i]
    <3>1. i \in 1 .. b /\ N - b + i = Len(x) - c + i
          /\ Len(x) - c + i \in 1 .. Len(x) + Len(y) /\ Len(x) - c + i <= Len(x)
      BY <1>0, <1>2, <1>21, <2>1, <2>2
    <3>11. q[i] = (x \o y)[N - b + i] BY <1>21, <3>1 DEF Ends
    <3>2. q[i] = (x \o y)[Len(x) - c + i] BY <3>1, <3>11
    <3>3. (x \o y)[Len(x) - c + i] = x[Len(x) - c + i] BY <1>0, <3>1, ConcatProperties
    <3> QED BY <3>2, <3>3
  <2>4. Ends(q, c, x, Len(x)) BY <2>2, <2>3 DEF Ends
  <2> QED BY <2>4 DEF Concealed
<1> QED BY <1>0, <1>2, <1>3, <1>4

(* The initial states.                                                     *)
LEMMA HiddenInit == Secrecy!Init => Hidden
<1> SUFFICES ASSUME Secrecy!Init PROVE Hidden OBVIOUS
<1>1. secret \in Seq(Letters) /\ Len(secret) >= 1
  <2>1. PICK k \in 1 .. MaxSecret : secret \in [1 .. k -> Letters] BY DEF Secrecy!Init, Secrecy!Secrets
  <2> QED BY <2>1
<1>2. Redacted(secret, << >>, 0, << >>) /\ Clean(secret, << >>) BY <1>1, RedactedStart
<1>3. << >> \in Seq(Letters) /\ << >> \in Seq(Output) /\ Len(<< >>) = 0 BY EmptySeq
<1>4. Concealed(secret, << >>)
  <2>1. \A b \in 1 .. Len(secret) : ~Ends(secret, b, << >>, 0) BY <1>1, LenProperties DEF Ends
  <2> QED BY <1>3, <2>1 DEF Concealed
<1>5. << >> \o << >> = << >> BY <1>3, ConcatEmptySeq
<1>6. ASSUME NEW f \in Fields PROVE FieldHidden(f)
  <2>1. matched[f] = 0 /\ said[f] = << >> /\ closed[f] = << >> /\ shown[f] = << >>
    BY DEF Secrecy!Init
  <2> QED BY <1>2, <1>3, <1>4, <1>5, <2>1, Zenon DEF FieldHidden
<1>7. /\ said \in [Fields -> Seq(Letters)] /\ matched \in [Fields -> Nat]
      /\ closed \in [Fields -> Seq(Output)] /\ shown \in [Fields -> Seq(Output)]
      /\ last \in [Fields -> Keys \union {Secrecy!NoKey}] /\ joined = [h \in Keys |-> joined[h]]
  BY <1>3 DEF Secrecy!Init
<1>8. KeysHidden BY DEF Secrecy!Init, KeysHidden
<1> QED BY <1>1, <1>6, <1>7, <1>8 DEF Hidden

(* A delta and its field.                                                  *)
LEMMA FieldDelta ==
  ASSUME SecrecyConstants, Hidden, NEW f \in Fields, NEW k \in Keys, NEW chunk \in Seq(Letters),
         chunk # << >>, Secrecy!Delta(f, k, chunk)
  PROVE  FieldHidden(f)'
<1>1. /\ secret' = secret /\ closed' = closed /\ redacting = "open"
      /\ secret \in Seq(Letters) /\ Len(secret) >= 1
  BY DEF Hidden, Secrecy!Delta
<1>2. /\ said[f] \in Seq(Letters) /\ closed[f] \in Seq(Output)
      /\ said \in [Fields -> Seq(Letters)] /\ matched \in [Fields -> Nat]
      /\ shown \in [Fields -> Seq(Output)]
  BY DEF Hidden
<1>3. FieldHidden(f) BY DEF Hidden
<1>4. PICK o \in Seq(Output) : Redacted(secret, said[f], matched[f], o) /\ shown[f] = closed[f] \o o
  BY <1>1, <1>3 DEF FieldHidden
<1>5. PICK r : r = Secrecy!RedactChunk(secret, matched[f], chunk) OBVIOUS
<1>6. r.out \in Seq(Output) /\ Redacted(secret, said[f] \o chunk, r.matched, o \o r.out)
  BY <1>1, <1>2, <1>4, <1>5, ChunkOK
<1>7. said'[f] = said[f] \o chunk BY <1>2 DEF Secrecy!Delta
<1>8. said'[f] # << >>
  <2>1. Len(chunk) > 0 /\ Len(said[f]) \in Nat BY <1>2, EmptySeq, LenProperties
  <2>2. Len(said[f] \o chunk) = Len(said[f]) + Len(chunk) BY <1>2, ConcatProperties
  <2>3. Len(<< >>) = 0 BY EmptySeq
  <2> QED BY <1>7, <2>1, <2>2, <2>3
<1>9. \/ matched'[f] = r.matched /\ shown'[f] = shown[f] \o r.out
      \/ redacting' = "failed" /\ shown'[f] = shown[f]
  BY <1>2, <1>5 DEF Secrecy!Delta
<1>10. CASE matched'[f] = r.matched /\ shown'[f] = shown[f] \o r.out
  <2>1. o \o r.out \in Seq(Output) BY <1>6, ConcatProperties
  <2>2. shown'[f] = closed[f] \o (o \o r.out)
    <3>1. Regroups(closed[f], o, r.out) BY <1>2, <1>6, Regroup
    <3> QED BY <1>4, <1>10, <3>1, Zenon DEF Regroups
  <2>3. Clean(secret, o \o r.out) BY <1>1, <1>6, ShownClean
  <2>4. Clean(secret, shown'[f]) BY <1>1, <1>3, <2>2, <2>3, CleanJoin DEF FieldHidden
  <2>5. Redacted(secret, said'[f], matched'[f], o \o r.out) BY <1>6, <1>7, <1>10
  <2> QED BY <1>1, <1>3, <1>8, <2>1, <2>2, <2>4, <2>5, Zenon DEF FieldHidden
<1>11. CASE redacting' = "failed" /\ shown'[f] = shown[f]
  BY <1>1, <1>3, <1>8, <1>11, Zenon DEF FieldHidden
<1> QED BY <1>9, <1>10, <1>11

(* A delta and the keys.                                                   *)
LEMMA KeysDelta ==
  ASSUME Hidden, NEW f \in Fields, NEW k \in Keys, NEW chunk, Secrecy!Delta(f, k, chunk)
  PROVE  KeysHidden'
<1>1. KeysHidden /\ last \in [Fields -> Keys \union {Secrecy!NoKey}]
      /\ shown \in [Fields -> Seq(Output)] /\ joined = [h \in Keys |-> joined[h]]
      /\ matched \in [Fields -> Nat]
  BY DEF Hidden
<1>2. came' = came \union {<<f, k>>} /\ last' = [last EXCEPT ![f] = k] BY DEF Secrecy!Delta
<1>3. PICK r : r = Secrecy!RedactChunk(secret, matched[f], chunk) OBVIOUS
<1>4. \/ /\ matched' = [matched EXCEPT ![f] = r.matched]
         /\ shown' = [shown EXCEPT ![f] = shown[f] \o r.out]
         /\ joined' = [joined EXCEPT ![k] = joined[k] \o r.out]
      \/ matched' = matched /\ shown' = shown /\ joined' = joined
  BY <1>3 DEF Secrecy!Delta
<1>5. ASSUME NEW g \in Fields, matched'[g] > 0 PROVE <<g, last'[g]>> \in came'
  <2>1. CASE g = f BY <1>1, <1>2, <2>1
  <2>2. CASE g # f
    <3>1. matched'[g] = matched[g] /\ last'[g] = last[g] BY <1>1, <1>2, <1>4, <2>2
    <3> QED BY <1>1, <1>2, <1>5, <3>1 DEF KeysHidden
  <2> QED BY <2>1, <2>2
<1>6. ASSUME NEW g \in Fields, NEW h \in Keys, Secrecy!Alone(g, h)' PROVE joined'[h] = shown'[g]
  <2>1. \A p \in came \union {<<f, k>>} : p[1] = g <=> p[2] = h BY <1>2, <1>6 DEF Secrecy!Alone
  <2>2. Secrecy!Alone(g, h) BY <2>1 DEF Secrecy!Alone
  <2>3. joined[h] = shown[g] BY <1>1, <2>2 DEF KeysHidden
  <2>4. f = g <=> k = h
    <3>1. PICK p \in came \union {<<f, k>>} : p = <<f, k>> OBVIOUS
    <3>2. p[1] = f /\ p[2] = k BY <3>1
    <3> QED BY <2>1, <3>2, Zenon
  <2>5. CASE f = g
    <3>1. k = h /\ joined[k] = shown[f] BY <2>3, <2>4, <2>5
    <3>2. CASE /\ shown' = [shown EXCEPT ![f] = shown[f] \o r.out]
               /\ joined' = [joined EXCEPT ![k] = joined[k] \o r.out]
      <4>1. shown'[f] = shown[f] \o r.out BY <1>1, <3>2
      <4>2. joined'[k] = joined[k] \o r.out BY <1>1, <3>2
      <4> QED BY <2>5, <3>1, <4>1, <4>2, Zenon
    <3>3. CASE shown' = shown /\ joined' = joined BY <2>3, <3>3
    <3> QED BY <1>4, <3>2, <3>3
  <2>6. CASE f # g
    <3>1. k # h BY <2>4, <2>6
    <3> QED BY <1>1, <1>4, <2>3, <2>6, <3>1
  <2> QED BY <2>5, <2>6
<1> QED BY <1>5, <1>6 DEF KeysHidden

(* A delta of one field.                                                   *)
LEMMA HiddenDelta ==
  ASSUME SecrecyConstants, Hidden, NEW f \in Fields, NEW k \in Keys, NEW chunk \in Seq(Letters),
         chunk # << >>, Secrecy!Delta(f, k, chunk)
  PROVE  Hidden'
<1>1. /\ secret' = secret /\ closed' = closed /\ redacting = "open"
      /\ secret \in Seq(Letters) /\ Len(secret) >= 1
  BY DEF Hidden, Secrecy!Delta
<1>2. /\ said \in [Fields -> Seq(Letters)] /\ matched \in [Fields -> Nat]
      /\ closed \in [Fields -> Seq(Output)] /\ shown \in [Fields -> Seq(Output)]
      /\ last \in [Fields -> Keys \union {Secrecy!NoKey}] /\ joined = [h \in Keys |-> joined[h]]
      /\ said[f] \in Seq(Letters) /\ shown[f] \in Seq(Output)
  BY DEF Hidden
<1>3. PICK o \in Seq(Output) : Redacted(secret, said[f], matched[f], o)
  BY <1>1 DEF Hidden, FieldHidden
<1>4. PICK r : r = Secrecy!RedactChunk(secret, matched[f], chunk) OBVIOUS
<1>5. r.out \in Seq(Output) /\ r.matched \in Nat
  <2>1. r.out \in Seq(Output) /\ Redacted(secret, said[f] \o chunk, r.matched, o \o r.out)
    BY <1>1, <1>2, <1>3, <1>4, ChunkOK
  <2> QED BY <2>1 DEF Redacted
<1>6. said[f] \o chunk \in Seq(Letters) /\ shown[f] \o r.out \in Seq(Output)
  BY <1>2, <1>5, ConcatProperties
<1>7. said' = [said EXCEPT ![f] = said[f] \o chunk] /\ last' = [last EXCEPT ![f] = k]
  BY DEF Secrecy!Delta
<1>8. \/ /\ matched' = [matched EXCEPT ![f] = r.matched]
         /\ shown' = [shown EXCEPT ![f] = shown[f] \o r.out]
         /\ joined' = [joined EXCEPT ![k] = joined[k] \o r.out]
         /\ redacting' = redacting
      \/ matched' = matched /\ shown' = shown /\ joined' = joined /\ redacting' = "failed"
  BY <1>4 DEF Secrecy!Delta
<1>9. /\ said' \in [Fields -> Seq(Letters)] /\ matched' \in [Fields -> Nat]
      /\ closed' \in [Fields -> Seq(Output)] /\ shown' \in [Fields -> Seq(Output)]
      /\ last' \in [Fields -> Keys \union {Secrecy!NoKey}] /\ joined' = [h \in Keys |-> joined'[h]]
  BY <1>1, <1>2, <1>5, <1>6, <1>7, <1>8
<1>10. ASSUME NEW g \in Fields PROVE FieldHidden(g)'
  <2>1. CASE g = f BY <2>1, FieldDelta
  <2>2. CASE g # f
    <3>1. said'[g] = said[g] /\ matched'[g] = matched[g] /\ shown'[g] = shown[g]
      BY <1>2, <1>7, <1>8, <2>2
    <3>2. redacting' = "open" => redacting = "open" BY <1>1
    <3>3. FieldHidden(g) BY DEF Hidden
    <3> QED BY <1>1, <3>1, <3>2, <3>3, Zenon DEF FieldHidden
  <2> QED BY <2>1, <2>2
<1>11. KeysHidden' BY KeysDelta
<1> QED BY <1>1, <1>9, <1>10, <1>11 DEF Hidden

(* As many marks as fields are pending.                                    *)
LEMMA MarksCounted ==
  \A k : Secrecy!Marks(k) = [n \in 1 .. Cardinality(Secrecy!Pending(k)) |-> Secrecy!Mark]
BY Zenon DEF Secrecy!Marks, Secrecy!Cardinality, Cardinality

(* Under a key with one field, finish_pending appends what that field got. *)
LEMMA KeysFinish == ASSUME Hidden, Secrecy!FinishPending PROVE KeysHidden'
<1>1. KeysHidden /\ matched \in [Fields -> Nat]
      /\ shown \in [Fields -> Seq(Output)] /\ joined = [h \in Keys |-> joined[h]]
  BY DEF Hidden
<1>2. /\ came' = came /\ matched' = [f \in Fields |-> 0]
      /\ shown' = [f \in Fields |->
                     IF matched[f] > 0 THEN Append(shown[f], Secrecy!Mark) ELSE shown[f]]
      /\ joined' = [k \in Keys |->
                      joined[k] \o Secrecy!Marks(k)]
  BY DEF Secrecy!FinishPending
<1>3. ASSUME NEW f \in Fields, NEW k \in Keys, Secrecy!Alone(f, k)' PROVE joined'[k] = shown'[f]
  <2>1. Secrecy!Alone(f, k) BY <1>2, <1>3 DEF Secrecy!Alone
  <2>2. joined[k] = shown[f] /\ shown[f] \in Seq(Output) BY <1>1, <2>1 DEF KeysHidden
  <2>3. ASSUME NEW g \in Fields, matched[g] > 0 PROVE last[g] = k <=> g = f
    <3>1. <<g, last[g]>> \in came BY <1>1, <2>3 DEF KeysHidden
    <3>2. \A p \in came : p[1] = f <=> p[2] = k BY <2>1 DEF Secrecy!Alone
    <3> QED BY <3>1, <3>2
  <2>4. Secrecy!Mark \in Output BY LettersOut
  <2>5. CASE matched[f] > 0
    <3>1. Secrecy!Pending(k) = {f} BY <2>3, <2>5 DEF Secrecy!Pending
    <3>2. Cardinality(Secrecy!Pending(k)) = 1 BY <3>1, FS_Singleton
    <3>3. joined'[k] = shown[f] \o <<Secrecy!Mark>>
      <4>1. [n \in 1 .. 1 |-> Secrecy!Mark] = <<Secrecy!Mark>> OBVIOUS
      <4>2. Secrecy!Marks(k) = <<Secrecy!Mark>> BY <3>2, <4>1, MarksCounted, Zenon
      <4> QED BY <1>2, <2>2, <4>2, Zenon
    <3>4. shown'[f] = Append(shown[f], Secrecy!Mark) BY <1>2, <2>5
    <3> QED BY <2>2, <2>4, <3>3, <3>4, AppendIsConcat
  <2>6. CASE ~(matched[f] > 0)
    <3>1. Secrecy!Pending(k) = {} BY <2>3, <2>6 DEF Secrecy!Pending
    <3>2. Cardinality(Secrecy!Pending(k)) = 0 BY <3>1, FS_EmptySet
    <3>3. joined'[k] = shown[f] \o << >>
      <4>1. [n \in 1 .. 0 |-> Secrecy!Mark] = << >> OBVIOUS
      <4>2. Secrecy!Marks(k) = << >> BY <3>2, <4>1, MarksCounted, Zenon
      <4> QED BY <1>2, <2>2, <4>2, Zenon
    <3>4. shown'[f] = shown[f] BY <1>2, <2>6
    <3> QED BY <2>2, <3>3, <3>4, ConcatEmptySeq
  <2> QED BY <2>5, <2>6
<1>4. \A f \in Fields : ~(matched'[f] > 0) BY <1>2
<1> QED BY <1>3, <1>4 DEF KeysHidden

(* A completion closes every field.                                        *)
LEMMA HiddenFinish == ASSUME SecrecyConstants, Hidden, Secrecy!FinishPending PROVE Hidden'
<1>1. /\ secret' = secret /\ redacting = "open" /\ closed' = shown'
      /\ secret \in Seq(Letters) /\ Len(secret) >= 1
  BY DEF Hidden, Secrecy!FinishPending
<1>2. /\ matched' = [f \in Fields |-> 0] /\ said' = [f \in Fields |-> << >>] /\ last' = last
      /\ shown' = [f \in Fields |->
                     IF matched[f] > 0 THEN Append(shown[f], Secrecy!Mark) ELSE shown[f]]
      /\ joined' = [k \in Keys |->
                      joined[k] \o Secrecy!Marks(k)]
  BY DEF Secrecy!FinishPending
<1>3. /\ matched \in [Fields -> Nat] /\ shown \in [Fields -> Seq(Output)]
      /\ closed \in [Fields -> Seq(Output)] /\ joined = [h \in Keys |-> joined[h]]
  BY DEF Hidden
<1>4. << >> \in Seq(Letters) /\ << >> \in Seq(Output) /\ Secrecy!Mark \in Output
  BY EmptySeq, LettersOut
<1>5. ASSUME NEW f \in Fields PROVE Clean(secret, shown'[f]) /\ Concealed(secret, shown'[f])
  <2>1. FieldHidden(f) BY DEF Hidden
  <2>2. PICK o \in Seq(Output) : Redacted(secret, said[f], matched[f], o) /\ shown[f] = closed[f] \o o
    BY <1>1, <2>1 DEF FieldHidden
  <2>3. PICK e : e = IF matched[f] > 0 THEN Append(o, Secrecy!Mark) ELSE o OBVIOUS
  <2>4. Clean(secret, e) /\ Concealed(secret, e) BY <1>1, <2>2, <2>3, PendingConcealed
  <2>5. shown'[f] = closed[f] \o e
    <3>1. CASE matched[f] > 0
      <4>1. <<Secrecy!Mark>> \in Seq(Output) /\ closed[f] \in Seq(Output) BY <1>3, <1>4
      <4>2. shown'[f] = Append(closed[f] \o o, Secrecy!Mark) BY <1>2, <2>2, <3>1
      <4>3. closed[f] \o o \in Seq(Output) BY <4>1, ConcatProperties
      <4>4. shown'[f] = (closed[f] \o o) \o <<Secrecy!Mark>> BY <1>4, <4>2, <4>3, AppendIsConcat
      <4>5. e = o \o <<Secrecy!Mark>> BY <1>4, <2>3, <3>1, AppendIsConcat
      <4>6. Regroups(closed[f], o, <<Secrecy!Mark>>) BY <4>1, Regroup
      <4> QED BY <4>4, <4>5, <4>6, Zenon DEF Regroups
    <3>2. CASE ~(matched[f] > 0) BY <1>2, <2>2, <2>3, <3>2
    <3> QED BY <3>1, <3>2
  <2>6. Clean(secret, closed[f]) /\ Concealed(secret, closed[f]) BY <2>1 DEF FieldHidden
  <2>7. Clean(secret, closed[f] \o e) BY <1>1, <2>4, <2>6, CleanJoin
  <2>8. Concealed(secret, closed[f] \o e) BY <1>1, <2>4, <2>6, ConcealedJoin DEF Clean
  <2> QED BY <2>5, <2>7, <2>8
<1>6. shown' \in [Fields -> Seq(Output)]
  <2>1. \A f \in Fields : shown'[f] \in Seq(Output) BY <1>5 DEF Clean
  <2>2. shown' = [f \in Fields |-> shown'[f]] BY <1>2
  <2> QED BY <2>1, <2>2
<1>7. ASSUME NEW f \in Fields PROVE FieldHidden(f)'
  <2>1. Redacted(secret, << >>, 0, << >>) BY <1>1, RedactedStart
  <2>2. said'[f] = << >> /\ matched'[f] = 0 BY <1>2
  <2>3. shown'[f] = closed'[f] \o << >>
    <3>1. shown'[f] \in Seq(Output) BY <1>6
    <3> QED BY <1>1, <3>1, ConcatEmptySeq
  <2> QED BY <1>1, <1>4, <1>5, <2>1, <2>2, <2>3, Zenon DEF FieldHidden
<1>8. joined' = [k \in Keys |-> joined'[k]] BY <1>2
<1>9. KeysHidden' BY KeysFinish
<1>10. said' \in [Fields -> Seq(Letters)] /\ matched' \in [Fields -> Nat] BY <1>2, <1>4
<1>11. last' \in [Fields -> Keys \union {Secrecy!NoKey}] BY <1>2 DEF Hidden
<1> QED BY <1>1, <1>6, <1>7, <1>8, <1>9, <1>10, <1>11 DEF Hidden

(* Every step keeps the states of the fields.                              *)
LEMMA HiddenStep == SecrecyConstants /\ Hidden /\ [Secrecy!Next]_(Secrecy!vars) => Hidden'
<1> SUFFICES ASSUME SecrecyConstants, Hidden, [Secrecy!Next]_(Secrecy!vars) PROVE Hidden' OBVIOUS
<1>1. CASE UNCHANGED Secrecy!vars
  BY <1>1 DEF Secrecy!vars, Hidden, FieldHidden, KeysHidden, Secrecy!Alone
<1>2. CASE Secrecy!FinishPending BY <1>2, HiddenFinish
<1>3. CASE \E f \in Fields, c \in Secrecy!Strings(MaxDelta) \ {<< >>} :
             \E k \in KeysOf[f] : Secrecy!Delta(f, k, c)
  <2>1. PICK f \in Fields, c \in Secrecy!Strings(MaxDelta) \ {<< >>} :
          \E k \in KeysOf[f] : Secrecy!Delta(f, k, c)
    BY <1>3
  <2>2. PICK k \in KeysOf[f] : Secrecy!Delta(f, k, c) BY <2>1
  <2>3. k \in Keys BY <2>2 DEF SecrecyConstants
  <2>4. c \in Seq(Letters) /\ c # << >>
    <3>1. PICK n \in 0 .. MaxDelta : c \in [1 .. n -> Letters] BY DEF Secrecy!Strings
    <3> QED BY <3>1
  <2> QED BY <2>2, <2>3, <2>4, HiddenDelta
<1> QED BY <1>1, <1>2, <1>3 DEF Secrecy!Next

(* A text in which the value does not end holds no occurrence of it.       *)
LEMMA CleanShown ==
  ASSUME NEW q \in Seq(Letters), Len(q) >= 1, NEW o, Clean(q, o)
  PROVE  ~Secrecy!Occurs(q, o)
<1> SUFFICES ASSUME Secrecy!Occurs(q, o) PROVE FALSE OBVIOUS
<1>0. q \in Seq(Output) /\ o \in Seq(Output) /\ Len(q) \in Nat /\ Len(o) \in Nat
  BY LettersOut, LenProperties DEF Clean
<1>1. PICK n \in 1 .. Len(o) : n + Len(q) - 1 <= Len(o) /\ SubSeq(o, n, n + Len(q) - 1) = q
  BY DEF Secrecy!Occurs
<1>11. n + Len(q) - 1 \in Nat BY <1>0
<1>2. PICK e \in Nat : e = n + Len(q) - 1 BY <1>11
<1>3. Len(q) <= e /\ e <= Len(o) /\ e - Len(q) + 1 = n /\ Len(q) <= Len(q) /\ e \in 0 .. Len(o)
  BY <1>0, <1>1, <1>2
<1>4. SubSeq(o, e - Len(q) + 1, e) = SubSeq(q, 1, Len(q)) BY <1>1, <1>2, <1>3, SubSeqFull
<1>5. Ends(q, Len(q), o, e) BY <1>0, <1>3, <1>4, EndsPart
<1> QED BY <1>3, <1>5 DEF Clean

(* A text that no prefix of the value ends does not end in its beginning.  *)
LEMMA ConcealedShown ==
  ASSUME NEW q \in Seq(Letters), NEW o \in Seq(Output), Concealed(q, o),
         NEW k \in 1 .. Len(q) - 1
  PROVE  ~Secrecy!EndsIn(o, SubSeq(q, 1, k))
<1> SUFFICES ASSUME Secrecy!EndsIn(o, SubSeq(q, 1, k)) PROVE FALSE OBVIOUS
<1>0. q \in Seq(Output) /\ Len(q) \in Nat /\ Len(o) \in Nat BY LettersOut, LenProperties
<1>1. k \in Nat /\ k <= Len(q) /\ k \in 1 .. Len(q) /\ Len(o) <= Len(o) BY <1>0
<1>2. Len(SubSeq(q, 1, k)) = k BY <1>1, FirstLetters
<1>3. k <= Len(o) /\ SubSeq(o, Len(o) - k + 1, Len(o)) = SubSeq(q, 1, k)
  BY <1>2 DEF Secrecy!EndsIn
<1>4. Ends(q, k, o, Len(o)) BY <1>0, <1>1, <1>3, EndsPart
<1> QED BY <1>1, <1>4 DEF Concealed

(* What is shown and held back is the text with its occurrences replaced.  *)
LEMMA RedactedWhole ==
  ASSUME NEW q \in Seq(Letters), Len(q) >= 1, NEW t \in Seq(Letters), NEW m, NEW o,
         Redacted(q, t, m, o)
  PROVE  o \o SubSeq(q, 1, m) = Secrecy!Replace(q, t)
<1>1. PICK w : w = o \o SubSeq(q, 1, m) OBVIOUS
<1>2. Open(q, t, m, w) BY <1>1 DEF Redacted
<1>3. w \in Seq(Output) /\ q \in Seq(Output) /\ << >> \in Seq(Output) /\ << >> \in Seq(Letters)
      /\ Len(<< >>) = 0
  BY <1>2, LettersOut, EmptySeq DEF Open
<1>4. Len(w) \in Nat /\ Len(q) \in Nat BY <1>3, LenProperties
<1>5. Secrecy!Replace(q, t \o << >>) = Secrecy!Replace(q, w \o << >>)
  BY <1>2, <1>3 DEF Open
<1>6. w \o << >> = w /\ t \o << >> = t BY <1>3, ConcatEmptySeq
<1>7. Apart(q, w, << >>)
  <2>1. \A n \in 0 .. Len(w) : ~Ends(q, Len(q), w \o << >>, n) BY <1>2, <1>6 DEF Open
  <2>2. Len(w) + Len(<< >>) = Len(w) BY <1>3, <1>4
  <2> QED BY <2>1, <2>2, Zenon DEF Apart
<1>8. Secrecy!Replace(q, w \o << >>) = w \o Secrecy!Replace(q, << >>)
  BY <1>3, <1>7, ReplaceApart
<1>9. Secrecy!Replace(q, << >>) = << >>
  <2>1. Len(<< >>) < Len(q) BY <1>3, <1>4
  <2> QED BY <1>3, <1>4, <2>1, ReplaceOfShort
<1> QED BY <1>1, <1>5, <1>6, <1>8, <1>9, Zenon

(* The state of the fields makes the redaction exact.                      *)
LEMMA HiddenExact == Hidden => RedactionExact
<1> SUFFICES ASSUME Hidden PROVE RedactionExact OBVIOUS
<1>1. secret \in Seq(Letters) /\ Len(secret) >= 1 BY DEF Hidden
<1>2. ASSUME NEW f \in Fields PROVE ~Secrecy!Occurs(secret, shown[f])
  BY <1>1, CleanShown DEF Hidden, FieldHidden
<1>3. ASSUME NEW f \in Fields, said[f] = << >>, NEW n \in 1 .. Len(secret) - 1
      PROVE  ~Secrecy!EndsIn(shown[f], SubSeq(secret, 1, n))
  <2>1. shown[f] \in Seq(Output) /\ Concealed(secret, shown[f]) BY <1>3 DEF Hidden, FieldHidden
  <2> QED BY <1>1, <2>1, ConcealedShown
<1>4. ASSUME NEW f \in Fields, NEW k \in Keys, Secrecy!Alone(f, k) PROVE joined[k] = shown[f]
  BY <1>4 DEF Hidden, KeysHidden
<1>5. ASSUME redacting = "open", NEW f \in Fields
      PROVE  shown[f] \o SubSeq(secret, 1, matched[f]) = closed[f] \o Secrecy!Replace(secret, said[f])
  <2>1. said[f] \in Seq(Letters) /\ closed[f] \in Seq(Output) /\ FieldHidden(f) BY DEF Hidden
  <2>2. PICK o \in Seq(Output) : Redacted(secret, said[f], matched[f], o) /\ shown[f] = closed[f] \o o
    BY <1>5, <2>1 DEF FieldHidden
  <2>3. o \o SubSeq(secret, 1, matched[f]) = Secrecy!Replace(secret, said[f])
    BY <1>1, <2>1, <2>2, RedactedWhole
  <2>4. SubSeq(secret, 1, matched[f]) \in Seq(Output)
    <3>1. matched[f] \in Nat /\ matched[f] <= Len(secret) BY <1>1, <2>2, LenProperties DEF Redacted
    <3> QED BY <1>1, <3>1, FirstLetters
  <2>5. Regroups(closed[f], o, SubSeq(secret, 1, matched[f])) BY <2>1, <2>4, Regroup
  <2> QED BY <2>2, <2>3, <2>5, Zenon DEF Regroups
<1>6. Secrecy!NeverShown BY <1>2, <1>3, <1>4 DEF Secrecy!NeverShown
<1>7. Secrecy!RestUnchanged BY <1>5 DEF Secrecy!RestUnchanged
<1> QED BY <1>6, <1>7 DEF RedactionExact, Secrecy!RedactionExact

(* For credentials and output of any length, any cut into deltas and any   *)
(* number of completions, redact_chunk and finish_pending show of every    *)
(* field the output with exactly the credential taken out, and never the   *)
(* credential; and what the consumer joins under a key is what its field   *)
(* has shown, as long as the two only came together.                       *)
THEOREM CredentialsAreTakenOut == SecrecyConstants => (Secrecy!Spec => []RedactionExact)
<1> SUFFICES ASSUME SecrecyConstants PROVE Secrecy!Spec => []RedactionExact OBVIOUS
<1>1. Secrecy!Init => Hidden BY HiddenInit
<1>2. Hidden /\ [Secrecy!Next]_(Secrecy!vars) => Hidden' BY HiddenStep
<1>3. Hidden => RedactionExact BY HiddenExact
<1> QED BY <1>1, <1>2, <1>3, PTL DEF Secrecy!Spec

-----------------------------------------------------------------------------
(* The loops of the response decoder.                                      *)

(* One turn of Drain.                                                      *)
Cut(b, d) ==
  IF Boundary(d.rest)[1] = 0 THEN d
  ELSE [rest |-> SubSeq(d.rest, Boundary(d.rest)[1] + Boundary(d.rest)[2], Len(d.rest)),
        events |-> d.events \o Decode(b, SubSeq(d.rest, 1, Boundary(d.rest)[1] - 1))]

(* The n-th turn of a recursive function of ModelStream, whose value was   *)
(* prev before: of Drain, Feed, Events, Encode and Total.                  *)
Turn(kind, x, y, prev, n) ==
  IF kind = "drain" THEN Cut(x, prev)
  ELSE IF kind = "feed" THEN ProcessSseData(prev, y[n])
  ELSE IF kind = "events" THEN prev \o EventOf(x, y, n)
  ELSE IF kind = "encode" THEN prev \o Frame(n, y[n])
  ELSE prev + y[n]

(* f is the recursive function, from z, up to N turns.                     *)
Looped(f, kind, x, y, z, N) ==
  f = [n \in 0 .. N |-> IF n = 0 THEN z ELSE Turn(kind, x, y, f[n - 1], n)]

(* There is such a function.                                               *)
LEMMA LoopExists ==
  ASSUME NEW kind, NEW x, NEW y, NEW z, NEW N \in Nat
  PROVE  \E f : Looped(f, kind, x, y, z, N)
<1> DEFINE T == {M \in Nat : ~ \E f : Looped(f, kind, x, y, z, M)}
<1> SUFFICES ASSUME T # {} PROVE FALSE OBVIOUS
<1> HIDE DEF T
<1>0. T \subseteq Nat BY DEF T
<1>1. PICK M \in T : \A k \in T : M <= k BY <1>0, LeastElement
<1>2. M \in Nat /\ ~ \E f : Looped(f, kind, x, y, z, M) BY DEF T
<1>3. \E g : M # 0 => Looped(g, kind, x, y, z, M - 1)
  <2>1. CASE M = 0 BY <2>1
  <2>2. CASE M # 0
    <3>1. M - 1 \in Nat /\ M - 1 \notin T BY <1>1, <1>2, <2>2
    <3> QED BY <3>1 DEF T
  <2> QED BY <2>1, <2>2
<1>4. PICK g : M # 0 => Looped(g, kind, x, y, z, M - 1) BY <1>3
<1> DEFINE f == [n \in 0 .. M |->
                   IF n = M THEN IF M = 0 THEN z ELSE Turn(kind, x, y, g[M - 1], M) ELSE g[n]]
<1>5. ASSUME NEW n \in 0 .. M PROVE f[n] = IF n = 0 THEN z ELSE Turn(kind, x, y, f[n - 1], n)
  <2>1. n # 0 => f[n - 1] = g[n - 1] BY <1>2
  <2>2. CASE n = M
    <3>1. f[n] = IF M = 0 THEN z ELSE Turn(kind, x, y, g[M - 1], M) BY <2>2
    <3> QED BY <2>1, <2>2, <3>1
  <2>3. CASE n # M
    <3>1. f[n] = g[n] /\ n \in 0 .. M - 1 /\ M # 0 BY <1>2, <2>3
    <3>2. g[n] = IF n = 0 THEN z ELSE Turn(kind, x, y, g[n - 1], n) BY <1>4, <3>1 DEF Looped
    <3> QED BY <2>1, <3>1, <3>2
  <2> QED BY <2>2, <2>3
<1>6. f = [n \in 0 .. M |-> f[n]] OBVIOUS
<1> HIDE DEF f
<1>7. Looped(f, kind, x, y, z, M) BY <1>5, <1>6 DEF Looped
<1> QED BY <1>2, <1>7

(* The turns of one loop are those of another from the a-th on, and so are *)
(* its values.                                                             *)
SameTurns(kind, x, y, u, v, a, M) ==
  \A i \in 1 .. M : \A prev : Turn(kind, x, y, prev, a + i) = Turn(kind, u, v, prev, i)
SameValues(f, g, a, M) == \A n \in 0 .. M : f[a + n] = g[n]

(* A loop that goes on from the a-th value of another, with the same turns,*)
(* has its values.                                                         *)
LEMMA LoopShift ==
  ASSUME NEW kind, NEW x, NEW y, NEW z, NEW u, NEW v, NEW f, NEW g, NEW a \in Nat,
         NEW N \in Nat, NEW M \in Nat, a + M <= N,
         Looped(f, kind, x, y, z, N), Looped(g, kind, u, v, f[a], M),
         SameTurns(kind, x, y, u, v, a, M)
  PROVE  SameValues(f, g, a, M)
<1> DEFINE T == {n \in 0 .. M : f[a + n] # g[n]}
<1> SUFFICES ASSUME T # {} PROVE FALSE BY DEF SameValues
<1> HIDE DEF T
<1>0. T \subseteq Nat BY DEF T
<1>1. PICK n \in T : \A k \in T : n <= k BY <1>0, LeastElement
<1>2. n \in Nat /\ n \in 0 .. M /\ f[a + n] # g[n] BY <1>0 DEF T
<1>3. g[n] = IF n = 0 THEN f[a] ELSE Turn(kind, u, v, g[n - 1], n) BY <1>2 DEF Looped
<1>4. CASE n = 0 BY <1>2, <1>3, <1>4
<1>5. CASE n # 0
  <2>1. PICK i \in Nat : i = n - 1 BY <1>2, <1>5
  <2>2. i \in 0 .. M /\ ~(n <= i) BY <1>2, <2>1
  <2>3. f[a + i] = g[i] BY <1>1, <2>2 DEF T
  <2>4. PICK j \in Nat : j = a + n BY <1>2
  <2>5. j \in 0 .. N /\ j # 0 /\ j - 1 = a + i /\ n \in 1 .. M BY <1>2, <1>5, <2>1, <2>4
  <2>6. f[j] = Turn(kind, x, y, f[j - 1], j) BY <2>5 DEF Looped
  <2>7. f[j] = Turn(kind, x, y, g[i], a + n) BY <2>3, <2>4, <2>5, <2>6
  <2>8. g[n] = Turn(kind, u, v, g[i], n) BY <1>3, <1>5, <2>1
  <2>9. Turn(kind, x, y, g[i], a + n) = Turn(kind, u, v, g[i], n) BY <2>5 DEF SameTurns
  <2> QED BY <1>2, <2>4, <2>7, <2>8, <2>9
<1> QED BY <1>4, <1>5

(* Each of the recursive functions is such a loop.                         *)
LEMMA DrainLoops ==
  ASSUME NEW b, NEW s, Len(s) \in Nat
  PROVE  \E f : /\ Looped(f, "drain", b, << >>, [rest |-> s, events |-> << >>], Len(s))
                /\ Drain(b, s) = f[Len(s)]
<1> DEFINE z == [rest |-> s, events |-> << >>]
           after[n \in 0 .. Len(s)] ==
             IF n = 0 THEN z ELSE Turn("drain", b, << >>, after[n - 1], n)
<1>1. Drain(b, s) = after[Len(s)] BY DEF Drain, Turn, Cut
<1>2. \E f : f = [n \in 0 .. Len(s) |-> IF n = 0 THEN z ELSE Turn("drain", b, << >>, f[n - 1], n)]
  <2>1. \E f : Looped(f, "drain", b, << >>, z, Len(s)) BY LoopExists
  <2> QED BY <2>1 DEF Looped
<1> HIDE DEF z
<1>3. after = [n \in 0 .. Len(s) |-> IF n = 0 THEN z ELSE Turn("drain", b, << >>, after[n - 1], n)]
  BY <1>2, Zenon DEF after
<1> HIDE DEF after
<1>4. Looped(after, "drain", b, << >>, z, Len(s)) BY <1>3, Zenon DEF Looped
<1> QED BY <1>1, <1>4 DEF z

(* Feed feeds one event after the other.                                   *)
LEMMA FeedLoops ==
  ASSUME NEW s, NEW E, Len(E) \in Nat
  PROVE  \E f : Looped(f, "feed", 0, E, s, Len(E)) /\ Feed(s, E) = f[Len(E)]
<1> DEFINE fed[n \in 0 .. Len(E)] == IF n = 0 THEN s ELSE Turn("feed", 0, E, fed[n - 1], n)
<1>1. Feed(s, E) = fed[Len(E)] BY DEF Feed, Turn
<1>2. \E f : f = [n \in 0 .. Len(E) |-> IF n = 0 THEN s ELSE Turn("feed", 0, E, f[n - 1], n)]
  <2>1. \E f : Looped(f, "feed", 0, E, s, Len(E)) BY LoopExists
  <2> QED BY <2>1 DEF Looped
<1>3. fed = [n \in 0 .. Len(E) |-> IF n = 0 THEN s ELSE Turn("feed", 0, E, fed[n - 1], n)]
  BY <1>2, Zenon DEF fed
<1> HIDE DEF fed
<1>4. Looped(fed, "feed", 0, E, s, Len(E)) BY <1>3, Zenon DEF Looped
<1> QED BY <1>1, <1>4

(* Events collects payload after payload.                                  *)
LEMMA EventsLoops ==
  ASSUME NEW b, NEW w, NEW N \in Nat
  PROVE  \E f : Looped(f, "events", b, w, << >>, N) /\ Events(b, w, N) = f[N]
<1> DEFINE upto[n \in 0 .. N] == IF n = 0 THEN << >> ELSE Turn("events", b, w, upto[n - 1], n)
<1>1. Events(b, w, N) = upto[N] BY DEF Events, Turn
<1>2. \E f : f = [n \in 0 .. N |-> IF n = 0 THEN << >> ELSE Turn("events", b, w, f[n - 1], n)]
  <2>1. \E f : Looped(f, "events", b, w, << >>, N) BY LoopExists
  <2> QED BY <2>1 DEF Looped
<1>3. upto = [n \in 0 .. N |-> IF n = 0 THEN << >> ELSE Turn("events", b, w, upto[n - 1], n)]
  BY <1>2, Zenon DEF upto
<1> HIDE DEF upto
<1>4. Looped(upto, "events", b, w, << >>, N) BY <1>3, Zenon DEF Looped
<1> QED BY <1>1, <1>4

(* Encode appends payload after payload.                                   *)
LEMMA EncodeLoops ==
  ASSUME NEW b, NEW crlf, Len(b) \in Nat
  PROVE  \E f : Looped(f, "encode", 0, crlf, << >>, Len(b)) /\ Encode(b, crlf) = f[Len(b)]
<1> DEFINE upto[n \in 0 .. Len(b)] == IF n = 0 THEN << >> ELSE Turn("encode", 0, crlf, upto[n - 1], n)
<1>1. Encode(b, crlf) = upto[Len(b)] BY DEF Encode, Turn
<1>2. \E f : f = [n \in 0 .. Len(b) |-> IF n = 0 THEN << >> ELSE Turn("encode", 0, crlf, f[n - 1], n)]
  <2>1. \E f : Looped(f, "encode", 0, crlf, << >>, Len(b)) BY LoopExists
  <2> QED BY <2>1 DEF Looped
<1>3. upto = [n \in 0 .. Len(b) |-> IF n = 0 THEN << >> ELSE Turn("encode", 0, crlf, upto[n - 1], n)]
  BY <1>2, Zenon DEF upto
<1> HIDE DEF upto
<1>4. Looped(upto, "encode", 0, crlf, << >>, Len(b)) BY <1>3, Zenon DEF Looped
<1> QED BY <1>1, <1>4

(* Total adds length after length.                                         *)
LEMMA TotalLoops ==
  ASSUME NEW y, Len(y) \in Nat
  PROVE  \E f : Looped(f, "total", 0, y, 0, Len(y)) /\ Total(y) = f[Len(y)]
<1> DEFINE sum[n \in 0 .. Len(y)] == IF n = 0 THEN 0 ELSE Turn("total", 0, y, sum[n - 1], n)
<1>1. Total(y) = sum[Len(y)] BY DEF Total, Turn
<1>2. \E f : f = [n \in 0 .. Len(y) |-> IF n = 0 THEN 0 ELSE Turn("total", 0, y, f[n - 1], n)]
  <2>1. \E f : Looped(f, "total", 0, y, 0, Len(y)) BY LoopExists
  <2> QED BY <2>1 DEF Looped
<1>3. sum = [n \in 0 .. Len(y) |-> IF n = 0 THEN 0 ELSE Turn("total", 0, y, sum[n - 1], n)]
  BY <1>2, Zenon DEF sum
<1> HIDE DEF sum
<1>4. Looped(sum, "total", 0, y, 0, Len(y)) BY <1>3, Zenon DEF Looped
<1> QED BY <1>1, <1>4

(* Nothing fed changes nothing.                                            *)
LEMMA FeedNothing == ASSUME NEW s PROVE Feed(s, << >>) = s
<1>1. Len(<< >>) = 0 /\ Len(<< >>) \in Nat OBVIOUS
<1>2. PICK f : Looped(f, "feed", 0, << >>, s, Len(<< >>)) /\ Feed(s, << >>) = f[Len(<< >>)]
  BY <1>1, FeedLoops
<1> QED BY <1>1, <1>2 DEF Looped

(* Events may be fed in parts.                                             *)
LEMMA FeedParts ==
  ASSUME NEW S, NEW s, NEW A \in Seq(S), NEW B \in Seq(S)
  PROVE  Feed(s, A \o B) = Feed(Feed(s, A), B)
<1>0. Len(A) \in Nat /\ Len(B) \in Nat /\ Len(A \o B) = Len(A) + Len(B)
  BY ConcatProperties, LenProperties
<1>1. \A i \in 1 .. Len(A) : (A \o B)[0 + i] = A[i]
  <2> SUFFICES ASSUME NEW i \in 1 .. Len(A) PROVE (A \o B)[0 + i] = A[i] OBVIOUS
  <2>1. i \in 1 .. Len(A) + Len(B) /\ i <= Len(A) /\ 0 + i = i BY <1>0
  <2> QED BY <2>1, ConcatProperties
<1>2. \A i \in 1 .. Len(B) : (A \o B)[Len(A) + i] = B[i]
  <2> SUFFICES ASSUME NEW i \in 1 .. Len(B) PROVE (A \o B)[Len(A) + i] = B[i] OBVIOUS
  <2>1. Len(A) + i \in 1 .. Len(A) + Len(B) /\ ~(Len(A) + i <= Len(A)) /\ Len(A) + i - Len(A) = i
    BY <1>0
  <2> QED BY <2>1, ConcatProperties
<1>3. PICK E : E = A \o B OBVIOUS
<1>4. PICK N \in Nat : N = Len(A) + Len(B) BY <1>0
<1>5. PICK f : Looped(f, "feed", 0, E, s, N) /\ Feed(s, E) = f[N]
  <2>1. Len(E) \in Nat /\ Len(E) = N BY <1>0, <1>3, <1>4
  <2> QED BY <2>1, FeedLoops
<1>6. PICK g : Looped(g, "feed", 0, A, s, Len(A)) /\ Feed(s, A) = g[Len(A)] BY <1>0, FeedLoops
<1>7. f[0] = s BY <1>5 DEF Looped
<1>8. \A n \in 0 .. Len(A) : f[0 + n] = g[n]
  <2>1. SameTurns("feed", 0, E, 0, A, 0, Len(A)) BY <1>1, <1>3 DEF Turn, SameTurns
  <2>2. 0 + Len(A) <= N /\ 0 \in Nat BY <1>0, <1>4
  <2>3. Looped(g, "feed", 0, A, f[0], Len(A)) BY <1>6, <1>7
  <2>4. SameValues(f, g, 0, Len(A)) BY <1>0, <1>5, <2>1, <2>2, <2>3, LoopShift
  <2> QED BY <2>4 DEF SameValues
<1>9. f[Len(A)] = Feed(s, A)
  <2>1. Len(A) \in 0 .. Len(A) /\ 0 + Len(A) = Len(A) BY <1>0
  <2> QED BY <1>6, <1>8, <2>1
<1>10. PICK h : Looped(h, "feed", 0, B, f[Len(A)], Len(B)) /\ Feed(f[Len(A)], B) = h[Len(B)]
  BY <1>0, FeedLoops
<1>11. \A n \in 0 .. Len(B) : f[Len(A) + n] = h[n]
  <2>1. SameTurns("feed", 0, E, 0, B, Len(A), Len(B)) BY <1>2, <1>3 DEF Turn, SameTurns
  <2>2. Len(A) + Len(B) <= N BY <1>0, <1>4
  <2>3. SameValues(f, h, Len(A), Len(B)) BY <1>0, <1>5, <1>10, <2>1, <2>2, LoopShift
  <2> QED BY <2>3 DEF SameValues
<1>12. f[N] = h[Len(B)]
  <2>1. Len(B) \in 0 .. Len(B) BY <1>0
  <2> QED BY <1>4, <1>11, <2>1
<1> QED BY <1>3, <1>5, <1>9, <1>10, <1>12

(* One event.                                                              *)
LEMMA FeedOne == ASSUME NEW s, NEW e PROVE Feed(s, <<e>>) = ProcessSseData(s, e)
<1>1. Len(<<e>>) = 1 /\ Len(<<e>>) \in Nat /\ <<e>>[1] = e OBVIOUS
<1>2. PICK f : Looped(f, "feed", 0, <<e>>, s, 1) /\ Feed(s, <<e>>) = f[1] BY <1>1, FeedLoops
<1>3. f[0] = s /\ f[1] = Turn("feed", 0, <<e>>, f[0], 1) BY <1>2 DEF Looped
<1> QED BY <1>1, <1>2, <1>3 DEF Turn

(* What failed stays as it is.                                             *)
LEMMA FeedFailed ==
  ASSUME NEW S, NEW s, s.failed, NEW E \in Seq(S)
  PROVE  Feed(s, E) = s
<1>0. Len(E) \in Nat BY LenProperties
<1>1. PICK f : Looped(f, "feed", 0, E, s, Len(E)) /\ Feed(s, E) = f[Len(E)] BY <1>0, FeedLoops
<1> DEFINE T == {n \in 0 .. Len(E) : f[n] # s}
<1>2. T = {}
  <2> SUFFICES ASSUME T # {} PROVE FALSE OBVIOUS
  <2> HIDE DEF T
  <2>0. T \subseteq Nat BY <1>0 DEF T
  <2>1. PICK n \in T : \A i \in T : n <= i BY <2>0, LeastElement
  <2>2. n \in Nat /\ n \in 0 .. Len(E) /\ f[n] # s BY <2>0 DEF T
  <2>3. f[n] = IF n = 0 THEN s ELSE Turn("feed", 0, E, f[n - 1], n) BY <1>1, <2>2 DEF Looped
  <2>4. n # 0 => f[n - 1] = s
    <3> SUFFICES ASSUME n # 0 PROVE f[n - 1] = s OBVIOUS
    <3>1. n - 1 \in 0 .. Len(E) /\ ~(n <= n - 1) BY <1>0, <2>2
    <3> QED BY <2>1, <3>1 DEF T
  <2>5. ASSUME NEW e PROVE ProcessSseData(s, e) = s BY DEF ProcessSseData
  <2>6. Turn("feed", 0, E, s, n) = s BY <2>5 DEF Turn
  <2> QED BY <2>2, <2>3, <2>4, <2>6
<1>3. Len(E) \in 0 .. Len(E) BY <1>0
<1> QED BY <1>1, <1>2, <1>3

(* The events of no payload, and of one more.                              *)
LEMMA EventsNext ==
  ASSUME NEW b, NEW w, NEW n \in Nat
  PROVE  /\ Events(b, w, 0) = << >>
         /\ Events(b, w, n + 1) = Events(b, w, n) \o EventOf(b, w, n + 1)
<1>1. PICK e : Looped(e, "events", b, w, << >>, 0) /\ Events(b, w, 0) = e[0] BY EventsLoops
<1>2. e[0] = << >> BY <1>1 DEF Looped
<1>3. PICK N \in Nat : N = n + 1 OBVIOUS
<1>4. PICK f : Looped(f, "events", b, w, << >>, N) /\ Events(b, w, N) = f[N] BY EventsLoops
<1>5. PICK g : Looped(g, "events", b, w, << >>, n) /\ Events(b, w, n) = g[n] BY EventsLoops
<1>6. f[0] = << >> /\ f[N] = Turn("events", b, w, f[n], N)
  <2>1. 0 \in 0 .. N /\ N \in 0 .. N /\ N # 0 /\ N - 1 = n BY <1>3
  <2> QED BY <1>4, <2>1 DEF Looped
<1>7. \A i \in 0 .. n : f[0 + i] = g[i]
  <2>1. SameTurns("events", b, w, b, w, 0, n) BY DEF SameTurns
  <2>2. 0 + n <= N /\ 0 \in Nat BY <1>3
  <2>3. Looped(g, "events", b, w, f[0], n) BY <1>5, <1>6
  <2>4. SameValues(f, g, 0, n) BY <1>4, <2>1, <2>2, <2>3, LoopShift
  <2> QED BY <2>4 DEF SameValues
<1>8. f[n] = g[n]
  <2>1. n \in 0 .. n /\ 0 + n = n OBVIOUS
  <2> QED BY <1>7, <2>1
<1>9. Turn("events", b, w, f[n], N) = f[n] \o EventOf(b, w, N) BY DEF Turn
<1> QED BY <1>1, <1>2, <1>3, <1>4, <1>5, <1>6, <1>8, <1>9

-----------------------------------------------------------------------------
(* The bytes of a response.                                                *)

(* Tokens, and the place before the n-th payload, where W is their width.  *)
Token == {<<n, x>> : n \in Nat, x \in {"head", "tail", "r", "n"}}
Base(n, W) == IF W = 6 THEN 6 * n ELSE 4 * n

(* Payloads have the same width.                                           *)
LEMMA BaseNext ==
  ASSUME NEW W \in {4, 6}, NEW n \in Nat
  PROVE  /\ Base(n, W) \in Nat /\ Base(n + 1, W) = Base(n, W) + W
         /\ Base(0, W) = 0 /\ n <= Base(n, W)
  BY DEF Base

(* Later payloads are at later places.                                     *)
LEMMA BaseOrder ==
  ASSUME NEW W \in {4, 6}, NEW m \in Nat, NEW n \in Nat, m <= n
  PROVE  /\ Base(m, W) + (n - m) <= Base(n, W)
         /\ m # n => Base(m, W) + W <= Base(n, W)
  BY DEF Base

(* The tokens of a payload.                                                *)
Width(crlf) == IF crlf THEN 6 ELSE 4
Framed(n, crlf) ==
  /\ Frame(n, crlf) \in Seq(Token) /\ Len(Frame(n, crlf)) = Width(crlf)
  /\ Frame(n, crlf)[1] = <<n, "head">> /\ Frame(n, crlf)[2] = <<n, "tail">>
  /\ crlf = TRUE => /\ Frame(n, crlf)[3] = CR /\ Frame(n, crlf)[4] = LF
             /\ Frame(n, crlf)[5] = CR /\ Frame(n, crlf)[6] = LF
  /\ crlf = FALSE => Frame(n, crlf)[3] = LF /\ Frame(n, crlf)[4] = LF
  /\ \A j \in 1 .. Width(crlf) : Frame(n, crlf)[j] \in Token

(* The end of a line is no part of a payload.                              *)
LEMMA TokensDiffer ==
  /\ CR \in Token /\ LF \in Token /\ CR # LF
  /\ \A n \in Nat : /\ <<n, "head">> \in Token /\ <<n, "tail">> \in Token
                    /\ <<n, "head">> # CR /\ <<n, "head">> # LF
                    /\ <<n, "tail">> # CR /\ <<n, "tail">> # LF
  /\ \A m, n \in Nat : /\ <<m, "head">> # <<n, "tail">>
                       /\ <<m, "head">> = <<n, "head">> => m = n
                       /\ <<m, "tail">> = <<n, "tail">> => m = n
<1>1. CR \in Token /\ LF \in Token BY DEF CR, LF, Token
<1>2. CR # LF
  <2>1. CR[2] = "r" /\ LF[2] = "n" BY DEF CR, LF
  <2> QED BY <2>1
<1>3. ASSUME NEW n \in Nat
      PROVE  /\ <<n, "head">> \in Token /\ <<n, "tail">> \in Token
             /\ <<n, "head">> # CR /\ <<n, "head">> # LF
             /\ <<n, "tail">> # CR /\ <<n, "tail">> # LF
  <2>1. <<n, "head">> \in Token /\ <<n, "tail">> \in Token BY DEF Token
  <2>2. CR[2] = "r" /\ LF[2] = "n" BY DEF CR, LF
  <2>3. <<n, "head">>[2] = "head" /\ <<n, "tail">>[2] = "tail" OBVIOUS
  <2>4. "head" # "r" /\ "head" # "n" /\ "tail" # "r" /\ "tail" # "n" OBVIOUS
  <2> QED BY <2>1, <2>2, <2>3, <2>4
<1>4. ASSUME NEW m \in Nat, NEW n \in Nat
      PROVE  /\ <<m, "head">> # <<n, "tail">>
             /\ <<m, "head">> = <<n, "head">> => m = n
             /\ <<m, "tail">> = <<n, "tail">> => m = n
  OBVIOUS
<1> QED BY <1>1, <1>2, <1>3, <1>4

(* Frame is as it says.                                                    *)
LEMMA FrameParts == ASSUME NEW crlf \in BOOLEAN, NEW n \in Nat PROVE Framed(n, crlf)
<1> DEFINE a == <<n, "head">>
           b == <<n, "tail">>
<1>0. CR \in Token /\ LF \in Token /\ a \in Token /\ b \in Token BY TokensDiffer
<1> HIDE DEF a, b
<1>01. <<a, b>> \in Seq(Token) BY <1>0
<1>02. Len(<<a, b>>) = 2 /\ <<a, b>>[1] = a /\ <<a, b>>[2] = b OBVIOUS
<1>1. PICK x \in Seq(Token) : x = <<a, b>> /\ Len(x) = 2 /\ x[1] = a /\ x[2] = b
  BY <1>01, <1>02, Zenon
<1>2. CASE crlf = TRUE
  <2>1. PICK y \in Seq(Token) : /\ y = <<CR, LF, CR, LF>> /\ Len(y) = 4
                                /\ y[1] = CR /\ y[2] = LF /\ y[3] = CR /\ y[4] = LF
    <3> DEFINE y == <<CR, LF, CR, LF>>
    <3>1. y \in Seq(Token) BY <1>0
    <3>2. Len(y) = 4 /\ y[1] = CR /\ y[2] = LF /\ y[3] = CR /\ y[4] = LF OBVIOUS
    <3> QED BY <3>1, <3>2, Zenon
  <2>2. Frame(n, crlf) = x \o y BY <1>1, <1>2, <2>1 DEF Frame, Break, a, b
  <2>3. x \o y \in Seq(Token) /\ Len(x \o y) = 6 BY <1>1, <2>1, ConcatProperties
  <2>4. \A i \in 1 .. 6 : (x \o y)[i] = IF i <= 2 THEN x[i] ELSE y[i - 2]
    BY <1>1, <2>1, ConcatProperties
  <2>5. /\ (x \o y)[1] = a /\ (x \o y)[2] = b /\ (x \o y)[3] = CR /\ (x \o y)[4] = LF
        /\ (x \o y)[5] = CR /\ (x \o y)[6] = LF
    BY <1>1, <2>1, <2>4
  <2>6. \A j \in 1 .. Width(crlf) : (x \o y)[j] \in Token
    <3>1. Width(crlf) = 6 BY <1>2 DEF Width
    <3> QED BY <2>3, <3>1, ElementOfSeq
  <2>7. Len(x \o y) = Width(crlf) BY <1>2, <2>3 DEF Width
  <2> QED BY <1>2, <2>2, <2>3, <2>5, <2>6, <2>7 DEF Framed, a, b
<1>3. CASE crlf = FALSE
  <2>1. PICK y \in Seq(Token) : y = <<LF, LF>> /\ Len(y) = 2 /\ y[1] = LF /\ y[2] = LF
    <3> DEFINE y == <<LF, LF>>
    <3>1. y \in Seq(Token) BY <1>0
    <3>2. Len(y) = 2 /\ y[1] = LF /\ y[2] = LF OBVIOUS
    <3> QED BY <3>1, <3>2, Zenon
  <2>2. Frame(n, crlf) = x \o y BY <1>1, <1>3, <2>1 DEF Frame, Break, a, b
  <2>3. x \o y \in Seq(Token) /\ Len(x \o y) = 4 BY <1>1, <2>1, ConcatProperties
  <2>4. \A i \in 1 .. 4 : (x \o y)[i] = IF i <= 2 THEN x[i] ELSE y[i - 2]
    BY <1>1, <2>1, ConcatProperties
  <2>5. (x \o y)[1] = a /\ (x \o y)[2] = b /\ (x \o y)[3] = LF /\ (x \o y)[4] = LF
    BY <1>1, <2>1, <2>4
  <2>6. \A j \in 1 .. Width(crlf) : (x \o y)[j] \in Token
    <3>1. Width(crlf) = 4 BY <1>3 DEF Width
    <3> QED BY <2>3, <3>1, ElementOfSeq
  <2>7. Len(x \o y) = Width(crlf) BY <1>3, <2>3 DEF Width
  <2> QED BY <1>3, <2>2, <2>3, <2>5, <2>6, <2>7 DEF Framed, a, b
<1>4. crlf = TRUE \/ crlf = FALSE BY Zenon
<1> QED BY <1>2, <1>3, <1>4

(* t is the token at place i.                                              *)
Fits(t, i, W) ==
  /\ t \in Token
  /\ \A n \in Nat : /\ t = <<n + 1, "head">> <=> i = Base(n, W) + 1
                    /\ t = <<n + 1, "tail">> <=> i = Base(n, W) + 2
  /\ t = CR <=> W = 6 /\ i % 6 \in {3, 5}
  /\ t = LF <=> (W = 6 /\ i % 6 \in {4, 0}) \/ (W = 4 /\ i % 4 \in {3, 0})

(* The j-th token of the n-th payload is at its place.                     *)
LEMMA FrameFits ==
  ASSUME NEW n \in Nat, NEW j \in Nat, NEW crlf \in BOOLEAN, NEW W \in {4, 6},
         (crlf = TRUE) <=> (W = 6), 1 <= j, j <= W,
         NEW i \in Nat, i = Base(n, W) + j
  PROVE  Fits(Frame(n + 1, crlf)[j], i, W)
<1> DEFINE t == Frame(n + 1, crlf)[j]
<1>1. n + 1 \in Nat OBVIOUS
<1>2. Framed(n + 1, crlf) BY <1>1, FrameParts
<1>00. crlf = TRUE \/ crlf = FALSE BY Zenon
<1>3. /\ j = 1 => t = <<n + 1, "head">>
      /\ j = 2 => t = <<n + 1, "tail">>
  BY <1>2 DEF Framed
<1>4. W = 6 => /\ j = 3 => t = CR
               /\ j = 4 => t = LF
               /\ j = 5 => t = CR
               /\ j = 6 => t = LF
  BY <1>2 DEF Framed
<1>5. W = 4 => /\ j = 3 => t = LF
               /\ j = 4 => t = LF
  <2> SUFFICES ASSUME W = 4 PROVE /\ j = 3 => t = LF
                                  /\ j = 4 => t = LF OBVIOUS
  <2>1. crlf = FALSE BY <1>00
  <2> QED BY <1>2, <2>1 DEF Framed
<1> HIDE DEF t
<1>6. ASSUME NEW m \in Nat
      PROVE  /\ i = Base(m, W) + 1 <=> j = 1 /\ m = n
             /\ i = Base(m, W) + 2 <=> j = 2 /\ m = n
  BY DEF Base
<1>7. W = 6 => i % 6 = IF j = 6 THEN 0 ELSE j BY DEF Base
<1>8. W = 4 => i % 4 = IF j = 4 THEN 0 ELSE j BY DEF Base
<1>9. CASE j = 1
  <2>1. t = <<n + 1, "head">> BY <1>3, <1>9
  <2>2. t \in Token /\ t # CR /\ t # LF BY <1>1, <2>1, TokensDiffer
  <2>3. ASSUME NEW m \in Nat PROVE t = <<m + 1, "head">> <=> m = n
    <3>1. m + 1 \in Nat OBVIOUS
    <3>2. t = <<m + 1, "head">> => m + 1 = n + 1 BY <1>1, <2>1, <3>1, TokensDiffer
    <3> QED BY <2>1, <3>2
  <2>4. ASSUME NEW m \in Nat PROVE t # <<m + 1, "tail">>
    <3>1. m + 1 \in Nat OBVIOUS
    <3> QED BY <1>1, <2>1, <3>1, TokensDiffer
  <2>5. W = 6 => i % 6 = 1 BY <1>7, <1>9
  <2>6. W = 4 => i % 4 = 1 BY <1>8, <1>9
  <2>7. \A m \in Nat : /\ t = <<m + 1, "head">> <=> i = Base(m, W) + 1
                       /\ t = <<m + 1, "tail">> <=> i = Base(m, W) + 2
    BY <1>6, <1>9, <2>3, <2>4
  <2> QED BY <2>2, <2>5, <2>6, <2>7 DEF Fits, t
<1>10. CASE j = 2
  <2>1. t = <<n + 1, "tail">> BY <1>3, <1>10
  <2>2. t \in Token /\ t # CR /\ t # LF BY <1>1, <2>1, TokensDiffer
  <2>3. ASSUME NEW m \in Nat PROVE t = <<m + 1, "tail">> <=> m = n
    <3>1. m + 1 \in Nat OBVIOUS
    <3>2. t = <<m + 1, "tail">> => m + 1 = n + 1 BY <1>1, <2>1, <3>1, TokensDiffer
    <3> QED BY <2>1, <3>2
  <2>4. ASSUME NEW m \in Nat PROVE t # <<m + 1, "head">>
    <3>1. m + 1 \in Nat OBVIOUS
    <3> QED BY <1>1, <2>1, <3>1, TokensDiffer
  <2>5. W = 6 => i % 6 = 2 BY <1>7, <1>10
  <2>6. W = 4 => i % 4 = 2 BY <1>8, <1>10
  <2>7. \A m \in Nat : /\ t = <<m + 1, "head">> <=> i = Base(m, W) + 1
                       /\ t = <<m + 1, "tail">> <=> i = Base(m, W) + 2
    BY <1>6, <1>10, <2>3, <2>4
  <2> QED BY <2>2, <2>5, <2>6, <2>7 DEF Fits, t
<1>11. CASE j > 2
  <2>1. t = CR \/ t = LF BY <1>4, <1>5, <1>11
  <2>2. t \in Token BY <2>1, TokensDiffer
  <2>3. ASSUME NEW m \in Nat PROVE t # <<m + 1, "head">> /\ t # <<m + 1, "tail">>
    <3>1. m + 1 \in Nat OBVIOUS
    <3> QED BY <2>1, <3>1, TokensDiffer
  <2>4. \A m \in Nat : /\ t = <<m + 1, "head">> <=> i = Base(m, W) + 1
                       /\ t = <<m + 1, "tail">> <=> i = Base(m, W) + 2
    BY <1>6, <1>11, <2>3
  <2>5. CR # LF BY TokensDiffer
  <2>6. t = CR <=> W = 6 /\ j \in {3, 5} BY <1>4, <1>5, <1>11, <2>5
  <2>7. t = LF <=> (W = 6 /\ j \in {4, 6}) \/ (W = 4 /\ j \in {3, 4}) BY <1>4, <1>5, <1>11, <2>5
  <2>8. t = CR <=> W = 6 /\ i % 6 \in {3, 5} BY <1>7, <1>11, <2>6
  <2>9. t = LF <=> (W = 6 /\ i % 6 \in {4, 0}) \/ (W = 4 /\ i % 4 \in {3, 0})
    BY <1>7, <1>8, <1>11, <2>7
  <2> QED BY <2>2, <2>4, <2>8, <2>9 DEF Fits, t
<1> QED BY <1>9, <1>10, <1>11

(* w is the beginning of the encoding of the payloads b.                   *)
Laid(b, w, W) ==
  /\ W \in {4, 6} /\ w \in Seq(Token) /\ Len(w) <= Base(Len(b), W)
  /\ \A i \in 1 .. Len(w) : Fits(w[i], i, W)

(* x is the encoding of n payloads.                                        *)
Encoded(x, n, W) ==
  x \in Seq(Token) /\ Len(x) = Base(n, W) /\ \A i \in 1 .. Base(n, W) : Fits(x[i], i, W)

(* One more payload.                                                       *)
LEMMA EncodedNext ==
  ASSUME NEW n \in Nat, NEW crlf \in BOOLEAN, NEW W \in {4, 6}, (crlf = TRUE) <=> (W = 6),
         NEW x, Encoded(x, n, W)
  PROVE  Encoded(x \o Frame(n + 1, crlf), n + 1, W)
<1>1. PICK B \in Nat : B = Base(n, W) /\ Base(n + 1, W) = B + W BY BaseNext
<1>2. x \in Seq(Token) /\ Len(x) = B /\ \A i \in 1 .. B : Fits(x[i], i, W) BY <1>1 DEF Encoded
<1>3. PICK y : y = Frame(n + 1, crlf) OBVIOUS
<1>4. y \in Seq(Token) /\ Len(y) = W
  <2>1. n + 1 \in Nat OBVIOUS
  <2>2. Framed(n + 1, crlf) BY <2>1, FrameParts
  <2>3. Width(crlf) = W BY DEF Width
  <2> QED BY <1>3, <2>2, <2>3 DEF Framed
<1>5. /\ x \o y \in Seq(Token) /\ Len(x \o y) = B + W
      /\ \A i \in 1 .. B + W : (x \o y)[i] = IF i <= B THEN x[i] ELSE y[i - B]
  BY <1>2, <1>4, ConcatProperties
<1>6. ASSUME NEW i \in 1 .. B + W PROVE Fits((x \o y)[i], i, W)
  <2>1. CASE i <= B
    <3>1. i \in 1 .. B /\ (x \o y)[i] = x[i] BY <1>5, <2>1
    <3> QED BY <1>2, <3>1
  <2>2. CASE ~(i <= B)
    <3>1. PICK j \in Nat : j = i - B /\ 1 <= j /\ j <= W /\ i = B + j BY <2>2
    <3>2. (x \o y)[i] = y[j] BY <1>5, <2>2, <3>1
    <3>3. i \in Nat /\ i = Base(n, W) + j BY <1>1, <3>1
    <3>4. Fits(Frame(n + 1, crlf)[j], i, W) BY <3>1, <3>3, FrameFits
    <3> QED BY <1>3, <3>2, <3>4
  <2> QED BY <2>1, <2>2
<1> QED BY <1>1, <1>3, <1>5, <1>6 DEF Encoded

(* Payloads that all end their lines alike.                                *)
LEMMA EncodedAll ==
  ASSUME NEW b, Len(b) \in Nat, NEW crlf \in BOOLEAN, NEW W \in {4, 6}, (crlf = TRUE) <=> (W = 6)
  PROVE  Encoded(Encode(b, [n \in 1 .. Len(b) |-> crlf]), Len(b), W)
<1> DEFINE style == [n \in 1 .. Len(b) |-> crlf]
<1>1. PICK f : Looped(f, "encode", 0, style, << >>, Len(b)) /\ Encode(b, style) = f[Len(b)]
  BY EncodeLoops
<1>2. ASSUME NEW n \in 0 .. Len(b), n # 0 PROVE f[n] = f[n - 1] \o Frame(n, crlf)
  <2>1. f[n] = Turn("encode", 0, style, f[n - 1], n) BY <1>1, <1>2 DEF Looped
  <2>2. style[n] = crlf BY <1>2
  <2> QED BY <2>1, <2>2 DEF Turn
<1>3. f[0] = << >> BY <1>1 DEF Looped
<1> DEFINE T == {n \in 0 .. Len(b) : ~Encoded(f[n], n, W)}
<1>4. SUFFICES ASSUME T # {} PROVE FALSE BY <1>1
<1> HIDE DEF T, style
<1>5. T \subseteq Nat BY DEF T
<1>6. PICK n \in T : \A k \in T : n <= k BY <1>4, <1>5, LeastElement
<1>7. n \in Nat /\ n \in 0 .. Len(b) /\ ~Encoded(f[n], n, W) BY <1>5 DEF T
<1>8. CASE n = 0
  <2>1. Base(0, W) = 0 BY BaseNext
  <2>2. << >> \in Seq(Token) /\ Len(<< >>) = 0 /\ 1 .. 0 = {} OBVIOUS
  <2> QED BY <1>3, <1>7, <1>8, <2>1, <2>2 DEF Encoded
<1>9. CASE n # 0
  <2>1. PICK m \in Nat : n = m + 1 /\ m = n - 1 BY <1>7, <1>9
  <2>2. m \in 0 .. Len(b) /\ ~(n <= m) BY <1>7, <2>1
  <2>3. Encoded(f[m], m, W) BY <1>6, <2>2 DEF T
  <2>4. f[n] = f[m] \o Frame(m + 1, crlf) BY <1>2, <1>7, <1>9, <2>1
  <2>5. Encoded(f[m] \o Frame(m + 1, crlf), m + 1, W) BY <2>3, EncodedNext
  <2> QED BY <1>7, <2>1, <2>4, <2>5
<1> QED BY <1>8, <1>9

(* So is the wire, if its lines end alike.                                 *)
LEMMA WireLaid ==
  ASSUME NEW S, NEW b \in Seq(S), NEW crlf \in BOOLEAN,
         NEW w \in Cuts(Encode(b, [n \in 1 .. Len(b) |-> crlf]))
  PROVE  \E W : Laid(b, w, W)
<1>0. Len(b) \in Nat BY LenProperties
<1>00. crlf = TRUE \/ crlf = FALSE BY Zenon
<1>1. PICK W \in {4, 6} : (crlf = TRUE) <=> (W = 6) BY <1>00
<1>2. PICK N \in Nat : N = Base(Len(b), W) BY <1>0, <1>1, BaseNext
<1>3. PICK x : x = Encode(b, [n \in 1 .. Len(b) |-> crlf]) OBVIOUS
<1>4. Encoded(x, Len(b), W) BY <1>0, <1>1, <1>3, EncodedAll
<1>5. ASSUME NEW i \in 1 .. N PROVE Fits(x[i], i, W) BY <1>2, <1>4 DEF Encoded
<1>6. x \in Seq(Token) /\ Len(x) = N BY <1>2, <1>4 DEF Encoded
<1>61. PICK cut \in 0 .. Len(x) : w = SubSeq(x, 1, cut) BY <1>3 DEF Cuts
<1>7. cut \in Nat /\ cut <= N BY <1>6, <1>61
<1>8. w \in Seq(Token) /\ Len(w) = cut /\ \A i \in 1 .. cut : w[i] = x[i]
  <2>1. \A i \in 1 .. cut : x[i] \in Token BY <1>5, <1>7 DEF Fits
  <2>2. /\ w \in Seq(Token) /\ Len(w) = IF 1 <= cut THEN cut - 1 + 1 ELSE 0
        /\ \A i \in 1 .. cut - 1 + 1 : w[i] = x[1 + i - 1]
    BY <1>61, <1>7, <2>1, SubSeqProperties
  <2>3. cut - 1 + 1 = cut /\ Len(w) = cut BY <1>7, <2>2
  <2>4. \A i \in 1 .. cut : 1 + i - 1 = i BY <1>7
  <2> QED BY <2>2, <2>3, <2>4
<1>9. \A i \in 1 .. Len(w) : Fits(w[i], i, W) BY <1>5, <1>7, <1>8
<1>10. Len(w) <= Base(Len(b), W) BY <1>2, <1>7, <1>8
<1> QED BY <1>8, <1>9, <1>10 DEF Laid

(* s is what w has after the place P, up to p.                             *)
Piece(s, w, P, p) ==
  /\ s \in Seq(Token) /\ Len(s) = p - P
  /\ \A i \in 1 .. p - P : s[i] = w[P + i]

(* Bytes that follow it are taken in.                                      *)
LEMMA PieceMore ==
  ASSUME NEW w \in Seq(Token), NEW P \in Nat, NEW p \in Nat, P <= p, NEW k \in Nat, p + k <= Len(w),
         NEW s, Piece(s, w, P, p)
  PROVE  Piece(s \o SubSeq(w, p + 1, p + k), w, P, p + k)
<1>0. Len(w) \in Nat BY LenProperties
<1>1. PICK t : t = SubSeq(w, p + 1, p + k) OBVIOUS
<1>2. t \in Seq(Token) /\ Len(t) = k /\ \A i \in 1 .. k : t[i] = w[p + i]
  <2>1. \A i \in p + 1 .. p + k : w[i] \in Token
    <3> SUFFICES ASSUME NEW i \in p + 1 .. p + k PROVE w[i] \in Token OBVIOUS
    <3>1. i \in 1 .. Len(w) BY <1>0
    <3> QED BY <3>1, ElementOfSeq
  <2>2. /\ t \in Seq(Token) /\ Len(t) = IF p + 1 <= p + k THEN (p + k) - (p + 1) + 1 ELSE 0
        /\ \A i \in 1 .. (p + k) - (p + 1) + 1 : t[i] = w[(p + 1) + i - 1]
    BY <1>1, <2>1, SubSeqProperties
  <2>3. (p + k) - (p + 1) + 1 = k /\ Len(t) = k BY <2>2
  <2>4. \A i \in 1 .. k : (p + 1) + i - 1 = p + i OBVIOUS
  <2> QED BY <2>2, <2>3, <2>4
<1>3. s \in Seq(Token) /\ Len(s) = p - P /\ \A i \in 1 .. p - P : s[i] = w[P + i] BY DEF Piece
<1>4. s \o t \in Seq(Token) /\ Len(s \o t) = (p + k) - P
  <2>1. s \in Seq(Token) /\ t \in Seq(Token) BY <1>2, <1>3
  <2>2. s \o t \in Seq(Token) /\ Len(s \o t) = Len(s) + Len(t) BY <2>1, ConcatProperties
  <2>3. Len(s) + Len(t) = (p + k) - P BY <1>2, <1>3
  <2> QED BY <2>2, <2>3
<1>5. ASSUME NEW i \in 1 .. (p + k) - P PROVE (s \o t)[i] = w[P + i]
  <2>1. i \in 1 .. Len(s) + Len(t) BY <1>2, <1>3
  <2>2. (s \o t)[i] = IF i <= Len(s) THEN s[i] ELSE t[i - Len(s)] BY <1>2, <1>3, <2>1, ConcatProperties
  <2>3. CASE i <= Len(s)
    <3>1. i \in 1 .. p - P BY <1>3, <2>3
    <3> QED BY <1>3, <2>2, <2>3, <3>1
  <2>4. CASE ~(i <= Len(s))
    <3>1. PICK j \in 1 .. k : j = i - Len(s) /\ p + j = P + i BY <1>3, <2>4
    <3> QED BY <1>2, <2>2, <2>4, <3>1
  <2> QED BY <2>3, <2>4
<1> QED BY <1>1, <1>4, <1>5 DEF Piece

(* Part of a piece.                                                        *)
LEMMA PieceLess ==
  ASSUME NEW w, NEW P \in Nat, NEW p \in Nat, NEW c \in Nat, NEW d \in Nat, c <= d, P + d <= p,
         NEW s, Piece(s, w, P, p)
  PROVE  Piece(SubSeq(s, c + 1, d), w, P + c, P + d)
<1>1. s \in Seq(Token) /\ Len(s) = p - P /\ \A i \in 1 .. p - P : s[i] = w[P + i] BY DEF Piece
<1>2. PICK t : t = SubSeq(s, c + 1, d) OBVIOUS
<1>3. t \in Seq(Token) /\ Len(t) = d - c /\ \A i \in 1 .. d - c : t[i] = s[c + i]
  <2>1. \A i \in c + 1 .. d : s[i] \in Token
    <3> SUFFICES ASSUME NEW i \in c + 1 .. d PROVE s[i] \in Token OBVIOUS
    <3>1. i \in 1 .. Len(s) BY <1>1
    <3> QED BY <1>1, <3>1, ElementOfSeq
  <2>2. /\ t \in Seq(Token) /\ Len(t) = IF c + 1 <= d THEN d - (c + 1) + 1 ELSE 0
        /\ \A i \in 1 .. d - (c + 1) + 1 : t[i] = s[(c + 1) + i - 1]
    BY <1>2, <2>1, SubSeqProperties
  <2>3. d - (c + 1) + 1 = d - c /\ Len(t) = d - c BY <2>2
  <2>4. \A i \in 1 .. d - c : (c + 1) + i - 1 = c + i OBVIOUS
  <2> QED BY <2>2, <2>3, <2>4
<1>4. (P + d) - (P + c) = d - c OBVIOUS
<1>5. ASSUME NEW i \in 1 .. d - c PROVE t[i] = w[(P + c) + i]
  <2>1. PICK j \in 1 .. p - P : j = c + i /\ P + j = (P + c) + i OBVIOUS
  <2> QED BY <1>1, <1>3, <2>1
<1> QED BY <1>2, <1>3, <1>4, <1>5 DEF Piece

(* The line ends in a piece that begins with a payload.                    *)
LineEnds(s, W) ==
  \A i \in 1 .. Len(s) :
    /\ s[i] = CR <=> W = 6 /\ i % 6 \in {3, 5}
    /\ s[i] = LF <=> (W = 6 /\ i % 6 \in {4, 0}) \/ (W = 4 /\ i % 4 \in {3, 0})

(* The line ends of the wire, counted from a payload.                      *)
LEMMA PieceLines ==
  ASSUME NEW b, NEW w, NEW W, Laid(b, w, W), NEW M \in Nat, NEW p \in Nat,
         Base(M, W) <= p, p <= Len(w), NEW s, Piece(s, w, Base(M, W), p)
  PROVE  LineEnds(s, W)
<1>0. W \in {4, 6} /\ w \in Seq(Token) /\ Len(w) \in Nat BY LenProperties DEF Laid
<1>1. PICK P \in Nat : P = Base(M, W) BY <1>0, BaseNext
<1>2. Len(s) = p - P /\ \A i \in 1 .. p - P : s[i] = w[P + i] BY <1>1 DEF Piece
<1> SUFFICES ASSUME NEW i \in 1 .. Len(s)
             PROVE  /\ s[i] = CR <=> W = 6 /\ i % 6 \in {3, 5}
                    /\ s[i] = LF <=> (W = 6 /\ i % 6 \in {4, 0}) \/ (W = 4 /\ i % 4 \in {3, 0})
  BY DEF LineEnds
<1>3. PICK j \in 1 .. Len(w) : j = P + i BY <1>0, <1>1, <1>2
<1>4. s[i] = w[j] BY <1>2, <1>3
<1>5. Fits(w[j], j, W) BY DEF Laid
<1>6. W = 6 => j % 6 = i % 6
  <2>1. W = 6 => P = 6 * M BY <1>1 DEF Base
  <2> QED BY <1>2, <1>3, <2>1
<1>7. W = 4 => j % 4 = i % 4
  <2>1. W = 4 => P = 4 * M BY <1>1 DEF Base
  <2> QED BY <1>2, <1>3, <2>1
<1>8. /\ w[j] = CR <=> W = 6 /\ j % 6 \in {3, 5}
      /\ w[j] = LF <=> (W = 6 /\ j % 6 \in {4, 0}) \/ (W = 4 /\ j % 4 \in {3, 0})
  BY <1>5 DEF Fits
<1> QED BY <1>4, <1>6, <1>7, <1>8

(* Where a separator is.                                                   *)
TwoAt(s, n) == n + 1 <= Len(s) /\ s[n] = LF /\ s[n + 1] = LF
FourAt(s, n) == n + 3 <= Len(s) /\ s[n] = CR /\ s[n + 1] = LF /\ s[n + 2] = CR /\ s[n + 3] = LF

(* Where two line feeds are.                                               *)
LEMMA AtTwo ==
  ASSUME NEW s \in Seq(Token)
  PROVE  At(s, Break(FALSE)) = {n \in 1 .. Len(s) : TwoAt(s, n)}
<1>0. Len(s) \in Nat BY LenProperties
<1>1. PICK sep : sep = Break(FALSE) OBVIOUS
<1>2. Len(sep) = 2 /\ sep[1] = LF /\ sep[2] = LF /\ sep = <<LF, LF>> BY <1>1 DEF Break
<1>3. ASSUME NEW n \in 1 .. Len(s)
      PROVE  (n + Len(sep) - 1 <= Len(s) /\ SubSeq(s, n, n + Len(sep) - 1) = sep) <=> TwoAt(s, n)
  <2>1. n + Len(sep) - 1 = n + 1 BY <1>0, <1>2
  <2>2. CASE n + 1 <= Len(s)
    <3>1. PICK t : t = SubSeq(s, n, n + 1) OBVIOUS
    <3>2. t \in Seq(Token) /\ Len(t) = 2 /\ t[1] = s[n] /\ t[2] = s[n + 1]
      <4>1. \A i \in n .. n + 1 : s[i] \in Token
        <5> SUFFICES ASSUME NEW i \in n .. n + 1 PROVE s[i] \in Token OBVIOUS
        <5>1. i \in 1 .. Len(s) BY <1>0, <2>2
        <5> QED BY <5>1, ElementOfSeq
      <4>2. /\ t \in Seq(Token) /\ Len(t) = IF n <= n + 1 THEN (n + 1) - n + 1 ELSE 0
            /\ \A i \in 1 .. (n + 1) - n + 1 : t[i] = s[n + i - 1]
        BY <1>0, <3>1, <4>1, SubSeqProperties
      <4>3. Len(t) = 2 /\ 1 \in 1 .. (n + 1) - n + 1 /\ 2 \in 1 .. (n + 1) - n + 1
            /\ n + 1 - 1 = n /\ n + 2 - 1 = n + 1
        BY <1>0, <4>2
      <4> QED BY <4>2, <4>3
    <3>3. t = <<s[n], s[n + 1]>> BY <3>2
    <3>4. t = sep <=> s[n] = LF /\ s[n + 1] = LF BY <1>2, <3>3
    <3> QED BY <2>1, <2>2, <3>1, <3>4 DEF TwoAt
  <2>3. CASE ~(n + 1 <= Len(s)) BY <2>1, <2>3 DEF TwoAt
  <2> QED BY <2>2, <2>3
<1>4. At(s, sep) = {n \in 1 .. Len(s) : n + Len(sep) - 1 <= Len(s)
                                         /\ SubSeq(s, n, n + Len(sep) - 1) = sep}
  BY DEF At
<1>5. At(s, sep) = {n \in 1 .. Len(s) : TwoAt(s, n)} BY <1>3, <1>4
<1> QED BY <1>1, <1>5

(* Where two line ends with carriage returns are.                          *)
LEMMA AtFour ==
  ASSUME NEW s \in Seq(Token)
  PROVE  At(s, Break(TRUE)) = {n \in 1 .. Len(s) : FourAt(s, n)}
<1>0. Len(s) \in Nat BY LenProperties
<1>1. PICK sep : sep = Break(TRUE) OBVIOUS
<1>2. Len(sep) = 4 /\ sep = <<CR, LF, CR, LF>> BY <1>1 DEF Break
<1>3. ASSUME NEW n \in 1 .. Len(s)
      PROVE  (n + Len(sep) - 1 <= Len(s) /\ SubSeq(s, n, n + Len(sep) - 1) = sep) <=> FourAt(s, n)
  <2>1. n + Len(sep) - 1 = n + 3 BY <1>0, <1>2
  <2>2. CASE n + 3 <= Len(s)
    <3>1. PICK t : t = SubSeq(s, n, n + 3) OBVIOUS
    <3>2. /\ t \in Seq(Token) /\ Len(t) = 4
          /\ t[1] = s[n] /\ t[2] = s[n + 1] /\ t[3] = s[n + 2] /\ t[4] = s[n + 3]
      <4>1. \A i \in n .. n + 3 : s[i] \in Token
        <5> SUFFICES ASSUME NEW i \in n .. n + 3 PROVE s[i] \in Token OBVIOUS
        <5>1. i \in 1 .. Len(s) BY <1>0, <2>2
        <5> QED BY <5>1, ElementOfSeq
      <4>2. /\ t \in Seq(Token) /\ Len(t) = IF n <= n + 3 THEN (n + 3) - n + 1 ELSE 0
            /\ \A i \in 1 .. (n + 3) - n + 1 : t[i] = s[n + i - 1]
        BY <1>0, <3>1, <4>1, SubSeqProperties
      <4>3. Len(t) = 4 /\ (n + 3) - n + 1 = 4 /\ n + 1 - 1 = n /\ n + 2 - 1 = n + 1
            /\ n + 3 - 1 = n + 2 /\ n + 4 - 1 = n + 3
        BY <1>0, <4>2
      <4>4. \A i \in 1 .. 4 : t[i] = s[n + i - 1] BY <4>2, <4>3
      <4> QED BY <4>2, <4>3, <4>4
    <3>3. t = <<s[n], s[n + 1], s[n + 2], s[n + 3]>> BY <3>2
    <3>4. t = sep <=> s[n] = CR /\ s[n + 1] = LF /\ s[n + 2] = CR /\ s[n + 3] = LF BY <1>2, <3>3
    <3> QED BY <2>1, <2>2, <3>1, <3>4 DEF FourAt
  <2>3. CASE ~(n + 3 <= Len(s)) BY <2>1, <2>3 DEF FourAt
  <2> QED BY <2>2, <2>3
<1>4. At(s, sep) = {n \in 1 .. Len(s) : n + Len(sep) - 1 <= Len(s)
                                         /\ SubSeq(s, n, n + Len(sep) - 1) = sep}
  BY DEF At
<1>5. At(s, sep) = {n \in 1 .. Len(s) : FourAt(s, n)} BY <1>3, <1>4
<1> QED BY <1>1, <1>5

(* The least element.                                                      *)
LEMMA FirstIs ==
  ASSUME NEW S, S \subseteq Nat, NEW m \in S, \A n \in S : m <= n
  PROVE  First(S) = m
<1>1. \E n \in S : \A k \in S : n <= k OBVIOUS
<1>2. First(S) \in S /\ \A k \in S : First(S) <= k BY <1>1 DEF First
<1>3. First(S) \in Nat /\ m \in Nat BY <1>2
<1>4. First(S) <= m /\ m <= First(S) BY <1>2
<1> QED BY <1>3, <1>4

(* A whole payload ends with a blank line, and that is the first.          *)
LEMMA BoundaryWhole ==
  ASSUME NEW W \in {4, 6}, NEW s \in Seq(Token), LineEnds(s, W), W <= Len(s)
  PROVE  Boundary(s) = <<3, W - 2>>
<1>0. Len(s) \in Nat BY LenProperties
<1>1. At(s, Break(FALSE)) = {n \in 1 .. Len(s) : TwoAt(s, n)} BY AtTwo
<1>2. At(s, Break(TRUE)) = {n \in 1 .. Len(s) : FourAt(s, n)} BY AtFour
<1>3. CASE W = 4
  <2>1. \A i \in 1 .. Len(s) : s[i] = LF <=> i % 4 \in {3, 0} BY <1>3 DEF LineEnds
  <2>2. 3 \in 1 .. Len(s) /\ 4 \in 1 .. Len(s) BY <1>0, <1>3
  <2>3. TwoAt(s, 3) BY <1>0, <2>1, <2>2 DEF TwoAt
  <2>4. ASSUME NEW n \in 1 .. Len(s), TwoAt(s, n) PROVE 3 <= n
    <3>1. n % 4 \in {3, 0} BY <2>1, <2>4 DEF TwoAt
    <3> QED BY <1>0, <3>1
  <2>5. PICK S : S = At(s, Break(FALSE)) OBVIOUS
  <2>6. S \subseteq Nat /\ 3 \in S /\ \A n \in S : 3 <= n
    <3>1. S = {n \in 1 .. Len(s) : TwoAt(s, n)} BY <1>1, <2>5
    <3>2. 3 \in S BY <2>2, <2>3, <3>1
    <3>3. \A n \in S : n \in Nat /\ 3 <= n BY <1>0, <2>4, <3>1
    <3> QED BY <3>2, <3>3
  <2>7. First(S) = 3 /\ S # {} BY <2>6, FirstIs
  <2>10. Boundary(s) = <<3, 2>> BY <2>5, <2>7, Zenon DEF Boundary
  <2>11. W - 2 = 2 BY <1>3
  <2> QED BY <2>10, <2>11
<1>4. CASE W = 6
  <2>1. \A i \in 1 .. Len(s) : /\ s[i] = CR <=> i % 6 \in {3, 5}
                               /\ s[i] = LF <=> i % 6 \in {4, 0}
    BY <1>4 DEF LineEnds
  <2>2. /\ 3 \in 1 .. Len(s) /\ 4 \in 1 .. Len(s) /\ 5 \in 1 .. Len(s) /\ 6 \in 1 .. Len(s)
        /\ 3 % 6 = 3 /\ 4 % 6 = 4 /\ 5 % 6 = 5 /\ 6 % 6 = 0
    BY <1>0, <1>4
  <2>3. FourAt(s, 3)
    <3>1. s[3] = CR /\ s[4] = LF /\ s[5] = CR /\ s[6] = LF BY <2>1, <2>2
    <3>2. 3 + 1 = 4 /\ 3 + 2 = 5 /\ 3 + 3 = 6 /\ 3 + 3 <= Len(s) BY <1>0, <1>4
    <3> QED BY <3>1, <3>2 DEF FourAt
  <2>4. ASSUME NEW n \in 1 .. Len(s), FourAt(s, n) PROVE 3 <= n
    <3>1. n % 6 \in {3, 5} BY <2>1, <2>4 DEF FourAt
    <3> QED BY <1>0, <3>1
  <2>5. ASSUME NEW n \in 1 .. Len(s), TwoAt(s, n) PROVE FALSE
    <3>1. n + 1 \in 1 .. Len(s) BY <1>0, <2>5 DEF TwoAt
    <3>2. n % 6 \in {4, 0} /\ (n + 1) % 6 \in {4, 0} BY <2>1, <2>5, <3>1 DEF TwoAt
    <3> QED BY <1>0, <3>2
  <2>6. At(s, Break(FALSE)) = {} BY <1>1, <2>5
  <2>7. PICK S : S = At(s, Break(TRUE)) OBVIOUS
  <2>8. S \subseteq Nat /\ 3 \in S /\ \A n \in S : 3 <= n
    <3>1. S = {n \in 1 .. Len(s) : FourAt(s, n)} BY <1>2, <2>7
    <3>2. 3 \in S BY <2>2, <2>3, <3>1
    <3>3. \A n \in S : n \in Nat /\ 3 <= n BY <1>0, <2>4, <3>1
    <3> QED BY <3>2, <3>3
  <2>9. First(S) = 3 /\ S # {} BY <2>8, FirstIs
  <2>10. Boundary(s) = <<3, 4>> BY <2>6, <2>7, <2>9, Zenon DEF Boundary
  <2>11. W - 2 = 4 BY <1>4
  <2> QED BY <2>10, <2>11
<1> QED BY <1>3, <1>4

(* Part of a payload has no blank line.                                    *)
LEMMA BoundaryPart ==
  ASSUME NEW W \in {4, 6}, NEW s \in Seq(Token), LineEnds(s, W), Len(s) < W
  PROVE  Boundary(s)[1] = 0
<1>0. Len(s) \in Nat BY LenProperties
<1>1. At(s, Break(FALSE)) = {n \in 1 .. Len(s) : TwoAt(s, n)} BY AtTwo
<1>2. At(s, Break(TRUE)) = {n \in 1 .. Len(s) : FourAt(s, n)} BY AtFour
<1>3. ASSUME NEW n \in 1 .. Len(s), TwoAt(s, n) PROVE FALSE
  <2>1. n + 1 \in 1 .. Len(s) BY <1>0, <1>3 DEF TwoAt
  <2>2. s[n] = LF /\ s[n + 1] = LF BY <1>3 DEF TwoAt
  <2>3. (W = 6 /\ n % 6 \in {4, 0}) \/ (W = 4 /\ n % 4 \in {3, 0}) BY <2>2 DEF LineEnds
  <2>4. (W = 6 /\ (n + 1) % 6 \in {4, 0}) \/ (W = 4 /\ (n + 1) % 4 \in {3, 0})
    BY <2>1, <2>2 DEF LineEnds
  <2> QED BY <1>0, <2>1, <2>3, <2>4
<1>4. ASSUME NEW n \in 1 .. Len(s), FourAt(s, n) PROVE FALSE
  <2>1. n + 3 \in 1 .. Len(s) /\ s[n] = CR BY <1>0, <1>4 DEF FourAt
  <2>2. W = 6 /\ n % 6 \in {3, 5} BY <2>1 DEF LineEnds
  <2> QED BY <1>0, <2>1, <2>2
<1>5. At(s, Break(FALSE)) = {} /\ At(s, Break(TRUE)) = {} BY <1>1, <1>2, <1>3, <1>4
<1> QED BY <1>5 DEF Boundary

(* The halves of a payload in a piece.                                     *)
Halves(s, P, p, n, W) ==
  /\ Has(s, <<n + 1, "head">>) <=> P <= Base(n, W) /\ Base(n, W) + 1 <= p
  /\ Has(s, <<n + 1, "tail">>) <=> P <= Base(n, W) + 1 /\ Base(n, W) + 2 <= p

(* A payload is in a piece by its place.                                   *)
LEMMA PieceHas ==
  ASSUME NEW b, NEW w, NEW W, Laid(b, w, W), NEW P \in Nat, NEW p \in Nat, P <= p, p <= Len(w),
         NEW s, Piece(s, w, P, p), NEW n \in Nat
  PROVE  Halves(s, P, p, n, W)
<1>0. W \in {4, 6} /\ w \in Seq(Token) /\ Len(w) \in Nat BY LenProperties DEF Laid
<1>1. PICK B \in Nat : B = Base(n, W) BY <1>0, BaseNext
<1>2. Len(s) = p - P /\ \A i \in 1 .. p - P : s[i] = w[P + i] BY DEF Piece
<1>3. ASSUME NEW i \in 1 .. Len(s)
      PROVE  /\ s[i] = <<n + 1, "head">> <=> P + i = B + 1
             /\ s[i] = <<n + 1, "tail">> <=> P + i = B + 2
  <2>1. PICK j \in 1 .. Len(w) : j = P + i BY <1>0, <1>2
  <2>2. s[i] = w[j] BY <1>2, <2>1
  <2>3. Fits(w[j], j, W) BY DEF Laid
  <2>4. /\ w[j] = <<n + 1, "head">> <=> j = Base(n, W) + 1
        /\ w[j] = <<n + 1, "tail">> <=> j = Base(n, W) + 2
    BY <2>3 DEF Fits
  <2> QED BY <1>1, <2>1, <2>2, <2>4
<1>4. (\E i \in 1 .. Len(s) : P + i = B + 1) <=> P <= B /\ B + 1 <= p
  <2>1. ASSUME P <= B, B + 1 <= p PROVE \E i \in 1 .. Len(s) : P + i = B + 1
    <3>1. (B + 1) - P \in 1 .. Len(s) /\ P + ((B + 1) - P) = B + 1 BY <1>2, <2>1
    <3> QED BY <3>1
  <2>2. ASSUME NEW i \in 1 .. Len(s), P + i = B + 1 PROVE P <= B /\ B + 1 <= p BY <1>2, <2>2
  <2> QED BY <2>1, <2>2
<1>5. (\E i \in 1 .. Len(s) : P + i = B + 2) <=> P <= B + 1 /\ B + 2 <= p
  <2>1. ASSUME P <= B + 1, B + 2 <= p PROVE \E i \in 1 .. Len(s) : P + i = B + 2
    <3>1. (B + 2) - P \in 1 .. Len(s) /\ P + ((B + 2) - P) = B + 2 BY <1>2, <2>1
    <3> QED BY <3>1
  <2>2. ASSUME NEW i \in 1 .. Len(s), P + i = B + 2 PROVE P <= B + 1 /\ B + 2 <= p BY <1>2, <2>2
  <2> QED BY <2>1, <2>2
<1>6. Has(s, <<n + 1, "head">>) <=> \E i \in 1 .. Len(s) : P + i = B + 1 BY <1>3 DEF Has
<1>7. Has(s, <<n + 1, "tail">>) <=> \E i \in 1 .. Len(s) : P + i = B + 2 BY <1>3 DEF Has
<1> QED BY <1>1, <1>4, <1>5, <1>6, <1>7 DEF Halves

(* A block in which one payload begins.                                    *)
LEMMA DecodeOne ==
  ASSUME NEW b, Len(b) \in Nat, NEW s, NEW k \in 1 .. Len(b),
         \A n \in 1 .. Len(b) : Has(s, <<n, "head">>) <=> n = k
  PROVE  Decode(b, s) = IF b[k].k = "comment" THEN << >>
                        ELSE IF ~Has(s, <<k, "tail">>) \/ (b[k].k = "done" /\ EndsStray(s, k))
                        THEN <<Junk>>
                        ELSE <<b[k]>>
<1>1. PICK S : S = {n \in 1 .. Len(b) : b[n].k # "comment" /\ Has(s, <<n, "head">>)} OBVIOUS
<1>2. \A n \in S : n = k BY <1>1
<1>3. CASE b[k].k = "comment"
  <2>1. S = {} BY <1>1, <1>2, <1>3
  <2> QED BY <1>1, <1>3, <2>1, Zenon DEF Decode
<1>4. CASE b[k].k # "comment"
  <2>1. k \in S BY <1>1, <1>4
  <2>2. S \subseteq Nat /\ \A n \in S : k <= n BY <1>2
  <2>3. First(S) = k BY <2>1, <2>2, FirstIs
  <2>4. S # {} /\ ~ \E m \in S : m # k BY <1>2, <2>1
  <2> QED BY <1>1, <1>4, <2>3, <2>4, Zenon DEF Decode
<1> QED BY <1>3, <1>4

(* There is a payload at every place before the end of the wire.           *)
LEMMA PayloadThere ==
  ASSUME NEW S, NEW b \in Seq(S), NEW w, NEW W, Laid(b, w, W), NEW M \in Nat, Base(M, W) < Len(w)
  PROVE  M + 1 \in 1 .. Len(b)
<1>0. W \in {4, 6} /\ Len(b) \in Nat /\ Len(w) \in Nat /\ Len(w) <= Base(Len(b), W)
  BY LenProperties DEF Laid
<1>1. CASE M < Len(b) BY <1>0, <1>1
<1>2. CASE Len(b) <= M
  <2>1. Base(Len(b), W) + (M - Len(b)) <= Base(M, W) BY <1>0, <1>2, BaseOrder
  <2>2. Base(Len(b), W) \in Nat /\ Base(M, W) \in Nat BY <1>0, BaseNext
  <2> QED BY <1>0, <1>2, <2>1, <2>2
<1> QED BY <1>0, <1>1, <1>2

(* A block that holds a payload, whole or cut by the end of the wire, is   *)
(* the event of that payload.                                              *)
LEMMA DecodePiece ==
  ASSUME NEW S, NEW b \in Seq(S), NEW w, NEW W, Laid(b, w, W), NEW M \in Nat, NEW p \in Nat,
         p <= Len(w), Base(M, W) + 1 <= p, NEW s, Piece(s, w, Base(M, W), p),
         \/ p = Len(w) /\ p < Base(M, W) + W
         \/ p = Base(M, W) + 2 /\ Base(M, W) + W <= Len(w)
  PROVE  Decode(b, s) = EventOf(b, w, M + 1)
<1>0. W \in {4, 6} /\ w \in Seq(Token) /\ Len(w) \in Nat /\ Len(b) \in Nat BY LenProperties DEF Laid
<1>1. PICK P \in Nat : P = Base(M, W) BY <1>0, BaseNext
<1>01. /\ P + 1 <= p /\ P <= p /\ p <= Len(w)
       /\ (p = Len(w) /\ p < P + W) \/ (p = P + 2 /\ P + W <= Len(w))
  BY <1>0, <1>1
<1>02. Piece(s, w, P, p) BY <1>1
<1>2. PICK k \in 1 .. Len(b) : k = M + 1
  <2>1. Base(M, W) < Len(w) BY <1>0, <1>1
  <2> QED BY <2>1, PayloadThere
<1>3. ASSUME NEW n \in 1 .. Len(b) PROVE Has(s, <<n, "head">>) <=> n = k
  <2>1. PICK m \in Nat : n = m + 1
    <3>1. n - 1 \in Nat /\ n = (n - 1) + 1 BY <1>0
    <3> QED BY <3>1
  <2>2. Halves(s, P, p, m, W) BY <1>01, <1>02, PieceHas
  <2>3. P <= Base(m, W) /\ Base(m, W) + 1 <= p <=> m = M BY <1>0, <1>01, <1>1 DEF Base
  <2>4. Has(s, <<m + 1, "head">>) <=> m = M BY <2>2, <2>3 DEF Halves
  <2>5. n = k <=> m = M BY <1>2, <2>1
  <2> QED BY <2>1, <2>4, <2>5
<1>4. Has(s, <<k, "tail">>) <=> P + 2 <= p
  <2>1. Halves(s, P, p, M, W) BY <1>01, <1>02, PieceHas
  <2> QED BY <1>1, <1>2, <2>1 DEF Halves
<1>5. Piece(w, w, 0, Len(w))
  <2>1. Len(w) = Len(w) - 0 /\ \A i \in 1 .. Len(w) - 0 : w[i] = w[0 + i] BY <1>0
  <2> QED BY <1>0, <2>1 DEF Piece
<1>6. Has(w, <<k, "head">>) /\ (Has(w, <<k, "tail">>) <=> P + 2 <= Len(w))
  <2>1. 0 \in Nat /\ 0 <= Len(w) /\ Len(w) <= Len(w) BY <1>0
  <2>2. Halves(w, 0, Len(w), M, W) BY <1>0, <1>5, <2>1, PieceHas
  <2> QED BY <1>0, <1>01, <1>1, <1>2, <2>2 DEF Halves
<1>7. P + 2 <= p <=> P + 2 <= Len(w) BY <1>0, <1>01
<1>8. P + 2 <= p => (EndsStray(s, k) <=> EndsStray(w, k))
  <2> SUFFICES ASSUME P + 2 <= p PROVE EndsStray(s, k) <=> EndsStray(w, k) OBVIOUS
  <2>1. Len(s) = p - P /\ \A i \in 1 .. p - P : s[i] = w[P + i] BY <1>02 DEF Piece
  <2>2. PICK l \in 1 .. p - P : l = Len(s) /\ P + l = p BY <1>0, <2>1
  <2>3. PICK m \in 1 .. p - P : m = Len(s) - 1 /\ P + m = p - 1 BY <1>0, <2>1
  <2>4. s[Len(s)] = w[p] /\ s[Len(s) - 1] = w[p - 1] BY <2>1, <2>2, <2>3
  <2>5. CASE p = Len(w) BY <2>4, <2>5 DEF EndsStray
  <2>6. CASE p = P + 2 /\ P + W <= Len(w)
    <3>1. p \in 1 .. Len(w) /\ Len(w) - 1 \in 1 .. Len(w) BY <1>0, <2>6
    <3>2. Fits(w[p], p, W) /\ Fits(w[Len(w) - 1], Len(w) - 1, W) BY <3>1 DEF Laid
    <3>3. w[p] = <<M + 1, "tail">> BY <1>1, <2>6, <3>2 DEF Fits
    <3>4. w[p] # CR
      <4>1. M + 1 \in Nat OBVIOUS
      <4> QED BY <3>3, <4>1, TokensDiffer
    <3>5. w[Len(w) - 1] # <<M + 1, "tail">>
      <4>1. w[Len(w) - 1] = <<M + 1, "tail">> <=> Len(w) - 1 = Base(M, W) + 2 BY <3>2 DEF Fits
      <4>2. P + 4 <= Len(w) BY <1>0, <2>6
      <4>3. Len(w) - 1 # Base(M, W) + 2 BY <1>0, <1>1, <4>2
      <4> QED BY <4>1, <4>3, Zenon
    <3> QED BY <1>2, <2>4, <3>4, <3>5 DEF EndsStray
  <2> QED BY <1>01, <2>5, <2>6
<1>9. Decode(b, s) = IF b[k].k = "comment" THEN << >>
                     ELSE IF ~Has(s, <<k, "tail">>) \/ (b[k].k = "done" /\ EndsStray(s, k))
                     THEN <<Junk>>
                     ELSE <<b[k]>>
  BY <1>0, <1>3, DecodeOne
<1>10. EventOf(b, w, k) =
         IF b[k].k = "comment" THEN << >>
         ELSE IF ~Has(w, <<k, "tail">>) \/ (b[k].k = "done" /\ EndsStray(w, k))
         THEN <<Junk>>
         ELSE <<b[k]>>
  BY <1>6, Zenon DEF EventOf
<1>11. Decode(b, s) = EventOf(b, w, k)
  <2>0. Has(s, <<k, "tail">>) <=> Has(w, <<k, "tail">>) BY <1>4, <1>6, <1>7
  <2>1. Has(s, <<k, "tail">>) => (EndsStray(s, k) <=> EndsStray(w, k)) BY <1>4, <1>8
  <2>2. (~Has(s, <<k, "tail">>) \/ (b[k].k = "done" /\ EndsStray(s, k)))
        <=> (~Has(w, <<k, "tail">>) \/ (b[k].k = "done" /\ EndsStray(w, k)))
    BY <2>0, <2>1, Zenon
  <2>3. CASE b[k].k = "comment" BY <1>9, <1>10, <2>3, Zenon
  <2>4. CASE b[k].k # "comment" /\ (~Has(s, <<k, "tail">>) \/ (b[k].k = "done" /\ EndsStray(s, k)))
    <3>1. Decode(b, s) = <<Junk>> BY <1>9, <2>4, Zenon
    <3>2. EventOf(b, w, k) = <<Junk>> BY <1>10, <2>2, <2>4, Zenon
    <3> QED BY <3>1, <3>2, Zenon
  <2>5. CASE b[k].k # "comment" /\ ~(~Has(s, <<k, "tail">>) \/ (b[k].k = "done" /\ EndsStray(s, k)))
    <3>1. Decode(b, s) = <<b[k]>> BY <1>9, <2>5, Zenon
    <3>2. EventOf(b, w, k) = <<b[k]>> BY <1>10, <2>2, <2>5, Zenon
    <3> QED BY <3>1, <3>2, Zenon
  <2> QED BY <2>3, <2>4, <2>5, Zenon
<1> QED BY <1>2, <1>11

(* Past the end of the wire there is no event.                             *)
LEMMA NoEvent ==
  ASSUME NEW b, NEW w, NEW W, Laid(b, w, W), NEW M \in Nat, Len(w) <= Base(M, W)
  PROVE  EventOf(b, w, M + 1) = << >>
<1>0. W \in {4, 6} /\ w \in Seq(Token) /\ Len(w) \in Nat BY LenProperties DEF Laid
<1>1. Piece(w, w, 0, Len(w))
  <2>1. Len(w) = Len(w) - 0 /\ \A i \in 1 .. Len(w) - 0 : w[i] = w[0 + i] BY <1>0
  <2> QED BY <1>0, <2>1 DEF Piece
<1>2. Has(w, <<M + 1, "head">>) <=> 0 <= Base(M, W) /\ Base(M, W) + 1 <= Len(w)
  <2>1. 0 \in Nat /\ 0 <= Len(w) /\ Len(w) <= Len(w) BY <1>0
  <2>2. Halves(w, 0, Len(w), M, W) BY <1>0, <1>1, <2>1, PieceHas
  <2> QED BY <2>2 DEF Halves
<1>3. Base(M, W) \in Nat BY <1>0, BaseNext
<1>4. ~Has(w, <<M + 1, "head">>) BY <1>0, <1>2, <1>3
<1> QED BY <1>4, Zenon DEF EventOf

(* An event is a payload with data, or no JSON.                            *)
Heard(S) == {e \in S : e.k # "comment"} \cup {Junk}

(* So is every event of the wire.                                          *)
LEMMA EventType ==
  ASSUME NEW S, NEW b \in Seq(S), NEW w, NEW W, Laid(b, w, W), NEW M \in Nat
  PROVE  EventOf(b, w, M + 1) \in Seq(Heard(S))
<1>0. W \in {4, 6} /\ Len(w) \in Nat /\ Base(M, W) \in Nat BY LenProperties, BaseNext DEF Laid
<1>00. << >> \in Seq(Heard(S)) OBVIOUS
<1>1. CASE Len(w) <= Base(M, W)
  <2>1. EventOf(b, w, M + 1) = << >> BY <1>1, NoEvent
  <2> QED BY <1>00, <2>1, Zenon
<1>2. CASE Base(M, W) < Len(w)
  <2>1. M + 1 \in 1 .. Len(b) BY <1>2, PayloadThere
  <2>2. b[M + 1] \in S BY <2>1, ElementOfSeq
  <2>3. PICK e : e = b[M + 1] OBVIOUS
  <2>4. Junk \in Heard(S) /\ (e.k # "comment" => e \in Heard(S)) BY <2>2, <2>3 DEF Heard
  <2>5. <<Junk>> \in Seq(Heard(S)) /\ (e.k # "comment" => <<e>> \in Seq(Heard(S))) BY <2>4
  <2>6. EventOf(b, w, M + 1) \in {<< >>, <<Junk>>}
        \/ (e.k # "comment" /\ EventOf(b, w, M + 1) = <<e>>)
    BY <2>3, Zenon DEF EventOf
  <2> QED BY <1>00, <2>5, <2>6
<1> QED BY <1>0, <1>1, <1>2

(* So are those of the first n payloads.                                   *)
LEMMA EventsType ==
  ASSUME NEW S, NEW b \in Seq(S), NEW w, NEW W, Laid(b, w, W), NEW n \in Nat
  PROVE  Events(b, w, n) \in Seq(Heard(S))
<1> DEFINE T == {m \in Nat : Events(b, w, m) \notin Seq(Heard(S))}
<1> SUFFICES ASSUME T # {} PROVE FALSE OBVIOUS
<1> HIDE DEF T
<1>0. T \subseteq Nat BY DEF T
<1>1. PICK m \in T : \A k \in T : m <= k BY <1>0, LeastElement
<1>2. m \in Nat /\ Events(b, w, m) \notin Seq(Heard(S)) BY DEF T
<1>3. m # 0
  <2>1. Events(b, w, 0) = << >> /\ << >> \in Seq(Heard(S)) BY EventsNext
  <2> QED BY <1>2, <2>1
<1>4. PICK i \in Nat : m = i + 1
  <2>1. m - 1 \in Nat /\ m = (m - 1) + 1 BY <1>2, <1>3
  <2> QED BY <2>1
<1>5. Events(b, w, i) \in Seq(Heard(S))
  <2>1. i \notin T BY <1>1, <1>2, <1>4
  <2> QED BY <2>1 DEF T
<1>6. EventOf(b, w, m) \in Seq(Heard(S)) BY <1>4, EventType
<1>7. Events(b, w, m) = Events(b, w, i) \o EventOf(b, w, m) BY <1>4, EventsNext
<1> QED BY <1>2, <1>5, <1>6, <1>7, ConcatProperties

(* The payloads past the end add nothing.                                  *)
LEMMA EventsEnd ==
  ASSUME NEW S, NEW b \in Seq(S), NEW w, NEW W, Laid(b, w, W), NEW M \in Nat, Len(w) <= Base(M, W),
         NEW N \in Nat, M <= N
  PROVE  Events(b, w, N) = Events(b, w, M)
<1>0. W \in {4, 6} /\ Len(w) \in Nat BY LenProperties DEF Laid
<1> DEFINE T == {m \in Nat : M <= m /\ Events(b, w, m) # Events(b, w, M)}
<1> SUFFICES ASSUME T # {} PROVE FALSE OBVIOUS
<1> HIDE DEF T
<1>1. T \subseteq Nat BY DEF T
<1>2. PICK m \in T : \A k \in T : m <= k BY <1>1, LeastElement
<1>3. m \in Nat /\ M <= m /\ Events(b, w, m) # Events(b, w, M) BY DEF T
<1>4. m # M BY <1>3
<1>5. PICK i \in Nat : m = i + 1 /\ M <= i
  <2>1. m - 1 \in Nat /\ m = (m - 1) + 1 /\ M <= m - 1 BY <1>3, <1>4
  <2> QED BY <2>1
<1>6. Events(b, w, i) = Events(b, w, M)
  <2>1. i \notin T BY <1>2, <1>3, <1>5
  <2> QED BY <1>5, <2>1 DEF T
<1>7. Len(w) <= Base(i, W)
  <2>1. Base(M, W) + (i - M) <= Base(i, W) BY <1>0, <1>5, BaseOrder
  <2>2. Base(M, W) \in Nat /\ Base(i, W) \in Nat BY <1>0, BaseNext
  <2> QED BY <1>0, <1>5, <2>1, <2>2
<1>8. EventOf(b, w, m) = << >> BY <1>5, <1>7, NoEvent
<1>9. Events(b, w, m) = Events(b, w, i) \o << >> BY <1>5, <1>8, EventsNext
<1>10. Events(b, w, i) \in Seq(Heard(S)) BY EventsType
<1>11. Events(b, w, i) \o << >> = Events(b, w, i) BY <1>10, ConcatEmptySeq
<1> QED BY <1>3, <1>6, <1>9, <1>11

-----------------------------------------------------------------------------
(* The decoder.                                                            *)

(* Fewer than all payloads have been taken from the wire: d is what is     *)
(* left of the first p bytes, and the events since the n-th payload.       *)
Drained(d, b, w, W, S, n, p, m) ==
  /\ m \in Nat /\ Base(m, W) <= p
  /\ Piece(d.rest, w, Base(m, W), p)
  /\ d.events \in Seq(Heard(S))
  /\ Events(b, w, n) \o d.events = Events(b, w, m)

(* A turn takes one payload, if it is there.                               *)
LEMMA CutOne ==
  ASSUME NEW S, NEW b \in Seq(S), NEW w, NEW W, Laid(b, w, W), NEW n \in Nat, NEW p \in Nat,
         p <= Len(w), NEW d, NEW m \in Nat, Drained(d, b, w, W, S, n, p, m)
  PROVE  /\ p < Base(m, W) + W => Cut(b, d) = d
         /\ Base(m, W) + W <= p => Drained(Cut(b, d), b, w, W, S, n, p, m + 1)
<1>0. W \in {4, 6} /\ w \in Seq(Token) /\ Len(w) \in Nat BY LenProperties DEF Laid
<1>1. PICK P \in Nat : P = Base(m, W) BY <1>0, BaseNext
<1>2. PICK s : s = d.rest OBVIOUS
<1>3. P <= p /\ Piece(s, w, P, p) BY <1>1, <1>2 DEF Drained
<1>4. s \in Seq(Token) /\ Len(s) = p - P BY <1>3 DEF Piece
<1>5. LineEnds(s, W) BY <1>1, <1>3, PieceLines
<1>6. ASSUME p < Base(m, W) + W PROVE Cut(b, d) = d
  <2>1. Len(s) < W BY <1>0, <1>1, <1>3, <1>4, <1>6
  <2>2. Boundary(s)[1] = 0 BY <1>0, <1>4, <1>5, <2>1, BoundaryPart
  <2> QED BY <1>2, <2>2 DEF Cut
<1>7. ASSUME Base(m, W) + W <= p PROVE Drained(Cut(b, d), b, w, W, S, n, p, m + 1)
  <2>1. W <= Len(s) BY <1>0, <1>1, <1>3, <1>4, <1>7
  <2>2. Boundary(s) = <<3, W - 2>> BY <1>0, <1>4, <1>5, <2>1, BoundaryWhole
  <2>3. Boundary(s)[1] = 3 /\ Boundary(s)[2] = W - 2 BY <2>2
  <2>4. /\ Boundary(s)[1] # 0 /\ Boundary(s)[1] + Boundary(s)[2] = W + 1
        /\ Boundary(s)[1] - 1 = 2
    BY <1>0, <2>3
  <2>5. Cut(b, d) = [rest |-> SubSeq(s, W + 1, Len(s)), events |-> d.events \o Decode(b, SubSeq(s, 1, 2))]
    BY <1>2, <2>4, Zenon DEF Cut
  <2>6. PICK t : t = SubSeq(s, W + 1, Len(s)) OBVIOUS
  <2>7. PICK q : q = SubSeq(s, 1, 2) OBVIOUS
  <2>8. Piece(t, w, P + W, p)
    <3>1. PICK l \in Nat : l = Len(s) /\ W <= l /\ P + l = p BY <1>0, <1>3, <1>4, <2>1
    <3>2. W \in Nat /\ P + l <= p BY <1>0, <3>1
    <3>3. Piece(SubSeq(s, W + 1, l), w, P + W, P + l) BY <1>3, <3>1, <3>2, PieceLess
    <3> QED BY <2>6, <3>1, <3>3
  <2>9. Piece(q, w, P, P + 2)
    <3>1. 0 \in Nat /\ 2 \in Nat /\ 0 <= 2 /\ P + 2 <= p BY <1>0, <1>1, <1>7
    <3>2. Piece(SubSeq(s, 0 + 1, 2), w, P + 0, P + 2) BY <1>3, <3>1, PieceLess
    <3>3. 0 + 1 = 1 /\ P + 0 = P OBVIOUS
    <3> QED BY <2>7, <3>2, <3>3
  <2>10. Decode(b, q) = EventOf(b, w, m + 1)
    <3>1. PICK r \in Nat : r = P + 2 OBVIOUS
    <3>2. r <= Len(w) /\ P + 1 <= r /\ P + W <= Len(w) BY <1>0, <1>1, <1>7, <3>1
    <3>3. Piece(q, w, Base(m, W), r) BY <1>1, <2>9, <3>1
    <3>4. Base(m, W) + 1 <= r /\ r = Base(m, W) + 2 /\ Base(m, W) + W <= Len(w) BY <1>1, <3>1, <3>2
    <3> QED BY <3>2, <3>3, <3>4, DecodePiece
  <2>11. PICK v : v = EventOf(b, w, m + 1) OBVIOUS
  <2>12. v \in Seq(Heard(S)) BY <2>11, EventType
  <2>13. d.events \in Seq(Heard(S)) /\ Events(b, w, n) \o d.events = Events(b, w, m) BY DEF Drained
  <2>14. d.events \o v \in Seq(Heard(S)) BY <2>12, <2>13, ConcatProperties
  <2>15. Events(b, w, n) \o (d.events \o v) = Events(b, w, m + 1)
    <3>1. Events(b, w, n) \in Seq(Heard(S)) BY EventsType
    <3>2. PICK x \in Seq(Heard(S)) : x = Events(b, w, n) BY <3>1
    <3>3. PICK y \in Seq(Heard(S)) : y = d.events BY <2>13
    <3>4. (x \o y) \o v = x \o (y \o v)
      <4>1. Regroups(x, y, v) BY <2>12, Regroup
      <4> QED BY <4>1 DEF Regroups
    <3>5. Events(b, w, m + 1) = Events(b, w, m) \o v BY <2>11, EventsNext
    <3>6. x \o y = Events(b, w, m) BY <2>13, <3>2, <3>3
    <3> QED BY <3>2, <3>3, <3>4, <3>5, <3>6, Zenon
  <2>16. m + 1 \in Nat /\ Base(m + 1, W) = P + W /\ Base(m + 1, W) <= p
    <3>1. Base(m + 1, W) = Base(m, W) + W BY <1>0, BaseNext
    <3> QED BY <1>1, <1>7, <3>1
  <2>17. Cut(b, d).rest = t /\ Cut(b, d).events = d.events \o v
    <3>1. PICK x : x = d.events \o v OBVIOUS
    <3>2. Cut(b, d) = [rest |-> t, events |-> x] BY <2>5, <2>6, <2>7, <2>10, <2>11, <3>1, Zenon
    <3>3. Cut(b, d).rest = t /\ Cut(b, d).events = x BY <3>2
    <3> QED BY <3>1, <3>3
  <2> QED BY <2>8, <2>14, <2>15, <2>16, <2>17 DEF Drained
<1> QED BY <1>6, <1>7

(* All payloads that are there are taken, in as many turns as drain makes. *)
LEMMA DrainAll ==
  ASSUME NEW S, NEW b \in Seq(S), NEW w, NEW W, Laid(b, w, W), NEW n \in Nat, NEW p \in Nat,
         p <= Len(w), Base(n, W) <= p, NEW s, Piece(s, w, Base(n, W), p)
  PROVE  \E m \in Nat : Drained(Drain(b, s), b, w, W, S, n, p, m) /\ p < Base(m, W) + W
<1>0. W \in {4, 6} /\ w \in Seq(Token) /\ Len(w) \in Nat /\ Base(n, W) \in Nat
  BY LenProperties, BaseNext DEF Laid
<1>1. PICK l \in Nat : l = Len(s) /\ Base(n, W) + l = p
  <2>1. Len(s) = p - Base(n, W) BY DEF Piece
  <2> QED BY <1>0, <2>1
<1>2. PICK z : z = [rest |-> s, events |-> << >>] OBVIOUS
<1>3. PICK f : Looped(f, "drain", b, << >>, z, l) /\ Drain(b, s) = f[l] BY <1>1, <1>2, DrainLoops
<1> DEFINE Good(i) == \E m \in Nat : /\ Drained(f[i], b, w, W, S, n, p, m)
                                     /\ m = n + i \/ p < Base(m, W) + W
           T == {i \in 0 .. l : ~Good(i)}
<1>4. T = {}
  <2> SUFFICES ASSUME T # {} PROVE FALSE OBVIOUS
  <2> HIDE DEF T
  <2>1. T \subseteq Nat BY DEF T
  <2>2. PICK i \in T : \A k \in T : i <= k BY <2>1, LeastElement
  <2>3. i \in Nat /\ i \in 0 .. l /\ ~Good(i) BY <2>1 DEF T
  <2>4. f[i] = IF i = 0 THEN z ELSE Turn("drain", b, << >>, f[i - 1], i) BY <1>3, <2>3 DEF Looped
  <2>5. CASE i = 0
    <3>1. f[i] = z /\ z.rest = s /\ z.events = << >> BY <1>2, <2>4, <2>5
    <3>2. Events(b, w, n) \in Seq(Heard(S)) BY EventsType
    <3>3. Events(b, w, n) \o << >> = Events(b, w, n) BY <3>2, ConcatEmptySeq
    <3>4. << >> \in Seq(Heard(S)) OBVIOUS
    <3>5. Drained(f[i], b, w, W, S, n, p, n) BY <3>1, <3>3, <3>4 DEF Drained
    <3>6. n = n + i BY <2>5
    <3> QED BY <2>3, <3>5, <3>6
  <2>6. CASE i # 0
    <3>1. PICK j \in Nat : i = j + 1
      <4>1. i - 1 \in Nat /\ i = (i - 1) + 1 BY <2>3, <2>6
      <4> QED BY <4>1
    <3>2. Good(j)
      <4>1. j \in 0 .. l /\ j \notin T BY <2>2, <2>3, <3>1
      <4> QED BY <4>1 DEF T
    <3>3. PICK m \in Nat : Drained(f[j], b, w, W, S, n, p, m) /\ (m = n + j \/ p < Base(m, W) + W)
      BY <3>2
    <3>4. i - 1 = j BY <3>1
    <3>5. f[i] = Cut(b, f[j]) BY <2>4, <2>6, <3>4 DEF Turn
    <3>6. /\ p < Base(m, W) + W => Cut(b, f[j]) = f[j]
          /\ Base(m, W) + W <= p => Drained(Cut(b, f[j]), b, w, W, S, n, p, m + 1)
      BY <3>3, CutOne
    <3>7. CASE p < Base(m, W) + W
      <4>1. Drained(f[i], b, w, W, S, n, p, m) BY <3>3, <3>5, <3>6, <3>7
      <4> QED BY <2>3, <3>7, <4>1
    <3>8. CASE ~(p < Base(m, W) + W)
      <4>1. Base(m, W) \in Nat BY <1>0, BaseNext
      <4>2. Base(m, W) + W <= p BY <1>0, <3>8, <4>1
      <4>3. Drained(f[i], b, w, W, S, n, p, m + 1) BY <3>5, <3>6, <4>2
      <4>4. m + 1 \in Nat /\ m + 1 = n + i BY <3>1, <3>3, <3>8
      <4> QED BY <2>3, <4>3, <4>4
    <3> QED BY <3>7, <3>8
  <2> QED BY <2>5, <2>6
<1>5. l \in 0 .. l OBVIOUS
<1>6. PICK m \in Nat : Drained(f[l], b, w, W, S, n, p, m) /\ (m = n + l \/ p < Base(m, W) + W)
  BY <1>4, <1>5
<1>7. p < Base(m, W) + W
  <2> SUFFICES ASSUME m = n + l PROVE p < Base(m, W) + W BY <1>6
  <2>1. n <= m /\ m - n = l OBVIOUS
  <2>2. Base(n, W) + (m - n) <= Base(m, W) BY <1>0, <2>1, BaseOrder
  <2>3. Base(m, W) \in Nat BY <1>0, BaseNext
  <2> QED BY <1>0, <1>1, <2>1, <2>2, <2>3
<1> QED BY <1>3, <1>6, <1>7

(* The events of the first payloads come first.                            *)
Continues(E, x, S) == \E v \in Seq(Heard(S)) : E = x \o v

(* What is read further on only adds events.                               *)
LEMMA EventsFirst ==
  ASSUME NEW S, NEW b \in Seq(S), NEW w, NEW W, Laid(b, w, W), NEW n \in Nat, NEW N \in Nat, n <= N
  PROVE  Continues(Events(b, w, N), Events(b, w, n), S)
<1> DEFINE After(m) == \E v \in Seq(Heard(S)) : Events(b, w, m) = Events(b, w, n) \o v
           T == {m \in Nat : n <= m /\ ~After(m)}
<1> SUFFICES ASSUME T # {} PROVE FALSE BY DEF Continues
<1> HIDE DEF T
<1>1. T \subseteq Nat BY DEF T
<1>2. PICK m \in T : \A k \in T : m <= k BY <1>1, LeastElement
<1>3. m \in Nat /\ n <= m /\ ~After(m) BY DEF T
<1>4. PICK x \in Seq(Heard(S)) : x = Events(b, w, n) BY EventsType
<1>5. CASE m = n
  <2>1. x \o << >> = x /\ << >> \in Seq(Heard(S)) BY ConcatEmptySeq
  <2> QED BY <1>3, <1>4, <1>5, <2>1
<1>6. CASE m # n
  <2>1. PICK i \in Nat : m = i + 1 /\ n <= i
    <3>1. m - 1 \in Nat /\ m = (m - 1) + 1 /\ n <= m - 1 BY <1>3, <1>6
    <3> QED BY <3>1
  <2>2. After(i)
    <3>1. i \notin T BY <1>2, <1>3, <2>1
    <3> QED BY <2>1, <3>1 DEF T
  <2>3. PICK v \in Seq(Heard(S)) : Events(b, w, i) = x \o v BY <1>4, <2>2
  <2>4. PICK u \in Seq(Heard(S)) : u = EventOf(b, w, m) BY <2>1, EventType
  <2>5. Events(b, w, m) = (x \o v) \o u BY <2>1, <2>3, <2>4, EventsNext
  <2>6. (x \o v) \o u = x \o (v \o u)
    <3>1. Regroups(x, v, u) BY Regroup
    <3> QED BY <3>1 DEF Regroups
  <2>7. v \o u \in Seq(Heard(S)) BY ConcatProperties
  <2>8. Events(b, w, m) = x \o (v \o u) BY <2>5, <2>6
  <2> QED BY <1>3, <1>4, <2>7, <2>8
<1> QED BY <1>5, <1>6

(* The payloads of a provider.  The two literals are named since the       *)
(* provers do not know that they are strings.                              *)
Word == STRING \cup {Absent, "end"}
Payload ==
  [k : {"text"}, v : Word] \cup [k : {"comment", "done"}] \cup [k : {"finish"}, reason : Word]
    \cup [k : {"call"}, index : Indices, id : Word, name : Word, args : Seq(Word)]

ResponseConstants == Bodies \subseteq Seq(Payload) /\ MaxChunk \in Nat

(* The first n payloads are parsed, the buffer holds part of the next.     *)
Reading(W, n) ==
  /\ Laid(body, wire, W) /\ n \in Nat /\ pos \in Nat /\ pos <= Len(wire)
  /\ Base(n, W) <= pos /\ pos < Base(n, W) + W
  /\ Piece(buffer, wire, Base(n, W), pos)
  /\ st = Feed(Start, Events(body, wire, n))

(* The verdict is that of everything delivered.                            *)
Settled ==
  verdict \in {"answer", "tools", "failed"} => st = Feed(Start, Delivered) /\ verdict = Verdict(st)

(* How a response is read if all its lines end alike.                      *)
Parsed ==
  /\ body \in Seq(Payload) /\ \E W : Laid(body, wire, W)
  /\ verdict = "open" => \E W, n : Reading(W, n)
  /\ Settled

(* At first nothing is read.                                               *)
LEMMA ParsedInit == ResponseConstants /\ Init /\ OneStyle => Parsed
<1> SUFFICES ASSUME ResponseConstants, Init, OneStyle PROVE Parsed OBVIOUS
<1>1. body \in Seq(Payload) BY DEF ResponseConstants, Init
<1>2. PICK W : Laid(body, wire, W)
  <2>1. PICK crlf \in BOOLEAN : wire \in Cuts(Encode(body, [n \in 1 .. Len(body) |-> crlf]))
    BY DEF OneStyle
  <2> QED BY <1>1, <2>1, WireLaid
<1>3. W \in {4, 6} /\ Len(wire) \in Nat BY <1>2, LenProperties DEF Laid
<1>4. Base(0, W) = 0 BY <1>3, BaseNext
<1>5. pos = 0 /\ buffer = << >> /\ st = Start /\ verdict = "open" BY DEF Init
<1>6. Piece(buffer, wire, 0, 0)
  <2>1. << >> \in Seq(Token) /\ Len(<< >>) = 0 - 0 /\ 1 .. 0 - 0 = {} OBVIOUS
  <2> QED BY <1>5, <2>1 DEF Piece
<1>7. Feed(Start, Events(body, wire, 0)) = Start
  <2>1. Events(body, wire, 0) = << >> BY EventsNext
  <2> QED BY <2>1, FeedNothing
<1>8. Reading(W, 0)
  <2>1. pos \in Nat /\ pos <= Len(wire) /\ Base(0, W) <= pos /\ pos < Base(0, W) + W
    BY <1>3, <1>4, <1>5
  <2>2. Piece(buffer, wire, Base(0, W), pos) BY <1>4, <1>5, <1>6
  <2>3. st = Feed(Start, Events(body, wire, 0)) BY <1>5, <1>7
  <2> QED BY <1>2, <2>1, <2>2, <2>3 DEF Reading
<1>9. Settled BY <1>5 DEF Settled
<1> QED BY <1>1, <1>2, <1>8, <1>9 DEF Parsed

(* A chunk is taken apart wherever it was cut.                             *)
LEMMA ParsedReceive ==
  ASSUME Parsed, NEW k \in Nat, Receive(k)
  PROVE  Parsed'
<1>1. PICK W, n : Reading(W, n) BY DEF Parsed, Receive
<1>2. body' = body /\ wire' = wire /\ verdict = "open" /\ pos' = pos + k /\ pos + k <= Len(wire)
  BY DEF Receive
<1>3. body \in Seq(Payload) /\ Laid(body, wire, W) /\ n \in Nat /\ pos \in Nat BY <1>1 DEF Parsed, Reading
<1>4. CASE Len(buffer) + k > MaxBuffer
  <2>1. verdict' = "overflow" BY <1>4 DEF Receive
  <2>2. Settled' BY <2>1 DEF Settled
  <2>3. Laid(body', wire', W) BY <1>2, <1>3
  <2> QED BY <1>2, <1>3, <2>1, <2>2, <2>3 DEF Parsed
<1>5. CASE ~(Len(buffer) + k > MaxBuffer)
  <2>1. PICK s : s = buffer \o SubSeq(wire, pos + 1, pos + k) OBVIOUS
  <2>2. PICK d : d = Drain(body, s) OBVIOUS
  <2>3. buffer' = d.rest /\ st' = Feed(st, d.events) /\ verdict' = verdict
    BY <1>5, <2>1, <2>2 DEF Receive
  <2>4. W \in {4, 6} /\ wire \in Seq(Token) /\ Base(n, W) \in Nat BY <1>3, BaseNext DEF Laid
  <2>5. PICK P \in Nat : P = Base(n, W) /\ P <= pos /\ Piece(buffer, wire, P, pos)
    BY <1>1, <2>4 DEF Reading
  <2>6. PICK p \in Nat : p = pos + k /\ p <= Len(wire) /\ P <= p BY <1>2, <1>3, <2>5
  <2>7. Piece(s, wire, P, p)
    <3>1. Piece(buffer \o SubSeq(wire, pos + 1, pos + k), wire, P, pos + k)
      BY <1>2, <1>3, <2>4, <2>5, PieceMore
    <3> QED BY <2>1, <2>6, <3>1
  <2>8. PICK m \in Nat : Drained(d, body, wire, W, Payload, n, p, m) /\ p < Base(m, W) + W
    <3>1. Base(n, W) <= p /\ Piece(s, wire, Base(n, W), p) BY <2>5, <2>6, <2>7
    <3> QED BY <1>3, <2>2, <2>6, <3>1, DrainAll
  <2>9. /\ Base(m, W) <= p /\ Piece(d.rest, wire, Base(m, W), p)
        /\ d.events \in Seq(Heard(Payload))
        /\ Events(body, wire, n) \o d.events = Events(body, wire, m)
    BY <2>8 DEF Drained
  <2>10. st' = Feed(Start, Events(body, wire, m))
    <3>1. PICK x \in Seq(Heard(Payload)) : x = Events(body, wire, n) BY <1>3, EventsType
    <3>2. PICK y \in Seq(Heard(Payload)) : y = d.events BY <2>9
    <3>3. st = Feed(Start, x) BY <1>1, <3>1 DEF Reading
    <3>4. Feed(Start, x \o y) = Feed(Feed(Start, x), y) BY FeedParts
    <3>5. x \o y = Events(body, wire, m) BY <2>9, <3>1, <3>2
    <3> QED BY <2>3, <3>2, <3>3, <3>4, <3>5
  <2>11. Reading(W, m)'
    <3>1. pos' = p BY <1>2, <2>6
    <3>2. pos' \in Nat /\ pos' <= Len(wire') /\ Base(m, W) <= pos' /\ pos' < Base(m, W) + W
      BY <1>2, <2>6, <2>8, <2>9, <3>1
    <3>3. Piece(buffer', wire', Base(m, W), pos') BY <1>2, <2>3, <2>9, <3>1
    <3>4. Laid(body', wire', W) /\ st' = Feed(Start, Events(body', wire', m)) BY <1>2, <1>3, <2>10
    <3> QED BY <3>2, <3>3, <3>4 DEF Reading
  <2>12. Settled' BY <1>2, <2>3 DEF Settled
  <2>13. body' \in Seq(Payload) /\ Laid(body', wire', W) BY <1>2, <1>3
  <2> QED BY <2>11, <2>12, <2>13 DEF Parsed
<1> QED BY <1>4, <1>5

(* A stream closed with everything delivered fed.                          *)
LEMMA Closing ==
  ASSUME Parsed, Finish, NEW W, Laid(body, wire, W), st' = Feed(Start, Events(body, wire, Len(body)))
  PROVE  Parsed'
<1>1. body' = body /\ wire' = wire /\ verdict' = Verdict(st') BY DEF Finish
<1>2. Delivered' = Events(body, wire, Len(body)) BY <1>1 DEF Delivered
<1>3. Settled' BY <1>1, <1>2 DEF Settled
<1>4. verdict' # "open"
  <2>1. Verdict(st') \in {"failed", "answer", "tools"} BY Zenon DEF Verdict
  <2> QED BY <1>1, <2>1
<1>5. body' \in Seq(Payload) /\ Laid(body', wire', W) BY <1>1 DEF Parsed
<1> QED BY <1>3, <1>4, <1>5 DEF Parsed

(* When the stream is over, everything delivered has been fed, or an event *)
(* before was refused.                                                     *)
LEMMA ParsedFinish ==
  ASSUME Parsed, Finish
  PROVE  Parsed'
<1>1. PICK W, n : Reading(W, n) BY DEF Parsed, Finish
<1>2. body' = body /\ wire' = wire /\ verdict' = Verdict(st') /\ (pos = Len(wire) \/ st.failed)
  BY DEF Finish
<1>3. body \in Seq(Payload) /\ Laid(body, wire, W) /\ n \in Nat /\ pos \in Nat BY <1>1 DEF Parsed, Reading
<1>4. W \in {4, 6} /\ wire \in Seq(Token) /\ Len(wire) \in Nat /\ Len(body) \in Nat /\ Base(n, W) \in Nat
  BY <1>3, BaseNext, LenProperties DEF Laid
<1>5. /\ pos <= Len(wire) /\ Base(n, W) <= pos /\ pos < Base(n, W) + W
      /\ Piece(buffer, wire, Base(n, W), pos) /\ st = Feed(Start, Events(body, wire, n))
  BY <1>1 DEF Reading
<1>6. n <= Len(body)
  <2> SUFFICES ASSUME Len(body) < n PROVE FALSE BY <1>3, <1>4
  <2>0. Len(body) \in Nat /\ n \in Nat /\ Len(body) <= n /\ W \in {4, 6} BY <1>3, <1>4
  <2>1. Base(Len(body), W) + (n - Len(body)) <= Base(n, W) BY <2>0, BaseOrder
  <2>2. Base(Len(body), W) \in Nat /\ Len(wire) <= Base(Len(body), W) BY <1>3, <1>4, BaseNext DEF Laid
  <2> QED BY <1>3, <1>4, <1>5, <2>1, <2>2
<1>7. PICK E : E = Events(body, wire, Len(body)) OBVIOUS
<1>8. PICK x \in Seq(Heard(Payload)) : x = Events(body, wire, n) BY <1>3, EventsType
<1>9. CASE st.failed
  <2>1. st' = st BY <1>9 DEF Finish
  <2>2. PICK v \in Seq(Heard(Payload)) : E = x \o v
    <3>1. Continues(Events(body, wire, Len(body)), Events(body, wire, n), Payload)
      BY <1>3, <1>4, <1>6, EventsFirst
    <3> QED BY <1>7, <1>8, <3>1 DEF Continues
  <2>3. Feed(Start, x \o v) = Feed(Feed(Start, x), v) BY FeedParts
  <2>4. Feed(st, v) = st BY <1>9, FeedFailed
  <2>5. Feed(Start, E) = st BY <1>5, <1>8, <2>2, <2>3, <2>4
  <2> QED BY <1>2, <1>3, <2>1, <2>5, <1>7, Closing
<1>10. CASE ~st.failed
  <2>1. pos = Len(wire) BY <1>2, <1>10
  <2>2. CASE buffer = << >>
    <3>1. st' = st BY <2>2 DEF Finish
    <3>2. Len(wire) <= Base(n, W)
      <4>1. Len(buffer) = pos - Base(n, W) BY <1>5 DEF Piece
      <4>2. Len(buffer) = 0 BY <2>2
      <4> QED BY <1>3, <1>4, <2>1, <4>1, <4>2
    <3>3. E = Events(body, wire, n) BY <1>3, <1>4, <1>6, <1>7, <3>2, EventsEnd
    <3>4. st' = Feed(Start, E) BY <1>5, <3>1, <3>3
    <3> QED BY <1>2, <1>3, <1>7, <3>4, Closing
  <2>3. CASE buffer # << >>
    <3>1. st' = Feed(st, Decode(body, buffer)) BY <1>10, <2>3 DEF Finish
    <3>2. Base(n, W) + 1 <= pos
      <4>1. buffer \in Seq(Token) /\ Len(buffer) = pos - Base(n, W) BY <1>5 DEF Piece
      <4>2. Len(buffer) # 0 BY <2>3, <4>1
      <4> QED BY <1>3, <1>4, <1>5, <4>1, <4>2
    <3>3. Decode(body, buffer) = EventOf(body, wire, n + 1)
      BY <1>3, <1>5, <2>1, <3>2, DecodePiece
    <3>4. PICK m \in Nat : m = n + 1 /\ m <= Len(body)
      <4>1. Base(n, W) < Len(wire) BY <1>3, <1>4, <2>1, <3>2
      <4>2. n + 1 \in 1 .. Len(body) BY <1>3, <4>1, PayloadThere
      <4> QED BY <1>3, <1>4, <4>2
    <3>5. PICK v \in Seq(Heard(Payload)) : v = EventOf(body, wire, n + 1) BY <1>3, EventType
    <3>6. Events(body, wire, m) = x \o v BY <1>3, <1>8, <3>4, <3>5, EventsNext
    <3>7. Len(wire) <= Base(m, W)
      <4>1. Base(n + 1, W) = Base(n, W) + W BY <1>3, <1>4, BaseNext
      <4> QED BY <1>3, <1>4, <1>5, <2>1, <3>4, <4>1
    <3>8. E = Events(body, wire, m) BY <1>3, <1>4, <1>7, <3>4, <3>7, EventsEnd
    <3>9. Feed(Start, x \o v) = Feed(Feed(Start, x), v) BY FeedParts
    <3>10. st' = Feed(Start, E) BY <1>5, <1>8, <3>1, <3>3, <3>5, <3>6, <3>8, <3>9
    <3> QED BY <1>2, <1>3, <1>7, <3>10, Closing
  <2> QED BY <2>2, <2>3
<1> QED BY <1>9, <1>10

(* Every step keeps the stream parsed.                                     *)
LEMMA ParsedStep == ResponseConstants /\ Parsed /\ [Next]_vars => Parsed'
<1> SUFFICES ASSUME ResponseConstants, Parsed, [Next]_vars PROVE Parsed' OBVIOUS
<1>1. CASE \E k \in 1 .. MaxChunk : Receive(k)
  <2>1. PICK k \in 1 .. MaxChunk : Receive(k) BY <1>1
  <2>2. k \in Nat BY DEF ResponseConstants
  <2> QED BY <2>1, <2>2, ParsedReceive
<1>2. CASE Finish BY <1>2, ParsedFinish
<1>3. CASE Cancel
  <2>1. body' = body /\ wire' = wire /\ verdict' = "cancelled" BY <1>3 DEF Cancel
  <2>2. Settled' BY <2>1 DEF Settled
  <2>3. PICK W : Laid(body, wire, W) BY DEF Parsed
  <2>4. body' \in Seq(Payload) /\ Laid(body', wire', W) BY <2>1, <2>3 DEF Parsed
  <2> QED BY <2>1, <2>2, <2>4 DEF Parsed
<1>5. CASE Disconnect
  <2>1. body' = body /\ wire' = wire /\ verdict' = "disconnected" BY <1>5 DEF Disconnect
  <2>2. Settled' BY <2>1 DEF Settled
  <2>3. PICK W : Laid(body, wire, W) BY DEF Parsed
  <2>4. body' \in Seq(Payload) /\ Laid(body', wire', W) BY <2>1, <2>3 DEF Parsed
  <2> QED BY <2>1, <2>2, <2>4 DEF Parsed
<1>4. CASE UNCHANGED vars
  <2>1. /\ body' = body /\ wire' = wire /\ pos' = pos /\ buffer' = buffer
        /\ st' = st /\ verdict' = verdict
    BY <1>4 DEF vars
  <2>2. Settled' BY <2>1 DEF Parsed, Settled, Delivered
  <2>3. ASSUME NEW W, NEW n, Reading(W, n) PROVE Reading(W, n)' BY <2>1, <2>3 DEF Reading
  <2>4. (\E W, n : Reading(W, n)) => (\E W, n : Reading(W, n))' BY <2>3
  <2> QED BY <2>1, <2>2, <2>4 DEF Parsed
<1> QED BY <1>1, <1>2, <1>3, <1>4, <1>5 DEF Next

(* No step changes what was sent.                                          *)
LEMMA StyleStays == [Next]_vars /\ OneStyle' => OneStyle
<1> SUFFICES ASSUME [Next]_vars, OneStyle' PROVE OneStyle OBVIOUS
<1>1. body' = body /\ wire' = wire
  BY DEF Next, Receive, Finish, Disconnect, Cancel, vars
<1> QED BY <1>1 DEF OneStyle

(* However the bytes of a response are cut into chunks, the verdict is     *)
(* that of reading the whole, provided that its line ends are of one       *)
(* style: SseDecoder::push finds every boundary, takes no event twice and  *)
(* leaves none behind.                                                     *)
THEOREM ChunksDoNotShow == ResponseConstants => (Spec => [](OneStyle => ChunkingInvisible))
<1> SUFFICES ASSUME ResponseConstants PROVE Spec => [](OneStyle => ChunkingInvisible) OBVIOUS
<1>1. Init => (OneStyle => Parsed) BY ParsedInit
<1>2. (OneStyle => Parsed) /\ [Next]_vars => (OneStyle => Parsed)' BY ParsedStep, StyleStays
<1>3. Parsed => ChunkingInvisible BY DEF Parsed, Settled, ChunkingInvisible
<1> QED BY <1>1, <1>2, <1>3, PTL DEF Spec

-----------------------------------------------------------------------------
(* Sums.                                                                   *)

(* One number more.                                                        *)
LEMMA TotalGrow ==
  ASSUME NEW y, Len(y) \in Nat, NEW x, Len(x) = Len(y) + 1, \A i \in 1 .. Len(y) : x[i] = y[i]
  PROVE  Total(x) = Total(y) + x[Len(y) + 1]
<1>1. PICK N \in Nat : N = Len(y) OBVIOUS
<1>2. PICK M \in Nat : M = N + 1 OBVIOUS
<1>3. Len(x) = M /\ Len(x) \in Nat BY <1>1, <1>2
<1>4. PICK f : Looped(f, "total", 0, x, 0, M) /\ Total(x) = f[M] BY <1>3, TotalLoops
<1>5. PICK g : Looped(g, "total", 0, y, 0, N) /\ Total(y) = g[N] BY <1>1, TotalLoops
<1>6. f[0] = 0 /\ f[M] = Turn("total", 0, x, f[N], M)
  <2>1. 0 \in 0 .. M /\ M \in 0 .. M /\ M # 0 /\ M - 1 = N BY <1>2
  <2> QED BY <1>4, <2>1 DEF Looped
<1>7. f[N] = g[N]
  <2>1. \A i \in 1 .. N : x[0 + i] = y[i]
    <3>1. \A i \in 1 .. N : x[i] = y[i] /\ 0 + i = i BY <1>1
    <3> QED BY <3>1
  <2>2. SameTurns("total", 0, x, 0, y, 0, N) BY <2>1 DEF SameTurns, Turn
  <2>3. 0 + N <= M /\ 0 \in Nat BY <1>2
  <2>4. Looped(g, "total", 0, y, f[0], N) BY <1>5, <1>6
  <2>5. SameValues(f, g, 0, N) BY <1>4, <2>2, <2>3, <2>4, LoopShift
  <2>6. N \in 0 .. N /\ 0 + N = N OBVIOUS
  <2> QED BY <2>5, <2>6 DEF SameValues
<1>8. Turn("total", 0, x, f[N], M) = f[N] + x[M] BY DEF Turn
<1> QED BY <1>1, <1>2, <1>4, <1>5, <1>6, <1>7, <1>8

(* One number larger by d, the others the same.                            *)
LEMMA TotalBump ==
  ASSUME NEW y \in Seq(Nat), NEW x \in Seq(Nat), Len(x) = Len(y), NEW n \in 1 .. Len(y), NEW d \in Nat,
         x[n] = y[n] + d, \A i \in 1 .. Len(y) : i # n => x[i] = y[i]
  PROVE  Total(x) = Total(y) + d /\ Total(y) \in Nat
<1>1. PICK N \in Nat : N = Len(y) /\ N = Len(x) BY LenProperties
<1>2. PICK f : Looped(f, "total", 0, x, 0, N) /\ Total(x) = f[N] BY <1>1, TotalLoops
<1>3. PICK g : Looped(g, "total", 0, y, 0, N) /\ Total(y) = g[N] BY <1>1, TotalLoops
<1> DEFINE Good(i) == g[i] \in Nat /\ f[i] = g[i] + (IF i >= n THEN d ELSE 0)
           T == {i \in 0 .. N : ~Good(i)}
<1>4. T = {}
  <2> SUFFICES ASSUME T # {} PROVE FALSE OBVIOUS
  <2> HIDE DEF T
  <2>1. T \subseteq Nat BY DEF T
  <2>2. PICK i \in T : \A k \in T : i <= k BY <2>1, LeastElement
  <2>3. i \in Nat /\ i \in 0 .. N /\ ~Good(i) BY <2>1 DEF T
  <2>4. /\ f[i] = IF i = 0 THEN 0 ELSE Turn("total", 0, x, f[i - 1], i)
        /\ g[i] = IF i = 0 THEN 0 ELSE Turn("total", 0, y, g[i - 1], i)
    BY <1>2, <1>3, <2>3 DEF Looped
  <2>5. CASE i = 0
    <3>1. f[i] = 0 /\ g[i] = 0 BY <2>4, <2>5
    <3>2. ~(i >= n) BY <1>1, <2>5
    <3> QED BY <2>3, <3>1, <3>2
  <2>6. CASE i # 0
    <3>1. PICK j \in Nat : i - 1 = j /\ j < i BY <2>3, <2>6
    <3>2. Good(j)
      <4>1. j \in 0 .. N /\ j \notin T BY <2>2, <2>3, <3>1
      <4> QED BY <4>1 DEF T
    <3>3. f[i] = f[j] + x[i] /\ g[i] = g[j] + y[i] BY <2>4, <2>6, <3>1 DEF Turn
    <3>4. i \in 1 .. Len(y) BY <1>1, <2>3, <2>6
    <3>5. y[i] \in Nat BY <3>4, ElementOfSeq
    <3>6. x[i] = y[i] + (IF i = n THEN d ELSE 0)
      <4>1. CASE i = n BY <4>1
      <4>2. CASE i # n BY <3>4, <3>5, <4>2
      <4> QED BY <4>1, <4>2
    <3>7. g[i] \in Nat
      <4>1. g[j] \in Nat /\ g[i] = g[j] + y[i] BY <3>2, <3>3
      <4>2. PICK a \in Nat, c \in Nat : a = g[j] /\ c = y[i] BY <3>5, <4>1
      <4>3. g[i] = a + c BY <4>1, <4>2
      <4>4. a + c \in Nat OBVIOUS
      <4> QED BY <4>3, <4>4, Zenon
    <3>8. f[i] = g[i] + (IF i >= n THEN d ELSE 0)
      <4>1. PICK a \in Nat, c \in Nat : a = g[j] /\ c = y[i] BY <3>2, <3>5
      <4>2. f[j] = a + (IF j >= n THEN d ELSE 0) BY <3>2, <4>1
      <4>3. x[i] = c + (IF i = n THEN d ELSE 0) BY <3>6, <4>1
      <4>4. f[i] = (a + (IF j >= n THEN d ELSE 0)) + (c + (IF i = n THEN d ELSE 0))
        BY <3>3, <4>2, <4>3
      <4>5. i = j + 1 /\ n \in Nat BY <1>1, <2>3, <3>1
      <4>6. g[i] = a + c BY <3>3, <4>1
      <4>7. (a + (IF j >= n THEN d ELSE 0)) + (c + (IF i = n THEN d ELSE 0))
              = (a + c) + (IF i >= n THEN d ELSE 0)
        BY <4>5
      <4> QED BY <4>4, <4>6, <4>7
    <3> QED BY <2>3, <3>7, <3>8
  <2> QED BY <2>5, <2>6
<1>5. N \in 0 .. N /\ N >= n BY <1>1
<1>6. Good(N) BY <1>4, <1>5
<1> QED BY <1>2, <1>3, <1>5, <1>6

(* What the runner collects.                                               *)
Call == [id : Word, name : Word, args : Seq(Word)]
State ==
  [ids : [Indices -> [id : Word, name : Word]], completed : BOOLEAN, failed : BOOLEAN,
   text : Seq(Word), calls : Seq(Call), completions : Nat, stop : Word, round : Nat]

Lengths(calls) == [n \in 1 .. Len(calls) |-> Len(calls[n].args)]

(* The lengths of the arguments of the calls.                              *)
LEMMA LengthsType ==
  ASSUME NEW calls \in Seq(Call)
  PROVE  /\ Lengths(calls) \in Seq(Nat) /\ Len(Lengths(calls)) = Len(calls)
         /\ \A n \in 1 .. Len(calls) : Lengths(calls)[n] = Len(calls[n].args)
<1>1. PICK N \in Nat : N = Len(calls) BY LenProperties
<1>2. \A n \in 1 .. N : Len(calls[n].args) \in Nat
  <2> SUFFICES ASSUME NEW n \in 1 .. N PROVE Len(calls[n].args) \in Nat OBVIOUS
  <2>1. calls[n] \in Call BY <1>1, ElementOfSeq
  <2>2. calls[n].args \in Seq(Word) BY <2>1 DEF Call
  <2> QED BY <2>2, LenProperties
<1>3. PICK y : y = Lengths(calls) OBVIOUS
<1>4. y = [n \in 1 .. N |-> Len(calls[n].args)] BY <1>1, <1>3 DEF Lengths
<1>5. y \in [1 .. N -> Nat] BY <1>2, <1>4
<1>6. y \in Seq(Nat) /\ Len(y) = N BY <1>5
<1>7. \A n \in 1 .. N : y[n] = Len(calls[n].args) BY <1>4
<1> QED BY <1>1, <1>3, <1>6, <1>7

(* A call without arguments adds none.                                     *)
LEMMA KeptOpened ==
  ASSUME NEW calls \in Seq(Call), NEW c \in Call, c.args = << >>, Kept(calls) \in Nat
  PROVE  Kept(Append(calls, c)) = Kept(calls)
<1>1. PICK N \in Nat : N = Len(calls) BY LenProperties
<1>2. PICK more : more = Append(calls, c) OBVIOUS
<1>3. /\ more \in Seq(Call) /\ Len(more) = N + 1 /\ more[N + 1] = c
      /\ \A i \in 1 .. N : more[i] = calls[i]
  BY <1>1, <1>2, AppendProperties
<1>4. PICK y : y = Lengths(calls) OBVIOUS
<1>5. PICK x : x = Lengths(more) OBVIOUS
<1>6. Len(y) = N /\ \A n \in 1 .. N : y[n] = Len(calls[n].args) BY <1>1, <1>4, LengthsType
<1>7. Len(x) = N + 1 /\ \A n \in 1 .. N + 1 : x[n] = Len(more[n].args) BY <1>3, <1>5, LengthsType
<1>8. \A i \in 1 .. Len(y) : x[i] = y[i]
  <2> SUFFICES ASSUME NEW i \in 1 .. N PROVE x[i] = y[i] BY <1>6
  <2>1. i \in 1 .. N + 1 OBVIOUS
  <2> QED BY <1>3, <1>6, <1>7, <2>1
<1>9. x[N + 1] = 0
  <2>1. N + 1 \in 1 .. N + 1 /\ Len(<< >>) = 0 OBVIOUS
  <2> QED BY <1>3, <1>7, <2>1
<1>10. Len(x) = Len(y) + 1 /\ Len(y) \in Nat BY <1>6, <1>7
<1>11. Total(x) = Total(y) + x[Len(y) + 1] BY <1>8, <1>10, TotalGrow
<1>12. Kept(calls) = Total(y) /\ Kept(more) = Total(x) BY <1>4, <1>5 DEF Kept, Lengths
<1> QED BY <1>2, <1>6, <1>9, <1>11, <1>12

(* A call with d arguments more adds d.                                    *)
LEMMA KeptBump ==
  ASSUME NEW calls \in Seq(Call), NEW n \in 1 .. Len(calls), NEW c \in Call, NEW d \in Nat,
         Len(c.args) = Len(calls[n].args) + d
  PROVE  Kept([calls EXCEPT ![n] = c]) = Kept(calls) + d
<1>1. PICK N \in Nat : N = Len(calls) BY LenProperties
<1>2. PICK new : new = [calls EXCEPT ![n] = c] OBVIOUS
<1>3. /\ new \in Seq(Call) /\ Len(new) = N /\ new[n] = c
      /\ \A i \in 1 .. N : i # n => new[i] = calls[i]
  BY <1>1, <1>2, ExceptSeq
<1>4. PICK y : y = Lengths(calls) OBVIOUS
<1>5. PICK x : x = Lengths(new) OBVIOUS
<1>6. y \in Seq(Nat) /\ Len(y) = N /\ \A i \in 1 .. N : y[i] = Len(calls[i].args)
  BY <1>1, <1>4, LengthsType
<1>7. x \in Seq(Nat) /\ Len(x) = N /\ \A i \in 1 .. N : x[i] = Len(new[i].args)
  BY <1>3, <1>5, LengthsType
<1>8. \A i \in 1 .. Len(y) : i # n => x[i] = y[i] BY <1>3, <1>6, <1>7
<1>9. x[n] = y[n] + d BY <1>1, <1>3, <1>6, <1>7
<1>10. n \in 1 .. Len(y) /\ Len(x) = Len(y) BY <1>1, <1>6, <1>7
<1>11. Total(x) = Total(y) + d BY <1>6, <1>7, <1>8, <1>9, <1>10, TotalBump
<1>12. Kept(calls) = Total(y) /\ Kept(new) = Total(x) BY <1>4, <1>5 DEF Kept, Lengths
<1> QED BY <1>2, <1>11, <1>12

-----------------------------------------------------------------------------
(* The calls of a response.                                                *)

(* Every call has an id, of its own.                                       *)
Distinct(calls) ==
  /\ \A n \in 1 .. Len(calls) : calls[n].id # Absent
  /\ \A m, n \in 1 .. Len(calls) : calls[m].id = calls[n].id => m = n

(* r argument fragments are collected.                                     *)
Gathered(s, r) == r \in Nat /\ s.round = r /\ Kept(s.calls) = r

(* The calls of new are those of old, some with a name they did not have.  *)
Keeps(old, new) ==
  /\ Len(old) <= Len(new)
  /\ \A m \in 1 .. Len(old) : new[m].id = old[m].id /\ old[m].name \in {Absent, new[m].name}

(* There is a call with that id, and with that name if one is given.       *)
Announced(calls, id, name) ==
  \E m \in 1 .. Len(calls) : calls[m].id = id /\ name \in {Absent, calls[m].name}

(* The calls with that id, with a new one if there is none.                *)
Opened(calls, id, name) ==
  IF Find(calls, id) # {} THEN calls ELSE Append(calls, [id |-> id, name |-> name, args |-> << >>])

(* Opening a call keeps the others and adds no arguments.                  *)
LEMMA OpenedCalls ==
  ASSUME NEW calls \in Seq(Call), Distinct(calls), Kept(calls) \in Nat,
         NEW id \in Word, id # Absent, NEW name \in Word,
         NEW o, o = Opened(calls, id, name)
  PROVE  /\ o \in Seq(Call) /\ Distinct(o) /\ Kept(o) = Kept(calls) /\ Keeps(calls, o)
         /\ First(Find(o, id)) \in 1 .. Len(o) /\ o[First(Find(o, id))].id = id
         /\ Find(calls, id) = {} => o[First(Find(o, id))].name = name
<1>1. PICK N \in Nat : N = Len(calls) BY LenProperties
<1>2. DOMAIN calls = 1 .. N BY <1>1, LenProperties
<1>3. CASE Find(calls, id) # {}
  <2>1. o = calls BY <1>3 DEF Opened
  <2>2. PICK S : S = Find(calls, id) OBVIOUS
  <2>3. S \subseteq Nat /\ S # {} /\ \A n \in S : n \in 1 .. N /\ calls[n].id = id
    BY <1>2, <1>3, <2>2 DEF Find
  <2>4. PICK m \in S : \A k \in S : m <= k BY <2>3, LeastElement
  <2>5. First(S) = m BY <2>3, <2>4, FirstIs
  <2>6. Keeps(calls, calls) BY <1>1 DEF Keeps
  <2> QED BY <1>1, <1>3, <2>1, <2>2, <2>3, <2>5, <2>6
<1>4. CASE Find(calls, id) = {}
  <2>1. PICK c \in Call : c = [id |-> id, name |-> name, args |-> << >>]
    <3>1. << >> \in Seq(Word) OBVIOUS
    <3> QED BY <3>1 DEF Call
  <2>2. c.id = id /\ c.name = name /\ c.args = << >> BY <2>1
  <2>3. o = Append(calls, c) BY <1>4, <2>1 DEF Opened
  <2>4. /\ o \in Seq(Call) /\ Len(o) = N + 1 /\ o[N + 1] = c
        /\ \A i \in 1 .. N : o[i] = calls[i]
    BY <1>1, <2>3, AppendProperties
  <2>5. Kept(o) = Kept(calls) BY <2>2, <2>3, KeptOpened
  <2>6. ASSUME NEW n \in 1 .. N PROVE calls[n].id # id BY <1>2, <1>4 DEF Find
  <2>7. ASSUME NEW n \in 1 .. N + 1 PROVE n = N + 1 \/ n \in 1 .. N OBVIOUS
  <2>8. Distinct(o)
    <3>1. ASSUME NEW n \in 1 .. N + 1 PROVE o[n].id # Absent
      <4>1. CASE n = N + 1 BY <2>2, <2>4, <4>1
      <4>2. CASE n \in 1 .. N BY <1>1, <2>4, <4>2 DEF Distinct
      <4> QED BY <2>7, <4>1, <4>2
    <3>2. ASSUME NEW m \in 1 .. N + 1, NEW n \in 1 .. N + 1, o[m].id = o[n].id PROVE m = n
      <4>1. CASE m = N + 1 /\ n = N + 1 BY <4>1
      <4>2. CASE m = N + 1 /\ n \in 1 .. N BY <2>2, <2>4, <2>6, <3>2, <4>2
      <4>3. CASE m \in 1 .. N /\ n = N + 1 BY <2>2, <2>4, <2>6, <3>2, <4>3
      <4>4. CASE m \in 1 .. N /\ n \in 1 .. N BY <1>1, <2>4, <3>2, <4>4 DEF Distinct
      <4> QED BY <2>7, <4>1, <4>2, <4>3, <4>4
    <3> QED BY <2>4, <3>1, <3>2 DEF Distinct
  <2>9. Keeps(calls, o) BY <1>1, <2>4 DEF Keeps
  <2>10. PICK S : S = Find(o, id) OBVIOUS
  <2>11. S = {N + 1}
    <3>1. DOMAIN o = 1 .. N + 1 BY <2>4, LenProperties
    <3>2. S = {n \in 1 .. N + 1 : o[n].id = id} BY <2>10, <3>1 DEF Find
    <3>3. N + 1 \in S BY <2>2, <2>4, <3>2
    <3>4. \A n \in S : n = N + 1 BY <2>4, <2>6, <2>7, <3>2
    <3> QED BY <3>3, <3>4
  <2>12. First(S) = N + 1
    <3>1. S \subseteq Nat /\ N + 1 \in S /\ \A n \in S : N + 1 <= n BY <2>11
    <3> QED BY <3>1, FirstIs
  <2>13. N + 1 \in 1 .. Len(o) BY <2>4
  <2> QED BY <2>2, <2>4, <2>5, <2>8, <2>9, <2>10, <2>12, <2>13
<1> QED BY <1>3, <1>4

(* What a fragment leaves as it is.                                        *)
SameEnd(s, t) == t.completed = s.completed /\ t.completions = s.completions

(* A fragment that is not refused is added to the call of its id.          *)
Collected(s, t, id, name, args) ==
  /\ id # Absent /\ t \in State /\ SameEnd(s, t)
  /\ Gathered(t, s.round + Len(args)) /\ Distinct(t.calls)
  /\ Keeps(s.calls, t.calls) /\ Announced(t.calls, id, name)

(* A call after the fragment.                                              *)
Merged(old, id, name, args) ==
  [id |-> id, name |-> IF old.name = Absent THEN name ELSE old.name, args |-> old.args \o args]

(* What the assembler does with a fragment it accepts.                     *)
LEMMA Pushed ==
  ASSUME NEW s \in State, Gathered(s, s.round), Distinct(s.calls),
         NEW id \in Word, NEW name \in Word, NEW args \in Seq(Word),
         NEW t, t = Push(s, id, name, args), t.failed = FALSE
  PROVE  Collected(s, t, id, name, args)
<1>1. PICK o : o = Opened(s.calls, id, name) OBVIOUS
<1>2. PICK n : n = First(Find(o, id)) OBVIOUS
<1>3. PICK bad \in BOOLEAN :
        bad = (\/ id = Absent
               \/ ~(Find(s.calls, id) # {}) /\ Len(s.calls) >= MaxCalls
               \/ name # Absent /\ o[n].name # Absent /\ name # o[n].name
               \/ Len(o[n].args) + Len(args) > MaxArgs
               \/ s.round + Len(args) > MaxRound)
  OBVIOUS
<1>4. t = IF bad THEN Fail(s)
          ELSE [s EXCEPT !.calls = [o EXCEPT ![n] = [id |-> id,
                                       name |-> IF o[n].name = Absent THEN name ELSE o[n].name,
                                       args |-> @.args \o args]],
                         !.round = @ + Len(args)]
  BY <1>1, <1>2, <1>3 DEF Push, Opened
<1>5. ~bad
  <2>1. Fail(s).failed = TRUE BY DEF Fail, State
  <2> QED BY <1>4, <2>1
<1>6. id # Absent /\ (name # Absent /\ o[n].name # Absent => name = o[n].name) BY <1>3, <1>5
<1>7. /\ s.calls \in Seq(Call) /\ s.round \in Nat /\ Kept(s.calls) = s.round /\ Len(args) \in Nat
  BY LenProperties DEF State, Gathered
<1>8. /\ o \in Seq(Call) /\ Distinct(o) /\ Kept(o) = Kept(s.calls) /\ Keeps(s.calls, o)
      /\ n \in 1 .. Len(o) /\ o[n].id = id
  BY <1>1, <1>2, <1>6, <1>7, OpenedCalls
<1>9. PICK N \in Nat : N = Len(o) BY <1>8, LenProperties
<1>10. PICK old \in Call : old = o[n] BY <1>8, ElementOfSeq
<1>11. PICK c : c = Merged(old, id, name, args) OBVIOUS
<1>12. /\ c \in Call /\ c.id = id /\ c.args = old.args \o args
       /\ c.name = IF old.name = Absent THEN name ELSE old.name
  <2>1. old.args \in Seq(Word) /\ old.name \in Word BY DEF Call
  <2>2. PICK x \in Seq(Word) : x = old.args \o args BY <2>1, ConcatProperties
  <2>3. PICK y \in Word : y = IF old.name = Absent THEN name ELSE old.name BY <2>1
  <2>4. c = [id |-> id, name |-> y, args |-> x] BY <1>11, <2>2, <2>3, Zenon DEF Merged
  <2>5. c \in Call /\ c.id = id /\ c.args = x /\ c.name = y BY <2>4 DEF Call
  <2> QED BY <2>2, <2>3, <2>5
<1>13. PICK new : new = [o EXCEPT ![n] = c] OBVIOUS
<1>14. t = [s EXCEPT !.calls = new, !.round = s.round + Len(args)]
  <2>1. t = [s EXCEPT !.calls = [o EXCEPT ![n] = [id |-> id,
                                   name |-> IF o[n].name = Absent THEN name ELSE o[n].name,
                                   args |-> o[n].args \o args]],
                      !.round = s.round + Len(args)]
    BY <1>4, <1>5, <1>7
  <2>2. c = [id |-> id, name |-> IF o[n].name = Absent THEN name ELSE o[n].name,
             args |-> o[n].args \o args]
    BY <1>10, <1>11, Zenon DEF Merged
  <2> QED BY <1>13, <2>1, <2>2, Zenon
<1>15. /\ new \in Seq(Call) /\ Len(new) = N /\ new[n] = c
       /\ \A i \in 1 .. N : i # n => new[i] = o[i]
  BY <1>8, <1>9, <1>12, <1>13, ExceptSeq
<1>16. Kept(new) = Kept(o) + Len(args)
  <2>1. old.args \in Seq(Word) BY DEF Call
  <2>2. Len(old.args \o args) = Len(old.args) + Len(args) BY <2>1, ConcatProperties
  <2>3. Len(c.args) = Len(o[n].args) + Len(args) BY <1>10, <1>12, <2>2
  <2> QED BY <1>7, <1>8, <1>12, <1>13, <2>3, KeptBump
<1>17. \A i \in 1 .. N : new[i].id = o[i].id BY <1>8, <1>12, <1>15
<1>18. Distinct(new) BY <1>8, <1>9, <1>15, <1>17 DEF Distinct
<1>19. Keeps(s.calls, new)
  <2>1. Len(s.calls) \in Nat /\ Len(s.calls) <= N BY <1>7, <1>8, <1>9, LenProperties DEF Keeps
  <2>2. ASSUME NEW m \in 1 .. Len(s.calls)
        PROVE  new[m].id = s.calls[m].id /\ s.calls[m].name \in {Absent, new[m].name}
    <3>1. m \in 1 .. N BY <2>1
    <3>2. o[m].id = s.calls[m].id /\ s.calls[m].name \in {Absent, o[m].name} BY <1>8 DEF Keeps
    <3>3. CASE m = n BY <1>10, <1>12, <1>15, <1>17, <3>1, <3>2, <3>3
    <3>4. CASE m # n BY <1>15, <3>1, <3>2, <3>4
    <3> QED BY <3>3, <3>4
  <2> QED BY <1>15, <2>1, <2>2 DEF Keeps
<1>20. Announced(new, id, name)
  <2>1. n \in 1 .. Len(new) /\ new[n].id = id BY <1>8, <1>9, <1>12, <1>15
  <2>2. name \in {Absent, new[n].name} BY <1>6, <1>10, <1>12, <1>15
  <2> QED BY <2>1, <2>2 DEF Announced
<1>21. s.round + Len(args) \in Nat BY <1>7
<1>22. t \in State /\ t.calls = new /\ t.round = s.round + Len(args) /\ SameEnd(s, t)
  BY <1>14, <1>15, <1>21 DEF State, SameEnd
<1>23. Gathered(t, s.round + Len(args)) BY <1>7, <1>8, <1>16, <1>21, <1>22 DEF Gathered
<1> QED BY <1>6, <1>18, <1>19, <1>20, <1>22, <1>23 DEF Collected

(* A fragment is refused or not.                                           *)
LEMMA PushedOrNot ==
  ASSUME NEW s \in State, NEW id, NEW name, NEW args
  PROVE  Push(s, id, name, args).failed \in BOOLEAN
<1>1. PICK t : t = Push(s, id, name, args) OBVIOUS
<1>2. \E calls, round : t = Fail(s) \/ t = [s EXCEPT !.calls = calls, !.round = round]
  BY <1>1, Zenon DEF Push
<1>3. Fail(s).failed \in BOOLEAN BY DEF Fail, State
<1>4. ASSUME NEW calls, NEW round PROVE [s EXCEPT !.calls = calls, !.round = round].failed \in BOOLEAN
  BY DEF State
<1> QED BY <1>1, <1>2, <1>3, <1>4

-----------------------------------------------------------------------------
(* What was parsed is what was said.                                       *)

(* The end of the response, as far as the first i events say it.           *)
Ended(s, E, i) ==
  /\ s.completed = TRUE <=> s.completions >= 1
  /\ s.completions = 0 => \A j \in 1 .. i : E[j].k # "finish" /\ E[j].k # "done"
  /\ s.completions = 1 =>
       \/ \E n \in 1 .. i : E[n].k = "finish" /\ \A j \in 1 .. i : E[j].k = "finish" => j = n
       \/ (\A j \in 1 .. i : E[j].k # "finish") /\ \E j \in 1 .. i : E[j].k = "done"

(* Every call the first i events speak of is there.                        *)
Named(calls, E, i) ==
  \A j \in 1 .. i : E[j].k = "call" /\ E[j].id # Absent => Announced(calls, E[j].id, E[j].name)

Told(s, E, i, r) ==
  /\ s \in State /\ Gathered(s, r) /\ Distinct(s.calls)
  /\ Ended(s, E, i) /\ Named(s.calls, E, i)

(* A call keeps the name it was announced with.                            *)
LEMMA NamedMore ==
  ASSUME NEW E, NEW i \in Nat, NEW old, NEW new, Len(old) \in Nat, Len(new) \in Nat,
         Named(old, E, i), Keeps(old, new),
         E[i + 1].k = "call" /\ E[i + 1].id # Absent => Announced(new, E[i + 1].id, E[i + 1].name)
  PROVE  Named(new, E, i + 1)
<1>1. ASSUME NEW id, NEW name, Announced(old, id, name) PROVE Announced(new, id, name)
  <2>1. PICK m \in 1 .. Len(old) : old[m].id = id /\ name \in {Absent, old[m].name}
    BY <1>1 DEF Announced
  <2>2. /\ m \in 1 .. Len(new) /\ new[m].id = old[m].id /\ old[m].name \in {Absent, new[m].name}
    BY DEF Keeps
  <2> QED BY <2>1, <2>2 DEF Announced
<1>2. ASSUME NEW j \in 1 .. i + 1, E[j].k = "call", E[j].id # Absent
      PROVE  Announced(new, E[j].id, E[j].name)
  <2>1. CASE j = i + 1 BY <1>2, <2>1
  <2>2. CASE j # i + 1
    <3>1. j \in 1 .. i BY <2>2
    <3>2. Announced(old, E[j].id, E[j].name) BY <1>2, <3>1 DEF Named
    <3> QED BY <1>1, <3>2
  <2> QED BY <2>1, <2>2
<1> QED BY <1>2 DEF Named

(* Other events than finish reasons and [DONE] do not end a response.      *)
LEMMA EndedSame ==
  ASSUME NEW E, NEW i \in Nat, NEW s, NEW t, Ended(s, E, i), SameEnd(s, t),
         E[i + 1].k # "finish", E[i + 1].k # "done"
  PROVE  Ended(t, E, i + 1)
<1>1. \A j \in 1 .. i + 1 : j = i + 1 \/ j \in 1 .. i OBVIOUS
<1>2. \A j \in 1 .. i : j \in 1 .. i + 1 OBVIOUS
<1>3. t.completed = s.completed /\ t.completions = s.completions BY DEF SameEnd
<1>4. t.completed = TRUE <=> t.completions >= 1 BY <1>3 DEF Ended
<1>5. t.completions = 0 => \A j \in 1 .. i + 1 : E[j].k # "finish" /\ E[j].k # "done"
  BY <1>1, <1>3 DEF Ended
<1>6. ASSUME t.completions = 1
      PROVE  \/ \E n \in 1 .. i + 1 : E[n].k = "finish" /\ \A j \in 1 .. i + 1 : E[j].k = "finish" => j = n
             \/ (\A j \in 1 .. i + 1 : E[j].k # "finish") /\ \E j \in 1 .. i + 1 : E[j].k = "done"
  <2>1. CASE \E n \in 1 .. i : E[n].k = "finish" /\ \A j \in 1 .. i : E[j].k = "finish" => j = n
    BY <1>1, <1>2, <2>1
  <2>2. CASE (\A j \in 1 .. i : E[j].k # "finish") /\ \E j \in 1 .. i : E[j].k = "done"
    BY <1>1, <1>2, <2>2
  <2> QED BY <1>3, <1>6, <2>1, <2>2 DEF Ended
<1> QED BY <1>4, <1>5, <1>6 DEF Ended

(* The first of them does.                                                 *)
LEMMA EndedFirst ==
  ASSUME NEW E, NEW i \in Nat, NEW s, NEW t, Ended(s, E, i), s.completions \in Nat,
         E[i + 1].k \in {"finish", "done"}, E[i + 1].k = "done" => s.completed = FALSE,
         t.completed = TRUE, t.completions = s.completions + 1
  PROVE  Ended(t, E, i + 1)
<1>1. \A j \in 1 .. i + 1 : j = i + 1 \/ j \in 1 .. i OBVIOUS
<1>2. i + 1 \in 1 .. i + 1 OBVIOUS
<1>3. t.completed = TRUE <=> t.completions >= 1 OBVIOUS
<1>4. t.completions # 0 OBVIOUS
<1>5. ASSUME t.completions = 1
      PROVE  \/ \E n \in 1 .. i + 1 : E[n].k = "finish" /\ \A j \in 1 .. i + 1 : E[j].k = "finish" => j = n
             \/ (\A j \in 1 .. i + 1 : E[j].k # "finish") /\ \E j \in 1 .. i + 1 : E[j].k = "done"
  <2>1. s.completions = 0 BY <1>5
  <2>2. \A j \in 1 .. i : E[j].k # "finish" /\ E[j].k # "done" BY <2>1 DEF Ended
  <2>3. CASE E[i + 1].k = "finish" BY <1>1, <1>2, <2>2, <2>3
  <2>4. CASE E[i + 1].k = "done" BY <1>1, <1>2, <2>2, <2>4
  <2> QED BY <2>3, <2>4
<1> QED BY <1>3, <1>4, <1>5 DEF Ended

(* [DONE] after the end changes nothing.                                   *)
LEMMA EndedAgain ==
  ASSUME NEW E, NEW i \in Nat, NEW s, Ended(s, E, i), s.completions \in Nat, s.completed = TRUE,
         E[i + 1].k = "done"
  PROVE  Ended(s, E, i + 1)
<1>1. \A j \in 1 .. i + 1 : j = i + 1 \/ j \in 1 .. i OBVIOUS
<1>2. \A j \in 1 .. i : j \in 1 .. i + 1 OBVIOUS
<1>3. s.completions >= 1 BY DEF Ended
<1>4. s.completions # 0 BY <1>3
<1>5. ASSUME s.completions = 1
      PROVE  \/ \E n \in 1 .. i + 1 : E[n].k = "finish" /\ \A j \in 1 .. i + 1 : E[j].k = "finish" => j = n
             \/ (\A j \in 1 .. i + 1 : E[j].k # "finish") /\ \E j \in 1 .. i + 1 : E[j].k = "done"
  <2>1. CASE \E n \in 1 .. i : E[n].k = "finish" /\ \A j \in 1 .. i : E[j].k = "finish" => j = n
    BY <1>1, <1>2, <2>1
  <2>2. CASE (\A j \in 1 .. i : E[j].k # "finish") /\ \E j \in 1 .. i : E[j].k = "done"
    BY <1>1, <1>2, <2>2
  <2> QED BY <1>5, <2>1, <2>2 DEF Ended
<1> QED BY <1>3, <1>4, <1>5 DEF Ended

(* The kinds of events.                                                    *)
LEMMA EventKinds ==
  ASSUME NEW e \in Heard(Payload)
  PROVE  \/ e.k = "junk"
         \/ e.k = "done"
         \/ e.k = "text" /\ e.v \in Word
         \/ e.k = "finish" /\ e.reason \in Word
         \/ /\ e.k = "call" /\ e.index \in Indices /\ e.id \in Word /\ e.name \in Word
            /\ e.args \in Seq(Word)
<1>1. CASE e = Junk BY <1>1 DEF Junk
<1>2. CASE e \in Payload /\ e.k # "comment" BY <1>2 DEF Payload
<1> QED BY <1>1, <1>2 DEF Heard

(* A refused event, or all is told.                                        *)
Goes(t, E, i, r) == t.failed = TRUE \/ (t.failed = FALSE /\ Told(t, E, i, r))

(* A tool-call fragment.                                                   *)
LEMMA CallTold ==
  ASSUME NEW E, NEW i \in Nat, NEW s, NEW r, Told(s, E, i, r), s.failed = FALSE,
         NEW e, e = E[i + 1], e.k = "call", e.index \in Indices, e.id \in Word, e.name \in Word,
         e.args \in Seq(Word), NEW t, t = ToolDelta(s, e)
  PROVE  Goes(t, E, i + 1, r + Fragments(e))
<1>1. s \in State /\ Gathered(s, r) /\ Distinct(s.calls) /\ Ended(s, E, i) /\ Named(s.calls, E, i)
  BY DEF Told
<1>2. PICK x \in Word : x = IF e.id = Absent THEN s.ids[e.index].id ELSE e.id BY <1>1 DEF State
<1>3. PICK y \in Word : y = IF e.name = Absent THEN s.ids[e.index].name ELSE e.name
  BY <1>1 DEF State
<1>4. PICK u : u = [s EXCEPT !.ids[e.index] = [id |-> x, name |-> y]] OBVIOUS
<1>5. /\ u \in State /\ u.calls = s.calls /\ u.round = s.round /\ SameEnd(s, u)
      /\ u.failed = FALSE
  <2>1. [id |-> x, name |-> y] \in [id : Word, name : Word] OBVIOUS
  <2> QED BY <1>1, <1>4, <2>1 DEF State, SameEnd
<1>6. t = IF e.args = << >> /\ x = Absent /\ y = Absent THEN u ELSE Push(u, x, y, e.args)
  BY <1>2, <1>3, <1>4, Zenon DEF ToolDelta
<1>7. Fragments(e) = Len(e.args) /\ Len(e.args) \in Nat BY LenProperties DEF Fragments
<1>8. r \in Nat /\ s.round = r /\ Kept(s.calls) = r BY <1>1 DEF Gathered
<1>9. s.calls \in Seq(Call) /\ Len(s.calls) \in Nat BY <1>1, LenProperties DEF State
<1>10. CASE e.args = << >> /\ x = Absent /\ y = Absent
  <2>1. t = u BY <1>6, <1>10
  <2>2. Len(e.args) = 0 BY <1>10
  <2>3. r + Fragments(e) = r BY <1>7, <1>8, <2>2
  <2>4. Gathered(t, r) BY <1>5, <1>8, <2>1 DEF Gathered
  <2>5. Ended(t, E, i + 1)
    <3>1. SameEnd(s, t) BY <1>5, <2>1
    <3> QED BY <1>1, <3>1, EndedSame
  <2>6. e.id = Absent BY <1>2, <1>10
  <2>7. Keeps(s.calls, s.calls) BY <1>9 DEF Keeps
  <2>8. Named(s.calls, E, i + 1) BY <1>1, <1>9, <2>6, <2>7, NamedMore
  <2> QED BY <1>1, <1>5, <2>1, <2>3, <2>4, <2>5, <2>8 DEF Goes, Told
<1>11. CASE ~(e.args = << >> /\ x = Absent /\ y = Absent)
  <2>1. t = Push(u, x, y, e.args) BY <1>6, <1>11
  <2>2. t.failed \in BOOLEAN BY <1>5, <2>1, PushedOrNot
  <2>3. t.failed = TRUE \/ t.failed = FALSE BY <2>2, Zenon
  <2> SUFFICES ASSUME t.failed = FALSE PROVE Told(t, E, i + 1, r + Fragments(e))
    BY <2>3 DEF Goes
  <2>4. Gathered(u, u.round) /\ Distinct(u.calls) BY <1>1, <1>5, <1>8 DEF Gathered
  <2>5. Collected(u, t, x, y, e.args) BY <1>5, <2>1, <2>4, Pushed
  <2>6. /\ x # Absent /\ t \in State /\ SameEnd(u, t) /\ Gathered(t, u.round + Len(e.args))
        /\ Distinct(t.calls) /\ Keeps(u.calls, t.calls) /\ Announced(t.calls, x, y)
    BY <2>5 DEF Collected
  <2>7. Gathered(t, r + Fragments(e)) BY <1>5, <1>7, <1>8, <2>6
  <2>8. Ended(t, E, i + 1)
    <3>1. SameEnd(s, t) BY <1>5, <2>6 DEF SameEnd
    <3> QED BY <1>1, <3>1, EndedSame
  <2>9. e.id # Absent => Announced(t.calls, e.id, e.name)
    <3> SUFFICES ASSUME e.id # Absent PROVE Announced(t.calls, e.id, e.name) OBVIOUS
    <3>1. x = e.id /\ (e.name # Absent => y = e.name) BY <1>2, <1>3
    <3>2. PICK m \in 1 .. Len(t.calls) : t.calls[m].id = x /\ y \in {Absent, t.calls[m].name}
      BY <2>6 DEF Announced
    <3>3. e.name \in {Absent, t.calls[m].name} BY <3>1, <3>2
    <3> QED BY <3>1, <3>2, <3>3 DEF Announced
  <2>10. Named(t.calls, E, i + 1)
    <3>1. Len(t.calls) \in Nat BY <2>6, LenProperties DEF State
    <3>2. Keeps(s.calls, t.calls) BY <1>5, <2>6
    <3> QED BY <1>1, <1>9, <2>9, <3>1, <3>2, NamedMore
  <2> QED BY <2>6, <2>7, <2>8, <2>10 DEF Told
<1> QED BY <1>10, <1>11

(* Each event.                                                             *)
LEMMA EventTold ==
  ASSUME NEW E, NEW i \in Nat, NEW s, NEW r, Told(s, E, i, r), s.failed = FALSE,
         NEW e \in Heard(Payload), e = E[i + 1], NEW t, t = ProcessSseData(s, e)
  PROVE  Goes(t, E, i + 1, r + Fragments(e))
<1>1. s \in State /\ Gathered(s, r) /\ Distinct(s.calls) /\ Ended(s, E, i) /\ Named(s.calls, E, i)
  BY DEF Told
<1>2. r \in Nat /\ s.round = r /\ Kept(s.calls) = r BY <1>1 DEF Gathered
<1>3. s.calls \in Seq(Call) /\ Len(s.calls) \in Nat /\ s.completions \in Nat /\ s.text \in Seq(Word)
  BY <1>1, LenProperties DEF State
<1>4. ASSUME e.k # "call" PROVE Named(s.calls, E, i + 1) /\ r + Fragments(e) = r
  <2>1. Keeps(s.calls, s.calls) BY <1>3 DEF Keeps
  <2>2. Named(s.calls, E, i + 1) BY <1>1, <1>3, <1>4, <2>1, NamedMore
  <2>3. Fragments(e) = 0 BY <1>4 DEF Fragments
  <2> QED BY <1>2, <2>2, <2>3
<1>5. ASSUME NEW u, u = t, u \in State, u.calls = s.calls, u.round = s.round, u.failed = FALSE,
             e.k # "call", Ended(u, E, i + 1)
      PROVE  Goes(t, E, i + 1, r + Fragments(e))
  <2>1. Gathered(u, r) BY <1>2, <1>5 DEF Gathered
  <2>2. Named(s.calls, E, i + 1) /\ r + Fragments(e) = r BY <1>4, <1>5
  <2>3. Told(u, E, i + 1, r) BY <1>1, <1>5, <2>1, <2>2 DEF Told
  <2> QED BY <1>5, <2>2, <2>3 DEF Goes
<1>6. ASSUME NEW stop \in Word, t = Complete(s, stop), e.k \in {"finish", "done"},
             e.k = "done" => s.completed = FALSE
      PROVE  Goes(t, E, i + 1, r + Fragments(e))
  <2>0. PICK c \in Nat : c = s.completions + 1 BY <1>3
  <2>1. /\ t \in State /\ t.calls = s.calls /\ t.round = s.round /\ t.failed = FALSE
        /\ t.completed = TRUE /\ t.completions = s.completions + 1
    <3>1. t = [s EXCEPT !.completed = TRUE, !.completions = c, !.stop = stop]
      BY <1>1, <1>6, <2>0 DEF Complete, State
    <3>2. t \in State BY <1>1, <3>1 DEF State
    <3>3. t.calls = s.calls /\ t.round = s.round /\ t.failed = s.failed BY <1>1, <3>1 DEF State
    <3>4. t.completed = TRUE /\ t.completions = c BY <1>1, <3>1 DEF State
    <3> QED BY <2>0, <3>2, <3>3, <3>4
  <2>2. Ended(t, E, i + 1) BY <1>1, <1>3, <1>6, <2>1, EndedFirst
  <2>3. e.k # "call" BY <1>6
  <2> QED BY <1>5, <2>1, <2>2, <2>3
<1>7. CASE e.k = "junk"
  <2>1. t = Fail(s) BY <1>7 DEF ProcessSseData
  <2>2. t.failed = TRUE BY <1>1, <2>1 DEF Fail, State
  <2> QED BY <2>2 DEF Goes
<1>8. CASE e.k = "done"
  <2>1. t = IF s.completed THEN s ELSE Complete(s, "end") BY <1>8 DEF ProcessSseData
  <2>2. s.completed \in BOOLEAN BY <1>1 DEF State
  <2>3. CASE s.completed = TRUE
    <3>1. t = s BY <2>1, <2>3
    <3>2. Ended(s, E, i + 1) BY <1>1, <1>3, <1>8, <2>3, EndedAgain
    <3>3. e.k # "call" BY <1>8
    <3> QED BY <1>1, <1>5, <3>1, <3>2, <3>3
  <2>4. CASE s.completed = FALSE
    <3>1. t = Complete(s, "end") BY <2>1, <2>4
    <3>2. "end" \in Word BY DEF Word
    <3> QED BY <1>6, <1>8, <2>4, <3>1, <3>2
  <2>5. s.completed = TRUE \/ s.completed = FALSE BY <2>2, Zenon
  <2> QED BY <2>3, <2>4, <2>5
<1>9. CASE e.k = "text" /\ e.v \in Word
  <2>1. t = [s EXCEPT !.text = Append(s.text, e.v)] BY <1>1, <1>9 DEF ProcessSseData, State
  <2>2. Append(s.text, e.v) \in Seq(Word) BY <1>3, <1>9, AppendProperties
  <2>3. t \in State /\ t.calls = s.calls /\ t.round = s.round /\ t.failed = FALSE /\ SameEnd(s, t)
    BY <1>1, <2>1, <2>2 DEF State, SameEnd
  <2>4. e.k # "call" /\ e.k # "finish" /\ e.k # "done" BY <1>9
  <2>5. Ended(t, E, i + 1) BY <1>1, <2>3, <2>4, EndedSame
  <2> QED BY <1>5, <2>3, <2>4, <2>5
<1>10. CASE e.k = "finish" /\ e.reason \in Word
  <2>1. t = Complete(s, e.reason) BY <1>10 DEF ProcessSseData
  <2>2. e.k \in {"finish", "done"} /\ e.k # "done" BY <1>10
  <2> QED BY <1>6, <1>10, <2>1, <2>2
<1>11. CASE /\ e.k = "call" /\ e.index \in Indices /\ e.id \in Word /\ e.name \in Word
            /\ e.args \in Seq(Word)
  <2>1. t = ToolDelta(s, e) BY <1>11 DEF ProcessSseData
  <2> QED BY <1>11, <2>1, CallTold
<1> QED BY <1>7, <1>8, <1>9, <1>10, <1>11, EventKinds

(* In the beginning nothing is told.                                       *)
LEMMA StartTold == ASSUME NEW E PROVE Told(Start, E, 0, 0) /\ Start.failed = FALSE
<1>1. Absent \in Word /\ "end" \in Word BY DEF Word
<1>01. << >> \in Seq(Call) /\ << >> \in Seq(Word) OBVIOUS
<1>2. PICK c \in Seq(Call) : c = << >> BY <1>01
<1>3. PICK x \in Seq(Word) : x = << >> BY <1>01
<1>4. PICK ids \in [Indices -> [id : Word, name : Word]] :
        ids = [i \in Indices |-> [id |-> Absent, name |-> Absent]]
  BY <1>1
<1>5. Start = [ids |-> ids, completed |-> FALSE, failed |-> FALSE, text |-> x, calls |-> c,
               completions |-> 0, stop |-> "end", round |-> 0]
  BY <1>2, <1>3, <1>4, Zenon DEF Start
<1>6. Start \in State BY <1>1, <1>5 DEF State
<1>7. /\ Start.calls = << >> /\ Start.round = 0 /\ Start.completions = 0 /\ Start.completed = FALSE
      /\ Start.failed = FALSE
  BY DEF Start
<1>8. Len(<< >>) = 0 /\ Len(<< >>) \in Nat /\ 1 .. 0 = {} OBVIOUS
<1>9. Kept(<< >>) = 0
  <2>1. PICK y : y = [n \in 1 .. 0 |-> Len(<< >>[n].args)] OBVIOUS
  <2>2. Len(y) = 0 BY <2>1
  <2>3. Kept(<< >>) = Total(y) BY <1>8, <2>1 DEF Kept
  <2>4. PICK N \in Nat : N = Len(y) /\ N = 0 BY <2>2
  <2>5. PICK f : Looped(f, "total", 0, y, 0, N) /\ Total(y) = f[N] BY <2>4, TotalLoops
  <2>6. f[N] = 0 BY <2>4, <2>5 DEF Looped
  <2> QED BY <2>3, <2>5, <2>6
<1>10. Gathered(Start, 0) BY <1>7, <1>9 DEF Gathered
<1>11. Distinct(<< >>) BY <1>8 DEF Distinct
<1>12. Ended(Start, E, 0) BY <1>7, <1>8 DEF Ended
<1>13. Named(<< >>, E, 0) BY <1>8 DEF Named
<1> QED BY <1>6, <1>7, <1>10, <1>11, <1>12, <1>13 DEF Told

(* All is told of events that are not refused.                             *)
LEMMA FeedTold ==
  ASSUME NEW E \in Seq(Heard(Payload))
  PROVE  Goes(Feed(Start, E), E, Len(E), Sent(E))
<1>1. PICK N \in Nat : N = Len(E) BY LenProperties
<1>2. PICK f : Looped(f, "feed", 0, E, Start, N) /\ Feed(Start, E) = f[N] BY <1>1, FeedLoops
<1>3. PICK y : y = [n \in 1 .. N |-> Fragments(E[n])] OBVIOUS
<1>4. Len(y) = N BY <1>3
<1>5. PICK g : Looped(g, "total", 0, y, 0, N) /\ Total(y) = g[N] BY <1>4, TotalLoops
<1>6. Sent(E) = g[N] BY <1>1, <1>3, <1>5 DEF Sent
<1> DEFINE T == {i \in 0 .. N : ~Goes(f[i], E, i, g[i])}
<1>7. T = {}
  <2> SUFFICES ASSUME T # {} PROVE FALSE OBVIOUS
  <2> HIDE DEF T
  <2>1. T \subseteq Nat BY DEF T
  <2>2. PICK i \in T : \A k \in T : i <= k BY <2>1, LeastElement
  <2>3. i \in Nat /\ i \in 0 .. N /\ ~Goes(f[i], E, i, g[i]) BY <2>1 DEF T
  <2>4. /\ f[i] = IF i = 0 THEN Start ELSE Turn("feed", 0, E, f[i - 1], i)
        /\ g[i] = IF i = 0 THEN 0 ELSE Turn("total", 0, y, g[i - 1], i)
    BY <1>2, <1>5, <2>3 DEF Looped
  <2>5. CASE i = 0
    <3>1. f[i] = Start /\ g[i] = 0 BY <2>4, <2>5
    <3>2. Told(Start, E, 0, 0) /\ Start.failed = FALSE BY StartTold
    <3> QED BY <2>3, <2>5, <3>1, <3>2 DEF Goes
  <2>6. CASE i # 0
    <3>1. PICK j \in Nat : i - 1 = j /\ i = j + 1 BY <2>3, <2>6
    <3>2. Goes(f[j], E, j, g[j])
      <4>1. j \in 0 .. N /\ j \notin T BY <2>2, <2>3, <3>1
      <4> QED BY <4>1 DEF T
    <3>3. f[i] = ProcessSseData(f[j], E[i]) /\ g[i] = g[j] + y[i] BY <2>4, <2>6, <3>1 DEF Turn
    <3>4. i \in 1 .. N BY <2>3, <2>6
    <3>5. E[i] \in Heard(Payload) BY <1>1, <3>4, ElementOfSeq
    <3>6. y[i] = Fragments(E[i]) BY <1>3, <3>4
    <3>7. CASE f[j].failed = TRUE
      <4>1. f[i] = f[j] BY <3>3, <3>7 DEF ProcessSseData
      <4> QED BY <2>3, <3>7, <4>1 DEF Goes
    <3>8. CASE f[j].failed = FALSE /\ Told(f[j], E, j, g[j])
      <4>1. PICK e \in Heard(Payload) : e = E[j + 1] BY <3>1, <3>5
      <4>2. f[i] = ProcessSseData(f[j], e) BY <3>1, <3>3, <4>1
      <4>3. Goes(f[i], E, j + 1, g[j] + Fragments(e)) BY <3>8, <4>1, <4>2, EventTold
      <4>4. g[i] = g[j] + Fragments(e) BY <3>1, <3>3, <3>6, <4>1
      <4> QED BY <2>3, <3>1, <4>3, <4>4
    <3> QED BY <3>2, <3>7, <3>8 DEF Goes
  <2> QED BY <2>5, <2>6
<1>8. N \in 0 .. N OBVIOUS
<1>9. Goes(f[N], E, N, g[N]) BY <1>7, <1>8
<1> QED BY <1>1, <1>2, <1>6, <1>9

(* A response with an accepted verdict is whole.                           *)
LEMMA ParsedWhole == Parsed => AcceptedIsWhole
<1> SUFFICES ASSUME Parsed, verdict \in {"answer", "tools"} PROVE AcceptedIsWhole
  BY DEF AcceptedIsWhole
<1>1. PICK W : Laid(body, wire, W) BY DEF Parsed
<1>2. PICK E \in Seq(Heard(Payload)) : E = Delivered
  <2>1. body \in Seq(Payload) /\ Len(body) \in Nat BY LenProperties DEF Parsed
  <2>2. Events(body, wire, Len(body)) \in Seq(Heard(Payload)) BY <1>1, <2>1, EventsType
  <2> QED BY <2>2 DEF Delivered
<1>3. st = Feed(Start, E) /\ verdict = Verdict(st) /\ verdict # "failed"
  BY <1>2 DEF Parsed, Settled
<1>4. /\ ~st.failed /\ st.completions = 1
      /\ verdict = IF st.calls = << >> THEN "answer" ELSE "tools"
  BY <1>3, Zenon DEF Verdict
<1>5. PICK N \in Nat : N = Len(E) BY LenProperties
<1>6. Told(st, E, N, Sent(E))
  <2>1. Goes(st, E, N, Sent(E)) BY <1>3, <1>5, FeedTold
  <2> QED BY <1>4, <2>1 DEF Goes
<1>7. PICK calls \in Seq(Call) : calls = st.calls BY <1>6 DEF Told, State
<1>8. PICK L \in Nat : L = Len(calls) /\ DOMAIN calls = 1 .. L BY LenProperties
<1>9. \/ \E n \in 1 .. N : Said(E, "finish") = {n}
      \/ Said(E, "finish") = {} /\ Said(E, "done") # {}
  <2>1. Ended(st, E, N) BY <1>6 DEF Told
  <2>2. CASE \E n \in 1 .. N : E[n].k = "finish" /\ \A j \in 1 .. N : E[j].k = "finish" => j = n
    <3>1. PICK n \in 1 .. N : E[n].k = "finish" /\ \A j \in 1 .. N : E[j].k = "finish" => j = n
      BY <2>2
    <3>2. Said(E, "finish") = {n} BY <1>5, <3>1 DEF Said
    <3> QED BY <3>2
  <2>3. CASE (\A j \in 1 .. N : E[j].k # "finish") /\ \E j \in 1 .. N : E[j].k = "done"
    BY <1>5, <2>3 DEF Said
  <2> QED BY <1>4, <2>1, <2>2, <2>3 DEF Ended
<1>10. Sent(E) = Kept(calls) BY <1>6, <1>7 DEF Told, Gathered
<1>11. /\ \A n \in 1 .. L : calls[n].id # Absent
       /\ \A m, n \in 1 .. L : calls[m].id = calls[n].id => m = n
  BY <1>6, <1>7, <1>8 DEF Told, Distinct
<1>12. ASSUME NEW n \in 1 .. N, NEW m \in 1 .. L, E[n].k = "call", E[n].id = calls[m].id
       PROVE  E[n].name \in {Absent, calls[m].name}
  <2>1. E[n].id # Absent BY <1>11, <1>12
  <2>2. Announced(calls, E[n].id, E[n].name) BY <1>6, <1>7, <1>12, <2>1 DEF Told, Named
  <2>3. PICK k \in 1 .. L : calls[k].id = E[n].id /\ E[n].name \in {Absent, calls[k].name}
    BY <1>8, <2>2 DEF Announced
  <2>4. k = m BY <1>11, <1>12, <2>3
  <2> QED BY <2>3, <2>4
<1>13. DOMAIN E = 1 .. N BY <1>5, LenProperties
<1>14. \A n \in DOMAIN E, m \in DOMAIN calls :
         E[n].k = "call" /\ E[n].id = calls[m].id => E[n].name \in {Absent, calls[m].name}
  BY <1>8, <1>12, <1>13
<1>15. \A n, m \in DOMAIN calls : calls[n].id = calls[m].id => n = m BY <1>8, <1>11
<1>16. verdict = "tools" <=> calls # << >> BY <1>4, <1>7
<1>17. \/ \E n \in 1 .. Len(E) : Said(E, "finish") = {n}
       \/ Said(E, "finish") = {} /\ Said(E, "done") # {}
  BY <1>5, <1>9
<1> QED BY <1>2, <1>7, <1>10, <1>14, <1>15, <1>16, <1>17, Zenon DEF AcceptedIsWhole

(* Only whole responses are acted on: an accepted one ended exactly once,  *)
(* every argument fragment it sent is in one of its calls, under the id    *)
(* and the name it was announced with (emit_model_events, ToolCallAssembler*)
(* and the checks of run_inner), provided that its line ends are of one    *)
(* style.                                                                  *)
THEOREM OnlyWholeResponses == ResponseConstants => (Spec => [](OneStyle => AcceptedIsWhole))
<1> SUFFICES ASSUME ResponseConstants PROVE Spec => [](OneStyle => AcceptedIsWhole) OBVIOUS
<1>1. Init => (OneStyle => Parsed) BY ParsedInit
<1>2. (OneStyle => Parsed) /\ [Next]_vars => (OneStyle => Parsed)' BY ParsedStep, StyleStays
<1>3. Parsed => AcceptedIsWhole BY ParsedWhole
<1> QED BY <1>1, <1>2, <1>3, PTL DEF Spec

=============================================================================
