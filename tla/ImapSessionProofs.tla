------------------------- MODULE ImapSessionProofs --------------------------
(***************************************************************************)
(* Theorems about ImapSession: the client and the session agree on message *)
(* numbers, and MOVE and EXPUNGE take only what the client picked, for     *)
(* every set of mails, whatever UIDs their rows have, and every number of  *)
(* changes of the folder.                                                  *)
(***************************************************************************)
EXTENDS ImapSession, FiniteSetTheorems, TLAPS

-----------------------------------------------------------------------------
(* Order by counting. *)

(* A non-empty set of naturals has a least element. *)
LEMMA LeastOf ==
    ASSUME NEW S, S \subseteq Nat, S # {}
    PROVE  \E x \in S : \A y \in S : x <= y
<1> DEFINE R == {ss \in Nat \X Nat : ss[1] < ss[2]}
<1>1. IsWellFoundedOn(R, Nat)
    BY NatLessThanWellFounded, Zenon DEF OpToRel
<1>2. \A a, b \in Nat : a < b => <<a, b>> \in R
    OBVIOUS
<1> HIDE DEF R
<1>3. PICK x \in S : \A y \in S : <<y, x>> \notin R
    BY <1>1, WFMin
<1>4. ASSUME NEW y \in S
      PROVE  x <= y
    <2>1. x \in Nat /\ y \in Nat
        OBVIOUS
    <2>2. ~(y < x)
        BY <1>2, <1>3, <2>1
    <2> QED
        BY <2>1, <2>2
<1> QED
    BY <1>4

(* The elements up to a bound are part of a finite set. *)
LEMMA UpTo ==
    ASSUME NEW S, IsFiniteSet(S), S \subseteq Nat, NEW n
    PROVE  /\ IsFiniteSet({k \in S : k <= n})
           /\ Rank(S, n) \in Nat
           /\ Rank(S, n) <= Cardinality(S)
           /\ Cardinality(S) \in Nat
<1>1. {k \in S : k <= n} \in SUBSET S
    OBVIOUS
<1> QED
    BY <1>1, FS_Subset, FS_CardinalityType DEF Rank

(* The rank of an element is its place, counted from one. *)
LEMMA RankType ==
    ASSUME NEW S, IsFiniteSet(S), S \subseteq Nat, NEW n \in S
    PROVE  Rank(S, n) \in 1 .. Cardinality(S)
<1> DEFINE U == {k \in S : k <= n}
<1>1. IsFiniteSet(U) /\ Rank(S, n) \in Nat /\ Rank(S, n) <= Cardinality(S)
      /\ Cardinality(S) \in Nat
    BY UpTo
<1>2. n \in U
    OBVIOUS
<1>3. Cardinality(U) # 0
    BY <1>1, <1>2, FS_EmptySet
<1> QED
    BY <1>1, <1>3 DEF Rank

(* Of two elements the larger has the larger rank. *)
LEMMA RankMono ==
    ASSUME NEW S, IsFiniteSet(S), S \subseteq Nat, NEW n \in S, NEW m \in S,
           n < m
    PROVE  Rank(S, n) < Rank(S, m)
<1> DEFINE U == {k \in S : k <= n}
           V == {k \in S : k <= m}
<1>1. IsFiniteSet(V) /\ Cardinality(V) \in Nat /\ Cardinality(U) \in Nat
    BY UpTo DEF Rank
<1>0. n \in Nat /\ m \in Nat
    OBVIOUS
<1>2. U \in SUBSET V
    <2>1. \A k \in Nat : k <= n => k <= m
        BY <1>0
    <2> QED
        BY <2>1
<1>3. m \in V /\ m \notin U
    BY <1>0
<1>4. U # V
    BY <1>3
<1>5. /\ Cardinality(U) <= Cardinality(V)
      /\ Cardinality(V) = Cardinality(U) => V = U
    <2> HIDE DEF U, V
    <2> QED
        BY <1>1, <1>2, FS_Subset
<1> QED
    BY <1>1, <1>4, <1>5 DEF Rank

(* Two elements of the same rank are the same. *)
LEMMA RankOne ==
    ASSUME NEW S, IsFiniteSet(S), S \subseteq Nat, NEW n \in S, NEW m \in S,
           Rank(S, n) = Rank(S, m)
    PROVE  n = m
<1>1. n \in Nat /\ m \in Nat /\ Rank(S, n) \in Nat
    BY UpTo
<1>2. n < m => Rank(S, n) < Rank(S, m)
    BY RankMono
<1>3. m < n => Rank(S, m) < Rank(S, n)
    BY RankMono
<1> QED
    BY <1>1, <1>2, <1>3

(* Every place up to the size of the set is taken by one element. *)
LEMMA NthRank ==
    ASSUME NEW S, IsFiniteSet(S), S \subseteq Nat,
           NEW i \in 1 .. Cardinality(S)
    PROVE  Nth(S, i) \in S /\ Rank(S, Nth(S, i)) = i
<1> DEFINE c == Cardinality(S)
           T == 1 .. c
           f == [n \in S |-> Rank(S, n)]
<1>1. c \in Nat
    BY FS_CardinalityType
<1>2. f \in [S -> T]
    BY RankType
<1>3. ASSUME NEW n \in S, NEW m \in S, f[n] = f[m]
      PROVE  n = m
    <2>1. Rank(S, n) = Rank(S, m)
        BY <1>3
    <2> QED
        BY <2>1, RankOne
<1>4. f \in Injection(S, T)
    BY <1>2, <1>3 DEF Injection, IsInjective
<1>5. IsFiniteSet(T) /\ Cardinality(T) = c
    BY <1>1, FS_Interval
<1>6. f \in Surjection(S, T)
    <2> HIDE DEF f, T
    <2> QED
        BY <1>4, <1>5, FS_Injection
<1>7. \E n \in S : Rank(S, n) = i
    BY <1>6 DEF Surjection
<1> QED
    BY <1>7 DEF Nth

(* Nth is the inverse of Rank. *)
LEMMA RankNth ==
    ASSUME NEW S, IsFiniteSet(S), S \subseteq Nat, NEW n \in S
    PROVE  Nth(S, Rank(S, n)) = n
<1>1. Rank(S, n) \in 1 .. Cardinality(S)
    BY RankType
<1>2. Nth(S, Rank(S, n)) \in S /\ Rank(S, Nth(S, Rank(S, n))) = Rank(S, n)
    BY <1>1, NthRank
<1> QED
    BY <1>2, RankOne

(* The i-th smallest grows with i. *)
LEMMA NthMono ==
    ASSUME NEW S, IsFiniteSet(S), S \subseteq Nat,
           NEW i \in 1 .. Cardinality(S), NEW j \in 1 .. Cardinality(S),
           i < j
    PROVE  Nth(S, i) < Nth(S, j)
<1>a. i \in Nat /\ j \in Nat /\ i # j /\ ~(j < i)
    OBVIOUS
<1>b. Nth(S, i) \in S /\ Rank(S, Nth(S, i)) = i
    BY NthRank
<1>c. Nth(S, j) \in S /\ Rank(S, Nth(S, j)) = j
    BY NthRank
<1>1. Nth(S, i) \in Nat /\ Nth(S, j) \in Nat
    BY <1>b, <1>c
<1>2. Nth(S, i) # Nth(S, j)
    BY <1>a, <1>b, <1>c
<1>3. ~(Nth(S, j) < Nth(S, i))
    <2>1. Nth(S, j) < Nth(S, i)
             => Rank(S, Nth(S, j)) < Rank(S, Nth(S, i))
        BY <1>b, <1>c, RankMono
    <2> QED
        BY <2>1, <1>a, <1>b, <1>c
<1> QED
    BY <1>1, <1>2, <1>3

(* A function that is one-to-one on a finite set keeps its size. *)
LEMMA ImageSize ==
    ASSUME NEW S, IsFiniteSet(S), NEW g, S \subseteq DOMAIN g,
           \A a, b \in S : g[a] = g[b] => a = b
    PROVE  /\ IsFiniteSet({g[a] : a \in S})
           /\ Cardinality({g[a] : a \in S}) = Cardinality(S)
<1> DEFINE T == {g[a] : a \in S}
           h == [a \in S |-> g[a]]
<1>1. h \in Bijection(S, T)
    BY DEF Bijection, Injection, Surjection, IsInjective
<1>2. ExistsBijection(S, T)
    BY <1>1, Zenon DEF ExistsBijection
<1> QED
    BY <1>2, FS_Bijection

(* g takes K in order to the front of U: the rest of U comes after. *)
OntoFront(g, K, U) ==
    /\ g \in [K -> U]
    /\ \A a, b \in K : a < b => g[a] < g[b]
    /\ \A u \in U : (\E a \in K : u = g[a]) \/ (\A a \in K : g[a] < u)

(* What the client meant by the i-th number is the i-th of a longer list   *)
(* as well, when the list only grew at its end.                            *)
LEMMA PrefixPlaces ==
    ASSUME NEW K, IsFiniteSet(K), K \subseteq Nat,
           NEW U, IsFiniteSet(U), U \subseteq Nat,
           NEW g, OntoFront(g, K, U), NEW i \in 1 .. Cardinality(K)
    PROVE  /\ i \in 1 .. Cardinality(U)
           /\ Nth(U, i) = g[Nth(K, i)]
<1> DEFINE k == Nth(K, i)
<1>1. k \in K /\ Rank(K, k) = i
    BY NthRank
<1> HIDE DEF k
<1> DEFINE D == {a \in K : a <= k}
           V == {u \in U : u <= g[k]}
<1>a. /\ g \in [K -> U]
      /\ \A a, b \in K : a < b => g[a] < g[b]
      /\ \A u \in U : (\E a \in K : u = g[a]) \/ (\A a \in K : g[a] < u)
    BY DEF OntoFront
<1>2. \A a \in K : a \in Nat /\ g[a] \in U /\ g[a] \in Nat
    BY <1>a
<1>3. \A a, b \in K : g[a] = g[b] => a = b
    <2> TAKE a, b \in K
    <2>1. (a < b => g[a] < g[b]) /\ (b < a => g[b] < g[a])
        BY <1>a
    <2> QED
        BY <1>2, <2>1
<1>4. \A a \in K : a <= k <=> g[a] <= g[k]
    <2> TAKE a \in K
    <2>1. (a < k => g[a] < g[k]) /\ (k < a => g[k] < g[a])
        BY <1>a, <1>1
    <2> QED
        BY <1>1, <1>2, <2>1
<1>5. V = {g[a] : a \in D}
    <2>1. ASSUME NEW u \in V
          PROVE  u \in {g[a] : a \in D}
        <3>1. u \in U /\ u \in Nat /\ u <= g[k] /\ g[k] \in Nat
            BY <1>1, <1>2
        <3>2. ~(g[k] < u)
            BY <3>1
        <3>3. PICK a \in K : u = g[a]
            BY <3>1, <3>2, <1>a, <1>1
        <3> QED
            BY <3>1, <3>3, <1>4
    <2>2. ASSUME NEW a \in D
          PROVE  g[a] \in V
        BY <1>2, <1>4
    <2> QED
        BY <2>1, <2>2
<1>6. IsFiniteSet(D) /\ D \subseteq DOMAIN g
    BY <1>a, UpTo
<1>7. Cardinality({g[a] : a \in D}) = Cardinality(D)
    <2>1. \A a, b \in D : g[a] = g[b] => a = b
        BY <1>3
    <2> HIDE DEF D
    <2> QED
        BY <1>6, <2>1, ImageSize
<1>8. Rank(U, g[k]) = i
    BY <1>1, <1>5, <1>7 DEF Rank
<1>9. g[k] \in U
    BY <1>1, <1>2
<1>10. Rank(U, g[k]) \in 1 .. Cardinality(U)
    BY <1>9, RankType
<1>11. Nth(U, Rank(U, g[k])) = g[k]
    BY <1>9, RankNth
<1> QED
    BY <1>8, <1>10, <1>11 DEF k

(* What dropping one element does to the others' places. *)
LEMMA NthWithout ==
    ASSUME NEW K, IsFiniteSet(K), K \subseteq Nat, NEW x \in K
    PROVE  /\ IsFiniteSet(K \ {x})
           /\ Cardinality(K \ {x}) = Cardinality(K) - 1
           /\ \A i \in 1 .. Cardinality(K) - 1 :
                 Nth(K \ {x}, i) = Nth(K, IF i < Rank(K, x) THEN i ELSE i + 1)
<1> DEFINE c == Cardinality(K)
           L == K \ {x}
           r == Rank(K, x)
<1>1. IsFiniteSet(L) /\ Cardinality(L) = c - 1 /\ c \in Nat /\ L \subseteq Nat
    BY FS_RemoveElement, FS_CardinalityType
<1>2. r \in 1 .. c
    BY RankType
<1>3. ASSUME NEW y \in L
      PROVE  Rank(L, y) = IF y < x THEN Rank(K, y) ELSE Rank(K, y) - 1
    <2> DEFINE V == {k \in K : k <= y}
               W == {k \in L : k <= y}
    <2>0. x \in Nat /\ y \in Nat /\ y # x
        OBVIOUS
    <2>1. IsFiniteSet(V)
        BY UpTo
    <2>2. CASE y < x
        <3>1. ~(x <= y)
            BY <2>0, <2>2
        <3>2. V = W
            BY <3>1
        <3> QED
            BY <3>2, <2>2 DEF Rank
    <2>3. CASE ~(y < x)
        <3>1. x <= y
            BY <2>0, <2>3
        <3>2. W = V \ {x} /\ x \in V
            BY <3>1
        <3>3. Cardinality(W) = Cardinality(V) - 1
            <4> HIDE DEF V, W
            <4> QED
                BY <3>2, <2>1, FS_RemoveElement
        <3> QED
            BY <3>3, <2>3 DEF Rank
    <2> QED
        BY <2>2, <2>3
<1>4. ASSUME NEW i \in 1 .. c - 1
      PROVE  Nth(L, i) = Nth(K, IF i < r THEN i ELSE i + 1)
    <2> DEFINE j == IF i < r THEN i ELSE i + 1
               y == Nth(K, j)
    <2>1. j \in 1 .. c /\ j # r /\ (j < r <=> i < r)
        BY <1>1, <1>2
    <2>2. y \in K /\ Rank(K, y) = j
        <3> HIDE DEF j
        <3> QED
            BY <2>1, NthRank
    <2> HIDE DEF y
    <2>3. y \in L /\ y \in Nat /\ x \in Nat
        BY <2>1, <2>2
    <2>4. y < x => j < r
        BY <2>2, <2>3, RankMono
    <2>5. x < y => r < j
        BY <2>2, <2>3, RankMono
    <2>6. y < x <=> i < r
        BY <2>1, <2>3, <2>4, <2>5, <1>2
    <2>7. Rank(L, y) = i
        BY <1>2, <1>3, <2>2, <2>3, <2>6
    <2>8. Nth(L, Rank(L, y)) = y
        <3> HIDE DEF L
        <3> QED
            BY <1>1, <2>3, RankNth
    <2> QED
        BY <2>7, <2>8 DEF y
<1> QED
    BY <1>1, <1>4

-----------------------------------------------------------------------------
(* Lists without some of their elements. *)

(* What is left of a list is a list of the same elements, its size the     *)
(* number of positions kept.                                               *)
LEMMA WithoutType ==
    ASSUME NEW T, NEW s \in Seq(T), NEW S
    PROVE  /\ IsFiniteSet(DOMAIN s \ S)
           /\ DOMAIN s \ S \subseteq Nat
           /\ Cardinality(DOMAIN s \ S) \in Nat
           /\ \A i \in 1 .. Cardinality(DOMAIN s \ S) :
                 Nth(DOMAIN s \ S, i) \in DOMAIN s \ S
           /\ Without(s, S) \in Seq(T)
           /\ Len(Without(s, S)) = Cardinality(DOMAIN s \ S)
           /\ DOMAIN Without(s, S) = 1 .. Cardinality(DOMAIN s \ S)
           /\ \A i \in 1 .. Cardinality(DOMAIN s \ S) :
                 Without(s, S)[i] = s[Nth(DOMAIN s \ S, i)]
<1> DEFINE K == DOMAIN s \ S
<1>1. DOMAIN s = 1 .. Len(s) /\ Len(s) \in Nat
    OBVIOUS
<1>2. IsFiniteSet(DOMAIN s)
    BY <1>1, FS_Interval
<1>3. IsFiniteSet(K) /\ K \subseteq Nat /\ Cardinality(K) \in Nat
    <2>1. IsFiniteSet(K)
        BY <1>2, FS_Difference
    <2>2. K \subseteq Nat
        BY <1>1
    <2>3. Cardinality(K) \in Nat
        <3> HIDE DEF K
        <3> QED
            BY <2>1, FS_CardinalityType
    <2> QED
        BY <2>1, <2>2, <2>3
<1>4. \A i \in 1 .. Cardinality(K) : Nth(K, i) \in K
    <2> HIDE DEF K
    <2> QED
        BY <1>3, NthRank
<1>5. \A i \in 1 .. Cardinality(K) : s[Nth(K, i)] \in T
    <2>1. \A n \in K : s[n] \in T
        BY <1>1
    <2> HIDE DEF K
    <2> QED
        BY <1>4, <2>1
<1>6. Without(s, S) = [i \in 1 .. Cardinality(K) |-> s[Nth(K, i)]]
    BY DEF Without
<1> HIDE DEF K
<1>7. Without(s, S) \in Seq(T) /\ Len(Without(s, S)) = Cardinality(K)
    BY <1>3, <1>5, <1>6
<1> QED
    BY <1>3, <1>4, <1>6, <1>7 DEF K

(* RemoveAt, element by element. *)
LEMMA RemoveAtElements ==
    ASSUME NEW T, NEW s \in Seq(T), NEW n \in DOMAIN s
    PROVE  /\ RemoveAt(s, n) \in Seq(T)
           /\ Len(RemoveAt(s, n)) = Len(s) - 1
           /\ \A i \in 1 .. Len(s) - 1 :
                 RemoveAt(s, n)[i] = s[IF i < n THEN i ELSE i + 1]
<1>1. n \in 1 .. Len(s) /\ Len(s) \in Nat
    OBVIOUS
<1> DEFINE a == SubSeq(s, 1, n - 1)
           b == SubSeq(s, n + 1, Len(s))
<1>2. a \in Seq(T) /\ Len(a) = n - 1 /\ \A i \in 1 .. n - 1 : a[i] = s[i]
    BY <1>1
<1>3. /\ b \in Seq(T) /\ Len(b) = Len(s) - n
      /\ \A i \in 1 .. Len(s) - n : b[i] = s[i + n]
    BY <1>1
<1> HIDE DEF a, b
<1>4. /\ a \o b \in Seq(T) /\ Len(a \o b) = Len(s) - 1
      /\ \A i \in 1 .. Len(s) - 1 :
            (a \o b)[i] = IF i <= n - 1 THEN a[i] ELSE b[i - (n - 1)]
    BY <1>1, <1>2, <1>3
<1>5. ASSUME NEW i \in 1 .. Len(s) - 1
      PROVE  (a \o b)[i] = s[IF i < n THEN i ELSE i + 1]
    <2>1. CASE i < n
        BY <2>1, <1>1, <1>2, <1>4
    <2>2. CASE ~(i < n)
        <3>1. i - (n - 1) \in 1 .. Len(s) - n /\ (i - (n - 1)) + n = i + 1
            BY <2>2, <1>1
        <3>2. b[i - (n - 1)] = s[i + 1]
            BY <3>1, <1>3
        <3> QED
            BY <2>2, <3>2, <1>1, <1>4
    <2> QED
        BY <2>1, <2>2
<1>6. RemoveAt(s, n) = a \o b
    BY DEF RemoveAt, a, b
<1> QED
    BY <1>4, <1>5, <1>6

(* A list that lost the positions D loses one more, x, when the element    *)
(* that x has become, its rank among the kept ones, is removed.            *)
LEMMA RemoveOneMore ==
    ASSUME NEW T, NEW s \in Seq(T), NEW D, NEW x \in DOMAIN s \ D
    PROVE  OnExpunge(Without(s, D), Rank(DOMAIN s \ D, x))
              = Without(s, D \cup {x})
<1> DEFINE K == DOMAIN s \ D
           L == DOMAIN s \ (D \cup {x})
           w == Without(s, D)
           z == Without(s, D \cup {x})
           r == Rank(K, x)
           c == Cardinality(K)
<1>1. L = K \ {x}
    OBVIOUS
<1>2. /\ IsFiniteSet(K) /\ K \subseteq Nat /\ c \in Nat
      /\ w \in Seq(T) /\ Len(w) = c
      /\ DOMAIN w = 1 .. c
      /\ \A i \in 1 .. c : w[i] = s[Nth(K, i)]
    BY WithoutType, Zenon
<1>3. /\ z \in Seq(T) /\ Len(z) = Cardinality(L)
      /\ \A i \in 1 .. Cardinality(L) : z[i] = s[Nth(L, i)]
    BY WithoutType, Zenon
<1>4. x \in K
    OBVIOUS
<1> HIDE DEF K, L, w, z
<1>5. /\ Cardinality(L) = c - 1
      /\ \A i \in 1 .. c - 1 : Nth(L, i) = Nth(K, IF i < r THEN i ELSE i + 1)
    BY <1>1, <1>2, <1>4, NthWithout
<1>6. r \in 1 .. c
    BY <1>2, <1>4, RankType
<1>7. OnExpunge(w, r) = RemoveAt(w, r)
    BY <1>2, <1>6 DEF OnExpunge
<1>8. /\ RemoveAt(w, r) \in Seq(T) /\ Len(RemoveAt(w, r)) = c - 1
      /\ \A i \in 1 .. c - 1 :
            RemoveAt(w, r)[i] = w[IF i < r THEN i ELSE i + 1]
    BY <1>2, <1>6, RemoveAtElements
<1>9. ASSUME NEW i \in 1 .. c - 1
      PROVE  RemoveAt(w, r)[i] = z[i]
    <2> DEFINE j == IF i < r THEN i ELSE i + 1
    <2>1. j \in 1 .. c
        BY <1>2, <1>6
    <2>2. RemoveAt(w, r)[i] = w[j] /\ Nth(L, i) = Nth(K, j)
        BY <1>5, <1>8
    <2> HIDE DEF j
    <2>3. w[j] = s[Nth(K, j)]
        BY <1>2, <2>1
    <2>4. z[i] = s[Nth(L, i)]
        BY <1>3, <1>5
    <2> QED
        BY <2>2, <2>3, <2>4
<1>10. RemoveAt(w, r) = z
    BY <1>3, <1>5, <1>8, <1>9
<1> QED
    BY <1>7, <1>10 DEF K, w, z

(* Nothing taken out, nothing changed. *)
LEMMA WithoutNothing ==
    ASSUME NEW T, NEW s \in Seq(T)
    PROVE  Without(s, {}) = s
<1> DEFINE K == DOMAIN s \ {}
<1>1. K = 1 .. Len(s) /\ Len(s) \in Nat
    OBVIOUS
<1>2. IsFiniteSet(K) /\ K \subseteq Nat /\ Cardinality(K) = Len(s)
    BY <1>1, FS_Interval
<1>3. /\ Without(s, {}) \in Seq(T) /\ Len(Without(s, {})) = Cardinality(K)
      /\ \A i \in 1 .. Cardinality(K) : Without(s, {})[i] = s[Nth(K, i)]
    <2> DEFINE none == {}
    <2> HIDE DEF none
    <2>1. /\ Without(s, none) \in Seq(T)
          /\ Len(Without(s, none)) = Cardinality(DOMAIN s \ none)
          /\ \A i \in 1 .. Cardinality(DOMAIN s \ none) :
                Without(s, none)[i] = s[Nth(DOMAIN s \ none, i)]
        BY WithoutType, Zenon
    <2> QED
        BY <2>1 DEF none
<1> HIDE DEF K
<1>4. ASSUME NEW i \in 1 .. Len(s)
      PROVE  Nth(K, i) = i
    <2>1. {k \in K : k <= i} = 1 .. i
        BY <1>1
    <2>2. Rank(K, i) = i
        <3>1. Cardinality(1 .. i) = IF 1 > i THEN 0 ELSE i - 1 + 1
            BY FS_Interval
        <3>2. i \in Nat /\ 1 <= i
            BY <1>1
        <3>3. Cardinality(1 .. i) = i
            BY <3>1, <3>2
        <3> QED
            BY <2>1, <3>3 DEF Rank
    <2>3. Nth(K, Rank(K, i)) = i
        BY <1>1, <1>2, RankNth
    <2> QED
        BY <2>2, <2>3
<1> QED
    BY <1>2, <1>3, <1>4

-----------------------------------------------------------------------------
(* What the client is left with after a run of EXPUNGE responses. *)

(* A property of 0 that each number hands on to the next holds up to n.    *)
LEMMA CountUp ==
    ASSUME NEW n \in Nat, NEW G, 0 \in G,
           \A k \in 1 .. n : k - 1 \in G => k \in G
    PROVE  \A k \in 0 .. n : k \in G
<1> DEFINE B == {k \in 0 .. n : k \notin G}
<1> SUFFICES ASSUME B # {}
             PROVE  FALSE
    OBVIOUS
<1>1. B \subseteq Nat
    OBVIOUS
<1>2. PICK x \in B : \A y \in B : x <= y
    <2> HIDE DEF B
    <2> QED
        BY <1>1, LeastOf
<1>3. x \in 1 .. n /\ x - 1 \in 0 .. n /\ ~(x <= x - 1)
    BY <1>2
<1>4. x - 1 \in G
    BY <1>2, <1>3
<1> QED
    BY <1>3, <1>4

(* OnExpunge takes lists to lists. *)
LEMMA OnExpungeType ==
    ASSUME NEW T, NEW s \in Seq(T), NEW n
    PROVE  OnExpunge(s, n) \in Seq(T)
<1>1. CASE n \in DOMAIN s
    BY <1>1, RemoveAtElements DEF OnExpunge
<1>2. CASE n \notin DOMAIN s
    BY <1>2 DEF OnExpunge
<1> QED
    BY <1>1, <1>2

(* Expunged applies the responses one after the other: the recursive       *)
(* function in it exists and is determined by its equations.               *)
LEMMA ExpungedSteps ==
    ASSUME NEW T, NEW v \in Seq(T), NEW numbers, Len(numbers) \in Nat
    PROVE  \E f \in [0 .. Len(numbers) -> Seq(T)] :
              /\ f[0] = v
              /\ \A k \in 1 .. Len(numbers) :
                    f[k] = OnExpunge(f[k - 1], numbers[k])
              /\ Expunged(v, numbers) = f[Len(numbers)]
<1> DEFINE n == Len(numbers)
           F == [0 .. n -> Seq(T)]
           G == {m \in Nat : \E f \in F :
                    /\ f[0] = v
                    /\ \A k \in 1 .. n :
                          k <= m => f[k] = OnExpunge(f[k - 1], numbers[k])}
<1>0. n \in Nat
    OBVIOUS
<1> HIDE DEF n
<1>1. 0 \in G
    <2> DEFINE f == [k \in 0 .. n |-> v]
    <2>1. f \in F /\ f[0] = v
        BY <1>0
    <2>2. \A k \in 1 .. n : ~(k <= 0)
        BY <1>0
    <2> HIDE DEF f
    <2>3. \A k \in 1 .. n : k <= 0 => f[k] = OnExpunge(f[k - 1], numbers[k])
        BY <2>2
    <2> QED
        BY <2>1, <2>3
<1>2. ASSUME NEW m \in 1 .. n, m - 1 \in G
      PROVE  m \in G
    <2>1. PICK f \in F :
             /\ f[0] = v
             /\ \A k \in 1 .. n :
                   k <= m - 1 => f[k] = OnExpunge(f[k - 1], numbers[k])
        BY <1>2
    <2> DEFINE e == OnExpunge(f[m - 1], numbers[m])
               h == [f EXCEPT ![m] = e]
    <2>2. m - 1 \in 0 .. n /\ m \in 0 .. n /\ m # 0 /\ m \in Nat
        BY <1>0
    <2>3. e \in Seq(T)
        BY <2>2, OnExpungeType
    <2> HIDE DEF e
    <2>4. h \in F /\ h[0] = v
        BY <1>0, <2>1, <2>2, <2>3
    <2>5. ASSUME NEW k \in 1 .. n, k <= m
          PROVE  h[k] = OnExpunge(h[k - 1], numbers[k])
        <3>1. k - 1 \in 0 .. n /\ k \in 0 .. n /\ k - 1 # m
            BY <1>0, <2>2, <2>5
        <3>2. h[k - 1] = f[k - 1]
            BY <3>1
        <3>3. CASE k = m
            <4>1. h[k] = e
                BY <3>3, <2>2
            <4> HIDE DEF h
            <4> QED
                BY <3>2, <3>3, <4>1 DEF e
        <3>4. CASE k # m
            <4>1. k <= m - 1
                BY <3>4, <2>2, <2>5
            <4>2. h[k] = f[k]
                BY <3>1, <3>4
            <4> HIDE DEF h
            <4> QED
                BY <2>1, <3>2, <4>1, <4>2
        <3> QED
            BY <3>3, <3>4
    <2> HIDE DEF h
    <2>6. \A k \in 1 .. n :
             k <= m => h[k] = OnExpunge(h[k - 1], numbers[k])
        BY <2>5
    <2> QED
        BY <2>2, <2>4, <2>6
<1>3. n \in G
    <2>1. n \in 0 .. n
        BY <1>0
    <2> HIDE DEF G
    <2>2. \A m \in 0 .. n : m \in G
        BY <1>0, <1>1, <1>2, CountUp
    <2> QED
        BY <2>1, <2>2
<1>4. PICK f \in F :
         /\ f[0] = v
         /\ \A k \in 1 .. n :
               k <= n => f[k] = OnExpunge(f[k - 1], numbers[k])
    BY <1>3
<1>5. \A k \in 1 .. n : f[k] = OnExpunge(f[k - 1], numbers[k])
    BY <1>0, <1>4
<1> DEFINE Body(g) == [k \in 0 .. n |-> IF k = 0 THEN v
                                        ELSE OnExpunge(g[k - 1], numbers[k])]
           a == CHOOSE g : g = Body(g)
<1>6. f = Body(f)
    <2>1. \A k \in 0 .. n : k = 0 \/ k \in 1 .. n
        BY <1>0
    <2>2. \A k \in 0 .. n : f[k] = Body(f)[k]
        BY <2>1, <1>4, <1>5
    <2> QED
        BY <2>2
<1>7. a = Body(a)
    <2> HIDE DEF Body
    <2> QED
        BY <1>6
<1>8. Expunged(v, numbers) = a[n]
    BY DEF Expunged, n
<1> HIDE DEF a
<1>9. a[n] = f[n]
    <2> DEFINE E == {k \in 0 .. n : a[k] = f[k]}
    <2>1. 0 \in E
        BY <1>0, <1>4, <1>7
    <2>2. ASSUME NEW k \in 1 .. n, k - 1 \in E
          PROVE  k \in E
        <3>1. k \in 0 .. n /\ k # 0
            BY <1>0
        <3>2. a[k] = OnExpunge(a[k - 1], numbers[k])
            BY <1>7, <3>1
        <3>3. a[k - 1] = f[k - 1]
            BY <2>2
        <3> QED
            BY <3>1, <3>2, <3>3, <1>5
    <2>3. n \in E
        <3>1. n \in 0 .. n
            BY <1>0
        <3> HIDE DEF E
        <3>2. \A m \in 0 .. n : m \in E
            BY <1>0, <2>1, <2>2, CountUp
        <3> QED
            BY <3>1, <3>2
    <2> QED
        BY <2>3
<1> QED
    BY <1>4, <1>5, <1>8, <1>9 DEF n

(* The client's list is a list whatever numbers it is told. *)
LEMMA ExpungedType ==
    ASSUME NEW T, NEW v \in Seq(T), NEW numbers, Len(numbers) \in Nat
    PROVE  Expunged(v, numbers) \in Seq(T)
<1>1. PICK f \in [0 .. Len(numbers) -> Seq(T)] :
         Expunged(v, numbers) = f[Len(numbers)]
    BY ExpungedSteps
<1>2. Len(numbers) \in 0 .. Len(numbers)
    OBVIOUS
<1> QED
    BY <1>1, <1>2

(* The numbers name the positions x[1], x[2], ... of v, each counted among *)
(* the ones that are still there.                                          *)
NamedInTurn(v, x, numbers, c) ==
    \A k \in 1 .. c :
        /\ x[k] \in DOMAIN v \ {x[j] : j \in 1 .. k - 1}
        /\ numbers[k] = Rank(DOMAIN v \ {x[j] : j \in 1 .. k - 1}, x[k])

(* The responses take out the positions x[1], x[2], ... of the list when   *)
(* each number is the rank of its position among the ones still there.     *)
LEMMA ExpungedIsWithout ==
    ASSUME NEW T, NEW v \in Seq(T), NEW numbers, NEW c \in Nat,
           Len(numbers) = c, NEW x, NamedInTurn(v, x, numbers, c)
    PROVE  Expunged(v, numbers) = Without(v, {x[j] : j \in 1 .. c})
<1>1. PICK f \in [0 .. c -> Seq(T)] :
         /\ f[0] = v
         /\ \A k \in 1 .. c : f[k] = OnExpunge(f[k - 1], numbers[k])
         /\ Expunged(v, numbers) = f[c]
    BY ExpungedSteps
<1> DEFINE D(k) == {x[j] : j \in 1 .. k}
           E == {k \in Nat : f[k] = Without(v, D(k))}
<1>2. 0 \in E
    <2>1. D(0) = {}
        OBVIOUS
    <2>2. Without(v, {}) = v
        BY WithoutNothing
    <2> QED
        BY <1>1, <2>1, <2>2
<1>3. ASSUME NEW k \in 1 .. c, k - 1 \in E
      PROVE  k \in E
    <2>1. f[k] = OnExpunge(Without(v, D(k - 1)), numbers[k])
        BY <1>1, <1>3
    <2>2. /\ x[k] \in DOMAIN v \ D(k - 1)
          /\ numbers[k] = Rank(DOMAIN v \ D(k - 1), x[k])
        BY DEF NamedInTurn
    <2>3. D(k - 1) \cup {x[k]} = D(k)
        <3>1. \A j \in Nat : j \in 1 .. k <=> j \in 1 .. k - 1 \/ j = k
            OBVIOUS
        <3>2. 1 .. k \subseteq Nat /\ 1 .. k - 1 \subseteq Nat /\ k \in Nat
            OBVIOUS
        <3> QED
            BY <3>1, <3>2
    <2> HIDE DEF D
    <2>4. f[k] = Without(v, D(k))
        <3>1. OnExpunge(Without(v, D(k - 1)), Rank(DOMAIN v \ D(k - 1), x[k]))
                 = Without(v, D(k - 1) \cup {x[k]})
            <4>1. ASSUME NEW d, NEW y \in DOMAIN v \ d
                  PROVE  OnExpunge(Without(v, d), Rank(DOMAIN v \ d, y))
                            = Without(v, d \cup {y})
                BY RemoveOneMore
            <4> QED
                BY <2>2, <4>1
        <3> QED
            BY <2>1, <2>2, <2>3, <3>1
    <2> QED
        BY <2>4
<1>4. c \in E
    <2>1. c \in 0 .. c
        OBVIOUS
    <2> HIDE DEF E
    <2>2. \A m \in 0 .. c : m \in E
        BY <1>2, <1>3, CountUp
    <2> QED
        BY <2>1, <2>2
<1> QED
    BY <1>1, <1>4

(* A set of positions is a finite set of numbers, each its own rank among  *)
(* all the positions.                                                      *)
LEMMA Positions ==
    ASSUME NEW T, NEW v \in Seq(T), NEW S \in SUBSET (DOMAIN v)
    PROVE  /\ IsFiniteSet(S) /\ S \subseteq Nat /\ Cardinality(S) \in Nat
           /\ \A n \in S : n \in Nat /\ 1 <= n /\ 1 .. n \subseteq DOMAIN v
           /\ \A n \in S : IsFiniteSet(1 .. n) /\ Cardinality(1 .. n) = n
           /\ \A n \in S : {k \in DOMAIN v : k <= n} = 1 .. n
<1>1. DOMAIN v = 1 .. Len(v) /\ Len(v) \in Nat
    OBVIOUS
<1>2. IsFiniteSet(DOMAIN v)
    BY <1>1, FS_Interval
<1>3. IsFiniteSet(S) /\ Cardinality(S) \in Nat
    BY <1>2, FS_Subset, FS_CardinalityType
<1>4. S \subseteq Nat
    BY <1>1
<1>5. ASSUME NEW n \in S
      PROVE  /\ n \in Nat /\ 1 <= n /\ 1 .. n \subseteq DOMAIN v
             /\ {k \in DOMAIN v : k <= n} = 1 .. n
    BY <1>1
<1>6. ASSUME NEW n \in S
      PROVE  IsFiniteSet(1 .. n) /\ Cardinality(1 .. n) = n
    <2>1. /\ IsFiniteSet(1 .. n)
          /\ Cardinality(1 .. n) = IF 1 > n THEN 0 ELSE n - 1 + 1
        <3>1. 1 \in Int /\ n \in Int
            BY <1>5
        <3> QED
            BY <3>1, FS_Interval
    <2> QED
        BY <1>5, <2>1
<1> QED
    BY <1>3, <1>4, <1>5, <1>6

(* check_new_mail's responses: the numbers as they were before the update, *)
(* highest first, so that no later one is shifted by an earlier one.       *)
LEMMA DescendingExpunges ==
    ASSUME NEW T, NEW v \in Seq(T), NEW S \in SUBSET (DOMAIN v)
    PROVE  Expunged(v, Descending(S)) = Without(v, S)
<1> DEFINE c == Cardinality(S)
           x == Descending(S)
<1>1. IsFiniteSet(S) /\ S \subseteq Nat /\ c \in Nat
    BY Positions
<1>2. /\ Len(x) = c /\ DOMAIN x = 1 .. c
      /\ \A k \in 1 .. c : x[k] = Nth(S, c + 1 - k)
    BY <1>1 DEF Descending
<1> HIDE DEF x
<1>3. \A k \in 1 .. c : c + 1 - k \in 1 .. c
    BY <1>1
<1>4. \A k \in 1 .. c : x[k] \in S
    <2> TAKE k \in 1 .. c
    <2>1. Nth(S, c + 1 - k) \in S
        BY <1>1, <1>3, NthRank
    <2> QED
        BY <1>2, <2>1
<1>5. ASSUME NEW k \in 1 .. c
      PROVE  /\ x[k] \in DOMAIN v \ {x[j] : j \in 1 .. k - 1}
             /\ x[k] = Rank(DOMAIN v \ {x[j] : j \in 1 .. k - 1}, x[k])
    <2> DEFINE D == {x[j] : j \in 1 .. k - 1}
    <2>1. ASSUME NEW j \in 1 .. k - 1
          PROVE  x[k] < x[j]
        <3>1. j \in 1 .. c /\ c + 1 - k < c + 1 - j
            BY <1>1
        <3> QED
            BY <1>1, <1>2, <1>3, <3>1, NthMono
    <2>2. /\ x[k] \in Nat /\ 1 .. x[k] \subseteq DOMAIN v
          /\ Cardinality(1 .. x[k]) = x[k]
          /\ {n \in DOMAIN v : n <= x[k]} = 1 .. x[k]
          /\ x[k] \in DOMAIN v
        BY <1>4, Positions
    <2>3. \A d \in D : d \in Nat /\ x[k] < d
        <3>1. \A j \in 1 .. k - 1 : j \in 1 .. c
            BY <1>1
        <3> QED
            BY <1>1, <1>4, <2>1, <3>1
    <2> HIDE DEF D
    <2>4. x[k] \notin D
        BY <2>2, <2>3
    <2>5. \A n \in DOMAIN v : n <= x[k] => n \notin D
        BY <2>2, <2>3
    <2>6. {n \in DOMAIN v \ D : n <= x[k]} = 1 .. x[k]
        BY <2>2, <2>5
    <2> QED
        BY <2>2, <2>4, <2>6 DEF Rank, D
<1>6. {x[j] : j \in 1 .. c} = S
    <2>1. ASSUME NEW n \in S
          PROVE  n \in {x[j] : j \in 1 .. c}
        <3>1. Rank(S, n) \in 1 .. c /\ Nth(S, Rank(S, n)) = n
            BY <1>1, RankType, RankNth
        <3>2. /\ c + 1 - Rank(S, n) \in 1 .. c
              /\ c + 1 - (c + 1 - Rank(S, n)) = Rank(S, n)
            BY <1>1, <3>1
        <3>3. x[c + 1 - Rank(S, n)] = n
            BY <1>2, <3>1, <3>2
        <3> QED
            BY <3>2, <3>3
    <2> QED
        BY <1>4, <2>1
<1>7. Expunged(v, x) = Without(v, {x[j] : j \in 1 .. c})
    <2> HIDE DEF c
    <2>1. NamedInTurn(v, x, x, c)
        BY <1>5 DEF NamedInTurn
    <2> QED
        BY <1>1, <1>2, <2>1, ExpungedIsWithout
<1> QED
    BY <1>6, <1>7 DEF x

(* The responses of EXPUNGE and MOVE: from the front, each number counted  *)
(* after the removals before it.                                           *)
LEMMA ShiftedExpunges ==
    ASSUME NEW T, NEW v \in Seq(T), NEW S \in SUBSET (DOMAIN v)
    PROVE  Expunged(v, ExpungeNumbers(S)) = Without(v, S)
<1> DEFINE c == Cardinality(S)
           x == Ascending(S)
           numbers == ExpungeNumbers(S)
<1>1. IsFiniteSet(S) /\ S \subseteq Nat /\ c \in Nat
    BY Positions
<1>2. /\ DOMAIN x = 1 .. c
      /\ \A k \in 1 .. c : x[k] = Nth(S, k)
    BY <1>1 DEF Ascending
<1>3. Len(numbers) = c /\ \A k \in 1 .. c : numbers[k] = x[k] - (k - 1)
    BY <1>1, <1>2 DEF ExpungeNumbers
<1> HIDE DEF x, numbers
<1>4. \A k \in 1 .. c : x[k] \in S
    BY <1>1, <1>2, NthRank
<1>5. \A j, k \in 1 .. c : j < k => x[j] < x[k]
    BY <1>1, <1>2, NthMono
<1>6. ASSUME NEW k \in 1 .. c
      PROVE  /\ x[k] \in DOMAIN v \ {x[j] : j \in 1 .. k - 1}
             /\ numbers[k] = Rank(DOMAIN v \ {x[j] : j \in 1 .. k - 1}, x[k])
    <2> DEFINE D == {x[j] : j \in 1 .. k - 1}
    <2>1. \A j \in 1 .. k - 1 : j \in 1 .. c /\ j < k
        BY <1>1
    <2>2. /\ x[k] \in Nat /\ 1 .. x[k] \subseteq DOMAIN v
          /\ IsFiniteSet(1 .. x[k]) /\ Cardinality(1 .. x[k]) = x[k]
          /\ {n \in DOMAIN v : n <= x[k]} = 1 .. x[k]
          /\ x[k] \in DOMAIN v
        BY <1>4, Positions
    <2>3. \A d \in D : d \in Nat /\ 1 <= d /\ d < x[k]
        <3>1. \A n \in S : n \in Nat /\ 1 <= n
            BY Positions
        <3> QED
            BY <1>4, <1>5, <2>1, <3>1
    <2>4. IsFiniteSet(D) /\ Cardinality(D) = k - 1
        <3>1. IsFiniteSet(1 .. k - 1) /\ Cardinality(1 .. k - 1) = k - 1
            <4>1. /\ IsFiniteSet(1 .. k - 1)
                  /\ Cardinality(1 .. k - 1)
                        = IF 1 > k - 1 THEN 0 ELSE (k - 1) - 1 + 1
                <5>1. 1 \in Int /\ k - 1 \in Int
                    BY <1>1
                <5> QED
                    BY <5>1, FS_Interval
            <4> QED
                BY <1>1, <4>1
        <3>2. \A a, b \in 1 .. k - 1 : x[a] = x[b] => a = b
            <4> TAKE a, b \in 1 .. k - 1
            <4>1. x[a] \in Nat /\ x[b] \in Nat
                BY <2>3
            <4>2. (a < b => x[a] < x[b]) /\ (b < a => x[b] < x[a])
                BY <1>5, <2>1
            <4> QED
                BY <4>1, <4>2
        <3>3. 1 .. k - 1 \subseteq DOMAIN x
            BY <1>2, <2>1
        <3> QED
            BY <3>1, <3>2, <3>3, ImageSize
    <2> HIDE DEF D
    <2>5. x[k] \notin D
        BY <2>2, <2>3
    <2>6. {n \in DOMAIN v \ D : n <= x[k]} = (1 .. x[k]) \ D
        BY <2>2
    <2>7. D \subseteq 1 .. x[k]
        BY <2>2, <2>3
    <2>8. Cardinality((1 .. x[k]) \ D) = x[k] - (k - 1)
        <3>1. (1 .. x[k]) \cap D = D
            BY <2>7
        <3>2. Cardinality((1 .. x[k]) \ D)
                 = Cardinality(1 .. x[k]) - Cardinality((1 .. x[k]) \cap D)
            BY <2>2, FS_Difference
        <3> QED
            BY <2>2, <2>4, <3>1, <3>2
    <2> QED
        BY <1>3, <2>2, <2>5, <2>6, <2>8 DEF Rank, D
<1>7. {x[j] : j \in 1 .. c} = S
    <2>1. ASSUME NEW n \in S
          PROVE  n \in {x[j] : j \in 1 .. c}
        <3>1. Rank(S, n) \in 1 .. c /\ Nth(S, Rank(S, n)) = n
            BY <1>1, RankType, RankNth
        <3> QED
            BY <1>2, <3>1
    <2> QED
        BY <1>4, <2>1
<1>8. Expunged(v, numbers) = Without(v, {x[j] : j \in 1 .. c})
    <2> HIDE DEF c
    <2>1. NamedInTurn(v, x, numbers, c)
        BY <1>6 DEF NamedInTurn
    <2> QED
        BY <1>1, <1>3, <2>1, ExpungedIsWithout
<1> QED
    BY <1>7, <1>8 DEF numbers

-----------------------------------------------------------------------------
(* The inductive invariant. *)

(* Every mail and UID that is in the store, in the session's list or in    *)
(* the client's was borne.                                                 *)
Bearers ==
    Bearing \cup {Shown(mails[i]) : i \in DOMAIN mails}
        \cup {view[i] : i \in Fetched}

BearInv == Bearers \subseteq borne

(* No mail is twice in the list, and a flagged mail was picked.            *)
ListInv ==
    /\ \A i, j \in DOMAIN mails : mails[i].mail = mails[j].mail => i = j
    /\ \A i \in DOMAIN mails : mails[i].deleted => mails[i].mail \in picked

(* Between the two reads of check_new_mail: the numbers taken are those of *)
(* the mails that were gone.                                               *)
CheckInv ==
    checking # None =>
        checking.expunges
            = {i \in DOMAIN mails : mails[i].mail \notin checking.seen}

AscendingUids ==
    \A i, j \in DOMAIN mails : i < j => mails[i].uid < mails[j].uid

(* As long as no mail had a misfit UID: the list is by ascending UID, a    *)
(* mail of the store that is not in it came after all that are, or left    *)
(* through the session, and none of the mails that were gone at the first  *)
(* read has its UID back.                                                  *)
OrderInv ==
    ~misfit =>
        /\ Fit(borne, nextUid)
        /\ AscendingUids
        /\ \A m \in InStore \ InSession :
              \/ m \in leaving
              \/ \A i \in DOMAIN mails : mails[i].uid < store[m]
        /\ checking # None =>
              \A i \in checking.expunges : store[mails[i].mail] # mails[i].uid

SessionInv ==
    /\ SessionTypeOK
    /\ BearInv
    /\ ListInv
    /\ CheckInv
    /\ OrderInv
    /\ ~untold => NumbersMatch
    /\ ~astray

-----------------------------------------------------------------------------
(* The lists refresh_mails makes. *)

(* The places of a list are its numbers. *)
LEMMA NthInterval ==
    ASSUME NEW n \in Nat, NEW i \in 1 .. n
    PROVE  /\ IsFiniteSet(1 .. n) /\ 1 .. n \subseteq Nat
           /\ Cardinality(1 .. n) = n
           /\ Nth(1 .. n, i) = i
<1>1. \A k \in Nat : k > 0 => IsFiniteSet(1 .. k) /\ Cardinality(1 .. k) = k
    <2> TAKE k \in Nat
    <2>1. 1 \in Int /\ k \in Int
        OBVIOUS
    <2>2. /\ IsFiniteSet(1 .. k)
          /\ Cardinality(1 .. k) = IF 1 > k THEN 0 ELSE k - 1 + 1
        BY <2>1, FS_Interval
    <2> QED
        BY <2>2
<1>2. i \in Nat /\ i > 0 /\ n > 0
    OBVIOUS
<1>3. {k \in 1 .. n : k <= i} = 1 .. i
    OBVIOUS
<1>4. Rank(1 .. n, i) = i
    BY <1>1, <1>2, <1>3 DEF Rank
<1>5. IsFiniteSet(1 .. n) /\ Cardinality(1 .. n) = n /\ 1 .. n \subseteq Nat
    BY <1>1, <1>2
<1>6. Nth(1 .. n, Rank(1 .. n, i)) = i
    BY <1>5, RankNth
<1> QED
    BY <1>4, <1>5, <1>6

(* A refreshed list holds each mail of the folder once, with the UID it    *)
(* has in the store, in the order of the UIDs, and no flag.                *)
LEMMA RefreshFacts ==
    ASSUME SessionTypeOK, NEW R \in RefreshMails
    PROVE  LET n == Cardinality(InStore) IN
           /\ n \in Nat
           /\ R \in Seq(CachedMail) /\ Len(R) = n /\ DOMAIN R = 1 .. n
           /\ \A i \in 1 .. n :
                 /\ R[i].mail \in InStore
                 /\ R[i].uid = store[R[i].mail]
                 /\ R[i].uid \in Nat
                 /\ R[i].deleted = FALSE
           /\ \A m \in InStore : \E i \in 1 .. n : R[i].mail = m
           /\ \A i, j \in 1 .. n : i < j => R[i].uid <= R[j].uid
           /\ \A i, j \in 1 .. n : R[i].mail = R[j].mail => i = j
<1> DEFINE n == Cardinality(InStore)
<1>1. store \in [Mail -> Nat \cup {None}] /\ InStore \in SUBSET Mail
    BY DEF SessionTypeOK, InStore
<1>2. IsFiniteSet(InStore) /\ n \in Nat
    BY <1>1, SessionAssumption, FS_Subset, FS_CardinalityType
<1>3. \A m \in InStore : m \in Mail /\ store[m] \in Nat
    BY <1>1 DEF InStore
<1>4. PICK order \in SetToSeqs(InStore) :
         /\ \A i, j \in DOMAIN order :
               i < j => store[order[i]] <= store[order[j]]
         /\ R = [i \in DOMAIN order |->
                    [mail |-> order[i], uid |-> store[order[i]],
                     deleted |-> FALSE]]
    BY DEF RefreshMails
<1>5. /\ order \in [1 .. n -> InStore]
      /\ \A i, j \in 1 .. n : i # j => order[i] # order[j]
    BY DEF SetToSeqs
<1> HIDE DEF n
<1>6. order \in Injection(1 .. n, InStore)
    BY <1>5 DEF Injection, IsInjective
<1>7. IsFiniteSet(1 .. n) /\ Cardinality(1 .. n) = n
    <2>1. /\ IsFiniteSet(1 .. n)
          /\ Cardinality(1 .. n) = IF 1 > n THEN 0 ELSE n - 1 + 1
        BY <1>2, FS_Interval
    <2> QED
        BY <1>2, <2>1
<1>8. order \in Surjection(1 .. n, InStore)
    BY <1>2, <1>6, <1>7, FS_Injection DEF n
<1>9. ASSUME NEW i \in 1 .. n
      PROVE  /\ R[i] \in CachedMail
             /\ R[i].mail = order[i]
             /\ R[i].mail \in InStore
             /\ R[i].uid = store[R[i].mail]
             /\ R[i].uid \in Nat
             /\ R[i].deleted = FALSE
    <2>1. R[i] = [mail |-> order[i], uid |-> store[order[i]],
                  deleted |-> FALSE]
        BY <1>4, <1>5
    <2>2. order[i] \in InStore
        BY <1>5
    <2> QED
        BY <1>3, <2>1, <2>2 DEF CachedMail
<1>10. R \in Seq(CachedMail) /\ Len(R) = n /\ DOMAIN R = 1 .. n
    <2>1. DOMAIN R = 1 .. n /\ R = [i \in 1 .. n |-> R[i]]
        BY <1>4, <1>5
    <2>2. R \in [1 .. n -> CachedMail]
        BY <2>1, <1>9
    <2> QED
        BY <1>2, <2>1, <2>2
<1>a. \A i \in 1 .. n : R[i].mail = order[i]
    BY <1>9
<1>11. \A m \in InStore : \E i \in 1 .. n : R[i].mail = m
    <2>1. \A m \in InStore : \E i \in 1 .. n : order[i] = m
        BY <1>8 DEF Surjection
    <2> QED
        BY <1>a, <2>1, Zenon
<1>12. \A i, j \in 1 .. n : i < j => R[i].uid <= R[j].uid
    BY <1>4, <1>5, <1>9
<1>13. \A i, j \in 1 .. n : R[i].mail = R[j].mail => i = j
    BY <1>5, <1>a, Zenon
<1> QED
    BY <1>2, <1>9, <1>10, <1>11, <1>12, <1>13 DEF n

(* The entries of the session's list. *)
LEMMA ListedType ==
    ASSUME SessionTypeOK
    PROVE  /\ mails \in Seq(CachedMail)
           /\ \A i \in DOMAIN mails :
                 /\ mails[i] \in CachedMail
                 /\ mails[i].mail \in Mail
                 /\ mails[i].uid \in Nat
                 /\ mails[i].deleted \in BOOLEAN
<1>1. mails \in Seq(CachedMail)
    BY DEF SessionTypeOK
<1>2. \A i \in DOMAIN mails : mails[i] \in CachedMail
    BY <1>1
<1>3. \A c \in CachedMail : /\ c.mail \in Mail
                            /\ c.uid \in Nat
                            /\ c.deleted \in BOOLEAN
    BY DEF CachedMail
<1> QED
    BY <1>1, <1>2, <1>3

(* The client's list, and what it means by a name. *)
LEMMA ViewType ==
    ASSUME SessionTypeOK
    PROVE  /\ view \in Seq([mail : Mail, uid : Nat] \cup {None})
           /\ DOMAIN view = 1 .. Len(view) /\ Len(view) \in Nat
           /\ DOMAIN mails = 1 .. Len(mails) /\ Len(mails) \in Nat
           /\ \A i \in Fetched : /\ i \in DOMAIN view
                                 /\ view[i].mail \in Mail
BY DEF SessionTypeOK, Fetched

LEMMA MeantType ==
    ASSUME SessionTypeOK, NEW names
    PROVE  Meant(names) \subseteq Mail
BY ViewType DEF Meant, Named

(* As long as the UIDs fit, those of the session's list are past and those *)
(* of the store are one mail's.                                            *)
LEMMA ListedUids ==
    ASSUME SessionTypeOK, BearInv, Fit(borne, nextUid)
    PROVE  \A i \in DOMAIN mails :
              mails[i].uid < nextUid /\ mails[i].uid \in Nat
<1> TAKE i \in DOMAIN mails
<1>1. Shown(mails[i]) \in borne
    BY DEF Bearers, BearInv
<1>2. Shown(mails[i]).uid < nextUid
    BY <1>1 DEF Fit
<1>3. Shown(mails[i]).uid = mails[i].uid
    BY DEF Shown
<1>4. mails[i].uid \in Nat
    BY ListedType
<1> QED
    BY <1>2, <1>3, <1>4

LEMMA StoreOneToOne ==
    ASSUME SessionTypeOK, BearInv, Fit(borne, nextUid)
    PROVE  \A a, b \in InStore : store[a] = store[b] => a = b
<1> TAKE a, b \in InStore
<1> DEFINE p == [mail |-> a, uid |-> store[a]]
           q == [mail |-> b, uid |-> store[b]]
<1>1. p \in borne /\ q \in borne
    BY DEF Bearers, Bearing, BearInv
<1>2. p.uid = q.uid => p.mail = q.mail
    <2> HIDE DEF p, q
    <2> QED
        BY <1>1 DEF Fit
<1> QED
    BY <1>2

-----------------------------------------------------------------------------
(* Init *)

LEMMA SessionInit == Init => SessionInv
<1> SUFFICES ASSUME Init
             PROVE  SessionInv
    OBVIOUS
<1>1. PICK u \in [InitMails -> InitUids] :
         store = [m \in Mail |-> IF m \in InitMails THEN u[m] ELSE None]
    BY DEF Init
<1>2. /\ nextUid = InitNext /\ leaving = {} /\ dirty = FALSE
      /\ state = "NotAuthenticated" /\ selected = FALSE /\ mails = <<>>
      /\ idle = FALSE /\ checking = None /\ view = <<>> /\ picked = {}
      /\ untold = FALSE /\ astray = FALSE /\ changes = 0
      /\ borne = Bearing /\ misfit = ~Fit(borne, nextUid)
    BY DEF Init
<1>3. store \in [Mail -> Nat \cup {None}]
    BY <1>1, SessionAssumption
<1>4. Bearing \in SUBSET [mail : Mail, uid : Nat]
    BY <1>3 DEF Bearing, InStore
<1>5. SessionTypeOK
    <2>1. changes \in 0 .. MaxChanges /\ nextUid \in Nat \ {0}
        BY <1>2, SessionAssumption
    <2>2. /\ mails \in Seq(CachedMail)
          /\ view \in Seq([mail : Mail, uid : Nat] \cup {None})
        BY <1>2
    <2>3. misfit \in BOOLEAN
        BY <1>2 DEF Fit
    <2> QED
        BY <1>2, <1>3, <1>4, <2>1, <2>2, <2>3 DEF SessionTypeOK
<1>6. BearInv
    BY <1>2 DEF BearInv, Bearers, Fetched
<1>7. ListInv /\ CheckInv /\ NumbersMatch
    BY <1>2 DEF ListInv, CheckInv, NumbersMatch
<1>8. OrderInv
    <2>1. DOMAIN mails = {} /\ checking = None
        BY <1>2
    <2>2. ~misfit => Fit(borne, nextUid)
        BY <1>2
    <2> QED
        BY <2>1, <2>2, Zenon DEF OrderInv, AscendingUids
<1> QED
    BY <1>2, <1>5, <1>6, <1>7, <1>8 DEF SessionInv

-----------------------------------------------------------------------------
(* The folder's steps *)

(* A mail enters with some UID. *)
LEMMA EnterInv ==
    ASSUME SessionInv, NEW m \in Mail, NEW uid \in Nat, Enter(m, uid),
           nextUid' \in Nat \ {0}, misfit' \in BOOLEAN,
           ~misfit' => ~misfit /\ uid = nextUid /\ nextUid' = nextUid + 1
    PROVE  SessionInv'
<1>1. /\ changes < MaxChanges /\ changes' = changes + 1
      /\ store' = [store EXCEPT ![m] = uid]
      /\ borne' = borne \cup {[mail |-> m, uid |-> uid]}
      /\ leaving' = leaving \ {m} /\ dirty' = TRUE
      /\ state' = state /\ selected' = selected /\ idle' = idle
      /\ mails' = mails /\ checking' = checking /\ view' = view
      /\ picked' = picked /\ untold' = untold /\ astray' = astray
    BY DEF Enter, loginVars, clientVars, history
<1>2. SessionTypeOK /\ BearInv /\ ListInv /\ CheckInv /\ OrderInv /\ ~astray
      /\ (~untold => NumbersMatch)
    BY DEF SessionInv
<1>3. store \in [Mail -> Nat \cup {None}] /\ nextUid \in Nat \ {0}
      /\ borne \in SUBSET [mail : Mail, uid : Nat]
    BY <1>2 DEF SessionTypeOK
<1>4. SessionTypeOK'
    <2>1. MaxChanges \in Nat /\ changes \in 0 .. MaxChanges
        BY <1>2, SessionAssumption DEF SessionTypeOK
    <2>2. store' \in [Mail -> Nat \cup {None}]
        BY <1>1, <1>3
    <2>3. borne' \in SUBSET [mail : Mail, uid : Nat]
        BY <1>1, <1>3
    <2> QED
        BY <1>1, <1>2, <2>1, <2>2, <2>3 DEF SessionTypeOK
<1>5. /\ store'[m] = uid /\ \A x \in Mail : x # m => store'[x] = store[x]
      /\ InStore' = InStore \cup {m}
    BY <1>1, <1>3, SessionAssumption DEF InStore
<1>6. BearInv'
    <2>1. ASSUME NEW x \in InStore'
          PROVE  [mail |-> x, uid |-> store'[x]] \in borne'
        <3>1. CASE x = m
            BY <3>1, <1>1, <1>5
        <3>2. CASE x # m
            <4>1. x \in InStore /\ store'[x] = store[x]
                BY <3>2, <1>5 DEF InStore
            <4>2. [mail |-> x, uid |-> store[x]] \in borne
                BY <4>1, <1>2 DEF BearInv, Bearers, Bearing
            <4> QED
                BY <4>1, <4>2, <1>1
        <3> QED
            BY <3>1, <3>2
    <2>2. {Shown(mails[i]) : i \in DOMAIN mails}' \subseteq borne
          /\ {view[i] : i \in Fetched}' \subseteq borne
        BY <1>1, <1>2 DEF BearInv, Bearers, Fetched, Shown
    <2> QED
        BY <1>1, <2>1, <2>2 DEF BearInv, Bearers, Bearing
<1>7. ListInv' /\ CheckInv'
    BY <1>1, <1>2 DEF ListInv, CheckInv
<1>8. OrderInv'
    <2> SUFFICES ASSUME ~misfit'
                 PROVE  OrderInv'
        BY DEF OrderInv
    <2>1. /\ uid = nextUid /\ nextUid' = nextUid + 1 /\ Fit(borne, nextUid)
          /\ AscendingUids
          /\ \A x \in InStore \ InSession :
                \/ x \in leaving
                \/ \A i \in DOMAIN mails : mails[i].uid < store[x]
          /\ checking # None =>
                \A i \in checking.expunges :
                   store[mails[i].mail] # mails[i].uid
        BY <1>2 DEF OrderInv
    <2>2. \A i \in DOMAIN mails :
             mails[i].uid < nextUid /\ mails[i].uid \in Nat
        BY <1>2, <2>1, ListedUids
    <2>3. Fit(borne, nextUid)'
        <3> DEFINE p == [mail |-> m, uid |-> uid]
        <3>1. p.uid = nextUid /\ p.mail = m
            BY <2>1
        <3>2. borne' = borne \cup {p}
            BY <1>1
        <3> HIDE DEF p
        <3>3. \A a \in borne : a.uid < nextUid /\ a.uid \in Nat
            BY <1>3, <2>1 DEF Fit
        <3>4. \A a \in borne' : a.uid < nextUid'
            BY <1>3, <2>1, <3>1, <3>2, <3>3
        <3>5. \A a, b \in borne' : a.uid = b.uid => a.mail = b.mail
            <4> TAKE a, b \in borne'
            <4>1. CASE a \in borne /\ b \in borne
                BY <4>1, <2>1 DEF Fit
            <4>2. CASE a = p /\ b = p
                BY <4>2
            <4>3. CASE a \in borne /\ b = p
                BY <4>3, <1>3, <3>1, <3>3
            <4>4. CASE a = p /\ b \in borne
                BY <4>4, <1>3, <3>1, <3>3
            <4> QED
                BY <3>2, <4>1, <4>2, <4>3, <4>4
        <3> QED
            BY <3>4, <3>5 DEF Fit
    <2>4. InSession' = InSession
        BY <1>1 DEF InSession
    <2>5. ASSUME NEW x \in InStore' \ InSession'
          PROVE  x \in leaving' \/ \A i \in DOMAIN mails' :
                                      mails'[i].uid < store'[x]
        <3>1. CASE x = m
            BY <3>1, <1>1, <1>5, <2>1, <2>2
        <3>2. CASE x # m
            <4>1. x \in InStore \ InSession /\ store'[x] = store[x]
                  /\ (x \in leaving => x \in leaving')
                BY <3>2, <2>4, <1>1, <1>5 DEF InStore
            <4> QED
                BY <4>1, <1>1, <2>1
        <3> QED
            BY <3>1, <3>2
    <2>6. ASSUME checking # None, NEW i \in checking.expunges
          PROVE  store'[mails[i].mail] # mails[i].uid
        <3>1. i \in DOMAIN mails /\ mails[i].mail \in Mail
            BY <1>2, <2>6, ListedType DEF CheckInv
        <3>2. CASE mails[i].mail = m
            BY <3>1, <3>2, <1>3, <1>5, <2>1, <2>2
        <3>3. CASE mails[i].mail # m
            BY <3>1, <3>3, <1>5, <2>1, <2>6
        <3> QED
            BY <3>2, <3>3
    <2>7. AscendingUids'
        BY <1>1, <2>1 DEF AscendingUids
    <2> QED
        BY <1>1, <2>3, <2>5, <2>6, <2>7 DEF OrderInv
<1>9. (~untold => NumbersMatch)'
    BY <1>1, <1>2 DEF NumbersMatch, Shown
<1> QED
    BY <1>1, <1>2, <1>4, <1>6, <1>7, <1>8, <1>9 DEF SessionInv

LEMMA ArriveInv ==
    ASSUME SessionInv, NEW m \in Mail, Arrive(m) \/ ArriveWithoutUid(m)
    PROVE  SessionInv'
<1>1. nextUid \in Nat \ {0} /\ misfit \in BOOLEAN
    BY DEF SessionInv, SessionTypeOK
<1>2. CASE Arrive(m)
    <2>1. Enter(m, nextUid) /\ nextUid' = nextUid + 1 /\ misfit' = misfit
        BY <1>2 DEF Arrive
    <2>2. nextUid \in Nat /\ nextUid' \in Nat \ {0}
        BY <1>1, <2>1
    <2> QED
        BY <1>1, <2>1, <2>2, EnterInv
<1>3. CASE ArriveWithoutUid(m)
    <2>1. Enter(m, 0) /\ nextUid' = nextUid /\ misfit' = TRUE
        BY <1>3 DEF ArriveWithoutUid
    <2> QED
        BY <1>1, <2>1, EnterInv
<1> QED
    BY <1>2, <1>3

LEMMA RemoveMailInv ==
    ASSUME SessionInv, NEW m \in Mail, RemoveMail(m),
           changes' \in 0 .. MaxChanges
    PROVE  SessionInv'
<1>1. /\ store' = [store EXCEPT ![m] = None]
      /\ nextUid' = nextUid /\ leaving' = leaving \ {m} /\ dirty' = TRUE
      /\ state' = state /\ selected' = selected /\ idle' = idle
      /\ mails' = mails /\ checking' = checking /\ view' = view
      /\ picked' = picked /\ untold' = untold /\ astray' = astray
      /\ borne' = borne /\ misfit' = misfit
    BY DEF RemoveMail, loginVars, clientVars, uidVars, history
<1>2. SessionTypeOK /\ BearInv /\ ListInv /\ CheckInv /\ OrderInv /\ ~astray
      /\ (~untold => NumbersMatch)
    BY DEF SessionInv
<1>3. store \in [Mail -> Nat \cup {None}]
    BY <1>2 DEF SessionTypeOK
<1>4. SessionTypeOK'
    <2>1. store' \in [Mail -> Nat \cup {None}]
        BY <1>1, <1>3
    <2> QED
        BY <1>1, <1>2, <2>1 DEF SessionTypeOK
<1>5. /\ store'[m] = None /\ \A x \in Mail : x # m => store'[x] = store[x]
      /\ InStore' = InStore \ {m}
    BY <1>1, <1>3 DEF InStore
<1>6. BearInv'
    <2>1. ASSUME NEW x \in InStore'
          PROVE  [mail |-> x, uid |-> store'[x]] \in borne
        <3>1. x \in InStore /\ store'[x] = store[x]
            BY <1>5 DEF InStore
        <3> QED
            BY <3>1, <1>2 DEF BearInv, Bearers, Bearing
    <2>2. {Shown(mails[i]) : i \in DOMAIN mails}' \subseteq borne
          /\ {view[i] : i \in Fetched}' \subseteq borne
        BY <1>1, <1>2 DEF BearInv, Bearers, Fetched, Shown
    <2> QED
        BY <1>1, <2>1, <2>2 DEF BearInv, Bearers, Bearing
<1>7. ListInv' /\ CheckInv'
    BY <1>1, <1>2 DEF ListInv, CheckInv
<1>8. OrderInv'
    <2> SUFFICES ASSUME ~misfit
                 PROVE  OrderInv'
        BY <1>1 DEF OrderInv
    <2>1. /\ Fit(borne, nextUid) /\ AscendingUids
          /\ \A x \in InStore \ InSession :
                \/ x \in leaving
                \/ \A i \in DOMAIN mails : mails[i].uid < store[x]
          /\ checking # None =>
                \A i \in checking.expunges :
                   store[mails[i].mail] # mails[i].uid
        BY <1>2 DEF OrderInv
    <2>2. InSession' = InSession
        BY <1>1 DEF InSession
    <2>3. ASSUME NEW x \in InStore' \ InSession'
          PROVE  x \in leaving' \/ \A i \in DOMAIN mails' :
                                      mails'[i].uid < store'[x]
        <3>1. x \in InStore \ InSession /\ store'[x] = store[x]
              /\ (x \in leaving => x \in leaving')
            BY <2>2, <1>1, <1>5 DEF InStore
        <3> QED
            BY <3>1, <1>1, <2>1
    <2>4. ASSUME checking # None, NEW i \in checking.expunges
          PROVE  store'[mails[i].mail] # mails[i].uid
        <3>1. i \in DOMAIN mails /\ mails[i].mail \in Mail
              /\ mails[i].uid \in Nat
            BY <1>2, <2>4, ListedType DEF CheckInv
        <3>2. None \notin Nat
            BY SessionAssumption
        <3> QED
            BY <3>1, <3>2, <1>5, <2>1, <2>4
    <2>5. AscendingUids' /\ Fit(borne, nextUid)'
        BY <1>1, <2>1 DEF AscendingUids, Fit
    <2> QED
        BY <1>1, <2>3, <2>4, <2>5 DEF OrderInv
<1>9. (~untold => NumbersMatch)'
    BY <1>1, <1>2 DEF NumbersMatch, Shown
<1> QED
    BY <1>1, <1>2, <1>4, <1>6, <1>7, <1>8, <1>9 DEF SessionInv

LEMMA DepartInv ==
    ASSUME SessionInv, NEW m \in Mail, Depart(m)
    PROVE  SessionInv'
<1>1. changes' \in 0 .. MaxChanges
    BY SessionAssumption DEF Depart, SessionInv, SessionTypeOK
<1> QED
    BY <1>1, RemoveMailInv DEF Depart

LEMMA FollowInv ==
    ASSUME SessionInv, NEW m \in Mail, Follow(m)
    PROVE  SessionInv'
<1>1. changes' \in 0 .. MaxChanges
    BY DEF Follow, SessionInv, SessionTypeOK
<1> QED
    BY <1>1, RemoveMailInv DEF Follow

-----------------------------------------------------------------------------
(* The commands that leave the lists alone *)

LEMMA QuietInv ==
    ASSUME SessionInv, SessionTypeOK',
           UNCHANGED <<store, nextUid, leaving, mails, checking, view, picked,
                       borne, misfit, untold, astray>>
    PROVE  SessionInv'
<1>1. BearInv'
    BY DEF SessionInv, BearInv, Bearers, Bearing, InStore, Fetched, Shown
<1>2. ListInv' /\ CheckInv'
    BY DEF SessionInv, ListInv, CheckInv
<1>3. OrderInv'
    BY DEF SessionInv, OrderInv, AscendingUids, Fit, InStore, InSession
<1>4. (~untold => NumbersMatch)' /\ ~astray'
    BY DEF SessionInv, NumbersMatch, Shown
<1> QED
    BY <1>1, <1>2, <1>3, <1>4 DEF SessionInv

(* LOGIN, AUTHENTICATE, IDLE and DONE. *)
LEMMA LoginInv ==
    ASSUME SessionInv, Login \/ Authenticate \/ Idle \/ Done
    PROVE  SessionInv'
<1>1. UNCHANGED <<store, nextUid, leaving, mails, checking, view, picked,
                  borne, misfit, untold, astray>>
    BY DEF Login, Authenticate, Idle, Done, folderVars, clientVars, uidVars,
           history
<1>2. SessionTypeOK'
    BY DEF SessionInv, SessionTypeOK, Login, Authenticate, Idle, Done,
           folderVars, clientVars, uidVars, history, Command
<1> QED
    BY <1>1, <1>2, QuietInv

(* The session's list and the client's are dropped. *)
LEMMA DropInv ==
    ASSUME SessionInv, SessionTypeOK', mails' = <<>>, view' = <<>>,
           checking' = None, ~astray',
           UNCHANGED <<store, nextUid, leaving, borne, misfit>>
    PROVE  SessionInv'
<1>1. DOMAIN mails' = {} /\ DOMAIN view' = {}
    OBVIOUS
<1>2. BearInv'
    <2>1. Bearing' \subseteq borne
        BY DEF SessionInv, BearInv, Bearers, Bearing, InStore
    <2> QED
        BY <1>1, <2>1 DEF BearInv, Bearers, Fetched
<1>3. ListInv' /\ CheckInv'
    BY <1>1 DEF ListInv, CheckInv
<1>4. OrderInv'
    <2>1. (~misfit => Fit(borne, nextUid))'
        BY DEF SessionInv, OrderInv, Fit
    <2> QED
        BY <1>1, <2>1, Zenon DEF OrderInv, AscendingUids
<1>5. NumbersMatch'
    BY DEF NumbersMatch
<1> QED
    BY <1>2, <1>3, <1>4, <1>5 DEF SessionInv

LEMMA CloseInv ==
    ASSUME SessionInv, Reconnect \/ Logout \/ Close
    PROVE  SessionInv'
<1>1. /\ mails' = <<>> /\ view' = <<>> /\ checking' = None /\ ~astray'
      /\ UNCHANGED <<store, nextUid, leaving, borne, misfit>>
    BY DEF SessionInv, Reconnect, Logout, Close, Command, StartOver,
           folderVars, uidVars
<1>2. mails' \in Seq(CachedMail)
      /\ view' \in Seq([mail : Mail, uid : Nat] \cup {None})
    BY <1>1
<1>3. /\ store' \in [Mail -> Nat \cup {None}] /\ nextUid' \in Nat \ {0}
      /\ leaving' \in SUBSET Mail
      /\ borne' \in SUBSET [mail : Mail, uid : Nat] /\ misfit' \in BOOLEAN
    BY <1>1 DEF SessionInv, SessionTypeOK
<1>4. /\ dirty' \in BOOLEAN
      /\ state' \in {"NotAuthenticated", "Authenticated", "Logout"}
      /\ selected' = FALSE /\ idle' \in BOOLEAN /\ picked' = {}
      /\ untold' \in BOOLEAN /\ astray' \in BOOLEAN
      /\ changes' \in 0 .. MaxChanges
    BY DEF SessionInv, SessionTypeOK, Reconnect, Logout, Close, StartOver,
           folderVars
<1>5. SessionTypeOK'
    BY <1>1, <1>2, <1>3, <1>4 DEF SessionTypeOK
<1> QED
    BY <1>1, <1>5, DropInv

-----------------------------------------------------------------------------
(* SELECT, FETCH and the reads of the store *)

(* A list refreshed from the store. *)
LEMMA RefreshedInv ==
    ASSUME SessionInv, mails' \in RefreshMails, checking' = None,
           UNCHANGED <<store, nextUid, borne, misfit>>,
           \A i \in Fetched' : view'[i] \in borne
    PROVE  BearInv' /\ ListInv' /\ CheckInv' /\ OrderInv'
<1>1. SessionTypeOK /\ BearInv /\ OrderInv
    BY DEF SessionInv
<1> DEFINE n == Cardinality(InStore)
<1>2. /\ DOMAIN mails' = 1 .. n
      /\ \A i \in 1 .. n :
            /\ mails'[i].mail \in InStore
            /\ mails'[i].uid = store[mails'[i].mail]
            /\ mails'[i].uid \in Nat
            /\ mails'[i].deleted = FALSE
      /\ \A m \in InStore : \E i \in 1 .. n : mails'[i].mail = m
      /\ \A i, j \in 1 .. n : i < j => mails'[i].uid <= mails'[j].uid
      /\ \A i, j \in 1 .. n : mails'[i].mail = mails'[j].mail => i = j
      /\ n \in Nat
    BY <1>1, RefreshFacts, Zenon
<1> HIDE DEF n
<1>3. InStore' = InStore /\ InSession' = InStore
    BY <1>2 DEF InStore, InSession
<1>4. ListInv' /\ CheckInv'
    BY <1>2 DEF ListInv, CheckInv
<1>5. BearInv'
    <2>1. Bearing' = Bearing /\ Bearing \subseteq borne
        BY <1>1, <1>3 DEF BearInv, Bearers, Bearing
    <2>2. ASSUME NEW i \in DOMAIN mails'
          PROVE  Shown(mails'[i]) \in borne
        BY <1>2, <2>1 DEF Bearing, Shown
    <2> QED
        BY <2>1, <2>2 DEF BearInv, Bearers
<1>6. OrderInv'
    <2> SUFFICES ASSUME ~misfit
                 PROVE  OrderInv'
        BY DEF OrderInv
    <2>1. Fit(borne, nextUid)
        BY <1>1 DEF OrderInv
    <2>2. ASSUME NEW i \in 1 .. n, NEW j \in 1 .. n, i < j
          PROVE  mails'[i].uid < mails'[j].uid
        <3>1. mails'[i].uid # mails'[j].uid
            <4>1. mails'[i].mail # mails'[j].mail
                BY <1>2, <2>2
            <4> QED
                BY <1>1, <1>2, <2>1, <4>1, StoreOneToOne
        <3>2. mails'[i].uid <= mails'[j].uid
              /\ mails'[i].uid \in Nat /\ mails'[j].uid \in Nat
            BY <1>2, <2>2
        <3> QED
            BY <3>1, <3>2
    <2>3. AscendingUids' /\ Fit(borne, nextUid)'
        BY <1>2, <2>1, <2>2 DEF AscendingUids, Fit
    <2> QED
        BY <1>3, <2>3 DEF OrderInv
<1> QED
    BY <1>4, <1>5, <1>6

LEMMA SelectInv ==
    ASSUME SessionInv, Select
    PROVE  SessionInv'
<1> DEFINE n == Cardinality(InStore)
<1>1. /\ checking = None /\ state' = "Selected" /\ selected' = TRUE
      /\ mails' \in RefreshMails /\ view' = OnExists(<<>>, n)
      /\ picked' = {} /\ untold' = FALSE /\ astray' = FALSE
      /\ UNCHANGED <<store, nextUid, leaving, dirty, idle, checking, borne,
                     misfit, changes>>
    BY DEF Select, Command, StartOver, folderVars, uidVars
<1>2. SessionTypeOK
    BY DEF SessionInv
<1>3. /\ n \in Nat /\ mails' \in Seq(CachedMail) /\ Len(mails') = n
    BY <1>1, <1>2, RefreshFacts, Zenon
<1> HIDE DEF n
<1>4. view' = [i \in 1 .. n |-> None]
    BY <1>1 DEF OnExists
<1>5. /\ view' \in Seq([mail : Mail, uid : Nat] \cup {None})
      /\ Len(view') = n /\ DOMAIN view' = 1 .. n
    BY <1>3, <1>4
<1>6. SessionTypeOK'
    BY <1>1, <1>2, <1>3, <1>5 DEF SessionTypeOK
<1>7. Fetched' = {}
    BY <1>4 DEF Fetched
<1>8. BearInv' /\ ListInv' /\ CheckInv' /\ OrderInv'
    BY <1>1, <1>7, RefreshedInv
<1>9. NumbersMatch'
    BY <1>3, <1>4, <1>5 DEF NumbersMatch
<1> QED
    BY <1>1, <1>6, <1>8, <1>9 DEF SessionInv

LEMMA FetchInv ==
    ASSUME SessionInv, Fetch
    PROVE  SessionInv'
<1> DEFINE V == [mail : Mail, uid : Nat] \cup {None}
<1>1. /\ view' = [i \in DOMAIN view |-> IF i \in DOMAIN mails
                                        THEN Shown(mails[i]) ELSE view[i]]
      /\ UNCHANGED <<store, nextUid, leaving, dirty, state, selected, idle,
                     mails, checking, picked, borne, misfit, untold, astray,
                     changes>>
    BY DEF Fetch, folderVars, loginVars, uidVars, history
<1>2. SessionTypeOK /\ BearInv /\ ListInv /\ CheckInv /\ OrderInv /\ ~astray
      /\ (~untold => NumbersMatch)
    BY DEF SessionInv
<1>3. view \in Seq(V)
    BY <1>2 DEF SessionTypeOK
<1>4. \A i \in DOMAIN mails : Shown(mails[i]) \in V
    BY <1>2, ListedType DEF Shown
<1>5. view' \in Seq(V) /\ Len(view') = Len(view) /\ DOMAIN view' = DOMAIN view
    <2>1. \A i \in DOMAIN view : view[i] \in V
        BY <1>3
    <2> HIDE DEF V
    <2>2. view' \in [DOMAIN view -> V]
        BY <1>1, <1>4, <2>1
    <2>3. DOMAIN view = 1 .. Len(view) /\ Len(view) \in Nat
        BY <1>3
    <2> QED
        BY <2>2, <2>3
<1>6. SessionTypeOK'
    BY <1>1, <1>2, <1>5 DEF SessionTypeOK
<1>7. BearInv'
    <2>1. ASSUME NEW i \in Fetched'
          PROVE  view'[i] \in borne
        <3>1. i \in DOMAIN view /\ view'[i] # None
            BY <1>5 DEF Fetched
        <3>2. CASE i \in DOMAIN mails
            BY <3>1, <3>2, <1>1, <1>2 DEF Bearers, BearInv
        <3>3. CASE i \notin DOMAIN mails
            BY <3>1, <3>3, <1>1, <1>2 DEF Bearers, BearInv, Fetched
        <3> QED
            BY <3>2, <3>3
    <2>2. /\ Bearing' \subseteq borne
          /\ {Shown(mails[i]) : i \in DOMAIN mails}' \subseteq borne
        BY <1>1, <1>2 DEF Bearers, BearInv, Bearing, InStore, Shown
    <2> QED
        BY <1>1, <2>1, <2>2 DEF Bearers, BearInv
<1>8. ListInv' /\ CheckInv'
    BY <1>1, <1>2 DEF ListInv, CheckInv
<1>9. OrderInv'
    BY <1>1, <1>2 DEF OrderInv, Fit, AscendingUids, InStore, InSession
<1>10. (~untold => NumbersMatch)'
    <2> SUFFICES ASSUME ~untold
                 PROVE  NumbersMatch'
        BY <1>1
    <2>1. Len(view) = Len(mails) /\ DOMAIN view = DOMAIN mails
        BY <1>2, <1>3, ListedType DEF NumbersMatch
    <2>2. \A i \in DOMAIN view' : view'[i] = Shown(mails[i])
        BY <1>1, <1>5, <2>1
    <2> QED
        BY <1>1, <1>5, <2>1, <2>2 DEF NumbersMatch, Shown
<1> QED
    BY <1>1, <1>2, <1>6, <1>7, <1>8, <1>9, <1>10 DEF SessionInv

LEMMA WakeUpInv ==
    ASSUME SessionInv, WakeUp
    PROVE  SessionInv'
<1> DEFINE E == {i \in DOMAIN mails : mails[i].mail \notin InStore}
<1>1. /\ checking = None /\ dirty' = FALSE
      /\ \/ checking' = None
         \/ checking' = [seen |-> InStore, expunges |-> E]
      /\ UNCHANGED <<store, nextUid, leaving, state, selected, idle, mails,
                     view, picked, borne, misfit, untold, astray, changes>>
    BY DEF WakeUp, loginVars, clientVars, uidVars, history
<1>2. SessionTypeOK /\ BearInv /\ ListInv /\ OrderInv /\ ~astray
      /\ (~untold => NumbersMatch)
    BY DEF SessionInv
<1>3. InStore \in SUBSET Mail /\ E \in SUBSET Nat
    <2>1. DOMAIN mails \subseteq Nat
        BY <1>2, ListedType
    <2> QED
        BY <2>1 DEF InStore
<1>4. \A i \in E : store[mails[i].mail] # mails[i].uid
    BY <1>2, ListedType, SessionAssumption DEF InStore
<1> HIDE DEF E
<1>5. checking' \in [seen : SUBSET Mail, expunges : SUBSET Nat] \cup {None}
    <2>1. [seen |-> InStore, expunges |-> E]
             \in [seen : SUBSET Mail, expunges : SUBSET Nat]
        BY <1>3
    <2> QED
        BY <1>1, <2>1, Zenon
<1>6. SessionTypeOK'
    BY <1>1, <1>2, <1>5 DEF SessionTypeOK
<1>7. CheckInv' /\ (checking' # None =>
         \A i \in checking'.expunges : store[mails[i].mail] # mails[i].uid)
    <2>1. CASE checking' = None
        BY <2>1 DEF CheckInv
    <2>2. CASE checking' = [seen |-> InStore, expunges |-> E]
        <3>1. checking'.seen = InStore /\ checking'.expunges = E
            BY <2>2
        <3> QED
            BY <3>1, <1>1, <1>4 DEF CheckInv, E
    <2> QED
        BY <1>1, <2>1, <2>2
<1>8. BearInv'
    BY <1>1, <1>2 DEF BearInv, Bearers, Bearing, InStore, Fetched, Shown
<1>9. ListInv' /\ (~untold => NumbersMatch)'
    BY <1>1, <1>2 DEF ListInv, NumbersMatch, Shown
<1>10. OrderInv'
    <2> SUFFICES ASSUME ~misfit
                 PROVE  OrderInv'
        BY <1>1 DEF OrderInv
    <2>1. /\ Fit(borne, nextUid)' /\ AscendingUids'
          /\ \A m \in (InStore \ InSession)' :
                \/ m \in leaving'
                \/ \A i \in DOMAIN mails' : mails'[i].uid < store'[m]
        BY <1>1, <1>2 DEF OrderInv, Fit, AscendingUids, InStore, InSession
    <2> QED
        BY <1>1, <1>7, <2>1 DEF OrderInv
<1> QED
    BY <1>1, <1>2, <1>6, <1>7, <1>8, <1>9, <1>10 DEF SessionInv

(* The client's list only loses entries to EXPUNGE responses. *)
LEMMA ExpungedEntries ==
    ASSUME SessionTypeOK, NEW numbers, Len(numbers) \in Nat
    PROVE  LET w == Expunged(view, numbers)
           IN  /\ w \in Seq([mail : Mail, uid : Nat] \cup {None})
               /\ \A i \in DOMAIN w :
                     w[i] = None \/ w[i] \in {view[k] : k \in Fetched}
<1> DEFINE V == [mail : Mail, uid : Nat] \cup {None}
           R == {view[k] : k \in DOMAIN view}
           w == Expunged(view, numbers)
<1>1. view \in Seq(V)
    BY DEF SessionTypeOK
<1> HIDE DEF V
<1>2. R \subseteq V /\ view \in Seq(R)
    BY <1>1
<1>3. w \in Seq(V)
    BY <1>1, ExpungedType
<1>4. w \in Seq(R)
    <2> HIDE DEF R
    <2> QED
        BY <1>2, ExpungedType
<1> HIDE DEF w
<1>5. \A i \in DOMAIN w : w[i] \in R
    <2> HIDE DEF R
    <2> QED
        BY <1>4
<1>6. \A e \in R : e = None \/ e \in {view[k] : k \in Fetched}
    BY DEF Fetched
<1> HIDE DEF R
<1> QED
    BY <1>3, <1>5, <1>6 DEF V, w

(* In a folder without misfit UIDs the mails that stay keep their order    *)
(* and the new ones come after them.                                       *)
LEMMA NoShuffle ==
    ASSUME SessionInv, checking # None, ~misfit, ~Renumbered, ~Revived,
           NEW R \in RefreshMails
    PROVE  ~Shuffled(R)
<1> DEFINE K == DOMAIN mails \ checking.expunges
           n == Cardinality(InStore)
<1> SUFFICES ASSUME NEW i \in DOMAIN R, NEW j \in DOMAIN R, NEW k \in K,
                    i < j, R[j].mail = mails[k].mail,
                    \A l \in K : l < k => mails[l].mail # R[i].mail
             PROVE  FALSE
    BY DEF Shuffled
<1>1. SessionTypeOK /\ BearInv /\ ListInv /\ CheckInv /\ OrderInv
    BY DEF SessionInv
<1>2. /\ Fit(borne, nextUid) /\ AscendingUids
      /\ \A m \in InStore \ InSession :
            \/ m \in leaving
            \/ \A l \in DOMAIN mails : mails[l].uid < store[m]
      /\ \A l \in checking.expunges : store[mails[l].mail] # mails[l].uid
    BY <1>1 DEF OrderInv
<1>3. /\ DOMAIN R = 1 .. n
      /\ \A l \in 1 .. n : /\ R[l].mail \in InStore
                           /\ R[l].uid = store[R[l].mail]
                           /\ R[l].uid \in Nat
      /\ \A a, b \in 1 .. n : a < b => R[a].uid <= R[b].uid
      /\ \A a, b \in 1 .. n : R[a].mail = R[b].mail => a = b
      /\ n \in Nat
    BY <1>1, RefreshFacts, Zenon
<1> HIDE DEF n
<1> DEFINE x == R[i].mail
           y == R[j].mail
<1>4. x \in InStore /\ y \in InStore /\ x # y /\ i # j
    BY <1>3
<1>5. store[x] < store[y] /\ store[x] \in Nat /\ store[y] \in Nat
    <2>1. store[x] <= store[y] /\ store[x] \in Nat /\ store[y] \in Nat
        BY <1>3
    <2>2. store[x] # store[y]
        BY <1>1, <1>2, <1>4, StoreOneToOne
    <2> QED
        BY <2>1, <2>2
<1>6. \A l \in DOMAIN mails :
         mails[l].mail \in InStore => store[mails[l].mail] = mails[l].uid
    BY DEF Renumbered, InStore
<1>7. k \in DOMAIN mails /\ store[y] = mails[k].uid
    BY <1>4, <1>6
<1> HIDE DEF x, y
<1>8. CASE x \in InSession
    <2>1. PICK l \in DOMAIN mails : mails[l].mail = x
        BY <1>8 DEF InSession
    <2>2. store[x] = mails[l].uid
        BY <1>4, <1>6, <2>1
    <2>3. l \in K
        BY <1>2, <2>1, <2>2
    <2>4. l \in Nat /\ k \in Nat
        BY <1>1, <1>7, ViewType
    <2>5. ~(k < l)
        <3> SUFFICES ASSUME k < l
                     PROVE  FALSE
            OBVIOUS
        <3>1. mails[k].uid < mails[l].uid
            BY <1>2, <1>7 DEF AscendingUids
        <3> QED
            BY <1>5, <1>7, <2>2, <3>1
    <2>6. l # k
        BY <1>4, <2>1 DEF y
    <2>7. l < k
        BY <2>4, <2>5, <2>6
    <2> QED
        BY <2>1, <2>3, <2>7 DEF x
<1>9. CASE x \notin InSession
    <2>1. x \notin leaving
        BY <1>9 DEF Revived
    <2>2. mails[k].uid < store[x]
        BY <1>2, <1>4, <1>7, <1>9, <2>1
    <2> QED
        BY <1>5, <1>7, <2>2
<1> QED
    BY <1>8, <1>9

(* The places of the mails that stay are the first places of the refreshed *)
(* list, when nothing happened that no response reports.                   *)
LEMMA KeptPlaces ==
    ASSUME SessionInv, checking # None, ~Vanished, ~Renumbered,
           NEW R \in RefreshMails, ~Shuffled(R),
           NEW i \in 1 .. Cardinality(DOMAIN mails \ checking.expunges)
    PROVE  LET k == Nth(DOMAIN mails \ checking.expunges, i)
           IN  /\ i \in DOMAIN R
               /\ k \in DOMAIN mails
               /\ Shown(R[i]) = Shown(mails[k])
<1> DEFINE K == DOMAIN mails \ checking.expunges
           n == Cardinality(InStore)
           U == 1 .. n
           g == [k \in K |-> CHOOSE p \in U : R[p].mail = mails[k].mail]
<1>1. SessionTypeOK /\ ListInv /\ CheckInv
    BY DEF SessionInv
<1>2. checking.expunges
         = {j \in DOMAIN mails : mails[j].mail \notin checking.seen}
    BY <1>1 DEF CheckInv
<1>3. mails \in Seq(CachedMail)
    BY <1>1, ListedType
<1>4. /\ n \in Nat /\ DOMAIN R = U
      /\ \A p \in U : R[p].mail \in InStore /\ R[p].uid = store[R[p].mail]
      /\ \A m \in InStore : \E p \in U : R[p].mail = m
      /\ \A p, q \in U : R[p].mail = R[q].mail => p = q
    BY <1>1, RefreshFacts, Zenon
<1> HIDE DEF n
<1>5. ASSUME NEW k \in K
      PROVE  mails[k].mail \in InStore /\ store[mails[k].mail] = mails[k].uid
    <2>1. mails[k].mail \in InSession \cap checking.seen
        BY <1>2 DEF InSession
    <2>2. mails[k].mail \in InStore
        BY <2>1 DEF Vanished
    <2> QED
        BY <2>2 DEF Renumbered, InStore
<1>6. ASSUME NEW k \in K
      PROVE  g[k] \in U /\ R[g[k]].mail = mails[k].mail
    <2>1. \E p \in U : R[p].mail = mails[k].mail
        BY <1>4, <1>5
    <2> QED
        BY <2>1
<1>7. g \in [K -> U]
    BY <1>6
<1>8. IsFiniteSet(K) /\ K \subseteq Nat
      /\ (i \in 1 .. Cardinality(K) => Nth(K, i) \in K)
    BY <1>3, WithoutType, Zenon
<1> HIDE DEF g
<1>9. \A a, b \in K : mails[a].mail = mails[b].mail => a = b
    BY <1>1 DEF ListInv
<1>10. ASSUME NEW p \in U, NEW a \in K, p < g[a]
       PROVE  \E l \in K : l < a /\ R[p].mail = mails[l].mail
    <2>1. p \in DOMAIN R /\ g[a] \in DOMAIN R /\ R[g[a]].mail = mails[a].mail
        BY <1>4, <1>6
    <2> QED
        BY <1>10, <2>1 DEF Shuffled
<1>11. ASSUME NEW a \in K, NEW b \in K, a < b
       PROVE  g[a] < g[b]
    <2>1. g[a] \in Nat /\ g[b] \in Nat /\ a \in Nat /\ b \in Nat
        BY <1>6, <1>8
    <2>2. g[a] # g[b]
        BY <1>6, <1>9, <1>11, <2>1
    <2>3. ~(g[b] < g[a])
        <3> SUFFICES ASSUME g[b] < g[a]
                     PROVE  FALSE
            OBVIOUS
        <3>1. PICK l \in K : l < a /\ R[g[b]].mail = mails[l].mail
            BY <1>6, <1>10
        <3>2. l = b
            BY <1>6, <1>9, <3>1
        <3> QED
            BY <1>11, <2>1, <3>1, <3>2
    <2> QED
        BY <2>1, <2>2, <2>3
<1>12. ASSUME NEW u \in U
       PROVE  \/ \E a \in K : u = g[a]
              \/ \A a \in K : g[a] < u
    <2> SUFFICES ASSUME ~\E a \in K : u = g[a], NEW a \in K
                 PROVE  g[a] < u
        OBVIOUS
    <2>1. u \in Nat /\ g[a] \in Nat /\ u # g[a]
        BY <1>6
    <2>2. ~(u < g[a])
        <3> SUFFICES ASSUME u < g[a]
                     PROVE  FALSE
            OBVIOUS
        <3>1. PICK l \in K : l < a /\ R[u].mail = mails[l].mail
            BY <1>10
        <3>2. u = g[l]
            BY <1>4, <1>6, <3>1
        <3> QED
            BY <3>1, <3>2
    <2> QED
        BY <2>1, <2>2
<1> DEFINE k == Nth(K, i)
<1>13. k \in K
    BY <1>8
<1>14. n # 0
    BY <1>4, <1>6, <1>13
<1>15. IsFiniteSet(U) /\ U \subseteq Nat /\ Cardinality(U) = n
    <2>1. 1 \in 1 .. n
        BY <1>4, <1>14
    <2> QED
        BY <1>4, <2>1, NthInterval
<1>16. i \in 1 .. Cardinality(U) /\ Nth(U, i) = g[k]
    <2>1. i \in 1 .. Cardinality(K)
        OBVIOUS
    <2> HIDE DEF K, U
    <2>2. OntoFront(g, K, U)
        BY <1>7, <1>11, <1>12 DEF OntoFront
    <2> QED
        BY <1>8, <1>15, <2>1, <2>2, PrefixPlaces
<1>17. Nth(U, i) = i
    BY <1>4, <1>15, <1>16, NthInterval
<1> HIDE DEF k
<1>18. R[i].mail = mails[k].mail /\ i \in U
    BY <1>6, <1>13, <1>15, <1>16, <1>17
<1>19. R[i].uid = mails[k].uid
    BY <1>4, <1>5, <1>13, <1>18
<1>20. k \in DOMAIN mails
    BY <1>13
<1> QED
    BY <1>4, <1>18, <1>19, <1>20 DEF Shown, k

LEMMA ReportInv ==
    ASSUME SessionInv, Report
    PROVE  SessionInv'
<1> DEFINE V == [mail : Mail, uid : Nat] \cup {None}
           n == Cardinality(InStore)
           E == checking.expunges
           w == Expunged(view, Descending(E))
<1>1. /\ checking # None /\ checking' = None /\ mails' \in RefreshMails
      /\ view' = OnExists(w, n) /\ picked' = {}
      /\ untold' = (untold \/ Vanished \/ Renumbered \/ Revived
                           \/ (misfit /\ Shuffled(mails')))
      /\ UNCHANGED <<store, nextUid, leaving, dirty, state, selected, idle,
                     borne, misfit, astray, changes>>
    BY DEF Report, folderVars, loginVars, uidVars
<1>2. SessionTypeOK /\ BearInv /\ CheckInv /\ ~astray
      /\ (~untold => NumbersMatch)
    BY DEF SessionInv
<1>3. /\ n \in Nat /\ mails' \in Seq(CachedMail) /\ Len(mails') = n
      /\ DOMAIN mails' = 1 .. n
    BY <1>1, <1>2, RefreshFacts, Zenon
<1>4. E \in SUBSET (DOMAIN mails)
    BY <1>1, <1>2 DEF CheckInv
<1>5. mails \in Seq(CachedMail) /\ view \in Seq(V)
    BY <1>2 DEF SessionTypeOK
<1>6. Len(Descending(E)) \in Nat
    <2>1. Cardinality(E) \in Nat
        BY <1>4, <1>5, Positions
    <2>2. Len(Descending(E)) = Cardinality(E)
        BY <2>1 DEF Descending
    <2> QED
        BY <2>1, <2>2
<1>7. /\ w \in Seq(V)
      /\ \A i \in DOMAIN w : w[i] = None \/ w[i] \in {view[k] : k \in Fetched}
    BY <1>2, <1>6, ExpungedEntries
<1> HIDE DEF w, n
<1>8. view' = [i \in 1 .. n |-> IF i \in DOMAIN w THEN w[i] ELSE None]
    BY <1>1 DEF OnExists
<1>9. /\ view' \in Seq(V) /\ Len(view') = n /\ DOMAIN view' = 1 .. n
    <2>1. \A i \in DOMAIN w : w[i] \in V
        BY <1>7
    <2>2. view' \in [1 .. n -> V]
        BY <1>8, <2>1
    <2> HIDE DEF V
    <2> QED
        BY <1>3, <2>2
<1>10. SessionTypeOK'
    <2>1. untold' \in BOOLEAN
        BY <1>1, <1>2 DEF SessionTypeOK
    <2> QED
        BY <1>1, <1>2, <1>3, <1>9, <2>1 DEF SessionTypeOK
<1>11. BearInv' /\ ListInv' /\ CheckInv' /\ OrderInv'
    <2>1. ASSUME NEW i \in Fetched'
          PROVE  view'[i] \in borne
        <3>1. i \in 1 .. n /\ view'[i] # None
            BY <1>9 DEF Fetched
        <3>2. i \in DOMAIN w /\ view'[i] = w[i]
            BY <1>8, <3>1
        <3> QED
            BY <1>2, <1>7, <3>1, <3>2 DEF Bearers, BearInv
    <2> QED
        BY <1>1, <2>1, RefreshedInv
<1>12. (~untold => NumbersMatch)'
    <2> SUFFICES ASSUME ~untold'
                 PROVE  NumbersMatch'
        OBVIOUS
    <2>1. /\ ~untold /\ ~Vanished /\ ~Renumbered /\ ~Revived /\ NumbersMatch
          /\ ~(misfit /\ Shuffled(mails'))
        BY <1>1, <1>2
    <2>2. ~Shuffled(mails')
        BY <1>1, <2>1, NoShuffle
    <2>3. DOMAIN view = DOMAIN mails
        BY <1>5, <2>1 DEF NumbersMatch
    <2> DEFINE K == DOMAIN view \ E
    <2>4. w = Without(view, E)
        <3> HIDE DEF E, V
        <3> QED
            BY <1>4, <1>5, <2>3, DescendingExpunges DEF w
    <2>5. /\ DOMAIN w = 1 .. Cardinality(K)
          /\ \A i \in 1 .. Cardinality(K) : w[i] = view[Nth(K, i)]
        <3> HIDE DEF E, V
        <3> QED
            BY <1>5, <2>4, WithoutType, Zenon
    <2>6. ASSUME NEW i \in 1 .. n
          PROVE  view'[i] \in {None, Shown(mails'[i])}
        <3>1. CASE i \in DOMAIN w
            <4>1. i \in 1 .. Cardinality(DOMAIN mails \ checking.expunges)
                BY <3>1, <2>3, <2>5
            <4> DEFINE k == Nth(K, i)
            <4>2. /\ k \in DOMAIN mails
                  /\ Shown(mails'[i]) = Shown(mails[k])
                BY <1>1, <2>1, <2>2, <2>3, <4>1, KeptPlaces
            <4>3. view'[i] = view[k]
                BY <1>8, <2>5, <3>1
            <4> HIDE DEF k
            <4>4. view[k] \in {None, Shown(mails[k])}
                BY <2>1, <2>3, <4>2 DEF NumbersMatch
            <4> QED
                BY <4>2, <4>3, <4>4
        <3>2. CASE i \notin DOMAIN w
            BY <1>8, <3>2
        <3> QED
            BY <3>1, <3>2
    <2> QED
        BY <1>3, <1>9, <2>6 DEF NumbersMatch, Shown
<1> QED
    BY <1>1, <1>2, <1>10, <1>11, <1>12 DEF SessionInv

-----------------------------------------------------------------------------
(* STORE, EXPUNGE and MOVE *)

(* What the client names resolves to mails it meant, to what its message   *)
(* numbers have come to point at after an untold change, or to a mail of a *)
(* shared UID.                                                             *)
LEMMA ResolvedAreAllowed ==
    ASSUME SessionInv, NEW names \in Names, NEW i \in Resolve(names)
    PROVE  i \in DOMAIN mails /\ mails[i].mail \in Allowed(names)
<1>1. SessionTypeOK /\ BearInv /\ (~untold => NumbersMatch)
    BY DEF SessionInv
<1>2. i \in DOMAIN mails
    BY DEF Resolve
<1>3. CASE names.byUid
    <2>1. names.set \subseteq {view[j].uid : j \in Fetched}
        BY <1>3 DEF Names
    <2>2. mails[i].uid \in names.set
        BY <1>3 DEF Resolve
    <2>3. PICK j \in Fetched : view[j].uid = mails[i].uid
        BY <2>1, <2>2
    <2>4. view[j] \in borne /\ Shown(mails[i]) \in borne
        BY <1>1, <1>2, <2>3 DEF Bearers, BearInv
    <2>5. view[j].mail \in Meant(names)
        BY <1>3, <2>2, <2>3 DEF Meant, Named
    <2>6. CASE view[j].mail = mails[i].mail
        BY <1>2, <2>5, <2>6 DEF Allowed
    <2>7. CASE view[j].mail # mails[i].mail
        <3>1. /\ Shown(mails[i]).uid = mails[i].uid
              /\ Shown(mails[i]).mail = mails[i].mail
            BY DEF Shown
        <3>2. mails[i].uid \in Shared
            BY <2>3, <2>4, <2>7, <3>1 DEF Shared
        <3> QED
            BY <1>2, <1>3, <3>2 DEF Allowed
    <2> QED
        BY <2>6, <2>7
<1>4. CASE ~names.byUid /\ ~untold
    <2>1. names.set \subseteq Fetched
        BY <1>4 DEF Names
    <2>2. i \in names.set
        BY <1>4 DEF Resolve
    <2>3. i \in Fetched /\ i \in DOMAIN view /\ view[i] # None
        BY <2>1, <2>2 DEF Fetched
    <2>4. view[i] = Shown(mails[i])
        BY <1>1, <1>4, <2>3 DEF NumbersMatch
    <2>5. view[i].mail \in Meant(names)
        BY <1>4, <2>2, <2>3 DEF Meant, Named
    <2> QED
        BY <1>2, <2>4, <2>5 DEF Allowed, Shown
<1>5. CASE ~names.byUid /\ untold
    BY <1>2, <1>5 DEF Allowed
<1> QED
    BY <1>3, <1>4, <1>5

(* A mail whose flag the client may trust to be cleared is among the mails *)
(* resolved.                                                               *)
LEMMA ClearedAreResolved ==
    ASSUME SessionInv, NEW names \in Names, NEW m \in Cleared(names)
    PROVE  \E i \in Resolve(names) : mails[i].mail = m
<1>1. PICK j \in Named(names) :
         m = view[j].mail /\ ~untold
         /\ (names.byUid => view[j].uid \notin Shared)
    BY DEF Cleared
<1>2. NumbersMatch /\ SessionTypeOK /\ BearInv /\ ListInv
    BY <1>1 DEF SessionInv
<1>3. DOMAIN view = DOMAIN mails
    BY <1>2 DEF NumbersMatch, SessionTypeOK
<1>4. /\ j \in Fetched
      /\ (IF names.byUid THEN view[j].uid ELSE j) \in names.set
    BY DEF Named
<1>5. j \in DOMAIN mails /\ view[j] = Shown(mails[j])
    BY <1>2, <1>3, <1>4 DEF NumbersMatch, Fetched
<1>6. view[j].uid = mails[j].uid /\ view[j].mail = mails[j].mail
    BY <1>5 DEF Shown
<1>7. j \in Resolve(names)
    <2>1. CASE names.byUid
        <3>1. ASSUME NEW l \in DOMAIN mails, mails[l].uid = mails[j].uid
              PROVE  l = j
            <4>1. Shown(mails[l]) \in borne /\ Shown(mails[j]) \in borne
                BY <1>2, <1>5 DEF BearInv, Bearers
            <4>2. /\ Shown(mails[l]).uid = mails[j].uid
                  /\ Shown(mails[j]).uid = mails[j].uid
                  /\ Shown(mails[l]).mail = mails[l].mail
                  /\ Shown(mails[j]).mail = mails[j].mail
                BY <3>1 DEF Shown
            <4>3. mails[j].uid \notin Shared
                BY <1>1, <1>6, <2>1
            <4>4. mails[l].mail = mails[j].mail
                BY <4>1, <4>2, <4>3 DEF Shared
            <4> QED
                BY <1>2, <1>5, <4>4 DEF ListInv
        <3>2. j \in Nat
            BY <1>2, <1>5, ViewType
        <3>3. \A l \in DOMAIN mails : l < j => mails[l].uid # mails[j].uid
            BY <3>1, <3>2
        <3> QED
            BY <2>1, <1>4, <1>5, <1>6, <3>3 DEF Resolve
    <2>2. CASE ~names.byUid
        BY <2>2, <1>4, <1>5 DEF Resolve
    <2> QED
        BY <2>1, <2>2
<1> QED
    BY <1>1, <1>6, <1>7

LEMMA StoreInv ==
    ASSUME SessionInv, NEW names \in Names, NEW remove \in BOOLEAN,
           Store(names, remove)
    PROVE  SessionInv'
<1>1. /\ checking = None
      /\ mails' = [i \in DOMAIN mails |->
                      IF i \in Resolve(names)
                      THEN [mails[i] EXCEPT !.deleted = ~remove]
                      ELSE mails[i]]
      /\ picked' = IF remove THEN picked \ Cleared(names)
                   ELSE picked \cup Allowed(names)
      /\ UNCHANGED <<store, nextUid, leaving, dirty, state, selected, idle,
                     checking, view, borne, misfit, untold, astray, changes>>
    BY DEF Store, Command, folderVars, loginVars, uidVars, history
<1>2. SessionTypeOK /\ BearInv /\ ListInv /\ OrderInv /\ ~astray
      /\ (~untold => NumbersMatch)
    BY DEF SessionInv
<1>3. ASSUME NEW i \in DOMAIN mails
      PROVE  /\ mails'[i] \in CachedMail
             /\ mails'[i].mail = mails[i].mail
             /\ mails'[i].uid = mails[i].uid
             /\ mails'[i].deleted = IF i \in Resolve(names) THEN ~remove
                                    ELSE mails[i].deleted
    <2>1. mails[i] \in CachedMail
        BY <1>2, ListedType
    <2>2. CASE i \in Resolve(names)
        <3>1. mails'[i] = [mails[i] EXCEPT !.deleted = ~remove]
            BY <1>1, <2>2
        <3> QED
            BY <2>1, <2>2, <3>1 DEF CachedMail
    <2>3. CASE i \notin Resolve(names)
        BY <1>1, <2>1, <2>3
    <2> QED
        BY <2>2, <2>3
<1>4. /\ mails' \in Seq(CachedMail) /\ DOMAIN mails' = DOMAIN mails
      /\ Len(mails') = Len(mails)
    <2>1. mails \in Seq(CachedMail)
        BY <1>2, ListedType
    <2>2. DOMAIN mails = 1 .. Len(mails) /\ Len(mails) \in Nat
        BY <2>1
    <2>3. mails' = [i \in DOMAIN mails |-> mails'[i]]
        BY <1>1
    <2>4. mails' \in [1 .. Len(mails) -> CachedMail]
        BY <1>3, <2>2, <2>3
    <2> QED
        BY <2>2, <2>4
<1>5. picked' \in SUBSET Mail
    <2>1. picked \in SUBSET Mail
        BY <1>2 DEF SessionTypeOK
    <2>2. Meant(names) \subseteq Mail
        BY <1>2, MeantType
    <2>3. Allowed(names) \subseteq Mail
        BY <1>2, <2>2, ListedType DEF Allowed, Resolve
    <2> QED
        BY <1>1, <2>1, <2>3
<1>6. SessionTypeOK'
    BY <1>1, <1>2, <1>4, <1>5 DEF SessionTypeOK
<1>7. \A i \in DOMAIN mails : Shown(mails'[i]) = Shown(mails[i])
    BY <1>3 DEF Shown
<1>8. BearInv'
    <2>1. ASSUME NEW i \in DOMAIN mails'
          PROVE  Shown(mails'[i]) \in borne
        BY <1>2, <1>4, <1>7 DEF BearInv, Bearers
    <2>2. /\ Bearing' \subseteq borne
          /\ {view[i] : i \in Fetched}' \subseteq borne
        BY <1>1, <1>2 DEF BearInv, Bearers, Bearing, InStore, Fetched
    <2> QED
        BY <1>1, <2>1, <2>2 DEF BearInv, Bearers
<1>9. ASSUME NEW i \in DOMAIN mails, mails'[i].deleted
      PROVE  mails'[i].mail \in picked'
    <2>1. CASE ~remove
        <3>1. picked' = picked \cup Allowed(names)
            BY <1>1, <2>1
        <3>2. CASE i \in Resolve(names)
            BY <1>3, <3>1, <3>2, ResolvedAreAllowed
        <3>3. CASE i \notin Resolve(names)
            BY <1>2, <1>3, <1>9, <3>1, <3>3 DEF ListInv
        <3> QED
            BY <3>2, <3>3
    <2>2. CASE remove
        <3>1. i \notin Resolve(names) /\ mails[i].deleted
            BY <1>3, <1>9, <2>2
        <3>2. mails[i].mail \in picked
            BY <1>2, <3>1 DEF ListInv
        <3>3. mails[i].mail \notin Cleared(names)
            <4> SUFFICES ASSUME mails[i].mail \in Cleared(names)
                         PROVE  FALSE
                OBVIOUS
            <4>1. PICK j \in Resolve(names) : mails[j].mail = mails[i].mail
                BY ClearedAreResolved
            <4>2. j \in DOMAIN mails
                BY <4>1 DEF Resolve
            <4> QED
                BY <1>2, <3>1, <4>1, <4>2 DEF ListInv
        <3> QED
            BY <1>1, <1>3, <2>2, <3>2, <3>3
    <2> QED
        BY <2>1, <2>2
<1>10. ListInv' /\ CheckInv'
    BY <1>1, <1>2, <1>3, <1>4, <1>9 DEF ListInv, CheckInv
<1>11. OrderInv'
    <2>1. InSession' = InSession /\ InStore' = InStore
        BY <1>1, <1>3, <1>4 DEF InSession, InStore
    <2>2. AscendingUids => AscendingUids'
        BY <1>3, <1>4 DEF AscendingUids
    <2> QED
        BY <1>1, <1>2, <1>3, <1>4, <2>1, <2>2 DEF OrderInv, Fit
<1>12. (~untold => NumbersMatch)'
    BY <1>1, <1>2, <1>4, <1>7, ViewType DEF NumbersMatch
<1> QED
    BY <1>1, <1>2, <1>6, <1>8, <1>10, <1>11, <1>12 DEF SessionInv

(* A request that fails: whatever is through was allowed, the lists stay. *)
LEMMA FailedTakeOut ==
    ASSUME SessionInv, ~astray', leaving' \in SUBSET Mail,
           leaving \subseteq leaving', checking = None,
           UNCHANGED <<store, nextUid, dirty, state, selected, idle, mails,
                       checking, view, picked, borne, misfit, untold, changes>>,
           astray' \in BOOLEAN
    PROVE  SessionInv'
<1>1. SessionTypeOK'
    BY DEF SessionInv, SessionTypeOK
<1>2. BearInv'
    BY DEF SessionInv, BearInv, Bearers, Bearing, InStore, Fetched, Shown
<1>3. ListInv' /\ CheckInv'
    BY DEF SessionInv, ListInv, CheckInv
<1>4. OrderInv'
    BY DEF SessionInv, OrderInv, Fit, AscendingUids, InStore, InSession
<1>5. (~untold => NumbersMatch)'
    BY DEF SessionInv, NumbersMatch, Shown
<1> QED
    BY <1>1, <1>2, <1>3, <1>4, <1>5 DEF SessionInv

(* The mails at the positions S leave, the session drops them and says so. *)
LEMMA DroppedTakeOut ==
    ASSUME SessionInv, NEW S \in SUBSET (DOMAIN mails), checking = None,
           leaving' = leaving \cup ({mails[i].mail : i \in S} \cap InStore),
           ~astray', astray' \in BOOLEAN,
           mails' = Without(mails, S),
           view' = Expunged(view, ExpungeNumbers(S)),
           picked' = picked \ {mails[i].mail : i \in S},
           UNCHANGED <<store, nextUid, dirty, state, selected, idle,
                       checking, borne, misfit, untold, changes>>
    PROVE  SessionInv'
<1> DEFINE K == DOMAIN mails \ S
           c == Cardinality(K)
<1>1. SessionTypeOK /\ BearInv /\ ListInv /\ OrderInv
      /\ (~untold => NumbersMatch)
    BY DEF SessionInv
<1>2. mails \in Seq(CachedMail)
    BY <1>1, ListedType
<1>3. /\ IsFiniteSet(K) /\ K \subseteq Nat /\ c \in Nat
      /\ \A i \in 1 .. c : Nth(K, i) \in K
      /\ mails' \in Seq(CachedMail) /\ Len(mails') = c
      /\ DOMAIN mails' = 1 .. c
      /\ \A i \in 1 .. c : mails'[i] = mails[Nth(K, i)]
    BY <1>2, WithoutType, Zenon
<1>4. \A i \in 1 .. c : Nth(K, i) \in DOMAIN mails /\ Nth(K, i) \notin S
    BY <1>3
<1>5. \A i, j \in 1 .. c : i < j => Nth(K, i) < Nth(K, j)
    <2> HIDE DEF K
    <2> QED
        BY <1>3, NthMono
<1>6. \A k \in K : \E i \in 1 .. c : Nth(K, i) = k
    <2> HIDE DEF K
    <2> QED
        BY <1>3, RankType, RankNth
<1>7. Len(ExpungeNumbers(S)) \in Nat
    <2>1. Cardinality(S) \in Nat
        BY <1>2, Positions
    <2>2. Len(ExpungeNumbers(S)) = Cardinality(S)
        BY <2>1 DEF ExpungeNumbers, Ascending
    <2> QED
        BY <2>1, <2>2
<1>8. /\ view' \in Seq([mail : Mail, uid : Nat] \cup {None})
      /\ \A i \in DOMAIN view' :
            view'[i] = None \/ view'[i] \in {view[k] : k \in Fetched}
    BY <1>1, <1>7, ExpungedEntries
<1>9. SessionTypeOK'
    <2>1. leaving' \in SUBSET Mail /\ picked' \in SUBSET Mail
        BY <1>1 DEF SessionTypeOK, InStore
    <2> QED
        BY <1>1, <1>3, <1>8, <2>1 DEF SessionTypeOK
<1> HIDE DEF c, K
<1>10. BearInv'
    <2>1. ASSUME NEW i \in DOMAIN mails'
          PROVE  Shown(mails'[i]) \in borne
        BY <1>1, <1>3, <1>4 DEF Bearers, BearInv
    <2>2. ASSUME NEW i \in Fetched'
          PROVE  view'[i] \in borne
        <3>1. i \in DOMAIN view' /\ view'[i] # None
            BY DEF Fetched
        <3> QED
            BY <1>1, <1>8, <3>1 DEF Bearers, BearInv
    <2>3. Bearing' \subseteq borne
        BY <1>1 DEF Bearers, BearInv, Bearing, InStore
    <2> QED
        BY <2>1, <2>2, <2>3 DEF Bearers, BearInv
<1>11. ListInv'
    <2>1. ASSUME NEW i \in 1 .. c, NEW j \in 1 .. c,
                 mails'[i].mail = mails'[j].mail
          PROVE  i = j
        <3>1. Nth(K, i) = Nth(K, j)
            BY <1>1, <1>3, <1>4, <2>1 DEF ListInv
        <3>2. ~(i < j) /\ ~(j < i)
            <4>1. Nth(K, i) \in Nat
                BY <1>3
            <4> QED
                BY <3>1, <4>1, <1>5
        <3> QED
            BY <3>2, <1>3
    <2>2. ASSUME NEW i \in 1 .. c, mails'[i].deleted
          PROVE  mails'[i].mail \in picked'
        <3> DEFINE k == Nth(K, i)
        <3>1. mails'[i] = mails[k] /\ k \in DOMAIN mails /\ k \notin S
            BY <1>3, <1>4
        <3> HIDE DEF k
        <3>2. mails[k].mail \in picked
            BY <1>1, <2>2, <3>1 DEF ListInv
        <3>3. ASSUME NEW l \in S, mails[l].mail = mails[k].mail
              PROVE  FALSE
            BY <1>1, <3>1, <3>3 DEF ListInv
        <3> QED
            BY <3>1, <3>2, <3>3
    <2> QED
        BY <1>3, <2>1, <2>2 DEF ListInv
<1>12. CheckInv'
    BY DEF CheckInv
<1>13. OrderInv'
    <2> SUFFICES ASSUME ~misfit
                 PROVE  OrderInv'
        BY DEF OrderInv
    <2>1. /\ Fit(borne, nextUid) /\ AscendingUids
          /\ \A m \in InStore \ InSession :
                \/ m \in leaving
                \/ \A i \in DOMAIN mails : mails[i].uid < store[m]
        BY <1>1 DEF OrderInv
    <2>2. AscendingUids'
        <3> SUFFICES ASSUME NEW i \in 1 .. c, NEW j \in 1 .. c, i < j
                     PROVE  mails'[i].uid < mails'[j].uid
            BY <1>3 DEF AscendingUids
        <3>1. /\ mails'[i] = mails[Nth(K, i)] /\ mails'[j] = mails[Nth(K, j)]
              /\ Nth(K, i) \in DOMAIN mails /\ Nth(K, j) \in DOMAIN mails
              /\ Nth(K, i) < Nth(K, j)
            BY <1>3, <1>4, <1>5
        <3> QED
            BY <2>1, <3>1 DEF AscendingUids
    <2>3. ASSUME NEW m \in InStore' \ InSession'
          PROVE  m \in leaving' \/ \A i \in DOMAIN mails' :
                                      mails'[i].uid < store'[m]
        <3>1. m \in InStore
            BY DEF InStore
        <3>2. CASE m \in InSession
            <4>1. PICK k \in DOMAIN mails : mails[k].mail = m
                BY <3>2 DEF InSession
            <4>2. k \notin K
                <5> SUFFICES ASSUME k \in K
                             PROVE  FALSE
                    OBVIOUS
                <5>1. PICK i \in 1 .. c : Nth(K, i) = k
                    BY <1>6
                <5>2. mails'[i].mail = m /\ i \in DOMAIN mails'
                    BY <1>3, <4>1, <5>1
                <5>3. m \in InSession'
                    BY <5>2 DEF InSession
                <5> QED
                    BY <5>3
            <4>3. k \in S
                BY <4>1, <4>2 DEF K
            <4> QED
                BY <3>1, <4>1, <4>3
        <3>3. CASE m \notin InSession
            <4>1. \/ m \in leaving
                  \/ \A k \in DOMAIN mails : mails[k].uid < store[m]
                BY <2>1, <3>1, <3>3
            <4> QED
                BY <4>1, <1>3, <1>4
        <3> QED
            BY <3>2, <3>3
    <2>4. Fit(borne, nextUid)'
        BY <2>1 DEF Fit
    <2> QED
        BY <2>2, <2>3, <2>4 DEF OrderInv
<1>14. (~untold => NumbersMatch)'
    <2> SUFFICES ASSUME ~untold
                 PROVE  NumbersMatch'
        OBVIOUS
    <2>1. NumbersMatch
        BY <1>1
    <2> DEFINE V == [mail : Mail, uid : Nat] \cup {None}
    <2>2. view \in Seq(V) /\ DOMAIN view = DOMAIN mails
        BY <1>1, <2>1, ViewType DEF NumbersMatch
    <2> HIDE DEF V
    <2>3. view' = Without(view, S)
        BY <2>2, ShiftedExpunges
    <2>4. /\ Len(view') = c /\ DOMAIN view' = 1 .. c
          /\ \A i \in 1 .. c : view'[i] = view[Nth(K, i)]
        <3>1. /\ Len(Without(view, S)) = Cardinality(DOMAIN view \ S)
              /\ DOMAIN Without(view, S) = 1 .. Cardinality(DOMAIN view \ S)
              /\ \A i \in 1 .. Cardinality(DOMAIN view \ S) :
                    Without(view, S)[i] = view[Nth(DOMAIN view \ S, i)]
            BY <2>2, WithoutType, Zenon
        <3>2. DOMAIN view \ S = K
            BY <2>2 DEF K
        <3> QED
            BY <2>3, <3>1, <3>2 DEF c
    <2>5. ASSUME NEW i \in 1 .. c
          PROVE  view'[i] \in {None, Shown(mails'[i])}
        <3>1. Nth(K, i) \in DOMAIN view
            BY <1>4, <2>2
        <3>2. view[Nth(K, i)] \in {None, Shown(mails[Nth(K, i)])}
            BY <2>1, <3>1 DEF NumbersMatch
        <3> QED
            BY <1>3, <2>4, <3>2
    <2> QED
        BY <1>3, <2>4, <2>5 DEF NumbersMatch, Shown
<1> QED
    BY <1>9, <1>10, <1>11, <1>12, <1>13, <1>14 DEF SessionInv

LEMMA TakeOutInv ==
    ASSUME SessionInv, NEW S \in SUBSET (DOMAIN mails), NEW allowed,
           TakeOut(S, allowed), \A i \in S : mails[i].mail \in allowed,
           checking = None,
           UNCHANGED <<store, nextUid, dirty, loginVars, checking, uidVars,
                       untold, changes>>
    PROVE  SessionInv'
<1> DEFINE out == {mails[i].mail : i \in S}
<1>1. UNCHANGED <<store, nextUid, dirty, state, selected, idle, checking,
                  borne, misfit, untold, changes>>
    BY DEF loginVars, uidVars
<1>2. ~astray /\ leaving \in SUBSET Mail
    BY DEF SessionInv, SessionTypeOK
<1>3. out \subseteq allowed
    OBVIOUS
<1>4. CASE /\ leaving' = leaving \cup (out \cap InStore)
           /\ astray' = (astray \/ out \ allowed # {})
           /\ mails' = Without(mails, S)
           /\ view' = Expunged(view, ExpungeNumbers(S))
           /\ picked' = picked \ out
    <2>1. ~astray' /\ astray' \in BOOLEAN
        BY <1>2, <1>3, <1>4
    <2> QED
        BY <1>1, <1>4, <2>1, DroppedTakeOut
<1>5. ASSUME NEW through \in SUBSET out,
             leaving' = leaving \cup (through \cap InStore),
             astray' = (astray \/ through \ allowed # {}),
             UNCHANGED <<mails, view, picked>>
      PROVE  SessionInv'
    <2>1. ~astray' /\ astray' \in BOOLEAN
        BY <1>2, <1>3, <1>5
    <2>2. leaving' \in SUBSET Mail /\ leaving \subseteq leaving'
        BY <1>2, <1>5 DEF InStore
    <2> QED
        BY <1>1, <1>5, <2>1, <2>2, FailedTakeOut
<1> QED
    BY <1>4, <1>5 DEF TakeOut

LEMMA ExpungeInv ==
    ASSUME SessionInv, Expunge
    PROVE  SessionInv'
<1> DEFINE S == {i \in DOMAIN mails : mails[i].deleted}
<1>1. \A i \in S : mails[i].mail \in picked
    BY DEF SessionInv, ListInv
<1>2. TakeOut(S, picked) /\ checking = None
      /\ UNCHANGED <<store, nextUid, dirty, loginVars, checking, uidVars,
                     untold, changes>>
    BY DEF Expunge, Command
<1>3. S \in SUBSET (DOMAIN mails)
    OBVIOUS
<1> HIDE DEF S
<1> QED
    BY <1>1, <1>2, <1>3, TakeOutInv

LEMMA MoveToInv ==
    ASSUME SessionInv, NEW names \in Names, MoveTo(names)
    PROVE  SessionInv'
<1>1. /\ Resolve(names) \in SUBSET (DOMAIN mails)
      /\ \A i \in Resolve(names) : mails[i].mail \in Allowed(names)
    BY ResolvedAreAllowed
<1>2. TakeOut(Resolve(names), Allowed(names)) /\ checking = None
      /\ UNCHANGED <<store, nextUid, dirty, loginVars, checking, uidVars,
                     untold, changes>>
    BY DEF MoveTo, Command
<1> QED
    BY <1>1, <1>2, TakeOutInv

-----------------------------------------------------------------------------
LEMMA SessionStep == SessionInv /\ [Next]_vars => SessionInv'
<1> SUFFICES ASSUME SessionInv, [Next]_vars
             PROVE  SessionInv'
    OBVIOUS
<1>1. ASSUME NEW m \in Mail, Arrive(m) \/ ArriveWithoutUid(m)
      PROVE  SessionInv'
    BY <1>1, ArriveInv
<1>2. ASSUME NEW m \in Mail, Depart(m)
      PROVE  SessionInv'
    BY <1>2, DepartInv
<1>3. ASSUME NEW m \in Mail, Follow(m)
      PROVE  SessionInv'
    BY <1>3, FollowInv
<1>4. CASE Reconnect \/ Logout \/ Close
    BY <1>4, CloseInv
<1>5. CASE Login \/ Authenticate \/ Idle \/ Done
    BY <1>5, LoginInv
<1>6. CASE Select
    BY <1>6, SelectInv
<1>7. CASE Fetch
    BY <1>7, FetchInv
<1>8. CASE WakeUp
    BY <1>8, WakeUpInv
<1>9. CASE Report
    BY <1>9, ReportInv
<1>10. ASSUME NEW names \in Names, MoveTo(names)
       PROVE  SessionInv'
    BY <1>10, MoveToInv
<1>11. ASSUME NEW names \in Names, NEW remove \in BOOLEAN,
              Store(names, remove)
       PROVE  SessionInv'
    BY <1>11, StoreInv
<1>12. CASE Expunge
    BY <1>12, ExpungeInv
<1>13. CASE UNCHANGED vars
    <2>1. SessionTypeOK'
        BY <1>13 DEF SessionInv, SessionTypeOK, vars, folderVars, loginVars,
                     clientVars, uidVars, history
    <2>2. UNCHANGED <<store, nextUid, leaving, mails, checking, view, picked,
                      borne, misfit, untold, astray>>
        BY <1>13 DEF vars, folderVars, loginVars, clientVars, uidVars, history
    <2> QED
        BY <2>1, <2>2, QuietInv
<1> QED
    BY <1>1, <1>2, <1>3, <1>4, <1>5, <1>6, <1>7, <1>8, <1>9, <1>10, <1>11,
       <1>12, <1>13 DEF Next

LEMMA SessionInvariant == Spec => []SessionInv
<1>1. Init => SessionInv
    BY SessionInit
<1>2. SessionInv /\ [Next]_vars => SessionInv'
    BY SessionStep
<1> QED
    BY <1>1, <1>2, PTL DEF Spec

(* The types of the session's and the client's state, and that a session   *)
(* in state Selected has a folder, whatever the client sends.              *)
THEOREM SessionTypeSafe == Spec => []SessionTypeOK
<1>1. SessionInv => SessionTypeOK
    BY DEF SessionInv
<1> QED
    BY <1>1, SessionInvariant, PTL

(* check_new_mail's numbers (the old ones, highest first) and those of     *)
(* EXPUNGE and MOVE (from the front, shifted) leave the client with the    *)
(* session's numbering, for a folder of any size and whatever UIDs its     *)
(* rows were loaded with; in a folder whose UIDs fit no new order needs to *)
(* be excepted.                                                            *)
THEOREM MessageNumbersAgree == Spec => []NumbersAgree
<1>1. SessionInv => NumbersAgree
    BY DEF SessionInv, NumbersAgree
<1> QED
    BY <1>1, SessionInvariant, PTL

(* MOVE and EXPUNGE take what the client picked and nothing else, by UID   *)
(* unless two mails had that UID.                                          *)
THEOREM PickedOnly == Spec => []OnlyPickedLeave
<1>1. SessionInv => OnlyPickedLeave
    BY DEF SessionInv, OnlyPickedLeave
<1> QED
    BY <1>1, SessionInvariant, PTL
=============================================================================
