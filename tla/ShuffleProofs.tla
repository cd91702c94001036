--------------------------- MODULE ShuffleProofs ----------------------------
(***************************************************************************)
(* The safety of the shuffle for every number of clients, every set of     *)
(* late servers and any number of crashes and premature timeouts.          *)
(*                                                                         *)
(* IInv (module Shuffle) is inductive.  Its heart is VectorOf: what a      *)
(* member sends holds the seed of each member up to it once, each with the *)
(* layers of the members after it.  Peeling, appending and shuffling carry *)
(* it from a member to the next (first part), the steps of the protocol    *)
(* from a state to the next (second part), and the leader's vector of each *)
(* group, collected once, makes the sum of all seeds (last part).          *)
(***************************************************************************)
EXTENDS Shuffle, FiniteSetTheorems, WellFoundedInduction, TLAPS

\* Quotients are between the exact one and the next integer.
LEMMA DivisionFact ==
  ASSUME NEW a \in Int, NEW b \in Int, b > 0
  PROVE  /\ a \div b \in Int
         /\ b * (a \div b) <= a
         /\ a < b * (a \div b) + b
BY SMT

\* The groups of a groupable number of clients: at least one, each of three
\* members or more.
LEMMA GroupSizes ==
  ASSUME NEW n \in Nat, n >= 4, NEW g \in 1 .. NumGroups(n)
  PROVE  /\ NumGroups(n) \in Nat \ {0}
         /\ GroupSize(n, g) \in 3 .. n - 1
<1> DEFINE K == NumGroups(n)
<1>1. /\ K \in Nat \ {0}
      /\ 3 * K <= n - 1
  BY DEF NumGroups
<1>2. g \in Nat \ {0} /\ g <= K /\ K \in Nat
  BY <1>1
<1> HIDE DEF K
<1> DEFINE q == (n - 1 - g) \div K
<1>3. q \in Int /\ K * q <= n - 1 - g /\ n - 1 - g < K * q + K
  BY <1>1, <1>2, DivisionFact
<1> HIDE DEF q
<1>4. q >= 2
  <2>1. CASE q <= -1
    <3>1. K * q <= -K
      BY <1>1, <1>2, <1>3, <2>1
    <3> QED
      BY <3>1, <1>1, <1>2, <1>3
  <2>2. CASE q = 0
    BY <2>2, <1>1, <1>2, <1>3
  <2>3. CASE q = 1
    BY <2>3, <1>1, <1>2, <1>3
  <2> QED
    BY <1>3, <2>1, <2>2, <2>3
<1>5. q <= n - 2
  <2>1. q <= K * q
    BY <1>1, <1>3, <1>4
  <2> QED
    BY <2>1, <1>2, <1>3
<1>6. GroupSize(n, g) = q + 1
  BY DEF GroupSize, K, q
<1> QED
  BY <1>1, <1>3, <1>4, <1>5, <1>6 DEF K

-----------------------------------------------------------------------------
(* Places.                                                                   *)

\* What the place of a member says of its group and its rank.
LEMMA MemberFacts ==
  ASSUME NEW m \in Members
  PROVE  /\ N >= 4 /\ N \in Nat
         /\ m = <<m[1], m[2]>>
         /\ m[1] \in Groups /\ m[1] \in Nat
         /\ Size(m[1]) \in 3 .. N - 1
         /\ m[2] \in 1 .. Size(m[1])
         /\ m \in Clients
<1>1. m[1] \in Groups /\ m[2] \in 1 .. N /\ m[2] <= Size(m[1]) /\ m = <<m[1], m[2]>>
  BY DEF Members
<1>2. N \in Nat /\ N >= 4
  <2>1. N \in Nat /\ (N = 1 \/ N >= 4)
    BY NAssumption DEF Groupable
  <2>2. N # 1
    BY <1>1 DEF Groups, NumGroups
  <2> QED
    BY <2>1, <2>2
<1>3. NumGroups(N) \in Nat
  BY <1>2 DEF NumGroups
<1>4. Size(m[1]) \in 3 .. N - 1
  BY <1>1, <1>2, GroupSizes DEF Groups, Size
<1> QED
  BY <1>1, <1>2, <1>3, <1>4 DEF Groups, Clients

\* Every rank up to the size of a group is the place of a member.
LEMMA MemberIntro ==
  ASSUME NEW m \in Members, NEW i \in 1 .. Size(m[1])
  PROVE  <<m[1], i>> \in Members
<1>1. Size(m[1]) \in 3 .. N - 1 /\ m[1] \in Groups /\ N \in Nat
  BY MemberFacts
<1>2. i \in 1 .. N /\ i <= Size(m[1])
  BY <1>1
<1> QED
  BY <1>1, <1>2 DEF Members

\* The last place of a group is a member's, its leader's.
LEMMA LeaderMember ==
  ASSUME NEW g \in Groups
  PROVE  /\ Leader(g) \in Members
         /\ Leader(g)[1] = g /\ Leader(g)[2] = Size(g)
         /\ IsLeader(Leader(g))
<1>1. N \in Nat /\ N >= 4
  <2>1. N \in Nat /\ (N = 1 \/ N >= 4)
    BY NAssumption DEF Groupable
  <2>2. N # 1
    BY DEF Groups, NumGroups
  <2> QED
    BY <2>1, <2>2
<1>2. Size(g) \in 3 .. N - 1
  BY <1>1, GroupSizes DEF Groups, Size
<1>3. Size(g) \in 1 .. N
  BY <1>1, <1>2
<1> QED
  BY <1>2, <1>3 DEF Leader, Members, IsLeader

\* The holder is in no group.
LEMMA HolderNotMember == Holder \notin Members
<1> SUFFICES ASSUME Holder \in Members PROVE FALSE
  OBVIOUS
<1>1. Holder[1] \in Groups
  BY MemberFacts
<1> QED
  BY <1>1 DEF Holder, Groups

\* A leader sends to the holder, another member to the one after it.
LEMMA TargetFacts ==
  ASSUME NEW m \in Members
  PROVE  /\ Target(m) \in Clients
         /\ IsLeader(m) => Target(m) = Holder /\ m = Leader(m[1])
         /\ ~IsLeader(m) => /\ Target(m) \in Members
                            /\ Target(m) # m
                            /\ Prev(Target(m)) = m
                            /\ ~IsFirst(Target(m))
         /\ Target(m) = Holder => IsLeader(m)
<1>1. CASE IsLeader(m)
  BY <1>1, MemberFacts DEF Target, IsLeader, Leader, Clients
<1>2. CASE ~IsLeader(m)
  <2>1. Target(m) = <<m[1], m[2] + 1>>
    BY <1>2 DEF Target
  <2>2. m[2] + 1 \in 1 .. Size(m[1]) /\ m[2] + 1 > 1 /\ m[2] \in Int
    BY <1>2, MemberFacts DEF IsLeader
  <2>3. Target(m) \in Members
    BY <2>1, <2>2, MemberIntro
  <2>4. m = <<m[1], m[2]>>
    BY MemberFacts
  <2>5. Prev(Target(m)) = m
    <3>1. Target(m)[1] = m[1] /\ Target(m)[2] - 1 = m[2]
      BY <2>1, <2>2
    <3> QED
      BY <3>1, <2>4 DEF Prev
  <2>6. Target(m)[2] = m[2] + 1
    BY <2>1
  <2> QED
    BY <1>2, <2>2, <2>3, <2>5, <2>6, HolderNotMember DEF IsFirst, Clients
<1> QED
  BY <1>1, <1>2

-----------------------------------------------------------------------------
(* Vectors: what peeling, adding one's own and shuffling do to them.         *)

\* The layers around a ciphertext are keys of members.
LEMMA LayersType ==
  ASSUME NEW m \in Members
  PROVE  /\ LayersFrom(m) \in Seq(Members)
         /\ Len(LayersFrom(m)) = Size(m[1]) - m[2]
         /\ IsLeader(m) => LayersFrom(m) = << >>
<1> DEFINE n == Size(m[1]) - m[2]
<1>1. n \in Nat /\ Size(m[1]) \in Nat /\ m[2] \in Nat \ {0}
  BY MemberFacts
<1>2. ASSUME NEW j \in 1 .. n
      PROVE  <<m[1], Size(m[1]) + 1 - j>> \in Members
  <2>1. Size(m[1]) + 1 - j \in 1 .. Size(m[1])
    BY <1>1
  <2> QED
    BY <2>1, MemberIntro
<1>3. LayersFrom(m) = [j \in 1 .. n |-> <<m[1], Size(m[1]) + 1 - j>>]
  BY DEF LayersFrom
<1> HIDE DEF n
<1>4. LayersFrom(m) \in [1 .. n -> Members]
  BY <1>2, <1>3
<1>5. LayersFrom(m) \in Seq(Members) /\ Len(LayersFrom(m)) = n
  BY <1>1, <1>4
<1>6. IsLeader(m) => n = 0
  BY <1>1 DEF n, IsLeader
<1> QED
  BY <1>5, <1>6 DEF n

\* Decrypting as the next member takes off the layer meant for it and leaves
\* those of the members after it.
LEMMA PeelOne ==
  ASSUME NEW m \in Members, ~IsFirst(m),
         NEW x \in Ciphertext, x.intact, x.layers = LayersFrom(Prev(m))
  PROVE  /\ Decrypt(m, x) \in Ciphertext
         /\ Decrypt(m, x).owner = x.owner
         /\ Decrypt(m, x).intact
         /\ Decrypt(m, x).layers = LayersFrom(m)
<1> DEFINE p == Prev(m)
           S == Size(m[1])
           n == S - m[2]
           L == LayersFrom(p)
<1>1. S \in Nat /\ m[2] \in 2 .. S /\ n \in Nat /\ m = <<m[1], m[2]>>
  BY MemberFacts DEF IsFirst
<1>2. p = <<m[1], m[2] - 1>> /\ p[1] = m[1] /\ p[2] = m[2] - 1
  BY DEF Prev
<1>3. p \in Members
  <2>1. m[2] - 1 \in 1 .. S
    BY <1>1
  <2> QED
    BY <2>1, <1>2, MemberIntro
<1>4. L \in Seq(Members) /\ Len(L) = n + 1
  <2>1. Size(p[1]) - p[2] = n + 1
    BY <1>1, <1>2
  <2> QED
    BY <1>3, <2>1, LayersType
<1>5. L = [j \in 1 .. n + 1 |-> <<m[1], S + 1 - j>>]
  <2>1. Size(p[1]) - p[2] = n + 1
    BY <1>1, <1>2
  <2> QED
    BY <1>2, <2>1 DEF LayersFrom
<1>6. L[n + 1] = m
  <2>1. n + 1 \in 1 .. n + 1 /\ S + 1 - (n + 1) = m[2]
    BY <1>1
  <2> QED
    BY <2>1, <1>1, <1>5
<1>7. SubSeq(L, 1, n) = LayersFrom(m)
  <2>1. LayersFrom(m) = [j \in 1 .. n |-> <<m[1], S + 1 - j>>]
    BY DEF LayersFrom
  <2> HIDE DEF n, S, L
  <2>2. SubSeq(L, 1, n) = [j \in 1 .. n |-> L[j]]
    <3>1. SubSeq(L, 1, n) = [j \in 1 .. (1 + n) - 1 |-> L[(1 + j) - 1]]
      BY <1>1, <1>4
    <3>2. (1 + n) - 1 = n /\ \A j \in 1 .. n : (1 + j) - 1 = j
      BY <1>1
    <3> QED
      BY <3>1, <3>2
  <2>3. \A j \in 1 .. n : L[j] = <<m[1], S + 1 - j>>
    BY <1>1, <1>5
  <2> QED
    BY <2>1, <2>2, <2>3
<1>8. x.layers = L /\ Len(L) - 1 = n /\ L # << >>
  BY <1>1, <1>4
<1>9. LayersFrom(m) \in Seq(Members)
  BY LayersType
<1> HIDE DEF n, S, L
<1>10. Decrypt(m, x).layers = LayersFrom(m)
  BY <1>7, <1>8 DEF Decrypt
<1>11. Decrypt(m, x).intact = TRUE
  <2>1. x.layers[Len(x.layers)] = m
    BY <1>1, <1>4, <1>6, <1>8
  <2> QED
    BY <2>1, <1>8 DEF Decrypt
<1>12. Decrypt(m, x).owner = x.owner /\ x.owner \in Members
  BY DEF Decrypt, Ciphertext
<1>13. Decrypt(m, x) \in Ciphertext
  BY <1>9, <1>10, <1>11, <1>12 DEF Decrypt, Ciphertext
<1> QED
  BY <1>10, <1>11, <1>12, <1>13

\* What m holds once it has peeled what it was sent, and before it adds its own.
PeeledFor(m, v) ==
  /\ Len(v) = m[2] - 1
  /\ \A k \in DOMAIN v :
       /\ v[k].owner[1] = m[1] /\ v[k].owner[2] <= m[2] - 1
       /\ v[k].layers = LayersFrom(m) /\ v[k].intact
  /\ \A j, k \in DOMAIN v : v[j].owner = v[k].owner => j = k
  /\ \A w \in Members :
       w[1] = m[1] /\ w[2] <= m[2] - 1 => \E k \in DOMAIN v : v[k].owner = w

\* So does decrypting the whole vector of the member before.
LEMMA PeelVector ==
  ASSUME NEW m \in Members, NEW v \in Seq(Ciphertext),
         \/ IsFirst(m) /\ v = << >>
         \/ ~IsFirst(m) /\ VectorOf(Prev(m), v)
  PROVE  /\ DecryptAll(m, v) \in Seq(Ciphertext)
         /\ PeeledFor(m, DecryptAll(m, v))
<1> DEFINE w == DecryptAll(m, v)
<1>0. m[2] \in Nat /\ Prev(m)[1] = m[1] /\ Prev(m)[2] = m[2] - 1
  BY MemberFacts DEF Prev
<1>1. CASE IsFirst(m) /\ v = << >>
  <2>1. w = << >>
    BY <1>1 DEF DecryptAll
  <2>2. \A x \in Members : ~(x[2] <= m[2] - 1)
    <3> SUFFICES ASSUME NEW x \in Members PROVE ~(x[2] <= m[2] - 1)
      OBVIOUS
    <3>1. x[2] \in Nat \ {0} /\ m[2] = 1
      BY <1>1, MemberFacts DEF IsFirst
    <3> QED
      BY <3>1
  <2>3. w \in Seq(Ciphertext) /\ Len(w) = m[2] - 1 /\ DOMAIN w = {}
    <3>1. w = v /\ Len(v) = 0 /\ DOMAIN v = 1 .. Len(v)
      BY <1>1, <2>1
    <3>2. m[2] - 1 = 0 /\ 1 .. 0 = {}
      BY <1>1 DEF IsFirst
    <3> HIDE DEF w
    <3> QED
      BY <3>1, <3>2
  <2> HIDE DEF w
  <2>4. PeeledFor(m, w)
    BY <2>2, <2>3 DEF PeeledFor
  <2> QED
    BY <2>3, <2>4 DEF w
<1>2. CASE ~IsFirst(m) /\ VectorOf(Prev(m), v)
  <2>1. \A k \in DOMAIN v :
          /\ w[k] \in Ciphertext
          /\ w[k].owner = v[k].owner
          /\ w[k].intact
          /\ w[k].layers = LayersFrom(m)
    <3> SUFFICES ASSUME NEW k \in DOMAIN v
                 PROVE  /\ w[k] \in Ciphertext
                        /\ w[k].owner = v[k].owner
                        /\ w[k].intact
                        /\ w[k].layers = LayersFrom(m)
      OBVIOUS
    <3>1. v[k] \in Ciphertext /\ v[k].intact /\ v[k].layers = LayersFrom(Prev(m))
      BY <1>2 DEF VectorOf
    <3>2. w[k] = Decrypt(m, v[k])
      BY DEF DecryptAll
    <3> QED
      BY <1>2, <3>1, <3>2, PeelOne
  <2>2. DOMAIN w = DOMAIN v /\ DOMAIN v = 1 .. Len(v) /\ Len(v) \in Nat
    BY DEF DecryptAll
  <2>3. w \in Seq(Ciphertext) /\ Len(w) = Len(v)
    <3>1. w = [k \in 1 .. Len(v) |-> Decrypt(m, v[k])]
      BY <2>2 DEF DecryptAll
    <3>2. \A k \in 1 .. Len(v) : Decrypt(m, v[k]) \in Ciphertext
      BY <2>1, <2>2, <3>1
    <3> QED
      BY <3>1, <3>2, <2>2
  <2> HIDE DEF w
  <2> QED
    BY <1>0, <1>2, <2>1, <2>2, <2>3 DEF PeeledFor, VectorOf, w
<1> QED
  BY <1>1, <1>2

\* m's own ciphertext, wherever it goes, completes the vector.
LEMMA AddOwn ==
  ASSUME NEW m \in Members, NEW v \in Seq(Ciphertext), PeeledFor(m, v),
         NEW x \in Ciphertext, x.owner = m, x.layers = LayersFrom(m), x.intact
  PROVE  /\ Append(v, x) \in Seq(Ciphertext)
         /\ VectorOf(m, Append(v, x))
         /\ <<x>> \o v \in Seq(Ciphertext)
         /\ VectorOf(m, <<x>> \o v)
<1> DEFINE n == Len(v)
           a == Append(v, x)
           b == <<x>> \o v
<1>1. /\ n \in Nat /\ m[2] = n + 1 /\ DOMAIN v = 1 .. n
      /\ \A k \in 1 .. n :
           /\ v[k].owner[1] = m[1] /\ v[k].owner[2] <= n
           /\ v[k].layers = LayersFrom(m) /\ v[k].intact
           /\ v[k].owner \in Members
      /\ \A j, k \in 1 .. n : v[j].owner = v[k].owner => j = k
      /\ \A w \in Members :
           w[1] = m[1] /\ w[2] <= n => \E k \in 1 .. n : v[k].owner = w
  <2>1. n \in Nat /\ m[2] \in Nat /\ DOMAIN v = 1 .. n
    BY MemberFacts
  <2>2. m[2] - 1 = n /\ m[2] = n + 1
    BY <2>1 DEF PeeledFor
  <2>3. \A k \in 1 .. n : v[k].owner \in Members
    <3>1. \A k \in 1 .. n : v[k] \in Ciphertext
      BY <2>1
    <3> QED
      BY <3>1 DEF Ciphertext
  <2> HIDE DEF n
  <2> QED
    BY <2>1, <2>2, <2>3 DEF PeeledFor
<1>2. \A w \in Members : w = <<w[1], w[2]>> /\ w[2] \in Nat
  BY MemberFacts
<1>3. \A k \in 1 .. n : v[k].owner # m
  BY <1>1
<1>4. \A w \in Members : w[1] = m[1] /\ w[2] <= m[2] => w = m \/ w[2] <= n
  <2> SUFFICES ASSUME NEW w \in Members, w[1] = m[1], w[2] <= m[2], ~(w[2] <= n)
               PROVE  w = m
    OBVIOUS
  <2>1. w[2] = m[2]
    BY <1>1, <1>2
  <2> QED
    BY <1>2, <2>1
<1>5. a \in Seq(Ciphertext) /\ VectorOf(m, a)
  <2>1. a \in Seq(Ciphertext) /\ Len(a) = n + 1 /\ DOMAIN a = 1 .. n + 1
    BY <1>1
  <2>2. a[n + 1] = x /\ \A k \in 1 .. n : a[k] = v[k]
    BY <1>1
  <2>3. \A k \in 1 .. n + 1 : k \in 1 .. n \/ k = n + 1
    BY <1>1
  <2> HIDE DEF a, n
  <2>4. \A k \in DOMAIN a :
          /\ a[k].owner[1] = m[1] /\ a[k].owner[2] <= m[2]
          /\ a[k].layers = LayersFrom(m) /\ a[k].intact
    <3> SUFFICES ASSUME NEW k \in 1 .. n + 1
                 PROVE  /\ a[k].owner[1] = m[1] /\ a[k].owner[2] <= m[2]
                        /\ a[k].layers = LayersFrom(m) /\ a[k].intact
      BY <2>1
    <3>1. CASE k = n + 1
      BY <1>1, <2>2, <3>1
    <3>2. CASE k \in 1 .. n
      BY <1>1, <1>2, <2>2, <3>2
    <3> QED
      BY <2>3, <3>1, <3>2
  <2>5. \A j, k \in DOMAIN a : a[j].owner = a[k].owner => j = k
    BY <1>1, <1>3, <2>1, <2>2, <2>3
  <2>6. \A w \in Members :
          w[1] = m[1] /\ w[2] <= m[2] => \E k \in DOMAIN a : a[k].owner = w
    <3> SUFFICES ASSUME NEW w \in Members, w[1] = m[1], w[2] <= m[2]
                 PROVE  \E k \in 1 .. n + 1 : a[k].owner = w
      BY <2>1
    <3>1. CASE w = m
      BY <1>1, <2>2, <3>1
    <3>2. CASE w[2] <= n
      <4>1. PICK k \in 1 .. n : v[k].owner = w
        BY <1>1, <3>2
      <4>2. k \in 1 .. n + 1
        BY <1>1
      <4> QED
        BY <2>2, <4>1, <4>2
    <3> QED
      BY <1>4, <3>1, <3>2
  <2> QED
    BY <1>1, <2>1, <2>4, <2>5, <2>6 DEF VectorOf
<1>6. b \in Seq(Ciphertext) /\ VectorOf(m, b)
  <2>1. b \in Seq(Ciphertext) /\ Len(b) = n + 1 /\ DOMAIN b = 1 .. n + 1
    <3>1. <<x>> \in Seq(Ciphertext) /\ Len(<<x>>) = 1
      OBVIOUS
    <3> QED
      BY <1>1, <3>1
  <2>2. b[1] = x /\ \A k \in 1 .. n : b[k + 1] = v[k]
    BY <1>1
  <2>3. \A k \in 1 .. n + 1 : k = 1 \/ (k - 1 \in 1 .. n /\ b[k] = v[k - 1])
    <3> SUFFICES ASSUME NEW k \in 1 .. n + 1, k # 1
                 PROVE  k - 1 \in 1 .. n /\ b[k] = v[k - 1]
      OBVIOUS
    <3>1. k - 1 \in 1 .. n /\ (k - 1) + 1 = k
      BY <1>1
    <3> QED
      BY <2>2, <3>1
  <2> HIDE DEF b, n
  <2>4. \A k \in DOMAIN b :
          /\ b[k].owner[1] = m[1] /\ b[k].owner[2] <= m[2]
          /\ b[k].layers = LayersFrom(m) /\ b[k].intact
    <3> SUFFICES ASSUME NEW k \in 1 .. n + 1
                 PROVE  /\ b[k].owner[1] = m[1] /\ b[k].owner[2] <= m[2]
                        /\ b[k].layers = LayersFrom(m) /\ b[k].intact
      BY <2>1
    <3>1. CASE k = 1
      BY <1>1, <2>2, <3>1
    <3>2. CASE k - 1 \in 1 .. n /\ b[k] = v[k - 1]
      BY <1>1, <1>2, <3>2
    <3> QED
      BY <2>3, <3>1, <3>2
  <2>5. \A j, k \in DOMAIN b : b[j].owner = b[k].owner => j = k
    <3> SUFFICES ASSUME NEW j \in 1 .. n + 1, NEW k \in 1 .. n + 1,
                        b[j].owner = b[k].owner
                 PROVE  j = k
      BY <2>1
    <3>1. CASE j = 1 \/ k = 1
      BY <1>3, <2>2, <2>3, <3>1
    <3>2. CASE j # 1 /\ k # 1
      <4>1. j - 1 = k - 1
        BY <1>1, <2>3, <3>2
      <4> QED
        BY <4>1
    <3> QED
      BY <3>1, <3>2
  <2>6. \A w \in Members :
          w[1] = m[1] /\ w[2] <= m[2] => \E k \in DOMAIN b : b[k].owner = w
    <3> SUFFICES ASSUME NEW w \in Members, w[1] = m[1], w[2] <= m[2]
                 PROVE  \E k \in 1 .. n + 1 : b[k].owner = w
      BY <2>1
    <3>1. CASE w = m
      BY <1>1, <2>2, <3>1
    <3>2. CASE w[2] <= n
      <4>1. PICK k \in 1 .. n : v[k].owner = w
        BY <1>1, <3>2
      <4>2. k + 1 \in 1 .. n + 1
        BY <1>1
      <4> QED
        BY <2>2, <4>1, <4>2
    <3> QED
      BY <1>4, <3>1, <3>2
  <2> QED
    BY <1>1, <2>1, <2>4, <2>5, <2>6 DEF VectorOf
<1> QED
  BY <1>5, <1>6

\* Shuffling loses nothing, doubles nothing and takes off no layer.
LEMMA ShuffledVector ==
  ASSUME NEW m \in Members, NEW v \in Seq(Ciphertext), VectorOf(m, v),
         NEW s \in Shuffled(v)
  PROVE  s \in Seq(Ciphertext) /\ VectorOf(m, s)
<1> DEFINE D == DOMAIN v
<1>1. PICK f \in Bijection(D, D) : s = [k \in D |-> v[f[k]]]
  BY DEF Shuffled
<1>2. /\ f \in [D -> D]
      /\ \A j, k \in D : f[j] = f[k] => j = k
      /\ \A j \in D : \E k \in D : f[k] = j
  BY DEF Bijection, Injection, Surjection, IsInjective
<1>3. D = 1 .. Len(v) /\ Len(v) \in Nat
  OBVIOUS
<1>4. s \in Seq(Ciphertext) /\ Len(s) = Len(v) /\ DOMAIN s = D
  <2>1. \A k \in 1 .. Len(v) : v[f[k]] \in Ciphertext
    BY <1>2, <1>3
  <2>2. s = [k \in 1 .. Len(v) |-> v[f[k]]]
    BY <1>1, <1>3
  <2> QED
    BY <1>3, <2>1, <2>2
<1>5. \A k \in D : f[k] \in D /\ s[k] = v[f[k]]
  BY <1>1, <1>2
<1> HIDE DEF D
<1>6. \A w \in Members :
        w[1] = m[1] /\ w[2] <= m[2] => \E k \in D : s[k].owner = w
  <2> SUFFICES ASSUME NEW w \in Members, w[1] = m[1], w[2] <= m[2]
               PROVE  \E k \in D : s[k].owner = w
    OBVIOUS
  <2>1. PICK j \in D : v[j].owner = w
    BY DEF VectorOf, D
  <2>2. PICK k \in D : f[k] = j
    BY <1>2
  <2> QED
    BY <1>5, <2>1, <2>2
<1>7. \A j, k \in D : s[j].owner = s[k].owner => j = k
  <2>1. \A j, k \in D : v[j].owner = v[k].owner => j = k
    BY DEF VectorOf, D
  <2> QED
    BY <1>2, <1>5, <2>1
<1>8. \A k \in D :
        /\ s[k].owner[1] = m[1] /\ s[k].owner[2] <= m[2]
        /\ s[k].layers = LayersFrom(m) /\ s[k].intact
  <2>1. \A k \in D :
          /\ v[k].owner[1] = m[1] /\ v[k].owner[2] <= m[2]
          /\ v[k].layers = LayersFrom(m) /\ v[k].intact
    BY DEF VectorOf, D
  <2> SUFFICES ASSUME NEW k \in D
               PROVE  /\ s[k].owner[1] = m[1] /\ s[k].owner[2] <= m[2]
                      /\ s[k].layers = LayersFrom(m) /\ s[k].intact
    OBVIOUS
  <2>2. f[k] \in D /\ s[k] = v[f[k]]
    BY <1>5
  <2>3. /\ v[f[k]].owner[1] = m[1] /\ v[f[k]].owner[2] <= m[2]
        /\ v[f[k]].layers = LayersFrom(m) /\ v[f[k]].intact
    BY <2>1, <2>2
  <2> QED
    BY <2>2, <2>3
<1>9. Len(s) = m[2]
  BY <1>4 DEF VectorOf
<1> QED
  BY <1>4, <1>6, <1>7, <1>8, <1>9 DEF VectorOf

-----------------------------------------------------------------------------
(* Type correctness.                                                         *)

\* What encryption makes is a ciphertext.
LEMMA CiphertextTypes ==
  ASSUME NEW m \in Members
  PROVE  PaillierEncrypt(m) \in Ciphertext /\ LayerEncrypt(m) \in Ciphertext
<1>1. << >> \in Seq(Members) /\ LayersFrom(m) \in Seq(Members)
  BY LayersType
<1> QED
  BY <1>1 DEF PaillierEncrypt, LayerEncrypt, Ciphertext

\* Decrypting makes ciphertexts of ciphertexts.
LEMMA DecryptType ==
  ASSUME NEW m \in Members, NEW v \in Seq(Ciphertext)
  PROVE  DecryptAll(m, v) \in Seq(Ciphertext)
<1>1. ASSUME NEW x \in Ciphertext
      PROVE  Decrypt(m, x) \in Ciphertext
  <2>1. x.owner \in Members /\ x.layers \in Seq(Members) /\ x.intact \in BOOLEAN
    BY DEF Ciphertext
  <2>2. SubSeq(x.layers, 1, Len(x.layers) - 1) \in Seq(Members)
    <3> DEFINE l == x.layers
               n == Len(l) - 1
    <3>1. Len(l) \in Nat /\ n \in Int /\ n <= Len(l)
      BY <2>1
    <3>2. \A j \in 1 .. n : l[j] \in Members
      BY <2>1, <3>1
    <3> HIDE DEF l
    <3> QED
      BY <2>1, <3>1, <3>2 DEF l
  <2> QED
    BY <2>1, <2>2 DEF Decrypt, Ciphertext
<1>2. DecryptAll(m, v) = [k \in 1 .. Len(v) |-> Decrypt(m, v[k])]
  BY DEF DecryptAll
<1>3. \A k \in 1 .. Len(v) : Decrypt(m, v[k]) \in Ciphertext
  BY <1>1
<1> QED
  BY <1>2, <1>3

\* Shuffling keeps a sequence one of ciphertexts.
LEMMA ShuffledType ==
  ASSUME NEW v \in Seq(Ciphertext), NEW s \in Shuffled(v)
  PROVE  s \in Seq(Ciphertext)
<1>1. PICK f \in Bijection(DOMAIN v, DOMAIN v) : s = [k \in DOMAIN v |-> v[f[k]]]
  BY DEF Shuffled
<1>2. f \in [1 .. Len(v) -> 1 .. Len(v)]
  BY DEF Bijection, Injection
<1>3. \A k \in 1 .. Len(v) : v[f[k]] \in Ciphertext
  BY <1>2
<1>4. s = [k \in 1 .. Len(v) |-> v[f[k]]]
  BY <1>1
<1> QED
  BY <1>3, <1>4

\* The initial state is well typed.
LEMMA TypeInit == Init => TypeOK
<1> SUFFICES ASSUME Init PROVE TypeOK
  OBVIOUS
<1>1. /\ << >> \in Seq(Ciphertext) /\ << >> \in Seq(Seq(Ciphertext))
      /\ 0 \in 0 .. MaxFaults
  BY BoundsAssumption
<1>2. bound \in [Clients -> BOOLEAN] /\ group_flag \in BOOLEAN
  BY BoundsAssumption DEF Init
<1>3. pc \in [Clients -> PC] /\ total_sum_holder \in BOOLEAN
  BY DEF Init, PC
<1> QED
  BY <1>1, <1>2, <1>3 DEF Init, TypeOK

\* Every step keeps the types.
LEMMA TypeStep == TypeOK /\ [Next]_vars => TypeOK'
<1> SUFFICES ASSUME TypeOK, [Next]_vars PROVE TypeOK'
  OBVIOUS
<1> USE DEF TypeOK, PC
<1>0. MaxFaults \in Nat
  BY BoundsAssumption
<1>1. ASSUME NEW c \in Clients, StartServer(c) PROVE TypeOK'
  BY <1>1 DEF StartServer
<1>2. ASSUME NEW c \in Clients, DecideRole(c) PROVE TypeOK'
  <2>1. total_sum_holder' \in BOOLEAN
    BY <1>2, Zenon DEF DecideRole
  <2> QED
    BY <1>2, <2>1 DEF DecideRole
<1>3. ASSUME NEW c \in Clients, Crash(c) PROVE TypeOK'
  BY <1>0, <1>3 DEF Crash
<1>4. ASSUME NEW m \in Members, ForwardVector(m) PROVE TypeOK'
  <2>1. m \in Clients
    BY DEF Clients
  <2> DEFINE v == Append(DecryptAll(m, seed_vector[m]), LayerEncrypt(m))
  <2>2. v \in Seq(Ciphertext)
    BY <2>1, DecryptType, CiphertextTypes
  <2>3. PICK s \in Shuffled(v) : /\ seed_vector' = [seed_vector EXCEPT ![m] = s]
                                 /\ Send(m, s)
    BY <1>4 DEF ForwardVector
  <2>4. s \in Seq(Ciphertext)
    BY <2>2, ShuffledType
  <2> QED
    BY <2>1, <2>3, <2>4 DEF Send
<1>5. ASSUME NEW m \in Members, SendGroupSum(m) PROVE TypeOK'
  <2>1. m \in Clients
    BY DEF Clients
  <2> DEFINE v == DecryptAll(m, seed_vector[m])
  <2>2. v \in Seq(Ciphertext)
    BY <2>1, DecryptType
  <2>3. <<PaillierEncrypt(m)>> \o v \in Seq(Ciphertext)
    <3>1. <<PaillierEncrypt(m)>> \in Seq(Ciphertext)
      BY CiphertextTypes
    <3> HIDE DEF v
    <3> QED
      BY <2>2, <3>1
  <2> QED
    BY <1>5, <2>1, <2>2, <2>3 DEF SendGroupSum, Send
<1>6. ASSUME NEW m \in Members, ReceiveMessage(m) PROVE TypeOK'
  <2>1. message[m] \in Seq(Ciphertext)
    OBVIOUS
  <2>2. CASE StoreVector(m)
    BY <2>1, <2>2 DEF StoreVector
  <2>3. CASE CollectGroupSum(m)
    BY <2>1, <2>3 DEF CollectGroupSum
  <2>4. CASE CollectSum(m)
    BY <2>1, <2>4 DEF CollectSum
  <2> QED
    BY <1>6, <2>2, <2>3, <2>4 DEF ReceiveMessage
<1>7. ASSUME NEW m \in Members, SendReturns(m) PROVE TypeOK'
  BY <1>7 DEF SendReturns
<1>8. ASSUME NEW m \in Members, TimeoutCrashed(m) PROVE TypeOK'
  BY <1>8 DEF TimeoutCrashed, Fails
<1>9. ASSUME NEW m \in Members, TimeoutLate(m) PROVE TypeOK'
  <2>1. faults' \in 0 .. MaxFaults
    BY <1>0, <1>9 DEF TimeoutLate
  <2> QED
    BY <1>9, <2>1 DEF TimeoutLate, Fails
<1>10. CASE SumGroups
  BY <1>10 DEF SumGroups
<1>11. CASE UNCHANGED vars
  BY <1>11 DEF vars
<1> QED
  BY <1>1, <1>2, <1>3, <1>4, <1>5, <1>6, <1>7, <1>8, <1>9, <1>10, <1>11 DEF Next

(* Every variable keeps its type: client.py's fields, the network and the    *)
(* server threads, for every number of clients.                              *)
THEOREM TypeCorrect == Spec => []TypeOK
BY TypeInit, TypeStep, PTL DEF Spec

-----------------------------------------------------------------------------
(* The inductive invariant.                                                  *)

\* What leaves alone the parts of the state an invariant reads keeps it.
LEMMA CallStable ==
  ASSUME CallInv, message' = message, call' = call,
         \A m \in Members : pc'[m] \in {"setup", "wait"} => pc[m] \in {"setup", "wait"}
  PROVE  CallInv'
BY DEF CallInv, VectorOf

\* The same for the vectors that wait.
LEMMA SeedVectorStable ==
  ASSUME SeedVectorInv,
         \A m \in Members :
           pc'[m] \in {"setup", "wait"} =>
             pc[m] \in {"setup", "wait"} /\ seed_vector'[m] = seed_vector[m]
  PROVE  SeedVectorInv'
BY DEF SeedVectorInv, VectorOf

\* The same for a list of group sums.
LEMMA SumsStable ==
  ASSUME NEW s, SumsInv(s),
         \A m \in Members : call[m] = "handled" => call'[m] = "handled"
  PROVE  \A i \in DOMAIN s : call'[Leader(SumGroup(s[i]))] = "handled"
BY LeaderMember DEF SumsInv

\* The same for what the holder has.
LEMMA HolderStable ==
  ASSUME HolderInv,
         seed_vector'[Holder] = seed_vector[Holder], sum_seed' = sum_seed,
         group_sum_seed' = group_sum_seed, holder_seed' = holder_seed,
         pc'[Holder] = "done" => pc[Holder] = "done",
         \A m \in Members : call[m] = "handled" => call'[m] = "handled"
  PROVE  HolderInv'
<1>1. SumsInv(group_sum_seed)' /\ SumsInv(holder_seed)'
  BY SumsStable DEF HolderInv, SumsInv
<1> QED
  BY <1>1 DEF HolderInv

\* The invariants hold initially.
LEMMA InvInit == Init => CallInv /\ SeedVectorInv /\ HolderInv
<1> SUFFICES ASSUME Init PROVE CallInv /\ SeedVectorInv /\ HolderInv
  OBVIOUS
<1>1. CallInv
  BY DEF Init, CallInv
<1>2. SeedVectorInv
  BY DEF Init, SeedVectorInv, Clients
<1>3. HolderInv
  <2>1. SumsInv(<< >>)
    BY DEF SumsInv
  <2>2. pc[Holder] = "setup" /\ seed_vector[Holder] = << >>
    BY DEF Init, Clients
  <2> QED
    BY <2>1, <2>2 DEF Init, HolderInv
<1> QED
  BY <1>1, <1>2, <1>3

\* A client that sends: its vector is the one it should be.
LEMMA SendStep ==
  ASSUME TypeOK, CallInv, SeedVectorInv, HolderInv,
         NEW m \in Members, NEW v \in Seq(Ciphertext), VectorOf(m, v),
         NEW s, seed_vector' = [seed_vector EXCEPT ![m] = s],
         pc[m] = "wait", Send(m, v)
  PROVE  CallInv' /\ SeedVectorInv' /\ HolderInv'
<1>1. m \in Clients /\ m # Holder /\ Holder \in Clients
  BY HolderNotMember DEF Clients
<1>2. pc' = [pc EXCEPT ![m] = "send"] /\ call' = [call EXCEPT ![m] = "sent"]
      /\ message' = [message EXCEPT ![m] = v]
  BY DEF Send
<1>3. CallInv'
  <2>1. pc'[m] = "send" /\ call'[m] = "sent" /\ message'[m] = v
    BY <1>1, <1>2 DEF TypeOK
  <2>2. \A w \in Members :
          w # m => pc'[w] = pc[w] /\ call'[w] = call[w] /\ message'[w] = message[w]
    BY <1>1, <1>2 DEF TypeOK, Clients
  <2> SUFFICES ASSUME NEW w \in Members
               PROVE  /\ pc'[w] \in {"setup", "wait"} => call'[w] = "none"
                      /\ call'[w] = "none" => message'[w] = << >>
                      /\ call'[w] # "none" => VectorOf(w, message'[w])
    BY DEF CallInv, VectorOf
  <2>3. CASE w = m  BY <2>1, <2>3
  <2>4. CASE w # m  BY <2>2, <2>4 DEF CallInv
  <2> QED  BY <2>3, <2>4
<1>4. SeedVectorInv'
  <2>1. \A w \in Members :
          pc'[w] \in {"setup", "wait"} =>
            pc[w] \in {"setup", "wait"} /\ seed_vector'[w] = seed_vector[w]
    BY <1>1, <1>2 DEF TypeOK, Clients
  <2> QED
    BY <2>1, SeedVectorStable
<1>5. HolderInv'
  <2>1. call[m] = "none"
    BY DEF CallInv
  <2>2. \A w \in Members : call[w] = "handled" => call'[w] = "handled"
    BY <1>2, <2>1 DEF TypeOK
  <2>3. seed_vector'[Holder] = seed_vector[Holder] /\ pc'[Holder] = pc[Holder]
    BY <1>1, <1>2 DEF TypeOK
  <2> QED
    BY <2>2, <2>3, HolderStable DEF Send
<1> QED
  BY <1>3, <1>4, <1>5

\* ForwardVector sends the vector of its member.
LEMMA ForwardStep ==
  ASSUME TypeOK, CallInv, SeedVectorInv, HolderInv,
         NEW m \in Members, ForwardVector(m)
  PROVE  CallInv' /\ SeedVectorInv' /\ HolderInv'
<1> DEFINE peeled == DecryptAll(m, seed_vector[m])
           a == Append(peeled, LayerEncrypt(m))
<1>1. seed_vector[m] \in Seq(Ciphertext)
  BY DEF TypeOK, Clients
<1>2. \/ IsFirst(m) /\ seed_vector[m] = << >>
      \/ ~IsFirst(m) /\ VectorOf(Prev(m), seed_vector[m])
  BY DEF ForwardVector, SeedVectorInv, Ready
<1>3. peeled \in Seq(Ciphertext) /\ PeeledFor(m, peeled)
  BY <1>1, <1>2, PeelVector
<1>4. /\ LayerEncrypt(m) \in Ciphertext /\ LayerEncrypt(m).owner = m
      /\ LayerEncrypt(m).layers = LayersFrom(m) /\ LayerEncrypt(m).intact
  BY CiphertextTypes DEF LayerEncrypt
<1> HIDE DEF peeled
<1>5. a \in Seq(Ciphertext) /\ VectorOf(m, a)
  BY <1>3, <1>4, AddOwn
<1>6. PICK v \in Shuffled(a) : /\ seed_vector' = [seed_vector EXCEPT ![m] = v]
                               /\ Send(m, v)
  BY DEF ForwardVector, peeled
<1> HIDE DEF a
<1>7. v \in Seq(Ciphertext) /\ VectorOf(m, v)
  BY <1>5, ShuffledVector
<1>8. pc[m] = "wait"
  BY DEF ForwardVector
<1> QED
  BY <1>6, <1>7, <1>8, SendStep

\* SendGroupSum sends the sum of the whole group.
LEMMA GroupSumStep ==
  ASSUME TypeOK, CallInv, SeedVectorInv, HolderInv,
         NEW m \in Members, SendGroupSum(m)
  PROVE  CallInv' /\ SeedVectorInv' /\ HolderInv'
<1> DEFINE peeled == DecryptAll(m, seed_vector[m])
           v == <<PaillierEncrypt(m)>> \o peeled
<1>1. seed_vector[m] \in Seq(Ciphertext)
  BY DEF TypeOK, Clients
<1>2. ~IsFirst(m) /\ VectorOf(Prev(m), seed_vector[m])
  BY DEF SendGroupSum, SeedVectorInv
<1>3. peeled \in Seq(Ciphertext) /\ PeeledFor(m, peeled)
  BY <1>1, <1>2, PeelVector
<1>4. /\ PaillierEncrypt(m) \in Ciphertext /\ PaillierEncrypt(m).owner = m
      /\ PaillierEncrypt(m).layers = LayersFrom(m) /\ PaillierEncrypt(m).intact
  BY CiphertextTypes, LayersType DEF PaillierEncrypt, SendGroupSum
<1>5. pc[m] = "wait" /\ Send(m, v)
      /\ seed_vector' = [seed_vector EXCEPT ![m] = peeled]
  BY DEF SendGroupSum
<1> HIDE DEF peeled
<1>6. v \in Seq(Ciphertext) /\ VectorOf(m, v)
  BY <1>3, <1>4, AddOwn
<1> HIDE DEF v
<1> QED
  BY <1>5, <1>6, SendStep

\* A call that is handled stays so, and the caller's vector is what it was.
LEMMA HandledStep ==
  ASSUME TypeOK, CallInv, NEW m \in Members, call[m] = "sent",
         call' = [call EXCEPT ![m] = "handled"], UNCHANGED <<pc, message>>
  PROVE  /\ CallInv'
         /\ VectorOf(m, message[m])
         /\ \A w \in Members : call[w] = "handled" => call'[w] = "handled"
         /\ call'[m] = "handled"
<1>1. \A w \in Members : call'[w] = IF w = m THEN "handled" ELSE call[w]
  BY DEF TypeOK
<1>2. CallInv'
  BY <1>1 DEF CallInv, VectorOf
<1> QED
  BY <1>1, <1>2 DEF CallInv

\* A vector that is stored is the one the member polls for.
LEMMA StoreStep ==
  ASSUME TypeOK, CallInv, SeedVectorInv, HolderInv,
         NEW m \in Members, StoreVector(m)
  PROVE  CallInv' /\ SeedVectorInv' /\ HolderInv'
<1> DEFINE t == Target(m)
<1>1. /\ call[m] = "sent" /\ call' = [call EXCEPT ![m] = "handled"]
      /\ seed_vector' = [seed_vector EXCEPT ![t] = message[m]]
      /\ pc' = pc /\ message' = message /\ sum_seed' = sum_seed
      /\ group_sum_seed' = group_sum_seed /\ holder_seed' = holder_seed
  BY DEF StoreVector, Deliverable
<1>2. /\ CallInv' /\ VectorOf(m, message[m])
      /\ \A w \in Members : call[w] = "handled" => call'[w] = "handled"
  BY <1>1, HandledStep
<1>3. t \in Clients /\ Holder \in Clients /\ Members \subseteq Clients
  BY TargetFacts DEF Clients
<1>4. \A c \in Clients :
        seed_vector'[c] = IF c = t THEN message[m] ELSE seed_vector[c]
  BY <1>1, <1>3 DEF TypeOK
<1> HIDE DEF t
<1>5. SeedVectorInv'
  <2> SUFFICES ASSUME NEW w \in Members, pc'[w] \in {"setup", "wait"},
                      seed_vector'[w] # << >>
               PROVE  ~IsFirst(w) /\ VectorOf(Prev(w), seed_vector'[w])
    BY DEF SeedVectorInv, VectorOf
  <2>1. CASE w = t
    <3>1. ~IsLeader(m) /\ Prev(w) = m /\ ~IsFirst(w)
      BY <2>1, TargetFacts, HolderNotMember DEF t
    <3> QED
      BY <1>2, <1>3, <1>4, <2>1, <3>1
  <2>2. CASE w # t
    BY <1>1, <1>3, <1>4, <2>2 DEF SeedVectorInv
  <2> QED
    BY <2>1, <2>2
<1>6. HolderInv'
  <2>1. CASE t # Holder
    <3>1. seed_vector'[Holder] = seed_vector[Holder]
      BY <1>3, <1>4, <2>1
    <3> QED
      BY <1>1, <1>2, <3>1, HolderStable
  <2>2. CASE t = Holder
    <3>1. m[1] \in Groups /\ VectorOf(Leader(m[1]), seed_vector'[Holder])
      BY <1>2, <1>3, <1>4, <2>2, TargetFacts, MemberFacts DEF t
    <3>2. SumsInv(group_sum_seed)' /\ SumsInv(holder_seed)'
      BY <1>1, <1>2, SumsStable DEF HolderInv, SumsInv
    <3> QED
      BY <1>1, <3>1, <3>2 DEF HolderInv, VectorOf
  <2> QED
    BY <2>1, <2>2
<1> QED
  BY <1>2, <1>5, <1>6

\* The first factor of a group's sum tells the group.
LEMMA SumGroupOfVector ==
  ASSUME NEW m \in Members, NEW v \in Seq(Ciphertext), VectorOf(m, v)
  PROVE  SumGroup(v) = m[1]
<1>1. Len(v) = m[2] /\ m[2] \in Nat \ {0}
  BY MemberFacts DEF VectorOf
<1>2. 1 \in DOMAIN v
  BY <1>1
<1> QED
  BY <1>2 DEF VectorOf, SumGroup

\* A sum that is collected is of a group that had none yet.
LEMMA CollectStep ==
  ASSUME TypeOK, CallInv, SeedVectorInv, HolderInv,
         NEW m \in Members, CollectGroupSum(m)
  PROVE  CallInv' /\ SeedVectorInv' /\ HolderInv'
<1> DEFINE s == group_sum_seed
           v == message[m]
<1>1. /\ call[m] = "sent" /\ call' = [call EXCEPT ![m] = "handled"]
      /\ group_sum_seed' = Append(s, v) /\ Target(m) = Holder
      /\ pc' = pc /\ message' = message /\ seed_vector' = seed_vector
      /\ sum_seed' = sum_seed /\ holder_seed' = holder_seed
  BY DEF CollectGroupSum, Deliverable
<1>2. /\ CallInv' /\ VectorOf(m, v)
      /\ \A w \in Members : call[w] = "handled" => call'[w] = "handled"
      /\ call'[m] = "handled"
  BY <1>1, HandledStep
<1>3. SeedVectorInv'
  BY <1>1, SeedVectorStable
<1>4. m = Leader(m[1]) /\ m[1] \in Groups
  BY <1>1, TargetFacts, MemberFacts
<1>5. v \in Seq(Ciphertext) /\ SumGroup(v) = m[1]
  BY <1>2, SumGroupOfVector DEF TypeOK
<1>6. SumsInv(group_sum_seed)'
  <2> DEFINE n == Len(s)
             a == Append(s, v)
  <2>1. /\ s \in Seq(Seq(Ciphertext)) /\ n \in Nat /\ DOMAIN s = 1 .. n
        /\ DOMAIN a = 1 .. n + 1 /\ a[n + 1] = v
        /\ \A i \in 1 .. n : a[i] = s[i]
        /\ \A i \in 1 .. n + 1 : i \in 1 .. n \/ i = n + 1
    BY <1>5 DEF TypeOK
  <2>2. \A i \in 1 .. n :
          /\ SumGroup(s[i]) \in Groups
          /\ VectorOf(Leader(SumGroup(s[i])), s[i])
          /\ call[Leader(SumGroup(s[i]))] = "handled"
          /\ Leader(SumGroup(s[i])) \in Members
    BY <2>1, LeaderMember DEF HolderInv, SumsInv
  <2>3. \A i, j \in 1 .. n : SumGroup(s[i]) = SumGroup(s[j]) => i = j
    BY <2>1 DEF HolderInv, SumsInv
  <2>4. \A i \in 1 .. n : SumGroup(s[i]) # m[1]
    BY <1>1, <1>4, <2>2
  <2> HIDE DEF n, s, v, a
  <2>5. \A i \in 1 .. n + 1 :
          /\ SumGroup(a[i]) \in Groups
          /\ VectorOf(Leader(SumGroup(a[i])), a[i])
          /\ call'[Leader(SumGroup(a[i]))] = "handled"
    <3> SUFFICES ASSUME NEW i \in 1 .. n + 1
                 PROVE  /\ SumGroup(a[i]) \in Groups
                        /\ VectorOf(Leader(SumGroup(a[i])), a[i])
                        /\ call'[Leader(SumGroup(a[i]))] = "handled"
      OBVIOUS
    <3>1. CASE i = n + 1
      BY <1>2, <1>4, <1>5, <2>1, <3>1
    <3>2. CASE i \in 1 .. n
      BY <1>2, <2>1, <2>2, <3>2
    <3> QED
      BY <2>1, <3>1, <3>2
  <2>6. \A i, j \in 1 .. n + 1 : SumGroup(a[i]) = SumGroup(a[j]) => i = j
    <3> SUFFICES ASSUME NEW i \in 1 .. n + 1, NEW j \in 1 .. n + 1,
                        SumGroup(a[i]) = SumGroup(a[j])
                 PROVE  i = j
      OBVIOUS
    <3>1. CASE i \in 1 .. n /\ j \in 1 .. n
      BY <2>1, <2>3, <3>1
    <3>2. CASE i = n + 1 \/ j = n + 1
      BY <1>5, <2>1, <2>4, <3>2
    <3> QED
      BY <2>1, <3>1, <3>2
  <2>7. group_sum_seed' = a
    BY <1>1 DEF a, s, v
  <2> QED
    BY <2>1, <2>5, <2>6, <2>7 DEF SumsInv
<1>7. HolderInv'
  <2>1. SumsInv(holder_seed)'
    BY <1>1, <1>2, SumsStable DEF HolderInv, SumsInv
  <2> QED
    BY <1>1, <1>6, <2>1 DEF HolderInv
<1> QED
  BY <1>2, <1>3, <1>7

\* A sum that lands in sum_seed is of a whole group.
LEMMA CollectSumStep ==
  ASSUME TypeOK, CallInv, SeedVectorInv, HolderInv,
         NEW m \in Members, CollectSum(m)
  PROVE  CallInv' /\ SeedVectorInv' /\ HolderInv'
<1>1. /\ call[m] = "sent" /\ call' = [call EXCEPT ![m] = "handled"]
      /\ sum_seed' = message[m] /\ Target(m) = Holder
      /\ pc' = pc /\ message' = message /\ seed_vector' = seed_vector
      /\ group_sum_seed' = group_sum_seed /\ holder_seed' = holder_seed
  BY DEF CollectSum, Deliverable
<1>2. /\ CallInv' /\ VectorOf(m, message[m])
      /\ \A w \in Members : call[w] = "handled" => call'[w] = "handled"
  BY <1>1, HandledStep
<1>3. SeedVectorInv'
  BY <1>1, SeedVectorStable
<1>4. m = Leader(m[1]) /\ m[1] \in Groups
  BY <1>1, TargetFacts, MemberFacts
<1>5. SumsInv(group_sum_seed)' /\ SumsInv(holder_seed)'
  BY <1>1, <1>2, SumsStable DEF HolderInv, SumsInv
<1> QED
  BY <1>1, <1>2, <1>3, <1>4, <1>5 DEF HolderInv, VectorOf

\* Steps of main that move neither messages nor vectors.
LEMMA MainStep ==
  ASSUME TypeOK, CallInv, SeedVectorInv, HolderInv,
         UNCHANGED <<seed_vector, group_sum_seed, sum_seed, holder_seed, message,
                     call>>,
         \A c \in Clients :
           /\ pc'[c] \in {"setup", "wait"} => pc[c] \in {"setup", "wait"}
           /\ c = Holder /\ pc'[c] = "done" => pc[c] = "done"
  PROVE  CallInv' /\ SeedVectorInv' /\ HolderInv'
<1>1. Holder \in Clients /\ Members \subseteq Clients
  BY DEF Clients
<1> QED
  BY <1>1, CallStable, SeedVectorStable, HolderStable

\* The holder multiplies sums of different groups, as many as there are.
LEMMA SumGroupsStep ==
  ASSUME TypeOK, CallInv, SeedVectorInv, HolderInv, SumGroups
  PROVE  CallInv' /\ SeedVectorInv' /\ HolderInv'
<1>1. /\ holder_seed' = group_sum_seed /\ group_sum_seed' = group_sum_seed
      /\ Len(group_sum_seed) >= NumGroups(N)
      /\ pc' = [pc EXCEPT ![Holder] = "done"]
      /\ message' = message /\ call' = call /\ seed_vector' = seed_vector
      /\ sum_seed' = sum_seed
  BY DEF SumGroups, Collected
<1>2. \A m \in Members : pc'[m] = pc[m]
  BY <1>1, HolderNotMember DEF TypeOK, Clients
<1>3. CallInv' /\ SeedVectorInv'
  BY <1>1, <1>2, CallStable, SeedVectorStable
<1>4. SumsInv(group_sum_seed)' /\ SumsInv(holder_seed)'
  BY <1>1 DEF HolderInv, SumsInv
<1> QED
  BY <1>1, <1>3, <1>4 DEF HolderInv

\* A vector reaches a member only by the call of the one before it.
LEMMA NotYetSentStep ==
  ASSUME TypeOK, NotYetSent, CallInv, [Next]_vars
  PROVE  NotYetSent'
<1> SUFFICES ASSUME NEW m \in Members, ~IsLeader(m), call'[m] # "handled"
             PROVE  seed_vector'[Target(m)] = << >>
  BY DEF NotYetSent
<1> DEFINE t == Target(m)
<1>1. t \in Members /\ t \in Clients /\ ~IsFirst(t) /\ Prev(t) = m
  BY TargetFacts
<1>2. ASSUME call[m] # "handled" PROVE seed_vector[t] = << >>
  BY <1>2 DEF NotYetSent
<1> HIDE DEF t
<1>3. CASE UNCHANGED <<call, seed_vector>>
  BY <1>2, <1>3 DEF t
<1>4. ASSUME NEW w \in Members, ForwardVector(w) \/ SendGroupSum(w)
      PROVE  seed_vector'[t] = << >>
  <2>1. w # t
    <3>1. call[w] = "none" /\ (IsFirst(w) \/ seed_vector[w] # << >>)
      BY <1>4 DEF ForwardVector, SendGroupSum, CallInv, Ready
    <3>2. CASE w = m
      BY <3>2, TargetFacts DEF t
    <3>3. CASE w # m
      <4>1. call'[m] = call[m]
        BY <1>4, <3>3 DEF ForwardVector, SendGroupSum, Send, TypeOK
      <4> QED
        BY <1>1, <1>2, <3>1, <4>1
    <3> QED
      BY <3>2, <3>3
  <2>2. call[m] # "handled"
    <3>1. call'[m] = "sent" \/ call'[m] = call[m]
      BY <1>4 DEF ForwardVector, SendGroupSum, Send, TypeOK
    <3>2. w = m => call[m] = "none"
      BY <1>4 DEF ForwardVector, SendGroupSum, CallInv
    <3>3. w # m => call'[m] = call[m]
      BY <1>4 DEF ForwardVector, SendGroupSum, Send, TypeOK
    <3> QED
      BY <3>2, <3>3
  <2>3. seed_vector'[t] = seed_vector[t]
    BY <1>1, <1>4, <2>1 DEF ForwardVector, SendGroupSum, TypeOK
  <2> QED
    BY <1>2, <2>2, <2>3
<1>5. ASSUME NEW w \in Members, ReceiveMessage(w)
      PROVE  seed_vector'[t] = << >>
  <2>1. call' = [call EXCEPT ![w] = "handled"]
    BY <1>5 DEF ReceiveMessage, StoreVector, CollectGroupSum, CollectSum
  <2>2. w # m /\ call[m] # "handled"
    BY <2>1 DEF TypeOK
  <2>3. Target(w) # t
    <3>1. CASE IsLeader(w)
      BY <1>1, <3>1, TargetFacts, HolderNotMember
    <3>2. CASE ~IsLeader(w)
      BY <1>1, <2>2, <3>2, TargetFacts
    <3> QED
      BY <3>1, <3>2
  <2>4. seed_vector'[t] = seed_vector[t]
    BY <1>1, <1>5, <2>3
       DEF ReceiveMessage, StoreVector, CollectGroupSum, CollectSum, TypeOK
  <2> QED
    BY <1>2, <2>2, <2>4
<1>6. ASSUME NEW c \in Clients, StartServer(c) \/ DecideRole(c) \/ Crash(c)
      PROVE  UNCHANGED <<call, seed_vector>>
  BY <1>6 DEF StartServer, DecideRole, Crash
<1>7. ASSUME NEW w \in Members, SendReturns(w) \/ TimeoutCrashed(w) \/ TimeoutLate(w)
      PROVE  UNCHANGED <<call, seed_vector>>
  BY <1>7 DEF SendReturns, TimeoutCrashed, TimeoutLate
<1>8. SumGroups \/ UNCHANGED vars => UNCHANGED <<call, seed_vector>>
  BY DEF SumGroups, vars
<1> QED
  BY <1>3, <1>4, <1>5, <1>6, <1>7, <1>8 DEF Next, t

\* The strengthened invariant is inductive.
LEMMA InvStep == IInv /\ [Next]_vars => IInv'
<1> SUFFICES ASSUME TypeOK, CallInv, SeedVectorInv, NotYetSent, HolderInv,
                    [Next]_vars
             PROVE  IInv'
  BY DEF IInv
<1>1. TypeOK' /\ NotYetSent'
  BY TypeStep, NotYetSentStep
<1> DEFINE Kept == CallInv' /\ SeedVectorInv' /\ HolderInv'
<1>2. ASSUME NEW c \in Clients, StartServer(c) PROVE Kept
  BY <1>2, MainStep DEF StartServer
<1>3. ASSUME NEW c \in Clients, DecideRole(c) \/ Crash(c) PROVE Kept
  <2>1. \/ pc[c] = "setup" /\ pc' = [pc EXCEPT ![c] = "wait"]
        \/ pc' = [pc EXCEPT ![c] = "crashed"]
    BY <1>3 DEF DecideRole, Crash
  <2>2. \A d \in Clients :
          /\ pc'[d] \in {"setup", "wait"} => pc[d] \in {"setup", "wait"}
          /\ d = Holder /\ pc'[d] = "done" => pc[d] = "done"
    BY <2>1 DEF TypeOK
  <2> QED
    BY <1>3, <2>2, MainStep DEF DecideRole, Crash
<1>5. ASSUME NEW m \in Members, ForwardVector(m) PROVE Kept
  BY <1>5, ForwardStep
<1>6. ASSUME NEW m \in Members, SendGroupSum(m) PROVE Kept
  BY <1>6, GroupSumStep
<1>7. ASSUME NEW m \in Members, ReceiveMessage(m) PROVE Kept
  BY <1>7, StoreStep, CollectStep, CollectSumStep DEF ReceiveMessage
<1>8. ASSUME NEW m \in Members,
             SendReturns(m) \/ TimeoutCrashed(m) \/ TimeoutLate(m)
      PROVE  Kept
  <2>1. pc' = [pc EXCEPT ![m] = "done"] \/ pc' = [pc EXCEPT ![m] = "dead"]
    BY <1>8 DEF SendReturns, TimeoutCrashed, TimeoutLate, Fails
  <2>2. \A d \in Clients :
          /\ pc'[d] \in {"setup", "wait"} => pc[d] \in {"setup", "wait"}
          /\ d = Holder /\ pc'[d] = "done" => pc[d] = "done"
    BY <2>1, HolderNotMember DEF TypeOK
  <2> QED
    BY <1>8, <2>2, MainStep DEF SendReturns, TimeoutCrashed, TimeoutLate
<1>9. ASSUME SumGroups PROVE Kept
  BY <1>9, SumGroupsStep
<1>10. ASSUME UNCHANGED vars PROVE Kept
  <2>1. pc' = pc /\ UNCHANGED <<seed_vector, group_sum_seed, sum_seed,
                                holder_seed, message, call>>
    BY <1>10 DEF vars
  <2> QED
    BY <2>1, MainStep
<1> HIDE DEF Kept
<1>11. ASSUME Next PROVE Kept
  BY <1>2, <1>3, <1>5, <1>6, <1>7, <1>8, <1>9, <1>11 DEF Next
<1>12. Kept
  BY <1>10, <1>11
<1> QED
  BY <1>1, <1>12 DEF IInv, Kept

\* The inductive invariant holds of every execution.
LEMMA Invariant == Spec => []IInv
<1>1. Init => IInv
  <2>1. Init => NotYetSent
    BY TargetFacts DEF Init, NotYetSent
  <2> QED
    BY <2>1, TypeInit, InvInit DEF IInv
<1> QED
  BY <1>1, InvStep, PTL DEF Spec

-----------------------------------------------------------------------------
(* What the invariant gives.                                                 *)

\* As many sums as groups, no two of the same group: one of each.
LEMMA EveryGroupSummed ==
  ASSUME NEW s \in Seq(Seq(Ciphertext)), SumsInv(s), Len(s) >= NumGroups(N),
         NEW g \in Groups
  PROVE  \E i \in DOMAIN s : SumGroup(s[i]) = g
<1> DEFINE D == 1 .. Len(s)
           f == [i \in D |-> SumGroup(s[i])]
<1>1. D = DOMAIN s /\ Len(s) \in Nat
  OBVIOUS
<1>2. f \in Injection(D, Groups)
  BY <1>1 DEF SumsInv, Injection, IsInjective
<1>3. NumGroups(N) \in Nat
  <2>1. N \in Nat /\ N >= 1
    BY NAssumption DEF Groupable
  <2> QED
    BY <2>1 DEF NumGroups
<1>4. /\ IsFiniteSet(Groups) /\ Cardinality(Groups) = NumGroups(N)
      /\ Cardinality(D) = Len(s)
  <2>1. ASSUME NEW n \in Nat
        PROVE  IsFiniteSet(1 .. n) /\ Cardinality(1 .. n) = n
    <3>1. IsFiniteSet(1 .. n)
          /\ Cardinality(1 .. n) = IF 1 > n THEN 0 ELSE n - 1 + 1
      BY FS_Interval
    <3> QED
      BY <3>1
  <2> QED
    BY <1>1, <1>3, <2>1 DEF Groups
<1> HIDE DEF D, f
<1>5. Cardinality(D) <= Cardinality(Groups)
  BY <1>2, <1>4, FS_Injection
<1>6. Cardinality(D) = Cardinality(Groups)
  BY <1>1, <1>3, <1>4, <1>5
<1>7. f \in Surjection(D, Groups)
  BY <1>2, <1>4, <1>6, FS_Injection
<1>8. PICK i \in D : f[i] = g
  BY <1>7 DEF Surjection
<1> QED
  BY <1>1, <1>8 DEF f

\* One sum of each group holds the seed of each member once.
LEMMA SeedCountedOnce ==
  ASSUME NEW s \in Seq(Seq(Ciphertext)), SumsInv(s), Len(s) >= NumGroups(N),
         NEW m \in Members
  PROVE  Cardinality(SeedFactors(s, m)) = 1
<1> DEFINE l == Leader(m[1])
<1>1. /\ m[1] \in Groups /\ m[2] <= Size(m[1]) /\ m[2] \in Nat
      /\ Size(m[1]) \in Nat /\ Size(m[1]) <= N /\ N \in Nat
  BY MemberFacts
<1>2. l \in Members /\ l[1] = m[1] /\ l[2] = Size(m[1]) /\ IsLeader(l)
  BY <1>1, LeaderMember
<1>3. PICK i \in DOMAIN s : SumGroup(s[i]) = m[1]
  BY <1>1, EveryGroupSummed
<1>4. VectorOf(l, s[i]) /\ s[i] \in Seq(Ciphertext)
  BY <1>3 DEF SumsInv
<1> HIDE DEF l
<1>5. PICK k \in DOMAIN s[i] : s[i][k].owner = m
  BY <1>1, <1>2, <1>4 DEF VectorOf
<1>6. s[i][k] = PaillierEncrypt(m)
  <2>1. s[i][k] \in Ciphertext
    BY <1>4
  <2>2. s[i][k].layers = << >> /\ s[i][k].intact = TRUE
    <3>1. s[i][k].intact /\ s[i][k].layers = LayersFrom(l)
      BY <1>4 DEF VectorOf
    <3> QED
      BY <1>2, <2>1, <3>1, LayersType DEF Ciphertext
  <2> QED
    BY <1>5, <2>1, <2>2 DEF PaillierEncrypt, Ciphertext
<1>7. k \in 1 .. N
  <2>1. DOMAIN s[i] = 1 .. Len(s[i]) /\ Len(s[i]) = Size(m[1])
    BY <1>2, <1>4 DEF VectorOf
  <2> QED
    BY <1>1, <2>1
<1>8. \A at \in SeedFactors(s, m) : at = <<i, k>>
  <2> SUFFICES ASSUME NEW at \in SeedFactors(s, m) PROVE at = <<i, k>>
    OBVIOUS
  <2>1. /\ at[1] \in DOMAIN s /\ at[2] \in DOMAIN s[at[1]]
        /\ at = <<at[1], at[2]>> /\ s[at[1]][at[2]].owner = m
    BY DEF SeedFactors, PaillierEncrypt
  <2>2. s[at[1]] \in Seq(Ciphertext) /\ VectorOf(Leader(SumGroup(s[at[1]])), s[at[1]])
        /\ SumGroup(s[at[1]]) \in Groups
    BY <2>1 DEF SumsInv
  <2>3. SumGroup(s[at[1]]) = m[1]
    BY <2>1, <2>2, LeaderMember DEF VectorOf
  <2>4. at[1] = i
    BY <1>3, <2>1, <2>3 DEF SumsInv
  <2>5. at[2] = k
    BY <1>4, <1>5, <2>1, <2>4 DEF VectorOf
  <2> QED
    BY <2>1, <2>4, <2>5
<1>9. <<i, k>> \in SeedFactors(s, m)
  BY <1>5, <1>6, <1>7 DEF SeedFactors
<1>10. SeedFactors(s, m) = {<<i, k>>}
  BY <1>8, <1>9
<1> QED
  BY <1>10, FS_Singleton

(* When the holder has its seed, every other client's seed is counted in it  *)
(* exactly once, for any number of clients and whatever fails: the masks     *)
(* cancel out (client.py, group_shuffle).                                    *)
THEOREM MasksCancel == Spec => []MaskSumZero
<1>1. IInv => MaskSumZero
  BY SeedCountedOnce DEF IInv, TypeOK, HolderInv, MaskSumZero
<1> QED
  BY <1>1, Invariant, PTL

(* Whatever a member sends is encrypted for exactly the members after it, so *)
(* every decrypt takes off the layer that was made for it.                   *)
THEOREM OnionsPeelInOrder == Spec => []OnionPeeled
<1>1. IInv => OnionPeeled
  <2> SUFFICES ASSUME IInv, NEW m \in Members, NEW k \in DOMAIN message[m]
               PROVE  message[m][k].intact /\ message[m][k].layers = LayersFrom(m)
    BY DEF OnionPeeled
  <2>1. message[m] # << >>
    OBVIOUS
  <2> QED
    BY <2>1 DEF IInv, CallInv, VectorOf
<1> QED
  BY <1>1, Invariant, PTL

\* The cardinality of three different elements.
LEMMA ThreeElements ==
  ASSUME NEW a, NEW b, NEW c, a # b, a # c, b # c
  PROVE  IsFiniteSet({a, b, c}) /\ Cardinality({a, b, c}) = 3
<1>1. IsFiniteSet({a}) /\ Cardinality({a}) = 1
  BY FS_Singleton
<1>2. IsFiniteSet({a} \cup {b}) /\ Cardinality({a} \cup {b}) = 1 + 1
  BY <1>1, FS_AddElement
<1>3. c \notin {a} \cup {b}
  OBVIOUS
<1> DEFINE ab == {a} \cup {b}
<1> HIDE DEF ab
<1>4. IsFiniteSet(ab \cup {c}) /\ Cardinality(ab \cup {c}) = 2 + 1
  BY <1>2, <1>3, FS_AddElement DEF ab
<1>5. {a, b, c} = ab \cup {c}
  BY DEF ab
<1> QED
  BY <1>4, <1>5

\* A group's sum has the seeds of three clients in it at least.
LEMMA SumOfThree ==
  ASSUME NEW g \in Groups, NEW v \in Seq(Ciphertext), VectorOf(Leader(g), v)
  PROVE  Cardinality({v[k].owner : k \in DOMAIN v}) >= 3
<1> DEFINE O == {v[k].owner : k \in DOMAIN v}
           T == {<<g, 1>>, <<g, 2>>, <<g, 3>>}
<1>1. /\ Leader(g) \in Members /\ Leader(g)[1] = g /\ Leader(g)[2] = Size(g)
      /\ Size(g) \in 3 .. N - 1 /\ N \in Nat
  BY LeaderMember, MemberFacts
<1>2. <<g, 1>> \in Members /\ <<g, 2>> \in Members /\ <<g, 3>> \in Members
  BY <1>1, MemberIntro
<1>3. \A w \in Members : w[1] = g /\ w[2] <= Size(g) => \E k \in DOMAIN v : v[k].owner = w
  BY <1>1 DEF VectorOf
<1>4. T \subseteq O
  <2>1. 1 <= Size(g) /\ 2 <= Size(g) /\ 3 <= Size(g)
    BY <1>1
  <2> QED
    BY <1>2, <1>3, <2>1
<1>5. IsFiniteSet(T) /\ Cardinality(T) = 3
  <2>1. <<g, 1>> # <<g, 2>> /\ <<g, 1>> # <<g, 3>> /\ <<g, 2>> # <<g, 3>>
    OBVIOUS
  <2> QED
    BY <2>1, ThreeElements
<1>6. IsFiniteSet(O)
  <2> DEFINE D == 1 .. Len(v)
             f == [k \in D |-> v[k].owner]
  <2>1. f \in Surjection(D, O) /\ D = DOMAIN v /\ Len(v) \in Nat
    BY DEF Surjection
  <2>2. IsFiniteSet(D)
    BY <2>1, FS_Interval
  <2> HIDE DEF D, f, O
  <2> QED
    BY <2>1, <2>2, FS_Surjection
<1> HIDE DEF O, T
<1>7. Cardinality(T) <= Cardinality(O) /\ Cardinality(O) \in Nat
  BY <1>4, <1>6, FS_Subset, FS_CardinalityType
<1> QED
  BY <1>5, <1>7 DEF O

(* The holder never gets the seed of fewer than three clients in one         *)
(* product, whichever field receive_message puts it in.                      *)
THEOREM SumsHideSeeds == Spec => []GroupSumHides
<1>1. IInv => GroupSumHides
  <2> SUFFICES ASSUME IInv PROVE GroupSumHides
    OBVIOUS
  <2>1. seed_vector[Holder] \in Seq(Ciphertext) /\ sum_seed \in Seq(Ciphertext)
        /\ group_sum_seed \in Seq(Seq(Ciphertext))
    BY DEF IInv, TypeOK, Clients
  <2>2. \A i \in DOMAIN group_sum_seed :
          group_sum_seed[i] \in Seq(Ciphertext)
          /\ \E g \in Groups : VectorOf(Leader(g), group_sum_seed[i])
    BY <2>1 DEF IInv, HolderInv, SumsInv
  <2> QED
    BY <2>1, <2>2, SumOfThree DEF IInv, HolderInv, GroupSumHides
<1> QED
  BY <1>1, Invariant, PTL

(* The server thread never replaces a vector its main thread has, or has     *)
(* used: receive_message writes seed_vector of a member once.                *)
THEOREM VectorsNotOverwritten == Spec => VectorNotOverwritten
<1> DEFINE Keeps == \A m \in Members :
                      seed_vector[m] # << >> /\ pc'[m] = pc[m] =>
                        seed_vector'[m] = seed_vector[m]
<1>1. IInv /\ [Next]_vars => [Keeps]_vars
  <2> SUFFICES ASSUME IInv, [Next]_vars, NEW m \in Members,
                      seed_vector[m] # << >>, pc'[m] = pc[m]
               PROVE  seed_vector'[m] = seed_vector[m]
    OBVIOUS
  <2> USE DEF IInv, TypeOK
  <2>0. m \in Clients
    BY DEF Clients
  <2>1. ASSUME NEW w \in Members, ForwardVector(w) \/ SendGroupSum(w)
        PROVE  seed_vector'[m] = seed_vector[m]
    <3>1. pc[w] = "wait" /\ pc' = [pc EXCEPT ![w] = "send"]
      BY <2>1 DEF ForwardVector, SendGroupSum, Send
    <3>2. w # m
      BY <2>0, <3>1
    <3> QED
      BY <2>0, <2>1, <3>2 DEF ForwardVector, SendGroupSum
  <2>2. ASSUME NEW w \in Members, ReceiveMessage(w)
        PROVE  seed_vector'[m] = seed_vector[m]
    <3>1. CASE Target(w) = m
      <4>1. ~IsLeader(w)
        BY <3>1, TargetFacts, HolderNotMember
      <4>2. call[w] = "sent"
        BY <2>2 DEF ReceiveMessage, StoreVector, CollectGroupSum, CollectSum,
                    Deliverable
      <4> QED
        BY <3>1, <4>1, <4>2 DEF NotYetSent
    <3>2. CASE Target(w) # m
      BY <2>0, <2>2, <3>2
         DEF ReceiveMessage, StoreVector, CollectGroupSum, CollectSum
    <3> QED
      BY <3>1, <3>2
  <2>3. ASSUME NEW c \in Clients, StartServer(c) \/ DecideRole(c) \/ Crash(c)
        PROVE  seed_vector' = seed_vector
    BY <2>3 DEF StartServer, DecideRole, Crash
  <2>4. ASSUME NEW w \in Members,
               SendReturns(w) \/ TimeoutCrashed(w) \/ TimeoutLate(w)
        PROVE  seed_vector' = seed_vector
    BY <2>4 DEF SendReturns, TimeoutCrashed, TimeoutLate
  <2>5. SumGroups \/ UNCHANGED vars => seed_vector' = seed_vector
    BY DEF SumGroups, vars
  <2> QED
    BY <2>1, <2>2, <2>3, <2>4, <2>5 DEF Next
<1> QED
  BY <1>1, Invariant, PTL DEF Spec, VectorNotOverwritten

-----------------------------------------------------------------------------
(* Nobody waits in vain.                                                     *)

\* A member is done when its call has been handled; what was handled is where it
\* is polled for, with the next member or in the list of the holder.
DoneInv == \A m \in Members : pc[m] = "done" => call[m] = "handled"

ArrivedInv ==
  \A m \in Members :
    ~IsLeader(m) /\ call[m] = "handled" /\ pc[Target(m)] \in {"setup", "wait"} =>
      seed_vector[Target(m)] # << >>

SummedInv ==
  group_flag /\ seed_vector[Holder] = << >> =>
    \A m \in Members : IsLeader(m) /\ call[m] = "handled" =>
      \E i \in DOMAIN group_sum_seed : SumGroup(group_sum_seed[i]) = m[1]

DeliveredInv == DoneInv /\ ArrivedInv /\ SummedInv

\* A step that delivers nothing keeps it: whoever gets done has had its answer.
LEMMA QuietStep ==
  ASSUME DeliveredInv, UNCHANGED <<seed_vector, group_sum_seed, group_flag, call>>,
         \A c \in Clients : pc'[c] \in {"setup", "wait"} => pc[c] \in {"setup", "wait"},
         \A m \in Members : pc'[m] = "done" => pc[m] = "done" \/ call[m] = "handled"
  PROVE  DeliveredInv'
<1>1. DoneInv'  BY DEF DeliveredInv, DoneInv
<1>2. ArrivedInv'
  <2> SUFFICES ASSUME NEW m \in Members, ~IsLeader(m), call[m] = "handled",
                      pc'[Target(m)] \in {"setup", "wait"}
               PROVE  seed_vector[Target(m)] # << >>
    BY DEF ArrivedInv
  <2>1. pc[Target(m)] \in {"setup", "wait"}  BY TargetFacts
  <2> QED  BY <2>1 DEF DeliveredInv, ArrivedInv
<1>3. SummedInv'  BY DEF DeliveredInv, SummedInv
<1> QED  BY <1>1, <1>2, <1>3 DEF DeliveredInv

\* The steps of main that send.
LEMMA SendKeepsDelivered ==
  ASSUME TypeOK, CallInv, DeliveredInv, NEW m \in Members,
         ForwardVector(m) \/ SendGroupSum(m)
  PROVE  DeliveredInv'
<1>1. /\ pc[m] = "wait" /\ call[m] = "none"
      /\ pc' = [pc EXCEPT ![m] = "send"] /\ call' = [call EXCEPT ![m] = "sent"]
      /\ group_flag' = group_flag /\ group_sum_seed' = group_sum_seed
      /\ \A c \in Clients : c # m => seed_vector'[c] = seed_vector[c]
  BY DEF ForwardVector, SendGroupSum, Send, CallInv, TypeOK
<1>2. m \in Clients /\ m # Holder /\ Holder \in Clients /\ Members \subseteq Clients
  BY HolderNotMember DEF Clients
<1>3. /\ pc'[m] = "send" /\ call'[m] = "sent" /\ seed_vector'[Holder] = seed_vector[Holder]
      /\ \A w \in Members : w # m => pc'[w] = pc[w] /\ call'[w] = call[w]
      /\ \A c \in Clients : c # m => pc'[c] = pc[c]
  BY <1>1, <1>2 DEF TypeOK
<1>4. DoneInv'
  <2> SUFFICES ASSUME NEW w \in Members, pc'[w] = "done" PROVE call'[w] = "handled"
    BY DEF DoneInv
  <2>1. w # m  BY <1>3
  <2> QED  BY <1>3, <2>1 DEF DeliveredInv, DoneInv
<1>5. ArrivedInv'
  <2> SUFFICES ASSUME NEW w \in Members, ~IsLeader(w), call'[w] = "handled",
                      pc'[Target(w)] \in {"setup", "wait"}
               PROVE  seed_vector'[Target(w)] # << >>
    BY DEF ArrivedInv
  <2>1. w # m /\ call[w] = "handled" /\ Target(w) # m /\ Target(w) \in Clients
    BY <1>3, TargetFacts
  <2>2. pc[Target(w)] \in {"setup", "wait"} /\ seed_vector'[Target(w)] = seed_vector[Target(w)]
    BY <1>1, <1>3, <2>1
  <2> QED  BY <2>1, <2>2 DEF DeliveredInv, ArrivedInv
<1>6. SummedInv'
  <2>1. \A w \in Members : call'[w] = "handled" => call[w] = "handled"  BY <1>3
  <2> QED  BY <1>1, <1>3, <2>1 DEF DeliveredInv, SummedInv
<1> QED  BY <1>4, <1>5, <1>6 DEF DeliveredInv

\* The steps of the servers.
LEMMA HandlingDelivers ==
  ASSUME TypeOK, CallInv, DeliveredInv, NEW m \in Members, ReceiveMessage(m)
  PROVE  DeliveredInv'
<1>1. /\ call[m] = "sent" /\ call' = [call EXCEPT ![m] = "handled"]
      /\ pc' = pc /\ group_flag' = group_flag /\ message' = message
  BY DEF ReceiveMessage, StoreVector, CollectGroupSum, CollectSum, Deliverable
<1>2. /\ VectorOf(m, message[m]) /\ call'[m] = "handled"
      /\ \A w \in Members : w # m => call'[w] = call[w]
  BY <1>1, HandledStep DEF TypeOK
<1>3. message[m] # << >> /\ SumGroup(message[m]) = m[1] /\ message[m] \in Seq(Ciphertext)
  <2>1. Len(message[m]) = m[2] /\ m[2] \in Nat \ {0}  BY <1>2, MemberFacts DEF VectorOf
  <2>2. message[m] \in Seq(Ciphertext)  BY DEF TypeOK
  <2> QED  BY <1>2, <2>1, <2>2, SumGroupOfVector
<1>4. DoneInv'  BY <1>1, <1>2 DEF DeliveredInv, DoneInv
<1>5. \/ /\ seed_vector' = [seed_vector EXCEPT ![Target(m)] = message[m]]
         /\ group_sum_seed' = group_sum_seed
      \/ /\ seed_vector' = seed_vector /\ IsLeader(m)
         /\ group_flag => group_sum_seed' = Append(group_sum_seed, message[m])
  BY TargetFacts DEF ReceiveMessage, StoreVector, CollectGroupSum, CollectSum
<1>6. ArrivedInv'
  <2> SUFFICES ASSUME NEW w \in Members, ~IsLeader(w), call'[w] = "handled",
                      pc'[Target(w)] \in {"setup", "wait"}
               PROVE  seed_vector'[Target(w)] # << >>
    BY DEF ArrivedInv
  <2>1. Target(w) \in Clients /\ pc[Target(w)] \in {"setup", "wait"}  BY <1>1, TargetFacts
  <2>2. w # m => seed_vector[Target(w)] # << >>
    BY <1>2, <2>1 DEF DeliveredInv, ArrivedInv
  <2>3. CASE seed_vector' = [seed_vector EXCEPT ![Target(m)] = message[m]]
    <3>1. seed_vector'[Target(w)] =
            IF Target(w) = Target(m) THEN message[m] ELSE seed_vector[Target(w)]
      BY <2>1, <2>3 DEF TypeOK
    <3> QED  BY <1>3, <2>2, <3>1
  <2>4. CASE seed_vector' = seed_vector /\ IsLeader(m)  BY <2>2, <2>4
  <2> QED  BY <1>5, <2>3, <2>4
<1>7. SummedInv'
  <2> SUFFICES ASSUME group_flag, seed_vector'[Holder] = << >>,
                      NEW w \in Members, IsLeader(w), call'[w] = "handled"
               PROVE  \E i \in DOMAIN group_sum_seed' : SumGroup(group_sum_seed'[i]) = w[1]
    BY <1>1 DEF SummedInv
  <2>1. Holder \in Clients  BY DEF Clients
  <2>2. CASE /\ seed_vector' = [seed_vector EXCEPT ![Target(m)] = message[m]]
             /\ group_sum_seed' = group_sum_seed
    <3>1. Target(m) # Holder /\ seed_vector[Holder] = << >>
      BY <1>3, <2>1, <2>2 DEF TypeOK
    <3>2. w # m  BY <3>1, TargetFacts
    <3> QED  BY <1>2, <2>2, <3>1, <3>2 DEF DeliveredInv, SummedInv
  <2>3. CASE /\ seed_vector' = seed_vector /\ IsLeader(m)
             /\ group_flag => group_sum_seed' = Append(group_sum_seed, message[m])
    <3>1. group_sum_seed \in Seq(Seq(Ciphertext))  BY DEF TypeOK
    <3>2. PICK s \in Seq(Seq(Ciphertext)), v \in Seq(Ciphertext) :
            s = group_sum_seed /\ v = message[m]
      BY <1>3, <3>1
    <3>3. /\ DOMAIN Append(s, v) = 1 .. Len(s) + 1 /\ Append(s, v)[Len(s) + 1] = v
          /\ DOMAIN s = 1 .. Len(s) /\ Len(s) \in Nat
          /\ \A i \in 1 .. Len(s) : Append(s, v)[i] = s[i]
      OBVIOUS
    <3>4. group_sum_seed' = Append(s, v)  BY <2>3, <3>2
    <3>5. CASE w = m  BY <1>3, <3>2, <3>3, <3>4, <3>5
    <3>6. CASE w # m
      <4>1. PICK i \in DOMAIN s : SumGroup(s[i]) = w[1]
        BY <1>2, <2>3, <3>2, <3>6 DEF DeliveredInv, SummedInv
      <4>2. i \in DOMAIN Append(s, v) /\ Append(s, v)[i] = s[i]  BY <3>3, <4>1
      <4> QED  BY <3>4, <4>1, <4>2
    <3> QED  BY <3>5, <3>6
  <2> QED  BY <1>5, <2>2, <2>3
<1> QED  BY <1>4, <1>6, <1>7 DEF DeliveredInv

\* So every step keeps it.
LEMMA DeliveredStep == IInv /\ DeliveredInv /\ [Next]_vars => DeliveredInv'
<1> SUFFICES ASSUME TypeOK, CallInv, DeliveredInv, [Next]_vars PROVE DeliveredInv'
  BY DEF IInv
<1>1. ASSUME NEW c \in Clients, StartServer(c) \/ DecideRole(c) \/ Crash(c)
      PROVE  DeliveredInv'
  <2>1. \/ pc' = pc
        \/ pc[c] = "setup" /\ pc' = [pc EXCEPT ![c] = "wait"]
        \/ pc' = [pc EXCEPT ![c] = "crashed"]
    BY <1>1 DEF StartServer, DecideRole, Crash
  <2>2. \A d \in Clients :
          /\ pc'[d] \in {"setup", "wait"} => pc[d] \in {"setup", "wait"}
          /\ pc'[d] = "done" => pc[d] = "done"
    BY <2>1 DEF TypeOK
  <2>3. Members \subseteq Clients  BY DEF Clients
  <2> QED  BY <1>1, <2>2, <2>3, QuietStep DEF StartServer, DecideRole, Crash
<1>2. ASSUME NEW m \in Members, SendReturns(m) \/ TimeoutCrashed(m) \/ TimeoutLate(m)
      PROVE  DeliveredInv'
  <2>1. \/ pc' = [pc EXCEPT ![m] = "done"] /\ call[m] = "handled"
        \/ pc' = [pc EXCEPT ![m] = "dead"]
    BY <1>2 DEF SendReturns, TimeoutCrashed, TimeoutLate, Fails
  <2>2. m \in Clients /\ Members \subseteq Clients  BY DEF Clients
  <2>3. /\ \A d \in Clients : pc'[d] \in {"setup", "wait"} => pc[d] \in {"setup", "wait"}
        /\ \A w \in Members : pc'[w] = "done" => pc[w] = "done" \/ call[w] = "handled"
    BY <2>1, <2>2 DEF TypeOK
  <2> QED  BY <1>2, <2>3, QuietStep DEF SendReturns, TimeoutCrashed, TimeoutLate
<1>3. ASSUME SumGroups PROVE DeliveredInv'
  <2>1. pc' = [pc EXCEPT ![Holder] = "done"]
    BY <1>3 DEF SumGroups
  <2>2. /\ \A d \in Clients : pc'[d] \in {"setup", "wait"} => pc[d] \in {"setup", "wait"}
        /\ \A w \in Members : pc'[w] = pc[w]
    BY <2>1, HolderNotMember DEF TypeOK, Clients
  <2> QED  BY <1>3, <2>2, QuietStep DEF SumGroups
<1>4. ASSUME UNCHANGED vars PROVE DeliveredInv'  BY <1>4, QuietStep DEF vars
<1>5. ASSUME Next PROVE DeliveredInv'
  BY <1>1, <1>2, <1>3, <1>5, SendKeepsDelivered, HandlingDelivers DEF Next
<1> QED  BY <1>4, <1>5

\* And every execution has it.
LEMMA Delivered == Spec => [](IInv /\ DeliveredInv)
<1>1. Init => DeliveredInv
  <2>1. Members \subseteq Clients  BY DEF Clients
  <2> QED  BY <2>1 DEF Init, DeliveredInv, DoneInv, ArrivedInv, SummedInv
<1> QED  BY <1>1, Invariant, DeliveredStep, PTL DEF Spec

\* A set of ranks that is not empty has a least one.
LEMMA LeastRank ==
  ASSUME NEW n \in Nat, NEW S \in SUBSET (1 .. n), S # {}
  PROVE  \E i \in S : \A j \in S : i <= j
<1>1. S \in SUBSET Nat  OBVIOUS
<1>2. PICK i \in S : \A j \in S : ~(<<j, i>> \in OpToRel(<, Nat))
  BY <1>1, NatLessThanWellFounded, WFMin, Zenon
<1>3. \A j \in S : ~(j < i)  BY <1>1, <1>2 DEF OpToRel
<1> QED  BY <1>1, <1>3

(* No group is ever stuck, for any number of clients and whatever fails: the *)
(* first of its members that is not done has failed, has not begun, is in    *)
(* its call or has what it polls for.                                        *)
THEOREM GroupsGoOn == Spec => []GroupGoesOn
<1>1. ASSUME IInv, DeliveredInv PROVE GroupGoesOn
  <2> SUFFICES ASSUME NEW g \in Groups, pc[Leader(g)] # "done"
               PROVE  \E m \in Members :
                        /\ m[1] = g
                        /\ \/ pc[m] \in {"setup", "send", "dead", "crashed"}
                           \/ pc[m] = "wait" /\ Ready(m)
    BY <1>1, LeaderMember DEF GroupGoesOn, DeliveredInv, DoneInv
  <2> DEFINE S == {i \in 1 .. Size(g) : pc[<<g, i>>] # "done"}
  <2>1. Leader(g) \in Members /\ Leader(g) = <<g, Size(g)>> /\ Size(g) \in Nat \ {0}
    BY LeaderMember, MemberFacts DEF Leader
  <2>2. PICK i \in S : \A j \in S : i <= j
    <3>1. Size(g) \in S /\ S \in SUBSET (1 .. Size(g))  BY <2>1
    <3> HIDE DEF S
    <3> QED  BY <2>1, <3>1, LeastRank
  <2>3. PICK m \in Members : m = <<g, i>> /\ m[1] = g /\ m[2] = i /\ pc[m] # "done"
    <3>1. <<g, i>> \in Members  BY <2>1, MemberIntro DEF Leader
    <3> QED  BY <3>1
  <2>4. pc[m] \in PC  BY <1>1 DEF IInv, TypeOK, Clients
  <2>5. CASE pc[m] = "wait" /\ ~IsFirst(m)
    <3>1. PICK w \in Members : Target(w) = m /\ ~IsLeader(w) /\ pc[w] = "done"
      <4>1. i \in 1 .. Size(g) /\ i # 1 /\ i - 1 \in 1 .. Size(g) /\ i - 1 < i
        BY <2>1, <2>3, <2>5 DEF IsFirst
      <4>2. <<g, i - 1>> \in Members  BY <2>3, <4>1, MemberIntro
      <4>3. i - 1 \notin S  BY <2>2, <4>1
      <4>4. pc[<<g, i - 1>>] = "done"  BY <4>1, <4>3
      <4>5. Target(<<g, i - 1>>) = m /\ ~IsLeader(<<g, i - 1>>)
        <5>1. i - 1 # Size(g) /\ (i - 1) + 1 = i  BY <4>1
        <5> QED  BY <2>3, <5>1 DEF Target, IsLeader
      <4> QED  BY <4>2, <4>4, <4>5
    <3>2. call[w] = "handled"  BY <1>1, <3>1 DEF DeliveredInv, DoneInv
    <3>3. seed_vector[m] # << >>  BY <1>1, <2>5, <3>1, <3>2 DEF DeliveredInv, ArrivedInv
    <3> QED  BY <2>3, <2>5, <3>3 DEF Ready
  <2>6. CASE pc[m] = "wait" /\ IsFirst(m)  BY <2>3, <2>6 DEF Ready
  <2> QED  BY <2>3, <2>4, <2>5, <2>6 DEF PC
<1> QED  BY <1>1, Delivered, PTL

(* Once the leaders' calls have been handled the holder has the sum of each  *)
(* group, for any number of groups, unless one came too early.               *)
THEOREM HolderGoesOnToo == Spec => []HolderGoesOn
<1>1. ASSUME IInv, DeliveredInv PROVE HolderGoesOn
  <2> SUFFICES ASSUME group_flag, \A m \in Members : IsLeader(m) => call[m] = "handled",
                      seed_vector[Holder] = << >>
               PROVE  Collected
    BY DEF HolderGoesOn
  <2> DEFINE s == group_sum_seed
             D == 1 .. Len(s)
  <2>1. \A g \in Groups : \E i \in D : SumGroup(s[i]) = g
    <3> SUFFICES ASSUME NEW g \in Groups PROVE \E i \in D : SumGroup(s[i]) = g
      OBVIOUS
    <3>1. Leader(g) \in Members /\ Leader(g)[1] = g /\ IsLeader(Leader(g))  BY LeaderMember
    <3>2. PICK i \in DOMAIN s : SumGroup(s[i]) = g
      BY <1>1, <3>1 DEF DeliveredInv, SummedInv
    <3>3. DOMAIN s = D
      <4>1. group_sum_seed \in Seq(Seq(Ciphertext))  BY <1>1 DEF IInv, TypeOK
      <4> QED  BY <4>1
    <3> QED  BY <3>2, <3>3
  <2>2. Len(s) \in Nat  BY <1>1 DEF IInv, TypeOK
  <2>3. NumGroups(N) \in Nat
    <3>1. N \in Nat /\ N >= 1  BY NAssumption DEF Groupable
    <3> QED  BY <3>1 DEF NumGroups
  <2>4. \A n \in Nat : IsFiniteSet(1 .. n) /\ Cardinality(1 .. n) = n
    <3> SUFFICES ASSUME NEW n \in Nat
                 PROVE  IsFiniteSet(1 .. n) /\ Cardinality(1 .. n) = n
      OBVIOUS
    <3>1. IsFiniteSet(1 .. n) /\ Cardinality(1 .. n) = IF 1 > n THEN 0 ELSE n - 1 + 1
      BY FS_Interval
    <3> QED  BY <3>1
  <2>5. [g \in Groups |-> CHOOSE i \in D : SumGroup(s[i]) = g] \in Injection(Groups, D)
    <3> DEFINE f == [g \in Groups |-> CHOOSE i \in D : SumGroup(s[i]) = g]
    <3>1. \A g \in Groups : f[g] \in D /\ SumGroup(s[f[g]]) = g  BY <2>1
    <3> HIDE DEF D
    <3>2. f \in [Groups -> D]  BY <3>1
    <3> HIDE DEF f
    <3>3. \A g, h \in Groups : f[g] = f[h] => g = h  BY <3>1
    <3>4. f \in Injection(Groups, D)  BY <3>2, <3>3 DEF Injection, IsInjective
    <3> QED  BY <3>4 DEF f
  <2> HIDE DEF s
  <2>6. Cardinality(Groups) <= Cardinality(D)
    <3>1. IsFiniteSet(D)  BY <2>2, <2>4
    <3> HIDE DEF D
    <3> QED  BY <2>5, <3>1, FS_Injection
  <2>7. Cardinality(Groups) = NumGroups(N) /\ Cardinality(D) = Len(s)
    BY <2>2, <2>3, <2>4 DEF Groups
  <2> QED  BY <2>6, <2>7 DEF Collected, s
<1> QED  BY <1>1, Delivered, PTL
=============================================================================
