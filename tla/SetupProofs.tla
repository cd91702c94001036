----------------------------- MODULE SetupProofs ----------------------------
(***************************************************************************)
(* The setup node deals its clients into groups, tells each what it needs  *)
(* to find its neighbours, and leaves none out, for every number of        *)
(* clients it is told of and every number that is started.  One invariant  *)
(* says what messages_sent counts: the clients of the node that were given *)
(* an answer, each once.  The other says that what a client was told is    *)
(* its place in the deal, which is given in closed form.                   *)
(***************************************************************************)
EXTENDS Setup, ArithmeticProofs, FiniteSetTheorems, SequenceTheorems, TLAPS

\* The clients the node generated and has answered.
Served == {c \in Ids \cap Procs : client[c] \notin {"idle", "asked"}}

Types ==
  /\ num_clients \in Nat /\ client_count \in Nat
  /\ client \in [Procs -> {"idle", "asked", "answered", "ready", "failed", "hung"}]
  /\ DOMAIN info = Procs
  /\ messages_sent \in Nat

Counted == messages_sent = Cardinality(Served)

\* A client of the node is answered with its parameters.
AnswersFound ==
  \A c \in Ids \cap Procs :
    /\ client[c] = "answered" => info[c].found
    /\ client[c] # "failed"

CountReached == phase = "stopped" => messages_sent >= num_clients

IInv == Types /\ Counted /\ AnswersFound /\ CountReached

-----------------------------------------------------------------------------
(* The served clients are finitely many, and all of them if as many as there *)
(* are clients.                                                              *)
LEMMA ServedFinite ==
  ASSUME Types
  PROVE  /\ IsFiniteSet(Ids) /\ Cardinality(Ids) = num_clients
         /\ Served \subseteq Ids /\ IsFiniteSet(Served)
         /\ Cardinality(Served) <= num_clients
         /\ Cardinality(Served) = num_clients => Served = Ids
<1>1. IsFiniteSet(Ids) /\ Cardinality(Ids) = num_clients
  <2>1. num_clients \in Int /\ 1 \in Int  BY DEF Types
  <2>2. IsFiniteSet(1 .. num_clients) /\ Cardinality(1 .. num_clients) =
          IF 1 > num_clients THEN 0 ELSE num_clients - 1 + 1
    BY <2>1, FS_Interval
  <2> QED  BY <2>2 DEF Types, Ids
<1>2. Served \subseteq Ids  BY DEF Served
<1> QED  BY <1>1, <1>2, FS_Subset

(* Served depends on client and the two numbers only.                        *)
LEMMA ServedUnchanged ==
  ASSUME UNCHANGED <<num_clients, client_count>>,
         \A c \in Ids \cap Procs :
           client[c] \in {"idle", "asked"} <=> client'[c] \in {"idle", "asked"}
  PROVE  Served' = Served
BY DEF Served, Ids, Procs

-----------------------------------------------------------------------------
(* The invariant holds initially.                                            *)
LEMMA InitHolds == Init => IInv
<1> SUFFICES ASSUME Init PROVE IInv
  OBVIOUS
<1>1. PICK inst \in Instances : num_clients = inst[1] /\ client_count = inst[2]
  BY DEF Init
<1>2. Types
  BY <1>1, InstancesAssumption DEF Init, Types
<1>3. Served = {}
  BY DEF Init, Served
<1>4. Counted
  BY <1>3, FS_EmptySet DEF Init, Counted
<1>5. AnswersFound /\ CountReached
  BY DEF Init, AnswersFound, CountReached
<1> QED  BY <1>2, <1>4, <1>5 DEF IInv

(* Steps that leave the count and who was served alone keep the invariant.   *)
LEMMA NodeStepsKeep ==
  ASSUME IInv, GroupClients \/ GroupingFails \/ RequestClientIp \/ GetClientIp
               \/ ReceiveClientIp
  PROVE  IInv'
<1>1. /\ UNCHANGED <<num_clients, client_count, messages_sent, client, info>>
      /\ phase' = "stopped" => phase = "stopped"
  BY DEF GroupClients, GroupingFails, RequestClientIp, GetClientIp, ReceiveClientIp
<1>2. Types'  BY <1>1 DEF IInv, Types, Procs
<1>3. Counted'  BY <1>1 DEF IInv, Counted, Served, Ids, Procs
<1>4. AnswersFound'  BY <1>1 DEF IInv, AnswersFound, Ids, Procs
<1>5. CountReached'  BY <1>1 DEF IInv, CountReached
<1> QED  BY <1>2, <1>3, <1>4, <1>5 DEF IInv

(* So do the steps of a client on its own.                                   *)
LEMMA ClientStepsKeep ==
  ASSUME IInv, NEW c \in Procs,
         RequestClientInfo(c) \/ ReceiveClientInfo(c) \/ SetupFailed(c)
  PROVE  IInv'
<1>1. UNCHANGED <<num_clients, client_count, phase, messages_sent, info>>
  BY DEF RequestClientInfo, ReceiveClientInfo, SetupFailed
<1>2. Types'
  BY <1>1 DEF IInv, Types, Procs, RequestClientInfo, ReceiveClientInfo, SetupFailed
<1>3. Served' = Served
  <2>1. client \in [Procs -> {"idle", "asked", "answered", "ready", "failed", "hung"}]
    BY DEF IInv, Types
  <2>2. \A d \in Ids \cap Procs :
          client[d] \in {"idle", "asked"} <=> client'[d] \in {"idle", "asked"}
    BY <2>1 DEF RequestClientInfo, ReceiveClientInfo, SetupFailed
  <2> QED  BY <1>1, <2>2, ServedUnchanged
<1>4. Counted'  BY <1>1, <1>3 DEF IInv, Counted
<1>5. AnswersFound'
  BY <1>1 DEF IInv, Types, AnswersFound, Ids, Procs, RequestClientInfo, ReceiveClientInfo,
              SetupFailed
<1>6. CountReached'  BY <1>1 DEF IInv, CountReached
<1> QED  BY <1>2, <1>4, <1>5, <1>6 DEF IInv

(* The node counts a client of its own when it answers it, and no other.     *)
LEMMA GetClientInfoKeeps ==
  ASSUME IInv, NEW c \in Procs, GetClientInfo(c)
  PROVE  IInv'
<1>1. /\ UNCHANGED <<num_clients, client_count, phase>>
      /\ phase = "serving" /\ client[c] = "asked"
      /\ client' = [client EXCEPT ![c] = "answered"]
      /\ info' = [info EXCEPT ![c] = Response(c)]
      /\ messages_sent' = IF c \in Ids THEN messages_sent + 1 ELSE messages_sent
  BY DEF GetClientInfo
<1>2. Types'  BY <1>1 DEF IInv, Types, Procs
<1>3. Counted'
  <2>1. client \in [Procs -> {"idle", "asked", "answered", "ready", "failed", "hung"}]
    BY DEF IInv, Types
  <2>2. CASE c \in Ids
    <3>1. Served' = Served \cup {c} /\ c \notin Served
      BY <1>1, <2>1, <2>2 DEF Served, Ids, Procs
    <3>2. IsFiniteSet(Served)  BY ServedFinite DEF IInv
    <3>3. Cardinality(Served') = Cardinality(Served) + 1
      BY <3>1, <3>2, FS_AddElement
    <3> QED  BY <1>1, <2>2, <3>3 DEF IInv, Counted
  <2>3. CASE c \notin Ids
    <3>1. Served' = Served
      BY <1>1, <2>1, <2>3 DEF Served, Ids, Procs
    <3> QED  BY <1>1, <2>3, <3>1 DEF IInv, Counted
  <2> QED  BY <2>2, <2>3
<1>4. AnswersFound'
  <2>1. c \in Ids => Response(c).found  BY DEF Response
  <2> QED  BY <1>1, <2>1 DEF IInv, Types, AnswersFound, Ids, Procs
<1>5. CountReached'  BY <1>1 DEF IInv, CountReached
<1> QED  BY <1>2, <1>3, <1>4, <1>5 DEF IInv

(* The node stops when all are counted; nobody becomes unserved by it.       *)
LEMMA StopServerKeeps ==
  ASSUME IInv, StopServer
  PROVE  IInv'
<1>1. PICK lost \in SUBSET {c \in Procs : client[c] = "answered"} :
        client' = [c \in Procs |-> IF c \in lost THEN "hung" ELSE client[c]]
  BY DEF StopServer
<1>2. UNCHANGED <<num_clients, client_count, messages_sent, info>>
  BY DEF StopServer
<1>3. client \in [Procs -> {"idle", "asked", "answered", "ready", "failed", "hung"}]
  BY DEF IInv, Types
<1>4. Types'  BY <1>1, <1>2, <1>3 DEF IInv, Types, Procs
<1>5. Served' = Served
  <2>1. \A c \in Ids \cap Procs :
          client[c] \in {"idle", "asked"} <=> client'[c] \in {"idle", "asked"}
    BY <1>1, <1>3
  <2> QED  BY <1>2, <2>1, ServedUnchanged
<1>6. Counted'  BY <1>2, <1>5 DEF IInv, Counted
<1>7. AnswersFound'  BY <1>1, <1>2 DEF IInv, AnswersFound, Ids, Procs
<1>8. CountReached'  BY <1>2 DEF StopServer, CountReached
<1> QED  BY <1>4, <1>6, <1>7, <1>8 DEF IInv

(* Every step keeps the invariant.                                           *)
LEMMA StepKeeps == IInv /\ [Next]_vars => IInv'
<1> SUFFICES ASSUME IInv, [Next]_vars PROVE IInv'
  OBVIOUS
<1>1. CASE GroupClients \/ GroupingFails \/ RequestClientIp \/ GetClientIp \/ ReceiveClientIp
  BY <1>1, NodeStepsKeep
<1>2. CASE StopServer  BY <1>2, StopServerKeeps
<1>3. ASSUME NEW c \in Procs, RequestClientInfo(c) \/ ReceiveClientInfo(c) \/ SetupFailed(c)
      PROVE  IInv'
  BY <1>3, ClientStepsKeep
<1>4. ASSUME NEW c \in Procs, GetClientInfo(c) PROVE IInv'
  BY <1>4, GetClientInfoKeeps
<1>5. CASE UNCHANGED vars
  BY <1>5 DEF vars, IInv, Types, Counted, AnswersFound, CountReached, Served, Ids, Procs
<1> QED  BY <1>1, <1>2, <1>3, <1>4, <1>5 DEF Next

(* The invariant always holds, for every number of clients.                  *)
THEOREM Invariant == Spec => []IInv
BY InitHolds, StepKeeps, PTL DEF Spec

-----------------------------------------------------------------------------
(* The node counts requests in a thread that knows nothing of the answers,   *)
(* and yet when it stops every client it generated has been answered, though *)
(* the answer may be lost (setup.py, stop_server, get_client_info).          *)
THEOREM NobodyIsLeftOut == Spec => []NobodyLeftOut
<1>1. IInv => NobodyLeftOut
  <2> SUFFICES ASSUME IInv, phase = "stopped", NEW c \in Ids
               PROVE  c \in Procs /\ client[c] \in {"answered", "ready", "hung"}
    BY DEF NobodyLeftOut
  <2>1. messages_sent >= num_clients /\ messages_sent = Cardinality(Served)
    BY DEF IInv, CountReached, Counted
  <2>2. Cardinality(Served) <= num_clients /\ num_clients \in Nat /\ messages_sent \in Nat
    BY ServedFinite DEF IInv, Types
  <2>3. Served = Ids  BY <2>1, <2>2, ServedFinite DEF IInv
  <2>4. c \in Procs /\ client[c] \notin {"idle", "asked"}  BY <2>3 DEF Served
  <2>5. client[c] \in {"idle", "asked", "answered", "ready", "failed", "hung"}
    BY <2>4 DEF IInv, Types
  <2>6. client[c] # "failed"  BY <2>4 DEF IInv, AnswersFound
  <2> QED  BY <2>4, <2>5, <2>6
<1> QED  BY <1>1, Invariant, PTL
-----------------------------------------------------------------------------
(* Number k of the list is the h-th that is dealt after d rounds of N.       *)
Turn(N, d, h, k) == k = N * d + h

(* The round a number of the list is dealt in, and the group it goes to.     *)
LEMMA RoundOf ==
  ASSUME NEW N \in Nat \ {0}, NEW k \in Nat \ {0}
  PROVE  \E d \in Nat, h \in 1 .. N :
           d = (k - 1) \div N /\ h = ((k - 1) % N) + 1 /\ Turn(N, d, h, k)
<1>1. /\ (k - 1) \div N \in Int /\ (k - 1) % N \in 0 .. N - 1
      /\ k - 1 = N * ((k - 1) \div N) + ((k - 1) % N)
  BY DivMod
<1>2. PICK d \in Int, r \in 0 .. N - 1 :
        d = (k - 1) \div N /\ r = (k - 1) % N /\ k - 1 = N * d + r
  BY <1>1
<1>3. d \in Nat
  <2>1. CASE d <= -1
    <3>1. N * d <= -N  BY <2>1
    <3> QED  BY <3>1, <1>2 DEF Turn
  <2> QED  BY <2>1
<1>4. r + 1 \in 1 .. N /\ k = N * d + (r + 1)  BY <1>2
<1> QED  BY <1>2, <1>3, <1>4 DEF Turn

(* The groups after k rounds of the loop, in closed form: group g has got    *)
(* the clients at g, g + num_groups, g + 2 * num_groups, ... of the list.    *)
RoundLen(N, g, k) == (k - g) \div N + 1

Rounds(n, order, k) ==
  [g \in 1 .. NumGroups(n) |->
     [i \in 1 .. RoundLen(NumGroups(n), g, k) |-> order[NumGroups(n) * (i - 1) + g]]]

(* How many rounds up to k were for group g.                                 *)
LEMMA RoundsBefore ==
  ASSUME NEW N \in Nat \ {0}, NEW d \in Nat, NEW h \in 1 .. N, NEW g \in 1 .. N,
         NEW k \in Nat, Turn(N, d, h, k)
  PROVE  /\ RoundLen(N, g, k) = IF g <= h THEN d + 1 ELSE d
         /\ RoundLen(N, g, k - 1) = IF g < h THEN d + 1 ELSE d
<1> USE DEF Turn
<1>1. N * (d - 1) = N * d - N  OBVIOUS
<1>2. ASSUME g <= h PROVE (k - g) \div N = d
  <2>1. k - g = N * d + (h - g) /\ h - g \in 0 .. N - 1  BY <1>2
  <2> QED  BY <2>1, DivUnique
<1>3. ASSUME g > h PROVE (k - g) \div N = d - 1
  <2>1. k - g = N * (d - 1) + (N + h - g) /\ N + h - g \in 0 .. N - 1  BY <1>1, <1>3
  <2> QED  BY <2>1, DivUnique
<1>4. ASSUME g < h PROVE (k - 1 - g) \div N = d
  <2>1. k - 1 - g = N * d + (h - g - 1) /\ h - g - 1 \in 0 .. N - 1  BY <1>4
  <2> QED  BY <2>1, DivUnique
<1>5. ASSUME g >= h PROVE (k - 1 - g) \div N = d - 1
  <2>1. k - 1 - g = N * (d - 1) + (N + h - g - 1) /\ N + h - g - 1 \in 0 .. N - 1
    BY <1>1, <1>5
  <2> QED  BY <2>1, DivUnique
<1> QED  BY <1>2, <1>3, <1>4, <1>5 DEF RoundLen

\* What the loop does to the groups for number k of the list.
DealOne(gs, n, order, k) ==
  [gs EXCEPT ![((k - 1) % NumGroups(n)) + 1] = Append(@, order[k])]

(* One round appends one client to one group.                                *)
LEMMA RoundStep ==
  ASSUME NEW n \in Nat, NumGroups(n) \in Nat \ {0}, NEW S, NEW order \in [1 .. n - 1 -> S],
         NEW k \in 1 .. n - 1
  PROVE  Rounds(n, order, k) = DealOne(Rounds(n, order, k - 1), n, order, k)
<1>1. PICK N \in Nat \ {0} : N = NumGroups(n)  OBVIOUS
<1>0. k \in Nat \ {0} /\ k \in Nat  OBVIOUS
<1>2. PICK d \in Nat, h \in 1 .. N : h = ((k - 1) % N) + 1 /\ Turn(N, d, h, k)
  BY <1>0, RoundOf
<1> DEFINE old == Rounds(n, order, k - 1)
           later == Rounds(n, order, k)
           dealt == [old EXCEPT ![h] = Append(@, order[k])]
<1>3. \A g \in 1 .. N : /\ RoundLen(N, g, k) = IF g <= h THEN d + 1 ELSE d
                        /\ RoundLen(N, g, k - 1) = IF g < h THEN d + 1 ELSE d
  BY <1>0, <1>2, RoundsBefore
<1>4. ASSUME NEW g \in 1 .. N, g # h PROVE later[g] = dealt[g]
  <2>1. RoundLen(N, g, k) = RoundLen(N, g, k - 1)  BY <1>3, <1>4
  <2>2. later[g] = old[g]  BY <1>1, <2>1 DEF Rounds
  <2>3. dealt[g] = old[g]  BY <1>1, <1>4 DEF Rounds
  <2> QED  BY <2>2, <2>3
<1>5. later[h] = dealt[h]
  <2> DEFINE s == [i \in 1 .. d |-> order[N * (i - 1) + h]]
             t == [i \in 1 .. d + 1 |-> order[N * (i - 1) + h]]
  <2>1. old[h] = s /\ later[h] = t  BY <1>1, <1>3 DEF Rounds
  <2>2. \A i \in 1 .. d + 1 : N * (i - 1) + h \in 1 .. n - 1
    <3> SUFFICES ASSUME NEW i \in 1 .. d + 1 PROVE N * (i - 1) + h \in 1 .. n - 1
      OBVIOUS
    <3>1. N * (i - 1) >= 0 /\ N * (i - 1) <= N * d
      <4>1. i - 1 >= 0 /\ d - (i - 1) >= 0  OBVIOUS
      <4>2. N * (i - 1) >= 0 /\ N * (d - (i - 1)) >= 0  BY <4>1
      <4>3. N * (d - (i - 1)) = N * d - N * (i - 1)  OBVIOUS
      <4> QED  BY <4>2, <4>3
    <3>2. PICK a \in Int, b \in Int : a = N * (i - 1) /\ b = N * d  OBVIOUS
    <3>3. k - 1 = b + (h - 1) \/ k = b + h  BY <3>2, <1>2 DEF Turn
    <3>4. a >= 0 /\ a <= b  BY <3>1, <3>2
    <3>5. a + h \in 1 .. n - 1  BY <3>3, <3>4
    <3> QED  BY <3>2, <3>5
  <2>3. s \in Seq(S) /\ t \in Seq(S) /\ Len(s) = d /\ Len(t) = d + 1
    <3>1. s \in [1 .. d -> S] /\ t \in [1 .. d + 1 -> S]
      <4>1. \A i \in 1 .. d + 1 : order[N * (i - 1) + h] \in S  BY <2>2
      <4>2. \A i \in 1 .. d : i \in 1 .. d + 1  OBVIOUS
      <4> QED  BY <4>1, <4>2
    <3>2. d + 1 \in Nat  OBVIOUS
    <3> HIDE DEF s, t
    <3> QED  BY <3>1, <3>2
  <2>4. t[d + 1] = order[k]  BY <1>2 DEF Turn
  <2>5. order[k] \in S  OBVIOUS
  <2>6. \A i \in 1 .. d : s[i] = t[i]  OBVIOUS
  <2> HIDE DEF s, t
  <2>7. /\ Append(s, order[k]) \in Seq(S) /\ Len(Append(s, order[k])) = d + 1
        /\ \A i \in 1 .. d : Append(s, order[k])[i] = s[i]
        /\ Append(s, order[k])[d + 1] = order[k]
    BY <2>3, <2>5
  <2>8. \A i \in 1 .. d + 1 : t[i] = Append(s, order[k])[i]
    BY <2>4, <2>6, <2>7
  <2>9. t = Append(s, order[k])
    BY <2>3, <2>7, <2>8, SeqEqual
  <2>10. dealt[h] = Append(old[h], order[k])  BY <1>1 DEF Rounds
  <2> QED  BY <2>1, <2>9, <2>10
<1>6. later = [g \in 1 .. N |-> later[g]] /\ dealt = [g \in 1 .. N |-> dealt[g]]
  BY <1>1 DEF Rounds
<1>7. later = dealt  
  <2> HIDE DEF later, dealt
  <2> QED  BY <1>4, <1>5, <1>6
<1> QED  BY <1>1, <1>2, <1>7 DEF DealOne

(* Before the first round the groups are empty.                              *)
LEMMA NoRounds ==
  ASSUME NEW n \in Nat, NumGroups(n) \in Nat, NEW order
  PROVE  Rounds(n, order, 0) = [g \in 1 .. NumGroups(n) |-> << >>]
<1>1. ASSUME NEW g \in 1 .. NumGroups(n) PROVE RoundLen(NumGroups(n), g, 0) = 0
  <2> DEFINE N == NumGroups(n)
  <2>1. 0 - g = N * (-1) + (N - g) /\ N - g \in 0 .. N - 1 /\ N \in Nat \ {0}  OBVIOUS
  <2>2. (0 - g) \div N = -1
    <3> HIDE DEF N
    <3> QED  BY <2>1, DivUnique
  <2> QED  BY <2>2 DEF RoundLen
<1>2. ASSUME NEW g \in 1 .. NumGroups(n) PROVE Rounds(n, order, 0)[g] = << >>
  BY <1>1 DEF Rounds
<1> QED  BY <1>2 DEF Rounds

(* The loop of group_clients gives the closed form.                          *)
LEMMA DealIs ==
  ASSUME NEW n \in Nat \ {0}, Groupable(n), NEW S, NEW order \in [1 .. n - 1 -> S]
  PROVE  Deal(n, order) = Rounds(n, order, n - 1)
<1> DEFINE Loop(f) ==
             [k \in 0 .. n - 1 |->
                IF k = 0 THEN [g \in 1 .. NumGroups(n) |-> << >>]
                ELSE LET g == ((k - 1) % NumGroups(n)) + 1
                     IN  [f[k - 1] EXCEPT ![g] = Append(@, order[k])]]
           closed == [k \in 0 .. n - 1 |-> Rounds(n, order, k)]
           dealt  == CHOOSE f : f = Loop(f)
<1>1. NumGroups(n) \in Nat /\ (n # 1 => NumGroups(n) \in Nat \ {0})
  BY DEF Groupable, NumGroups
<1>2. \A k \in 1 .. n - 1 :
        Rounds(n, order, k) = DealOne(Rounds(n, order, k - 1), n, order, k)
  <2> TAKE k \in 1 .. n - 1
  <2>1. NumGroups(n) \in Nat \ {0}  BY <1>1
  <2>2. n \in Nat  OBVIOUS
  <2> QED  BY <2>1, <2>2, RoundStep, Zenon
<1>3. Rounds(n, order, 0) = [g \in 1 .. NumGroups(n) |-> << >>]
  BY <1>1, NoRounds
<1>4. closed = Loop(closed)
  <2>1. ASSUME NEW k \in 0 .. n - 1 PROVE closed[k] = Loop(closed)[k]
    <3>1. CASE k = 0  BY <3>1, <1>3
    <3>2. CASE k # 0
      <4>1. k - 1 \in 0 .. n - 1 /\ k \in 1 .. n - 1  BY <3>2
      <4>2. closed[k - 1] = Rounds(n, order, k - 1)  BY <4>1
      <4> QED  BY <4>1, <4>2, <3>2, <1>2 DEF DealOne
    <3> QED  BY <3>1, <3>2
  <2> QED  BY <2>1
<1>5. dealt = Loop(dealt)
  <2> HIDE DEF closed, Loop
  <2> QED  BY <1>4
<1>6. Deal(n, order) = dealt[n - 1]  BY DEF Deal
<1>7. ASSUME NEW k \in 0 .. n - 1 PROVE dealt[k] = Rounds(n, order, k)
  <2> DEFINE bad == {j \in 0 .. n - 1 : dealt[j] # Rounds(n, order, j)}
  <2> HIDE DEF dealt
  <2>1. SUFFICES ASSUME bad # {} PROVE FALSE  OBVIOUS
  <2>2. bad \in SUBSET Nat  OBVIOUS
  <2>3. PICK j \in bad : \A i \in bad : j <= i  BY <2>1, <2>2, LeastNumber
  <2>4. dealt[j] = Loop(dealt)[j]  BY <1>5
  <2>5. CASE j = 0  BY <2>3, <2>4, <2>5, <1>3
  <2>6. CASE j # 0
    <3>1. j - 1 \in 0 .. n - 1 /\ j \in 1 .. n - 1 /\ j - 1 \notin bad  BY <2>3, <2>6
    <3>2. dealt[j - 1] = Rounds(n, order, j - 1)  BY <3>1
    <3> QED  BY <3>1, <3>2, <2>3, <2>4, <2>6, <1>2 DEF DealOne
  <2> QED  BY <2>5, <2>6
<1>8. n - 1 \in 0 .. n - 1  OBVIOUS
<1> HIDE DEF dealt
<1> QED  BY <1>6, <1>7, <1>8

-----------------------------------------------------------------------------
(* What group_clients is for: gs cuts the clients other than the holder h    *)
(* into groups of the right lengths, each client at one place.               *)
Cut(n, h, gs) ==
  /\ gs \in Seq(Seq((1 .. n) \ {h})) /\ Len(gs) = NumGroups(n)
  /\ \A g \in 1 .. NumGroups(n) : Len(gs[g]) = GroupSize(n, g) /\ Len(gs[g]) >= 3
  /\ \A g1, g2 \in 1 .. NumGroups(n) :
       \A i1 \in 1 .. Len(gs[g1]), i2 \in 1 .. Len(gs[g2]) :
         gs[g1][i1] = gs[g2][i2] => g1 = g2 /\ i1 = i2
  /\ \A c \in (1 .. n) \ {h} :
       \E g \in 1 .. NumGroups(n) : \E i \in 1 .. Len(gs[g]) : gs[g][i] = c

(* The place in the list of the i-th client of group g.                      *)
PlaceIn(n, g, i) == NumGroups(n) * (i - 1) + g

(* The lengths of the groups, and that the places of their clients are       *)
(* places of the list.                                                       *)
LEMMA PlacesInList ==
  ASSUME NEW n \in Nat, NumGroups(n) \in Nat \ {0}, NEW g \in 1 .. NumGroups(n)
  PROVE  /\ GroupSize(n, g) \in Nat /\ GroupSize(n, g) >= 3
         /\ \A i \in 1 .. GroupSize(n, g) : PlaceIn(n, g, i) \in 1 .. n - 1
<1>1. PICK N \in Nat \ {0} : N = NumGroups(n)  OBVIOUS
<1>2. n - 1 >= 3 * N  BY <1>1 DEF NumGroups
<1>3. g \in 1 .. N /\ n - 1 - g \in Int  BY <1>1
<1>4. PICK d \in Int, r \in 0 .. N - 1 : d = (n - 1 - g) \div N /\ n - 1 - g = N * d + r
  BY <1>3, DivMod
<1>5. d >= 2
  <2>1. CASE d <= 1
    <3>1. 1 - d \in Nat /\ N * (1 - d) >= 0  BY <2>1
    <3>2. N * (1 - d) = N - N * d  OBVIOUS
    <3> QED  BY <3>1, <3>2, <1>2, <1>3, <1>4
  <2> QED  BY <2>1
<1>6. GroupSize(n, g) = d + 1  BY <1>1, <1>4 DEF GroupSize
<1>7. ASSUME NEW i \in 1 .. d + 1 PROVE N * (i - 1) + g \in 1 .. n - 1
  <2>1. i - 1 \in Nat /\ d - (i - 1) \in Nat  BY <1>5
  <2>2. N * (i - 1) >= 0 /\ N * (d - (i - 1)) >= 0 /\ N * (i - 1) \in Int  BY <2>1
  <2>3. N * (d - (i - 1)) = N * d - N * (i - 1)  BY <2>1
  <2> QED  BY <2>2, <2>3, <1>3, <1>4
<1> QED  BY <1>1, <1>5, <1>6, <1>7 DEF PlaceIn

(* No two clients have the same place.                                       *)
LEMMA PlacesDiffer ==
  ASSUME NEW n \in Nat, NumGroups(n) \in Nat \ {0},
         NEW g \in 1 .. NumGroups(n), NEW h \in 1 .. NumGroups(n),
         NEW i \in Nat \ {0}, NEW j \in Nat \ {0}, PlaceIn(n, g, i) = PlaceIn(n, h, j)
  PROVE  g = h /\ i = j
<1>1. PICK N \in Nat \ {0} : N = NumGroups(n)  OBVIOUS
<1>2. g \in 1 .. N /\ h \in 1 .. N /\ i - 1 \in Int /\ j - 1 \in Int  BY <1>1
<1>3. PICK x \in Int : x = N * (i - 1) + (g - 1) /\ x = N * (j - 1) + (h - 1)
  BY <1>1, <1>2 DEF PlaceIn
<1>4. g - 1 \in 0 .. N - 1 /\ h - 1 \in 0 .. N - 1  BY <1>2
<1>5. x \div N = i - 1 /\ x % N = g - 1  BY <1>2, <1>3, <1>4, DivUnique, ModUnique
<1>6. x \div N = j - 1 /\ x % N = h - 1  BY <1>2, <1>3, <1>4, DivUnique, ModUnique
<1> QED  BY <1>2, <1>5, <1>6

(* Every number of the list has a place in a group.                          *)
LEMMA PlacesCover ==
  ASSUME NEW n \in Nat, NumGroups(n) \in Nat \ {0}, NEW k \in 1 .. n - 1
  PROVE  \E g \in 1 .. NumGroups(n) : \E i \in 1 .. GroupSize(n, g) : PlaceIn(n, g, i) = k
<1>1. PICK N \in Nat \ {0} : N = NumGroups(n)  OBVIOUS
<1>2. k \in Nat \ {0}  OBVIOUS
<1>3. PICK d \in Nat, g \in 1 .. N : Turn(N, d, g, k)  BY <1>2, RoundOf
<1>4. k = N * d + g  BY <1>3 DEF Turn
<1>5. n - 1 - g \in Int  BY <1>3
<1>6. PICK e \in Int, r \in 0 .. N - 1 : e = (n - 1 - g) \div N /\ n - 1 - g = N * e + r
  BY <1>5, DivMod
<1>7. d <= e
  <2>1. CASE d >= e + 1
    <3>1. d - e - 1 \in Nat /\ N * (d - e - 1) >= 0  BY <2>1
    <3>2. N * (d - e - 1) = N * d - N * e - N  OBVIOUS
    <3> QED  BY <3>1, <3>2, <1>4, <1>6
  <2> QED  BY <2>1
<1>8. GroupSize(n, g) = e + 1  BY <1>1, <1>6 DEF GroupSize
<1>9. d + 1 \in 1 .. GroupSize(n, g)  BY <1>7, <1>8
<1>10. PlaceIn(n, g, d + 1) = k  BY <1>1, <1>4 DEF PlaceIn
<1> QED  BY <1>1, <1>9, <1>10

(* A list of all but one of n clients, each once, leaves out no other.       *)
LEMMA ListComplete ==
  ASSUME NEW n \in Nat \ {0}, NEW h \in 1 .. n,
         NEW order \in Injection(1 .. n - 1, (1 .. n) \ {h}),
         NEW c \in (1 .. n) \ {h}
  PROVE  \E k \in 1 .. n - 1 : order[k] = c
<1>1. IsFiniteSet(1 .. n) /\ Cardinality(1 .. n) = n
  <2>1. IsFiniteSet(1 .. n) /\ Cardinality(1 .. n) = IF 1 > n THEN 0 ELSE n - 1 + 1
    BY FS_Interval
  <2> QED  BY <2>1
<1>2. IsFiniteSet(1 .. n - 1) /\ Cardinality(1 .. n - 1) = n - 1
  <2>1. IsFiniteSet(1 .. n - 1)
        /\ Cardinality(1 .. n - 1) = IF 1 > n - 1 THEN 0 ELSE n - 1 - 1 + 1
    BY FS_Interval
  <2> QED  BY <2>1
<1>3. IsFiniteSet((1 .. n) \ {h}) /\ Cardinality((1 .. n) \ {h}) = n - 1
  BY <1>1, FS_RemoveElement
<1>4. order \in Surjection(1 .. n - 1, (1 .. n) \ {h})
  BY <1>2, <1>3, FS_Injection
<1> QED  BY <1>4 DEF Surjection

(* group_clients makes such groups, whatever random.shuffle gives.           *)
LEMMA DealCuts ==
  ASSUME NEW n \in Nat \ {0}, Groupable(n), NEW h \in 1 .. n,
         NEW order \in [1 .. n - 1 -> (1 .. n) \ {h}],
         \A i, j \in 1 .. n - 1 : order[i] = order[j] => i = j
  PROVE  Cut(n, h, Deal(n, order))
<1> DEFINE gs == Rounds(n, order, n - 1)
           Others == (1 .. n) \ {h}
<1>1. Deal(n, order) = gs  BY DealIs
<1>2. CASE n = 1
  <2>1. NumGroups(n) = 0  BY <1>2 DEF NumGroups
  <2>2. gs = << >>  BY <2>1 DEF Rounds
  <2>3. Others = {}  BY <1>2
  <2>4. << >> \in Seq(Seq(Others)) /\ Len(<< >>) = 0  BY EmptySeq
  <2>5. 1 .. NumGroups(n) = {}  BY <2>1
  <2>6. Cut(n, h, << >>)
    <3>1. << >> \in Seq(Seq((1 .. n) \ {h})) /\ Len(<< >>) = NumGroups(n)  BY <2>1, <2>4
    <3> QED  BY <2>3, <2>5, <3>1, Zenon DEF Cut
  <2> QED  BY <1>1, <2>2, <2>6
<1>3. CASE n # 1
  <2>1. NumGroups(n) \in Nat \ {0} /\ n \in Nat  BY <1>3 DEF Groupable, NumGroups
  <2>2. \A g \in 1 .. NumGroups(n) :
          /\ GroupSize(n, g) \in Nat /\ GroupSize(n, g) >= 3
          /\ \A i \in 1 .. GroupSize(n, g) : PlaceIn(n, g, i) \in 1 .. n - 1
    BY <2>1, PlacesInList
  <2>3. \A g \in 1 .. NumGroups(n) :
          gs[g] = [i \in 1 .. GroupSize(n, g) |-> order[PlaceIn(n, g, i)]]
    <3>1. \A g \in 1 .. NumGroups(n) : RoundLen(NumGroups(n), g, n - 1) = GroupSize(n, g)
      BY DEF RoundLen, GroupSize
    <3> QED  BY <3>1 DEF Rounds, PlaceIn
  <2>4. \A g \in 1 .. NumGroups(n) :
          /\ gs[g] \in Seq(Others) /\ Len(gs[g]) = GroupSize(n, g)
          /\ \A i \in 1 .. GroupSize(n, g) : gs[g][i] = order[PlaceIn(n, g, i)]
    <3> TAKE g \in 1 .. NumGroups(n)
    <3> DEFINE s == [i \in 1 .. GroupSize(n, g) |-> order[PlaceIn(n, g, i)]]
    <3>1. s \in [1 .. GroupSize(n, g) -> Others]  BY <2>2
    <3>2. GroupSize(n, g) \in Nat  BY <2>2
    <3>3. s \in Seq(Others) /\ Len(s) = GroupSize(n, g)
      <4> HIDE DEF s
      <4> QED  BY <3>1, <3>2
    <3>4. gs[g] = s  BY <2>3
    <3>5. \A i \in 1 .. GroupSize(n, g) : s[i] = order[PlaceIn(n, g, i)]  OBVIOUS
    <3> HIDE DEF gs, s
    <3> QED  BY <3>3, <3>4, <3>5
  <2>5. gs \in Seq(Seq(Others)) /\ Len(gs) = NumGroups(n)
    <3>1. gs \in [1 .. NumGroups(n) -> Seq(Others)]  BY <2>4 DEF Rounds
    <3> HIDE DEF gs, Others
    <3>2. NumGroups(n) \in Nat  BY <2>1
    <3> QED  BY <3>1, <3>2
  <2> HIDE DEF gs
  <2>6. ASSUME NEW g1 \in 1 .. NumGroups(n), NEW g2 \in 1 .. NumGroups(n),
               NEW i1 \in 1 .. Len(gs[g1]), NEW i2 \in 1 .. Len(gs[g2]),
               gs[g1][i1] = gs[g2][i2]
        PROVE  g1 = g2 /\ i1 = i2
    <3>1. i1 \in 1 .. GroupSize(n, g1) /\ i2 \in 1 .. GroupSize(n, g2)  BY <2>4
    <3>2. order[PlaceIn(n, g1, i1)] = order[PlaceIn(n, g2, i2)]  BY <2>4, <2>6, <3>1
    <3>3. PlaceIn(n, g1, i1) = PlaceIn(n, g2, i2)  BY <2>2, <3>1, <3>2
    <3>4. GroupSize(n, g1) \in Nat /\ GroupSize(n, g2) \in Nat  BY <2>2
    <3>5. i1 \in Nat \ {0} /\ i2 \in Nat \ {0}
      <4> HIDE DEF Others
      <4> QED  BY <3>1, <3>4
    <3> QED  BY <2>1, <3>3, <3>5, PlacesDiffer
  <2>7. ASSUME NEW c \in Others
        PROVE  \E g \in 1 .. NumGroups(n) : \E i \in 1 .. Len(gs[g]) : gs[g][i] = c
    <3>1. PICK k \in 1 .. n - 1 : order[k] = c
      <4>1. order \in Injection(1 .. n - 1, (1 .. n) \ {h})  BY DEF Injection, IsInjective
      <4> QED  BY <4>1, ListComplete
    <3>2. PICK g \in 1 .. NumGroups(n) : \E i \in 1 .. GroupSize(n, g) : PlaceIn(n, g, i) = k
      BY <2>1, PlacesCover
    <3>3. PICK i \in 1 .. GroupSize(n, g) : PlaceIn(n, g, i) = k  BY <3>2
    <3> QED  BY <2>4, <3>1, <3>3
  <2> QED  BY <1>1, <2>2, <2>4, <2>5, <2>6, <2>7 DEF Cut
<1> QED  BY <1>2, <1>3

-----------------------------------------------------------------------------
(* What the clients were told.  The groups are cut before the server is      *)
(* bound and never again, so whenever a client was answered it was told what *)
(* it would be told now.                                                     *)
Phases ==
  /\ <<num_clients, client_count>> \in Instances
  /\ phase \in {"init", "serving", "stopped", "crashed"}
  /\ aggregator \in {"idle", "asked", "answered", "ready", "hung"}

NothingYet ==
  phase \notin {"serving", "stopped"} =>
    /\ total_sum_holder = Nobody /\ groups = << >>
    /\ \A c \in Procs : client[c] \in {"idle", "asked"}

GroupsDealt ==
  phase \in {"serving", "stopped"} =>
    total_sum_holder \in Ids /\ Cut(num_clients, total_sum_holder, groups)

Told == \A c \in Procs : client[c] \notin {"idle", "asked"} => info[c] = Response(c)

ToldInv == Phases /\ NothingYet /\ GroupsDealt /\ Told

(* It holds initially.                                                       *)
LEMMA ToldInit == Init => ToldInv
<1> SUFFICES ASSUME Init PROVE ToldInv
  OBVIOUS
<1>1. \A c \in Procs : client[c] = "idle"  BY DEF Init
<1>2. <<num_clients, client_count>> \in Instances
  <2>1. PICK inst \in Instances : num_clients = inst[1] /\ client_count = inst[2]
    BY DEF Init
  <2>2. inst = <<inst[1], inst[2]>>  BY <2>1, InstancesAssumption
  <2> QED  BY <2>1, <2>2
<1> QED  BY <1>1, <1>2 DEF Init, ToldInv, Phases, NothingYet, GroupsDealt, Told

(* The groups are cut.                                                       *)
LEMMA GroupClientsTells ==
  ASSUME IInv, ToldInv, GroupClients
  PROVE  ToldInv'
<1>1. /\ phase = "init" /\ phase' = "serving" /\ Groupable(num_clients)
      /\ UNCHANGED <<num_clients, client_count, client, info, aggregator>>
  BY DEF GroupClients
<1>2. PICK draw \in Draws(num_clients) :
        total_sum_holder' = draw[1] /\ groups' = Deal(num_clients, draw[2])
  BY DEF GroupClients
<1>3. <<num_clients, client_count>> \in Instances  BY DEF ToldInv, Phases
<1>4. num_clients \in Nat \ {0}  BY <1>3, InstancesAssumption
<1>5. /\ draw[1] \in 1 .. num_clients
      /\ draw[2] \in [1 .. num_clients - 1 -> (1 .. num_clients) \ {draw[1]}]
      /\ \A i, j \in 1 .. num_clients - 1 : draw[2][i] = draw[2][j] => i = j
  <2>1. \A d \in Draws(num_clients) :
          /\ d[1] \in 1 .. num_clients
          /\ d[2] \in [1 .. num_clients - 1 -> (1 .. num_clients) \ {d[1]}]
          /\ \A i, j \in DOMAIN d[2] : d[2][i] = d[2][j] => i = j
    BY <1>3, DrawsAssumption
  <2> QED  BY <2>1
<1>6. Cut(num_clients, draw[1], Deal(num_clients, draw[2]))
  BY <1>1, <1>4, <1>5, DealCuts
<1>7. Phases'  BY <1>1 DEF ToldInv, Phases
<1>8. NothingYet'  BY <1>1 DEF NothingYet
<1>9. GroupsDealt'  BY <1>1, <1>2, <1>5, <1>6 DEF GroupsDealt, Ids
<1>10. Told'  BY <1>1 DEF ToldInv, NothingYet, Told, Procs
<1> QED  BY <1>7, <1>8, <1>9, <1>10 DEF ToldInv

(* No other step changes them, or tells a client anything else.              *)
LEMMA OthersTell ==
  ASSUME IInv, ToldInv, UNCHANGED <<num_clients, client_count, total_sum_holder, groups>>,
         \/ UNCHANGED phase
         \/ phase = "init" /\ phase' = "crashed"
         \/ phase = "serving" /\ phase' = "stopped",
         aggregator' \in {"idle", "asked", "answered", "ready", "hung"},
         \A c \in Procs :
           \/ client'[c] \in {"idle", "asked"}
           \/ client[c] \notin {"idle", "asked"} /\ info'[c] = info[c]
           \/ phase = "serving" /\ info'[c] = Response(c)
  PROVE  ToldInv'
<1>1. Procs' = Procs /\ Ids' = Ids /\ \A c : Response(c)' = Response(c)
  BY DEF Procs, Ids, Response, GroupOf, NoInfo
<1>2. Phases'  BY DEF ToldInv, Phases
<1>3. NothingYet'  BY <1>1 DEF ToldInv, NothingYet, Phases
<1>4. GroupsDealt'  BY <1>1 DEF ToldInv, GroupsDealt
<1>5. Told'  BY <1>1 DEF ToldInv, Told
<1> QED  BY <1>2, <1>3, <1>4, <1>5 DEF ToldInv

(* Every step keeps it.                                                      *)
LEMMA ToldStep == IInv /\ ToldInv /\ [Next]_vars => ToldInv'
<1> SUFFICES ASSUME IInv, ToldInv, [Next]_vars PROVE ToldInv'
  OBVIOUS
<1> USE DEF Nobody
<1>1. client \in [Procs -> {"idle", "asked", "answered", "ready", "failed", "hung"}]
  BY DEF IInv, Types
<1>2. DOMAIN info = Procs  BY DEF IInv, Types
<1>3. aggregator \in {"idle", "asked", "answered", "ready", "hung"}  BY DEF ToldInv, Phases
<1>4. CASE GroupClients  BY <1>4, GroupClientsTells
<1>5. CASE GroupingFails  BY <1>3, <1>5, OthersTell DEF GroupingFails
<1>6. CASE RequestClientIp \/ GetClientIp \/ ReceiveClientIp
  BY <1>6, OthersTell DEF RequestClientIp, GetClientIp, ReceiveClientIp
<1>7. CASE StopServer
  <2>1. PICK lost \in SUBSET {c \in Procs : client[c] = "answered"} :
          client' = [c \in Procs |-> IF c \in lost THEN "hung" ELSE client[c]]
    BY <1>7 DEF StopServer
  <2>2. \A c \in Procs : \/ client'[c] \in {"idle", "asked"}
                         \/ client[c] \notin {"idle", "asked"} /\ info'[c] = info[c]
    BY <1>1, <1>7, <2>1 DEF StopServer
  <2> QED  BY <1>3, <1>7, <2>2, OthersTell DEF StopServer
<1>8. ASSUME NEW c \in Procs, RequestClientInfo(c) PROVE ToldInv'
  <2>1. \A d \in Procs : \/ client'[d] \in {"idle", "asked"}
                         \/ client[d] \notin {"idle", "asked"} /\ info'[d] = info[d]
    BY <1>1, <1>8 DEF RequestClientInfo
  <2> QED  BY <1>3, <1>8, <2>1, OthersTell DEF RequestClientInfo
<1>9. ASSUME NEW c \in Procs, ReceiveClientInfo(c) \/ SetupFailed(c) PROVE ToldInv'
  <2>1. \A d \in Procs : \/ client'[d] \in {"idle", "asked"}
                         \/ client[d] \notin {"idle", "asked"} /\ info'[d] = info[d]
    BY <1>1, <1>9 DEF ReceiveClientInfo, SetupFailed
  <2> QED  BY <1>3, <1>9, <2>1, OthersTell DEF ReceiveClientInfo, SetupFailed
<1>10. ASSUME NEW c \in Procs, GetClientInfo(c) PROVE ToldInv'
  <2>1. /\ phase = "serving" /\ UNCHANGED phase
        /\ client' = [client EXCEPT ![c] = "answered"]
        /\ info' = [info EXCEPT ![c] = Response(c)]
    BY <1>10 DEF GetClientInfo
  <2>2. \A d \in Procs : \/ client'[d] \in {"idle", "asked"}
                         \/ client[d] \notin {"idle", "asked"} /\ info'[d] = info[d]
                         \/ phase = "serving" /\ info'[d] = Response(d)
    BY <1>1, <1>2, <2>1
  <2> QED  BY <1>3, <1>10, <2>2, OthersTell DEF GetClientInfo
<1>11. CASE UNCHANGED vars
  <2>1. \A d \in Procs : \/ client'[d] \in {"idle", "asked"}
                         \/ client[d] \notin {"idle", "asked"} /\ info'[d] = info[d]
    BY <1>11 DEF vars
  <2> QED  BY <1>3, <1>11, <2>1, OthersTell DEF vars
<1> QED  BY <1>4, <1>5, <1>6, <1>7, <1>8, <1>9, <1>10, <1>11 DEF Next

(* Whatever each client was told is true, in every run.                      *)
THEOREM ToldInvariant == Spec => [](IInv /\ ToldInv)
BY InitHolds, StepKeeps, ToldInit, ToldStep, PTL DEF Spec

-----------------------------------------------------------------------------
(* The types, among them that no request is counted for which no client was  *)
(* started (setup.py, get_client_info).                                      *)
THEOREM TypesCorrect == Spec => []TypeOK
<1>1. IInv /\ ToldInv => TypeOK
  <2> SUFFICES ASSUME IInv, ToldInv PROVE TypeOK
    OBVIOUS
  <2>1. messages_sent \in 0 .. client_count
    <3>1. client_count \in Nat /\ messages_sent \in Nat /\ messages_sent = Cardinality(Served)
      BY DEF IInv, Types, Counted
    <3>2. IsFiniteSet(1 .. client_count) /\ Cardinality(1 .. client_count) =
            IF 1 > client_count THEN 0 ELSE client_count - 1 + 1
      <4>1. client_count \in Int /\ 1 \in Int  BY <3>1
      <4> QED  BY <4>1, FS_Interval
    <3>3. Served \subseteq 1 .. client_count  BY DEF Served, Procs
    <3>4. Cardinality(Served) <= Cardinality(1 .. client_count)  BY <3>2, <3>3, FS_Subset
    <3>5. Cardinality(1 .. client_count) = client_count  BY <3>1, <3>2
    <3> QED  BY <3>1, <3>4, <3>5
  <2>2. total_sum_holder \in Ids \cup {Nobody}
    BY DEF ToldInv, NothingYet, GroupsDealt
  <2>3. groups \in Seq(Seq(Ids))
    <3>1. CASE phase \in {"serving", "stopped"}
      <4>1. groups \in Seq(Seq(Ids \ {total_sum_holder}))
        <5>1. Cut(num_clients, total_sum_holder, groups)  BY <3>1 DEF ToldInv, GroupsDealt
        <5> QED  BY <5>1, Zenon DEF Cut, Ids
      <4>2. Seq(Ids \ {total_sum_holder}) \subseteq Seq(Ids)  BY SeqMonotonic
      <4> QED  BY <4>1, <4>2, SeqMonotonic
    <3>2. CASE phase \notin {"serving", "stopped"}
      BY <3>2, EmptySeq DEF ToldInv, NothingYet
    <3> QED  BY <3>1, <3>2
  <2> QED  BY <2>1, <2>2, <2>3 DEF IInv, Types, ToldInv, Phases, TypeOK
<1> QED  BY <1>1, ToldInvariant, PTL

(* Whatever was drawn, the groups and the holder are all the clients, each   *)
(* once, in groups of three at least (setup.py, group_clients).              *)
THEOREM GroupsAreCut == Spec => []GroupsCut
<1>1. IInv /\ ToldInv => GroupsCut
  <2> SUFFICES ASSUME IInv, ToldInv, phase \in {"serving", "stopped"}
               PROVE  /\ Len(groups) = NumGroups(num_clients)
                      /\ \A c \in Ids \ {total_sum_holder} :
                           \E g \in DOMAIN groups :
                             \E i \in DOMAIN groups[g] : groups[g][i] = c
                      /\ \A g \in DOMAIN groups :
                           /\ Len(groups[g]) = GroupSize(num_clients, g)
                           /\ Len(groups[g]) >= 3
                           /\ total_sum_holder \notin
                                {groups[g][i] : i \in DOMAIN groups[g]}
                           /\ Cardinality({groups[g][i] : i \in DOMAIN groups[g]}) =
                                Len(groups[g])
    BY DEF GroupsCut
  <2> DEFINE Others == Ids \ {total_sum_holder}
  <2>1. Cut(num_clients, total_sum_holder, groups)  BY DEF ToldInv, GroupsDealt
  <2>2. groups \in Seq(Seq(Others)) /\ Len(groups) = NumGroups(num_clients)
    BY <2>1 DEF Cut, Ids
  <2>3. DOMAIN groups = 1 .. NumGroups(num_clients)  BY <2>2, LenProperties
  <2>4. \A g \in DOMAIN groups :
          /\ groups[g] \in Seq(Others) /\ Len(groups[g]) \in Nat
          /\ groups[g] \in [1 .. Len(groups[g]) -> Others]
          /\ DOMAIN groups[g] = 1 .. Len(groups[g])
    <3> TAKE g \in DOMAIN groups
    <3> HIDE DEF Others
    <3>1. groups[g] \in Seq(Others)  BY <2>2, <2>3, ElementOfSeq
    <3> QED  BY <3>1, LenProperties
  <2>5. \A c \in Others : \E g \in DOMAIN groups : \E i \in DOMAIN groups[g] : groups[g][i] = c
    <3> TAKE c \in Others
    <3>1. c \in (1 .. num_clients) \ {total_sum_holder}  BY DEF Ids
    <3>2. PICK g \in 1 .. NumGroups(num_clients) :
            \E i \in 1 .. Len(groups[g]) : groups[g][i] = c
      BY <2>1, <3>1, Zenon DEF Cut
    <3> QED  BY <2>3, <2>4, <3>2
  <2>6. ASSUME NEW g \in DOMAIN groups
        PROVE  Cardinality({groups[g][i] : i \in DOMAIN groups[g]}) = Len(groups[g])
    <3> DEFINE s == groups[g]
               members == {s[i] : i \in 1 .. Len(s)}
    <3>1. \A i, j \in 1 .. Len(s) : s[i] = s[j] => i = j  BY <2>1, <2>3 DEF Cut
    <3>2. s \in [1 .. Len(s) -> members]  BY <2>4
    <3>3. s \in Bijection(1 .. Len(s), members)
      <4> HIDE DEF s
      <4> QED  BY <3>1, <3>2 DEF Bijection, Injection, Surjection, IsInjective
    <3>4. IsFiniteSet(1 .. Len(s)) /\ Cardinality(1 .. Len(s)) = Len(s)
      <4>1. Len(s) \in Nat  BY <2>4
      <4>2. IsFiniteSet(1 .. Len(s))
            /\ Cardinality(1 .. Len(s)) = IF 1 > Len(s) THEN 0 ELSE Len(s) - 1 + 1
        BY <4>1, FS_Interval
      <4> QED  BY <4>1, <4>2
    <3>5. ExistsBijection(1 .. Len(s), members)  BY <3>3 DEF ExistsBijection
    <3>6. Cardinality(members) = Cardinality(1 .. Len(s))  BY <3>4, <3>5, FS_Bijection
    <3>7. DOMAIN s = 1 .. Len(s)  BY <2>4
    <3> QED  BY <3>4, <3>6, <3>7
  <2>7. \A g \in DOMAIN groups : total_sum_holder \notin {groups[g][i] : i \in DOMAIN groups[g]}
    BY <2>4
  <2>8. \A g \in DOMAIN groups :
          Len(groups[g]) = GroupSize(num_clients, g) /\ Len(groups[g]) >= 3
    BY <2>1, <2>3 DEF Cut
  <2> QED  BY <2>2, <2>5, <2>6, <2>7, <2>8
<1> QED  BY <1>1, ToldInvariant, PTL

-----------------------------------------------------------------------------
AllTold == Ids \subseteq Procs /\ \A c \in Ids : client[c] = "ready"

Others == Ids \ {total_sum_holder}

(* The facts about the groups that the rest uses: every client but the       *)
(* holder has one place in them.                                             *)
LEMMA Places ==
  ASSUME IInv, ToldInv, AllTold
  PROVE  /\ phase \in {"serving", "stopped"} /\ total_sum_holder \in Ids
         /\ Len(groups) = NumGroups(num_clients) /\ NumGroups(num_clients) \in Nat
         /\ DOMAIN groups = 1 .. NumGroups(num_clients)
         /\ \A g \in DOMAIN groups :
              /\ Len(groups[g]) \in Nat /\ Len(groups[g]) >= 3
              /\ DOMAIN groups[g] = 1 .. Len(groups[g])
              /\ \A i \in DOMAIN groups[g] : groups[g][i] \in Others
         /\ \A g1, g2 \in DOMAIN groups : \A i1 \in DOMAIN groups[g1], i2 \in DOMAIN groups[g2] :
              groups[g1][i1] = groups[g2][i2] => g1 = g2 /\ i1 = i2
         /\ \A c \in Others : \E g \in DOMAIN groups : \E i \in DOMAIN groups[g] : groups[g][i] = c
<1>1. num_clients \in Nat \ {0}
  BY InstancesAssumption DEF ToldInv, Phases
<1>2. 1 \in Ids /\ client[1] = "ready" /\ 1 \in Procs  BY <1>1 DEF AllTold, Ids
<1>3. phase \in {"serving", "stopped"}  BY <1>2 DEF ToldInv, NothingYet
<1>4. total_sum_holder \in Ids /\ Cut(num_clients, total_sum_holder, groups)
  BY <1>3 DEF ToldInv, GroupsDealt
<1>5. groups \in Seq(Seq(Others)) /\ Len(groups) = NumGroups(num_clients)
  BY <1>4, Zenon DEF Cut, Ids, Others
<1>6. DOMAIN groups = 1 .. NumGroups(num_clients) /\ NumGroups(num_clients) \in Nat
  BY <1>5, LenProperties
<1>7. \A g \in DOMAIN groups :
        /\ Len(groups[g]) \in Nat /\ Len(groups[g]) >= 3
        /\ DOMAIN groups[g] = 1 .. Len(groups[g])
        /\ \A i \in DOMAIN groups[g] : groups[g][i] \in Others
  <2> TAKE g \in DOMAIN groups
  <2>1. groups[g] \in Seq(Others)  BY <1>5, <1>6, ElementOfSeq
  <2>2. Len(groups[g]) >= 3  BY <1>4, <1>6 DEF Cut
  <2> QED  BY <2>1, <2>2, LenProperties
<1>8. \A g1, g2 \in DOMAIN groups : \A i1 \in DOMAIN groups[g1], i2 \in DOMAIN groups[g2] :
        groups[g1][i1] = groups[g2][i2] => g1 = g2 /\ i1 = i2
  <2> TAKE g1, g2 \in DOMAIN groups
  <2> TAKE i1 \in DOMAIN groups[g1], i2 \in DOMAIN groups[g2]
  <2>1. /\ g1 \in 1 .. NumGroups(num_clients) /\ g2 \in 1 .. NumGroups(num_clients)
        /\ i1 \in 1 .. Len(groups[g1]) /\ i2 \in 1 .. Len(groups[g2])
    BY <1>6, <1>7
  <2>2. \A k1 \in 1 .. Len(groups[g1]), k2 \in 1 .. Len(groups[g2]) :
          groups[g1][k1] = groups[g2][k2] => g1 = g2 /\ k1 = k2
    BY <1>4, <2>1, Zenon DEF Cut
  <2> QED  BY <2>1, <2>2
<1>9. \A c \in Others : \E g \in DOMAIN groups : \E i \in DOMAIN groups[g] : groups[g][i] = c
  <2> TAKE c \in Others
  <2>1. c \in (1 .. num_clients) \ {total_sum_holder}  BY DEF Others, Ids
  <2>2. PICK g \in 1 .. NumGroups(num_clients) :
          \E i \in 1 .. Len(groups[g]) : groups[g][i] = c
    BY <1>4, <2>1, Zenon DEF Cut
  <2> QED  BY <1>6, <1>7, <2>2
<1> QED  BY <1>3, <1>4, <1>5, <1>6, <1>7, <1>8, <1>9

(* What the clients were told.                                               *)
LEMMA AllKnow ==
  ASSUME IInv, ToldInv, AllTold
  PROVE  /\ \A c \in Ids : info[c].holder = total_sum_holder /\ info[c].all = Ids
         /\ \A g \in DOMAIN groups : \A i \in DOMAIN groups[g] :
              info[groups[g][i]].group = groups[g]
         /\ {d \in Ids : info[d].holder = d} = {total_sum_holder}
<1>1. \A c \in Ids : info[c] = Response(c)  BY DEF ToldInv, Told, AllTold
<1>2. \A c \in Ids : info[c].holder = total_sum_holder /\ info[c].all = Ids
  <2> TAKE c \in Ids
  <2>1. info[c] = [found |-> TRUE, all |-> Ids, holder |-> total_sum_holder,
                   group |-> IF c = total_sum_holder THEN << >> ELSE groups[GroupOf(c)]]
    BY <1>1, Zenon DEF Response
  <2> QED  BY <2>1
<1>3. ASSUME NEW g \in DOMAIN groups, NEW i \in DOMAIN groups[g]
      PROVE  info[groups[g][i]].group = groups[g]
  <2> DEFINE c == groups[g][i]
  <2>0. c \in Others  BY Places
  <2>1. c \in Ids /\ c # total_sum_holder  BY <2>0 DEF Others
  <2>2. info[c].group = groups[GroupOf(c)]
    <3> HIDE DEF c
    <3>1. info[c] = [found |-> TRUE, all |-> Ids, holder |-> total_sum_holder,
                     group |-> groups[GroupOf(c)]]
      BY <1>1, <2>1, Zenon DEF Response
    <3> QED  BY <3>1
  <2>3. GroupOf(c) = g
    <3>1. \A h \in DOMAIN groups : (\E j \in DOMAIN groups[h] : groups[h][j] = c) <=> h = g
      BY Places
    <3> HIDE DEF c
    <3> QED  BY <3>1 DEF GroupOf
  <2> QED  BY <2>2, <2>3
<1>4. {d \in Ids : info[d].holder = d} = {total_sum_holder}
  BY <1>2, Places
<1> QED  BY <1>2, <1>3, <1>4

(* Whom the i-th client of a group sends to.                                 *)
LEMMA SendsToNext ==
  ASSUME IInv, ToldInv, AllTold, NEW g \in DOMAIN groups, NEW i \in DOMAIN groups[g]
  PROVE  SendsTo(groups[g][i]) =
           IF i = Len(groups[g]) THEN total_sum_holder ELSE groups[g][i + 1]
<1> DEFINE c == groups[g][i]
<1>0. c \in Others  BY Places
<1>1. info[c].group = groups[g] /\ info[c].holder = total_sum_holder
  BY <1>0, AllKnow DEF Others
<1>2. \A k \in DOMAIN groups[g] : groups[g][k] = c <=> k = i  BY Places
<1> HIDE DEF c
<1>3. SendsTo(c) = IF i = Len(groups[g]) THEN total_sum_holder ELSE groups[g][i + 1]
  <2> DEFINE group == info[c].group
             j == CHOOSE k \in DOMAIN group : group[k] = c
  <2>1. group = groups[g]  BY <1>1
  <2> HIDE DEF group
  <2>2. j = i  BY <1>2, <2>1
  <2> HIDE DEF j
  <2>3. SendsTo(c) = IF j = Len(group) THEN info[c].holder ELSE group[j + 1]
    BY Zenon DEF SendsTo, j, group
  <2> QED  BY <1>1, <2>1, <2>2, <2>3
<1> QED  BY <1>3 DEF c

(* Nobody sends to the first of a group.                                     *)
LEMMA FirstGetsNothing ==
  ASSUME IInv, ToldInv, AllTold, NEW g \in DOMAIN groups
  PROVE  {d \in Others : SendsTo(d) = groups[g][1]} = {}
<1> SUFFICES ASSUME NEW d \in Others, SendsTo(d) = groups[g][1] PROVE FALSE
  OBVIOUS
<1>1. PICK h \in DOMAIN groups : \E j \in DOMAIN groups[h] : groups[h][j] = d
  BY Places
<1>2. PICK j \in DOMAIN groups[h] : groups[h][j] = d  BY <1>1
<1>3. 1 \in DOMAIN groups[g] /\ groups[g][1] \in Others  BY Places
<1>4. SendsTo(d) = IF j = Len(groups[h]) THEN total_sum_holder ELSE groups[h][j + 1]
  BY <1>2, SendsToNext
<1>5. j # Len(groups[h]) /\ groups[h][j + 1] = groups[g][1]  BY <1>3, <1>4 DEF Others
<1>6. j + 1 \in DOMAIN groups[h] /\ j + 1 # 1  BY <1>5, Places
<1> QED  BY <1>3, <1>5, <1>6, Places

(* The only one to send to another client of a group is the one before it.   *)
LEMMA OthersGetOne ==
  ASSUME IInv, ToldInv, AllTold, NEW g \in DOMAIN groups, NEW i \in DOMAIN groups[g], i # 1
  PROVE  i - 1 \in DOMAIN groups[g]
         /\ {d \in Others : SendsTo(d) = groups[g][i]} = {groups[g][i - 1]}
<1>1. i - 1 \in DOMAIN groups[g] /\ i - 1 # Len(groups[g]) /\ i - 1 + 1 = i  BY Places
<1>2. groups[g][i - 1] \in Others /\ groups[g][i] \in Others  BY <1>1, Places
<1>3. SendsTo(groups[g][i - 1]) = groups[g][i]  BY <1>1, SendsToNext
<1>4. ASSUME NEW d \in Others, SendsTo(d) = groups[g][i] PROVE d = groups[g][i - 1]
  <2>1. PICK h \in DOMAIN groups : \E j \in DOMAIN groups[h] : groups[h][j] = d
    BY Places
  <2>2. PICK j \in DOMAIN groups[h] : groups[h][j] = d  BY <2>1
  <2>3. SendsTo(d) = IF j = Len(groups[h]) THEN total_sum_holder ELSE groups[h][j + 1]
    BY <2>2, SendsToNext
  <2>4. j # Len(groups[h]) /\ groups[h][j + 1] = groups[g][i]
    BY <1>2, <1>4, <2>3 DEF Others
  <2>5. j \in Int /\ j + 1 \in DOMAIN groups[h]  BY <2>4, Places
  <2>6. h = g /\ j + 1 = i  BY <2>4, <2>5, Places
  <2> QED  BY <2>2, <2>5, <2>6
<1> QED  BY <1>1, <1>2, <1>3, <1>4

(* The holder gets one number from each group.                               *)
LEMMA HolderGetsAll ==
  ASSUME IInv, ToldInv, AllTold
  PROVE  Cardinality({d \in Others : SendsTo(d) = total_sum_holder}) = NumGroups(num_clients)
<1> DEFINE senders == {d \in Others : SendsTo(d) = total_sum_holder}
           N == NumGroups(num_clients)
           leader == [g \in 1 .. N |-> groups[g][Len(groups[g])]]
<1>1. \A g \in 1 .. N : g \in DOMAIN groups /\ Len(groups[g]) \in DOMAIN groups[g]
  BY Places
<1>2. ASSUME NEW g \in 1 .. N PROVE leader[g] \in senders
  <2>1. groups[g][Len(groups[g])] \in Others  BY <1>1, Places
  <2>2. SendsTo(groups[g][Len(groups[g])]) = total_sum_holder  BY <1>1, SendsToNext
  <2> QED  BY <2>1, <2>2
<1>3. ASSUME NEW g \in 1 .. N, NEW h \in 1 .. N, leader[g] = leader[h] PROVE g = h
  BY <1>1, <1>3, Places
<1>4. ASSUME NEW d \in senders PROVE \E g \in 1 .. N : leader[g] = d
  <2>1. PICK h \in DOMAIN groups : \E j \in DOMAIN groups[h] : groups[h][j] = d
    BY Places
  <2>2. PICK j \in DOMAIN groups[h] : groups[h][j] = d  BY <2>1
  <2>3. total_sum_holder = IF j = Len(groups[h]) THEN total_sum_holder ELSE groups[h][j + 1]
    BY <2>2, SendsToNext
  <2>4. j = Len(groups[h])
    <3>1. CASE j # Len(groups[h])
      <4>1. j + 1 \in DOMAIN groups[h]  BY <3>1, Places
      <4>2. groups[h][j + 1] \in Others  BY <4>1, Places
      <4> QED  BY <2>3, <3>1, <4>2 DEF Others
    <3> QED  BY <3>1
  <2>5. h \in 1 .. N  BY Places
  <2> QED  BY <2>2, <2>4, <2>5
<1>5. leader \in Bijection(1 .. N, senders)
  <2>1. leader = [g \in 1 .. N |-> leader[g]]  OBVIOUS
  <2> HIDE DEF leader, senders, N
  <2>2. leader \in [1 .. N -> senders]  BY <1>2, <2>1
  <2> QED  BY <1>3, <1>4, <2>2 DEF Bijection, Injection, Surjection, IsInjective
<1>6. IsFiniteSet(1 .. N) /\ Cardinality(1 .. N) = N
  <2>1. N \in Nat  BY Places
  <2>2. N \in Int /\ 1 \in Int  BY <2>1
  <2> HIDE DEF N
  <2>3. IsFiniteSet(1 .. N) /\ Cardinality(1 .. N) = IF 1 > N THEN 0 ELSE N - 1 + 1
    BY <2>2, FS_Interval
  <2> QED  BY <2>1, <2>3
<1>7. ExistsBijection(1 .. N, senders)  BY <1>5 DEF ExistsBijection
<1> HIDE DEF leader, senders, N
<1>8. Cardinality(senders) = N  BY <1>6, <1>7, FS_Bijection
<1> QED  BY <1>8 DEF senders, N

(* The clients only know what each was told, and yet everyone who will wait  *)
(* is sent what it waits for and nothing else (client.py, group_shuffle).    *)
THEOREM ChainsDoMeet == Spec => []ChainsMeet
<1>1. IInv /\ ToldInv => ChainsMeet
  <2> SUFFICES ASSUME IInv, ToldInv, AllTold, NEW c \in Ids
               PROVE  LET holders == {d \in Ids : info[d].holder = d}
                          senders == {d \in Ids \ holders : SendsTo(d) = c}
                      IN  Cardinality(senders) =
                            CASE c \in holders -> NumGroups(Cardinality(info[c].all))
                              [] c \notin holders -> IF info[c].group[1] = c THEN 0 ELSE 1
    BY DEF ChainsMeet, AllTold
  <2> DEFINE holders == {d \in Ids : info[d].holder = d}
             senders == {d \in Ids \ holders : SendsTo(d) = c}
  <2>1. holders = {total_sum_holder}  BY AllKnow
  <2>2. senders = {d \in Others : SendsTo(d) = c}  BY <2>1 DEF Others
  <2> HIDE DEF holders, senders
  <2>3. CASE c = total_sum_holder
    <3>1. info[c].all = Ids /\ Cardinality(Ids) = num_clients
      BY AllKnow, ServedFinite DEF IInv
    <3>2. Cardinality(senders) = NumGroups(num_clients)  BY <2>2, <2>3, HolderGetsAll
    <3>3. c \in holders  BY <2>1, <2>3
    <3> QED  BY <3>1, <3>2, <3>3 DEF holders, senders
  <2>4. CASE c # total_sum_holder
    <3>1. c \in Others /\ c \notin holders  BY <2>1, <2>4 DEF Others
    <3>2. PICK g \in DOMAIN groups : \E i \in DOMAIN groups[g] : groups[g][i] = c
      BY <3>1, Places
    <3>3. PICK i \in DOMAIN groups[g] : groups[g][i] = c  BY <3>2
    <3>4. info[c].group = groups[g]  BY <3>3, AllKnow
    <3>5. CASE i = 1
      <4>1. senders = {} /\ info[c].group[1] = c  BY <2>2, <3>3, <3>4, <3>5, FirstGetsNothing
      <4>2. Cardinality(senders) = 0  BY <4>1, FS_EmptySet
      <4> QED  BY <3>1, <4>1, <4>2 DEF holders, senders
    <3>6. CASE i # 1
      <4>0. {d \in Others : SendsTo(d) = groups[g][i]} = {groups[g][i - 1]}
        BY <3>6, OthersGetOne
      <4>1. \E d : senders = {d}  BY <2>2, <3>3, <4>0
      <4>2. Cardinality(senders) = 1  BY <4>1, FS_Singleton
      <4>3. 1 \in DOMAIN groups[g]  BY Places
      <4>4. groups[g][1] # c  BY <3>3, <3>6, <4>3, Places
      <4> QED  BY <3>1, <3>4, <4>2, <4>4 DEF holders, senders
    <3> QED  BY <3>5, <3>6
  <2> QED  BY <2>3, <2>4
<1> QED  BY <1>1, ToldInvariant, PTL
=============================================================================
