------------------------------- MODULE Setup --------------------------------
(***************************************************************************)
(* The setup node (setup.py) and the processes that ask it for their       *)
(* parameters: the clients (client.py, request_client_info) and the        *)
(* aggregator (aggregator.py, __main__).  The node draws the total sum     *)
(* holder and the groups, serves requests in its zerorpc server, and a     *)
(* second thread kills the process when as many client requests were       *)
(* counted as there are clients.  The count is made before the answer      *)
(* leaves, so the kill may overtake the last answers; whoever is not       *)
(* answered waits for ever (timeout=None).                                 *)
(*                                                                         *)
(* Clients are the numbers 1, 2, ... of their client_id.  The keys each is *)
(* given are named by the client, so a response is reduced to who is the   *)
(* holder, the list of all clients, and the group.                         *)
(***************************************************************************)
EXTENDS Integers, Sequences, FiniteSets, Grouping

CONSTANTS Instances, \* pairs <<num_clients, client_count>>: what setup.py is
                     \* told, and how many clients the start script starts
          Draws(_)   \* the outcomes of random.choice and random.shuffle for
                     \* n clients: pairs <<holder, order of the others>>

ASSUME InstancesAssumption == Instances \subseteq (Nat \ {0}) \X Nat

ASSUME DrawsAssumption ==
  \A inst \in Instances : \A draw \in Draws(inst[1]) :
    /\ draw[1] \in 1 .. inst[1]
    /\ draw[2] \in [1 .. inst[1] - 1 -> (1 .. inst[1]) \ {draw[1]}]
    /\ \A i, j \in DOMAIN draw[2] : draw[2][i] = draw[2][j] => i = j

VARIABLES
  num_clients, client_count,
  phase,            \* of the node: "init", "serving", "stopped" (SIGTERM) or
                    \* "crashed" (group_clients divided by zero)
  total_sum_holder, groups,
  messages_sent,
  client,           \* a client's request: "idle", "asked", "answered" (the
                    \* response is on its way), "ready", "failed" (it killed
                    \* itself), "hung" (it waits for an answer that is lost)
  info,             \* the response a client got or is about to get
  aggregator        \* the same of the aggregator's get_client_ip

vars == <<num_clients, client_count, phase, total_sum_holder, groups,
          messages_sent, client, info, aggregator>>

Ids   == 1 .. num_clients  \* clients_info
Procs == 1 .. client_count \* the client processes
AllProcs == UNION {1 .. inst[2] : inst \in Instances}
Nobody == 0
NoInfo == [found |-> FALSE]

-----------------------------------------------------------------------------
\* Mutant of Deal: the last client of the list is not dealt.
DealAllButLast(n, order) ==
  LET dealt[k \in 0 .. n - 1] ==
        IF k = 0 THEN [g \in 1 .. NumGroups(n) |-> << >>]
        ELSE LET g == ((k - 1) % NumGroups(n)) + 1
             IN  [dealt[k - 1] EXCEPT ![g] = Append(@, order[k])]
  IN  dealt[IF n = 1 THEN 0 ELSE n - 2]

\* The loop of group_clients: the groups when the first k clients of the
\* shuffled list are dealt.  The client at idx = k - 1, counted from 0, is
\* appended to groups[idx % num_groups].
Deal(n, order) ==
  LET dealt[k \in 0 .. n - 1] ==
        IF k = 0 THEN [g \in 1 .. NumGroups(n) |-> << >>]
        ELSE LET g == ((k - 1) % NumGroups(n)) + 1
             IN  [dealt[k - 1] EXCEPT ![g] = Append(@, order[k])]
  IN  dealt[n - 1]

GroupOf(c) ==
  CHOOSE g \in DOMAIN groups : \E i \in DOMAIN groups[g] : groups[g][i] = c

\* Mutant of Response: the client is left out of the list it is given.
ResponseOthers(c) ==
  IF c \in Ids
  THEN [found  |-> TRUE,
        all    |-> Ids \ {c},
        holder |-> total_sum_holder,
        group  |-> IF c = total_sum_holder THEN << >> ELSE groups[GroupOf(c)]]
  ELSE NoInfo

\* The answer of get_client_info; None for an id that was not generated.
Response(c) ==
  IF c \in Ids
  THEN [found  |-> TRUE,
        all    |-> Ids,
        holder |-> total_sum_holder,
        group  |-> IF c = total_sum_holder THEN << >> ELSE groups[GroupOf(c)]]
  ELSE NoInfo

-----------------------------------------------------------------------------
Init ==
  /\ \E inst \in Instances : num_clients = inst[1] /\ client_count = inst[2]
  /\ phase = "init"
  /\ total_sum_holder = Nobody
  /\ groups = << >>
  /\ messages_sent = 0
  /\ client = [c \in Procs |-> "idle"]
  /\ info = [c \in Procs |-> NoInfo]
  /\ aggregator = "idle"

\* generate_client_info and group_clients, then the server is bound.
GroupClients ==
  /\ phase = "init" /\ Groupable(num_clients)
  /\ \E draw \in Draws(num_clients) :
       /\ total_sum_holder' = draw[1]
       /\ groups' = Deal(num_clients, draw[2])
  /\ phase' = "serving"
  /\ UNCHANGED <<num_clients, client_count, messages_sent, client, info, aggregator>>

\* With two or three clients num_groups is 0: idx % num_groups raises.
GroupingFails ==
  /\ phase = "init" /\ ~Groupable(num_clients)
  /\ phase' = "crashed"
  /\ UNCHANGED <<num_clients, client_count, total_sum_holder, groups,
                 messages_sent, client, info, aggregator>>

RequestClientInfo(c) ==
  /\ client[c] = "idle"
  /\ client' = [client EXCEPT ![c] = "asked"]
  /\ UNCHANGED <<num_clients, client_count, phase, total_sum_holder, groups,
                 messages_sent, info, aggregator>>

\* Mutant of GetClientInfo: the request is counted again where the answer is made.
GetInfoCountTwice(c) ==
  /\ phase = "serving" /\ client[c] = "asked"
  /\ client' = [client EXCEPT ![c] = "answered"]
  /\ info' = [info EXCEPT ![c] = Response(c)]
  /\ messages_sent' = IF c \in Ids THEN messages_sent + 2 ELSE messages_sent
  /\ UNCHANGED <<num_clients, client_count, phase, total_sum_holder, groups, aggregator>>

GetClientInfo(c) ==
  /\ phase = "serving" /\ client[c] = "asked"
  /\ client' = [client EXCEPT ![c] = "answered"]
  /\ info' = [info EXCEPT ![c] = Response(c)]
  /\ messages_sent' = IF c \in Ids THEN messages_sent + 1 ELSE messages_sent
  /\ UNCHANGED <<num_clients, client_count, phase, total_sum_holder, groups, aggregator>>

\* The response reaches the client.  None is not subscriptable: the client
\* prints "setup failed!" and kills itself.
ReceiveClientInfo(c) ==
  /\ client[c] = "answered" /\ info[c].found
  /\ client' = [client EXCEPT ![c] = "ready"]
  /\ UNCHANGED <<num_clients, client_count, phase, total_sum_holder, groups,
                 messages_sent, info, aggregator>>

SetupFailed(c) ==
  /\ client[c] = "answered" /\ ~info[c].found
  /\ client' = [client EXCEPT ![c] = "failed"]
  /\ UNCHANGED <<num_clients, client_count, phase, total_sum_holder, groups,
                 messages_sent, info, aggregator>>

\* The aggregator asks, and is answered without being counted.
RequestClientIp ==
  /\ aggregator = "idle"
  /\ aggregator' = "asked"
  /\ UNCHANGED <<num_clients, client_count, phase, total_sum_holder, groups,
                 messages_sent, client, info>>

\* Mutant of GetClientIp: the aggregator's request is counted like a client's.
GetIpCounted ==
  /\ phase = "serving" /\ aggregator = "asked"
  /\ aggregator' = "answered"
  /\ messages_sent' = messages_sent + 1
  /\ UNCHANGED <<num_clients, client_count, phase, total_sum_holder, groups,
                 client, info>>

GetClientIp ==
  /\ phase = "serving" /\ aggregator = "asked"
  /\ aggregator' = "answered"
  /\ UNCHANGED <<num_clients, client_count, phase, total_sum_holder, groups,
                 messages_sent, client, info>>

ReceiveClientIp ==
  /\ aggregator = "answered"
  /\ aggregator' = "ready"
  /\ UNCHANGED <<num_clients, client_count, phase, total_sum_holder, groups,
                 messages_sent, client, info>>

\* Mutant of StopServer: the loop waits while messages_sent <= num_clients.
StopServerLate ==
  /\ phase = "serving" /\ messages_sent > num_clients
  /\ phase' = "stopped"
  /\ \E lost \in SUBSET {c \in Procs : client[c] = "answered"} :
       client' = [c \in Procs |-> IF c \in lost THEN "hung" ELSE client[c]]
  /\ aggregator' \in {aggregator, IF aggregator = "answered" THEN "hung" ELSE aggregator}
  /\ UNCHANGED <<num_clients, client_count, total_sum_holder, groups,
                 messages_sent, info>>

\* The stop thread finds the count reached and kills the process: of the
\* responses still on their way some got out and the others are lost.
StopServer ==
  /\ phase = "serving" /\ messages_sent >= num_clients
  /\ phase' = "stopped"
  /\ \E lost \in SUBSET {c \in Procs : client[c] = "answered"} :
       client' = [c \in Procs |-> IF c \in lost THEN "hung" ELSE client[c]]
  /\ aggregator' \in {aggregator, IF aggregator = "answered" THEN "hung" ELSE aggregator}
  /\ UNCHANGED <<num_clients, client_count, total_sum_holder, groups,
                 messages_sent, info>>

Next ==
  \/ GroupClients \/ GroupingFails \/ StopServer
  \/ \E c \in Procs : \/ RequestClientInfo(c) \/ GetClientInfo(c)
                      \/ ReceiveClientInfo(c) \/ SetupFailed(c)
  \/ RequestClientIp \/ GetClientIp \/ ReceiveClientIp

\* Clients and node go on when they can.  Who starts the aggregator, and when,
\* is up to the operator.
Fairness ==
  /\ WF_vars(GroupClients) /\ WF_vars(GroupingFails) /\ WF_vars(StopServer)
  /\ \A c \in AllProcs :
       /\ WF_vars(c \in Procs /\ RequestClientInfo(c))
       /\ WF_vars(c \in Procs /\ GetClientInfo(c))
       /\ WF_vars(c \in Procs /\ ReceiveClientInfo(c))
       /\ WF_vars(c \in Procs /\ SetupFailed(c))
  /\ WF_vars(GetClientIp) /\ WF_vars(ReceiveClientIp)

Spec == Init /\ [][Next]_vars /\ Fairness

-----------------------------------------------------------------------------
TypeOK ==
  /\ <<num_clients, client_count>> \in Instances
  /\ phase \in {"init", "serving", "stopped", "crashed"}
  /\ total_sum_holder \in Ids \cup {Nobody}
  /\ groups \in Seq(Seq(Ids))
  /\ messages_sent \in 0 .. client_count
  /\ client \in [Procs -> {"idle", "asked", "answered", "ready", "failed", "hung"}]
  /\ DOMAIN info = Procs
  /\ aggregator \in {"idle", "asked", "answered", "ready", "hung"}

(* Whatever was drawn, the groups and the holder are all the clients, each   *)
(* once, and group g has the length the shuffle's chains have in module      *)
(* Shuffle, three at least (group_clients).                                  *)
GroupsCut ==
  phase \in {"serving", "stopped"} =>
    /\ Len(groups) = NumGroups(num_clients)
    /\ \A c \in Ids \ {total_sum_holder} :
         \E g \in DOMAIN groups : \E i \in DOMAIN groups[g] : groups[g][i] = c
    /\ \A g \in DOMAIN groups :
         /\ Len(groups[g]) = GroupSize(num_clients, g)
         /\ Len(groups[g]) >= 3
         /\ total_sum_holder \notin {groups[g][i] : i \in DOMAIN groups[g]}
         /\ Cardinality({groups[g][i] : i \in DOMAIN groups[g]}) = Len(groups[g])

\* Whom c will send to in group_shuffle, by what it was told.
SendsTo(c) ==
  LET group == info[c].group
      i == CHOOSE k \in DOMAIN group : group[k] = c
  IN  IF i = Len(group) THEN info[c].holder ELSE group[i + 1]

(* The clients only know what each was told.  Once all are told, everyone    *)
(* who will wait is sent what it waits for and nothing else: a client that   *)
(* is not first in the group it was told is the target of exactly one other, *)
(* a first one of none, and the holder of exactly as many as it works out    *)
(* from the number of clients (client.py, group_shuffle).                    *)
ChainsMeet ==
  (Ids \subseteq Procs /\ \A c \in Ids : client[c] = "ready") =>
    \A c \in Ids :
      LET holders == {d \in Ids : info[d].holder = d}
          senders == {d \in Ids \ holders : SendsTo(d) = c}
      IN  Cardinality(senders) =
            CASE c \in holders -> NumGroups(Cardinality(info[c].all))
              [] c \notin holders -> IF info[c].group[1] = c THEN 0 ELSE 1

(* The node does not kill itself while the request of a client it generated  *)
(* is still to come or to be served: only answers already given can be lost. *)
NobodyLeftOut ==
  phase = "stopped" =>
    \A c \in Ids : c \in Procs /\ client[c] \in {"answered", "ready", "hung"}

(* The stop thread gets there when enough clients were started, and every    *)
(* client that asked knows, or waits for an answer lost in the kill.         *)
NodeStops ==
  Groupable(num_clients) /\ client_count >= num_clients =>
    <>(phase = "stopped" /\ \A c \in Ids : client[c] \in {"ready", "hung"})

(* README.md:20: client_num is "The number of clients (must be an integer)": *)
(* for every such number the node comes to serve its clients.                *)
ServesAnyNumber == phase # "crashed"
=============================================================================
