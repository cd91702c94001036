# A verification project for MASH

MASH is a federated learning framework: clients add masks to their gradients,
an aggregator adds up the masked gradients, and the masks are made so that they
cancel in the sum. This directory holds TLA+ modules of its protocol, the TLC
configurations that check them on small instances and TLAPS proofs of what
matters most for every instance. Paths and line numbers are those of the
repository.

## 1. Inventory

### The parts and their state

| Part | Source | State | Operations |
|---|---|---|---|
| Setup node | `setup.py` | `clients_info`, `total_sum_holder`, `groups`, `messages_sent` | `generate_client_info`, `group_clients`, `get_client_info`, `get_client_ip`, `stop_server` (a thread) |
| Client: parameter request | `client.py:74-96` | keys, `all_clients_info`, `total_sum_holder_info`, `group_info` | `request_client_info` |
| Client: mask shuffling | `client.py:98-122,162-245` | `seed_vector`, `group_sum_seed`, `sum_seed`, `seed`, `total_sum_holder`, `group_flag` | `start_server` (a thread), `receive_message` (an RPC handler), `group_shuffle` (main) |
| Client: gradients | `client.py:124-160,247-298` | `masked_grad`, `partial_grads`, `aggregate`, `grad` | `send_grad`, `send_split_grad`, `receive_aggregate`, `receive_split_aggregate` (handlers), the end of `run` |
| Aggregator | `aggregator.py` | `gradients_list`, `partial_grads`, `lock`, `sended_num` | `receive_grad`, `receive_split_grad`, `aggregate_and_broadcast`, `stop_server` (a thread) |
| Mask arithmetic | `privacy_utils.py` | none (pure) | `gen_hx`, `gen_mask`, `add_mask`, `aggregate_gard`, `precompute_powers`, `look_up` |
| ECIES | `ECIES.py` | `Message.R`, `Message.text` | curve arithmetic, `Message.encrypt`, `Message.decrypt` |
| Paillier library | `phe/` | keys, `EncryptedNumber` | raw and encoded encryption and arithmetic, a command line |
| Verification | `avc.py`, `Contracts/Verification.sol`, `verification_cost.py` | the lists of commitments and the two sums in the contract | `commit`, `batch_commit`, `batch_open`; `SumCtoSC`, `CommittoSC`, `verifyCommitment` |
| Compared schemes, measurements | `comparison/`, `time_cost/` | none | secret sharing and benchmarks |
| Start scripts | `start_clients.sh`, `.bat` | none | start `client_count` clients |

### How they interact

    setup.py  <-- get_client_info --  client i        (once, no timeout)
    setup.py  <-- get_client_ip  --   aggregator      (once, no timeout)
    client    -- receive_message -->  next of its group, ..., leader --> holder
    client    -- receive_grad / receive_split_grad -->  aggregator
    aggregator -- receive_aggregate / receive_split_aggregate -->  every client

All calls are zerorpc calls, synchronous for the caller. A client's main and
its server run in two threads that share the attributes of one object; main
polls what the server writes (`seed_vector`, `group_sum_seed`, `aggregate`).
Every process ends by killing itself with SIGTERM.

### What is hard

* The server of a client runs before main knows the client's role
  (`client.py:252`), so a sum may be handled by the wrong branch.
* Main and the server share `seed_vector`; main does not take the lock.
* No client sees more than its own keys, its group's and the holder's public
  keys: layers, chains and the number of groups must fit together without
  anybody checking.
* Calls end in a 4000 second timeout that kills main, polls never end.
* The setup node counts a request before its answer is out and kills itself on
  the count (`setup.py:57,112`).
* The broadcast runs inside the last client's call and under the lock of all
  handlers (`aggregator.py:33-40`), in an event loop a blocked lock would stop.
* A client kills itself when it has the sum, maybe before its answer is out.
* Arithmetic boundaries: `int((n-1)/3)` for small n, `range(-x, x)` of the
  table of powers, buckets with one entry that are not compared, integers that
  leave the range of a Paillier plaintext, random numbers that are 0.
* Flags that stand for a secret: a ciphertext flagged as obfuscated is given out
  as it is (`paillier.py:565`).
* The contract takes any numbers from everybody, and its driver does not wait for its
  transactions (`verification_cost.py:96-110`).

`PROJECT.json` lists each hazard at its line, with the properties that watch it.

### What makes each part correct

* Setup: the groups and the holder are all clients, each once; the chains and
  the numbers of sums that clients work out from their answers meet; the node
  stops, and not before every client's request was served.
* Shuffle: the layers come off in order; the holder's seed is minus the sum of
  all others, each counted once; the holder never sees fewer than three seeds
  multiplied; no vector is lost by being overwritten; nobody polls for what was
  sent and lost; the shuffle ends.
* Aggregation: each client is given the sum of all gradients, each counted
  once, or nothing; nobody blocks on the lock; the buffers are there when
  used; the aggregator stops only when all have the sum; nobody polls for a sum that
  cannot come, unless a gradient was lost; the round ends.
* Mask arithmetic: all seeds add up to 0, so the masks multiply to 1, and the
  product of the masked gradients is read as their sum.
* Paillier: a ciphertext holds the residue of the number it stands for, and the
  number is read back right or an overflow is noticed; primes are not missed.
* ECIES: a layer comes off with the owner's key, and with no other.
* Verification: a claim is accepted exactly if its parts are the sums of the
  clients' parts.

## 2. Modules

| Module | Models |
|---|---|
| `Grouping` | the numbers behind `group_clients`: how many groups, how long |
| `Setup`, `MCSetup`, `SetupProofs` | the setup node, and clients and aggregator asking it; its runs; theorems |
| `Shuffle`, `MCShuffle`, `ShuffleProofs` | the mask shuffling of all clients (`client.py`); its runs; theorems |
| `SecureSum` | the abstract aggregation: submit, be given the sum |
| `Aggregation`, `MCAggregation`, `AggregationProofs` | clients and aggregator from the masked gradient to the end, implementing `SecureSum`; its runs; theorems |
| `NumberTheory` | the integer helpers of `phe/util.py` and of GMP |
| `RawPaillier` | encryption, decryption and arithmetic of residues (`phe/paillier.py`) |
| `ArithmeticProofs` | theorems about both, and the arithmetic, induction and folds that other proofs use |
| `Encoding` | ints and floats as residues (`phe/encoding.py`) |
| `SignedResidue` | the abstract encrypted number: a residue that follows an integer (theorems in `PaillierProofs`) |
| `Paillier`, `MCPaillier`, `PaillierProofs` | key generation and the life of an `EncryptedNumber`, implementing `SignedResidue`; its run; theorems |
| `Masking`, `MCMasking`, `MaskingProofs` | the arithmetic of one round, from seeds to sums (`privacy_utils.py`); its run; theorems |
| `Curve` | elliptic curve arithmetic (`ECIES.py`) |
| `Onion` | what the shuffle takes a `Message` for: layers around a text |
| `Ecies`, `MCEcies`, `EciesProofs` | key pairs and a `Message` on its way, implementing `Onion`; its run; theorems |
| `Commitments` | commitments to vectors and to samples (`avc.py`) |
| `Verification`, `MCVerification`, `VerificationProofs` | both ways to check a claimed sum: samples, and the contract with its driver; its run; theorems |

    NumberTheory <- RawPaillier <- Encoding <- Paillier, SignedResidue
                         ^-- Masking
    NumberTheory <- Curve <- Ecies
    NumberTheory <- Commitments <- Verification

`Grouping` is used by both `Setup`, whose property `GroupsCut` shows that the
groups that are dealt have these numbers, and `Shuffle`, which takes them as its
topology. `Shuffle` ends where `Aggregation` begins: a client's masked gradient
is made from its seed. `Shuffle` leaves ciphertexts and layers abstract, and two
other modules show that it may: `Ecies` implements `Onion`, the stack of keys
that `Decrypt` of `Shuffle` pops, and `Masking` does the holder's sum with real
ciphertexts. `MasksCancel` of `Masking` is what `MaskSumZero` of `Shuffle` is for,
and `SumsRead` says when `found` of `Aggregation` is true.

### Shuffle

A client is named by its place: `<<g, i>>` is number i of group g, `<<0, 0>>` the
holder. A seed is named by its owner. A ciphertext is the owner of its seed, the
stack of keys around it (`Message.R`) and whether the text is intact: `Decrypt`
pops the last layer, and the text survives only if the layer was the
decrypter's. A product of Paillier ciphertexts is the sequence of its factors.

| State | In the code |
|---|---|
| `pc` | where `run` is: before `group_shuffle`, polling, in the call, past it; `dead` when the call raised, `crashed` when the process is gone |
| `bound` | the server thread has bound its port |
| `total_sum_holder`, `group_flag`, `seed_vector`, `group_sum_seed`, `sum_seed` | the attributes of these names |
| `holder_seed` | the factors of what the holder decrypts into `self.seed` |
| `message`, `call` | the pickled argument of a client's one call, and how far the call is |

| Action | In the code |
|---|---|
| `StartServer` | the server thread, `start_server` |
| `DecideRole` | the end of `gen_grad`, `group_shuffle` up to line 177 |
| `ForwardVector` | a member: wait, decrypt, append, shuffle, send |
| `SendGroupSum` | a leader: wait, decrypt, multiply, send |
| `StoreVector`, `CollectGroupSum`, `CollectSum` | the three branches of `receive_message` |
| `SendReturns`, `TimeoutCrashed`, `TimeoutLate` | the end of the call |
| `SumGroups` | the holder: wait for all groups, multiply, decrypt, negate |
| `Crash` | a process goes |

`ForwardVector` is one step although main decrypts in place while the server
may write: `VectorNotOverwritten` shows that no write happens between the moment
a vector is there and its use, so the interleavings inside are the same.

### Setup

A client's request is `asked`, then `answered` while the answer is on its way,
then `ready`, `failed` (the id is unknown: the client kills itself) or `hung`
(the node was killed first; the client waits with `timeout=None`). `Draws` gives
the outcomes of `random.choice` and `random.shuffle`. `StopServer` may lose any
of the answers still on their way.

### Aggregation and SecureSum

A gradient is named by its client and a sum is the function that counts how
often each client's gradient is in it, so "everyone exactly once" is visible.
`split` says whether vectors are long enough to be sent in parts, `found` whether
`look_up` finds the sum or raises. `lock` is the client in whose call the
aggregator broadcasts. `bcall` is the call of the broadcast, and `BroadcastFails`
its exception when the target is gone, with or without having answered. The
refinement maps `submitted` to the clients in `gradients_list` and `outcome` to
`grad`: `TakeIn` is `Submit`, the handler that completes `grad` is `Deliver`, all
other steps stutter.

### Paillier

One key pair and one number. Key generation goes prime by prime: with GMP in one
step (`DrawPrime`), without it candidate by candidate and witness by witness, all
random choices being nondeterministic. A prime is thus what the code takes for
one; a composite that passes all rounds becomes a factor of `n`, as it would.

| State | In the code |
|---|---|
| `gmp`, `n_length` | `HAVE_GMP`, the argument |
| `found`, `candidate`, `rounds` | `p` of the loop, `n` of `getprimeover`, the loop of `miller_rabin` |
| `n`, `p`, `q` | the keys, when the loop has ended |
| `number` | the `EncryptedNumber`: ciphertext, exponent, the flag |
| `value`, `safe`, `derived` | history: the number it stands for; was the last operation one of numbers in range; could anybody have computed the ciphertext from an earlier one |

The operations work on ciphertexts as the code does (`Times`, `Plus`, `LowerTo`).
The refinement decrypts: `plain` of `SignedResidue` is `RawDecrypt` of the
ciphertext, `exact` the integer `value` is at the number's exponent. Every
operation is then one `Combine`: multiply, and add. Obfuscating is a stutter.

### Masking

Four clients draw seeds, encrypt them (`EncryptSeed`), leaders multiply
(`CombineGroup`), the holder decrypts and negates (`SumSeeds`), all mask
(`MaskGradient`), the aggregator multiplies and looks up (`Aggregate`). A
`result` is a vector or the `KeyError`. The messages themselves are in `Shuffle`.
The assumptions name what the sizes in the code give: the sum of the seeds below
`n`, the powers of 2 looked at all different, the hashes units.

### Ecies

`text` keeps the keys it is encrypted under, taken from the curve points as the
code does, and whether a key was taken off that was not the outermost: AES is
external, and undone by the same key only. `str` texts are padded, `bytes` are
not. Private keys are drawn so that no two share an abscissa.

### Verification

`Sample` appends one seed's commitments for all clients and for the claim, or
raises in `np.sum` when the parts are not equally long. For the contract,
`pending` holds the transactions that were sent and not mined; a transaction is the
function called and the two numbers given to it. `Script` is what
`verification_cost.py` sends, `SendStray` a call of somebody else with any numbers:
commitments, zeros or numbers that are not reduced, since neither function of the
contract looks at them. `Ask` is the `call` of `verifyCommitment`, which reads what
is mined so far. `VerdictExact` states the verdict on the numbers stored, and on the
halves only when all the numbers commit to some.

## 3. Runs

| Run | Instance | Shows |
|---|---|---|
| `shuffle` | 7 clients (two groups of three and the holder), flag on and off, late servers of the holder and of one member | types, `OnionPeeled`, `GroupSumHides`, `VectorNotOverwritten`, `HolderGoesOn`, `ShuffleCompletes` |
| `shuffle_faults` | 7 clients, no or one crash or premature timeout, late holder | `MaskSumZero`, `GroupGoesOn`, `IntactGroupDelivers` |
| `shuffle_early_sum` | 7 clients, no fault | `MaskSumReached` is violated (section 6) |
| `shuffle_dropout` | 7 clients, no or one crash or premature timeout, late holder | `DropoutTolerated` is violated: one group is intact and its sum with the holder, which waits for the other for ever |
| `setup` | 1 to 7 clients to generate, as many, fewer or more started | types, `GroupsCut`, `ChainsMeet`, `NobodyLeftOut`, `NodeStops` |
| `setup_two_clients` | 2 clients | `ServesAnyNumber` is violated |
| `aggregation` | 3 clients, short and long vectors (two parts), look up found and not | types, `EveryoneGetsAggregate`, `RoundEnds` |
| `aggregation_crashes` | the same with no, one or two crashes | `NoReentrantLock`, `SplitBufferPresent`, `StopSound`, `NobodyPollsInVain`, `Implements` |
| `paillier` | keys of 4, 6 and 14 bits, with and without GMP; operations under keys up to 40, with ints -1, 3, 10 and floats 3/4, -3/2 | types, `PrimesNotPassedOver`, `LiarsAreFew`, `TotientGivesKey`, `EncodeFaithful`, `ExportsObfuscated`, `OverflowDetected`, `Implements` |
| `masking` | a group of three and the holder, seeds 0 to 2, two numbers each, primes 163 and 383, n = 15 | types, `MasksCancel`, `SumsRead` |
| `verification` | two clients, vectors of 4 entries, claims right and wrong, 2 and 3 parts, two samples, one transaction of somebody else with a commitment, zeros or an unreduced number | types, `SamplesExact`, `SamplingCatches`, `VerdictExact` |
| `ecies` | three clients, four private keys, a curve of order 31 over F_43, random numbers with 0, three layers | types, `LayersCanComeOff`, `Implements` |

Bounds. Seven is the smallest number of clients with two groups; a group of
three has a first member, a middle one and a leader, the three roles there are.
Late servers are limited to the holder (whose race is the interesting one) and
one member; the proofs are for every set. One fault is enough to fail one group
and leave the other intact. Two parts make a first and a last one; with three
clients the broadcast has a first, a middle and a last target. Two crashes reach
both ends of a call. Every draw is tried for four clients or fewer, one for five
and seven: the draw only renames clients. All runs have `CHECK_DEADLOCK FALSE`:
the processes end, and a system that hangs is caught by the liveness properties.

In `paillier`, TLC's integers have 32 bits and `Square(n)` is multiplied by itself, so
keys are usable up to n = 40 and generated up to 14 bits; the keys used are
15 and 35. 14 bits send composites like 91 and 121, with divisors above the
table's, through the Miller-Rabin rounds. `BASE` is 4 and a float has 2 bits, so that exponents
differ by one and a few operations leave the range: sums in the middle third,
products that wrap and come back all occur. `MaxExact` bounds the integer at more
than twice `MaxInt` of the smaller keys. In `masking` the gradients are -1, 0 and 1
(`MaxGrad` is 10000 in the code): sums reach both ends of the table, and for one
of the primes buckets hold several exponents. In `verification` the sum of a part
of what is added to the true sum is between -2 and 2 (`MaxPart`), and no two such
sums have one commitment (`BindingAssumption`): finding another opening is what
commitments make infeasible, and it is assumed away, no more of it than can
occur. Nothing is assumed of the numbers others upload but that they are natural; one
stray transaction is enough to have the zeros of an unset sum accepted, a sum replaced
and a commitment too many. Three parts of four entries is the smallest case that does not divide.
The curve has prime order like secp256k1 and the same equation.

`SamplingCatches` is a count: a wrong claim cannot be let through by more than three
quarters of the permutations, so 128 seeds miss it with a probability of about
10^-16 if they are independent. In the run some claims pass with two thirds of the
24 permutations: an entry too large and one too small, twice. The bound of the
property is the one that is proved for every length.

Each property of a passing run has a mutant: an operator next to the definition
it replaces, a plausible slip in that code, with which TLC finds the property
violated.

### Fairness

Weak fairness of each step of each thread that is there: Python threads and the
event loop run when they can. A message is handled if its sender's process is
still there; nothing makes a crash or an early timeout happen. The late timeouts
(a target that is gone) are fair: the 4000 seconds pass. In `Setup` who starts
the aggregator and when is up to the operator, so `RequestClientIp` is not fair.

## 4. Proofs

All proofs are checked by TLAPS, from the assumptions named in the modules and
nothing else. What those say of the constants, and why they hold of the code:

| Assumption | Says |
|---|---|
| `NAssumption` of `Shuffle` | the number of clients is one the setup node can group |
| `NAssumption` of `Aggregation` | there is a client |
| `InstancesAssumption`, `DrawsAssumption` of `Setup` | a client or more is generated; a draw is a holder and an order of the others |
| `EncodingAssumption`, `KeyAssumption`, `OperandAssumption` of `Paillier` | the bases and bounds are positive; a float's mantissa has no more bits than floats have |
| `GroupAssumption` of `Masking` | finitely many groups of two clients or more, which do not overlap |
| `KeyAssumption` of `Masking` | the holder's key has two different primes, no obfuscator is a multiple of one |
| `SeedAssumption`, `PrimeAssumption`, `GradientAssumption` of `Masking` | the sum of the seeds is below `n`; the modulus is a prime with the powers of 2 in the table different from each other, and divides no hash; gradients are bounded |
| `GeneratorAssumption` of `Commitments` | the modulus is a prime that divides no generator |
| `BoundsAssumption`, `VectorAssumption` of `Verification` | there is a client; vectors are of one length, a sample has two parts or more and no more than there are generators |
| `PartAssumption`, `BindingAssumption` of `Verification` | sums of parts and halves are bounded, and no product of powers of the generators with exponents so small is 1 unless all are 0 |
| `StrayAssumption` of `Verification` | what others upload are natural numbers |
| `CurveAssumption` of `Ecies` | the field and the order of the generator are primes, the order odd, and the generator is a point of that order |
| `GroupAssumption` of `Ecies` | `point_add` adds points "according to the group law" (`ECIES.py:102`): to points, and associatively |
| `RandomAssumption` of `Ecies` | private keys are between 1 and the order, random numbers below it |

The others bound the runs. TLC evaluates all of them.

**Shuffle.** For every number of clients, every set of late servers and any
number of faults: `TypeCorrect`, `OnionsPeelInOrder`, `SumsHideSeeds`,
`VectorsNotOverwritten`, `MasksCancel`, `GroupsGoOn` and `HolderGoesOnToo`.
`MaskSumZero` alone is not inductive:
it says nothing until the holder is done. The invariant `IInv` says of every
message on its way that it is the vector of its sender: one intact ciphertext of
each member up to it and of nobody else, each with the layers of exactly the
members after it (`VectorOf`). Peeling the vector of the one before, adding the
own ciphertext and shuffling gives the next vector (`PeelVector`, `AddOwn`,
`ShuffledVector`). A group's sum is collected once because the leader's one call
is handled once, so as many sums as groups are one of each (`EveryGroupSummed`),
and each seed is in one of them once (`SeedCountedOnce`). That a waiting vector is
not overwritten needs `NotYetSent`: until a call is handled its target has been
sent nothing.

That nobody polls in vain is the part of `ShuffleCompletes` and
`IntactGroupDelivers` that is safety: fairness makes every thread that can go on do
so, and the theorems say that one can. `DeliveredInv` says where a handled call has
left its vector: in `seed_vector` of the next member as long as that one polls, or
among the sums. The first member of a group that is not done (`LeastRank`) then has
its vector; and if all leaders' calls are handled, each group has a place of its
own in `group_sum_seed`, so there are as many sums as groups, by counting. The one
exception is the sum that came before the holder knew its role (section 6).

**Aggregation.** For every number of clients and parts and any number of crashes:
`TypeCorrect`, `LockNeverContended`, `BufferThere`, `StopsAfterAll`,
`WaitingIsNotInVain`, and `RoundIsSecureSum`, the refinement. `IInv` follows the parts of each client
(`SendInv`): it is in the list only when it has nothing left to send, and once
(`ListInv`). A list as long as there are clients then holds each once, by
counting (`FullList`); so the sum counts everyone once and no request is left
that could wait for the lock. `LockInv`, `GivenInv` and `BufferInv` follow the
broadcast through the targets and their parts, `CountInv` bounds the count of
answers by the loop: they are equal only if no send failed. `NobodyPollsInVain`
needs `ReachInv` besides: where main is tells whether the client's gradient is in,
the end of its call too (`MainInv`, `CallInv`), a full list starts the broadcast
(`StartedInv`), and the broadcast leaves out only clients that crashed
(`PassedInv`). If nobody is left to be heard everyone is in the list, so it is full
(`FullByCount`), the broadcast was begun and is over, and whoever polls was passed.

**Setup.** For every number of clients generated and started: `NobodyIsLeftOut`,
`TypesCorrect`, `GroupsAreCut`, `ChainsDoMeet`. The node stops on a count, so `IInv`
ties the count to who was served (`Counted`): a request of a client the node
generated is counted once, the aggregator's not at all. As many as there are ids
is then all of them, by cardinality (`ServedFinite`, `CountReached`). The deal is a
fold over the clients, round after round; `DealIs` gives it in closed form (place i
of group g is number g + (i - 1) * number of groups of the order drawn), from
which no client is dealt twice (`PlacesDiffer`) and none left out (`PlacesCover`).
`ToldInv` says that whoever was answered was told its place in that deal; two
clients' answers agree because both are true, not because they saw each other's.

**Arithmetic.** `ArithmeticProofs` proves what the helpers of `phe/util.py` compute, for all integers: repeated squaring the power (`PowModIs`), the extended
Euclidean algorithm the inverse (`InvertIs`), `improved_i_sqrt` the root (`ISqrtIs`),
`miller_rabin` that a prime passes whatever the witness (`PrimesPass`, from
`Fermat`), and `raw_decrypt` the plaintext (`Decrypts`). `Holds(k, c, m)` says that c is
(1 + n)^m times an n-th power of a unit; encryption makes such a number, sums and
products of them are such numbers for the sum and the product, and the Chinese
remainder of the two logarithms of one is m modulo n.

The comment of `miller_rabin` gives a composite less than one chance in four per
round. `FewLiars` proves it for every odd composite n that 3 does not divide (9 is
the exception, and in the table), `FewFalseWitnesses` for the witnesses the code draws
from, which leave out 1 and n - 1. The argument multiplies the set of all that pass by
four numbers so that the four products do not meet (`FourTranslates`): each can
then be at most a quarter of the nonzero remainders. At some exponent e that divides
n - 1 an even number of times the power of all that pass is 1 or -1, and -1 comes up
(`SignExponentExists`). If the square of a prime divides n, the four are 1 + s * i with
s = n / p, which have different powers of n - 1 (`SquareFactor`). If n has two different
primes and more, a Chinese remainder makes numbers with the power -1 modulo one of the
primes and 1 modulo the rest (`Selector`), and the signs tell the four products apart
(`ThreeFactors`). If n is two primes, the power of p - 1 is not 1 for all numbers
modulo the larger one (`PowerNotOne`, since a polynomial has no more roots than
its degree, `FewRoots`) and tells two of the four from the others (`TwoFactors`).

Induction is the least number principle: a set of counterexamples that is not empty has a
least one (`LeastNumber`, from the well-foundedness of the library, whose
theorems with an operator parameter the provers cannot use). `Induction` states
it for sets of naturals, `SetInduction` for the subsets of a finite set in the order a
fold takes them. A recursive function is the CHOOSE of its equation: the proofs
exhibit a function that satisfies it (`Iterate`, `Recursion`, `FoldExists`) and
compute with the equation.

**Paillier.** For `SignedResidue`, every modulus of at least 3 and every sequence of
operations: `ResidueFollowed`, `ReadsExactly` and `OverflowsDetected`, and
`DecodesEncoded` for `Encoding`. A residue may be taken before a factor and a summand
are applied (`ModAffine`), and the middle third separates an overflow of at most
twice the range from both signs (`DecodeResidue`).

For `Paillier`, for every base, mantissa, key length, operand and random number:
`Exported` (the flag is only set by multiplying with a random power), `KeysInOrder`
and `TotientDoes`, `PrimesKept`, `WitnessesSeldomLie`, `EncodesFaithfully`, `TypesCorrect`, and the
refinement, `FollowsAbstract`, from which `OverflowsNoticed` and `ReadBack` follow. Its
invariant is that the number's ciphertext `Holds` an integer that is `Exact` modulo
n. `ImplementsResidue` is the refinement with the abstract specification of the run,
whose factors are those of exponents up to 0 (`LowOperands`).

The refinement has a hypothesis about the behaviour, `[]GoodKey`: a key made without GMP
has prime factors and no obfuscator divides n, as soon as it is used. The code does not
ensure it: `miller_rabin` lets some composites pass, and then decryption is
wrong. TLC finds `GoodKey` true in all states of the run `paillier`, so the
hypothesis is met there, and with GMP it only says that no random number has a
factor of n in common with it.

**Masking.** For every number of clients and any grouping of them, every key,
prime, hash and gradient: `MasksCancelOut`, `SumsAreRead`, `MaskingTypes`. `MaskingInv`
has three parts: the ciphertexts and the leaders' products `Hold` the sums of the seeds
behind them, and the holder's seed is minus the sum of the members' once it has
taken it (`SeedInv`); the holder masks with no other seed (`MaskInv`); the
result was looked up at the powers of the true sums (`ResultInv`). The products are
folds over clients in an order the code does not fix; they do not depend on it
(`SumDisjoint`, `GroupSums`, `ProductOfProducts`). By `Decrypts` the holder's seed
cancels the others, exponents of a unit add up with signs (`ExpsProduct`), and since
the powers in the table differ (`PowersDiffer`) a product is found at exactly the sum,
unless the sum is the one the table leaves out. The run has four clients in
one group; the theorem is about all.

**Verification.** For every number of clients, vectors, deviations, parts and
permutations, and any transactions of others with any numbers in any order: `SamplesAreExact`,
`SamplingDoesCatch`, `VerdictIsExact`, `VerificationTypes`. The sum of a part of a
permuted vector is a linear form of the vector (`PartLinear`), so the parts of a sum
are the sums of the parts (`LinearTotal`); a product of commitments commits to the
sum (`MulIs`), whichever way `c_mod` has reduced it in between (`SameCMod`); and two
sums of which the difference is small have one commitment only if they are equal
(`CommitBinds`). `SampleInv` says that what each has committed to so far is what the
permutations drawn so far make of its vector.

`SamplingDoesCatch` compares permutations by two injections. Let the deviation differ
at the entries a and b. From a permutation with both in one part, moving b to the
same place of the next part gives one with the two apart, and the way back is known
(`MovedIs`): at least half of all permutations have them apart. Of those, one that
lets the claim through does so no more when a and b change places, since exactly one
entry of the part changes (`SwapChanges`): at least half of these do not let it
through. A deviation that is the same everywhere is always caught.

For the contract, `ChainInv` says that the sum and the list of commitments are
those of the transactions mined (`Carried`, `LastSum`), and that the verdict was
right (`Judged`) after a prefix of them that was as long as `mined` when the script
asked. `Judged` has three parts. On any numbers, `mulmod`'s running product is the one
`avc.py` computes with `c_mod`, reduced (`MulModsProduct`); it is 0 exactly if the
prime divides one of the factors (`MulModsZero`), so zeros are accepted when nobody
has uploaded a sum, or a sum of 0, and somebody a commitment of 0. If all numbers are
powers with small exponents, these are determined (`OpeningIs`) and their sum is
compared (`HalvesJudged`). The transactions of the script are told from others by
nothing but what they carry; they are such powers (`CommitmentIs`), so when exactly
they were mined the verdict is on the halves of the claim.

**Ecies.** For every curve, any clients, keys and random numbers and any number of
layers: `TypesCorrect`, `LayersDoComeOff` and `MessagesAreOnions`, the refinement.
That addition is associative is a fact of algebraic geometry and assumed; TLC
evaluates it for all triples of points of the small curve. Everything else about the
group is proved from the code's `point_add`. `Multiple[k]` adds the generator k times;
multiples add up (`MultipleAdd`), repeat after the order and not before, and
double and add computes them, since result + k * addend stays the same
(`ScalarMultIs`). Both ways to compute a layer's point give the same
multiple, so the key is the same. Two multiples have the same abscissa only if they
are equal or opposite (`SameAbscissa`), so another client, whose key is neither the
owner's nor its negative, computes another key (`KeysDiffer`). `IInv` says that
each layer was made so for some random number (`LayerIs`). `LayersCanComeOff` is about owners only;
that nobody else can take a layer off is in the refinement.

Only model-checked:

* The liveness properties and anything with ENABLED, which are out of the prover's
  reach, and the violated properties. `GroupsGoOn`, `HolderGoesOnToo` and
  `WaitingIsNotInVain` prove of them that there is always a step to take; that
  fairness then leads to the end is TLC's result for the instances.

## 5. Not modelled

* Cryptographic strength: that discrete logarithms, factors and other openings of
  commitments cannot be found, and that random numbers do not collide, is in the
  assumptions and the choice of the instances.
* AES, SHA-256 and the text of the padding (external), GMP but for what its
  functions return, the chain but for the order of transactions.
* The keyring, the base64 helpers, `verify_signature` (it calls `hash_message`,
  which is nowhere defined, and nothing calls it), `__truediv__`, PyCrypto's branch
  of `getprimeover`.
* The rounding of Python floats in arithmetic: a float is exactly its mantissa
  and exponent.
* The secret sharing of `comparison`, which is measured, not used.
* A second round of the contract: nothing starts one. Commitments that stay from
  before are covered by the stray ones.
* Logging, time measurement, command lines, files and the benchmarks.
* Clients started twice with one id, and an operator who starts the aggregator
  on another port than the one clients are told: mistakes of operation.
* The start of the aggregator's server: `README.md` has it run before the clients.
* Duplicated messages: zerorpc retries nothing, and neither does the code.

## 6. Where documents and code disagree

* `README.md:7` has the shuffling make the masks sum to zero. A sum that reaches
  the holder between the start of its server (`client.py:252`) and line 175 goes
  to `seed_vector`: the holder then waits for ever with nothing having failed
  (`shuffle_early_sum`). `gen_grad` runs in that time, in main
  (`target=self.gen_grad()` calls it).
* `README.md:8` has the grouping tolerate dropouts. Groups do fail on their own: an
  intact one gets its sum to the holder (`IntactGroupDelivers`), and its members end
  their shuffle. But the holder waits for the sums of all `int((n-1)/3)` groups: with
  one client of the other group gone it has one of two sums and polls for ever, and has
  no seed (`shuffle_dropout`).
* `README.md:20` allows any number of clients; with two or three `group_clients`
  divides by zero (`setup_two_clients`).
* `phe/paillier.py:166` has `encrypt` raise a ValueError when the precision rounds
  the value to zero. `encode` (`encoding.py:191-196`) checks for too large a number
  only and encrypts 0. `EncodeFaithful` states what does hold: the error is at
  most half a unit of the precision.
* `privacy_utils.py:83` has a branch "look up failed" for an empty bucket. The
  table has no empty buckets: a missing one is a KeyError, and an entry that is
  not found in a bucket of several is left out of the vector (`SumsRead`).

## 7. Plan

Done: the shuffle and its proofs, the setup node and its proofs, the aggregation
round with its refinement and proofs, the mask arithmetic and its proofs, the
Paillier library with its refinement and proofs, ECIES with its refinement and proofs,
commitments and contract with their proofs. Open:

1. `Mash`: one client's way through setup, shuffle and aggregation composed, with
   the operator starting processes in any order. The modules meet at `group_info`,
   `seed` and `masked_grad`, each checked on its side.
2. `Sharing`: the secret sharing of `comparison`.
