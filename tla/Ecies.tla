-------------------------------- MODULE Ecies -------------------------------
(***************************************************************************)
(* A Message of ECIES.py on its way: clients encrypt it for each other and *)
(* decrypt it.  A layer is AES under a key that both sides compute as the  *)
(* abscissa of a curve point; AES itself is external, a text being told by *)
(* the keys it is encrypted under.                                         *)
(***************************************************************************)
EXTENDS Curve, SequencesExt

CONSTANTS
  Clients,
  PrivateKeys, \* what make_keypair may draw
  Randoms,     \* what encrypt may draw: 0 .. 2 ^ 128 in the code, below the order
  MaxLayers    \* bound

\* The generator has order n.
ASSUME CurveAssumption ==
  /\ curve.p \in Nat /\ Prime(curve.p) /\ curve.n \in Nat /\ Prime(curve.n) /\ Odd(curve.n)
  /\ curve.g \in Points \ {None}
  /\ \A k \in 1 .. curve.n - 1 : ScalarMult(k, curve.g) # None
  /\ PointAdd(ScalarMult(curve.n - 1, curve.g), curve.g) = None

\* The group law, according to which point_add is said to add.
ASSUME GroupAssumption ==
  \A p1, p2, p3 \in Points :
    /\ PointAdd(p1, p2) \in Points
    /\ PointAdd(PointAdd(p1, p2), p3) = PointAdd(p1, PointAdd(p2, p3))

ASSUME RandomAssumption ==
  PrivateKeys \subseteq 1 .. curve.n - 1 /\ Randoms \subseteq 0 .. curve.n - 1

VARIABLES
  dA,      \* the private keys
  R,       \* of the message: a point for each layer
  text,    \* [form, pads, keys, garbled]: str or bytes, how often it was padded,
           \* the keys it is encrypted under, and if one was taken off that was not on
  layers,  \* the owners of the keys
  by,      \* who took off the last layer
  raised   \* has encrypt or decrypt raised

vars == <<dA, R, text, layers, by, raised>>

\* Keys are random and long: no two are equal up to the sign of the point.
Init ==
  /\ dA \in [Clients -> PrivateKeys]
  /\ \A c, d \in Clients : c # d => dA[c] \notin {dA[d], curve.n - dA[d]}
  /\ R = << >> /\ layers = << >> /\ raised = FALSE
  /\ by \in Clients
  /\ text = [form |-> "str", pads |-> 0, keys |-> << >>, garbled |-> FALSE]

\* The hash of str(S[0]), in one to one correspondence with S[0].
SharedKey(S) == S[1]

\* Mutant of Exchanged: the secret point is sent along.
ExchangedSecret(c, r) ==
  [S |-> ScalarMult(r, PublicKey(dA[c])), rG |-> ScalarMult(r, PublicKey(dA[c]))]

Exchanged(c, r) ==
  [S |-> ScalarMult(r, PublicKey(dA[c])), rG |-> ScalarMult(r, curve.g)]

\* Mutant of Padded: bytes are padded, too.
PaddedAlways(t) == [t EXCEPT !.pads = @ + 1]

Padded(t) == IF t.form = "str" THEN [t EXCEPT !.pads = @ + 1] ELSE t

\* encrypt: S[0] raises for the point at infinity.
Encrypt(c, r) ==
  /\ ~raised /\ Len(layers) < MaxLayers
  /\ LET x == Exchanged(c, r)
     IN  \/ /\ x.S = None
            /\ raised' = TRUE /\ UNCHANGED <<R, text, layers>>
         \/ /\ x.S # None
            /\ text' = [Padded(text) EXCEPT !.form = "bytes",
                                            !.keys = Append(@, SharedKey(x.S))]
            /\ R' = Append(R, x.rG)
            /\ layers' = Append(layers, c)
            /\ UNCHANGED raised
  /\ UNCHANGED <<dA, by>>

\* Mutant of Outermost: the first point.
Innermost(points) == Head(points)

Outermost(points) == Last(points)

\* decrypt: R[-1] raises when there is no layer.
Decrypt(c) ==
  /\ ~raised
  /\ \/ /\ R = << >>
        /\ raised' = TRUE /\ UNCHANGED <<R, text, layers, by>>
     \/ /\ R # << >>
        /\ LET S == ScalarMult(dA[c], Outermost(R))
           IN  text' = [text EXCEPT !.form = "bytes", !.keys = Front(@),
                                    !.garbled = @ \/ SharedKey(S) # Last(text.keys)]
        /\ R' = Front(R) /\ layers' = Front(layers) /\ by' = c
        /\ UNCHANGED raised
  /\ UNCHANGED dA

Next == \E c \in Clients : Decrypt(c) \/ \E r \in Randoms : Encrypt(c, r)

Spec == Init /\ [][Next]_vars

-----------------------------------------------------------------------------
TypeOK ==
  /\ dA \in [Clients -> PrivateKeys]
  /\ R \in Seq(Points \ {None})
  /\ text.keys \in Seq(0 .. curve.p - 1) /\ Len(text.keys) = Len(R)
  /\ text.pads \in 0 .. 1
  /\ layers \in Seq(Clients) /\ by \in Clients /\ raised \in BOOLEAN

O == INSTANCE Onion WITH intact <- ~text.garbled

(* Who takes off the outermost layer gets the text back if and only if it    *)
(* was put on with that client's public key, whatever the random numbers:    *)
(* both sides compute the same key, and no other client does.                *)
Implements == O!Spec

(* Every layer of a message can be taken off again: its point is never at    *)
(* infinity (encrypt raises before that), both ways to compute its key       *)
(* agree, and the text was padded once, by the first layer.                  *)
LayersCanComeOff ==
  /\ Len(R) = Len(layers)
  /\ \A i \in DOMAIN R :
       LET S == ScalarMult(dA[layers[i]], R[i])
       IN  R[i] # None /\ S # None /\ SharedKey(S) = text.keys[i]
  /\ text.pads = (IF text.form = "bytes" THEN 1 ELSE 0)
=============================================================================
