------------------------------ MODULE Grouping ------------------------------
(***************************************************************************)
(* How the setup node cuts the clients into groups (setup.py,              *)
(* SetupNode.group_clients).  One of the n clients is the total sum        *)
(* holder; the other n - 1, in a random order, are dealt round robin to    *)
(* NumGroups(n) groups.  Only the shape of the result matters to the       *)
(* shuffle: how many groups there are and how long each is.                *)
(***************************************************************************)
EXTENDS Integers

\* int((n - 1) / 3): the setup node uses it to build the groups and the holder,
\* on its own, to know how many group sums to wait for.
NumGroups(n) == (n - 1) \div 3

\* The indexes of the shuffled list dealt to group g, groups counted from 1.
Dealt(n, g) == {idx \in 0 .. n - 2 : idx % NumGroups(n) = g - 1}

\* The length of group g: it is dealt the indexes g - 1, g - 1 + NumGroups(n),
\* ... up to n - 2.
GroupSize(n, g) == (n - 1 - g) \div NumGroups(n) + 1

\* The client counts group_clients accepts: for 2 and 3 it divides by zero.
Groupable(n) == n = 1 \/ n >= 4
=============================================================================
