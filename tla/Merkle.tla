------------------------------- MODULE Merkle -------------------------------
(***************************************************************************)
(* The tree hash and the inclusion proofs of presence checkpoints, as the  *)
(* recursive functions of pkg/merkle, on the length of the list.  Hashes   *)
(* are terms: the prefix keeps leaves and inner nodes apart, and nothing   *)
(* else collides.  The tree over a range of rows grows by one leaf at a    *)
(* time, to see every size.                                                *)
(***************************************************************************)
EXTENDS Naturals, Sequences

CONSTANTS
    Leaf,    \* leaf data
    MaxLeaf  \* bound: leaves of a tree

ASSUME MaxLeafAssumption == MaxLeaf \in Nat

VARIABLE leaves

leafHash(data) == <<"leaf", data>>

nodeHash(left, right) == <<"node", left, right>>

EmptyRoot == <<"empty">>

\* Mutant: the loop stops a round early.
largestPow2Low(n) ==
    LET k[round \in Nat] ==
            IF round = 0 THEN 1
            ELSE LET before == k[round - 1]
                 IN  IF 4 * before <= n THEN 2 * before ELSE before
    IN  k[n]

\* The loop doubles k while that stays below n; it has stopped after n rounds.
largestPow2LessThan(n) ==
    LET k[round \in Nat] ==
            IF round = 0 THEN 1
            ELSE LET before == k[round - 1]
                 IN  IF 2 * before < n THEN 2 * before ELSE before
    IN  k[n]

\* The roots of the lists of n leaves.
rootOf[n \in Nat] ==
    [d \in [1..n -> Leaf] |->
        CASE n = 0 -> EmptyRoot
          [] n = 1 -> leafHash(d[1])
          [] OTHER ->
               LET k == largestPow2LessThan(n)
               IN  nodeHash(rootOf[k][SubSeq(d, 1, k)], rootOf[n - k][SubSeq(d, k + 1, n)])]

Root(d) == rootOf[Len(d)][d]

\* The paths in lists of n leaves.  Indices count from 0, as in the code.
pathOf[n \in Nat] ==
    [x \in (0..(n - 1)) \X [1..n -> Leaf] |->
        IF n = 1 THEN <<>>
        ELSE LET m == x[1]
                 k == largestPow2LessThan(n)
                 left == SubSeq(x[2], 1, k)
                 right == SubSeq(x[2], k + 1, n)
             IN  IF m < k THEN Append(pathOf[k][<<m, left>>], Root(right))
                          ELSE Append(pathOf[n - k][<<m - k, right>>], Root(left))]

path(m, d) == pathOf[Len(d)][<<m, d>>]

\* The root that the first hashes of a proof lead to from place x[1] of a tree of that
\* size, in a set: none where their number x[2] is not what the tree asks for.
upOf(leafH, proof) ==
    LET up[size \in Nat] ==
            [x \in (0..(size - 1)) \X (0..Len(proof)) |->
                IF size = 1 THEN IF x[2] = 0 THEN {leafH} ELSE {}
                ELSE IF x[2] = 0 THEN {}
                ELSE LET m == x[1]
                         sib == proof[x[2]]
                         rest == x[2] - 1
                         k == largestPow2LessThan(size)
                     IN  IF m < k THEN {nodeHash(h, sib) : h \in up[k][<<m, rest>>]}
                         ELSE {nodeHash(sib, h) : h \in up[size - k][<<m - k, rest>>]}]
    IN  up

rootFromProof(leafH, m, n, proof) == upOf(leafH, proof)[n][<<m, Len(proof)>>]

VerifyProof(leaf, m, n, proof, root) ==
    m < n /\ root \in rootFromProof(leafHash(leaf), m, n, proof)

-----------------------------------------------------------------------------
MerkleInit == leaves = <<>>

MerkleNext == Len(leaves) < MaxLeaf /\ \E x \in Leaf : leaves' = Append(leaves, x)

MerkleSpec == MerkleInit /\ [][MerkleNext]_leaves

-----------------------------------------------------------------------------
(* Properties                                                              *)

Index == 0..(Len(leaves) - 1)

\* A proof made for a row verifies for that row at its place (Service.Verify relies on
\* it), and nothing verifies with it at any place but what is there (VerifyProof).
ProofsBind ==
    \A m \in Index :
        LET holds(x, i) == VerifyProof(x, i, Len(leaves), path(m, leaves), Root(leaves))
        IN  /\ holds(leaves[m + 1], m)
            /\ \A x \in Leaf, i \in 0..MaxLeaf : holds(x, i) => i \in Index /\ x = leaves[i + 1]

\* The root stands for the rows: another list of rows has another root, be it shorter,
\* longer (seen from the longer list) or in another order (domain separation of
\* leafHash and nodeHash).
RootBinds ==
    \A n \in 0..Len(leaves) : \A d \in [1..n -> Leaf] : Root(d) = Root(leaves) => d = leaves

\* Reference: hash the rows, then join neighbours level by level; a last node without a
\* neighbour goes up as it is.  There are fewer levels than rows.
join(nodes) ==
    [i \in 1..((Len(nodes) + 1) \div 2) |->
        IF 2 * i <= Len(nodes) THEN nodeHash(nodes[2 * i - 1], nodes[2 * i])
        ELSE nodes[2 * i - 1]]

levelsOf(nodes) ==
    LET level[height \in Nat] == IF height = 0 THEN nodes ELSE join(level[height - 1])
    IN  level

leafHashes(d) == [i \in 1..Len(d) |-> leafHash(d[i])]

\* Splitting at the largest power of two from the top gives the tree that is built
\* pairwise from the bottom (Root, largestPow2LessThan).
RootIsPairwise ==
    leaves # <<>> => levelsOf(leafHashes(leaves))[Len(leaves)] = <<Root(leaves)>>

\* The checkpoint tree can be relied on at every size: proofs that bind a row to its
\* place, a root that stands for its rows and no others, and the tree that an
\* independent verifier would build (Root, Proof, VerifyProof).
TreeIsSound == ProofsBind /\ RootBinds /\ RootIsPairwise
=============================================================================
