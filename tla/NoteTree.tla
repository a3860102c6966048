------------------------------ MODULE NoteTree ------------------------------
(***************************************************************************)
(* The note tree of FareVault: an append-only Merkle tree of NOTE_DEPTH    *)
(* levels kept as one hash per level, and a ring of its last ROOT_HISTORY  *)
(* roots; and the tree web/src/shieldnote.ts rebuilds from the vault's     *)
(* events, against which a payee proves a note.                            *)
(*                                                                         *)
(* Poseidon is the pair it hashes: distinct inputs, distinct hashes.       *)
(***************************************************************************)
EXTENDS Naturals, Sequences

CONSTANTS NOTE_DEPTH, ROOT_HISTORY,
          Zero    \* the field element 0: an empty leaf, or no root at all

ASSUME TreeAssumption == NOTE_DEPTH \in Nat \ {0} /\ ROOT_HISTORY \in Nat \ {0}

Levels == 0..(NOTE_DEPTH - 1)
Slots == 0..(ROOT_HISTORY - 1)

Hash(left, right) == <<left, right>>

noteZeros[i \in 0..NOTE_DEPTH] ==
    IF i = 0 THEN Zero ELSE Hash(noteZeros[i - 1], noteZeros[i - 1])

emptyNoteRoot == noteZeros[NOTE_DEPTH]

\* Storage before anything is written.
BlankTree == [roots |-> [s \in Slots |-> Zero],
              filledSubtrees |-> [i \in Levels |-> Zero],
              rootIndex |-> 0, nextIndex |-> 0, warmed |-> FALSE]

\* Mutant: a tree is warmed again whenever its ladder is set.
WarmTree_Again(tree) ==
    [tree EXCEPT !.filledSubtrees = [i \in Levels |-> noteZeros[i]],
                 !.roots[0] = emptyNoteRoot, !.warmed = TRUE]

\* _warmTree: once, before the first insert.
WarmTree(tree) ==
    IF tree.warmed THEN tree
    ELSE [tree EXCEPT !.filledSubtrees = [i \in Levels |-> noteZeros[i]],
                      !.roots[0] = emptyNoteRoot, !.warmed = TRUE]

\* The index, at each level, of the node above leaf `index`.
Above(index) ==
    LET idx[i \in 0..NOTE_DEPTH] == IF i = 0 THEN index ELSE idx[i - 1] \div 2
    IN idx

\* Is the node above leaf `index` at level i a left child?
IsLeft(index, i) == Above(index)[i] % 2 = 0

\* The hashes up the spine of the next leaf, level by level.
Spine(tree, leaf) ==
    LET node[i \in 0..NOTE_DEPTH] ==
          IF i = 0 THEN leaf
          ELSE IF IsLeft(tree.nextIndex, i - 1)
               THEN Hash(node[i - 1], noteZeros[i - 1])
               ELSE Hash(tree.filledSubtrees[i - 1], node[i - 1])
    IN node

TreeFull(tree) == tree.nextIndex >= 2^NOTE_DEPTH

\* Mutant: right children are cached too.
InsertLeaf_CacheAll(tree, leaf) ==
    LET slot == (tree.rootIndex + 1) % ROOT_HISTORY IN
    [tree EXCEPT
        !.filledSubtrees = [i \in Levels |-> Spine(tree, leaf)[i]],
        !.rootIndex = slot,
        !.roots[slot] = Spine(tree, leaf)[NOTE_DEPTH],
        !.nextIndex = @ + 1]

\* _insertLeaf: hash up the spine, cache the left siblings, push the root.
InsertLeaf(tree, leaf) ==
    LET spine == Spine(tree, leaf)
        slot == (tree.rootIndex + 1) % ROOT_HISTORY
    IN [tree EXCEPT
          !.filledSubtrees = [i \in Levels |->
              IF IsLeft(tree.nextIndex, i) THEN spine[i] ELSE @[i]],
          !.rootIndex = slot,
          !.roots[slot] = spine[NOTE_DEPTH],
          !.nextIndex = @ + 1]

\* Mutant: only the current root is accepted.
IsKnownNoteRoot_Current(tree, root) ==
    root = IF tree.nextIndex = 0 THEN emptyNoteRoot ELSE tree.roots[tree.rootIndex]

\* isKnownNoteRootFor: the scan starts at rootIndex and visits every slot.
IsKnownNoteRoot(tree, root) ==
    /\ root # Zero
    /\ IF tree.nextIndex = 0 THEN root = emptyNoteRoot
       ELSE \E s \in Slots : tree.roots[s] = root

-----------------------------------------------------------------------------
(* The client's tree: a full Merkle tree over the leaves, zero-padded.     *)

MerkleRoot(leaves) ==
    LET node[level \in 0..NOTE_DEPTH] ==
          [index \in Nat |->
              IF index * 2^level >= Len(leaves) THEN noteZeros[level]
              ELSE IF level = 0 THEN leaves[index + 1]
              ELSE Hash(node[level - 1][2 * index], node[level - 1][2 * index + 1])]
    IN node[NOTE_DEPTH][0]
=============================================================================
