------------------------------ MODULE NotePool ------------------------------
(***************************************************************************)
(* What shielded payouts promise: value leaves once for a note, in the     *)
(* note's own asset and denomination, and no more of an asset than was     *)
(* paid in.  That a note was paid for in full is not promised; how a spend *)
(* is authorised, and which note it was, is not said here.                 *)
(***************************************************************************)
EXTENDS Naturals

CONSTANTS Assets, Notes, Buckets

VARIABLES inserted,  \* asset -> the <<note, denomination>> inserted
          spent,     \* asset -> the notes spent
          paidIn,    \* asset -> units paid for notes
          paidOut    \* asset -> units handed to the pool

pool == <<inserted, spent, paidIn, paidOut>>

Init ==
    /\ inserted = [t \in Assets |-> {}]
    /\ spent = [t \in Assets |-> {}]
    /\ paidIn = [t \in Assets |-> 0] /\ paidOut = [t \in Assets |-> 0]

\* A note of denomination b, and the bucket paid for it.
Insert(t, n, b, bucket) ==
    /\ inserted' = [inserted EXCEPT ![t] = @ \cup {<<n, b>>}]
    /\ paidIn' = [paidIn EXCEPT ![t] = @ + bucket]
    /\ UNCHANGED <<spent, paidOut>>

Spend(t, n, b) ==
    /\ <<n, b>> \in inserted[t]
    /\ n \notin spent[t]
    /\ paidOut[t] + b <= paidIn[t]
    /\ spent' = [spent EXCEPT ![t] = @ \cup {n}]
    /\ paidOut' = [paidOut EXCEPT ![t] = @ + b]
    /\ UNCHANGED <<inserted, paidIn>>

Next == \E t \in Assets, n \in Notes, b \in Buckets :
           Spend(t, n, b) \/ \E bucket \in Buckets : Insert(t, n, b, bucket)

Spec == Init /\ [][Next]_pool
=============================================================================
