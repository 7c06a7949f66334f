---------------------------- MODULE TreeWriter ----------------------------
(***************************************************************************)
(* What BTree::insert does with what is inserted, without the tree: one    *)
(* call writes at a time, the others leave their pair in the buffer and    *)
(* return; a batch is put into the tree in memory, the root hash is taken  *)
(* away, the tree is stored, and the root hash leads to all of it again.   *)
(*                                                                         *)
(* BTree.tla is shown to implement this module, and Injector.tla uses its  *)
(* actions for the database it updates.                                    *)
(***************************************************************************)
VARIABLES
    inserting,   \* _is_inserting
    storing,     \* the batch is in the tree and the tree is being stored
    buffer,      \* _insert_buffer
    batch,       \* what is left of `buf`
    memory,      \* what the tree in memory holds
    root         \* what the root hash leads to; {} without a hash

vars == <<inserting, storing, buffer, batch, memory, root>>

\* A slip: an empty tree in place of the one in memory.
Alone(old, new) == new

\* raw_insert adds to what is there.
Joined(old, new) == old \cup new

Init ==
    /\ inserting = FALSE /\ storing = FALSE
    /\ buffer = {} /\ batch = {} /\ memory = {} /\ root = {}

\* insert while somebody else is inserting
Buffered(x) ==
    /\ inserting
    /\ buffer' = buffer \cup {x}
    /\ UNCHANGED <<inserting, storing, batch, memory, root>>

\* insert that finds nobody inserting takes the buffer, with what an insert that
\* failed has left there.
Starts(x) ==
    /\ ~inserting
    /\ inserting' = TRUE
    /\ batch' = buffer \cup {x}
    /\ buffer' = {}
    /\ UNCHANGED <<storing, memory, root>>

\* Some raw_inserts of the batch
Absorbs(S) ==
    /\ inserting /\ ~storing
    /\ batch' = batch \ S
    /\ memory' = Joined(memory, S)
    /\ UNCHANGED <<inserting, storing, buffer, root>>

\* The last of them; try_remove empties _root->hash and store begins.
Flushes ==
    /\ inserting /\ ~storing
    /\ memory' = Joined(memory, batch)
    /\ batch' = {}
    /\ root' = {}
    /\ storing' = TRUE
    /\ UNCHANGED <<inserting, buffer>>

\* A slip: what was buffered meanwhile is left where it is.
OneBatch == FALSE

\* while (!_insert_buffer.empty())
AnotherBatch == buffer # {}

\* The root hash leads to the whole tree; another batch follows if the buffer
\* has one.
Stores ==
    /\ storing
    /\ storing' = FALSE
    /\ root' = memory
    /\ inserting' = AnotherBatch
    /\ IF AnotherBatch
       THEN batch' = buffer /\ buffer' = {}
       ELSE UNCHANGED <<batch, buffer>>
    /\ UNCHANGED memory

\* A storage operation failed: the tree in memory and the buffer stay as they
\* are, and there is no root hash.
Fails ==
    /\ storing
    /\ storing' = FALSE
    /\ inserting' = FALSE
    /\ UNCHANGED <<buffer, batch, memory, root>>

Next(Items) ==
    \/ \E x \in Items : Buffered(x) \/ Starts(x)
    \/ \E S \in SUBSET batch : Absorbs(S)
    \/ Flushes \/ Stores \/ Fails
==========================================================================
