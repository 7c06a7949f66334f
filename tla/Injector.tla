----------------------------- MODULE Injector -----------------------------
(***************************************************************************)
(* src/src/injector.cpp and the InjectorDb of src/src/db.cpp: a request is *)
(* queued, its content is added to IPFS, its id is put into the database   *)
(* and the database is saved and published.  The n-th call of              *)
(* insert_content is request n and inserts a key of its own.               *)
(*                                                                         *)
(* BTree::insert appears here as the module TreeWriter, which BTree.tla is *)
(* shown to implement; a root is the set of the requests that are in it,   *)
(* {} the empty hash.  The republisher is the module Republisher: its m-th *)
(* publish is uploads[m].                                                  *)
(***************************************************************************)
EXTENDS Naturals, Sequences, FiniteSets

CONSTANTS
    Concurrency,   \* Injector::_concurrency
    MaxNodeSize    \* BTREE_NODE_SIZE

ASSUME ConcurrencyAssumption == Concurrency \in Nat \ {0}
ASSUME MaxNodeSizeAssumption == MaxNodeSize \in Nat \ {0}

VARIABLES
    asked,        \* how many times insert_content was called
    insertQueue,  \* _insert_queue
    jobCount,     \* _job_count
    adding,       \* requests whose content Backend::add is adding
    spawned,      \* requests whose coroutine was spawned and has not run
    writer,       \* the request whose update runs BTree::insert, or None
    storing,      \* whether it has begun to store the tree
    buffer,       \* _insert_buffer
    batch,        \* `buf` in BTree::insert
    memory,       \* what the tree in memory holds
    root,         \* root_hash()
    file,         \* what save_db wrote last
    uploads,      \* the calls of Republisher::publish, in order
    published,    \* the root that the IPNS name leads to
    answers,      \* the callbacks that were called, and with what
    dropped,      \* the callbacks that died with the injector or a coroutine
    thrown,       \* whether an exception has left io_service::run
    storeFailed   \* whether a store has failed

VARIABLES requested, toPublish, callbacks, isPublishing, armed, fired,
          inflight, round, destroyed, posted, told, crashed

None == 0

Rep  == INSTANCE Republisher
Tree == INSTANCE TreeWriter WITH inserting <- writer # None

jobs   == <<insertQueue, jobCount, adding>>
dbTree == <<writer, storing, buffer, batch, memory, root, storeFailed>>
db     == <<file, uploads, published>>
own    == <<asked, jobs, spawned, dbTree, db, answers, dropped, thrown>>
republisher == <<requested, toPublish, callbacks, isPublishing, armed, fired,
            inflight, round, destroyed, posted, told, crashed>>
vars   == <<own, republisher>>

Init ==
    /\ asked = 0 /\ insertQueue = <<>> /\ jobCount = 0 /\ adding = {} /\ spawned = {}
    /\ writer = None /\ storing = FALSE /\ buffer = {} /\ batch = {} /\ memory = {}
    /\ root = {} /\ file = {} /\ uploads = <<>> /\ published = {}
    /\ answers = {} /\ dropped = {} /\ thrown = FALSE /\ storeFailed = FALSE
    /\ Rep!Init

\* The io_service is between two handlers of a living injector.
Quiet == round = Rep!Idle /\ ~crashed
Alive == Quiet /\ ~destroyed

Answer(n, result) == answers' = answers \cup {[request |-> n, result |-> result]}

\* The republisher calls back the m-th upload; its timer's entry is nobody's.
CallBack(m, result) ==
    IF m = Rep!NoCallback THEN answers' = answers ELSE Answer(uploads[m].request, result)

--------------------------------------------------------------------------
\* Conditions and counts of Injector, each after a slip that forgets it
Uncounted(count) == count
Counted(count) == count + 1

OneMore == jobCount > Concurrency
Busy == jobCount >= Concurrency

\* A failed add whose `return` is missing goes on with the update.
SpawnedAnyway(n, result) == {n}
Spawned(n, result) == IF result = "ok" THEN {n} ELSE {}

\* Injector::insert_content_from_queue, with `count` jobs under way
StartJob(queue, count, running) ==
    IF queue = <<>>
    THEN insertQueue' = <<>> /\ jobCount' = count /\ adding' = running
    ELSE /\ insertQueue' = Tail(queue)
         /\ jobCount' = Counted(count)
         /\ adding' = running \cup {Head(queue)}

\* A slip: nobody looks at the queue when a job is done.
JobDone(n) ==
    jobCount' = jobCount - 1 /\ adding' = adding \ {n} /\ insertQueue' = insertQueue

NextJob(n) == StartJob(insertQueue, jobCount - 1, adding \ {n})

\* Injector::insert_content
InsertContent ==
    /\ Rep!MayCall
    /\ asked' = asked + 1
    /\ IF Busy
       THEN insertQueue' = Append(insertQueue, asked') /\ UNCHANGED <<jobCount, adding>>
       ELSE StartJob(Append(insertQueue, asked'), jobCount, adding)
    /\ UNCHANGED <<spawned, dbTree, db, answers, dropped, thrown, republisher>>

\* The handler of Backend::add: the next job is started, then the callback
\* hears of an error or a coroutine goes on with the update.
Added(n, result) ==
    /\ Alive /\ n \in adding
    /\ NextJob(n)
    /\ spawned' = spawned \cup Spawned(n, result)
    /\ IF result = "ok" THEN answers' = answers ELSE Answer(n, result)
    /\ UNCHANGED <<asked, dbTree, db, dropped, thrown, republisher>>

--------------------------------------------------------------------------
\* InjectorDb::update, and BTree::insert within it

\* InjectorDb::upload_database as the end of the update of n: with no root hash
\* it is a success; else the hash is saved and handed to the republisher.
Upload(n, hash) ==
    IF hash = {}
    THEN Answer(n, "ok") /\ UNCHANGED <<db, republisher>>
    ELSE /\ file' = hash
         /\ uploads' = Append(uploads, [request |-> n, root |-> hash])
         /\ Rep!Publish
         /\ UNCHANGED <<answers, published>>

\* While another one is in BTree::insert the pair is left in the buffer and the
\* root is uploaded as it is.
UpdateBuffered(n) ==
    /\ Alive /\ n \in spawned
    /\ writer' = writer /\ Tree!Buffered(n)
    /\ spawned' = spawned \ {n}
    /\ Upload(n, root)
    /\ UNCHANGED <<asked, jobs, dropped, thrown, storeFailed>>

UpdateStarts(n) ==
    /\ Alive /\ n \in spawned
    /\ writer' = n /\ Tree!Starts(n)
    /\ spawned' = spawned \ {n}
    /\ UNCHANGED <<asked, jobs, dropped, thrown, storeFailed, db, answers, republisher>>

\* The last raw_insert of the batch returns and the tree is being stored.
BatchInserted ==
    /\ Alive
    /\ writer' = writer /\ Tree!Flushes
    /\ UNCHANGED <<asked, jobs, spawned, dropped, thrown, storeFailed, db, answers,
                   republisher>>

\* The store is done: another batch if the buffer has one, else the update goes
\* on with the upload.
Stored ==
    /\ Alive
    /\ writer' = (IF Tree!AnotherBatch THEN writer ELSE None) /\ Tree!Stores
    /\ IF Tree!AnotherBatch
       THEN UNCHANGED <<db, answers, republisher>>
       ELSE Upload(writer, root')
    /\ UNCHANGED <<asked, jobs, spawned, dropped, thrown, storeFailed>>

\* The requests' keys are distinct, so the root has children once they do not
\* fit into one node, and a store then begins with one of them.
HasChildren == Cardinality(memory) > MaxNodeSize

\* How a store that fails ends: the error of the root's own add is the answer.
\* That of a child is returned as a Json, whose conversion to the Hash that
\* Node::store returns throws; nobody catches it below io_service::run, and the
\* callback dies with the coroutine.
StoreError ==
    \/ Answer(writer, "error") /\ UNCHANGED <<dropped, thrown>>
    \/ /\ storing /\ HasChildren
       /\ thrown' = TRUE
       /\ dropped' = dropped \cup {writer}
       /\ UNCHANGED answers

\* add or pin failed.
StoreFailed ==
    /\ Alive
    /\ writer' = None /\ Tree!Fails
    /\ storeFailed' = TRUE
    /\ StoreError
    /\ UNCHANGED <<asked, jobs, spawned, db, republisher>>

--------------------------------------------------------------------------
\* The republisher, and the end of it all

\* It calls the callback of one of the updates.
Deliver ==
    /\ Rep!Deliver
    /\ CallBack(Head(callbacks), round.result)
    /\ UNCHANGED <<asked, jobs, spawned, dbTree, db, dropped, thrown>>

\* What the IPNS name leads to when IPFS has answered; a publication that failed
\* may have had its effect.
PublishedAfter(result, database) ==
    published' \in {database} \cup (IF result = "ok" THEN {} ELSE {published})

\* The answer to a publication
PublishDone(result) ==
    /\ Rep!Completed(result)
    /\ PublishedAfter(result, uploads[Head(inflight).id].root)
    /\ UNCHANGED <<asked, jobs, spawned, dbTree, file, uploads, answers, dropped, thrown>>

\* The republisher's own steps
Republish ==
    /\ Rep!TimerExpires \/ Rep!TimerHandler \/ Rep!FinishRound \/ Rep!AbandonRound
    /\ UNCHANGED own

\* ~Injector: queued requests and those being added are never heard of again,
\* InjectorDb and its republisher go with it.
Destroy ==
    /\ Rep!Destroy
    /\ dropped' = {insertQueue[i] : i \in 1..Len(insertQueue)} \cup adding \cup spawned
    /\ insertQueue' = <<>> /\ jobCount' = 0 /\ adding' = {} /\ spawned' = {}
    /\ UNCHANGED <<asked, dbTree, db, answers, thrown>>

\* After it the backend answers what the update in BTree::insert waits for with
\* an error, and the republisher's posted callbacks answer those that were
\* uploading.
WriterAborted ==
    /\ Quiet /\ destroyed /\ writer # None
    /\ writer' = None
    /\ StoreError
    /\ UNCHANGED <<asked, jobs, spawned, storing, buffer, batch, memory, root,
                   storeFailed, db, republisher>>

UploadAborted ==
    /\ Rep!RunPosted
    /\ CallBack(Head(posted), "error")
    /\ UNCHANGED <<asked, jobs, spawned, dbTree, db, dropped, thrown>>

Work(n) ==
    \/ \E result \in Rep!Results : Added(n, result)
    \/ UpdateBuffered(n) \/ UpdateStarts(n)

Write == BatchInserted \/ Stored \/ StoreFailed \/ WriterAborted

Notify == Deliver \/ UploadAborted \/ \E result \in Rep!Results : PublishDone(result)

\* With an exception out of io_service::run the program is over: the library has
\* no handler for it, and example/injector.cpp runs the io_service no further.
Next ==
    /\ ~thrown
    /\ \/ InsertContent \/ Destroy \/ Republish \/ Write \/ Notify
       \/ \E n \in 1..asked : Work(n)

Spec == Init /\ [][Next]_vars

--------------------------------------------------------------------------
Requests == 1..asked

TypeOK ==
    /\ asked \in Nat /\ jobCount \in Nat /\ insertQueue \in Seq(Requests)
    /\ writer \in Requests \cup {None} /\ {storing, storeFailed, thrown} \subseteq BOOLEAN
    /\ \A s \in {adding, spawned, buffer, batch, memory, root, file, published, dropped} :
        s \subseteq Requests
    /\ uploads \in Seq([request : Requests, root : SUBSET Requests])
    /\ answers \subseteq [request : Requests, result : Rep!Results]

\* _job_count counts the adds under way; there are never more than
\* _concurrency, and never fewer while somebody is queued.
JobsBounded ==
    /\ jobCount = Cardinality(adding)
    /\ jobCount <= Concurrency
    /\ insertQueue # <<>> => jobCount = Concurrency

Uploading == {uploads[m].request : m \in
    {Rep!Waiting[i] : i \in 1..Len(Rep!Waiting)} \ {Rep!NoCallback}}

Holders(n) ==
    {<<"queue", i>> : i \in {j \in 1..Len(insertQueue) : insertQueue[j] = n}}
    \cup {<<"answer", a.result>> : a \in {b \in answers : b.request = n}}
    \cup {<<p[1]>> : p \in {q \in {<<"adding", adding>>, <<"spawned", spawned>>,
                                   <<"writer", {writer}>>, <<"uploading", Uploading>>,
                                   <<"dropped", dropped>>} : n \in q[2]}}

\* The callback of every request is in one place only, from the queue over the
\* coroutines and the republisher to its call: nothing is answered twice, and
\* what is lost is what had not reached the database when the destructor ran, or
\* the one request whose store of a child failed.
EachRequestOnce ==
    /\ \A n \in Requests : Cardinality(Holders(n)) = 1
    /\ ~destroyed => Cardinality(dropped) = (IF thrown THEN 1 ELSE 0)

\* The saved root and the published one never lose a request they had, although
\* updates save and publish whatever root they find and publications are
\* answered late.
NeverGoesBack == [][file \subseteq file' /\ published \subseteq published']_vars
==========================================================================
