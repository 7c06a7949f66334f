----------------------------- MODULE ClientDb -----------------------------
(***************************************************************************)
(* The ClientDb of src/src/db.cpp inside a Client: the database id that an *)
(* IPNS name leads to is resolved every five seconds, loaded into the tree *)
(* and saved in a file per name; callers find keys meanwhile or wait for   *)
(* an update, change the name, and the program is stopped and started.     *)
(* The n-th call of wait_for_db_update is waiter n.                        *)
(***************************************************************************)
EXTENDS BTreeLookup

CONSTANTS
    Names,     \* IPNS names
    RootsOf,   \* the ids each name may lead to
    NoId       \* the empty string

ASSUME RootsAssumption ==
    /\ NoId \notin DOMAIN Text
    /\ RootsOf \in [Names -> SUBSET DOMAIN Text]

VARIABLES
    ipns,      \* _ipns
    ipfs,      \* _ipfs
    file,      \* what the file of each name holds
    phase,     \* where continuously_download_db is
    waiting,   \* _on_db_update_callbacks: each waiter, and whether the name
               \* was resolved since its call
    posted,    \* the callbacks the io_service is to run, and with what
    waits,     \* how many times wait_for_db_update was called
    told       \* the callbacks that were called

vars == <<lookup, ipns, ipfs, file, phase, waiting, posted, waits, told>>

\* A slip: those who wait are forgotten.
Forgotten(result) == waiting' = <<>> /\ posted' = posted

\* flush_db_update_callbacks
Flushed(result) ==
    /\ posted' = posted \o [i \in 1..Len(waiting) |->
          [waiter |-> waiting[i].waiter, resolved |-> waiting[i].resolved, result |-> result]]
    /\ waiting' = <<>>

\* What the destructor tells waiters and finds, each after a slip
AsSuccess == "ok"
AsAborted == "aborted"

GoesOn(find) == find
Ended(find) ==
    IF find.pc = "fetching" THEN [AtRest EXCEPT !.pc = "error"] ELSE find

\* The constructor; the coroutine that reads the file is only spawned.
StartWith(name) ==
    /\ ipns' = name /\ ipfs' = NoId
    /\ phase' = "starting"
    /\ roots' = <<>> /\ current' = NoRoot

Init ==
    /\ ipns \in Names /\ ipfs = NoId /\ file = [n \in Names |-> NoId]
    /\ phase = "starting"
    /\ waiting = <<>> /\ posted = <<>> /\ waits = 0 /\ told = {}
    /\ LookupInit

\* load_db: a file that holds no id leaves the tree as it is.
LoadDb ==
    /\ Quiet /\ phase = "starting"
    /\ IF file[ipns] = NoId THEN UNCHANGED <<roots, current>> ELSE Load(file[ipns])
    /\ phase' = "resolving"
    /\ UNCHANGED <<finder, ipns, ipfs, file, waiting, posted, waits, told>>

\* continuously_download_db.  resolve has an id: it is loaded, which changes
\* nothing if the tree has that hash already, and save_db has opened the file,
\* which empties it.
Resolved(id) ==
    /\ Quiet /\ phase = "resolving"
    /\ ipfs' = id
    /\ Load(id)
    /\ waiting' = [i \in DOMAIN waiting |-> [waiting[i] EXCEPT !.resolved = TRUE]]
    /\ file' = [file EXCEPT ![ipns] = NoId]
    /\ phase' = "saving"
    /\ UNCHANGED <<finder, ipns, posted, waits, told>>

\* save_db has written the id; whoever waits is told.
Saved ==
    /\ phase = "saving"
    /\ file' = [file EXCEPT ![ipns] = ipfs]
    /\ Flushed("ok")
    /\ phase' = "sleeping"
    /\ UNCHANGED <<lookup, ipns, ipfs, waits, told>>

\* resolve failed: save_db writes the empty id over what the file had.
ResolveFailed ==
    /\ Quiet /\ phase = "resolving"
    /\ file' = [file EXCEPT ![ipns] = NoId]
    /\ phase' = "sleeping"
    /\ UNCHANGED <<lookup, ipns, ipfs, waiting, posted, waits, told>>

\* _download_timer
Wake ==
    /\ Quiet /\ phase = "sleeping"
    /\ phase' = "resolving"
    /\ UNCHANGED <<lookup, ipns, ipfs, file, waiting, posted, waits, told>>

\* ClientDb::wait_for_db_update
WaitForDbUpdate ==
    /\ Quiet /\ phase # "saving"
    /\ waits' = waits + 1
    /\ waiting' = Append(waiting, [waiter |-> waits', resolved |-> FALSE])
    /\ UNCHANGED <<lookup, ipns, ipfs, file, phase, posted, told>>

\* the io_service calls the first of them
RunPosted ==
    /\ Quiet /\ phase # "saving" /\ posted # <<>>
    /\ told' = told \cup {Head(posted)}
    /\ posted' = Tail(posted)
    /\ UNCHANGED <<lookup, ipns, ipfs, file, phase, waiting, waits>>

\* Client::set_ipns: a new ClientDb; the old one's finds and waits are aborted
\* and its download loop ends when it is next resumed.
SetIpns(name) ==
    /\ Quiet /\ phase # "saving"
    /\ StartWith(name)
    /\ finder' = [f \in Finders |-> Ended(finder[f])]
    /\ Flushed(AsAborted)
    /\ UNCHANGED <<file, waits, told>>

\* The program is killed and started again with a name; only the files stay.
Restart(name) ==
    /\ StartWith(name)
    /\ finder' = [f \in Finders |-> AtRest]
    /\ waiting' = <<>> /\ posted' = <<>> /\ waits' = 0 /\ told' = {}
    /\ UNCHANGED file

Lookup(f) ==
    /\ phase # "saving" /\ FindStep(f)
    /\ UNCHANGED <<ipns, ipfs, file, phase, waiting, posted, waits, told>>

\* get_content, which begins with ClientDb::query
GetContent(f, k) ==
    /\ phase # "saving" /\ Find(f, k)
    /\ UNCHANGED <<ipns, ipfs, file, phase, waiting, posted, waits, told>>

\* get_content has the id of the content and waits for the backend's cat, which
\* a change of the name leaves alone; then it returns to its caller.
Content(f, result) ==
    /\ Quiet /\ phase # "saving" /\ finder[f].pc = "found"
    /\ Answered(f, result, NoValue)
    /\ UNCHANGED <<roots, current, ipns, ipfs, file, phase, waiting, posted, waits, told>>

Get(f) == Lookup(f) \/ \E result \in {"rest", "error"} : Content(f, result)

Next ==
    \/ \E id \in RootsOf[ipns] : Resolved(id)
    \/ LoadDb \/ Saved \/ ResolveFailed \/ Wake \/ WaitForDbUpdate \/ RunPosted
    \/ \E f \in Finders : Get(f)
    \/ \E name \in Names : SetIpns(name) \/ Restart(name)
    \/ \E f \in Finders, k \in Keys : GetContent(f, k)

Spec == Init /\ [][Next]_vars

--------------------------------------------------------------------------
Told == [waiter : 1..waits, resolved : BOOLEAN, result : {"ok", "aborted"}]
At == [pc : {"rest", "walking", "fetching", "found", "not_found", "error"}, key : Ids,
       root : Nat, slot : Hashes \cup {NoHash}, answer : Values \cup {NoValue}]

TypeOK ==
    /\ ipns \in Names /\ ipfs \in DOMAIN Text \cup {NoId}
    /\ file \in [Names -> DOMAIN Text \cup {NoId}]
    /\ phase \in {"starting", "resolving", "saving", "sleeping"}
    /\ roots \in Seq([hash : Hashes, nodes : UNION {[S -> BOOLEAN] : S \in SUBSET Hashes}])
    /\ current \in 0..Len(roots)
    /\ waits \in Nat
    /\ waiting \in Seq([waiter : 1..waits, resolved : BOOLEAN])
    /\ posted \in Seq(Told) /\ told \subseteq Told
    /\ finder \in [Finders -> At]
    /\ \A f \in Finders : finder[f].pc \in {"walking", "fetching"} =>
        finder[f].root \in 1..Len(roots) /\ finder[f].slot \in Hashes

\* wait_for_db_update succeeds only after the name was resolved since the call,
\* and waiters are told while the tree is the database it was resolved to.  The
\* database need not be new: the answer also comes when the name leads where it
\* did, and load returned at once (btree.cpp 607, db.cpp 225).
OkMeansResolved ==
    /\ \A p \in told \cup {posted[i] : i \in 1..Len(posted)} :
        p.result = "ok" => p.resolved
    /\ phase = "saving" => current # NoRoot /\ roots[current].hash = ipfs

\* Every call of wait_for_db_update is in one place: waiting, posted or told.
\* set_ipns and the destructor lose none and tell none twice.  It may wait for
\* ever when no resolve succeeds.
EachWaiterOnce ==
    \A n \in 1..waits :
        1 = Cardinality({i \in 1..Len(waiting) : waiting[i].waiter = n})
          + Cardinality({i \in 1..Len(posted) : posted[i].waiter = n})
          + Cardinality({p \in told : p.waiter = n})

AnswersNow(f, pc) == finder[f].pc = "walking" /\ finder'[f].pc = pc

\* A find that the loading of another database overtakes answers from the
\* database it began with: never one half from each (btree.cpp 539-541).
FoundIsStored ==
    [][\A f \in Finders : AnswersNow(f, "found") =>
        <<finder[f].key, finder'[f].answer>> \in Contents(roots[finder[f].root].hash)]_vars

\* A key of the database is only denied when there is a node in the tree that
\* another find is still fetching, or failed to fetch (btree.cpp 508-518).  Any
\* such node excuses the answer, also one that is not on the way to the key.
DeniedOnlyUnrestored ==
    [][\A f \in Finders : AnswersNow(f, "not_found") =>
        LET root == roots[finder[f].root]
        IN  Held(finder[f].key, root.hash) => \E h \in DOMAIN root.nodes : ~root.nodes[h]]_vars
==========================================================================
