------------------------------- MODULE AiwDocs -------------------------------
(***************************************************************************)
(* Context packs (context.go) and knowledge items (knowledge.go) of        *)
(* internal/aiworkspace.  Each store keeps a blob per item and an index    *)
(* with what is known of it, and holds its mutex while it writes both; a   *)
(* pack is assembled from its sources before the mutex is taken.           *)
(*                                                                         *)
(* nextID repeats every millisecond, so a new item may be given the ID of  *)
(* one that exists.  The two stores have the same shape and no common      *)
(* state; an item here belongs to either.                                  *)
(***************************************************************************)
EXTENDS Naturals, Sequences, FiniteSets

LOCAL INSTANCE SequencesExt

CONSTANTS
    Requests,       \* requests served at the same time
    Packs, Notes,   \* IDs of context packs and of knowledge items
    Sources,        \* files a pack may be built from, alone or as a folder
    Size,           \* their sizes
    MaxTotal,       \* maxTotalBytes
    None,
    MaxEdits,       \* bound on changes of a source
    MaxOps,         \* bound on commands
    MaxFaults       \* bound on crashes

VARIABLES
    rev,        \* the sources' contents; None for one that does not exist
    index,      \* index.json of both stores: what the entry says of the content
    pinned,     \* ContextPack.Pinned
    blob,       \* the content
    req,        \* what each request is at
    ops, faults,
    cut         \* history: items a crash caught between the blob and the index

vars == <<rev, index, pinned, blob, req, ops, faults, cut>>

Ids == Packs \cup Notes

TypeOK ==
    /\ rev \in [Sources -> 0..MaxEdits \cup {None}]
    /\ DOMAIN index = Ids /\ DOMAIN blob = Ids /\ DOMAIN req = Requests
    /\ pinned \subseteq Packs /\ cut \subseteq Ids

Idle == [pc |-> "idle"]

Init ==
    /\ rev \in [Sources -> {0, None}]
    /\ index = [i \in Ids |-> None] /\ blob = [i \in Ids |-> None] /\ pinned = {}
    /\ req = [t \in Requests |-> Idle] /\ ops = 0 /\ faults = 0 /\ cut = {}

At(t, pc) == req[t].pc = pc
Goes(t, r) == req' = [req EXCEPT ![t] = r]
Begin(t) == At(t, "idle") /\ ops < MaxOps /\ ops' = ops + 1

-----------------------------------------------------------------------------
(* Contents. *)

\* assembleSources' add: a file that would exceed the total ends the source it is in.
AddFile(acc, f) ==
    IF acc.full \/ rev[f] = None THEN acc
    ELSE IF acc.total + Size[f] > MaxTotal THEN [acc EXCEPT !.full = TRUE]
    ELSE [acc EXCEPT !.total = @ + Size[f], !.text = Append(@, <<f, rev[f]>>)]

\* A source is a file, or a folder whose files are taken in WalkDir's order.
AddSource(acc, fs) == FoldLeft(AddFile, [acc EXCEPT !.full = FALSE], fs)

\* assembleSources
Assemble(ss) == FoldLeft(AddSource, [total |-> 0, text |-> <<>>, full |-> FALSE], ss).text

\* applyOptimizers: each optimizer of the chain takes the text further, one that
\* fails is skipped.
Applied(text) == {[text |-> text, lean |-> n] : n \in {0, 1}}

\* What the index says of a content: Bytes, Files and the token counts.
Described(c) == [of |-> c]

-----------------------------------------------------------------------------
(* Commands. *)

\* contextStore.build, before the mutex; the pack is new or rebuilt.
Build(t) ==
    /\ Begin(t)
    /\ \E i \in Packs, f \in Sources, g \in Sources :
          \E ss \in {<<<<f>>>>, <<<<f>>, <<g>>>>, <<<<f, g>>>>} : \E c \in Applied(Assemble(ss)) :
             Goes(t, [pc |-> "write", id |-> i, content |-> c, entry |-> Described(c)])
    /\ UNCHANGED <<rev, index, pinned, blob, faults, cut>>

\* knowledgeStore.add and update with a content; update of an unknown item is an error.
Note(t) ==
    /\ Begin(t)
    /\ \E i \in Notes, n \in {0, 1} :
          LET c == [text |-> <<>>, lean |-> n] IN
          Goes(t, [pc |-> "write", id |-> i, content |-> c, entry |-> Described(c)])
    /\ UNCHANGED <<rev, index, pinned, blob, faults, cut>>

\* The store's mutex is held between the two writes of a command.
Holds(t, S) == req[t].pc \in {"index", "unindex"} /\ req[t].id \in S
Held(S) == \E t \in Requests : Holds(t, S)
Store(i) == IF i \in Packs THEN Packs ELSE Notes

\* A store without a mutex.
FreeAlways(i) == TRUE

\* mu.Lock in build, add, update and remove
Free(i) == ~Held(Store(i))

\* The blob is written,
WriteBlob(t) ==
    /\ At(t, "write") /\ Free(req[t].id)
    /\ blob' = [blob EXCEPT ![req[t].id] = req[t].content]
    /\ Goes(t, [req[t] EXCEPT !.pc = "index"])
    /\ UNCHANGED <<rev, index, pinned, ops, faults, cut>>

\* then the index; a rebuilt pack stays pinned.
WriteIndex(t) ==
    /\ At(t, "index")
    /\ index' = [index EXCEPT ![req[t].id] = req[t].entry]
    /\ cut' = cut \ {req[t].id}
    /\ Goes(t, Idle)
    /\ UNCHANGED <<rev, pinned, blob, ops, faults>>

\* remove: the blob,
RemoveBlob(t) ==
    /\ Begin(t)
    /\ \E i \in Ids :
          /\ Free(i)
          /\ blob' = [blob EXCEPT ![i] = None]
          /\ Goes(t, [pc |-> "unindex", id |-> i])
    /\ UNCHANGED <<rev, index, pinned, faults, cut>>

\* then the entry.
RemoveIndex(t) ==
    /\ At(t, "unindex")
    /\ index' = [index EXCEPT ![req[t].id] = None]
    /\ pinned' = pinned \ {req[t].id} /\ cut' = cut \ {req[t].id}
    /\ Goes(t, Idle)
    /\ UNCHANGED <<rev, blob, ops, faults>>

\* pin: only a pack that exists.
Pin ==
    /\ ops < MaxOps /\ ops' = ops + 1 /\ ~Held(Packs)
    /\ \E i \in Packs : index[i] # None /\ pinned' \in {pinned \cup {i}, pinned \ {i}}
    /\ UNCHANGED <<rev, index, blob, req, faults, cut>>

\* A source is changed on disk.
Edit ==
    /\ \E s \in Sources : rev[s] # None /\ rev[s] < MaxEdits /\ rev' = [rev EXCEPT ![s] = @ + 1]
    /\ UNCHANGED <<index, pinned, blob, req, ops, faults, cut>>

\* The process dies.
Crash ==
    /\ faults < MaxFaults /\ faults' = faults + 1
    /\ cut' = cut \cup {i \in Ids : \E t \in Requests : Holds(t, {i})}
    /\ req' = [t \in Requests |-> Idle]
    /\ UNCHANGED <<rev, index, pinned, blob, ops>>

Next ==
    \/ Pin \/ Edit \/ Crash
    \/ \E t \in Requests : \/ Build(t) \/ Note(t) \/ WriteBlob(t) \/ WriteIndex(t)
                           \/ RemoveBlob(t) \/ RemoveIndex(t)

Spec == Init /\ [][Next]_vars

-----------------------------------------------------------------------------
(* Properties. *)

\* What the index says of an item is true of the content get returns with it, and
\* no content is kept that the index does not list, however builds, updates and
\* removals of one ID overlap; a crash between the two writes excepted.
IndexMatchesBlob ==
    \A i \in Ids \ cut : ~Held(Store(i)) =>
        index[i] = IF blob[i] = None THEN None ELSE Described(blob[i])
=============================================================================
