--------------------------- MODULE KnowledgeBrain ---------------------------
(***************************************************************************)
(* The Knowledge Brain (src/internal/knowledge): an append-only file of    *)
(* versions per id, written by "cwv2 knowledge" processes that share       *)
(* nothing but the directory, and read by the engine for every prompt.     *)
(* The store's mutex lives in one process and every process has its own,   *)
(* so a command is two steps: History, then Append. An append may be cut   *)
(* short by a crash or a full disk. Ids are ordered as strings are; a body *)
(* stands for an entry's text, with a rendered size and a relevance.       *)
(***************************************************************************)
EXTENDS Naturals, Sequences, FiniteSets, FiniteSetsExt

CONSTANTS
    Procs,        \* command-line processes
    Ids,          \* a set of numbers: entry ids in their order
    Bodies,
    Inactive,     \* the statuses kept out of prompts: draft, deprecated, archived
    Size,         \* [Bodies -> Nat]: len(renderEntry)
    Score,        \* [Bodies -> Nat]: relevance to the task at hand
    MaxEntries,   \* the budgets of knowledgeContext
    MaxBytes,
    Torn,         \* a line that is not a JSON record
    Keep,         \* an Update flag that was not given
    MaxOps,       \* bound: commands
    MaxFaults     \* bound: appends cut short

VARIABLES
    log,          \* the lines of every id's file
    open,         \* the ids whose last line has no newline
    pend,         \* what every process is about to append
    sel,          \* the selection in progress: ids to read, entries read
    prompt,       \* the last selection's entries, most relevant first
    approved,     \* history: the ids somebody asked to be active
    ops, faults

vars == <<log, open, pend, sel, prompt, approved, ops, faults>>

Statuses == {"active"} \cup Inactive
Entries == [id : Ids, version : 1 .. MaxOps, status : Statuses, body : Bodies]
Nothing == <<>>
Idle == [at |-> "idle", todo |-> {}, got |-> {}]

TypeOK ==
    /\ DOMAIN log = Ids /\ \A i \in Ids : Range(log[i]) \subseteq Entries \cup {Torn}
    /\ open \subseteq Ids
    /\ DOMAIN pend = Procs
    /\ \A p \in Procs : Len(pend[p]) <= 1 /\ Range(pend[p]) \subseteq Entries
    /\ sel.at \in {"idle", "read"} /\ sel.todo \subseteq Ids /\ sel.got \subseteq Entries
    /\ Len(prompt) <= Cardinality(Ids) /\ Range(prompt) \subseteq Entries
    /\ approved \subseteq Ids
    /\ ops \in 0 .. MaxOps /\ faults \in 0 .. MaxFaults

Init ==
    /\ log = [i \in Ids |-> <<>>]
    /\ open = {}
    /\ pend = [p \in Procs |-> Nothing]
    /\ sel = Idle
    /\ prompt = <<>>
    /\ approved = {}
    /\ ops = 0 /\ faults = 0

-----------------------------------------------------------------------------
(* FileStore.History fails on any line that does not parse. *)
Readable(lines) == Torn \notin Range(lines)

(* Sorted by version, appended order among equals: the last is current. *)
Current(lines) ==
    lines[CHOOSE k \in DOMAIN lines : \A j \in DOMAIN lines :
              \/ lines[j].version < lines[k].version
              \/ lines[j].version = lines[k].version /\ j <= k]

(* Create: version 1 of an id that has no record. Propose is Create of a draft. *)
Create(p, i) ==
    /\ Readable(log[i]) /\ log[i] = <<>>
    /\ \E st \in Statuses, b \in Bodies :
          /\ pend' = [pend EXCEPT ![p] =
                         <<[id |-> i, version |-> 1, status |-> st, body |-> b]>>]
          /\ approved' = IF st = "active" THEN approved \cup {i} ELSE approved

NextByCount(lines, st, b) ==
    LET cur == Current(lines)
    IN [cur EXCEPT !.version = Len(lines) + 1,
                   !.status = IF st = Keep THEN @ ELSE st,
                   !.body = IF b = Keep THEN @ ELSE b]

NextRevived(lines, st, b) ==
    [Current(lines) EXCEPT !.version = @ + 1,
                           !.status = IF st = Keep THEN "active" ELSE st,
                           !.body = IF b = Keep THEN @ ELSE b]

(* The version Update appends: flags that were not given carry forward. *)
NextVersion(lines, st, b) ==
    [Current(lines) EXCEPT !.version = @ + 1,
                           !.status = IF st = Keep THEN @ ELSE st,
                           !.body = IF b = Keep THEN @ ELSE b]

(* Update, and with no other flag than a status Deprecate, Archive, Restore. *)
Update(p, i) ==
    /\ Readable(log[i]) /\ log[i] # <<>>
    /\ \E st \in Statuses \cup {Keep}, b \in Bodies \cup {Keep} :
          /\ pend' = [pend EXCEPT ![p] = <<NextVersion(log[i], st, b)>>]
          /\ approved' = IF st = "active" THEN approved \cup {i} ELSE approved

(* A command that is refused (unknown, duplicate or unreadable id) writes nothing. *)
Command(p) ==
    /\ pend[p] = Nothing /\ ops < MaxOps
    /\ ops' = ops + 1
    /\ \E i \in Ids : Create(p, i) \/ Update(p, i)
    /\ UNCHANGED <<log, open, sel, prompt, faults>>

(* O_APPEND adds to the last line when that one has no newline. *)
Appended(i, line) ==
    IF i \in open THEN [log[i] EXCEPT ![Len(log[i])] = Torn] ELSE Append(log[i], line)

AppendLine(p) ==
    /\ pend[p] # Nothing
    /\ LET e == pend[p][1]
       IN /\ log' = [log EXCEPT ![e.id] = Appended(e.id, e)]
          /\ open' = open \ {e.id}
    /\ pend' = [pend EXCEPT ![p] = Nothing]
    /\ UNCHANGED <<sel, prompt, approved, ops, faults>>

(* The write is cut short: nothing, part of the record, or all but the newline. *)
AppendFails(p) ==
    /\ pend[p] # Nothing /\ faults < MaxFaults
    /\ faults' = faults + 1
    /\ LET e == pend[p][1]
       IN \/ UNCHANGED <<log, open>>
          \/ \E line \in {e, Torn} :
                /\ log' = [log EXCEPT ![e.id] = Appended(e.id, line)]
                /\ open' = open \cup {e.id}
    /\ pend' = [pend EXCEPT ![p] = Nothing]
    /\ UNCHANGED <<sel, prompt, approved, ops>>

-----------------------------------------------------------------------------
(* IDs reads the first record of every file; one that does not parse fails it. *)
SelectIDs ==
    /\ sel.at = "idle"
    /\ LET files == {i \in Ids : log[i] # <<>>}
       IN IF \E i \in files : log[i][1] = Torn
          THEN prompt' = <<>> /\ UNCHANGED sel
          ELSE sel' = [at |-> "read", todo |-> files, got |-> {}] /\ UNCHANGED prompt
    /\ UNCHANGED <<log, open, pend, approved, ops, faults>>

(* List: Get one id after the other; the first error fails the selection. *)
SelectGet ==
    /\ sel.at = "read" /\ sel.todo # {}
    /\ LET i == CHOOSE x \in sel.todo : \A y \in sel.todo : x <= y
       IN IF Readable(log[i])
          THEN sel' = [sel EXCEPT !.todo = @ \ {i}, !.got = @ \cup {Current(log[i])}]
               /\ UNCHANGED prompt
          ELSE sel' = Idle /\ prompt' = <<>>
    /\ UNCHANGED <<log, open, pend, approved, ops, faults>>

Outranks(e, f) ==
    \/ Score[e.body] > Score[f.body]
    \/ Score[e.body] = Score[f.body] /\ e.id < f.id

(* rank: an entry comes after the ones that outrank it; ids make the order total. *)
Ranked(got) ==
    [k \in 1 .. Cardinality(got) |->
        CHOOSE e \in got : Cardinality({f \in got : Outranks(f, e)}) = k - 1]

Bytes(s) == SumFunction([k \in DOMAIN s |-> Size[s[k].body]])

BudgetEach(ranked) ==
    SubSeq(ranked, 1, Max({k \in 0 .. Len(ranked) : k <= MaxEntries
                              /\ \A j \in 1 .. k : Size[ranked[j].body] <= MaxBytes}
                          \cup {IF ranked = <<>> THEN 0 ELSE 1}))

(* The longest prefix within both budgets, and never nothing. *)
Budget(ranked) ==
    SubSeq(ranked, 1, Max({k \in 0 .. Len(ranked) : k <= MaxEntries
                              /\ Bytes(SubSeq(ranked, 1, k)) <= MaxBytes}
                          \cup {IF ranked = <<>> THEN 0 ELSE 1}))

EligibleAll(got) == got

Eligible(got) == {e \in got : e.status = "active"}

SelectDone ==
    /\ sel.at = "read" /\ sel.todo = {}
    /\ prompt' = Budget(Ranked(Eligible(sel.got)))
    /\ sel' = [sel EXCEPT !.at = "idle"]
    /\ UNCHANGED <<log, open, pend, approved, ops, faults>>

Next ==
    \/ \E p \in Procs : Command(p) \/ AppendLine(p) \/ AppendFails(p)
    \/ SelectIDs \/ SelectGet \/ SelectDone

Spec == Init /\ [][Next]_vars

-----------------------------------------------------------------------------
(* Processes that read the same version append the same number, yet no     *)
(* version of a readable history is ever missing: what Update derives from *)
(* the current entry is always the next number of that file.               *)
VersionsContiguous ==
    \A i \in Ids : Readable(log[i]) =>
        LET vs == {log[i][k].version : k \in DOMAIN log[i]}
        IN vs = 1 .. Cardinality(vs)

(* What an AI proposed stays a draft until somebody asks for it to be      *)
(* active: no update of other fields, however stale, turns it active.      *)
OnlyApproved ==
    \A i \in Ids : \A k \in DOMAIN log[i] :
        log[i][k] # Torn /\ log[i][k].status = "active" => i \in approved

(* The slice of a prompt holds active, approved entries only, keeps to     *)
(* both budgets unless it is the one entry that is always included, and    *)
(* leaves out no entry that is more relevant than one it holds.            *)
PromptSound ==
    /\ \A k \in DOMAIN prompt : prompt[k].status = "active" /\ prompt[k].id \in approved
    /\ Len(prompt) > 1 => Len(prompt) <= MaxEntries /\ Bytes(prompt) <= MaxBytes
    /\ sel.at = "idle" => \A k \in DOMAIN prompt : \A e \in Eligible(sel.got) :
                              Outranks(e, prompt[k]) => e \in Range(prompt)

(* The three together: what the Brain promises of its files and prompts.   *)
KnowledgeSound == VersionsContiguous /\ OnlyApproved /\ PromptSound

(* src/internal/knowledge/store.go:43-44: "a crash mid-append cannot       *)
(* corrupt earlier versions". A history that had a record can still be     *)
(* read.                                                                   *)
EarlierVersionsReadable ==
    \A i \in Ids : log[i] # <<>> /\ log[i][1] # Torn => Readable(log[i])
=============================================================================
