------------------------------ MODULE GoImport ------------------------------
(***************************************************************************)
(* The migration from the Go runtime: `fastclaw migrate import-go`         *)
(* (migration/importer.py) and the import of its files                     *)
(* (migration/assets.py).                                                  *)
(*                                                                         *)
(* The Go runtime should be stopped, but the importer checks instead of    *)
(* trusting: here it may still be running, so the database file and its    *)
(* write-ahead log change under the copy.  Both commands may crash at any  *)
(* step and be run again, and two operators may run them at once.          *)
(*                                                                         *)
(* A Go transaction is a number and adds the rows Wrote gives it; a file   *)
(* of the database is the set of the transactions whose pages it holds.    *)
(***************************************************************************)
EXTENDS Integers, FiniteSets, SequencesExt

CONSTANTS
    Operators,     \* who runs the commands
    Copiers,       \* those of them who import files too
    Wrote,         \* Wrote[n]: rows the n-th Go transaction inserts
    FileOrder,     \* files of the Go data root, in the order they are sorted
    AgentOf,       \* the agent in whose directory a file is; NoId in skills/
    MaxEdits,      \* bound on the edits of each file
    MaxCommands,   \* bound on the commands run
    NoId

VARIABLES
    db, wal,     \* transactions in the Go database file, in its -wal file
    last,        \* the last transaction the Go runtime committed
    command,     \* each operator's running command
    commands,    \* commands started
    target,      \* rows of the target database
    runs,        \* its table import_runs: the snapshots imported
    assets,      \* version of each source file, 0 while there is none
    copies       \* version of each file in the target root, 0 if none

importVars == <<db, wal, last, command, commands, target, runs, assets, copies>>

GoFiles == ToSet(FileOrder)
Idle == [pc |-> "idle"]

ImportInit ==
    /\ db = {} /\ wal = {} /\ last = 0
    /\ command = [o \in Operators |-> Idle]
    /\ commands = 0
    /\ target = {} /\ runs = {}
    /\ assets = [f \in GoFiles |-> 1]
    /\ copies = [f \in GoFiles |-> 0]

(***************************************************************************)
(* The Go runtime: SQLite in WAL mode.                                     *)
(***************************************************************************)
\* A commit appends to the log, or restarts it once all of it is checkpointed.
GoCommit ==
    /\ last < Len(Wrote)
    /\ last' = last + 1
    /\ \/ wal' = wal \cup {last'}
       \/ wal # {} /\ wal \subseteq db /\ wal' = {last'}
    /\ UNCHANGED <<db, command, commands, target, runs, assets, copies>>

\* A checkpoint moves pages in the order of the log; it may be seen half-way.
GoCheckpoint ==
    \E n \in wal \ db :
        /\ \A m \in wal \ db : n <= m
        /\ db' = db \cup {n}
        /\ UNCHANGED <<wal, last, command, commands, target, runs, assets, copies>>

\* The last connection closes: everything is checkpointed, the log deleted.
GoClose ==
    /\ wal # {}
    /\ db' = db \cup wal /\ wal' = {}
    /\ UNCHANGED <<last, command, commands, target, runs, assets, copies>>

EditAsset(f) ==
    /\ assets[f] <= MaxEdits
    /\ assets' = [assets EXCEPT ![f] = @ + 1]
    /\ UNCHANGED <<db, wal, last, command, commands, target, runs, copies>>

(***************************************************************************)
(* Which rows are sound.  A row names the user, agent and API key whose    *)
(* existence the importer requires of a row of its table, or NoId; a row   *)
(* of configs has the slot (kind, scope, name), and its place in the table.*)
(***************************************************************************)
IdsOf(rows, table) == {r.id : r \in {x \in rows : x.table = table}}

Dangling(rows, r) ==
    \/ r.user # NoId /\ r.user \notin IdsOf(rows, "users")
    \/ r.agent # NoId /\ r.agent \notin IdsOf(rows, "agents")
    \/ r.key # NoId /\ r.key \notin IdsOf(rows, "apikeys")
    \/ /\ r.table = "sessions"
       /\ ~ \E a \in rows : a.table = "agents" /\ a.id = r.agent /\ a.user = r.user

SameSlot(r, x) == r.table = "configs" /\ x.table = "configs" /\ r.slot = x.slot

\* The name of a slot names what its rows belong to; a row has its own place,
\* and its id in its table.
ASSUME WroteAssumption ==
    /\ Len(Wrote) \in Nat
    /\ \A r, x \in UNION {Wrote[n] : n \in 1 .. Len(Wrote)} :
          /\ SameSlot(r, x) =>
                /\ x.user = r.user /\ x.agent = r.agent /\ x.key = r.key
                /\ x.place \in Nat
          /\ r.table = x.table /\ r.id = x.id => r = x

Repeated(rows, r) == \E x \in rows : SameSlot(r, x) /\ x.place < r.place

ReferenceIssues(rows) == {r \in rows : Dangling(rows, r) \/ Repeated(rows, r)}

RowsOf(snapshot) == UNION {Wrote[n] : n \in snapshot}

(***************************************************************************)
(* import-go.                                                              *)
(***************************************************************************)
Goto(o, c) == command' = [command EXCEPT ![o] = c]

StartImport(o) ==
    /\ command[o] = Idle /\ commands < MaxCommands
    /\ commands' = commands + 1
    /\ Goto(o, [pc |-> "snapshot", reads |-> <<>>])
    /\ UNCHANGED <<db, wal, last, target, runs, assets, copies>>

\* The manifest before, the copy and the manifest after each read the
\* database file and then the log.
ReadFile(o) ==
    LET reads == command[o].reads IN
    /\ command[o].pc = "snapshot" /\ Len(reads) < 6
    /\ Goto(o, [command[o] EXCEPT !.reads =
                    Append(@, IF Len(reads) % 2 = 0 THEN db ELSE wal)])
    /\ UNCHANGED <<db, wal, last, commands, target, runs, assets, copies>>

\* Fault: the manifests are not compared.
Unchecked(reads) == TRUE

\* The source kept still: both manifests name the same contents.
Stable(reads) == reads[1] = reads[5] /\ reads[2] = reads[6]

Stage(o) ==
    LET reads == command[o].reads IN
    LET snapshot == reads[3] \cup reads[4] IN
    /\ command[o].pc = "snapshot" /\ Len(reads) = 6
    /\ IF Stable(reads)
       THEN \E policy \in {"reject", "quarantine"} :
              Goto(o, [pc |-> "policy", policy |-> policy, snapshot |-> snapshot,
                       rows |-> RowsOf(snapshot)])
       ELSE Goto(o, Idle)
    /\ UNCHANGED <<db, wal, last, commands, target, runs, assets, copies>>

\* Rows with issues stop the import, or leave it and the rest is looked at again.
ApplyPolicy(o) ==
    LET issues == ReferenceIssues(command[o].rows) IN
    /\ command[o].pc = "policy"
    /\ \/ issues = {} /\ Goto(o, [command[o] EXCEPT !.pc = "check"])
       \/ /\ issues # {} /\ command[o].policy = "reject"
          /\ Goto(o, Idle)
       \/ /\ issues # {} /\ command[o].policy = "quarantine"
          /\ Goto(o, [command[o] EXCEPT !.rows = @ \ issues])
    /\ UNCHANGED <<db, wal, last, commands, target, runs, assets, copies>>

\* The snapshot was imported before (or this is a dry run), the target is in
\* use, or it is empty.  The reads take no lock.
CheckTarget(o) ==
    /\ command[o].pc = "check"
    /\ IF command[o].snapshot \in runs \/ target # {}
       THEN Goto(o, Idle)
       ELSE \/ Goto(o, [command[o] EXCEPT !.pc = "write"])
            \/ Goto(o, Idle)
    /\ UNCHANGED <<db, wal, last, commands, target, runs, assets, copies>>

\* What the target's unique keys refuse.
Rejected(o) ==
    \/ command[o].snapshot \in runs
    \/ \E r \in command[o].rows, x \in target : SameSlot(r, x) /\ r # x

KeyAgents == "apikey_agents"

\* A row is merged into the one with its id; the agents of a key are deleted
\* and written anew.
Replaces(rows, x) ==
    \E r \in rows :
        /\ r.table = x.table
        /\ r.id = x.id \/ (x.table = KeyAgents /\ r.key = x.key)

\* One transaction: all the rows, and the record of the import with them.
WriteImport(o) ==
    LET rows == command[o].rows IN
    /\ command[o].pc = "write"
    /\ IF Rejected(o)
       THEN UNCHANGED <<target, runs>>
       ELSE /\ target' = {x \in target : ~ Replaces(rows, x)} \cup rows
            /\ runs' = runs \cup {command[o].snapshot}
    /\ Goto(o, Idle)
    /\ UNCHANGED <<db, wal, last, commands, assets, copies>>

(***************************************************************************)
(* The import of files.                                                    *)
(***************************************************************************)
\* The agents of the target database decide which directories are walked;
\* every file found is hashed.
CollectAssets(o) ==
    /\ o \in Copiers
    /\ command[o] = Idle /\ commands < MaxCommands
    /\ commands' = commands + 1
    /\ LET valid == IdsOf(target, "agents") \cup {NoId} IN
       Goto(o, [pc |-> "compare",
                found |-> [f \in {g \in GoFiles : AgentOf[g] \in valid} |-> assets[f]]])
    /\ UNCHANGED <<db, wal, last, target, runs, assets, copies>>

\* Fault: a file with another content is copied again.
CompareAndReplace(o) ==
    LET found == command[o].found IN
    /\ command[o].pc = "compare"
    /\ Goto(o, [pc |-> "copy", found |-> found,
                todo |-> {f \in DOMAIN found : copies[f] # found[f]}])
    /\ UNCHANGED <<db, wal, last, commands, target, runs, assets, copies>>

\* A file that is in the target with another content stops the command; one
\* with the same content is left alone.
CompareAssets(o) ==
    LET found == command[o].found IN
    /\ command[o].pc = "compare"
    /\ IF \E f \in DOMAIN found : copies[f] \notin {0, found[f]}
       THEN Goto(o, Idle)
       ELSE Goto(o, [pc |-> "copy", found |-> found,
                     todo |-> {f \in DOMAIN found : copies[f] = 0}])
    /\ UNCHANGED <<db, wal, last, commands, target, runs, assets, copies>>

\* The files are copied in the order they are sorted.
IsFirst(f, todo) ==
    \E i \in DOMAIN FileOrder :
        FileOrder[i] = f /\ \A k \in 1 .. i - 1 : FileOrder[k] \notin todo
\* A copy is hashed before it takes its place.
Intact(o, f) == assets[f] = command[o].found[f]

CopyAsset(o) ==
    LET todo == command[o].todo IN
    /\ command[o].pc = "copy"
    /\ \/ todo = {} /\ Goto(o, Idle) /\ UNCHANGED copies
       \/ \E f \in todo :
            /\ IsFirst(f, todo)
            /\ IF Intact(o, f)
               THEN /\ copies' = [copies EXCEPT ![f] = assets[f]]
                    /\ Goto(o, [command[o] EXCEPT !.todo = todo \ {f}])
               ELSE Goto(o, Idle) /\ UNCHANGED copies
    /\ UNCHANGED <<db, wal, last, commands, target, runs, assets>>

\* Any step may fail or be killed: the transaction rolls back, the temporary
\* files are not the target's.
Crash(o) ==
    /\ command[o] # Idle
    /\ Goto(o, Idle)
    /\ UNCHANGED <<db, wal, last, commands, target, runs, assets, copies>>

ImportNext ==
    \/ GoCommit \/ GoCheckpoint \/ GoClose
    \/ \E f \in GoFiles : EditAsset(f)
    \/ \E o \in Operators :
          \/ StartImport(o) \/ ReadFile(o) \/ Stage(o) \/ ApplyPolicy(o)
          \/ CheckTarget(o) \/ WriteImport(o)
          \/ CollectAssets(o) \/ CompareAssets(o) \/ CopyAsset(o) \/ Crash(o)

ImportSpec == ImportInit /\ [][ImportNext]_importVars

(***************************************************************************)
(* Properties.                                                             *)
(***************************************************************************)
\* The imports there should be: of the first n transactions, the largest set of
\* rows in which every reference is found, less the repeated slots.
GoodImports ==
    {LET rows == RowsOf(1 .. n)
         closed == UNION {P \in SUBSET rows : \A r \in P : ~ Dangling(P, r)}
     IN [snapshot |-> 1 .. n, rows |-> {r \in closed : ~ Repeated(closed, r)}] :
        n \in 0 .. Len(Wrote)}

\* Whatever the Go runtime does during the copy, wherever a command crashes
\* and however often one operator runs it again, the target holds whole imports
\* only, each of a state the Go database really was in, with exactly the rows
\* whose references survive and with its record.
TargetIsWholeImports ==
    \E done \in SUBSET GoodImports :
        /\ runs = {i.snapshot : i \in done}
        /\ target = UNION {i.rows : i \in done}

\* Two operators may both find the target empty, and import different states
\* of the Go database: the target then holds rows of theirs only, and all of
\* them but agents of an API key, which the later import rewrites.
ImportsAreMerged ==
    \E done \in SUBSET GoodImports :
        LET rows == UNION {i.rows : i \in done} IN
        /\ runs = {i.snapshot : i \in done}
        /\ target \subseteq rows
        /\ \A r \in rows \ target : r.table = KeyAgents

\* A file that is in the target root is never replaced, by a rerun after a
\* crash or after an edit of the source either (with one copier at a time).
CopiesAreKept ==
    [][\A f \in GoFiles : copies[f] # 0 => copies'[f] = copies[f]]_copies

=============================================================================
