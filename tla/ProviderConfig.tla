--------------------------- MODULE ProviderConfig ---------------------------
(***************************************************************************)
(* Provider configurations and their encrypted keys (gateway/router.py,    *)
(* agent/manager.py, credentials.py).  A row belongs to the system, a user *)
(* or an agent; a run of an agent takes the most specific enabled row of   *)
(* its provider's name.  A key is stored as ciphertext bound to its row's  *)
(* id, under a master key that the first use creates in a file.            *)
(* A handler reads a row in one transaction and writes all of it back in   *)
(* another; the process may die at any point, also while it creates the    *)
(* file, and starts again over the same database and file.                 *)
(***************************************************************************)
EXTENDS Integers, FiniteSets

CONSTANTS
    Editors,          \* requests in flight
    EditsOf,          \* EditsOf[h]: the operations of h
    Accounts, Admins, \* the users, and those with role super_admin
    Bots, BotOwner,   \* agents, and the user of each
    ProviderNames,
    RowIds,           \* ids of rows, numbered in the order they are drawn
    MasterKeys,       \* what secrets.token_bytes returns, numbered as drawn
    CutOff,           \* a file without its content
    NoValue

ASSUME ProviderAssumption ==
    /\ MasterKeys \subseteq Nat
    /\ NoValue \notin MasterKeys /\ CutOff \notin MasterKeys \cup {NoValue}
    /\ \A b \in Bots : BotOwner[b] \in Accounts

VARIABLES
    configs,     \* table configs: the provider row of an id, or NoValue
    keyFile,     \* master.key: a key, NoValue or CutOff
    loaded,      \* CredentialCipher._key of the running process
    editing      \* what each request in flight is at

providerVars == <<configs, keyFile, loaded, editing>>

Configured == {i \in RowIds : configs[i] # NoValue}
NewRowIds == {i \in RowIds \ Configured : \A j \in RowIds \ Configured : i <= j}
NotEditing ==
    [op |-> "none", user |-> NoValue, id |-> NoValue, seen |-> NoValue, slot |-> NoValue]

\* The slot of a row, unique in the table.
SlotOf(row) == [scope |-> row.scope, place |-> row.place, name |-> row.name]

ProviderInit ==
    /\ configs = [i \in RowIds |-> NoValue]
    /\ keyFile = NoValue /\ loaded = NoValue
    /\ editing = [h \in Editors |-> NotEditing]

(***************************************************************************)
(* The cipher.                                                             *)
(***************************************************************************)
\* Fault: a key file that is there is written over.
CreatesAnyway(k) ==
    /\ \A i \in Configured : configs[i].key # NoValue => configs[i].key.master # k
    /\ keyFile' = k
\* O_CREAT | O_EXCL: a new key, or the one that is there.
CreatesOrReads(k) ==
    /\ IF keyFile = NoValue THEN \A other \in MasterKeys : k <= other ELSE k = keyFile
    /\ keyFile' = k

\* Where a key is stored or opened: it is loaded at the first use.
LoadKey(k) ==
    \/ loaded = k /\ UNCHANGED <<keyFile, loaded>>
    \/ /\ loaded = NoValue /\ CreatesOrReads(k)
       /\ loaded' = k

\* A ciphertext: the master key, the row's id as context, who entered the text.
Ciphertexts == [master : MasterKeys, context : RowIds, by : Accounts]
Opens(key, k, id) == key.master = k /\ key.context = id

\* The api key of the payload is encrypted for row id; without one, `kept` stays.
Encrypt(user, id, kept, key) ==
    \/ key = kept /\ UNCHANGED <<keyFile, loaded>>
    \/ \E k \in MasterKeys :
          LoadKey(k) /\ key = [master |-> k, context |-> id, by |-> user]

(***************************************************************************)
(* Handlers.                                                               *)
(***************************************************************************)
\* Scopes a user may write in: the own one, those of its agents, and the
\* system's for an administrator.
Places(user) ==
    {[scope |-> "user", place |-> user]}
      \cup {[scope |-> "agent", place |-> b] : b \in {b \in Bots : BotOwner[b] = user}}
      \cup {[scope |-> "system", place |-> NoValue] : a \in Admins \cap {user}}

MayWrite(user, at) == at \in Places(user)

Proceeds(h, next) == editing' = [editing EXCEPT ![h] = next]

\* save_provider looks for the row of the slot.
FindExisting(h) ==
    \E user \in Accounts, name \in ProviderNames :
    \E at \in UNION {Places(x) : x \in Accounts} :
        LET slot == [scope |-> at.scope, place |-> at.place, name |-> name]
            found == {i \in Configured : SlotOf(configs[i]) = slot}
        IN
        /\ editing[h] = NotEditing /\ "save" \in EditsOf[h]
        /\ MayWrite(user, at)
        /\ \E id \in IF found = {} THEN {NoValue} ELSE found :
              Proceeds(h, [op |-> "save", user |-> user, id |-> id, slot |-> slot,
                        seen |-> IF id = NoValue THEN NoValue ELSE configs[id]])
        /\ UNCHANGED <<configs, keyFile, loaded>>

\* merge: the row of the id is replaced, or inserted when it is gone; the
\* unique index refuses a slot that another row has.
Merge(id, row) ==
    /\ \A i \in Configured \ {id} : SlotOf(configs[i]) # SlotOf(row)
    /\ configs' = [configs EXCEPT ![id] = row]

SaveProvider(h) ==
    LET edit == editing[h] IN
    /\ edit.op = "save"
    /\ \E id \in IF edit.id = NoValue THEN NewRowIds ELSE {edit.id} :
       \E key \in {NoValue} \cup Ciphertexts :
          /\ Encrypt(edit.user, id, IF edit.seen = NoValue THEN NoValue ELSE edit.seen.key, key)
          /\ Merge(id, [scope |-> edit.slot.scope, place |-> edit.slot.place,
                        name |-> edit.slot.name, enabled |-> TRUE, key |-> key])
    /\ Proceeds(h, NotEditing)

\* require_mutable_provider
RequireProvider(h) ==
    \E user \in Accounts, id \in Configured, op \in {"update", "delete"} \cap EditsOf[h] :
        /\ editing[h] = NotEditing
        /\ MayWrite(user, [scope |-> configs[id].scope, place |-> configs[id].place])
        /\ Proceeds(h, IF op = "delete" THEN [NotEditing EXCEPT !.op = op, !.id = id]
                    ELSE [op |-> op, user |-> user, id |-> id, seen |-> configs[id],
                          slot |-> NoValue])
        /\ UNCHANGED <<configs, keyFile, loaded>>

UpdateProvider(h) ==
    LET edit == editing[h] IN
    /\ edit.op = "update"
    /\ \E name \in ProviderNames, on \in BOOLEAN :
       \E key \in {NoValue} \cup Ciphertexts :
          /\ Encrypt(edit.user, edit.id, edit.seen.key, key)
          /\ Merge(edit.id, [edit.seen EXCEPT !.name = name, !.enabled = on, !.key = key])
    /\ Proceeds(h, NotEditing)

DeleteProvider(h) ==
    /\ editing[h].op = "delete"
    /\ configs' = [configs EXCEPT ![editing[h].id] = NoValue]
    /\ Proceeds(h, NotEditing)
    /\ UNCHANGED <<keyFile, loaded>>

\* The handler fails: the key file is empty, or the unique index refuses the
\* row after its key was encrypted.
EditFails(h) ==
    /\ editing[h] # NotEditing
    /\ Proceeds(h, NotEditing)
    /\ \/ UNCHANGED <<keyFile, loaded>>
       \/ \E k \in MasterKeys : LoadKey(k)
    /\ UNCHANGED <<configs>>

\* update_agent, in one transaction: the agent's rows become those of the
\* payload, which names one provider here or none.
SetAgentProviders(b) ==
    LET own == {i \in Configured : configs[i].scope = "agent" /\ configs[i].place = b}
        Replace(kept) == [i \in RowIds |-> IF i \in own \ kept THEN NoValue ELSE configs[i]]
    IN
    /\ \/ configs' = Replace({}) /\ UNCHANGED <<keyFile, loaded>>
       \/ \E name \in ProviderNames :
          LET named == {i \in own : configs[i].name = name} IN
          \E id \in IF named = {} THEN NewRowIds ELSE named :
          \E key \in {NoValue} \cup Ciphertexts :
             /\ Encrypt(BotOwner[b], id, IF named = {} THEN NoValue ELSE configs[id].key, key)
             /\ configs' = [Replace(named) EXCEPT ![id] =
                   [scope |-> "agent", place |-> b, name |-> name, enabled |-> TRUE,
                    key |-> key]]
    /\ UNCHANGED editing

(***************************************************************************)
(* A run selects its provider.                                             *)
(***************************************************************************)
Layer(scope, place, name) ==
    {i \in Configured : configs[i].enabled /\ SlotOf(configs[i]) =
        [scope |-> scope, place |-> place, name |-> name]}

\* The agent's rows go before its user's and those before the system's.
ProviderConfigs(b, name) ==
    LET own == Layer("agent", b, name)
        users == Layer("user", BotOwner[b], name)
    IN CASE own # {} -> own [] users # {} -> users
         [] OTHER -> Layer("system", NoValue, name)

SelectProvider(b) ==
    \E name \in ProviderNames : \E i \in ProviderConfigs(b, name) :
        /\ configs[i].key # NoValue
        /\ \E k \in MasterKeys : LoadKey(k) /\ Opens(configs[i].key, k, i)
        /\ UNCHANGED <<configs, editing>>

\* The process dies, perhaps between the creation of the file and its first
\* byte, and starts again.
Die(cutOff) ==
    /\ cutOff => keyFile = NoValue /\ loaded = NoValue
    /\ keyFile' = IF cutOff THEN CutOff ELSE keyFile
    /\ loaded' = NoValue
    /\ editing' = [h \in Editors |-> NotEditing]
    /\ UNCHANGED <<configs>>

ProviderNext ==
    \/ \E h \in Editors :
          \/ FindExisting(h) \/ SaveProvider(h)
          \/ RequireProvider(h) \/ UpdateProvider(h) \/ DeleteProvider(h)
          \/ EditFails(h)
    \/ \E b \in Bots : SetAgentProviders(b) \/ SelectProvider(b)
    \/ Die(TRUE) \/ Die(FALSE)

ProviderSpec == ProviderInit /\ [][ProviderNext]_providerVars

(***************************************************************************)
(* Properties.                                                             *)
(***************************************************************************)
\* However handlers overlap and restarts fall, a stored key opens for its row
\* under the key the process uses or will read.
KeysOpen ==
    \A i \in Configured : configs[i].key # NoValue =>
        /\ Opens(configs[i].key, keyFile, i)
        /\ loaded \in {NoValue, keyFile}

\* The key a run of an agent gets was entered by somebody who may: for a
\* system row an administrator, else the agent's user.
RunsUseOwnKeys ==
    \A b \in Bots, name \in ProviderNames : \A i \in ProviderConfigs(b, name) :
        configs[i].key # NoValue =>
            configs[i].key.by \in
                IF configs[i].scope = "system" THEN Admins ELSE {BotOwner[b]}

\* Both.
ProvidersAreSound == KeysOpen /\ RunsUseOwnKeys
=============================================================================
