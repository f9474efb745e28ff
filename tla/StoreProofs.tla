---------------------------- MODULE StoreProofs ----------------------------
(***************************************************************************)
(* Proofs about the writers of the database: the configuration of          *)
(* providers, the import of the Go runtime's data, and the agent teams.    *)
(***************************************************************************)
EXTENDS AgentTeams, ProviderConfig, GoImport, FiniteSetTheorems, SequenceTheorems,
        WellFoundedInduction, TLAPS

-----------------------------------------------------------------------------
(***************************************************************************)
(* ProvidersAreSound for any number of requests, users, agents, rows and   *)
(* master keys.  The invariant adds to it what the records hold that       *)
(* requests in flight have read: they are written back, so they must be as *)
(* good as the rows, also when the row has changed or gone since.          *)
(***************************************************************************)

Scopes == {"user", "agent", "system"}

\* Who may enter the key of a row.
OwnersOf(scope, place) ==
    IF scope = "system" THEN Admins
    ELSE IF scope = "agent" THEN {BotOwner[place]} ELSE {place}

ProviderRows ==
    [scope : Scopes, place : Accounts \cup Bots \cup {NoValue}, name : ProviderNames,
     enabled : BOOLEAN, key : Ciphertexts \cup {NoValue}]

\* A key that opens for row id under `file`, entered by one who may.
KeyFits(key, file, id, scope, place) ==
    /\ key \in Ciphertexts \cup {NoValue}
    /\ key # NoValue => Opens(key, file, id) /\ key.by \in OwnersOf(scope, place)

RowFits(row, file, id) ==
    /\ row \in ProviderRows
    /\ KeyFits(row.key, file, id, row.scope, row.place)

KeyInv ==
    /\ keyFile \in MasterKeys \cup {NoValue, CutOff}
    /\ loaded \in {NoValue, keyFile}

RowsInv ==
    /\ DOMAIN configs = RowIds
    /\ \A i \in RowIds : configs[i] # NoValue => RowFits(configs[i], keyFile, i)

\* A request writes only where its user may, and what it read fits.
SaveFits(edit, file) ==
    /\ edit.user \in Accounts /\ edit.user \in OwnersOf(edit.slot.scope, edit.slot.place)
    /\ edit.slot.scope \in Scopes /\ edit.slot.name \in ProviderNames
    /\ edit.slot.place \in Accounts \cup Bots \cup {NoValue}
    /\ edit.id \in RowIds \cup {NoValue}
    /\ edit.seen # NoValue =>
          edit.id # NoValue /\ KeyFits(edit.seen.key, file, edit.id, edit.slot.scope, edit.slot.place)

UpdateFits(edit, file) ==
    /\ edit.id \in RowIds
    /\ RowFits(edit.seen, file, edit.id)
    /\ edit.user \in Accounts /\ edit.user \in OwnersOf(edit.seen.scope, edit.seen.place)

EditFits(edit, file) ==
    /\ edit.op = "save" => SaveFits(edit, file)
    /\ edit.op = "update" => UpdateFits(edit, file)
    /\ edit.op = "delete" => edit.id \in RowIds

EditsInv ==
    /\ DOMAIN editing = Editors
    /\ \A h \in Editors : EditFits(editing[h], keyFile)

\* The inductive invariant.
ProviderInv == KeyInv /\ RowsInv /\ EditsInv

-----------------------------------------------------------------------------
(* The key file. *)

\* The file stays, or is written for the first time.
FileStep == KeyInv' /\ (keyFile' = keyFile \/ keyFile = NoValue)

LEMMA LoadKeyStep ==
    ASSUME KeyInv, NEW k \in MasterKeys, LoadKey(k)
    PROVE  FileStep /\ keyFile' = k
  <1>1. CASE loaded = k /\ UNCHANGED <<keyFile, loaded>>
    BY <1>1, ProviderAssumption DEF KeyInv, FileStep
  <1>2. CASE loaded = NoValue /\ CreatesOrReads(k) /\ loaded' = k
    BY <1>2, ProviderAssumption DEF KeyInv, FileStep, CreatesOrReads
  <1>3. QED BY <1>1, <1>2 DEF LoadKey

\* No key fits a file that is not there, so those that fit go on fitting.
LEMMA KeyFitsOn ==
    ASSUME FileStep, NEW key, NEW id, NEW scope, NEW place,
           KeyFits(key, keyFile, id, scope, place)
    PROVE  KeyFits(key, keyFile', id, scope, place)
  <1>1. CASE keyFile' = keyFile
    BY <1>1 DEF KeyFits, Opens
  <1>2. CASE keyFile = NoValue
    <2>1. key = NoValue
      BY <1>2, ProviderAssumption DEF KeyFits, Opens, Ciphertexts
    <2>2. QED BY <2>1 DEF KeyFits
  <1>3. QED BY <1>1, <1>2 DEF FileStep

LEMMA RowFitsOn ==
    ASSUME FileStep, NEW row, NEW id, RowFits(row, keyFile, id)
    PROVE  RowFits(row, keyFile', id)
  BY KeyFitsOn DEF RowFits

LEMMA EditFitsOn ==
    ASSUME FileStep, NEW edit, EditFits(edit, keyFile)
    PROVE  EditFits(edit, keyFile')
  <1>1. SaveFits(edit, keyFile) => SaveFits(edit, keyFile')
    BY KeyFitsOn DEF SaveFits
  <1>2. UpdateFits(edit, keyFile) => UpdateFits(edit, keyFile')
    BY RowFitsOn DEF UpdateFits
  <1>3. QED BY <1>1, <1>2 DEF EditFits

\* What is encrypted fits, and so does what is kept.
LEMMA EncryptFits ==
    ASSUME KeyInv, NEW user \in Accounts, NEW id \in RowIds, NEW scope, NEW place,
           user \in OwnersOf(scope, place),
           NEW kept, KeyFits(kept, keyFile, id, scope, place),
           NEW key, Encrypt(user, id, kept, key)
    PROVE  FileStep /\ KeyFits(key, keyFile', id, scope, place)
  <1>1. CASE key = kept /\ UNCHANGED <<keyFile, loaded>>
    BY <1>1 DEF FileStep, KeyInv, KeyFits
  <1>2. ASSUME NEW k \in MasterKeys, LoadKey(k),
               key = [master |-> k, context |-> id, by |-> user]
        PROVE  FileStep /\ KeyFits(key, keyFile', id, scope, place)
    <2>1. FileStep /\ keyFile' = k
      BY <1>2, LoadKeyStep
    <2>2. key \in Ciphertexts /\ key.master = k /\ key.context = id /\ key.by = user
      BY <1>2 DEF Ciphertexts
    <2>3. QED BY <2>1, <2>2 DEF KeyFits, Opens
  <1>3. QED BY <1>1, <1>2 DEF Encrypt

\* No key yet is a key that fits.
LEMMA NoKeyFits ==
    ASSUME NEW file, NEW id, NEW scope, NEW place
    PROVE  KeyFits(NoValue, file, id, scope, place)
  BY DEF KeyFits

-----------------------------------------------------------------------------
(* Steps that write no row: what is stored and read goes on fitting. *)

LEMMA RowsOn == ASSUME RowsInv, FileStep, UNCHANGED configs PROVE RowsInv'
  BY RowFitsOn DEF RowsInv

\* A handler starts with an edit that fits, or ends.
LEMMA EditsOn ==
    ASSUME EditsInv, FileStep, NEW h \in Editors, NEW next, EditFits(next, keyFile),
           Proceeds(h, next)
    PROVE  EditsInv'
  <1>1. \A g \in Editors : editing'[g] = IF g = h THEN next ELSE editing[g]
    BY DEF Proceeds, EditsInv
  <1>2. QED BY <1>1, EditFitsOn DEF EditsInv, Proceeds

LEMMA EditsStay == ASSUME EditsInv, FileStep, UNCHANGED editing PROVE EditsInv'
  BY EditFitsOn DEF EditsInv

LEMMA NoEditFits == ASSUME NEW file PROVE EditFits(NotEditing, file)
  BY DEF EditFits, NotEditing

LEMMA FileStays == ASSUME KeyInv, UNCHANGED <<keyFile, loaded>> PROVE FileStep
  BY DEF FileStep, KeyInv

\* The scopes a user may write in are those whose keys it may enter.
LEMMA PlacesOwned ==
    ASSUME NEW user \in Accounts, NEW scope, NEW place,
           MayWrite(user, [scope |-> scope, place |-> place])
    PROVE  /\ user \in OwnersOf(scope, place) /\ scope \in Scopes
           /\ place \in Accounts \cup Bots \cup {NoValue}
  <1> DEFINE at == [scope |-> scope, place |-> place]
  <1>1. at.scope = scope /\ at.place = place
    OBVIOUS
  <1>2. CASE at = [scope |-> "user", place |-> user]
    BY <1>1, <1>2 DEF OwnersOf, Scopes
  <1>3. ASSUME NEW b \in Bots, BotOwner[b] = user, at = [scope |-> "agent", place |-> b]
        PROVE  /\ user \in OwnersOf(scope, place) /\ scope \in Scopes
               /\ place \in Accounts \cup Bots \cup {NoValue}
    BY <1>1, <1>3 DEF OwnersOf, Scopes
  <1>4. ASSUME user \in Admins, at = [scope |-> "system", place |-> NoValue]
        PROVE  /\ user \in OwnersOf(scope, place) /\ scope \in Scopes
               /\ place \in Accounts \cup Bots \cup {NoValue}
    BY <1>1, <1>4 DEF OwnersOf, Scopes
  <1>5. QED BY <1>2, <1>3, <1>4 DEF MayWrite, Places

-----------------------------------------------------------------------------
(* One lemma per action. *)

LEMMA InitProvides == ProviderInit => ProviderInv
  BY NoEditFits DEF ProviderInit, ProviderInv, KeyInv, RowsInv, EditsInv

LEMMA FindExistingKeeps ==
    ASSUME ProviderInv, NEW h \in Editors, FindExisting(h)
    PROVE  ProviderInv'
  <1>1. PICK user \in Accounts, name \in ProviderNames, at \in UNION {Places(x) : x \in Accounts} :
          /\ MayWrite(user, at)
          /\ LET slot == [scope |-> at.scope, place |-> at.place, name |-> name]
                 found == {i \in Configured : SlotOf(configs[i]) = slot}
             IN \E id \in IF found = {} THEN {NoValue} ELSE found :
                   Proceeds(h, [op |-> "save", user |-> user, id |-> id, slot |-> slot,
                        seen |-> IF id = NoValue THEN NoValue ELSE configs[id]])
          /\ UNCHANGED <<configs, keyFile, loaded>>
    BY DEF FindExisting
  <1> DEFINE slot == [scope |-> at.scope, place |-> at.place, name |-> name]
             found == {i \in Configured : SlotOf(configs[i]) = slot}
  <1>2. PICK id \in IF found = {} THEN {NoValue} ELSE found :
          Proceeds(h, [op |-> "save", user |-> user, id |-> id, slot |-> slot,
                       seen |-> IF id = NoValue THEN NoValue ELSE configs[id]])
    BY <1>1
  <1> DEFINE next == [op |-> "save", user |-> user, id |-> id, slot |-> slot,
                      seen |-> IF id = NoValue THEN NoValue ELSE configs[id]]
  <1>3. at = [scope |-> at.scope, place |-> at.place]
    BY <1>1 DEF Places, MayWrite
  <1>4. /\ user \in OwnersOf(slot.scope, slot.place) /\ slot.scope \in Scopes
        /\ slot.place \in Accounts \cup Bots \cup {NoValue} /\ slot.name = name
    BY <1>1, <1>3, PlacesOwned
  <1>5. id \in RowIds \cup {NoValue}
    BY DEF Configured
  <1>6. id # NoValue =>
          configs[id] # NoValue /\ id \in RowIds /\ SlotOf(configs[id]) = slot
    BY DEF Configured
  <1>7. id # NoValue => KeyFits(configs[id].key, keyFile, id, slot.scope, slot.place)
    BY <1>6 DEF ProviderInv, RowsInv, RowFits, SlotOf
  <1> HIDE DEF slot, found
  <1>8. /\ next.op = "save" /\ next.user = user /\ next.id = id /\ next.slot = slot
        /\ next.seen = IF id = NoValue THEN NoValue ELSE configs[id]
    OBVIOUS
  <1> HIDE DEF next
  <1>9. EditFits(next, keyFile)
    BY <1>4, <1>5, <1>7, <1>8 DEF EditFits, SaveFits
  <1>10. FileStep /\ UNCHANGED configs
    BY <1>1, FileStays DEF ProviderInv
  <1>11. EditsInv'
    BY <1>2, <1>9, <1>10, EditsOn DEF ProviderInv, next
  <1>12. QED BY <1>10, <1>11, RowsOn DEF ProviderInv, FileStep

\* Writing a row that fits, and ending.
LEMMA MergeKeeps ==
    ASSUME ProviderInv, NEW h \in Editors, FileStep, NEW id \in RowIds, NEW row,
           RowFits(row, keyFile', id), Merge(id, row), Proceeds(h, NotEditing)
    PROVE  ProviderInv'
  <1>1. DOMAIN configs' = RowIds
    BY DEF Merge, ProviderInv, RowsInv
  <1>2. \A i \in RowIds : configs'[i] = IF i = id THEN row ELSE configs[i]
    BY DEF Merge, ProviderInv, RowsInv
  <1>3. RowsInv'
    BY <1>1, <1>2, RowFitsOn DEF ProviderInv, RowsInv
  <1>4. EditsInv'
    BY NoEditFits, EditsOn DEF ProviderInv
  <1>5. QED BY <1>3, <1>4 DEF ProviderInv, FileStep

LEMMA SaveProviderKeeps ==
    ASSUME ProviderInv, NEW h \in Editors, SaveProvider(h)
    PROVE  ProviderInv'
  <1> DEFINE edit == editing[h]
             slot == edit.slot
             kept == IF edit.seen = NoValue THEN NoValue ELSE edit.seen.key
  <1>1. SaveFits(edit, keyFile)
    BY DEF SaveProvider, ProviderInv, EditsInv, EditFits
  <1>2. PICK id \in IF edit.id = NoValue THEN NewRowIds ELSE {edit.id},
             key \in {NoValue} \cup Ciphertexts :
          /\ Encrypt(edit.user, id, kept, key)
          /\ Merge(id, [scope |-> slot.scope, place |-> slot.place, name |-> slot.name,
                        enabled |-> TRUE, key |-> key])
    BY DEF SaveProvider
  <1>3. id \in RowIds /\ (edit.id # NoValue => id = edit.id)
    BY <1>1 DEF SaveFits, NewRowIds
  <1>4. KeyFits(kept, keyFile, id, slot.scope, slot.place)
    BY <1>1, <1>3, NoKeyFits DEF SaveFits
  <1> HIDE DEF kept
  <1>5. FileStep /\ KeyFits(key, keyFile', id, slot.scope, slot.place)
    BY <1>1, <1>2, <1>3, <1>4, EncryptFits DEF SaveFits, ProviderInv
  <1> DEFINE row == [scope |-> slot.scope, place |-> slot.place, name |-> slot.name,
                     enabled |-> TRUE, key |-> key]
  <1>6. row \in ProviderRows /\ row.scope = slot.scope /\ row.place = slot.place /\ row.key = key
    BY <1>1 DEF ProviderRows, SaveFits
  <1> HIDE DEF row
  <1>7. RowFits(row, keyFile', id)
    BY <1>5, <1>6 DEF RowFits
  <1>8. Merge(id, row) /\ Proceeds(h, NotEditing)
    BY <1>2 DEF row, SaveProvider
  <1>9. QED BY <1>3, <1>5, <1>7, <1>8, MergeKeeps

LEMMA RequireProviderKeeps ==
    ASSUME ProviderInv, NEW h \in Editors, RequireProvider(h)
    PROVE  ProviderInv'
  <1>1. PICK user \in Accounts, id \in Configured, op \in {"update", "delete"} :
          /\ MayWrite(user, [scope |-> configs[id].scope, place |-> configs[id].place])
          /\ Proceeds(h, IF op = "delete" THEN [NotEditing EXCEPT !.op = op, !.id = id]
                    ELSE [op |-> op, user |-> user, id |-> id, seen |-> configs[id],
                          slot |-> NoValue])
          /\ UNCHANGED <<configs, keyFile, loaded>>
    BY DEF RequireProvider
  <1>2. id \in RowIds /\ RowFits(configs[id], keyFile, id)
    BY DEF Configured, ProviderInv, RowsInv
  <1>3. user \in OwnersOf(configs[id].scope, configs[id].place)
    BY <1>1, PlacesOwned
  <1> DEFINE deleting == [NotEditing EXCEPT !.op = "delete", !.id = id]
             updating == [op |-> "update", user |-> user, id |-> id, seen |-> configs[id],
                          slot |-> NoValue]
  <1>4. EditFits(deleting, keyFile)
    BY <1>2 DEF EditFits, NotEditing
  <1>5. EditFits(updating, keyFile)
    BY <1>2, <1>3 DEF EditFits, UpdateFits
  <1>6. Proceeds(h, deleting) \/ Proceeds(h, updating)
    BY <1>1
  <1> HIDE DEF deleting, updating
  <1>7. FileStep /\ UNCHANGED configs
    BY <1>1, FileStays DEF ProviderInv
  <1>8. EditsInv'
    BY <1>4, <1>5, <1>6, <1>7, EditsOn DEF ProviderInv
  <1>9. QED BY <1>7, <1>8, RowsOn DEF ProviderInv, FileStep

LEMMA UpdateProviderKeeps ==
    ASSUME ProviderInv, NEW h \in Editors, UpdateProvider(h)
    PROVE  ProviderInv'
  <1> DEFINE edit == editing[h]
             seen == edit.seen
  <1>1. UpdateFits(edit, keyFile)
    BY DEF UpdateProvider, ProviderInv, EditsInv, EditFits
  <1>2. PICK name \in ProviderNames, on \in BOOLEAN, key \in {NoValue} \cup Ciphertexts :
          /\ Encrypt(edit.user, edit.id, seen.key, key)
          /\ Merge(edit.id, [seen EXCEPT !.name = name, !.enabled = on, !.key = key])
    BY DEF UpdateProvider
  <1>3. seen \in ProviderRows /\ KeyFits(seen.key, keyFile, edit.id, seen.scope, seen.place)
    BY <1>1 DEF UpdateFits, RowFits
  <1>4. FileStep /\ KeyFits(key, keyFile', edit.id, seen.scope, seen.place)
    BY <1>1, <1>2, <1>3, EncryptFits DEF UpdateFits, ProviderInv
  <1> DEFINE row == [seen EXCEPT !.name = name, !.enabled = on, !.key = key]
  <1>5. row \in ProviderRows /\ row.scope = seen.scope /\ row.place = seen.place /\ row.key = key
    BY <1>3 DEF ProviderRows
  <1> HIDE DEF row
  <1>6. RowFits(row, keyFile', edit.id)
    BY <1>4, <1>5 DEF RowFits
  <1>7. Merge(edit.id, row) /\ Proceeds(h, NotEditing)
    BY <1>2 DEF row, UpdateProvider
  <1>8. QED BY <1>1, <1>4, <1>6, <1>7, MergeKeeps DEF UpdateFits

LEMMA DeleteProviderKeeps ==
    ASSUME ProviderInv, NEW h \in Editors, DeleteProvider(h)
    PROVE  ProviderInv'
  <1>1. FileStep
    BY FileStays DEF DeleteProvider, ProviderInv
  <1>2. EditsInv'
    BY <1>1, NoEditFits, EditsOn DEF DeleteProvider, ProviderInv
  <1>3. DOMAIN configs' = RowIds /\ \A i \in RowIds : configs'[i] \in {NoValue, configs[i]}
    BY DEF DeleteProvider, ProviderInv, RowsInv
  <1>4. RowsInv'
    BY <1>1, <1>3, RowFitsOn DEF ProviderInv, RowsInv
  <1>5. QED BY <1>1, <1>2, <1>4 DEF ProviderInv, FileStep

LEMMA EditFailsKeeps ==
    ASSUME ProviderInv, NEW h \in Editors, EditFails(h)
    PROVE  ProviderInv'
  <1>1. FileStep
    BY FileStays, LoadKeyStep DEF EditFails, ProviderInv
  <1>2. QED BY <1>1, NoEditFits, EditsOn, RowsOn DEF EditFails, ProviderInv, FileStep

LEMMA SetAgentProvidersKeeps ==
    ASSUME ProviderInv, NEW b \in Bots, SetAgentProviders(b)
    PROVE  ProviderInv'
  <1> DEFINE own == {i \in Configured : configs[i].scope = "agent" /\ configs[i].place = b}
             Replace(kept) == [i \in RowIds |-> IF i \in own \ kept THEN NoValue ELSE configs[i]]
  <1>1. ASSUME configs' = Replace({}), UNCHANGED <<keyFile, loaded>>
        PROVE  FileStep /\ RowsInv'
    <2>1. FileStep
      BY <1>1, FileStays DEF ProviderInv
    <2>2. QED BY <1>1, <2>1, RowFitsOn DEF ProviderInv, RowsInv
  <1>2. ASSUME NEW name \in ProviderNames,
               NEW id \in (LET named == {i \in own : configs[i].name = name}
                           IN IF named = {} THEN NewRowIds ELSE named),
               NEW key \in {NoValue} \cup Ciphertexts,
               LET named == {i \in own : configs[i].name = name} IN
               /\ Encrypt(BotOwner[b], id, IF named = {} THEN NoValue ELSE configs[id].key, key)
               /\ configs' = [Replace(named) EXCEPT ![id] =
                     [scope |-> "agent", place |-> b, name |-> name, enabled |-> TRUE,
                      key |-> key]]
        PROVE  FileStep /\ RowsInv'
    <2> DEFINE named == {i \in own : configs[i].name = name}
               kept == IF named = {} THEN NoValue ELSE configs[id].key
               row == [scope |-> "agent", place |-> b, name |-> name, enabled |-> TRUE,
                       key |-> key]
    <2>1. id \in RowIds /\ (named # {} => id \in named)
      BY <1>2 DEF NewRowIds, Configured
    <2>2. KeyFits(kept, keyFile, id, "agent", b)
      <3>1. CASE named = {}
        BY <3>1, NoKeyFits
      <3>2. CASE named # {}
        BY <2>1, <3>2 DEF Configured, ProviderInv, RowsInv, RowFits
      <3>3. QED BY <3>1, <3>2
    <2>3. BotOwner[b] \in Accounts /\ BotOwner[b] \in OwnersOf("agent", b)
      BY ProviderAssumption DEF OwnersOf
    <2>4. Encrypt(BotOwner[b], id, kept, key)
      BY <1>2
    <2> HIDE DEF kept
    <2>5. FileStep /\ KeyFits(key, keyFile', id, "agent", b)
      BY <2>1, <2>2, <2>3, <2>4, EncryptFits DEF ProviderInv
    <2>6. row \in ProviderRows /\ row.scope = "agent" /\ row.place = b /\ row.key = key
      BY <2>5 DEF ProviderRows, Scopes, KeyFits
    <2>7. \A i \in RowIds : configs'[i] \in {NoValue, configs[i]} \/ (i = id /\ configs'[i] = row)
      BY <1>2
    <2>8. DOMAIN configs' = RowIds
      BY <1>2
    <2> HIDE DEF row, named
    <2>9. RowFits(row, keyFile', id)
      BY <2>5, <2>6 DEF RowFits
    <2>10. QED BY <2>5, <2>7, <2>8, <2>9, RowFitsOn DEF ProviderInv, RowsInv
  <1>3. FileStep /\ RowsInv'
    BY <1>1, <1>2 DEF SetAgentProviders
  <1>4. EditsInv'
    BY <1>3, EditsStay DEF SetAgentProviders, ProviderInv
  <1>5. QED BY <1>3, <1>4 DEF ProviderInv, FileStep

LEMMA SelectProviderKeeps ==
    ASSUME ProviderInv, NEW b \in Bots, SelectProvider(b)
    PROVE  ProviderInv'
  <1>1. FileStep
    BY LoadKeyStep DEF SelectProvider, ProviderInv
  <1>2. QED BY <1>1, RowsOn, EditsStay DEF SelectProvider, ProviderInv, FileStep

\* Also when it leaves an empty file: then no key was ever stored.
LEMMA DieKeeps ==
    ASSUME ProviderInv, NEW cutOff \in BOOLEAN, Die(cutOff)
    PROVE  ProviderInv'
  <1>1. FileStep
    BY DEF Die, ProviderInv, KeyInv, FileStep
  <1>2. EditsInv'
    BY NoEditFits DEF Die, EditsInv
  <1>3. QED BY <1>1, <1>2, RowsOn DEF Die, ProviderInv, FileStep

LEMMA ProviderStepInv == ProviderInv /\ [ProviderNext]_providerVars => ProviderInv'
  <1> SUFFICES ASSUME ProviderInv, [ProviderNext]_providerVars PROVE ProviderInv'
    OBVIOUS
  <1>1. CASE UNCHANGED providerVars
    BY <1>1, FileStays, RowsOn, EditsStay DEF providerVars, ProviderInv, FileStep
  <1>2. CASE ProviderNext
    BY <1>2, FindExistingKeeps, SaveProviderKeeps, RequireProviderKeeps, UpdateProviderKeeps,
       DeleteProviderKeeps, EditFailsKeeps, SetAgentProvidersKeeps, SelectProviderKeeps, DieKeeps
       DEF ProviderNext
  <1>3. QED BY <1>1, <1>2

LEMMA ProviderInvSuffices == ProviderInv => ProvidersAreSound
  <1> SUFFICES ASSUME ProviderInv PROVE ProvidersAreSound
    OBVIOUS
  <1>1. KeysOpen
    BY DEF ProviderInv, KeyInv, RowsInv, RowFits, KeyFits, KeysOpen, Configured
  <1>2. ASSUME NEW b \in Bots, NEW name \in ProviderNames, NEW i \in ProviderConfigs(b, name),
               configs[i].key # NoValue
        PROVE  configs[i].key.by \in
                  IF configs[i].scope = "system" THEN Admins ELSE {BotOwner[b]}
    <2>1. \/ i \in Layer("agent", b, name) \/ i \in Layer("user", BotOwner[b], name)
          \/ i \in Layer("system", NoValue, name)
      BY <1>2 DEF ProviderConfigs
    <2>2. /\ i \in Configured
          /\ \/ configs[i].scope = "agent" /\ configs[i].place = b
             \/ configs[i].scope = "user" /\ configs[i].place = BotOwner[b]
             \/ configs[i].scope = "system"
      BY <2>1 DEF Layer, SlotOf
    <2>3. configs[i].key.by \in OwnersOf(configs[i].scope, configs[i].place)
      BY <1>2, <2>2 DEF ProviderInv, RowsInv, RowFits, KeyFits, Configured
    <2>4. QED BY <2>2, <2>3 DEF OwnersOf
  <1>3. RunsUseOwnKeys
    BY <1>2 DEF RunsUseOwnKeys
  <1>4. QED BY <1>1, <1>3 DEF ProvidersAreSound

\* However requests overlap and whenever the process dies, a stored key opens
\* for its row, and a run is given a key its agent's user or an administrator
\* entered (save_provider, update_provider, update_agent, provider_selection,
\* CredentialCipher).
THEOREM ProvidersSound == ProviderSpec => []ProvidersAreSound
  BY InitProvides, ProviderStepInv, ProviderInvSuffices, PTL DEF ProviderSpec

-----------------------------------------------------------------------------
(***************************************************************************)
(* What the target holds, for any transactions of the Go runtime and any   *)
(* number of commands and edits: ImportsAreMerged for any number of        *)
(* operators, TargetIsWholeImports for one.                                *)
(***************************************************************************)

AllRows(n) == RowsOf(1 .. n)

\* The largest set of rows of the first n transactions without a dangling one,
\* and the rows of it that are imported.
Closed(n) == UNION {P \in SUBSET AllRows(n) : \A r \in P : ~ Dangling(P, r)}

Good(n) == {r \in Closed(n) : ~ Repeated(Closed(n), r)}

GoodImport(n) == [snapshot |-> 1 .. n, rows |-> Good(n)]

\* What is found in some rows is found in more of them.
LEMMA FoundInMore ==
    ASSUME NEW Q, NEW P \in SUBSET Q, NEW r, ~ Dangling(P, r)
    PROVE  ~ Dangling(Q, r)
  <1>1. \A table : IdsOf(P, table) \subseteq IdsOf(Q, table)
    BY DEF IdsOf
  <1>2. QED BY <1>1 DEF Dangling

\* Nothing dangles in the largest set, and it is the largest.
LEMMA ClosedIsLargest ==
    ASSUME NEW n
    PROVE  /\ Closed(n) \subseteq AllRows(n)
           /\ \A r \in Closed(n) : ~ Dangling(Closed(n), r)
           /\ \A P \in SUBSET AllRows(n) :
                 (\A r \in P : ~ Dangling(P, r)) => P \subseteq Closed(n)
  <1>1. \A P \in SUBSET AllRows(n) : (\A r \in P : ~ Dangling(P, r)) => P \subseteq Closed(n)
    BY DEF Closed
  <1>2. ASSUME NEW r \in Closed(n) PROVE ~ Dangling(Closed(n), r)
    <2>1. PICK P \in SUBSET AllRows(n) : r \in P /\ \A x \in P : ~ Dangling(P, x)
      BY DEF Closed
    <2>2. QED BY <1>1, <2>1, FoundInMore
  <1>3. QED BY <1>1, <1>2 DEF Closed

\* Rows of the first transactions that fill the same slot refer to the same.
LEMMA SlotsAgree ==
    ASSUME NEW n \in 0 .. Len(Wrote), NEW r \in AllRows(n), NEW x \in AllRows(n),
           SameSlot(r, x)
    PROVE  /\ x.user = r.user /\ x.agent = r.agent /\ x.key = r.key
           /\ x.table = "configs" /\ r.table = "configs"
           /\ x.place \in Nat /\ r.place \in Nat
  <1>1. AllRows(n) \subseteq UNION {Wrote[i] : i \in 1 .. Len(Wrote)}
    BY WroteAssumption DEF AllRows, RowsOf
  <1>2. SameSlot(r, r)
    BY DEF SameSlot
  <1>3. QED BY <1>1, <1>2, WroteAssumption DEF SameSlot

\* No good row is ever rejected, whatever rejectable rows are still there.
LEMMA GoodHasNoIssue ==
    ASSUME NEW n \in 0 .. Len(Wrote), NEW rows \in SUBSET AllRows(n), Good(n) \subseteq rows,
           NEW g \in Good(n)
    PROVE  g \notin ReferenceIssues(rows)
  <1>1. g \in Closed(n) /\ ~ Repeated(Closed(n), g) /\ ~ Dangling(Closed(n), g)
    BY ClosedIsLargest DEF Good
  <1>2. ~ Dangling(Good(n), g)
    <2>1. \A x \in Closed(n) : x.table # "configs" => x \in Good(n)
      BY DEF Good, Repeated, SameSlot
    <2>2. \A table \in {"users", "agents", "apikeys"} :
              IdsOf(Closed(n), table) \subseteq IdsOf(Good(n), table)
      BY <2>1 DEF IdsOf
    <2>3. QED BY <1>1, <2>1, <2>2 DEF Dangling
  <1>3. ~ Dangling(rows, g)
    BY <1>2, FoundInMore
  <1>4. ASSUME NEW x \in rows, SameSlot(g, x), x.place < g.place PROVE FALSE
    <2>1. g \in AllRows(n)
      BY <1>1, ClosedIsLargest
    <2>2. /\ x.user = g.user /\ x.agent = g.agent /\ x.key = g.key
          /\ x.table = "configs" /\ g.table = "configs"
      BY <1>4, <2>1, SlotsAgree
    <2>3. ~ Dangling(Closed(n), x)
      BY <1>1, <2>2 DEF Dangling
    <2>4. \A r \in Closed(n) \cup {x} : ~ Dangling(Closed(n) \cup {x}, r)
      BY <2>3, ClosedIsLargest, FoundInMore
    <2>5. x \in Closed(n)
      BY <2>4, ClosedIsLargest, SMTT(30)
    <2>6. QED BY <1>1, <1>4, <2>5 DEF Repeated
  <1>5. QED BY <1>3, <1>4 DEF ReferenceIssues, Repeated

\* A set of numbers that is not empty has a least element.
LEMMA LeastPlace ==
    ASSUME NEW T \in SUBSET Nat, T # {}
    PROVE  \E n \in T : \A m \in T : n <= m
  <1> DEFINE less == {pair \in Nat \X Nat : pair[1] < pair[2]}
  <1>1. IsWellFoundedOn(less, Nat)
    BY NatLessThanWellFounded DEF OpToRel
  <1>2. PICK n \in T : \A m \in T : ~ (<<m, n>> \in less)
    <2> HIDE DEF less
    <2> QED BY <1>1, WFMin
  <1>3. \A m \in T : ~ (m < n)
    BY <1>2
  <1> QED BY <1>3

\* Rows without an issue that keep the good rows are the good rows.
LEMMA NoIssueIsGood ==
    ASSUME NEW n \in 0 .. Len(Wrote), NEW rows \in SUBSET AllRows(n), Good(n) \subseteq rows,
           ReferenceIssues(rows) = {}
    PROVE  rows = Good(n)
  <1>1. \A r \in rows : ~ Dangling(rows, r) /\ ~ Repeated(rows, r)
    BY DEF ReferenceIssues
  <1>2. rows \subseteq Closed(n)
    BY <1>1, ClosedIsLargest
  <1>3. ASSUME NEW r \in rows, Repeated(Closed(n), r) PROVE FALSE
    <2> DEFINE same == {x \in Closed(n) : SameSlot(r, x)}
               places == {x.place : x \in same}
    <2>1. \A x \in same : x.place \in Nat /\ r.place \in Nat
      BY <1>2, ClosedIsLargest, SlotsAgree
    <2>2. PICK y \in same : y.place < r.place
      BY <1>3 DEF Repeated
    <2>3. PICK x \in same : \A z \in same : x.place <= z.place
      <3>1. places \in SUBSET Nat /\ places # {}
        BY <2>1, <2>2
      <3>2. PICK p \in places : \A m \in places : p <= m
        BY <3>1, LeastPlace
      <3>3. QED BY <3>2
    <2>4. x.place < r.place
      BY <2>1, <2>2, <2>3
    <2>5. ~ Repeated(Closed(n), x)
      <3> SUFFICES ASSUME NEW z \in Closed(n), SameSlot(x, z), z.place < x.place PROVE FALSE
        BY DEF Repeated
      <3>1. z \in same
        BY <2>3 DEF SameSlot
      <3>2. QED BY <2>1, <2>3, <3>1
    <2>6. x \in rows
      BY <2>3, <2>5 DEF Good
    <2>7. QED BY <1>1, <2>3, <2>4, <2>6 DEF Repeated
  <1>4. QED BY <1>2, <1>3 DEF Good

\* The files of the database hold what was committed, and nothing else.
FilesInv ==
    /\ last \in 0 .. Len(Wrote)
    /\ db \subseteq 1 .. last /\ wal \subseteq 1 .. last
    /\ 1 .. last \subseteq db \cup wal

Contents == SUBSET Nat

\* What a command has read of the two files: the file only grows, and when the
\* copy of the log was made, the two of them were the transactions to some n.
ReadsFit(reads, file, latest) ==
    /\ reads \in Seq(Contents) /\ Len(reads) <= 6
    /\ Len(reads) >= 1 => reads[1] \subseteq file
    /\ Len(reads) >= 3 => reads[1] \subseteq reads[3] /\ reads[3] \subseteq file
    /\ Len(reads) >= 4 =>
          \E then \in SUBSET file, n \in 0 .. latest :
             /\ reads[3] \subseteq then /\ then \cup reads[4] = 1 .. n
             /\ Len(reads) >= 5 => then \subseteq reads[5]

\* The rows of a snapshot, all of them that are good at least.
RowsStaged(snapshot, rows, checked) ==
    \E n \in 0 .. Len(Wrote) :
       /\ snapshot = 1 .. n
       /\ Good(n) \subseteq rows /\ rows \subseteq AllRows(n)
       /\ checked => rows = Good(n)

CommandFits(c, file, latest) ==
    /\ c.pc = "snapshot" =>
          c = [pc |-> "snapshot", reads |-> c.reads] /\ ReadsFit(c.reads, file, latest)
    /\ c.pc \in {"policy", "check", "write"} =>
          /\ c = [pc |-> c.pc, policy |-> c.policy, snapshot |-> c.snapshot, rows |-> c.rows]
          /\ RowsStaged(c.snapshot, c.rows, c.pc # "policy")
    /\ c.pc = "copy" => c = [pc |-> "copy", found |-> c.found, todo |-> c.todo]

CommandsInv ==
    /\ DOMAIN command = Operators
    /\ \A o \in Operators : CommandFits(command[o], db, last)

\* The inductive invariant.
ImportInv == FilesInv /\ CommandsInv /\ ImportsAreMerged

\* What was read goes on fitting while the file grows.
LEMMA ReadsFitOn ==
    ASSUME NEW file, NEW more, file \subseteq more, NEW old \in Nat, NEW new \in Nat, old <= new,
           NEW reads, ReadsFit(reads, file, old)
    PROVE  ReadsFit(reads, more, new)
  <1>1. 0 .. old \subseteq 0 .. new
    OBVIOUS
  <1>2. QED BY <1>1 DEF ReadsFit

LEMMA CommandFitsOn ==
    ASSUME NEW file, NEW more, file \subseteq more, NEW old \in Nat, NEW new \in Nat, old <= new,
           NEW c, CommandFits(c, file, old)
    PROVE  CommandFits(c, more, new)
  BY ReadsFitOn DEF CommandFits

\* The files grow or stay, and an operator goes on with a command that fits.
FilesOn == FilesInv' /\ db \subseteq db' /\ last <= last'

LEMMA FilesStay == ASSUME FilesInv, UNCHANGED <<db, wal, last>> PROVE FilesOn
  BY WroteAssumption DEF FilesInv, FilesOn

LEMMA OthersGoOn ==
    ASSUME FilesInv, CommandsInv, FilesOn, UNCHANGED command
    PROVE  CommandsInv'
  <1>1. last \in Nat /\ last' \in Nat
    BY WroteAssumption DEF FilesInv, FilesOn
  <1>2. \A o \in Operators : CommandFits(command'[o], db', last')
    BY <1>1, CommandFitsOn DEF CommandsInv, FilesOn
  <1>3. QED BY <1>2 DEF CommandsInv

LEMMA CommandGoesOn ==
    ASSUME FilesInv, CommandsInv, UNCHANGED <<db, wal, last>>, NEW o \in Operators, NEW c,
           Goto(o, c), CommandFits(c, db, last)
    PROVE  CommandsInv'
  <1>1. \A p \in Operators : command'[p] = IF p = o THEN c ELSE command[p]
    BY DEF Goto, CommandsInv
  <1>2. \A p \in Operators : CommandFits(command'[p], db', last')
    BY <1>1 DEF CommandsInv
  <1>3. DOMAIN command' = Operators
    BY DEF Goto, CommandsInv
  <1>4. QED BY <1>2, <1>3 DEF CommandsInv

LEMMA IdleFits == ASSUME NEW file, NEW latest PROVE CommandFits(Idle, file, latest)
  BY DEF CommandFits, Idle

LEMMA TargetStays ==
    ASSUME ImportsAreMerged, UNCHANGED <<target, runs>>
    PROVE  ImportsAreMerged'
  BY DEF ImportsAreMerged

\* A good import is one of those there should be.
LEMMA GoodIsGood == \A n \in 0 .. Len(Wrote) : GoodImport(n) \in GoodImports
  BY DEF GoodImport, GoodImports, Good, Closed, AllRows

\* The rows of good imports were written by Go, and their ids name them.
LEMMA IdsNameRows ==
    ASSUME NEW i \in GoodImports, NEW k \in GoodImports, NEW r \in i.rows, NEW x \in k.rows,
           r.table = x.table, r.id = x.id
    PROVE  r = x
  <1>1. ASSUME NEW m \in GoodImports
        PROVE  m.rows \subseteq UNION {Wrote[n] : n \in 1 .. Len(Wrote)}
    <2>1. PICK n \in 0 .. Len(Wrote) : m = GoodImport(n)
      BY DEF GoodImports, GoodImport, Good, Closed, AllRows
    <2>2. m.rows \subseteq AllRows(n)
      BY <2>1, ClosedIsLargest DEF GoodImport, Good
    <2>3. AllRows(n) \subseteq UNION {Wrote[l] : l \in 1 .. Len(Wrote)}
      BY WroteAssumption DEF AllRows, RowsOf
    <2>4. QED BY <2>2, <2>3
  <1>2. QED BY <1>1, WroteAssumption

-----------------------------------------------------------------------------
(* One lemma per action. *)

LEMMA ImportInitInv == ImportInit => ImportInv
  <1> SUFFICES ASSUME ImportInit PROVE ImportInv
    OBVIOUS
  <1>1. FilesInv
    BY WroteAssumption DEF ImportInit, FilesInv
  <1>2. CommandsInv
    BY IdleFits DEF ImportInit, CommandsInv
  <1>3. ImportsAreMerged
    <2> DEFINE done == {}
    <2>1. done \in SUBSET GoodImports /\ runs = {i.snapshot : i \in done}
          /\ target = UNION {i.rows : i \in done}
      BY DEF ImportInit
    <2>2. QED BY <2>1 DEF ImportsAreMerged
  <1>4. QED BY <1>1, <1>2, <1>3 DEF ImportInv

LEMMA GoCommitKeeps == ASSUME ImportInv, GoCommit PROVE ImportInv'
  <1>1. last \in 0 .. Len(Wrote) /\ last + 1 \in 0 .. Len(Wrote) /\ last' = last + 1
    BY WroteAssumption DEF ImportInv, FilesInv, GoCommit
  <1>2. 1 .. last + 1 = (1 .. last) \cup {last + 1} /\ last <= last + 1
    BY <1>1, WroteAssumption
  <1>3. /\ db \subseteq 1 .. last /\ wal \subseteq 1 .. last /\ 1 .. last \subseteq db \cup wal
        /\ db' = db
        /\ wal' = wal \cup {last'} \/ (wal \subseteq db /\ wal' = {last'})
    BY DEF ImportInv, FilesInv, GoCommit
  <1>4. FilesOn
    BY <1>1, <1>2, <1>3 DEF FilesInv, FilesOn
  <1>5. QED BY <1>4, OthersGoOn, TargetStays DEF ImportInv, GoCommit, FilesOn

LEMMA GoCheckpointKeeps == ASSUME ImportInv, GoCheckpoint PROVE ImportInv'
  <1>1. FilesOn
    BY WroteAssumption DEF ImportInv, FilesInv, FilesOn, GoCheckpoint
  <1>2. QED BY <1>1, OthersGoOn, TargetStays DEF ImportInv, GoCheckpoint, FilesOn

LEMMA GoCloseKeeps == ASSUME ImportInv, GoClose PROVE ImportInv'
  <1>1. FilesOn
    BY WroteAssumption DEF ImportInv, FilesInv, FilesOn, GoClose
  <1>2. QED BY <1>1, OthersGoOn, TargetStays DEF ImportInv, GoClose, FilesOn

LEMMA EditAssetKeeps == ASSUME ImportInv, NEW f, EditAsset(f) PROVE ImportInv'
  BY FilesStay, OthersGoOn, TargetStays DEF ImportInv, EditAsset, FilesOn

\* A step of a command that leaves the files and the target alone.
LEMMA StepKeeps ==
    ASSUME ImportInv, NEW o \in Operators, NEW c, Goto(o, c), CommandFits(c, db, last),
           UNCHANGED <<db, wal, last, target, runs>>
    PROVE  ImportInv'
  BY FilesStay, CommandGoesOn, TargetStays DEF ImportInv, FilesOn

LEMMA StartImportKeeps == ASSUME ImportInv, NEW o \in Operators, StartImport(o) PROVE ImportInv'
  <1> DEFINE c == [pc |-> "snapshot", reads |-> <<>>]
  <1>1. CommandFits(c, db, last)
    BY DEF CommandFits, ReadsFit
  <1>2. QED BY <1>1, StepKeeps DEF StartImport

\* A file is read after what was read of it before.
LEMMA ReadsFitMore ==
    ASSUME NEW file \in Contents, NEW log \in Contents, NEW latest \in Nat,
           file \cup log = 1 .. latest,
           NEW reads, ReadsFit(reads, file, latest), NEW k \in 0 .. 5, Len(reads) = k,
           NEW one, one = IF k % 2 = 0 THEN file ELSE log
    PROVE  ReadsFit(Append(reads, one), file, latest)
  <1> DEFINE more == Append(reads, one)
  <1>1. reads \in Seq(Contents) /\ one \in Contents /\ Len(reads) \in Nat
    BY DEF ReadsFit
  <1>2. /\ more \in Seq(Contents) /\ Len(more) = Len(reads) + 1
        /\ \A i \in 1 .. Len(reads) : more[i] = reads[i]
        /\ more[Len(reads) + 1] = one
    BY <1>1
  <1> HIDE DEF more
  <1>3. Len(more) = k + 1
    BY <1>2
  <1>4. /\ Len(reads) \in {0, 2, 4} => one = file
        /\ Len(reads) = 3 => one = log
    <2>1. 0 % 2 = 0 /\ 2 % 2 = 0 /\ 4 % 2 = 0 /\ 3 % 2 = 1
      OBVIOUS
    <2>2. k = 3 => k % 2 # 0
      BY <2>1
    <2>3. k \in {0, 2, 4} => k % 2 = 0
      BY <2>1
    <2>4. QED BY <2>2, <2>3
  <1>5. Len(more) >= 1 => more[1] \subseteq file
    BY <1>1, <1>2, <1>4 DEF ReadsFit
  <1>6. Len(more) >= 3 => more[1] \subseteq more[3] /\ more[3] \subseteq file
    <2>1. CASE Len(reads) = 2
      BY <1>2, <1>4, <1>5, <2>1
    <2>2. CASE Len(reads) >= 3
      BY <1>1, <1>2, <2>2 DEF ReadsFit
    <2>3. Len(more) >= 3 => Len(reads) = 2 \/ Len(reads) >= 3
      BY <1>3
    <2>4. QED BY <2>1, <2>2, <2>3, Zenon
  <1>7. Len(more) >= 4 =>
          \E then \in SUBSET file, n \in 0 .. latest :
             /\ more[3] \subseteq then /\ then \cup more[4] = 1 .. n
             /\ Len(more) >= 5 => then \subseteq more[5]
    <2>1. CASE Len(reads) = 3
      <3>1. more[3] \subseteq file /\ file \cup more[4] = 1 .. latest /\ ~ (Len(more) >= 5)
        BY <1>2, <1>4, <1>6, <2>1
      <3>2. file \in SUBSET file /\ latest \in 0 .. latest
        OBVIOUS
      <3>3. QED BY <3>1, <3>2
    <2>2. CASE Len(reads) >= 4
      <3>1. PICK then \in SUBSET file, n \in 0 .. latest :
             /\ reads[3] \subseteq then /\ then \cup reads[4] = 1 .. n
             /\ Len(reads) >= 5 => then \subseteq reads[5]
        BY <2>2 DEF ReadsFit
      <3>2. more[3] = reads[3] /\ more[4] = reads[4]
        BY <1>1, <1>2, <2>2
      <3>3. Len(more) >= 5 => then \subseteq more[5]
        <4>1. CASE Len(reads) = 4
          BY <1>2, <1>4, <4>1
        <4>2. CASE Len(reads) >= 5
          BY <1>1, <1>2, <3>1, <4>2
        <4>3. Len(reads) = 4 \/ Len(reads) >= 5
          BY <1>3, <2>2
        <4>4. QED BY <4>1, <4>2, <4>3, Zenon
      <3>4. QED BY <3>1, <3>2, <3>3
    <2>3. Len(more) >= 4 => Len(reads) = 3 \/ Len(reads) >= 4
      BY <1>3
    <2>4. QED BY <2>1, <2>2, <2>3, Zenon
  <1>8. Len(more) <= 6
    BY <1>1, <1>2
  <1>9. ReadsFit(more, file, latest)
    BY <1>2, <1>5, <1>6, <1>7, <1>8 DEF ReadsFit
  <1>10. QED BY <1>9 DEF more

LEMMA ReadFileKeeps == ASSUME ImportInv, NEW o \in Operators, ReadFile(o) PROVE ImportInv'
  <1> DEFINE reads == command[o].reads
             more == Append(reads, IF Len(reads) % 2 = 0 THEN db ELSE wal)
             c == [pc |-> "snapshot", reads |-> more]
  <1>1. /\ command[o] = [pc |-> "snapshot", reads |-> reads]
        /\ ReadsFit(reads, db, last) /\ Len(reads) \in 0 .. 5
    <2>1. /\ command[o] = [pc |-> "snapshot", reads |-> reads]
          /\ ReadsFit(reads, db, last) /\ Len(reads) < 6
      BY DEF ReadFile, ImportInv, CommandsInv, CommandFits
    <2> DEFINE k == Len(reads)
    <2>2. k \in Nat /\ k < 6
      BY <2>1 DEF ReadsFit
    <2> HIDE DEF k
    <2>3. k \in 0 .. 5
      BY <2>2
    <2>4. QED BY <2>1, <2>3 DEF k
  <1>2. last \in Nat /\ db \in Contents /\ wal \in Contents /\ db \cup wal = 1 .. last
    <2>1. last \in Nat /\ db \subseteq 1 .. last /\ wal \subseteq 1 .. last
          /\ 1 .. last \subseteq db \cup wal
      BY WroteAssumption DEF ImportInv, FilesInv
    <2>2. 1 .. last \subseteq Nat
      BY <2>1
    <2>3. QED BY <2>1, <2>2 DEF Contents
  <1>3. ReadsFit(more, db, last)
    BY <1>1, <1>2, ReadsFitMore
  <1>4. Goto(o, [command[o] EXCEPT !.reads = more])
    BY DEF ReadFile
  <1> HIDE DEF more, reads
  <1>5. [command[o] EXCEPT !.reads = more] = c
    BY <1>1
  <1>6. CommandFits(c, db, last)
    BY <1>3 DEF CommandFits
  <1>7. Goto(o, c)
    BY <1>4, <1>5
  <1>8. QED BY <1>6, <1>7, StepKeeps DEF ReadFile

\* The copy is what the Go database held when the log was copied: had the file
\* grown since it was copied, the second manifest would not be the first.
LEMMA StageKeeps == ASSUME ImportInv, NEW o \in Operators, Stage(o) PROVE ImportInv'
  <1> DEFINE reads == command[o].reads
             snapshot == reads[3] \cup reads[4]
             Staged(policy) == [pc |-> "policy", policy |-> policy, snapshot |-> snapshot,
                                rows |-> RowsOf(snapshot)]
  <1>1. ReadsFit(reads, db, last) /\ Len(reads) = 6 /\ last \in 0 .. Len(Wrote)
    BY DEF Stage, ImportInv, FilesInv, CommandsInv, CommandFits
  <1> HIDE DEF reads
  <1>2. ASSUME Stable(reads), NEW policy PROVE CommandFits(Staged(policy), db, last)
    <2>1. PICK then \in SUBSET db, n \in 0 .. last :
             /\ reads[3] \subseteq then /\ then \cup reads[4] = 1 .. n
             /\ then \subseteq reads[5]
      <3>1. Len(reads) >= 4 /\ Len(reads) >= 5
        BY <1>1
      <3>2. QED BY <1>1, <3>1 DEF ReadsFit
    <2>2. reads[1] \subseteq reads[3] /\ reads[1] = reads[5]
      BY <1>1, <1>2 DEF ReadsFit, Stable
    <2>3. snapshot = 1 .. n /\ n \in 0 .. Len(Wrote)
      <3>1. then = reads[3]
        BY <2>1, <2>2
      <3>2. QED BY <1>1, <2>1, <3>1, WroteAssumption
    <2>4. Good(n) \subseteq AllRows(n)
      BY ClosedIsLargest DEF Good
    <2>5. RowsStaged(snapshot, RowsOf(snapshot), FALSE)
      BY <2>3, <2>4 DEF RowsStaged, AllRows
    <2> HIDE DEF snapshot
    <2>6. QED BY <2>5 DEF CommandFits
  <1>3. Goto(o, Idle) \/ (Stable(reads) /\ \E policy \in {"reject", "quarantine"} :
                                              Goto(o, Staged(policy)))
    BY DEF Stage, reads
  <1> HIDE DEF Staged
  <1>4. QED BY <1>2, <1>3, IdleFits, StepKeeps DEF Stage

LEMMA ApplyPolicyKeeps == ASSUME ImportInv, NEW o \in Operators, ApplyPolicy(o) PROVE ImportInv'
  <1> DEFINE c == command[o]
             issues == ReferenceIssues(c.rows)
             Policy(pc, rows) == [pc |-> pc, policy |-> c.policy, snapshot |-> c.snapshot,
                                  rows |-> rows]
  <1>1. c = Policy("policy", c.rows) /\ RowsStaged(c.snapshot, c.rows, FALSE)
    BY DEF ApplyPolicy, ImportInv, CommandsInv, CommandFits
  <1>2. PICK n \in 0 .. Len(Wrote) :
          c.snapshot = 1 .. n /\ Good(n) \subseteq c.rows /\ c.rows \subseteq AllRows(n)
    BY <1>1 DEF RowsStaged
  <1>3. ASSUME issues = {} PROVE CommandFits(Policy("check", c.rows), db, last)
    <2>1. RowsStaged(c.snapshot, c.rows, TRUE)
      BY <1>2, <1>3, NoIssueIsGood DEF RowsStaged
    <2>2. QED BY <2>1 DEF CommandFits
  <1>4. CommandFits(Policy("policy", c.rows \ issues), db, last)
    <2>1. Good(n) \subseteq c.rows \ issues
      BY <1>2, GoodHasNoIssue
    <2>2. RowsStaged(c.snapshot, c.rows \ issues, FALSE)
      BY <1>2, <2>1 DEF RowsStaged
    <2>3. QED BY <2>2 DEF CommandFits
  <1>5. \/ issues = {} /\ Goto(o, [c EXCEPT !.pc = "check"])
        \/ Goto(o, Idle)
        \/ Goto(o, [c EXCEPT !.rows = c.rows \ issues])
    BY DEF ApplyPolicy
  <1>6. /\ [c EXCEPT !.pc = "check"] = Policy("check", c.rows)
        /\ [c EXCEPT !.rows = c.rows \ issues] = Policy("policy", c.rows \ issues)
    <2> DEFINE policy == c.policy
               snapshot == c.snapshot
               rows == c.rows
               left == c.rows \ issues
               Policed(pc, some) == [pc |-> pc, policy |-> policy, snapshot |-> snapshot,
                                     rows |-> some]
    <2>1. c = Policed("policy", rows)
      BY <1>1
    <2> HIDE DEF policy, snapshot, rows, left, c
    <2>2. /\ [c EXCEPT !.pc = "check"] = Policed("check", rows)
          /\ [c EXCEPT !.rows = left] = Policed("policy", left)
      BY <2>1
    <2>3. QED BY <2>2 DEF policy, snapshot, rows, left
  <1> HIDE DEF Policy, issues, c
  <1>7. QED BY <1>3, <1>4, <1>5, <1>6, IdleFits, StepKeeps DEF ApplyPolicy

LEMMA CheckTargetKeeps == ASSUME ImportInv, NEW o \in Operators, CheckTarget(o) PROVE ImportInv'
  <1> DEFINE c == command[o]
             next == [pc |-> "write", policy |-> c.policy, snapshot |-> c.snapshot,
                      rows |-> c.rows]
  <1>1. /\ c = [pc |-> "check", policy |-> c.policy, snapshot |-> c.snapshot, rows |-> c.rows]
        /\ RowsStaged(c.snapshot, c.rows, TRUE)
    BY DEF CheckTarget, ImportInv, CommandsInv, CommandFits
  <1>2. CommandFits(next, db, last)
    BY <1>1 DEF CommandFits
  <1>3. [c EXCEPT !.pc = "write"] = next
    BY <1>1
  <1>4. Goto(o, [c EXCEPT !.pc = "write"]) \/ Goto(o, Idle)
    BY DEF CheckTarget
  <1> HIDE DEF c, next
  <1>5. QED BY <1>2, <1>3, <1>4, IdleFits, StepKeeps DEF CheckTarget

\* What is written is a good import, and is recorded with it.
LEMMA WriteImportKeeps == ASSUME ImportInv, NEW o \in Operators, WriteImport(o) PROVE ImportInv'
  <1> DEFINE c == command[o]
  <1>1. PICK n \in 0 .. Len(Wrote) : c.snapshot = 1 .. n /\ c.rows = Good(n)
    BY DEF WriteImport, ImportInv, CommandsInv, CommandFits, RowsStaged
  <1>2. FilesOn /\ CommandsInv'
    BY FilesStay, IdleFits, CommandGoesOn DEF WriteImport, ImportInv
  <1>3. ImportsAreMerged'
    <2>1. CASE UNCHANGED <<target, runs>>
      BY <2>1, TargetStays DEF ImportInv
    <2>2. CASE /\ target' = {x \in target : ~ Replaces(c.rows, x)} \cup c.rows
               /\ runs' = runs \cup {c.snapshot}
      <3>1. PICK done \in SUBSET GoodImports :
              /\ runs = {i.snapshot : i \in done}
              /\ target \subseteq UNION {i.rows : i \in done}
              /\ \A r \in (UNION {i.rows : i \in done}) \ target : r.table = KeyAgents
        <4>1. ImportsAreMerged
          BY DEF ImportInv
        <4>2. QED BY <4>1, Zenon DEF ImportsAreMerged
      <3> DEFINE more == done \cup {GoodImport(n)}
                 all == UNION {i.rows : i \in more}
      <3>2. more \in SUBSET GoodImports
        BY GoodIsGood
      <3>3. GoodImport(n).snapshot = c.snapshot /\ GoodImport(n).rows = c.rows
        BY <1>1 DEF GoodImport
      <3>4. runs' = {i.snapshot : i \in more} /\ target' \subseteq all
        BY <2>2, <3>1, <3>3
      <3>5. ASSUME NEW r \in all \ target' PROVE r.table = KeyAgents
        <4>1. PICK i \in done : r \in i.rows /\ r \notin c.rows
          BY <2>2, <3>3, <3>5
        <4>2. CASE r \notin target
          <5>1. r \in (UNION {k.rows : k \in done}) \ target
            BY <4>1, <4>2
          <5>2. QED BY <3>1, <5>1
        <4>3. CASE r \in target
          <5>1. PICK x \in c.rows :
                  x.table = r.table /\ (x.id = r.id \/ r.table = KeyAgents)
            BY <2>2, <3>5, <4>3 DEF Replaces
          <5>2. x.id # r.id
            BY <3>2, <3>3, <4>1, <5>1, IdsNameRows
          <5>3. QED BY <5>1, <5>2
        <4>4. QED BY <4>2, <4>3
      <3> HIDE DEF more
      <3>6. QED BY <3>2, <3>4, <3>5 DEF ImportsAreMerged
    <2>3. QED BY <2>1, <2>2 DEF WriteImport
  <1>4. QED BY <1>2, <1>3 DEF ImportInv, FilesOn

LEMMA AssetsKeep ==
    ASSUME ImportInv, NEW o \in Operators,
           CollectAssets(o) \/ CompareAssets(o) \/ CopyAsset(o) \/ Crash(o)
    PROVE  ImportInv'
  <1>1. ASSUME NEW found PROVE CommandFits([pc |-> "compare", found |-> found], db, last)
    BY DEF CommandFits
  <1>2. ASSUME NEW found, NEW todo
        PROVE  CommandFits([pc |-> "copy", found |-> found, todo |-> todo], db, last)
    BY DEF CommandFits
  <1>3. CASE CollectAssets(o)
    BY <1>1, <1>3, StepKeeps DEF CollectAssets
  <1>4. CASE CompareAssets(o)
    BY <1>2, <1>4, IdleFits, StepKeeps DEF CompareAssets
  <1>5. CASE CopyAsset(o)
    <2> DEFINE c == command[o]
               found == c.found
    <2>1. c = [pc |-> "copy", found |-> found, todo |-> c.todo]
      BY <1>5 DEF CopyAsset, ImportInv, CommandsInv, CommandFits
    <2>2. PICK left : Goto(o, [c EXCEPT !.todo = left]) \/ Goto(o, Idle)
      BY <1>5 DEF CopyAsset
    <2> HIDE DEF c, found
    <2>3. [c EXCEPT !.todo = left] = [pc |-> "copy", found |-> found, todo |-> left]
      BY <2>1
    <2>4. QED BY <1>2, <1>5, <2>2, <2>3, IdleFits, StepKeeps DEF CopyAsset
  <1>6. CASE Crash(o)
    BY <1>6, IdleFits, StepKeeps DEF Crash
  <1>7. QED BY <1>3, <1>4, <1>5, <1>6

LEMMA ImportStepInv == ImportInv /\ [ImportNext]_importVars => ImportInv'
  <1> SUFFICES ASSUME ImportInv, [ImportNext]_importVars PROVE ImportInv'
    OBVIOUS
  <1>1. ASSUME NEW o \in Operators,
               \/ StartImport(o) \/ ReadFile(o) \/ Stage(o) \/ ApplyPolicy(o)
               \/ CheckTarget(o) \/ WriteImport(o)
               \/ CollectAssets(o) \/ CompareAssets(o) \/ CopyAsset(o) \/ Crash(o)
        PROVE  ImportInv'
    BY <1>1, StartImportKeeps, ReadFileKeeps, StageKeeps, ApplyPolicyKeeps, CheckTargetKeeps,
       WriteImportKeeps, AssetsKeep
  <1>2. ASSUME NEW f \in GoFiles, EditAsset(f) PROVE ImportInv'
    BY <1>2, EditAssetKeeps
  <1>3. CASE UNCHANGED importVars
    BY <1>3, FilesStay, OthersGoOn, TargetStays DEF ImportInv, FilesOn, importVars
  <1>4. QED BY <1>1, <1>2, <1>3, GoCommitKeeps, GoCheckpointKeeps, GoCloseKeeps DEF ImportNext

\* ImportsAreMerged, always: however the commands of any number of operators
\* and Go interleave, the target holds rows of the imports recorded in it, and
\* misses none of theirs but agents of API keys (WriteImport).
THEOREM TargetMerged == ImportSpec => []ImportsAreMerged
  <1>1. ImportInv => ImportsAreMerged
    BY DEF ImportInv
  <1>2. QED BY ImportInitInv, ImportStepInv, <1>1, PTL DEF ImportSpec

\* One operator runs the commands.
OneOperator == \A o, p \in Operators : o = p

\* What the operator is about to write is the first import.
WriteFirst(c) == c.pc = "write" => target = {} /\ c.snapshot \notin runs

AloneInv ==
    /\ TargetIsWholeImports
    /\ \A o \in Operators : WriteFirst(command[o])

LEMMA AloneGoesOn ==
    ASSUME ImportInv, AloneInv, UNCHANGED <<target, runs>>, NEW o \in Operators, NEW c,
           Goto(o, c), WriteFirst(c)
    PROVE  AloneInv'
  <1>1. \A p \in Operators : command'[p] = IF p = o THEN c ELSE command[p]
    BY DEF Goto, ImportInv, CommandsInv
  <1>2. \A p \in Operators : WriteFirst(command'[p])
    BY <1>1 DEF AloneInv
  <1>3. \A p \in Operators : WriteFirst(command[p])'
    BY <1>2 DEF WriteFirst
  <1>4. QED BY <1>3 DEF AloneInv, TargetIsWholeImports

\* With one operator the target is still empty when the rows are written.
LEMMA WriteImportAlone ==
    ASSUME OneOperator, ImportInv, AloneInv, NEW o \in Operators, WriteImport(o)
    PROVE  AloneInv'
  <1> DEFINE c == command[o]
  <1>1. PICK n \in 0 .. Len(Wrote) : c.snapshot = 1 .. n /\ c.rows = Good(n)
    BY DEF WriteImport, ImportInv, CommandsInv, CommandFits, RowsStaged
  <1>2. CASE UNCHANGED <<target, runs>>
    BY <1>2, AloneGoesOn DEF WriteImport, WriteFirst, Idle
  <1>3. CASE /\ target' = {x \in target : ~ Replaces(c.rows, x)} \cup c.rows
             /\ runs' = runs \cup {c.snapshot}
    <2>1. target = {}
      BY DEF WriteImport, AloneInv, WriteFirst
    <2>2. PICK done \in SUBSET GoodImports :
            runs = {i.snapshot : i \in done} /\ target = UNION {i.rows : i \in done}
      BY DEF AloneInv, TargetIsWholeImports
    <2> DEFINE more == done \cup {GoodImport(n)}
    <2>3. more \in SUBSET GoodImports
      BY GoodIsGood
    <2>4. GoodImport(n).snapshot = c.snapshot /\ GoodImport(n).rows = c.rows
      BY <1>1 DEF GoodImport
    <2>5. runs' = {i.snapshot : i \in more} /\ target' = UNION {i.rows : i \in more}
      BY <1>3, <2>1, <2>2, <2>4
    <2> HIDE DEF more
    <2>6. TargetIsWholeImports'
      BY <2>3, <2>5 DEF TargetIsWholeImports
    <2>7. \A p \in Operators : command'[p] = Idle
      BY DEF OneOperator, WriteImport, Goto, ImportInv, CommandsInv
    <2>8. QED BY <2>6, <2>7 DEF AloneInv, WriteFirst, Idle
  <1>4. QED BY <1>2, <1>3 DEF WriteImport

LEMMA AloneStepInv ==
    ASSUME OneOperator, ImportInv, AloneInv, [ImportNext]_importVars
    PROVE  AloneInv'
  <1>1. ASSUME UNCHANGED <<command, target, runs>> PROVE AloneInv'
    BY <1>1 DEF AloneInv, WriteFirst, TargetIsWholeImports
  <1>2. ASSUME NEW o \in Operators, NEW c, Goto(o, c), UNCHANGED <<target, runs>>, c.pc # "write"
        PROVE  AloneInv'
    BY <1>2, AloneGoesOn DEF WriteFirst
  <1>3. ASSUME NEW o \in Operators, ReadFile(o) PROVE AloneInv'
    <2>1. PICK reads : Goto(o, [command[o] EXCEPT !.reads = reads])
      BY <1>3 DEF ReadFile
    <2>2. [command[o] EXCEPT !.reads = reads].pc = "snapshot"
      BY <1>3 DEF ReadFile, ImportInv, CommandsInv, CommandFits
    <2>3. QED BY <1>2, <1>3, <2>1, <2>2 DEF ReadFile
  <1>4. ASSUME NEW o \in Operators, ApplyPolicy(o) PROVE AloneInv'
    <2>1. \/ Goto(o, [command[o] EXCEPT !.pc = "check"])
          \/ Goto(o, Idle)
          \/ \E rows : Goto(o, [command[o] EXCEPT !.rows = rows])
      BY <1>4 DEF ApplyPolicy
    <2>2. /\ [command[o] EXCEPT !.pc = "check"].pc = "check"
          /\ \A rows : [command[o] EXCEPT !.rows = rows].pc = "policy"
      BY <1>4 DEF ApplyPolicy, ImportInv, CommandsInv, CommandFits
    <2>3. QED BY <1>2, <1>4, <2>1, <2>2 DEF ApplyPolicy, Idle
  <1>5. ASSUME NEW o \in Operators, CheckTarget(o) PROVE AloneInv'
    <2> DEFINE next == [command[o] EXCEPT !.pc = "write"]
    <2>1. \/ Goto(o, Idle)
          \/ Goto(o, next) /\ target = {} /\ command[o].snapshot \notin runs
      BY <1>5 DEF CheckTarget
    <2>2. next.snapshot = command[o].snapshot
      BY <1>5 DEF CheckTarget, ImportInv, CommandsInv, CommandFits
    <2> HIDE DEF next
    <2>3. QED BY <1>2, <1>5, <2>1, <2>2, AloneGoesOn DEF CheckTarget, WriteFirst, Idle
  <1>6. ASSUME NEW o \in Operators, StartImport(o) \/ Stage(o) \/ CollectAssets(o) \/ Crash(o)
        PROVE  AloneInv'
    BY <1>2, <1>6 DEF StartImport, Stage, CollectAssets, Crash, Idle
  <1>7. ASSUME NEW o \in Operators, CompareAssets(o) PROVE AloneInv'
    BY <1>2, <1>7 DEF CompareAssets, Idle
  <1>8. ASSUME NEW o \in Operators, CopyAsset(o) PROVE AloneInv'
    <2>1. Goto(o, Idle) \/ \E todo : Goto(o, [command[o] EXCEPT !.todo = todo])
      BY <1>8 DEF CopyAsset
    <2>2. \A todo : [command[o] EXCEPT !.todo = todo].pc = "copy"
      BY <1>8 DEF CopyAsset, ImportInv, CommandsInv, CommandFits
    <2>3. QED BY <1>2, <1>8, <2>1, <2>2 DEF CopyAsset, Idle
  <1>9. CASE UNCHANGED importVars
    BY <1>1, <1>9 DEF importVars
  <1>10. CASE GoCommit \/ GoCheckpoint \/ GoClose \/ \E f \in GoFiles : EditAsset(f)
    BY <1>1, <1>10 DEF GoCommit, GoCheckpoint, GoClose, EditAsset
  <1>11. QED BY <1>3, <1>4, <1>5, <1>6, <1>7, <1>8, <1>9, <1>10, WriteImportAlone DEF ImportNext

\* TargetIsWholeImports, where one operator runs the commands, one after the
\* other: the target holds whole imports only, each of a state the Go database
\* was in, however the commands crash, are run again and interleave with Go.
THEOREM TargetSound ==
    ASSUME OneOperator
    PROVE  ImportSpec => []TargetIsWholeImports
  <1>1. ImportInit => AloneInv
    <2> SUFFICES ASSUME ImportInit PROVE AloneInv
      OBVIOUS
    <2> DEFINE done == {}
    <2>1. done \in SUBSET GoodImports /\ runs = {i.snapshot : i \in done}
          /\ target = UNION {i.rows : i \in done}
      BY DEF ImportInit
    <2>2. QED BY <2>1 DEF ImportInit, AloneInv, TargetIsWholeImports, WriteFirst, Idle
  <1>2. ImportInv /\ AloneInv /\ [ImportNext]_importVars => AloneInv'
    BY AloneStepInv
  <1>3. AloneInv => TargetIsWholeImports
    BY DEF AloneInv
  <1>4. QED BY ImportInitInv, ImportStepInv, <1>1, <1>2, <1>3, PTL DEF ImportSpec

\* One operator at a time imports files.
OneCopier == \A o, p \in Copiers : o = p

\* What the copier has still to do is not in the target root.
CopyFits(c, o) ==
    /\ c.pc = "compare" =>
          /\ c = [pc |-> "compare", found |-> c.found]
          /\ o \in Copiers /\ DOMAIN c.found \subseteq GoFiles
    /\ c.pc = "copy" =>
          /\ o \in Copiers /\ c.todo \subseteq GoFiles
          /\ \A f \in c.todo : copies[f] = 0

CopyInv ==
    /\ DOMAIN copies = GoFiles
    /\ \A o \in Operators : CopyFits(command[o], o)

LEMMA CopyGoesOn ==
    ASSUME ImportInv, CopyInv, UNCHANGED copies, NEW o \in Operators, NEW c,
           Goto(o, c), CopyFits(c, o)
    PROVE  CopyInv'
  <1>1. \A p \in Operators : command'[p] = IF p = o THEN c ELSE command[p]
    BY DEF Goto, ImportInv, CommandsInv
  <1>2. \A p \in Operators : CopyFits(command'[p], p)
    BY <1>1 DEF CopyInv
  <1>3. \A p \in Operators : CopyFits(command[p], p)'
    BY <1>2 DEF CopyFits
  <1>4. QED BY <1>3 DEF CopyInv

LEMMA NotCopying == ASSUME NEW o, NEW c, c.pc \notin {"compare", "copy"} PROVE CopyFits(c, o)
  BY DEF CopyFits

LEMMA CopyAssetKeeps ==
    ASSUME OneCopier, ImportInv, CopyInv, NEW o \in Operators, CopyAsset(o)
    PROVE  CopyInv' /\ \A f \in GoFiles : copies[f] # 0 => copies'[f] = copies[f]
  <1> DEFINE c == command[o]
             todo == c.todo
  <1>1. /\ c = [pc |-> "copy", found |-> c.found, todo |-> todo]
        /\ o \in Copiers /\ todo \subseteq GoFiles /\ \A f \in todo : copies[f] = 0
    BY DEF CopyAsset, ImportInv, CommandsInv, CommandFits, CopyInv, CopyFits
  <1>2. CASE Goto(o, Idle) /\ UNCHANGED copies
    BY <1>2, CopyGoesOn, NotCopying DEF Idle
  <1>3. ASSUME NEW f \in todo, copies' = [copies EXCEPT ![f] = assets[f]],
               Goto(o, [c EXCEPT !.todo = todo \ {f}])
        PROVE  CopyInv' /\ \A g \in GoFiles : copies[g] # 0 => copies'[g] = copies[g]
    <2> DEFINE next == [pc |-> "copy", found |-> c.found, todo |-> todo \ {f}]
    <2>1. [c EXCEPT !.todo = todo \ {f}] = next
      <3> DEFINE found == c.found
                 left == todo \ {f}
      <3>1. c = [pc |-> "copy", found |-> found, todo |-> todo]
        BY <1>1
      <3> HIDE DEF found, left, c, todo
      <3>2. [c EXCEPT !.todo = left] = [pc |-> "copy", found |-> found, todo |-> left]
        BY <3>1
      <3>3. QED BY <3>2 DEF found, left
    <2>2. /\ DOMAIN copies' = GoFiles
          /\ \A g \in GoFiles : g # f => copies'[g] = copies[g]
      BY <1>3 DEF CopyInv
    <2>3. \A p \in Operators : command'[p] = IF p = o THEN next ELSE command[p]
      BY <1>3, <2>1 DEF Goto, ImportInv, CommandsInv
    <2>4. CopyFits(command[o], o)'
      <3>1. command'[o].pc = "copy" /\ command'[o].todo = todo \ {f}
        BY <2>3
      <3>2. o \in Copiers /\ todo \ {f} \subseteq GoFiles
        BY <1>1
      <3>3. \A g \in todo \ {f} : copies'[g] = 0
        BY <1>1, <2>2
      <3> HIDE DEF todo, c
      <3>4. QED BY <3>1, <3>2, <3>3 DEF CopyFits
    <2>5. ASSUME NEW p \in Operators, p # o PROVE CopyFits(command[p], p)'
      <3>1. command'[p] = command[p] /\ CopyFits(command[p], p)
        BY <2>3, <2>5 DEF CopyInv
      <3>2. command[p].pc # "copy"
        BY <1>1, <2>5, <3>1 DEF OneCopier, CopyFits
      <3>3. QED BY <3>1, <3>2 DEF CopyFits
    <2>6. CopyInv'
      BY <2>2, <2>4, <2>5 DEF CopyInv
    <2>7. QED BY <1>1, <2>2, <2>6
  <1>4. QED BY <1>2, <1>3 DEF CopyAsset

LEMMA CopyStepInv ==
    ASSUME OneCopier, ImportInv, CopyInv, [ImportNext]_importVars
    PROVE  CopyInv' /\ \A f \in GoFiles : copies[f] # 0 => copies'[f] = copies[f]
  <1>1. ASSUME UNCHANGED <<command, copies>> PROVE CopyInv'
    BY <1>1 DEF CopyInv, CopyFits
  <1>2. ASSUME NEW o \in Operators, NEW c, Goto(o, c), UNCHANGED copies,
               c.pc \notin {"compare", "copy"}
        PROVE  CopyInv'
    BY <1>2, CopyGoesOn, NotCopying
  <1>3. ASSUME NEW o \in Operators, ReadFile(o) PROVE CopyInv' /\ UNCHANGED copies
    <2>1. PICK reads : Goto(o, [command[o] EXCEPT !.reads = reads])
      BY <1>3 DEF ReadFile
    <2>2. [command[o] EXCEPT !.reads = reads].pc = "snapshot"
      BY <1>3 DEF ReadFile, ImportInv, CommandsInv, CommandFits
    <2>3. QED BY <1>2, <1>3, <2>1, <2>2 DEF ReadFile
  <1>4. ASSUME NEW o \in Operators, ApplyPolicy(o) PROVE CopyInv' /\ UNCHANGED copies
    <2>1. \/ Goto(o, [command[o] EXCEPT !.pc = "check"])
          \/ Goto(o, Idle)
          \/ \E rows : Goto(o, [command[o] EXCEPT !.rows = rows])
      BY <1>4 DEF ApplyPolicy
    <2>2. /\ [command[o] EXCEPT !.pc = "check"].pc = "check"
          /\ \A rows : [command[o] EXCEPT !.rows = rows].pc = "policy"
      BY <1>4 DEF ApplyPolicy, ImportInv, CommandsInv, CommandFits
    <2>3. QED BY <1>2, <1>4, <2>1, <2>2 DEF ApplyPolicy, Idle
  <1>5. ASSUME NEW o \in Operators, CheckTarget(o) PROVE CopyInv' /\ UNCHANGED copies
    <2>1. Goto(o, [command[o] EXCEPT !.pc = "write"]) \/ Goto(o, Idle)
      BY <1>5 DEF CheckTarget
    <2>2. [command[o] EXCEPT !.pc = "write"].pc = "write"
      BY <1>5 DEF CheckTarget, ImportInv, CommandsInv, CommandFits
    <2>3. QED BY <1>2, <1>5, <2>1, <2>2 DEF CheckTarget, Idle
  <1>6. ASSUME NEW o \in Operators, StartImport(o) \/ Stage(o) \/ WriteImport(o) \/ Crash(o)
        PROVE  CopyInv' /\ UNCHANGED copies
    BY <1>2, <1>6 DEF StartImport, Stage, WriteImport, Crash, Idle
  <1>7. ASSUME NEW o \in Operators, CollectAssets(o) PROVE CopyInv' /\ UNCHANGED copies
    <2>1. PICK found : /\ Goto(o, [pc |-> "compare", found |-> found])
                       /\ DOMAIN found \subseteq GoFiles
      BY <1>7 DEF CollectAssets
    <2>2. CopyFits([pc |-> "compare", found |-> found], o)
      BY <1>7, <2>1 DEF CopyFits, CollectAssets
    <2>3. QED BY <1>7, <2>1, <2>2, CopyGoesOn DEF CollectAssets
  <1>8. ASSUME NEW o \in Operators, CompareAssets(o) PROVE CopyInv' /\ UNCHANGED copies
    <2> DEFINE found == command[o].found
               next == [pc |-> "copy", found |-> found,
                        todo |-> {f \in DOMAIN found : copies[f] = 0}]
    <2>1. Goto(o, Idle) \/ Goto(o, next)
      BY <1>8 DEF CompareAssets
    <2>2. CopyFits(next, o)
      BY <1>8 DEF CompareAssets, CopyInv, CopyFits
    <2> HIDE DEF next
    <2>3. QED BY <1>2, <1>8, <2>1, <2>2, CopyGoesOn DEF CompareAssets, Idle
  <1>9. CASE UNCHANGED importVars
    BY <1>1, <1>9 DEF importVars
  <1>10. CASE GoCommit \/ GoCheckpoint \/ GoClose \/ \E f \in GoFiles : EditAsset(f)
    BY <1>1, <1>10 DEF GoCommit, GoCheckpoint, GoClose, EditAsset
  <1>11. QED BY <1>3, <1>4, <1>5, <1>6, <1>7, <1>8, <1>9, <1>10, CopyAssetKeeps DEF ImportNext

\* CopiesAreKept, where one operator at a time imports files: whatever crashes,
\* reruns and edits of the source come between, a file in place is not replaced.
THEOREM CopiesStay ==
    ASSUME OneCopier
    PROVE  ImportSpec => CopiesAreKept
  <1>1. ImportInit => CopyInv
    BY DEF ImportInit, CopyInv, CopyFits, Idle
  <1>2. ImportInv /\ CopyInv /\ [ImportNext]_importVars =>
           /\ CopyInv'
           /\ [\A f \in GoFiles : copies[f] # 0 => copies'[f] = copies[f]]_copies
    BY CopyStepInv
  <1>3. QED BY ImportInitInv, ImportStepInv, <1>1, <1>2, PTL DEF ImportSpec, CopiesAreKept

-----------------------------------------------------------------------------
(***************************************************************************)
(* The teams of a user: foreign keys and uniqueness through every overlap, *)
(* and the turns of archived agents where one handler writes a stored      *)
(* team's row.                                                             *)
(***************************************************************************)

TeamOps == {"rename", "archive", "restore", "delete", "add", "member"}
JobFields == {"pc", "op", "team", "row", "agent", "member", "gone", "todo", "how", "new"}

TablesTyped ==
    /\ teams \in [TeamIds -> TeamRows \cup {NoRow}]
    /\ members \in [AgentIds -> MemberRows \cup {NoRow}]
    /\ DOMAIN agents = AgentIds /\ now \in Nat \ {0}

\* What a handler that is to write has read.
WriteFits(j) ==
    /\ j.op \in TeamOps => j.team \in TeamIds /\ j.row \in TeamRows
    /\ j.op \in {"create", "add"} => j.row \in TeamRows /\ j.row.status = "active"
    /\ j.op = "member" => j.member \in MemberRows /\ j.member.team = j.team
    /\ j.op \in {"member", "touch", "drop"} => j.agent \in AgentIds

JobFits(p, j) ==
    /\ DOMAIN j = JobFields
    /\ j.pc = "write" => p \in Handlers /\ j.op \in OpsOf[p] /\ WriteFits(j)
    /\ j.pc \in {"select", "running"} => j.agent \in AgentIds
    /\ p \in Turns /\ j.pc = "reload" => j.agent \in AgentIds
    /\ \A e \in j.todo : e[1] \in AgentIds

JobsFit ==
    /\ DOMAIN job = Actors
    /\ \A p \in Actors : JobFits(p, job[p])

\* Inductive for any number of writers.
TablesInv == TablesTyped /\ JobsFit /\ RosterSound

\* One handler writes the rows of stored teams.
OneWriter ==
    \E w \in Handlers : \A h \in Handlers \ {w} : OpsOf[h] \cap TeamOps = {}

\* What it read is what is there.
WriterKnows(j) ==
    j.pc = "write" /\ j.op \in TeamOps =>
      /\ teams[j.team] = j.row
      /\ j.op = "delete" => j.gone = Roster(j.team)
      /\ j.op = "member" =>
           /\ j.agent \in Roster(j.team) /\ j.member.role = members[j.agent].role
           /\ j.member.status = "archived" =>
                /\ j.member.role # Coordinator
                /\ members[j.agent].status = "active" =>
                     \E b \in ActiveSpecialists(j.team) : b # j.agent

\* A turn of a suspended agent is to be cancelled, or was past the check.
NoneGoesOn ==
    \A x \in Turns :
        job[x].pc \in {"select", "running"} /\ Suspended(job[x].agent) =>
            \/ x \in escaped
            \/ \E h \in Handlers : job[h].pc = "cancel" /\ job[x].agent \in job[h].gone

\* Inductive where one handler writes.
WriterInv ==
    /\ TablesInv
    /\ \A h \in Handlers : WriterKnows(job[h])
    /\ RetainsSpecialist /\ NoneGoesOn

\* The tables stay, and a job goes on with what fits.
LEMMA JobGoesOn ==
    ASSUME JobsFit, NEW p \in Actors, NEW next, Goes(p, next), JobFits(p, next)
    PROVE  /\ JobsFit'
           /\ \A q \in Actors : job'[q] = IF q = p THEN next ELSE job[q]
  <1>1. \A q \in Actors : job'[q] = IF q = p THEN next ELSE job[q]
    BY DEF Goes, JobsFit
  <1>2. DOMAIN job' = Actors
    BY DEF Goes, JobsFit
  <1>3. \A q \in Actors : JobFits(q, job'[q])
    BY <1>1 DEF JobsFit
  <1>4. QED BY <1>1, <1>2, <1>3 DEF JobsFit

LEMMA NoJobFits == ASSUME NEW p PROVE JobFits(p, NoJob)
  BY DEF JobFits, NoJob, JobFields

LEMMA TablesStay ==
    ASSUME TablesInv, UNCHANGED <<teams, members, agents, now>>, JobsFit'
    PROVE  TablesInv'
  BY DEF TablesInv, TablesTyped, RosterSound

\* What WithStamps lists are agents.
LEMMA StampsOfAgents ==
    ASSUME NEW S PROVE \A e \in WithStamps(S) : e[1] \in AgentIds
  BY DEF WithStamps, LiveAgents

LEMMA TeamsInitInv == TeamsInit => WriterInv
  <1> SUFFICES ASSUME TeamsInit PROVE WriterInv
    OBVIOUS
  <1>1. PICK tables \in Stored :
          teams = tables.teams /\ members = tables.members /\ agents = tables.agents
    BY DEF TeamsInit
  <1>2. TablesTyped /\ RosterSound
    BY <1>1, TeamsAssumption DEF TeamsInit, TablesTyped, RosterSound
  <1>3. JobsFit
    BY NoJobFits DEF TeamsInit, JobsFit
  <1>4. \A p \in Actors : job[p].pc = "idle"
    BY DEF TeamsInit, NoJob
  <1>5. (\A h \in Handlers : WriterKnows(job[h])) /\ NoneGoesOn
    BY <1>4 DEF Actors, WriterKnows, NoneGoesOn
  <1>6. RetainsSpecialist
    BY <1>1, TeamsAssumption DEF RetainsSpecialist, LiveTeams, ActiveSpecialists, Roster
  <1>7. QED BY <1>2, <1>3, <1>5, <1>6 DEF WriterInv, TablesInv

-----------------------------------------------------------------------------
(* TablesInv: the reads, and what follows the commit. *)

LEMMA ReadTeamTables ==
    ASSUME TablesInv, NEW h \in Handlers, ReadTeam(h) PROVE TablesInv'
  <1>1. PICK op \in {"rename", "archive", "restore", "delete", "add"}, t \in LiveTeams :
          /\ May(h, op)
          /\ op = "add" => teams[t].status = "active"
          /\ Goes(h, [NoJob EXCEPT !.pc = "write", !.op = op, !.team = t, !.row = teams[t],
                                  !.gone = Roster(t)])
    BY DEF ReadTeam
  <1> DEFINE next == [NoJob EXCEPT !.pc = "write", !.op = op, !.team = t, !.row = teams[t],
                                  !.gone = Roster(t)]
  <1>2. t \in TeamIds /\ teams[t] \in TeamRows
    BY DEF LiveTeams, TablesInv, TablesTyped
  <1>3. JobFits(h, next)
    BY <1>1, <1>2 DEF JobFits, NoJob, JobFields, WriteFits, TeamOps, May
  <1>4. JobsFit'
    BY <1>1, <1>3, JobGoesOn DEF TablesInv, Actors
  <1>5. QED BY <1>4, TablesStay DEF ReadTeam

LEMMA ReadMemberTables ==
    ASSUME TablesInv, NEW h \in Handlers, ReadMember(h) PROVE TablesInv'
  <1>1. PICK a \in AgentIds, status \in {"active", "archived"} :
          /\ May(h, "member") /\ members[a] # NoRow
          /\ Goes(h, [NoJob EXCEPT !.pc = "write", !.op = "member", !.team = members[a].team,
                       !.row = teams[members[a].team], !.agent = a,
                       !.member = [members[a] EXCEPT !.status = status]])
    BY DEF ReadMember
  <1> DEFINE row == [members[a] EXCEPT !.status = status]
             t == members[a].team
             next == [NoJob EXCEPT !.pc = "write", !.op = "member", !.team = t,
                       !.row = teams[t], !.agent = a, !.member = row]
  <1>2. members[a] \in MemberRows /\ t \in TeamIds /\ teams[t] \in TeamRows
    BY <1>1 DEF TablesInv, TablesTyped, RosterSound, KeysHold, MemberRows
  <1>3. row \in MemberRows /\ row.team = t
    BY <1>2 DEF MemberRows, Statuses
  <1> HIDE DEF row, t
  <1>4. JobFits(h, next)
    BY <1>1, <1>2, <1>3 DEF JobFits, NoJob, JobFields, WriteFits, May
  <1>5. JobsFit'
    BY <1>1, <1>4, JobGoesOn DEF TablesInv, Actors, row, t
  <1>6. QED BY <1>5, TablesStay DEF ReadMember

LEMMA ReadRequestTables ==
    ASSUME TablesInv, NEW h \in Handlers, ReadRequest(h) PROVE TablesInv'
  <1>1. PICK r \in RequestIds :
          /\ May(h, "create")
          /\ Goes(h, [NoJob EXCEPT !.pc = "write", !.op = "create",
                       !.row = [request |-> r, status |-> "active", revision |-> 1]])
    BY DEF ReadRequest
  <1> DEFINE row == [request |-> r, status |-> "active", revision |-> 1]
  <1>2. row \in TeamRows /\ row.status = "active"
    BY DEF TeamRows, Statuses
  <1> HIDE DEF row
  <1>3. JobFits(h, [NoJob EXCEPT !.pc = "write", !.op = "create", !.row = row])
    BY <1>1, <1>2 DEF JobFits, NoJob, JobFields, WriteFits, TeamOps, May
  <1>4. JobsFit'
    BY <1>1, <1>3, JobGoesOn DEF TablesInv, Actors, row
  <1>5. QED BY <1>4, TablesStay DEF ReadRequest

LEMMA ReadAgentTables ==
    ASSUME TablesInv, NEW h \in Handlers, ReadAgent(h) PROVE TablesInv'
  <1>1. PICK op \in {"touch", "drop", "look"}, a \in LiveAgents :
          /\ May(h, op)
          /\ Goes(h, IF op = "look"
                   THEN [NoJob EXCEPT !.pc = "reload", !.how = "ensure",
                                     !.todo = WithStamps({a})]
                   ELSE [NoJob EXCEPT !.pc = "write", !.op = op, !.agent = a])
    BY DEF ReadAgent
  <1>2. JobFits(h, [NoJob EXCEPT !.pc = "reload", !.how = "ensure", !.todo = WithStamps({a})])
    BY StampsOfAgents, TeamsAssumption DEF JobFits, NoJob, JobFields
  <1>3. op # "look" => JobFits(h, [NoJob EXCEPT !.pc = "write", !.op = op, !.agent = a])
    BY <1>1 DEF JobFits, NoJob, JobFields, WriteFits, TeamOps, May, LiveAgents
  <1>4. JobsFit'
    BY <1>1, <1>2, <1>3, JobGoesOn DEF TablesInv, Actors
  <1>5. QED BY <1>4, TablesStay DEF ReadAgent

\* A request that ends, without a write or after one.
LEMMA EndTables ==
    ASSUME TablesInv, NEW p \in Actors, Goes(p, NoJob),
           UNCHANGED <<teams, members, agents, now>>
    PROVE  TablesInv'
  BY NoJobFits, JobGoesOn, TablesStay DEF TablesInv

LEMMA ListedFits ==
    ASSUME NEW h \in Handlers, NEW op, NEW t
    PROVE  /\ JobFits(h, [NoJob EXCEPT !.pc = "list", !.op = op])
           /\ JobFits(h, [NoJob EXCEPT !.pc = "list", !.op = op, !.team = t])
  BY DEF JobFits, NoJob, JobFields

LEMMA ReloadFits ==
    ASSUME NEW h \in Handlers, NEW S
    PROVE  JobFits(h, [NoJob EXCEPT !.pc = "reload", !.todo = WithStamps(S)])
  BY StampsOfAgents, TeamsAssumption DEF JobFits, NoJob, JobFields

LEMMA CancelFits ==
    ASSUME NEW h, NEW gone
    PROVE  /\ JobFits(h, [NoJob EXCEPT !.pc = "cancel", !.gone = gone])
           /\ JobFits(h, [NoJob EXCEPT !.pc = "remove", !.gone = gone])
  BY DEF JobFits, NoJob, JobFields

LEMMA ListAgentsTables ==
    ASSUME TablesInv, NEW h \in Handlers, ListAgents(h) PROVE TablesInv'
  <1>1. JobsFit'
    BY ReloadFits, JobGoesOn DEF ListAgents, TablesInv, Actors
  <1>2. QED BY <1>1, TablesStay DEF ListAgents

LEMMA CancelRootsTables ==
    ASSUME TablesInv, NEW h \in Handlers, CancelRoots(h) PROVE TablesInv'
  <1> DEFINE next == [job[h] EXCEPT !.pc = "remove"]
  <1>1. JobFits(h, next)
    BY DEF TablesInv, JobsFit, JobFits, JobFields, Actors
  <1>2. \A p \in Actors : (p = h /\ job'[p] = next) \/ job'[p] = NoJob \/ job'[p] = job[p]
    BY DEF CancelRoots
  <1>3. \A p \in Actors : JobFits(p, job'[p])
    BY <1>1, <1>2, NoJobFits DEF TablesInv, JobsFit
  <1>4. JobsFit'
    BY <1>3 DEF CancelRoots, JobsFit
  <1>5. QED BY <1>4, TablesStay DEF CancelRoots

LEMMA RemoveProfilesTables ==
    ASSUME TablesInv, NEW h \in Handlers, RemoveProfiles(h) PROVE TablesInv'
  <1> DEFINE next == [job[h] EXCEPT !.pc = "reload", !.gone = {}]
  <1>1. JobFits(h, next)
    BY TeamsAssumption DEF TablesInv, JobsFit, JobFits, JobFields, Actors
  <1>2. JobsFit'
    BY <1>1, JobGoesOn DEF RemoveProfiles, TablesInv, Actors
  <1>3. QED BY <1>2, TablesStay DEF RemoveProfiles

LEMMA LockProfileTables ==
    ASSUME TablesInv, NEW p \in Actors, LockProfile(p) PROVE TablesInv'
  <1>1. PICK e \in job[p].todo :
          /\ job[p].pc = "reload"
          /\ \/ Goes(p, [job[p] EXCEPT !.todo = @ \ {e}])
             \/ Goes(p, [job[p] EXCEPT !.pc = "load", !.agent = e[1],
                                       !.new = profiles[e[1]] = 0])
    BY DEF LockProfile
  <1>2. /\ JobFits(p, [job[p] EXCEPT !.todo = job[p].todo \ {e}])
        /\ JobFits(p, [job[p] EXCEPT !.pc = "load", !.agent = e[1],
                                     !.new = profiles[e[1]] = 0])
    BY <1>1 DEF TablesInv, JobsFit, JobFits, JobFields
  <1>3. JobsFit'
    BY <1>1, <1>2, JobGoesOn DEF TablesInv
  <1>4. QED BY <1>3, TablesStay DEF LockProfile

LEMMA StoreProfileTables ==
    ASSUME TablesInv, NEW p \in Actors, StoreProfile(p) PROVE TablesInv'
  <1>1. PICK e \in job[p].todo :
          /\ job[p].pc = "load" /\ e[1] = job[p].agent
          /\ Goes(p, [job[p] EXCEPT !.pc = "reload", !.todo = @ \ {e}])
    BY DEF StoreProfile
  <1>2. JobFits(p, [job[p] EXCEPT !.pc = "reload", !.todo = job[p].todo \ {e}])
    BY <1>1 DEF TablesInv, JobsFit, JobFits, JobFields
  <1>3. JobsFit'
    BY <1>1, <1>2, JobGoesOn DEF TablesInv
  <1>4. QED BY <1>3, TablesStay DEF StoreProfile

LEMMA TurnTables ==
    ASSUME TablesInv, NEW x \in Turns,
           OpenTurn(x) \/ CheckAccepts(x) \/ TrackRoot(x) \/ EndTurn(x)
    PROVE  TablesInv'
  <1>1. x \in Actors /\ JobFits(x, job[x])
    BY DEF Actors, TablesInv, JobsFit
  <1>2. CASE OpenTurn(x)
    <2>1. PICK a \in LiveAgents :
            Goes(x, [NoJob EXCEPT !.pc = "reload", !.how = "ensure", !.agent = a,
                                !.todo = WithStamps({a})])
      BY <1>2 DEF OpenTurn
    <2>2. JobFits(x, [NoJob EXCEPT !.pc = "reload", !.how = "ensure", !.agent = a,
                                !.todo = WithStamps({a})])
      BY StampsOfAgents DEF JobFits, NoJob, JobFields, LiveAgents
    <2>3. JobsFit'
      BY <1>1, <2>1, <2>2, JobGoesOn DEF TablesInv
    <2>4. QED BY <1>2, <2>3, TablesStay DEF OpenTurn
  <1>3. CASE CheckAccepts(x)
    <2>1. JobFits(x, [job[x] EXCEPT !.pc = "select"])
      BY <1>1, <1>3 DEF CheckAccepts, JobFits, JobFields
    <2>2. JobsFit'
      BY <1>1, <1>3, <2>1, NoJobFits, JobGoesOn DEF CheckAccepts, TablesInv
    <2>3. QED BY <1>3, <2>2, TablesStay DEF CheckAccepts
  <1>4. CASE TrackRoot(x)
    <2>1. JobFits(x, [job[x] EXCEPT !.pc = "running"])
      BY <1>1, <1>4 DEF TrackRoot, JobFits, JobFields
    <2>2. JobsFit'
      BY <1>1, <1>4, <2>1, JobGoesOn DEF TrackRoot, TablesInv
    <2>3. QED BY <1>4, <2>2, TablesStay DEF TrackRoot
  <1>5. CASE EndTurn(x)
    BY <1>1, <1>5, EndTables DEF EndTurn
  <1>6. QED BY <1>2, <1>3, <1>4, <1>5

-----------------------------------------------------------------------------
(* TablesInv: the transactions. *)

\* A handler about to write, with what it read.
LEMMA WriterOf ==
    ASSUME TablesInv, NEW h \in Handlers, NEW op, Writes(h, op)
    PROVE  h \in Actors /\ op \in OpsOf[h] /\ job[h].op = op /\ WriteFits(job[h])
  BY DEF Writes, TablesInv, JobsFit, JobFits, Actors

\* The team is written as it was read, with another status.
LEMMA PutTeamKeeps ==
    ASSUME TablesInv, NEW h \in Handlers, NEW op \in TeamOps, Writes(h, op),
           NEW status \in Statuses, PutTeam(h, status)
    PROVE  /\ job[h].team \in TeamIds
           /\ teams' \in [TeamIds -> TeamRows \cup {NoRow}]
           /\ \A t \in TeamIds \ {job[h].team} : teams'[t] = teams[t]
           /\ teams'[job[h].team] \in TeamRows /\ teams'[job[h].team].status = status
           /\ \A t, u \in TeamIds :
                 /\ teams'[t] # NoRow /\ teams'[u] # NoRow
                 /\ teams'[t].request = teams'[u].request
                 => t = u
  <1> DEFINE t == job[h].team
             old == job[h].row
             row == [old EXCEPT !.status = status, !.revision = @ + 1]
  <1>1. t \in TeamIds /\ old \in TeamRows
    BY WriterOf DEF WriteFits
  <1>2. teams' = [teams EXCEPT ![t] = row]
    BY DEF PutTeam
  <1>3. \A u \in LiveTeams \ {t} : teams[u].request # old.request
    BY DEF PutTeam
  <1> HIDE DEF t, old
  <1>4. row \in TeamRows /\ row.status = status /\ row.request = old.request
    <2>1. old.revision + 1 \in Nat /\ old \in TeamRows
      BY <1>1 DEF TeamRows
    <2> DEFINE next == old.revision + 1
    <2>2. row = [old EXCEPT !.status = status, !.revision = next]
      OBVIOUS
    <2> HIDE DEF next, row
    <2>3. next \in Nat
      BY <2>1 DEF next
    <2>4. QED BY <2>1, <2>2, <2>3 DEF TeamRows
  <1> HIDE DEF row
  <1>5. \A u \in TeamIds : teams'[u] = IF u = t THEN row ELSE teams[u]
    BY <1>1, <1>2 DEF TablesInv, TablesTyped
  <1>6. teams' \in [TeamIds -> TeamRows \cup {NoRow}]
    BY <1>1, <1>2, <1>4 DEF TablesInv, TablesTyped
  <1>7. ASSUME NEW u \in TeamIds, NEW v \in TeamIds, teams'[u] # NoRow, teams'[v] # NoRow,
               teams'[u].request = teams'[v].request
        PROVE  u = v
    BY <1>3, <1>4, <1>5, <1>7 DEF LiveTeams, TablesInv, RosterSound, KeysHold
  <1>8. QED BY <1>1, <1>4, <1>5, <1>6, <1>7 DEF t

\* A write of a team's row alone.
LEMMA TeamWriteTables ==
    ASSUME TablesInv, NEW h \in Handlers, NEW op \in TeamOps, Writes(h, op),
           NEW status \in Statuses, PutTeam(h, status), UNCHANGED <<members, agents, now>>,
           JobsFit'
    PROVE  TablesInv'
  <1>1. /\ teams' \in [TeamIds -> TeamRows \cup {NoRow}]
        /\ \A t \in TeamIds : teams[t] # NoRow => teams'[t] # NoRow
        /\ \A t, u \in TeamIds :
              /\ teams'[t] # NoRow /\ teams'[u] # NoRow
              /\ teams'[t].request = teams'[u].request
              => t = u
    BY PutTeamKeeps, TeamsAssumption
  <1>2. \A a \in AgentIds : members[a] # NoRow => members[a].team \in TeamIds
    BY DEF TablesInv, TablesTyped, MemberRows
  <1>3. RosterSound'
    BY <1>1, <1>2 DEF TablesInv, RosterSound, KeysHold
  <1>4. QED BY <1>1, <1>3 DEF TablesInv, TablesTyped

LEMMA RenameTables == ASSUME TablesInv, NEW h \in Handlers, Rename(h) PROVE TablesInv'
  <1>1. job[h].row.status \in Statuses /\ "rename" \in TeamOps
    BY WriterOf DEF Rename, WriteFits, TeamOps, TeamRows
  <1>2. JobsFit'
    BY WriterOf, NoJobFits, JobGoesOn DEF Rename, TablesInv
  <1>3. QED BY <1>1, <1>2, TeamWriteTables DEF Rename

LEMMA ArchiveTables == ASSUME TablesInv, NEW h \in Handlers, Archive(h) PROVE TablesInv'
  <1>1. "archived" \in Statuses /\ "archive" \in TeamOps
    BY DEF Statuses, TeamOps
  <1>2. JobsFit'
    BY WriterOf, CancelFits, JobGoesOn DEF Archive, TablesInv
  <1>3. QED BY <1>1, <1>2, TeamWriteTables DEF Archive

LEMMA RestoreTables == ASSUME TablesInv, NEW h \in Handlers, Restore(h) PROVE TablesInv'
  <1>1. "active" \in Statuses /\ "restore" \in TeamOps
    BY DEF Statuses, TeamOps
  <1>2. JobsFit'
    BY WriterOf, ReloadFits, JobGoesOn DEF Restore, TablesInv
  <1>3. QED BY <1>1, <1>2, TeamWriteTables DEF Restore

LEMMA SaveMemberTables == ASSUME TablesInv, NEW h \in Handlers, SaveMember(h) PROVE TablesInv'
  <1> DEFINE a == job[h].agent
             row == job[h].member
             gone == IF row.status = "archived" THEN {a} ELSE {}
             next == [NoJob EXCEPT !.pc = IF gone = {} THEN "reload" ELSE "cancel",
                         !.gone = gone, !.todo = WithStamps(Roster(job[h].team) \ gone)]
  <1>1. Writes(h, "member") /\ "member" \in TeamOps /\ job[h].row.status \in Statuses
    BY WriterOf DEF SaveMember, TeamOps, WriteFits, TeamRows
  <1>2. a \in AgentIds /\ row \in MemberRows /\ row.team = job[h].team
    BY <1>1, WriterOf DEF WriteFits
  <1>3. JobsFit'
    <2>1. JobFits(h, next)
      BY StampsOfAgents, TeamsAssumption DEF JobFits, NoJob, JobFields
    <2>2. Goes(h, next)
      BY DEF SaveMember
    <2> HIDE DEF next
    <2>3. QED BY <1>1, <2>1, <2>2, WriterOf, JobGoesOn DEF TablesInv
  <1>4. /\ teams' \in [TeamIds -> TeamRows \cup {NoRow}]
        /\ \A t \in TeamIds : teams[t] # NoRow => teams'[t] # NoRow
        /\ teams'[row.team] # NoRow
        /\ \A t, u \in TeamIds :
              /\ teams'[t] # NoRow /\ teams'[u] # NoRow
              /\ teams'[t].request = teams'[u].request
              => t = u
    BY <1>1, <1>2, PutTeamKeeps, TeamsAssumption DEF SaveMember
  <1>5. /\ members' = [members EXCEPT ![a] = row] /\ UNCHANGED <<agents, now>>
        /\ agents[a] # 0
        /\ \A b \in Roster(row.team) : members[b].role = row.role => b = a
    BY DEF SaveMember, KeysAllow
  <1> HIDE DEF a, row
  <1>6. \A b \in AgentIds : members'[b] = IF b = a THEN row ELSE members[b]
    BY <1>2, <1>5 DEF TablesInv, TablesTyped
  <1>7. members' \in [AgentIds -> MemberRows \cup {NoRow}]
    BY <1>2, <1>5 DEF TablesInv, TablesTyped
  <1>8. \A b \in AgentIds : members[b] # NoRow => members[b].team \in TeamIds
    BY DEF TablesInv, TablesTyped, MemberRows
  <1>9. \A b \in AgentIds : members'[b] # NoRow => teams'[members'[b].team] # NoRow /\ agents'[b] # 0
    BY <1>4, <1>5, <1>6, <1>8 DEF TablesInv, RosterSound, KeysHold
  <1>10. ASSUME NEW b \in AgentIds, NEW c \in AgentIds, members'[b] # NoRow, members'[c] # NoRow,
                members'[b].team = members'[c].team, members'[b].role = members'[c].role
         PROVE  b = c
    BY <1>5, <1>6, <1>10 DEF TablesInv, RosterSound, KeysHold, Roster
  <1>11. RosterSound'
    BY <1>4, <1>9, <1>10 DEF RosterSound, KeysHold
  <1>12. QED BY <1>3, <1>4, <1>5, <1>7, <1>11 DEF TablesInv, TablesTyped

LEMMA CreateTables == ASSUME TablesInv, NEW h \in Handlers, Create(h) PROVE TablesInv'
  <1>1. PICK t \in TeamIds \ LiveTeams, c \in Next1, s \in Next2, role \in SpecialistRoles :
          /\ Writes(h, "create")
          /\ \A u \in LiveTeams : teams[u].request # job[h].row.request
          /\ teams' = [teams EXCEPT ![t] = job[h].row]
          /\ members' = [members EXCEPT
                ![c] = [team |-> t, role |-> Coordinator, status |-> "active"],
                ![s] = [team |-> t, role |-> role, status |-> "active"]]
          /\ agents' = [agents EXCEPT ![c] = now, ![s] = now]
          /\ Goes(h, [NoJob EXCEPT !.pc = "list", !.op = "create"])
          /\ UNCHANGED <<now, profiles, registered, lock, served, escaped>>
    BY Zenon DEF Create
  <1> DEFINE first == [team |-> t, role |-> Coordinator, status |-> "active"]
             other == [team |-> t, role |-> role, status |-> "active"]
  <1>2. /\ Writes(h, "create") /\ UNCHANGED now
        /\ \A u \in LiveTeams : teams[u].request # job[h].row.request
        /\ Goes(h, [NoJob EXCEPT !.pc = "list", !.op = "create"])
    BY DEF Create
  <1>3. job[h].row \in TeamRows
    BY <1>2, WriterOf DEF WriteFits
  <1>4. JobsFit'
    BY <1>2, WriterOf, ListedFits, JobGoesOn DEF TablesInv
  <1>5. c \in AgentIds /\ s \in AgentIds /\ c # s /\ members[c] = NoRow /\ members[s] = NoRow
    BY DEF Next1, Next2, Unused
  <1>6. /\ first \in MemberRows /\ first.team = t /\ first.role = Coordinator
        /\ other \in MemberRows /\ other.team = t /\ other.role = role
        /\ role # Coordinator
    BY TeamsAssumption DEF MemberRows, Statuses
  <1> HIDE DEF first, other
  <1>7. \A a \in AgentIds : members'[a] = IF a = s THEN other ELSE IF a = c THEN first ELSE members[a]
    BY <1>1, <1>5 DEF TablesInv, TablesTyped, first, other
  <1>8. members' \in [AgentIds -> MemberRows \cup {NoRow}]
    BY <1>1, <1>5, <1>6 DEF TablesInv, TablesTyped, first, other
  <1>9. \A u \in TeamIds : teams'[u] = IF u = t THEN job[h].row ELSE teams[u]
    BY <1>1 DEF TablesInv, TablesTyped
  <1>10. teams' \in [TeamIds -> TeamRows \cup {NoRow}]
    BY <1>1, <1>3 DEF TablesInv, TablesTyped
  <1>11. /\ now \in Nat \ {0} /\ DOMAIN agents' = AgentIds
         /\ \A a \in AgentIds : agents[a] # 0 => agents'[a] # 0
         /\ agents'[c] # 0 /\ agents'[s] # 0
    BY <1>1, <1>5 DEF TablesInv, TablesTyped
  <1>12. teams[t] = NoRow /\ job[h].row # NoRow
    BY <1>3, TeamsAssumption DEF LiveTeams
  <1>13. \A a \in AgentIds : members[a] # NoRow =>
           members[a].team \in TeamIds /\ teams[members[a].team] # NoRow /\ agents[a] # 0
    BY DEF TablesInv, TablesTyped, MemberRows, RosterSound, KeysHold
  <1>14. \A a \in AgentIds : members'[a] # NoRow => teams'[members'[a].team] # NoRow /\ agents'[a] # 0
    <2> SUFFICES ASSUME NEW a \in AgentIds, members'[a] # NoRow
                 PROVE  teams'[members'[a].team] # NoRow /\ agents'[a] # 0
      OBVIOUS
    <2>1. CASE a \in {c, s}
      <3>1. members'[a].team = t
        BY <1>5, <1>6, <1>7, <2>1
      <3>2. teams'[t] # NoRow
        BY <1>9, <1>12
      <3>3. agents'[a] # 0
        BY <1>11, <2>1
      <3>4. QED BY <3>1, <3>2, <3>3
    <2>2. CASE a \notin {c, s}
      BY <1>7, <1>9, <1>11, <1>12, <1>13, <2>2
    <2>3. QED BY <2>1, <2>2
  <1>15. ASSUME NEW a \in AgentIds, NEW b \in AgentIds, members'[a] # NoRow, members'[b] # NoRow,
                members'[a].team = members'[b].team, members'[a].role = members'[b].role
         PROVE  a = b
    <2>1. CASE a \in {c, s} \/ b \in {c, s}
      <3>1. a \in {c, s} /\ b \in {c, s}
        BY <1>6, <1>7, <1>12, <1>13, <1>15, <2>1
      <3>2. QED BY <1>5, <1>6, <1>7, <1>15, <3>1
    <2>2. CASE ~ (a \in {c, s} \/ b \in {c, s})
      BY <1>7, <1>15, <2>2 DEF TablesInv, RosterSound, KeysHold
    <2>3. QED BY <2>1, <2>2
  <1>16. ASSUME NEW u \in TeamIds, NEW v \in TeamIds, teams'[u] # NoRow, teams'[v] # NoRow,
                teams'[u].request = teams'[v].request
         PROVE  u = v
    BY <1>2, <1>9, <1>16 DEF TablesInv, RosterSound, KeysHold, LiveTeams
  <1>17. RosterSound'
    BY <1>14, <1>15, <1>16 DEF RosterSound, KeysHold
  <1>18. QED BY <1>2, <1>4, <1>8, <1>10, <1>11, <1>17 DEF TablesInv, TablesTyped

LEMMA AddMemberTables == ASSUME TablesInv, NEW h \in Handlers, AddMember(h) PROVE TablesInv'
  <1> DEFINE t == job[h].team
  <1>1. PICK s \in Next1, role \in SpecialistRoles :
          /\ FreeRole(t, role)
          /\ members' = [members EXCEPT ![s] = [team |-> t, role |-> role, status |-> "active"]]
          /\ agents' = [agents EXCEPT ![s] = now]
    BY DEF AddMember
  <1> DEFINE row == [team |-> t, role |-> role, status |-> "active"]
  <1>2. /\ Writes(h, "add") /\ UNCHANGED now /\ PutTeam(h, "active")
        /\ Goes(h, [NoJob EXCEPT !.pc = "list", !.op = "add", !.team = t])
    BY DEF AddMember
  <1>3. JobsFit'
    BY <1>2, WriterOf, ListedFits, JobGoesOn DEF TablesInv
  <1>4. /\ teams' \in [TeamIds -> TeamRows \cup {NoRow}] /\ t \in TeamIds
        /\ \A u \in TeamIds : teams[u] # NoRow => teams'[u] # NoRow
        /\ teams'[t] # NoRow
        /\ \A u, v \in TeamIds :
              /\ teams'[u] # NoRow /\ teams'[v] # NoRow
              /\ teams'[u].request = teams'[v].request
              => u = v
    <2>1. "add" \in TeamOps /\ "active" \in Statuses
      BY DEF TeamOps, Statuses
    <2>2. QED BY <1>2, <2>1, PutTeamKeeps, TeamsAssumption
  <1>5. s \in AgentIds
    BY DEF Next1, Unused
  <1>6. \A b \in Roster(t) : members[b].role # role
    BY <1>1 DEF FreeRole
  <1> HIDE DEF t
  <1>7. row \in MemberRows /\ row.team = t /\ row.role = role
    BY <1>4 DEF MemberRows, Statuses
  <1>8. members' = [members EXCEPT ![s] = row]
    BY <1>1
  <1> HIDE DEF row
  <1>9. \A a \in AgentIds : members'[a] = IF a = s THEN row ELSE members[a]
    BY <1>5, <1>8 DEF TablesInv, TablesTyped
  <1>10. members' \in [AgentIds -> MemberRows \cup {NoRow}]
    BY <1>5, <1>7, <1>8 DEF TablesInv, TablesTyped
  <1>11. /\ DOMAIN agents' = AgentIds /\ now \in Nat \ {0}
         /\ \A a \in AgentIds : agents[a] # 0 => agents'[a] # 0
         /\ agents'[s] # 0
    BY <1>1, <1>5 DEF TablesInv, TablesTyped
  <1>12. \A a \in AgentIds : members[a] # NoRow =>
           members[a].team \in TeamIds /\ teams[members[a].team] # NoRow /\ agents[a] # 0
    BY DEF TablesInv, TablesTyped, MemberRows, RosterSound, KeysHold
  <1>13. \A a \in AgentIds : members'[a] # NoRow => teams'[members'[a].team] # NoRow /\ agents'[a] # 0
    BY <1>4, <1>7, <1>9, <1>11, <1>12
  <1>14. ASSUME NEW a \in AgentIds, NEW b \in AgentIds, members'[a] # NoRow, members'[b] # NoRow,
                members'[a].team = members'[b].team, members'[a].role = members'[b].role
         PROVE  a = b
    BY <1>6, <1>7, <1>9, <1>14 DEF TablesInv, RosterSound, KeysHold, Roster
  <1>15. RosterSound'
    BY <1>4, <1>13, <1>14 DEF RosterSound, KeysHold
  <1>16. QED BY <1>2, <1>3, <1>4, <1>10, <1>11, <1>15 DEF TablesInv, TablesTyped

LEMMA DeleteTeamTables == ASSUME TablesInv, NEW h \in Handlers, DeleteTeam(h) PROVE TablesInv'
  <1> DEFINE t == job[h].team
             gone == job[h].gone
  <1>1. /\ Writes(h, "delete") /\ UNCHANGED now
        /\ \A a \in gone : members[a] # NoRow => members[a].team = t
        /\ teams' = [teams EXCEPT ![t] = NoRow]
        /\ members' = [a \in AgentIds |-> IF a \in Roster(t) THEN NoRow ELSE members[a]]
        /\ agents' = [a \in AgentIds |-> IF a \in gone THEN 0 ELSE agents[a]]
        /\ Goes(h, [NoJob EXCEPT !.pc = "cancel", !.gone = gone])
    BY DEF DeleteTeam
  <1>2. JobsFit'
    BY <1>1, WriterOf, CancelFits, JobGoesOn DEF TablesInv
  <1>3. TablesTyped'
    BY <1>1 DEF TablesInv, TablesTyped
  <1>4. \A a \in AgentIds : members'[a] # NoRow => members'[a] = members[a] /\ members[a].team # t
    BY <1>1 DEF Roster
  <1>5. \A u \in TeamIds : teams'[u] # NoRow => teams'[u] = teams[u]
    BY <1>1 DEF TablesInv, TablesTyped
  <1>6. \A u \in TeamIds : u # t => teams'[u] = teams[u]
    BY <1>1 DEF TablesInv, TablesTyped
  <1>7. \A a \in AgentIds : members[a] # NoRow /\ members[a].team # t => agents'[a] = agents[a]
    BY <1>1
  <1>8. \A a \in AgentIds : members[a] # NoRow =>
           members[a].team \in TeamIds /\ teams[members[a].team] # NoRow /\ agents[a] # 0
    BY DEF TablesInv, TablesTyped, MemberRows, RosterSound, KeysHold
  <1> HIDE DEF t, gone
  <1>9. \A a \in AgentIds : members'[a] # NoRow => teams'[members'[a].team] # NoRow /\ agents'[a] # 0
    BY <1>4, <1>6, <1>7, <1>8
  <1>10. RosterSound'
    BY <1>4, <1>5, <1>9 DEF TablesInv, RosterSound, KeysHold
  <1>11. QED BY <1>2, <1>3, <1>10 DEF TablesInv

\* An agent's row alone is written.
LEMMA AgentWriteTables ==
    ASSUME TablesInv, UNCHANGED <<teams, members>>, DOMAIN agents' = AgentIds,
           \A a \in AgentIds : members[a] # NoRow => agents'[a] # 0,
           now' \in Nat \ {0}, JobsFit'
    PROVE  TablesInv'
  BY DEF TablesInv, TablesTyped, RosterSound, KeysHold

LEMMA TouchTables == ASSUME TablesInv, NEW h \in Handlers, Touch(h) PROVE TablesInv'
  <1>1. PICK how \in {"ensure", "reload"} :
          Goes(h, [NoJob EXCEPT !.pc = "reload", !.how = how,
                                !.todo = {<<job[h].agent, now + 1>>}])
    BY DEF Touch
  <1>2. job[h].agent \in AgentIds /\ h \in Actors
    BY WriterOf DEF Touch, WriteFits
  <1> DEFINE a == job[h].agent
             next == [NoJob EXCEPT !.pc = "reload", !.how = how, !.todo = {<<a, now + 1>>}]
  <1>3. \A e \in {<<a, now + 1>>} : e[1] \in AgentIds
    BY <1>2
  <1>4. JobFits(h, next)
    BY <1>3, TeamsAssumption DEF JobFits, NoJob, JobFields
  <1> HIDE DEF next
  <1>5. JobsFit'
    BY <1>1, <1>2, <1>4, JobGoesOn DEF TablesInv, next
  <1>6. /\ now' \in Nat \ {0} /\ DOMAIN agents' = AgentIds
        /\ \A b \in AgentIds : agents[b] # 0 => agents'[b] # 0
    BY <1>2 DEF Touch, TablesInv, TablesTyped
  <1>7. \A b \in AgentIds : members[b] # NoRow => agents'[b] # 0
    BY <1>6 DEF TablesInv, RosterSound, KeysHold
  <1>8. UNCHANGED <<teams, members>>
    BY DEF Touch
  <1>9. QED BY <1>5, <1>6, <1>7, <1>8, AgentWriteTables

LEMMA NewAgentTables == ASSUME TablesInv, NEW h \in Handlers, NewAgent(h) PROVE TablesInv'
  <1>1. PICK a \in AgentIds : agents' = [agents EXCEPT ![a] = now]
    BY DEF NewAgent, Next1, Unused
  <1>2. UNCHANGED <<teams, members, now, job>>
    BY DEF NewAgent
  <1>3. JobsFit'
    BY <1>2 DEF TablesInv, JobsFit
  <1>4. now' \in Nat \ {0} /\ DOMAIN agents' = AgentIds
        /\ \A b \in AgentIds : agents[b] # 0 => agents'[b] # 0
    BY <1>1, <1>2 DEF TablesInv, TablesTyped
  <1>5. \A b \in AgentIds : members[b] # NoRow => agents'[b] # 0
    BY <1>4 DEF TablesInv, RosterSound, KeysHold
  <1>6. QED BY <1>2, <1>3, <1>4, <1>5, AgentWriteTables

LEMMA DropAgentTables == ASSUME TablesInv, NEW h \in Handlers, DropAgent(h) PROVE TablesInv'
  <1> DEFINE a == job[h].agent
  <1>1. /\ Writes(h, "drop") /\ members[a] = NoRow /\ agents' = [agents EXCEPT ![a] = 0]
        /\ Goes(h, [NoJob EXCEPT !.pc = "remove", !.gone = {a}])
        /\ UNCHANGED <<teams, members, now>>
    BY DEF DropAgent
  <1>2. JobsFit'
    BY <1>1, WriterOf, CancelFits, JobGoesOn DEF TablesInv
  <1>3. now' \in Nat \ {0} /\ DOMAIN agents' = AgentIds
        /\ \A b \in AgentIds : b # a => agents'[b] = agents[b]
    BY <1>1 DEF TablesInv, TablesTyped
  <1>4. \A b \in AgentIds : members[b] # NoRow => agents'[b] # 0
    BY <1>1, <1>3 DEF TablesInv, RosterSound, KeysHold
  <1>5. QED BY <1>1, <1>2, <1>3, <1>4, AgentWriteTables

LEMMA CreateExistsTables ==
    ASSUME TablesInv, NEW h \in Handlers, CreateExists(h) PROVE TablesInv'
  <1>1. JobsFit'
    BY WriterOf, ListedFits, JobGoesOn DEF CreateExists, TablesInv
  <1>2. QED BY <1>1, TablesStay DEF CreateExists

LEMMA TeamsStepTables == TablesInv /\ [TeamsNext]_teamVars => TablesInv'
  <1> SUFFICES ASSUME TablesInv, [TeamsNext]_teamVars PROVE TablesInv'
    OBVIOUS
  <1>1. ASSUME NEW h \in Handlers, Reads(h) PROVE TablesInv'
    BY <1>1, ReadTeamTables, ReadMemberTables, ReadRequestTables, ReadAgentTables DEF Reads
  <1>2. ASSUME NEW h \in Handlers, Transaction(h) PROVE TablesInv'
    <2>1. CASE Rollback(h)
      BY <2>1, EndTables DEF Rollback, Actors
    <2>2. QED BY <1>2, <2>1, CreateTables, CreateExistsTables, AddMemberTables, RenameTables,
               ArchiveTables, RestoreTables, SaveMemberTables, DeleteTeamTables, TouchTables,
               NewAgentTables, DropAgentTables DEF Transaction
  <1>3. ASSUME NEW h \in Handlers, Respond(h) PROVE TablesInv'
    BY <1>3, EndTables DEF Respond, Actors
  <1>4. CASE UNCHANGED teamVars
    <2>1. JobsFit'
      BY <1>4 DEF teamVars, TablesInv, JobsFit
    <2>2. QED BY <1>4, <2>1, TablesStay DEF teamVars
  <1>5. QED BY <1>1, <1>2, <1>3, <1>4, ListAgentsTables, CancelRootsTables,
            RemoveProfilesTables, LockProfileTables, StoreProfileTables, TurnTables DEF TeamsNext

\* Every reference of the team tables is to a row that is there and nothing
\* unique is repeated, whatever handlers overlap and however old what they
\* read is when they write it.
THEOREM RosterAlwaysSound == TeamsSpec => []RosterSound
  <1>1. TeamsInit => TablesInv
    BY TeamsInitInv DEF WriterInv
  <1>2. TablesInv => RosterSound
    BY DEF TablesInv
  <1>3. QED BY <1>1, <1>2, TeamsStepTables, PTL DEF TeamsSpec

-----------------------------------------------------------------------------
(* WriterInv: what else holds where one handler writes a stored team's row. *)

WritersKnow == \A h \in Handlers : WriterKnows(job[h])

\* A handler that goes on changes no other's job.
LEMMA HandlerGoes ==
    ASSUME TablesInv, NEW h \in Handlers, NEW next, Goes(h, next)
    PROVE  /\ \A g \in Handlers : job'[g] = IF g = h THEN next ELSE job[g]
           /\ \A x \in Turns : job'[x] = job[x]
  <1>1. \A q \in Actors : job'[q] = IF q = h THEN next ELSE job[q]
    BY DEF Goes, TablesInv, JobsFit, Actors
  <1>2. QED BY <1>1, TeamsAssumption DEF Actors

\* No agent is suspended without its turns being looked for.
LEMMA NoneGoesOnStill ==
    ASSUME TablesInv, NoneGoesOn, NEW h \in Handlers, job[h].pc # "cancel",
           NEW next, Goes(h, next), UNCHANGED escaped,
           \A a \in AgentIds :
              Suspended(a)' => Suspended(a) \/ (next.pc = "cancel" /\ a \in next.gone)
    PROVE  NoneGoesOn'
  <1> SUFFICES ASSUME NEW x \in Turns, job'[x].pc \in {"select", "running"},
                      Suspended(job[x].agent)'
               PROVE  \/ x \in escaped'
                      \/ \E g \in Handlers : job'[g].pc = "cancel" /\ job'[x].agent \in job'[g].gone
    BY DEF NoneGoesOn
  <1>1. job'[x] = job[x] /\ job[x].agent \in AgentIds
    BY HandlerGoes DEF TablesInv, JobsFit, JobFits, Actors
  <1>2. PICK a \in AgentIds : a = job[x].agent /\ a = job'[x].agent
    BY <1>1
  <1>3. Suspended(a)'
    BY <1>2 DEF Suspended
  <1>4. CASE Suspended(a)
    <2>1. Suspended(job[x].agent)
      BY <1>2, <1>4
    <2>2. x \in escaped \/ \E g \in Handlers : job[g].pc = "cancel" /\ job[x].agent \in job[g].gone
      BY <1>1, <2>1 DEF NoneGoesOn
    <2>3. QED BY <1>1, <2>2, HandlerGoes
  <1>5. CASE next.pc = "cancel" /\ a \in next.gone
    BY <1>2, <1>5, HandlerGoes
  <1>6. QED BY <1>3, <1>4, <1>5

\* Where the tables stay and what is read is what is there.
LEMMA HandlerQuiet ==
    ASSUME WriterInv, NEW h \in Handlers, job[h].pc # "cancel", NEW next, Goes(h, next),
           UNCHANGED <<teams, members, escaped>>, WriterKnows(next)
    PROVE  WritersKnow' /\ RetainsSpecialist' /\ NoneGoesOn'
  <1>1. \A g \in Handlers : job'[g] = next \/ job'[g] = job[g]
    BY HandlerGoes DEF WriterInv
  <1>2. WritersKnow'
    BY <1>1 DEF WriterInv, WritersKnow, WriterKnows, Roster, ActiveSpecialists
  <1>3. RetainsSpecialist'
    BY DEF WriterInv, RetainsSpecialist, LiveTeams, Roster, ActiveSpecialists
  <1>4. \A a \in AgentIds : Suspended(a)' => Suspended(a)
    BY DEF Suspended
  <1>5. NoneGoesOn'
    BY <1>4, NoneGoesOnStill DEF WriterInv
  <1>6. QED BY <1>2, <1>3, <1>5

\* Who is not about to write knows enough.
LEMMA NotWriting == ASSUME NEW j, j.pc # "write" PROVE WriterKnows(j)
  BY DEF WriterKnows

LEMMA ReadTeamKnows ==
    ASSUME WriterInv, NEW h \in Handlers, ReadTeam(h)
    PROVE  WritersKnow' /\ RetainsSpecialist' /\ NoneGoesOn'
  <1>1. PICK op \in {"rename", "archive", "restore", "delete", "add"}, t \in LiveTeams :
          /\ May(h, op)
          /\ Goes(h, [NoJob EXCEPT !.pc = "write", !.op = op, !.team = t, !.row = teams[t],
                                  !.gone = Roster(t)])
    BY DEF ReadTeam
  <1> DEFINE next == [NoJob EXCEPT !.pc = "write", !.op = op, !.team = t, !.row = teams[t],
                                  !.gone = Roster(t)]
  <1>2. WriterKnows(next)
    BY <1>1 DEF WriterKnows, NoJob
  <1>3. job[h].pc # "cancel" /\ Goes(h, next) /\ UNCHANGED <<teams, members, escaped>>
    BY <1>1 DEF ReadTeam, May
  <1> HIDE DEF next
  <1>4. QED BY <1>2, <1>3, HandlerQuiet

LEMMA ReadMemberKnows ==
    ASSUME WriterInv, NEW h \in Handlers, ReadMember(h)
    PROVE  WritersKnow' /\ RetainsSpecialist' /\ NoneGoesOn'
  <1>1. PICK a \in AgentIds, status \in {"active", "archived"} :
          /\ May(h, "member") /\ members[a] # NoRow
          /\ status = "archived" =>
                /\ members[a].role # Coordinator
                /\ members[a].status = "active" =>
                      Cardinality(ActiveSpecialists(members[a].team)) > 1
          /\ Goes(h, [NoJob EXCEPT !.pc = "write", !.op = "member", !.team = members[a].team,
                       !.row = teams[members[a].team], !.agent = a,
                       !.member = [members[a] EXCEPT !.status = status]])
    BY DEF ReadMember
  <1> DEFINE row == [members[a] EXCEPT !.status = status]
             t == members[a].team
             next == [NoJob EXCEPT !.pc = "write", !.op = "member", !.team = t,
                       !.row = teams[t], !.agent = a, !.member = row]
  <1>2. members[a] \in MemberRows /\ a \in Roster(t)
    BY <1>1 DEF WriterInv, TablesInv, TablesTyped, Roster
  <1>3. row.status = status /\ row.role = members[a].role
    BY <1>2 DEF MemberRows
  <1>4. Cardinality(ActiveSpecialists(t)) > 1 => \E b \in ActiveSpecialists(t) : b # a
    <2>1. CASE ActiveSpecialists(t) = {}
      BY <2>1, FS_EmptySet
    <2>2. CASE ActiveSpecialists(t) = {a}
      <3>1. Cardinality({a}) = 1
        BY FS_Singleton
      <3>2. QED BY <2>2, <3>1
    <2>3. QED BY <2>1, <2>2
  <1>5. Goes(h, next)
    BY <1>1
  <1>6. next.pc = "write" /\ next.op = "member" /\ next.team = t /\ next.row = teams[t]
        /\ next.agent = a /\ next.member = row
    BY DEF NoJob
  <1> HIDE DEF next, row, t
  <1>7. row.status = "archived" =>
          /\ row.role # Coordinator
          /\ members[a].status = "active" => \E b \in ActiveSpecialists(t) : b # a
    BY <1>1, <1>3, <1>4 DEF t
  <1>8. WriterKnows(next)
    BY <1>2, <1>3, <1>6, <1>7 DEF WriterKnows
  <1>9. job[h].pc # "cancel" /\ UNCHANGED <<teams, members, escaped>>
    BY <1>1 DEF ReadMember, May
  <1>10. QED BY <1>5, <1>8, <1>9, HandlerQuiet

\* Steps of a handler that touch neither a team nor a member.
LEMMA OtherReadsKnow ==
    ASSUME WriterInv, NEW h \in Handlers, ReadRequest(h) \/ ReadAgent(h)
    PROVE  WritersKnow' /\ RetainsSpecialist' /\ NoneGoesOn'
  <1>1. CASE ReadRequest(h)
    <2>1. PICK r \in RequestIds :
            /\ May(h, "create")
            /\ Goes(h, [NoJob EXCEPT !.pc = "write", !.op = "create",
                         !.row = [request |-> r, status |-> "active", revision |-> 1]])
      BY <1>1 DEF ReadRequest
    <2>2. WriterKnows([NoJob EXCEPT !.pc = "write", !.op = "create",
                         !.row = [request |-> r, status |-> "active", revision |-> 1]])
      BY DEF WriterKnows, NoJob, TeamOps
    <2>3. QED BY <1>1, <2>1, <2>2, HandlerQuiet DEF ReadRequest, May
  <1>2. CASE ReadAgent(h)
    <2>1. PICK op \in {"touch", "drop", "look"}, a \in LiveAgents :
            /\ May(h, op)
            /\ Goes(h, IF op = "look"
                     THEN [NoJob EXCEPT !.pc = "reload", !.how = "ensure",
                                       !.todo = WithStamps({a})]
                     ELSE [NoJob EXCEPT !.pc = "write", !.op = op, !.agent = a])
      BY <1>2 DEF ReadAgent
    <2>2. /\ WriterKnows([NoJob EXCEPT !.pc = "reload", !.how = "ensure",
                                       !.todo = WithStamps({a})])
          /\ op # "look" =>
               WriterKnows([NoJob EXCEPT !.pc = "write", !.op = op, !.agent = a])
      BY DEF WriterKnows, NoJob, TeamOps
    <2>3. QED BY <1>2, <2>1, <2>2, HandlerQuiet DEF ReadAgent, May
  <1>3. QED BY <1>1, <1>2

LEMMA QuietKnows ==
    ASSUME WriterInv, NEW h \in Handlers,
           \/ Rollback(h) \/ CreateExists(h) \/ Touch(h) \/ DropAgent(h)
           \/ ListAgents(h) \/ RemoveProfiles(h) \/ Respond(h)
           \/ LockProfile(h) \/ StoreProfile(h)
    PROVE  WritersKnow' /\ RetainsSpecialist' /\ NoneGoesOn'
  <1>1. DOMAIN job[h] = JobFields
    BY DEF WriterInv, TablesInv, JobsFit, JobFits, Actors
  <1>2. \E next : Goes(h, next) /\ next.pc # "write"
    <2>1. NoJob.pc = "idle" /\ (Rollback(h) \/ Respond(h) => Goes(h, NoJob))
      BY DEF Rollback, Respond, NoJob
    <2>2. CASE CreateExists(h)
      <3>1. Goes(h, [NoJob EXCEPT !.pc = "list", !.op = "create"])
        BY <2>2 DEF CreateExists
      <3>2. [NoJob EXCEPT !.pc = "list", !.op = "create"].pc # "write"
        BY DEF NoJob
      <3>3. QED BY <3>1, <3>2
    <2>3. CASE ListAgents(h)
      <3>1. PICK todo : Goes(h, [NoJob EXCEPT !.pc = "reload", !.todo = todo])
        BY <2>3, Zenon DEF ListAgents
      <3>2. [NoJob EXCEPT !.pc = "reload", !.todo = todo].pc # "write"
        BY DEF NoJob
      <3>3. QED BY <3>1, <3>2
    <2>4. CASE Touch(h)
      <3>1. PICK how, todo : Goes(h, [NoJob EXCEPT !.pc = "reload", !.how = how, !.todo = todo])
        BY <2>4, Zenon DEF Touch
      <3>2. [NoJob EXCEPT !.pc = "reload", !.how = how, !.todo = todo].pc # "write"
        BY DEF NoJob
      <3>3. QED BY <3>1, <3>2
    <2>5. CASE DropAgent(h)
      <3>1. PICK gone : Goes(h, [NoJob EXCEPT !.pc = "remove", !.gone = gone])
        BY <2>5, Zenon DEF DropAgent
      <3>2. [NoJob EXCEPT !.pc = "remove", !.gone = gone].pc # "write"
        BY DEF NoJob
      <3>3. QED BY <3>1, <3>2
    <2>6. CASE RemoveProfiles(h)
      <3>1. Goes(h, [job[h] EXCEPT !.pc = "reload", !.gone = {}])
        BY <2>6 DEF RemoveProfiles
      <3>2. [job[h] EXCEPT !.pc = "reload", !.gone = {}].pc # "write"
        BY <1>1 DEF JobFields
      <3>3. QED BY <3>1, <3>2
    <2>7. CASE LockProfile(h)
      <3>1. PICK e \in job[h].todo :
          /\ job[h].pc = "reload"
          /\ \/ Goes(h, [job[h] EXCEPT !.todo = @ \ {e}])
             \/ Goes(h, [job[h] EXCEPT !.pc = "load", !.agent = e[1],
                                       !.new = profiles[e[1]] = 0])
        BY <2>7 DEF LockProfile
      <3>2. /\ [job[h] EXCEPT !.todo = job[h].todo \ {e}].pc # "write"
            /\ [job[h] EXCEPT !.pc = "load", !.agent = e[1],
                              !.new = profiles[e[1]] = 0].pc # "write"
        BY <1>1, <3>1 DEF JobFields
      <3>3. QED BY <3>1, <3>2
    <2>8. CASE StoreProfile(h)
      <3>1. PICK e \in job[h].todo : Goes(h, [job[h] EXCEPT !.pc = "reload", !.todo = @ \ {e}])
        BY <2>8 DEF StoreProfile
      <3>2. [job[h] EXCEPT !.pc = "reload", !.todo = job[h].todo \ {e}].pc # "write"
        BY <1>1 DEF JobFields
      <3>3. QED BY <3>1, <3>2
    <2>9. QED BY <2>1, <2>2, <2>3, <2>4, <2>5, <2>6, <2>7, <2>8
  <1>3. job[h].pc # "cancel" /\ UNCHANGED <<teams, members, escaped>>
    BY DEF Rollback, CreateExists, Touch, DropAgent, ListAgents, RemoveProfiles, Respond,
           LockProfile, StoreProfile, Writes
  <1>4. QED BY <1>2, <1>3, NotWriting, HandlerQuiet

LEMMA StillKnows ==
    ASSUME WriterInv, UNCHANGED <<teams, members, job, escaped>>
    PROVE  WritersKnow' /\ RetainsSpecialist' /\ NoneGoesOn'
  <1>1. WritersKnow'
    BY DEF WriterInv, WritersKnow, WriterKnows, Roster, ActiveSpecialists
  <1>2. RetainsSpecialist'
    BY DEF WriterInv, RetainsSpecialist, LiveTeams, Roster, ActiveSpecialists
  <1>3. NoneGoesOn'
    BY DEF WriterInv, NoneGoesOn, Suspended
  <1>4. QED BY <1>1, <1>2, <1>3

\* A turn goes on: past the check only if its agent is not suspended.
LEMMA TurnGoes ==
    ASSUME WriterInv, NEW x \in Turns, NEW next, Goes(x, next), UNCHANGED <<teams, members>>,
           \A y \in Turns \ {x} : y \in escaped => y \in escaped',
           next.pc \in {"select", "running"} =>
              \/ ~ Suspended(next.agent)
              \/ /\ job[x].pc = "select" /\ next.agent = job[x].agent
                 /\ escaped' = escaped
    PROVE  WritersKnow' /\ RetainsSpecialist' /\ NoneGoesOn'
  <1>1. \A q \in Actors : job'[q] = IF q = x THEN next ELSE job[q]
    BY DEF Goes, WriterInv, TablesInv, JobsFit, Actors
  <1>2. \A h \in Handlers : job'[h] = job[h]
    BY <1>1, TeamsAssumption DEF Actors
  <1>3. WritersKnow'
    BY <1>2 DEF WriterInv, WritersKnow, WriterKnows, Roster, ActiveSpecialists
  <1>4. RetainsSpecialist'
    BY DEF WriterInv, RetainsSpecialist, LiveTeams, Roster, ActiveSpecialists
  <1>5. NoneGoesOn'
    <2> SUFFICES ASSUME NEW y \in Turns, job'[y].pc \in {"select", "running"},
                        Suspended(job[y].agent)'
                 PROVE  \/ y \in escaped'
                        \/ \E h \in Handlers :
                              job'[h].pc = "cancel" /\ job'[y].agent \in job'[h].gone
      BY DEF NoneGoesOn
    <2>1. Suspended(job'[y].agent)
      BY DEF Suspended
    <2>2. CASE y = x
      <3>1. job'[x] = next
        BY <1>1 DEF Actors
      <3>2. job[x].pc = "select" /\ next.agent = job[x].agent /\ escaped' = escaped
        BY <2>1, <2>2, <3>1
      <3>3. x \in escaped \/ \E h \in Handlers : job[h].pc = "cancel" /\ job[x].agent \in job[h].gone
        BY <2>1, <2>2, <3>1, <3>2 DEF WriterInv, NoneGoesOn
      <3>4. QED BY <1>2, <2>2, <3>1, <3>2, <3>3
    <2>3. CASE y # x
      <3>1. job'[y] = job[y]
        BY <1>1, <2>3 DEF Actors
      <3>2. y \in escaped \/ \E h \in Handlers : job[h].pc = "cancel" /\ job[y].agent \in job[h].gone
        BY <2>1, <3>1 DEF WriterInv, NoneGoesOn
      <3>3. QED BY <1>2, <2>3, <3>1, <3>2
    <2>4. QED BY <2>2, <2>3
  <1>6. QED BY <1>3, <1>4, <1>5

LEMMA TurnKnows ==
    ASSUME WriterInv, NEW x \in Turns,
           \/ OpenTurn(x) \/ CheckAccepts(x) \/ TrackRoot(x) \/ EndTurn(x)
           \/ LockProfile(x) \/ StoreProfile(x)
    PROVE  WritersKnow' /\ RetainsSpecialist' /\ NoneGoesOn'
  <1>1. DOMAIN job[x] = JobFields
    BY DEF WriterInv, TablesInv, JobsFit, JobFits, Actors
  <1>2. CASE OpenTurn(x)
    <2>1. PICK a, todo : Goes(x, [NoJob EXCEPT !.pc = "reload", !.how = "ensure", !.agent = a,
                                              !.todo = todo])
      BY <1>2, Zenon DEF OpenTurn
    <2>2. [NoJob EXCEPT !.pc = "reload", !.how = "ensure", !.agent = a, !.todo = todo].pc = "reload"
      BY DEF NoJob
    <2>3. QED BY <1>2, <2>1, <2>2, TurnGoes DEF OpenTurn
  <1>3. CASE CheckAccepts(x)
    <2>1. NoJob.pc = "idle"
      BY DEF NoJob
    <2>2. [job[x] EXCEPT !.pc = "select"].agent = job[x].agent
      BY <1>1 DEF JobFields
    <2>3. \/ Goes(x, NoJob)
          \/ Goes(x, [job[x] EXCEPT !.pc = "select"]) /\ ~ Suspended(job[x].agent)
      BY <1>3 DEF CheckAccepts, AcceptsTasks
    <2>4. UNCHANGED <<teams, members, escaped>>
      BY <1>3 DEF CheckAccepts
    <2>5. QED BY <2>1, <2>2, <2>3, <2>4, TurnGoes
  <1>4. CASE TrackRoot(x)
    <2>1. [job[x] EXCEPT !.pc = "running"].agent = job[x].agent
      BY <1>1 DEF JobFields
    <2>2. QED BY <1>4, <2>1, TurnGoes DEF TrackRoot
  <1>5. CASE EndTurn(x)
    <2>1. NoJob.pc = "idle"
      BY DEF NoJob
    <2>2. QED BY <1>5, <2>1, TurnGoes DEF EndTurn
  <1>6. CASE LockProfile(x)
    <2>1. PICK e \in job[x].todo :
        /\ job[x].pc = "reload"
        /\ \/ Goes(x, [job[x] EXCEPT !.todo = @ \ {e}])
           \/ Goes(x, [job[x] EXCEPT !.pc = "load", !.agent = e[1],
                                     !.new = profiles[e[1]] = 0])
      BY <1>6 DEF LockProfile
    <2>2. /\ [job[x] EXCEPT !.todo = job[x].todo \ {e}].pc = "reload"
          /\ [job[x] EXCEPT !.pc = "load", !.agent = e[1],
                            !.new = profiles[e[1]] = 0].pc = "load"
      BY <1>1, <2>1 DEF JobFields
    <2>3. UNCHANGED <<teams, members, escaped>>
      BY <1>6 DEF LockProfile
    <2>4. QED BY <2>1, <2>2, <2>3, TurnGoes
  <1>7. CASE StoreProfile(x)
    <2>1. PICK e \in job[x].todo : Goes(x, [job[x] EXCEPT !.pc = "reload", !.todo = @ \ {e}])
      BY <1>7 DEF StoreProfile
    <2>2. [job[x] EXCEPT !.pc = "reload", !.todo = job[x].todo \ {e}].pc = "reload"
      BY <1>1 DEF JobFields
    <2>3. UNCHANGED <<teams, members, escaped>>
      BY <1>7 DEF StoreProfile
    <2>4. QED BY <2>1, <2>2, <2>3, TurnGoes
  <1>8. QED BY <1>2, <1>3, <1>4, <1>5, <1>6, <1>7

\* Every turn the handler was to look for is cancelled, or not yet queued.
LEMMA CancelRootsKnows ==
    ASSUME WriterInv, NEW h \in Handlers, CancelRoots(h)
    PROVE  WritersKnow' /\ RetainsSpecialist' /\ NoneGoesOn'
  <1> DEFINE next == [job[h] EXCEPT !.pc = "remove"]
             of(pc) == RootsOf(job[h].gone, pc)
  <1>1. /\ \A p \in Actors :
             job'[p] = IF p = h THEN next ELSE IF p \in of("running") THEN NoJob ELSE job[p]
        /\ escaped' = (escaped \cup of("select")) \ of("running")
        /\ UNCHANGED <<teams, members>>
    BY DEF CancelRoots
  <1>2. next.pc = "remove"
    BY DEF WriterInv, TablesInv, JobsFit, JobFits, JobFields, Actors
  <1>3. \A g \in Handlers : job'[g] = IF g = h THEN next ELSE job[g]
    BY <1>1, TeamsAssumption DEF Actors, RootsOf
  <1>4. WritersKnow'
    <2>1. \A g \in Handlers : job'[g] = job[g] \/ job'[g].pc = "remove"
      BY <1>2, <1>3
    <2> HIDE DEF next
    <2>2. QED BY <1>1, <2>1 DEF WriterInv, WritersKnow, WriterKnows, Roster, ActiveSpecialists
  <1>5. RetainsSpecialist'
    BY <1>1 DEF WriterInv, RetainsSpecialist, LiveTeams, Roster, ActiveSpecialists
  <1>6. NoneGoesOn'
    <2> SUFFICES ASSUME NEW x \in Turns, job'[x].pc \in {"select", "running"},
                        Suspended(job[x].agent)'
                 PROVE  \/ x \in escaped'
                        \/ \E g \in Handlers :
                              job'[g].pc = "cancel" /\ job'[x].agent \in job'[g].gone
      BY DEF NoneGoesOn
    <2>1. Suspended(job'[x].agent)
      BY <1>1 DEF Suspended
    <2>2. job'[x] = job[x] /\ x \notin of("running")
      BY <1>1, TeamsAssumption DEF Actors, NoJob
    <2>3. CASE x \in escaped
      BY <1>1, <2>2, <2>3
    <2>4. CASE \E g \in Handlers : job[g].pc = "cancel" /\ job[x].agent \in job[g].gone
      <3>1. PICK g \in Handlers : job[g].pc = "cancel" /\ job[x].agent \in job[g].gone
        BY <2>4
      <3>2. CASE g = h
        <4>1. x \in of("select")
          BY <2>2, <3>1, <3>2 DEF RootsOf
        <4>2. QED BY <1>1, <2>2, <4>1
      <3>3. CASE g # h
        BY <1>3, <2>2, <3>1, <3>3
      <3>4. QED BY <3>2, <3>3
    <2>5. x \in escaped \/ \E g \in Handlers : job[g].pc = "cancel" /\ job[x].agent \in job[g].gone
      BY <2>1, <2>2 DEF WriterInv, NoneGoesOn
    <2>6. QED BY <2>3, <2>4, <2>5
  <1>7. QED BY <1>4, <1>5, <1>6

\* The one writer ends its transaction: nobody else is about to write a team.
LEMMA WriterDone ==
    ASSUME OneWriter, WriterInv, NEW h \in Handlers, NEW op \in TeamOps, Writes(h, op),
           NEW next, Goes(h, next), next.pc # "write"
    PROVE  WritersKnow'
  <1>1. PICK w \in Handlers : \A g \in Handlers \ {w} : OpsOf[g] \cap TeamOps = {}
    BY DEF OneWriter
  <1>2. h = w
    BY <1>1, WriterOf DEF WriterInv
  <1>3. \A g \in Handlers \ {h} : ~ (job[g].pc = "write" /\ job[g].op \in TeamOps)
    BY <1>1, <1>2 DEF WriterInv, TablesInv, JobsFit, JobFits, Actors
  <1>4. \A g \in Handlers : job'[g] = next \/ (job'[g] = job[g] /\ g # h)
    BY HandlerGoes DEF WriterInv
  <1>5. \A g \in Handlers : ~ (job'[g].pc = "write" /\ job'[g].op \in TeamOps)
    BY <1>3, <1>4
  <1>6. QED BY <1>5 DEF WritersKnow, WriterKnows

\* What the one writer puts back is the row that is there, with the status.
LEMMA PutTeamFresh ==
    ASSUME WriterInv, NEW h \in Handlers, NEW op \in TeamOps, Writes(h, op),
           NEW status \in Statuses, PutTeam(h, status)
    PROVE  /\ job[h].team \in LiveTeams /\ teams[job[h].team] = job[h].row
           /\ LiveTeams' = LiveTeams
           /\ teams'[job[h].team].status = status
           /\ \A t \in TeamIds \ {job[h].team} : teams'[t] = teams[t]
  <1>1. teams[job[h].team] = job[h].row /\ job[h].row \in TeamRows /\ job[h].team \in TeamIds
    BY WriterOf DEF WriterInv, WriterKnows, Writes, WriteFits
  <1>2. /\ teams'[job[h].team] \in TeamRows /\ teams'[job[h].team].status = status
        /\ \A t \in TeamIds \ {job[h].team} : teams'[t] = teams[t]
    BY PutTeamKeeps DEF WriterInv
  <1>3. QED BY <1>1, <1>2, TeamsAssumption DEF LiveTeams

\* A member's team is stored.
LEMMA MembersOfTeams ==
    ASSUME TablesInv
    PROVE  \A a \in AgentIds : members[a] # NoRow =>
              members[a] \in MemberRows /\ members[a].team \in LiveTeams
  BY DEF TablesInv, TablesTyped, RosterSound, KeysHold, MemberRows, LiveTeams

\* Rename, Archive and Restore: the team's row alone is written.
LEMMA RowWriteKnows ==
    ASSUME OneWriter, WriterInv, NEW h \in Handlers, NEW op \in TeamOps, Writes(h, op),
           NEW status \in Statuses, PutTeam(h, status), UNCHANGED <<members, escaped>>,
           NEW next, Goes(h, next), next.pc # "write",
           \/ status = "active"
           \/ status = job[h].row.status
           \/ next.pc = "cancel" /\ next.gone = Roster(job[h].team)
    PROVE  WritersKnow' /\ RetainsSpecialist' /\ NoneGoesOn'
  <1>1. RetainsSpecialist'
    BY PutTeamFresh DEF WriterInv, RetainsSpecialist, Roster, ActiveSpecialists
  <1>2. ASSUME NEW a \in AgentIds, Suspended(a)'
        PROVE  Suspended(a) \/ (next.pc = "cancel" /\ a \in next.gone)
    <2>1. /\ members[a] # NoRow
          /\ ~ (teams'[members[a].team].status = "active" /\ members[a].status = "active")
      BY <1>2 DEF Suspended
    <2>2. members[a].team \in TeamIds
      BY <2>1, MembersOfTeams DEF WriterInv, LiveTeams
    <2>3. CASE members[a].team = job[h].team
      BY <2>1, <2>3, PutTeamFresh DEF Suspended, Roster
    <2>4. CASE members[a].team # job[h].team
      BY <2>1, <2>2, <2>4, PutTeamFresh DEF Suspended
    <2>5. QED BY <2>3, <2>4
  <1>3. job[h].pc # "cancel"
    BY DEF Writes
  <1>4. NoneGoesOn'
    BY <1>2, <1>3, NoneGoesOnStill DEF WriterInv
  <1>5. QED BY <1>1, <1>4, WriterDone

LEMMA TeamRowKnows ==
    ASSUME OneWriter, WriterInv, NEW h \in Handlers, Rename(h) \/ Archive(h) \/ Restore(h)
    PROVE  WritersKnow' /\ RetainsSpecialist' /\ NoneGoesOn'
  <1>1. CASE Rename(h)
    <2>1. job[h].row.status \in Statuses /\ "rename" \in TeamOps
      BY <1>1, WriterOf DEF Rename, WriteFits, TeamOps, TeamRows, WriterInv
    <2>2. NoJob.pc # "write"
      BY DEF NoJob
    <2>3. QED BY <1>1, <2>1, <2>2, RowWriteKnows DEF Rename
  <1>2. CASE Archive(h)
    <2> DEFINE next == [NoJob EXCEPT !.pc = "cancel", !.gone = Roster(job[h].team)]
    <2>1. next.pc = "cancel" /\ next.gone = Roster(job[h].team)
      BY DEF NoJob
    <2>2. "archived" \in Statuses /\ "archive" \in TeamOps
      BY DEF Statuses, TeamOps
    <2>3. Goes(h, next)
      BY <1>2 DEF Archive
    <2> HIDE DEF next
    <2>4. QED BY <1>2, <2>1, <2>2, <2>3, RowWriteKnows DEF Archive
  <1>3. CASE Restore(h)
    <2>1. PICK todo : Goes(h, [NoJob EXCEPT !.pc = "reload", !.todo = todo])
      BY <1>3, Zenon DEF Restore
    <2>2. [NoJob EXCEPT !.pc = "reload", !.todo = todo].pc # "write"
      BY DEF NoJob
    <2>3. "active" \in Statuses /\ "restore" \in TeamOps
      BY DEF Statuses, TeamOps
    <2>4. QED BY <1>3, <2>1, <2>2, <2>3, RowWriteKnows DEF Restore
  <1>4. QED BY <1>1, <1>2, <1>3

\* The last active specialist is another, and who is archived is looked for.
LEMMA SaveMemberKnows ==
    ASSUME OneWriter, WriterInv, NEW h \in Handlers, SaveMember(h)
    PROVE  WritersKnow' /\ RetainsSpecialist' /\ NoneGoesOn'
  <1> DEFINE a == job[h].agent
             row == job[h].member
             t == job[h].team
             gone == IF row.status = "archived" THEN {a} ELSE {}
             next == [NoJob EXCEPT !.pc = IF gone = {} THEN "reload" ELSE "cancel",
                         !.gone = gone, !.todo = WithStamps(Roster(job[h].team) \ gone)]
  <1>1. Writes(h, "member") /\ "member" \in TeamOps /\ job[h].row.status \in Statuses
    BY WriterOf DEF SaveMember, TeamOps, WriteFits, TeamRows, WriterInv
  <1>2. a \in AgentIds /\ row \in MemberRows /\ row.team = t
    BY <1>1, WriterOf DEF WriteFits, WriterInv
  <1>3. /\ a \in Roster(t) /\ row.role = members[a].role
        /\ row.status = "archived" =>
             /\ row.role # Coordinator
             /\ members[a].status = "active" => \E b \in ActiveSpecialists(t) : b # a
    BY <1>1 DEF WriterInv, WriterKnows, Writes
  <1>4. Goes(h, next)
    BY DEF SaveMember
  <1>5. /\ next.pc # "write"
        /\ row.status = "archived" => next.pc = "cancel" /\ a \in next.gone
    BY DEF NoJob
  <1>6. /\ t \in LiveTeams /\ LiveTeams' = LiveTeams
        /\ \A u \in LiveTeams : teams'[u].status = teams[u].status
    <2>1. PutTeam(h, job[h].row.status)
      BY DEF SaveMember
    <2>2. QED BY <1>1, <2>1, PutTeamFresh DEF LiveTeams
  <1>7. members' = [members EXCEPT ![a] = row] /\ UNCHANGED escaped
    BY DEF SaveMember
  <1> HIDE DEF next, a, row, t
  <1>8. \A b \in AgentIds : members'[b] = IF b = a THEN row ELSE members[b]
    BY <1>2, <1>7 DEF WriterInv, TablesInv, TablesTyped
  <1>9. row # NoRow /\ row.status \in Statuses
    BY <1>2, TeamsAssumption DEF MemberRows
  <1>10. members[a] # NoRow /\ members[a].team = t
    BY <1>3 DEF Roster
  <1>11. ASSUME NEW u \in LiveTeams PROVE ActiveSpecialists(u)' # {}
    <2>1. PICK b \in AgentIds : /\ members[b] # NoRow /\ members[b].team = u
                                /\ members[b].role # Coordinator /\ members[b].status = "active"
      BY DEF WriterInv, RetainsSpecialist, ActiveSpecialists, Roster
    <2>2. CASE b # a
      <3>1. members'[b] = members[b]
        BY <1>8, <2>2
      <3>2. QED BY <2>1, <3>1 DEF ActiveSpecialists, Roster
    <2>3. CASE b = a /\ row.status = "active"
      <3>1. members'[a] = row
        BY <1>2, <1>8
      <3>2. QED BY <1>2, <1>3, <1>9, <1>10, <2>1, <2>3, <3>1 DEF ActiveSpecialists, Roster
    <2>4. CASE b = a /\ row.status = "archived"
      <3>1. PICK c \in ActiveSpecialists(t) : c # a
        BY <1>3, <2>1, <2>4
      <3>2. members'[c] = members[c] /\ c \in AgentIds
        BY <1>8, <3>1 DEF ActiveSpecialists, Roster
      <3>3. QED BY <1>10, <2>1, <2>4, <3>1, <3>2 DEF ActiveSpecialists, Roster
    <2>5. QED BY <1>9, <2>2, <2>3, <2>4 DEF Statuses
  <1>12. RetainsSpecialist'
    BY <1>6, <1>11 DEF RetainsSpecialist
  <1>13. ASSUME NEW b \in AgentIds, Suspended(b)'
         PROVE  Suspended(b) \/ (next.pc = "cancel" /\ b \in next.gone)
    <2>1. /\ members'[b] # NoRow
          /\ ~ (teams'[members'[b].team].status = "active" /\ members'[b].status = "active")
      BY <1>13 DEF Suspended
    <2>2. CASE b = a
      BY <1>2, <1>5, <1>6, <1>8, <1>9, <1>10, <2>1, <2>2 DEF Suspended, Statuses
    <2>3. CASE b # a
      BY <1>6, <1>8, <2>1, <2>3, MembersOfTeams DEF Suspended, WriterInv
    <2>4. QED BY <2>2, <2>3
  <1>14. job[h].pc # "cancel"
    BY <1>1 DEF Writes
  <1>15. NoneGoesOn'
    BY <1>4, <1>7, <1>13, <1>14, NoneGoesOnStill DEF WriterInv
  <1>16. QED BY <1>1, <1>4, <1>5, <1>12, <1>15, WriterDone

LEMMA AddMemberKnows ==
    ASSUME OneWriter, WriterInv, NEW h \in Handlers, AddMember(h)
    PROVE  WritersKnow' /\ RetainsSpecialist' /\ NoneGoesOn'
  <1> DEFINE t == job[h].team
  <1>1. PICK s \in Next1, role \in SpecialistRoles :
          members' = [members EXCEPT ![s] = [team |-> t, role |-> role, status |-> "active"]]
    BY DEF AddMember
  <1> DEFINE row == [team |-> t, role |-> role, status |-> "active"]
             next == [NoJob EXCEPT !.pc = "list", !.op = "add", !.team = t]
  <1>2. Writes(h, "add") /\ PutTeam(h, "active") /\ Goes(h, next) /\ UNCHANGED escaped
    BY DEF AddMember
  <1>3. "add" \in TeamOps /\ "active" \in Statuses
    BY DEF TeamOps, Statuses
  <1>4. /\ t \in LiveTeams /\ LiveTeams' = LiveTeams /\ teams'[t].status = "active"
        /\ \A u \in LiveTeams \ {t} : teams'[u] = teams[u]
    BY <1>2, <1>3, PutTeamFresh DEF LiveTeams
  <1>5. next.pc # "write"
    BY DEF NoJob
  <1>6. s \in AgentIds /\ members[s] = NoRow
    BY DEF Next1, Unused
  <1>7. row.team = t /\ row.status = "active"
    OBVIOUS
  <1>8. members' = [members EXCEPT ![s] = row]
    BY <1>1
  <1> HIDE DEF next, row, t
  <1>9. \A a \in AgentIds : members'[a] = IF a = s THEN row ELSE members[a]
    BY <1>6, <1>8 DEF WriterInv, TablesInv, TablesTyped
  <1>10. RetainsSpecialist'
    BY <1>4, <1>6, <1>9 DEF WriterInv, RetainsSpecialist, ActiveSpecialists, Roster
  <1>11. ASSUME NEW a \in AgentIds, Suspended(a)' PROVE Suspended(a)
    <2>1. /\ members'[a] # NoRow
          /\ ~ (teams'[members'[a].team].status = "active" /\ members'[a].status = "active")
      BY <1>11 DEF Suspended
    <2>2. a # s
      BY <1>4, <1>6, <1>7, <1>9, <2>1
    <2>3. QED BY <1>4, <1>9, <2>1, <2>2, MembersOfTeams DEF Suspended, WriterInv
  <1>12. job[h].pc # "cancel"
    BY <1>2 DEF Writes
  <1>13. NoneGoesOn'
    BY <1>2, <1>11, <1>12, NoneGoesOnStill DEF WriterInv
  <1>14. QED BY <1>2, <1>3, <1>5, <1>10, <1>13, WriterDone

LEMMA DeleteTeamKnows ==
    ASSUME OneWriter, WriterInv, NEW h \in Handlers, DeleteTeam(h)
    PROVE  WritersKnow' /\ RetainsSpecialist' /\ NoneGoesOn'
  <1> DEFINE t == job[h].team
             gone == job[h].gone
             next == [NoJob EXCEPT !.pc = "cancel", !.gone = gone]
  <1>1. /\ Writes(h, "delete")
        /\ teams' = [teams EXCEPT ![t] = NoRow]
        /\ members' = [a \in AgentIds |-> IF a \in Roster(t) THEN NoRow ELSE members[a]]
        /\ Goes(h, next) /\ UNCHANGED escaped
    BY DEF DeleteTeam
  <1>2. "delete" \in TeamOps /\ next.pc # "write"
    BY DEF TeamOps, NoJob
  <1> HIDE DEF next, t
  <1>3. \A a \in AgentIds : members'[a] = IF a \in Roster(t) THEN NoRow ELSE members[a]
    BY <1>1
  <1>4. \A u \in TeamIds : teams'[u] = IF u = t THEN NoRow ELSE teams[u]
    BY <1>1 DEF WriterInv, TablesInv, TablesTyped
  <1>5. LiveTeams' \subseteq LiveTeams \ {t}
    BY <1>4 DEF LiveTeams
  <1>6. RetainsSpecialist'
    BY <1>3, <1>5 DEF WriterInv, RetainsSpecialist, ActiveSpecialists, Roster
  <1>7. ASSUME NEW a \in AgentIds, Suspended(a)' PROVE Suspended(a)
    <2>1. /\ members'[a] # NoRow
          /\ ~ (teams'[members'[a].team].status = "active" /\ members'[a].status = "active")
      BY <1>7 DEF Suspended
    <2>2. members'[a] = members[a] /\ a \notin Roster(t)
      BY <1>3, <2>1
    <2>3. members[a].team # t /\ members[a].team \in TeamIds
      BY <2>1, <2>2, MembersOfTeams DEF Roster, WriterInv, LiveTeams
    <2>4. QED BY <1>4, <2>1, <2>2, <2>3 DEF Suspended
  <1>8. job[h].pc # "cancel"
    BY <1>1 DEF Writes
  <1>9. NoneGoesOn'
    BY <1>1, <1>7, <1>8, NoneGoesOnStill DEF WriterInv
  <1>10. QED BY <1>1, <1>2, <1>6, <1>9, WriterDone

\* A new team is nobody's row yet.
LEMMA CreateKnows ==
    ASSUME WriterInv, NEW h \in Handlers, Create(h)
    PROVE  WritersKnow' /\ RetainsSpecialist' /\ NoneGoesOn'
  <1>1. PICK t \in TeamIds \ LiveTeams, c \in Next1, s \in Next2, role \in SpecialistRoles :
          /\ Writes(h, "create")
          /\ \A u \in LiveTeams : teams[u].request # job[h].row.request
          /\ teams' = [teams EXCEPT ![t] = job[h].row]
          /\ members' = [members EXCEPT
                ![c] = [team |-> t, role |-> Coordinator, status |-> "active"],
                ![s] = [team |-> t, role |-> role, status |-> "active"]]
          /\ agents' = [agents EXCEPT ![c] = now, ![s] = now]
          /\ Goes(h, [NoJob EXCEPT !.pc = "list", !.op = "create"])
          /\ UNCHANGED <<now, profiles, registered, lock, served, escaped>>
    BY Zenon DEF Create
  <1> DEFINE first == [team |-> t, role |-> Coordinator, status |-> "active"]
             other == [team |-> t, role |-> role, status |-> "active"]
             next == [NoJob EXCEPT !.pc = "list", !.op = "create"]
  <1>2. Writes(h, "create") /\ Goes(h, next) /\ UNCHANGED escaped
    BY DEF Create
  <1>3. job[h].row \in TeamRows /\ job[h].row.status = "active"
    BY <1>2, WriterOf DEF WriteFits, WriterInv
  <1>4. c \in AgentIds /\ s \in AgentIds /\ c # s /\ members[c] = NoRow /\ members[s] = NoRow
    BY DEF Next1, Next2, Unused
  <1>5. /\ first # NoRow /\ first.team = t /\ first.status = "active"
        /\ other # NoRow /\ other.team = t /\ other.status = "active"
        /\ other.role # Coordinator
    <2>1. first \in MemberRows /\ other \in MemberRows
      BY DEF MemberRows, Statuses
    <2>2. QED BY <2>1, TeamsAssumption
  <1>6. next.pc # "write"
    BY DEF NoJob
  <1> HIDE DEF first, other, next
  <1>7. \A a \in AgentIds : members'[a] = IF a = s THEN other ELSE IF a = c THEN first ELSE members[a]
    BY <1>1, <1>4 DEF WriterInv, TablesInv, TablesTyped, first, other
  <1>8. \A u \in TeamIds : teams'[u] = IF u = t THEN job[h].row ELSE teams[u]
    BY <1>1 DEF WriterInv, TablesInv, TablesTyped
  <1>9. teams[t] = NoRow /\ t \in TeamIds
    BY DEF LiveTeams
  <1>10. \A u \in LiveTeams : Roster(u)' = Roster(u) /\ teams'[u] = teams[u]
    BY <1>4, <1>5, <1>7, <1>8, <1>9 DEF Roster, LiveTeams
  <1>11. \A u \in LiveTeams : \A a \in Roster(u) : members'[a] = members[a]
    BY <1>4, <1>7 DEF Roster
  <1>12. \A u \in LiveTeams : ActiveSpecialists(u)' = ActiveSpecialists(u)
    BY <1>10, <1>11 DEF ActiveSpecialists
  <1>13. WritersKnow'
    <2> SUFFICES ASSUME NEW g \in Handlers PROVE WriterKnows(job[g])'
      BY DEF WritersKnow
    <2>1. CASE g = h
      <3>1. job'[g] = next
        BY <1>2, <2>1, HandlerGoes DEF WriterInv
      <3>2. QED BY <1>6, <3>1 DEF WriterKnows
    <2>2. CASE g # h
      <3>1. job'[g] = job[g] /\ WriterKnows(job[g])
        BY <1>2, <2>2, HandlerGoes DEF WriterInv
      <3>2. ASSUME job[g].pc = "write", job[g].op \in TeamOps PROVE job[g].team \in LiveTeams
        BY <3>1, <3>2, TeamsAssumption
           DEF WriterInv, TablesInv, JobsFit, JobFits, WriteFits, WriterKnows, LiveTeams, Actors
      <3>3. QED BY <1>10, <1>11, <1>12, <3>1, <3>2 DEF WriterKnows
    <2>3. QED BY <2>1, <2>2
  <1>14. RetainsSpecialist'
    <2>1. s \in ActiveSpecialists(t)'
      BY <1>4, <1>5, <1>7 DEF ActiveSpecialists, Roster
    <2>2. LiveTeams' \subseteq LiveTeams \cup {t}
      BY <1>8 DEF LiveTeams
    <2>3. QED BY <1>12, <2>1, <2>2 DEF WriterInv, RetainsSpecialist
  <1>15. ASSUME NEW a \in AgentIds, Suspended(a)' PROVE Suspended(a)
    <2>1. /\ members'[a] # NoRow
          /\ ~ (teams'[members'[a].team].status = "active" /\ members'[a].status = "active")
      BY <1>15 DEF Suspended
    <2>2. a # s /\ a # c
      BY <1>3, <1>4, <1>5, <1>7, <1>8, <1>9, <2>1
    <2>3. members'[a] = members[a] /\ members[a].team \in LiveTeams
      BY <1>7, <2>1, <2>2, MembersOfTeams DEF WriterInv
    <2>4. QED BY <1>10, <2>1, <2>3 DEF Suspended
  <1>16. job[h].pc # "cancel"
    BY <1>2 DEF Writes
  <1>17. NoneGoesOn'
    BY <1>2, <1>15, <1>16, NoneGoesOnStill DEF WriterInv
  <1>18. QED BY <1>13, <1>14, <1>17

LEMMA WriterStepInv == OneWriter /\ WriterInv /\ [TeamsNext]_teamVars => WriterInv'
  <1> SUFFICES ASSUME OneWriter, WriterInv, [TeamsNext]_teamVars
               PROVE  WritersKnow' /\ RetainsSpecialist' /\ NoneGoesOn'
    BY TeamsStepTables DEF WriterInv, WritersKnow
  <1>1. ASSUME NEW h \in Handlers, Reads(h)
        PROVE  WritersKnow' /\ RetainsSpecialist' /\ NoneGoesOn'
    BY <1>1, ReadTeamKnows, ReadMemberKnows, OtherReadsKnow DEF Reads
  <1>2. ASSUME NEW h \in Handlers, Transaction(h)
        PROVE  WritersKnow' /\ RetainsSpecialist' /\ NoneGoesOn'
    <2>1. CASE NewAgent(h)
      BY <2>1, StillKnows DEF NewAgent
    <2>2. QED BY <1>2, <2>1, CreateKnows, AddMemberKnows, TeamRowKnows, SaveMemberKnows,
               DeleteTeamKnows, QuietKnows DEF Transaction
  <1>3. ASSUME NEW h \in Handlers,
               ListAgents(h) \/ CancelRoots(h) \/ RemoveProfiles(h) \/ Respond(h)
        PROVE  WritersKnow' /\ RetainsSpecialist' /\ NoneGoesOn'
    BY <1>3, CancelRootsKnows, QuietKnows
  <1>4. ASSUME NEW p \in Actors, LockProfile(p) \/ StoreProfile(p)
        PROVE  WritersKnow' /\ RetainsSpecialist' /\ NoneGoesOn'
    BY <1>4, QuietKnows, TurnKnows DEF Actors
  <1>5. ASSUME NEW x \in Turns, OpenTurn(x) \/ CheckAccepts(x) \/ TrackRoot(x) \/ EndTurn(x)
        PROVE  WritersKnow' /\ RetainsSpecialist' /\ NoneGoesOn'
    BY <1>5, TurnKnows
  <1>6. CASE UNCHANGED teamVars
    BY <1>6, StillKnows DEF teamVars
  <1>7. QED BY <1>1, <1>2, <1>3, <1>4, <1>5, <1>6 DEF TeamsNext

LEMMA WriterSound == ASSUME OneWriter PROVE TeamsSpec => []WriterInv
  <1>1. WriterInv /\ [TeamsNext]_teamVars => WriterInv'
    BY WriterStepInv
  <1>2. QED BY <1>1, TeamsInitInv, PTL DEF TeamsSpec

\* Where one handler writes the rows of stored teams, a running turn of an
\* archived agent is about to be cancelled or had passed its check before the
\* roots were: no other gets through.
THEOREM OnlyTheWindow == ASSUME OneWriter PROVE TeamsSpec => []OnlyTheWindowEscapes
  <1>1. WriterInv => OnlyTheWindowEscapes
    BY DEF WriterInv, NoneGoesOn, OnlyTheWindowEscapes
  <1>2. QED BY <1>1, WriterSound, PTL
=============================================================================
