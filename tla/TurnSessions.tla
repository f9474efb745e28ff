---------------------------- MODULE TurnSessions ----------------------------
(***************************************************************************)
(* One chat session of one agent: the turns that extend its history        *)
(* (agent/runner.py, agent/normalizer.py, agent/persistence.py) and the    *)
(* gateway's handlers that rename or delete it (gateway/router.py).        *)
(*                                                                         *)
(* The agent's queue runs one turn at a time.  A turn loads the record     *)
(* once, works on its own copy of the history and saves the whole record   *)
(* at its end, and only when it ends with an answer: a turn that fails or  *)
(* is cancelled leaves nothing.  The rounds of a turn are atomic, a tool   *)
(* round included: nobody else reads its copy.                             *)
(***************************************************************************)
EXTENDS Integers, SequencesExt

CONSTANTS
    GivenIds,       \* call ids from outside; an id is a sequence, the missing id the
                    \* empty one
    Calls,          \* lists of call ids a provider may send
    Imported,       \* histories an imported session may have
    Edits,          \* what the session's owner may do: "rename", "delete"
    MaxTurns,       \* bound on the turns begun
    MaxRounds,      \* request.max_rounds
    MaxFailed,      \* request.max_failed_tool_rounds, 0 for none
    NoSession

\* The ids, those made here included, and the messages and sessions with them.
AllIds == GivenIds \cup {<<>>} \cup (Nat \X Nat) \cup (Nat \X Nat \X Nat)
MessagesWith(ids) ==
    [role : {"system", "user", "assistant", "tool"}, calls : Seq(ids),
     raw : SUBSET Seq(ids), id : ids, real : BOOLEAN]
Sessions == [title : {"first", "renamed"}, messages : Seq(MessagesWith(AllIds))]

\* What comes from outside has the form of what is sent and stored.
ASSUME MessagesAssumption ==
    /\ Calls \subseteq Seq(GivenIds) /\ <<>> \in GivenIds
    /\ Imported \subseteq Seq(MessagesWith(GivenIds))
    /\ NoSession \notin Sessions

VARIABLES
    session,   \* the row: [title, messages], or NoSession
    turn,      \* the running turn: what it loaded, its history, round and failed rounds
    edit,      \* the rename in progress and the record it read
    begun,     \* turns begun
    kept       \* turns saved since the session's row was created

turnVars == <<session, turn, edit, begun, kept>>

\* A message; raw holds the call ids of the provider's own form of an
\* assistant message, when it was kept.
System == [role |-> "system", calls |-> <<>>, raw |-> {}, id |-> <<>>, real |-> TRUE]
User == [System EXCEPT !.role = "user"]
Text == [System EXCEPT !.role = "assistant"]
Assistant(cs) == [Text EXCEPT !.calls = cs, !.raw = {cs}]
Tool(id, real) == [System EXCEPT !.role = "tool", !.id = id, !.real = real]

\* _message_payload: the kept form is sent as it is.
Sent(m) == IF m.raw = {} THEN m.calls ELSE CHOOSE ids \in m.raw : TRUE

(***************************************************************************)
(* normalize_messages.                                                     *)
(***************************************************************************)
\* Unanswered calls get a synthesised result.
Flush(acc) ==
    [out |-> acc.out \o [k \in DOMAIN acc.pending |-> Tool(acc.pending[k], FALSE)],
     pending |-> <<>>, aliases |-> {}, used |-> acc.used]

\* A missing or used id is replaced by one made of the two positions.
Renamed(cs, used, i) ==
    LET ids[j \in DOMAIN cs] ==
          IF cs[j] = <<>> \/ cs[j] \in used \/ \E k \in 1 .. j - 1 : ids[k] = cs[j]
          THEN <<i, j>> ELSE cs[j]
    IN ids

\* _normalize_local_tool_calls: the accumulated answer of one provider request
\* has an id for every call, made of its position when it is missing or used.
LocalIds(cs) ==
    LET made(j, n) == IF n = 0 THEN <<0, j>> ELSE <<0, j, n>>
        ids[j \in DOMAIN cs] ==
          LET taken == {ids[k] : k \in 1 .. j - 1} IN
          IF cs[j] = <<>> \/ cs[j] \in taken
          THEN made(j, CHOOSE n \in 0 .. j : made(j, n) \notin taken)
          ELSE cs[j]
    IN ids

AcceptCalls(acc, m, i) ==
    LET ids == Renamed(m.calls, acc.used, i)
        first(j) == \A k \in 1 .. j - 1 : m.calls[k] # m.calls[j]
    IN [out |-> Append(Flush(acc).out, [m EXCEPT !.calls = ids]),
        pending |-> ids,
        aliases |-> {<<m.calls[j], ids[j]>> :
                        j \in {k \in DOMAIN ids : m.calls[k] # <<>> /\ first(k)}},
        used |-> acc.used \cup ToSet(ids)]

\* Fault: a result is only looked up by its own id.
AnsweredById(acc, id) == {k \in DOMAIN acc.pending : acc.pending[k] = id}
\* The pending call a result belongs to; a result without one is dropped.
Answered(acc, id) ==
    {k \in DOMAIN acc.pending :
        IF id \in ToSet(acc.pending) THEN acc.pending[k] = id
        ELSE \/ <<id, acc.pending[k]>> \in acc.aliases
             \/ id = <<>> /\ Len(acc.pending) = 1}

AcceptResult(acc, m) ==
    LET owners == Answered(acc, m.id)
        k == CHOOSE k \in owners : TRUE
    IN IF owners = {} THEN acc
       ELSE [out |-> Append(acc.out, [m EXCEPT !.id = acc.pending[k]]),
             pending |-> RemoveAt(acc.pending, k),
             aliases |-> acc.aliases, used |-> acc.used]

AcceptOther(acc, m) ==
    LET flushed == Flush(acc) IN [flushed EXCEPT !.out = Append(@, m)]

Accept(acc, m, i) ==
    CASE m.role = "assistant" -> AcceptCalls(acc, m, i)
      [] m.role = "tool" -> AcceptResult(acc, m)
      [] OTHER -> AcceptOther(acc, m)

\* The loop, after so many messages.
Loop(messages) ==
    LET acc[n \in 0 .. Len(messages)] ==
          IF n = 0 THEN [out |-> <<>>, pending |-> <<>>, aliases |-> {}, used |-> {}]
          ELSE Accept(acc[n - 1], messages[n], n)
    IN acc

Normalize(messages) == Flush(Loop(messages)[Len(messages)]).out

(***************************************************************************)
(* Turns.                                                                  *)
(***************************************************************************)
NoTurn == [pc |-> "idle", stored |-> NoSession, history |-> <<>>, round |-> 0, failed |-> 0]
NoEdit == [pc |-> "idle", record |-> NoSession]

\* No session yet, or one the Go import has brought.
TurnInit ==
    /\ session \in {NoSession} \cup {[title |-> "first", messages |-> h] : h \in Imported}
    /\ turn = NoTurn
    /\ edit = NoEdit
    /\ begun = 0
    /\ kept = 0

\* The stored history with the system prompt in front, unless it has one, and
\* the user's message; the scope guard may answer at once.
Load ==
    \E prompt \in BOOLEAN, pc \in {"ask", "save"} :
        LET stored == IF session = NoSession THEN <<>> ELSE session.messages
            headed == IF prompt /\ System \notin ToSet(stored)
                      THEN <<System>> \o stored ELSE stored
            history == Normalize(Append(headed, User))
        IN
        /\ turn.pc = "idle" /\ begun < MaxTurns
        /\ begun' = begun + 1
        /\ turn' = [NoTurn EXCEPT !.pc = pc, !.stored = session,
              !.history = IF pc = "save" THEN Append(history, Text) ELSE history]
        /\ UNCHANGED <<session, edit, kept>>

\* The provider's answer: text ends the turn, calls are run.
Ask ==
    \E cs \in Calls :
        /\ turn.pc = "ask"
        /\ turn' = [turn EXCEPT !.pc = IF cs = <<>> THEN "save" ELSE "tools",
                                !.history = Append(@, Assistant(LocalIds(cs)))]
        /\ UNCHANGED <<session, edit, begun, kept>>

\* The calls to run, and the history with the results of the first n of them.
Asked == IF turn.pc = "tools" THEN Last(turn.history).calls ELSE <<>>
WithResults(n) == turn.history \o [j \in 1 .. n |-> Tool(Asked[j], TRUE)]

\* All calls are answered, one by one or as a batch.  Rounds in which every
\* call failed are counted, and the gate ends the turn after MaxFailed of them.
RunTools ==
    \E failed \in BOOLEAN :
        LET history == WithResults(Len(Asked))
            failures == IF failed THEN turn.failed + 1 ELSE 0
            gated == MaxFailed > 0 /\ failures >= MaxFailed
        IN
        /\ turn.pc = "tools"
        /\ gated \/ turn.round + 1 < MaxRounds
        /\ turn' = [turn EXCEPT
              !.pc = IF gated THEN "save" ELSE "ask",
              !.history = IF gated THEN Append(history, Text) ELSE history,
              !.round = @ + 1, !.failed = failures]
        /\ UNCHANGED <<session, edit, begun, kept>>

\* A direct result is the answer; the calls after it are never run.
DirectReturn ==
    \E n \in DOMAIN Asked :
        /\ turn' = [turn EXCEPT !.pc = "save",
                                !.history = Append(WithResults(n), Text)]
        /\ UNCHANGED <<session, edit, begun, kept>>

\* The title is that of the record loaded, or taken from the message.
Title == IF turn.stored = NoSession THEN "first" ELSE turn.stored.title
\* Fault: the answer is added to the history that was loaded.
StaleRecord ==
    [title |-> Title,
     messages |-> Append(IF turn.stored = NoSession THEN <<>> ELSE turn.stored.messages,
                         Last(turn.history))]
Record == [title |-> Title, messages |-> turn.history]

Save ==
    /\ turn.pc = "save"
    /\ session' = Record
    /\ kept' = kept + 1
    /\ turn' = NoTurn
    /\ UNCHANGED <<edit, begun>>

\* A provider error, too many rounds or a cancellation: nothing is saved.
Abandon ==
    /\ turn.pc # "idle"
    /\ turn' = NoTurn
    /\ UNCHANGED <<session, edit, begun, kept>>

(***************************************************************************)
(* The owner's requests.                                                   *)
(***************************************************************************)
ReadToRename ==
    /\ "rename" \in Edits
    /\ edit.pc = "idle" /\ session # NoSession
    /\ edit' = [pc |-> "write", record |-> session]
    /\ UNCHANGED <<session, turn, begun, kept>>

\* save_session writes every column of the record that was read.
WriteRenamed ==
    /\ edit.pc = "write"
    /\ session' = [edit.record EXCEPT !.title = "renamed"]
    /\ edit' = NoEdit
    /\ UNCHANGED <<turn, begun, kept>>

Delete ==
    /\ "delete" \in Edits
    /\ session # NoSession
    /\ session' = NoSession
    /\ kept' = 0
    /\ UNCHANGED <<turn, edit, begun>>

TurnNext ==
    \/ Load \/ Ask \/ RunTools \/ DirectReturn \/ Save \/ Abandon
    \/ ReadToRename \/ WriteRenamed \/ Delete

TurnSpec == TurnInit /\ [][TurnNext]_turnVars

(***************************************************************************)
(* Properties.                                                             *)
(***************************************************************************)
\* The calls of an assistant message are answered, once each, by the messages
\* right after it, and there are no other results.
Paired(h, CallsOf(_)) ==
    /\ \A i \in DOMAIN h : h[i].role = "assistant" =>
          LET ids == CallsOf(h[i])
              n == Len(ids)
          IN
          /\ i + n <= Len(h)
          /\ \A j \in 1 .. n : h[i + j].role = "tool"
          /\ {h[i + j].id : j \in 1 .. n} = ToSet(ids) /\ Cardinality(ToSet(ids)) = n
    /\ \A i \in DOMAIN h : h[i].role = "tool" =>
          \E k \in 1 .. i - 1 :
             h[k].role = "assistant" /\ i <= k + Len(CallsOf(h[k]))

\* Whatever earlier turns and the import left behind (calls after a direct
\* return, ids missing or given twice, results without a call), a turn goes on
\* from a history in which every call has its result.
HistoryIsPaired ==
    turn.pc = "ask" => Paired(turn.history, LAMBDA m : m.calls)

\* docs/migration/phase-3-single-agent.md:22: ids given twice are repaired, so
\* what is sent to the provider is paired too.
ProviderSeesPairs == turn.pc = "ask" => Paired(turn.history, Sent)

RealResults(h) == Cardinality({i \in DOMAIN h : h[i].role = "tool" /\ h[i].real})

\* Repairing a history drops none of the results that turns have recorded; a
\* renamed session may be an imported one again, orphans included.
ReplayKeepsResults ==
    /\ turn.pc = "ask" /\ turn.round = 0 /\ kept > 0
    /\ turn.stored # NoSession /\ turn.stored.title = "first"
    =>  RealResults(turn.history) = RealResults(turn.stored.messages)

\* Both: what a turn goes on from is well formed and complete.
ReplayIsSound == HistoryIsPaired /\ ReplayKeepsResults

\* Every turn that was answered since the session was created is in its
\* history; renaming, which writes back the history it read, is the exception.
AnsweredTurnsKept ==
    session # NoSession /\ session.title = "first" =>
        Cardinality({i \in DOMAIN session.messages : session.messages[i].role = "user"}) >= kept
=============================================================================
