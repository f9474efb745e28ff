--------------------------- MODULE RuntimeProofs ---------------------------
(***************************************************************************)
(* StreamIsSound for every bound on the deltas.  The invariant relates     *)
(* what was queued for the reader or taken by it to the state of the run:  *)
(* a message is queued only when the session is written, an error never    *)
(* after a message, and neither before the run is about to end.            *)
(***************************************************************************)
EXTENDS RunStream, RuntimeLifecycle, SequenceTheorems, TLAPS

Items == {"delta", "content", "DONE", "ERROR", "FAILED", "STOP"}

Ends == {"closing", "over"}

DoneSeen == "DONE" \in ToSet(events) \/ "message" \in got
ErrorSeen == "ERROR" \in ToSet(events) \/ "error" \in got

\* The inductive invariant.
StreamInv ==
    /\ events \in Seq(Items)
    /\ "detached" \in flags => events = <<>>
    /\ run \in {"new", "queued"} => upstream = "none"
    /\ run \in {"saving"} \cup Ends => upstream # "open"
    /\ run \in {"new", "queued", "streaming", "saving"} \cup Ends
    /\ outcome # "none" => run \in Ends
    /\ supervisor = "new" => tracked /\ run = "new" /\ outcome = "none"
    /\ tracked \/ reader = "stopped" \/ run \in Ends
    /\ DoneSeen => saved /\ outcome \in {"value", "cancelled"} /\ ~ ErrorSeen
    /\ ErrorSeen => run \in Ends
    /\ reader = "answered" => "message" \in got

\* emit adds the items, or nothing at all, and detaches nobody.
LEMMA EmitAdds ==
    ASSUME StreamInv, NEW items \in Seq(Items), Emit(items)
    PROVE  /\ events' \in Seq(Items)
           /\ ToSet(events') \subseteq ToSet(events) \cup ToSet(items)
           /\ "detached" \in flags' => events' = <<>>
  <1>1. events' \in Seq(Items) /\ (events' = events \/ events' = events \o items)
    BY DEF Emit, StreamInv
  <1>2. \A x \in ToSet(events \o items) : x \in ToSet(events) \cup ToSet(items)
    BY DEF ToSet, StreamInv
  <1>3. ToSet(events') \subseteq ToSet(events) \cup ToSet(items)
    BY <1>1, <1>2
  <1>4. "detached" \in flags' => events' = <<>>
    BY DEF Emit, StreamInv
  <1>5. QED BY <1>1, <1>3, <1>4

LEMMA AppendAdds ==
    ASSUME NEW s \in Seq(Items), NEW x \in Items
    PROVE  Append(s, x) \in Seq(Items) /\ ToSet(Append(s, x)) \subseteq ToSet(s) \cup {x}
  BY AppendProperties DEF ToSet

LEMMA StreamInitInv == StreamInit => StreamInv
  BY DEF StreamInit, StreamInv, DoneSeen, ErrorSeen, ToSet, Items, Ends

LEMMA StreamStepInv == StreamInv /\ [StreamNext]_streamVars => StreamInv'
  <1> SUFFICES ASSUME StreamInv, [StreamNext]_streamVars PROVE StreamInv'
    OBVIOUS
  <1> USE DEF Ends
  <1>1. CASE Submit
    BY <1>1 DEF Submit, StreamInv, DoneSeen, ErrorSeen
  <1>2. CASE Begin
    BY <1>2 DEF Begin, StreamInv, DoneSeen, ErrorSeen
  <1>3. CASE Delta
    <2>1. <<"delta">> \in Seq(Items) /\ ToSet(<<"delta">>) = {"delta"}
      BY DEF Items, ToSet
    <2>2. QED BY <1>3, <2>1, EmitAdds DEF Delta, StreamInv, DoneSeen, ErrorSeen
  <1>4. CASE Terminal
    BY <1>4 DEF Terminal, StreamInv, DoneSeen, ErrorSeen
  <1>5. CASE Commit
    BY <1>5 DEF Commit, StreamInv, DoneSeen, ErrorSeen
  <1>6. CASE Answer
    <2>1. <<"content", "DONE">> \in Seq(Items) /\ ToSet(<<"content", "DONE">>) = {"content", "DONE"}
      BY DEF Items, ToSet
    <2>2. ~ ErrorSeen /\ ~ ErrorSeen'
      BY <1>6, <2>1, EmitAdds DEF Answer, StreamInv, ErrorSeen
    <2>3. QED BY <1>6, <2>1, <2>2, EmitAdds DEF Answer, StreamInv
  <1>7. CASE Fail
    <2>1. <<"ERROR", "FAILED">> \in Seq(Items) /\ ToSet(<<"ERROR", "FAILED">>) = {"ERROR", "FAILED"}
      BY DEF Items, ToSet
    <2>2. ~ DoneSeen /\ ~ DoneSeen'
      BY <1>7, <2>1, EmitAdds DEF Fail, StreamInv, DoneSeen
    <2>3. QED BY <1>7, <2>1, <2>2, EmitAdds DEF Fail, StreamInv
  <1>8. CASE Close
    BY <1>8 DEF Close, StreamInv, DoneSeen, ErrorSeen
  <1>9. CASE CancelRun
    BY <1>9 DEF CancelRun, Cancelled, StreamInv, DoneSeen, ErrorSeen
  <1>10. CASE Supervise
    <2>1. /\ Ending \in Seq(Items)
          /\ ToSet(Ending) \subseteq {"ERROR", "FAILED", "STOP"}
          /\ outcome # "failed" => ToSet(Ending) \subseteq {"STOP"}
      <3>1. /\ Report \in Seq(Items) /\ ToSet(Report) \subseteq {"ERROR", "FAILED"}
            /\ outcome # "failed" => ToSet(Report) \subseteq {}
        <4>1. /\ <<>> \in Seq(Items) /\ ToSet(<<>>) = {}
              /\ <<"ERROR", "FAILED">> \in Seq(Items)
              /\ ToSet(<<"ERROR", "FAILED">>) = {"ERROR", "FAILED"}
          BY DEF Items, ToSet
        <4>2. CASE outcome = "failed" /\ Report = <<"ERROR", "FAILED">>
          BY <4>1, <4>2
        <4>3. CASE Report = <<>>
          BY <4>1, <4>3
        <4>4. QED BY <4>2, <4>3 DEF Report
      <3>2. "STOP" \in Items
        BY DEF Items
      <3>3. QED BY <3>1, <3>2, AppendAdds DEF Ending
    <2>2. Emit(Ending) /\ UNCHANGED <<run, outcome, upstream, saved, reader, got>>
            /\ supervisor' = "done" /\ (run = "over" \/ outcome = "cancelled" \/ reader = "stopped")
      BY <1>10 DEF Supervise
    <2>3. "DONE" \in ToSet(events') => "DONE" \in ToSet(events)
      BY <2>1, <2>2, EmitAdds
    <2>4. "ERROR" \in ToSet(events') => "ERROR" \in ToSet(events) \/ outcome = "failed"
      BY <2>1, <2>2, EmitAdds
    <2>5. DoneSeen' => DoneSeen
      BY <2>2, <2>3 DEF DoneSeen
    <2>6. ErrorSeen' => ErrorSeen \/ outcome = "failed"
      BY <2>2, <2>4 DEF ErrorSeen
    <2>7. QED BY <2>1, <2>2, <2>5, <2>6, EmitAdds DEF StreamInv
  <1>11. CASE Take
    <2>1. /\ events' = Tail(events) /\ events # <<>> /\ events \in Seq(Items)
          /\ got' = got \cup (CASE Head(events) = "ERROR" -> {"error"}
                               [] Head(events) = "DONE" -> {"message"}
                               [] OTHER -> {})
          /\ UNCHANGED <<run, outcome, upstream, saved, flags, tracked, supervisor, reader>>
      BY <1>11 DEF Take, StreamInv
    <2>2. /\ Tail(events) \in Seq(Items) /\ ToSet(Tail(events)) \subseteq ToSet(events)
          /\ Head(events) \in ToSet(events)
      BY <2>1 DEF ToSet
    <2>3. /\ "message" \in got' => "message" \in got \/ Head(events) = "DONE"
          /\ "error" \in got' => "error" \in got \/ Head(events) = "ERROR"
          /\ got \subseteq got'
      BY <2>1
    <2>4. (DoneSeen' => DoneSeen) /\ (ErrorSeen' => ErrorSeen)
      BY <2>1, <2>2, <2>3 DEF DoneSeen, ErrorSeen
    <2>5. QED BY <2>1, <2>2, <2>3, <2>4 DEF StreamInv
  <1>12. CASE TakeStop
    <2>1. events' = <<>> /\ ToSet(events') = {} /\ <<>> \in Seq(Items)
      BY <1>12 DEF TakeStop, ToSet
    <2>2. QED BY <1>12, <2>1 DEF TakeStop, StreamInv, DoneSeen, ErrorSeen
  <1>13. CASE Leave
    <2>1. events' = <<>> /\ ToSet(events') = {} /\ <<>> \in Seq(Items)
      BY <1>13 DEF Leave, ToSet
    <2>2. QED BY <1>13, <2>1 DEF Leave, StreamInv, DoneSeen, ErrorSeen
  <1>14. CASE StopRun
    BY <1>14 DEF StopRun, Cancelled, StreamInv, DoneSeen, ErrorSeen
  <1>15. CASE UNCHANGED streamVars
    BY <1>15 DEF streamVars, StreamInv, DoneSeen, ErrorSeen
  <1>16. QED BY <1>1, <1>2, <1>3, <1>4, <1>5, <1>6, <1>7, <1>8, <1>9, <1>10, <1>11, <1>12, <1>13,
            <1>14, <1>15 DEF StreamNext

LEMMA StreamInvSuffices == StreamInv => StreamIsSound
  BY DEF StreamInv, StreamIsSound, DetachedHoldsNothing, RunIsTracked, AnswerWasSaved,
         UpstreamClosed, DoneSeen, ErrorSeen, Ends

\* Whenever the reader leaves or stops the run and wherever the run fails or is
\* cancelled: nothing is queued for one who left, the root is tracked while it
\* can be cancelled, an answer was saved and is never given with an error, and
\* the provider's response is closed (ManagedAgentStream, AgentRunner._run).
THEOREM StreamSound == StreamSpec => []StreamIsSound
  BY StreamInitInv, StreamStepInv, StreamInvSuffices, PTL DEF StreamSpec

---------------------------------------------------------------------------
(***************************************************************************)
(* StopsInOrder for any number of providers and plugins.                   *)
(***************************************************************************)

\* What the runtime and the manager own, and what the first n callbacks of the
\* exit stack give back.
RuntimeOwns == ToSet(ProviderOrder) \cup {"http", "web"}
ManagerOwns == ToSet(PluginOrder) \cup {"jobs"}
Kept(n) ==
    (IF n >= 1 THEN {"database"} ELSE {}) \cup (IF n >= 2 THEN RuntimeOwns ELSE {})
        \cup (IF n >= 3 THEN ManagerOwns ELSE {})
Stacks ==
    {<<>>, <<"database">>, <<"database", "runtime">>, <<"database", "runtime", "manager">>}

\* What stopping x gives back, and stopping all of a sequence.
Of(x) == IF x = "plugins" THEN ToSet(PluginOrder) ELSE {x}
OfAll(s) == UNION {Of(s[i]) : i \in 1 .. Len(s)}

\* Nothing in s is used by what comes after it, or is stopped twice.
Ordered(s) ==
    \A i, j \in 1 .. Len(s) : i < j =>
        /\ Of(s[i]) \cap Of(s[j]) = {}
        /\ \A r \in Of(s[i]), user \in Of(s[j]) : <<user, r>> \notin Uses

\* What is held is still to be stopped, by the current step or by the rest,
\* and nothing of it is used by the rest.
Plan(rest) ==
    /\ Held \subseteq rest \cup OfAll(todo)
    /\ \A r \in rest \cup OfAll(todo) : releases[r] = 0
    /\ rest \cap OfAll(todo) = {}
    /\ Ordered(todo)
    /\ \A r \in OfAll(todo), user \in rest : <<user, r>> \notin Uses

\* The providers that are left to start are the last of them.
ProvidersLeft ==
    LET n == Len(ProviderOrder) - Len(todo) IN
    /\ n \in 0 .. Len(ProviderOrder)
    /\ todo = SubSeq(ProviderOrder, n + 1, Len(ProviderOrder))
    /\ acquired = {"database", "http", "web"} \cup {ProviderOrder[i] : i \in 1 .. n}

NothingReleased == \A r \in Resources : releases[r] = 0

LifeTypes ==
    /\ acquired \subseteq Resources
    /\ releases \in [Resources -> Nat]
    /\ todo \in Seq(Resources \cup {"plugins"})
    /\ callbacks \in Stacks
    /\ app \in {"schema", "http", "web", "providers", "plugins", "serving", "rollback",
                "unwind", "stopping"}

\* The inductive invariant: what each step of the lifespan leaves to be done.
LifeInv ==
    /\ LifeTypes
    /\ \A r \in Resources : releases[r] <= 1
    /\ UsersStopFirst
    /\ app \in {"schema", "http", "web", "providers", "rollback"} => callbacks = <<"database">>
    /\ app \in {"schema", "http", "web", "providers", "plugins", "serving"} => NothingReleased
    /\ app \in {"schema", "http"} => acquired = {"database"}
    /\ app = "web" => acquired = {"database", "http"}
    /\ app = "providers" => ProvidersLeft
    /\ app = "plugins" => todo \in Seq(ToSet(PluginOrder))
    /\ app \in {"plugins", "serving"} => Len(callbacks) = 3
    /\ app = "rollback" => Plan({"database"}) /\ \A i \in 1 .. Len(todo) : todo[i] # "plugins"
    /\ app = "unwind" => \A n \in 0 .. 3 : Len(callbacks) = n =>
          Held \subseteq Kept(n) /\ \A r \in Kept(n) : releases[r] = 0
    /\ app = "stopping" =>
          callbacks # <<>> /\ \A n \in 0 .. 2 : Len(callbacks) = n + 1 => Plan(Kept(n))

\* Providers, plugins and the rest are told apart.
LEMMA NamesApart ==
    /\ \A i \in 1 .. Len(ProviderOrder) : ProviderOrder[i] \in ToSet(ProviderOrder)
    /\ \A p \in ToSet(ProviderOrder) : p \notin OwnNames /\ p \notin ToSet(PluginOrder)
    /\ \A x \in ToSet(PluginOrder) : x \notin OwnNames
    /\ \A i, j \in 1 .. Len(ProviderOrder) : ProviderOrder[i] = ProviderOrder[j] => i = j
    /\ Len(ProviderOrder) \in Nat
    /\ ToSet(ProviderOrder) = {ProviderOrder[i] : i \in 1 .. Len(ProviderOrder)}
<1>1. /\ DOMAIN ProviderOrder = 1 .. Len(ProviderOrder) /\ Len(ProviderOrder) \in Nat
  BY OrdersAssumption
<1>2. ToSet(ProviderOrder) = {ProviderOrder[i] : i \in 1 .. Len(ProviderOrder)}
  BY <1>1 DEF ToSet
<1>3. \A i, j \in 1 .. Len(ProviderOrder) : ProviderOrder[i] = ProviderOrder[j] => i = j
  BY <1>1, OrdersAssumption DEF IsInjective
<1> QED
  BY <1>1, <1>2, <1>3, OrdersAssumption

\* Who uses what, told without pairs.
LEMMA WhoUses ==
    ASSUME NEW user, NEW r, <<user, r>> \in Uses
    PROVE  /\ user \in Resources /\ r \in Resources /\ user # r
           /\ \/ user = "jobs"
              \/ r = "database"
              \/ user \in ToSet(ProviderOrder) /\ r = "http"
BY NamesApart DEF Uses, Resources, OwnNames, HttpClients

\* The order in which a runtime with n providers started is stopped: the
\* providers backwards, then the clients; nothing is stopped under its user.
LEMMA StopOrder ==
    ASSUME NEW n \in 0 .. Len(ProviderOrder)
    PROVE  LET s == Reverse(SubSeq(ProviderOrder, 1, n)) \o <<"http", "web">> IN
           /\ s \in Seq(Resources \cup {"plugins"})
           /\ OfAll(s) = {ProviderOrder[i] : i \in 1 .. n} \cup {"http", "web"}
           /\ Ordered(s)
           /\ \A i \in 1 .. Len(s) : s[i] # "plugins"
<1> DEFINE started == SubSeq(ProviderOrder, 1, n)
           s == Reverse(started) \o <<"http", "web">>
<1>1. n \in Nat /\ Len(started) = n /\ \A i \in 1 .. n : started[i] = ProviderOrder[i]
  BY NamesApart, OrdersAssumption
<1>2. /\ Len(Reverse(started)) = n
      /\ \A i \in 1 .. n : Reverse(started)[i] = ProviderOrder[n - i + 1]
      /\ Reverse(started) \in Seq(Resources)
  <2>1. Reverse(started) = [i \in 1 .. n |-> started[n - i + 1]]
    BY <1>1 DEF Reverse
  <2>2. \A i \in 1 .. n : n - i + 1 \in 1 .. n /\ ProviderOrder[n - i + 1] \in Resources
    BY <1>1, NamesApart DEF Resources
  <2>3. \A i \in 1 .. n : started[n - i + 1] = ProviderOrder[n - i + 1]
    BY <1>1, <2>2
  <2> HIDE DEF started
  <2>4. Reverse(started) \in Seq(Resources)
    BY <1>1, <2>1, <2>2, <2>3
  <2> QED
    BY <1>1, <2>1, <2>2, <2>3, <2>4
<1>3. /\ Len(s) = n + 2 /\ s[n + 1] = "http" /\ s[n + 2] = "web"
      /\ \A i \in 1 .. n : s[i] = ProviderOrder[n - i + 1]
      /\ s \in Seq(Resources \cup {"plugins"})
  <2> HIDE DEF started
  <2>1. "http" \in Resources /\ "web" \in Resources
    BY DEF Resources, HttpClients
  <2> QED
    BY <1>1, <1>2, <2>1
<1> HIDE DEF s
<1>4. \A i \in 1 .. n : s[i] \in ToSet(ProviderOrder) /\ s[i] \notin OwnNames
  <2>1. \A i \in 1 .. n : n - i + 1 \in 1 .. Len(ProviderOrder)
    BY <1>1, NamesApart
  <2>2. \A i \in 1 .. n : s[i] = ProviderOrder[n - i + 1]
    BY <1>3
  <2>3. \A i \in 1 .. n : ProviderOrder[n - i + 1] \in ToSet(ProviderOrder)
    BY <2>1, NamesApart
  <2> QED
    BY <2>2, <2>3, NamesApart
<1>5. \A i \in 1 .. Len(s) : s[i] # "plugins" /\ Of(s[i]) = {s[i]}
  <2> TAKE i \in 1 .. Len(s)
  <2>1. i \in 1 .. n \/ i = n + 1 \/ i = n + 2
    BY <1>1, <1>3
  <2>2. s[i] # "plugins"
    BY <1>3, <1>4, <2>1 DEF OwnNames
  <2> QED
    BY <2>2 DEF Of
<1>6. OfAll(s) = {ProviderOrder[i] : i \in 1 .. n} \cup {"http", "web"}
  <2>1. ASSUME NEW x \in OfAll(s)
        PROVE  x \in {ProviderOrder[i] : i \in 1 .. n} \cup {"http", "web"}
    <3>1. PICK i \in 1 .. Len(s) : x = s[i]
      BY <1>5, <2>1 DEF OfAll
    <3>2. i \in 1 .. n \/ i = n + 1 \/ i = n + 2
      BY <1>1, <1>3
    <3>3. i \in 1 .. n => n - i + 1 \in 1 .. n
      BY <1>1
    <3> QED
      BY <1>3, <3>1, <3>2, <3>3
  <2>2. ASSUME NEW i \in 1 .. n
        PROVE  ProviderOrder[i] \in OfAll(s)
    <3>1. n - i + 1 \in 1 .. n /\ n - (n - i + 1) + 1 = i
      BY <1>1
    <3>2. s[n - i + 1] = ProviderOrder[i] /\ n - i + 1 \in 1 .. Len(s)
      BY <1>1, <1>3, <3>1
    <3> QED
      BY <1>5, <3>2 DEF OfAll
  <2>3. "http" \in OfAll(s) /\ "web" \in OfAll(s)
    <3>1. n + 1 \in 1 .. Len(s) /\ n + 2 \in 1 .. Len(s)
      BY <1>1, <1>3
    <3> QED
      BY <1>3, <1>5, <3>1 DEF OfAll
  <2> QED
    BY <2>1, <2>2, <2>3
<1>7. Ordered(s)
  <2> SUFFICES ASSUME NEW i \in 1 .. Len(s), NEW j \in 1 .. Len(s), i < j
               PROVE  s[i] # s[j] /\ <<s[j], s[i]>> \notin Uses
    BY <1>5 DEF Ordered
  <2>1. (i \in 1 .. n \/ i = n + 1) /\ (j \in 1 .. n \/ j = n + 1 \/ j = n + 2)
        /\ (i = n + 1 => j = n + 2)
    BY <1>1, <1>3
  <2>2. s[i] # s[j]
    <3>1. CASE i \in 1 .. n /\ j \in 1 .. n
      <4>1. n - i + 1 \in 1 .. Len(ProviderOrder) /\ n - j + 1 \in 1 .. Len(ProviderOrder)
            /\ n - i + 1 # n - j + 1
        BY <1>1, <3>1, NamesApart
      <4> QED
        BY <1>3, <3>1, <4>1, NamesApart
    <3> QED
      BY <1>3, <1>4, <2>1, <3>1 DEF OwnNames
  <2>3. s[j] # "jobs" /\ s[i] # "database"
    BY <1>3, <1>4, <2>1 DEF OwnNames
  <2>4. s[i] = "http" => s[j] \notin ToSet(ProviderOrder)
    BY <1>3, <1>4, <2>1, NamesApart DEF OwnNames
  <2> QED
    BY <2>2, <2>3, <2>4, WhoUses
<1> QED
  BY <1>3, <1>5, <1>6, <1>7 DEF s

\* A sequence of two elements.
LEMMA PairIs ==
    ASSUME NEW S, NEW t \in Seq(S), Len(t) = 2
    PROVE  t = <<t[1], t[2]>>
<1>1. <<t[1], t[2]>> \in Seq(S)
  <2>1. 1 \in 1 .. Len(t) /\ 2 \in 1 .. Len(t)
    OBVIOUS
  <2>2. t[1] \in S /\ t[2] \in S
    BY <2>1, ElementOfSeq
  <2> QED
    BY <2>2
<1>2. \A i \in 1 .. Len(t) : i = 1 \/ i = 2
  OBVIOUS
<1>3. \A i \in 1 .. Len(t) : t[i] = <<t[1], t[2]>>[i]
  BY <1>2
<1> QED
  BY <1>1, <1>3, SeqEqual

\* A sequence of one element.
LEMMA SingleIs ==
    ASSUME NEW S, NEW t \in Seq(S), Len(t) = 1
    PROVE  t = <<t[1]>>
<1>1. <<t[1]>> \in Seq(S)
  OBVIOUS
<1>2. \A i \in 1 .. Len(t) : t[i] = <<t[1]>>[i]
  OBVIOUS
<1> QED
  BY <1>1, <1>2, SeqEqual

\* The front of a stack and its last callback.
LEMMA StackTop ==
    ASSUME callbacks \in Stacks, callbacks # <<>>
    PROVE  /\ Front(callbacks) \in Stacks /\ Len(Front(callbacks)) = Len(callbacks) - 1
           /\ Len(callbacks) \in 1 .. 3
           /\ Len(callbacks) = 1 => Last(callbacks) = "database"
           /\ Len(callbacks) = 2 => Last(callbacks) = "runtime"
           /\ Len(callbacks) = 3 => Last(callbacks) = "manager"
<1> DEFINE Names == {"database", "runtime", "manager"}
<1>1. callbacks \in Seq(Names) /\ Len(callbacks) \in 1 .. 3
  <2>1. CASE callbacks = <<"database">>
    BY <2>1
  <2>2. CASE callbacks = <<"database", "runtime">>
    BY <2>2
  <2>3. CASE callbacks = <<"database", "runtime", "manager">>
    BY <2>3
  <2> QED
    BY <2>1, <2>2, <2>3 DEF Stacks
<1>2. /\ Front(callbacks) \in Seq(Names) /\ Len(Front(callbacks)) = Len(callbacks) - 1
      /\ \A i \in 1 .. Len(callbacks) - 1 : Front(callbacks)[i] = callbacks[i]
      /\ Last(callbacks) = callbacks[Len(callbacks)]
  BY <1>1 DEF Front, Last
<1> HIDE DEF Names
<1>3. CASE callbacks = <<"database">>
  <2>1. Len(Front(callbacks)) = 0
    BY <1>2, <1>3
  <2>2. Front(callbacks) = <<>>
    BY <1>2, <2>1
  <2> QED
    BY <1>2, <1>3, <2>2 DEF Stacks
<1>4. CASE callbacks = <<"database", "runtime">>
  <2>1. Len(Front(callbacks)) = 1 /\ Front(callbacks)[1] = "database"
    BY <1>2, <1>4
  <2>2. Front(callbacks) = <<"database">>
    BY <1>2, <2>1, SingleIs
  <2> QED
    BY <1>2, <1>4, <2>2 DEF Stacks
<1>5. CASE callbacks = <<"database", "runtime", "manager">>
  <2>1. /\ Len(Front(callbacks)) = 2 /\ Front(callbacks)[1] = "database"
        /\ Front(callbacks)[2] = "runtime"
    BY <1>2, <1>5
  <2>2. Front(callbacks) = <<"database", "runtime">>
    BY <1>2, <2>1, PairIs
  <2> QED
    BY <1>2, <1>5, <2>2 DEF Stacks
<1> QED
  BY <1>3, <1>4, <1>5 DEF Stacks

\* The last callback stops what it owns, in an order that Plan allows.
LEMMA CallbackPlan ==
    ASSUME LifeTypes, NEW n \in 0 .. 2, Len(callbacks) = n + 1, Held \subseteq Kept(n + 1),
           \A r \in Kept(n + 1) : releases[r] = 0,
           todo' = Stops(Last(callbacks)), UNCHANGED <<acquired, releases>>
    PROVE  Plan(Kept(n))' /\ todo' \in Seq(Resources \cup {"plugins"})
<1>0. Held' = Held /\ callbacks # <<>> /\ callbacks \in Stacks
  BY DEF Held, LifeTypes
<1>1. CASE n = 0
  <2>1. todo' = <<"database">>
    <3>1. Last(callbacks) = "database"
      BY <1>0, <1>1, StackTop
    <3> QED
      BY <3>1 DEF Stops
  <2>2. Len(todo') = 1 /\ todo'[1] = "database" /\ Of("database") = {"database"}
    BY <2>1 DEF Of
  <2>3. OfAll(todo') = {"database"} /\ Ordered(todo')
    BY <2>2 DEF OfAll, Ordered
  <2>4. Kept(0) = {} /\ Kept(1) = {"database"} /\ "database" \in Resources
    BY DEF Kept, Resources
  <2> QED
    BY <1>0, <1>1, <2>1, <2>3, <2>4 DEF Plan
<1>2. CASE n = 1
  <2>1. todo' = Reverse(ProviderOrder) \o <<"http", "web">>
    <3>1. Last(callbacks) = "runtime"
      BY <1>0, <1>2, StackTop
    <3> QED
      BY <3>1 DEF Stops
  <2>2. SubSeq(ProviderOrder, 1, Len(ProviderOrder)) = ProviderOrder
    BY OrdersAssumption
  <2>3. /\ todo' \in Seq(Resources \cup {"plugins"}) /\ OfAll(todo') = RuntimeOwns
        /\ Ordered(todo')
    <3>1. todo' = Reverse(SubSeq(ProviderOrder, 1, Len(ProviderOrder))) \o <<"http", "web">>
      BY <2>1, <2>2
    <3>2. Len(ProviderOrder) \in 0 .. Len(ProviderOrder)
      BY NamesApart
    <3>3. /\ todo' \in Seq(Resources \cup {"plugins"})
          /\ OfAll(todo') = {ProviderOrder[i] : i \in 1 .. Len(ProviderOrder)} \cup {"http", "web"}
          /\ Ordered(todo')
      BY <3>1, <3>2, StopOrder
    <3> QED
      BY <3>3, NamesApart DEF RuntimeOwns
  <2>4. Kept(1) = {"database"} /\ Kept(2) = {"database"} \cup RuntimeOwns
        /\ "database" \notin RuntimeOwns
    BY NamesApart DEF Kept, RuntimeOwns, OwnNames
  <2>5. \A r \in RuntimeOwns : <<"database", r>> \notin Uses
    BY <2>4, WhoUses, NamesApart DEF OwnNames
  <2>6. Held \subseteq Kept(2) /\ \A r \in Kept(2) : releases[r] = 0
    BY <1>2
  <2> QED
    BY <1>0, <1>2, <2>3, <2>4, <2>5, <2>6 DEF Plan
<1>3. CASE n = 2
  <2>1. todo' = <<"jobs", "plugins">>
    <3>1. Last(callbacks) = "manager"
      BY <1>0, <1>3, StackTop
    <3> QED
      BY <3>1 DEF Stops
  <2>2. /\ Len(todo') = 2 /\ todo'[1] = "jobs" /\ todo'[2] = "plugins"
        /\ Of("jobs") = {"jobs"} /\ Of("plugins") = ToSet(PluginOrder)
    BY <2>1 DEF Of
  <2>3. OfAll(todo') = ManagerOwns
    BY <2>2 DEF OfAll, ManagerOwns
  <2>4. Ordered(todo')
    BY <2>2, WhoUses, NamesApart DEF Ordered, OwnNames
  <2>5. Kept(2) = {"database"} \cup RuntimeOwns /\ Kept(3) = Kept(2) \cup ManagerOwns
        /\ Kept(2) \cap ManagerOwns = {}
    <3>1. Kept(2) = {"database"} \cup RuntimeOwns /\ Kept(3) = Kept(2) \cup ManagerOwns
      BY DEF Kept
    <3>2. ({"database"} \cup RuntimeOwns) \cap ManagerOwns = {}
      BY NamesApart DEF RuntimeOwns, ManagerOwns, OwnNames
    <3> QED
      BY <3>1, <3>2
  <2>6. \A r \in ManagerOwns, user \in Kept(2) : <<user, r>> \notin Uses
    BY <2>5, WhoUses, NamesApart DEF RuntimeOwns, ManagerOwns, OwnNames
  <2>7. todo' \in Seq(Resources \cup {"plugins"})
    BY <2>1 DEF Resources
  <2>8. Held \subseteq Kept(3) /\ \A r \in Kept(3) : releases[r] = 0
    BY <1>3
  <2> QED
    BY <1>0, <1>3, <2>3, <2>4, <2>5, <2>6, <2>7, <2>8 DEF Plan
<1> QED
  BY <1>1, <1>2, <1>3

\* Stopping the first of what is left keeps the plan for the others, gives
\* nothing back twice and closes nothing under its user.
LEMMA StopFirst ==
    ASSUME LifeTypes, UsersStopFirst, \A r \in Resources : releases[r] <= 1,
           NEW rest, Plan(rest), rest \subseteq Resources,
           todo # <<>>, Release(Of(Head(todo))), todo' = Tail(todo), acquired' = acquired
    PROVE  /\ Plan(rest)' /\ UsersStopFirst' /\ \A r \in Resources : releases'[r] <= 1
           /\ releases' \in [Resources -> Nat]
           /\ todo' \in Seq(Resources \cup {"plugins"})
<1> DEFINE gone == Of(Head(todo))
<1>1. /\ todo' \in Seq(Resources \cup {"plugins"}) /\ Len(todo') = Len(todo) - 1
      /\ \A i \in 1 .. Len(todo') : todo'[i] = todo[i + 1]
      /\ Head(todo) = todo[1] /\ Len(todo) \in Nat /\ Len(todo) >= 1
  BY DEF LifeTypes
<1>2. /\ releases' \in [Resources -> Nat]
      /\ \A r \in Resources : r \in gone \cap acquired => releases'[r] = releases[r] + 1
      /\ \A r \in Resources : r \notin gone \cap acquired => releases'[r] = releases[r]
  BY DEF Release, LifeTypes
<1>3. gone \subseteq OfAll(todo)
  BY <1>1 DEF OfAll
<1>4. \A x \in OfAll(todo) : x \in gone \/ \E j \in 1 .. Len(todo) : j > 1 /\ x \in Of(todo[j])
  BY <1>1 DEF OfAll
<1>5. \A x \in OfAll(todo') : x \in OfAll(todo) /\ x \notin gone
  <2> TAKE x \in OfAll(todo')
  <2>1. PICK i \in 1 .. Len(todo') : x \in Of(todo'[i])
    BY DEF OfAll
  <2>2. i + 1 \in 1 .. Len(todo) /\ 1 < i + 1 /\ 1 \in 1 .. Len(todo) /\ x \in Of(todo[i + 1])
    BY <1>1, <2>1
  <2>3. gone \cap Of(todo[i + 1]) = {}
    BY <1>1, <2>2 DEF Plan, Ordered
  <2> QED
    BY <2>2, <2>3 DEF OfAll
<1>6. \A x \in OfAll(todo) : x \notin gone => x \in OfAll(todo')
  <2> SUFFICES ASSUME NEW j \in 1 .. Len(todo), j > 1, NEW x \in Of(todo[j])
               PROVE  x \in OfAll(todo')
    BY <1>4
  <2>1. j - 1 \in 1 .. Len(todo') /\ todo'[j - 1] = todo[j]
    BY <1>1
  <2> QED
    BY <2>1 DEF OfAll
<1>7. Held \subseteq Resources /\ OfAll(todo) \subseteq Resources
  <2>1. \A i \in 1 .. Len(todo) : todo[i] \in Resources \cup {"plugins"}
    BY DEF LifeTypes
  <2> QED
    BY <2>1 DEF Held, LifeTypes, OfAll, Of, Resources
<1>8. Held' = Held \ gone
  <2>1. Held' = {r \in acquired : releases'[r] = 0}
    BY DEF Held
  <2>2. \A r \in acquired : releases'[r] = 0 <=> releases[r] = 0 /\ r \notin gone
    BY <1>2 DEF LifeTypes
  <2> QED
    BY <2>1, <2>2 DEF Held
<1>9. \A r \in rest \cup OfAll(todo') : releases'[r] = 0
  BY <1>2, <1>3, <1>5, <1>7 DEF Plan
<1>10. Ordered(todo')
  <2> SUFFICES ASSUME NEW i \in 1 .. Len(todo'), NEW j \in 1 .. Len(todo'), i < j
               PROVE  /\ Of(todo'[i]) \cap Of(todo'[j]) = {}
                      /\ \A r \in Of(todo'[i]), user \in Of(todo'[j]) : <<user, r>> \notin Uses
    BY DEF Ordered
  <2>1. i + 1 \in 1 .. Len(todo) /\ j + 1 \in 1 .. Len(todo) /\ i + 1 < j + 1
    BY <1>1
  <2> QED
    BY <1>1, <2>1 DEF Plan, Ordered
<1>11. Plan(rest)'
  <2>1. Held' \subseteq rest \cup OfAll(todo')
    BY <1>6, <1>8 DEF Plan
  <2>2. rest \cap OfAll(todo') = {} /\ \A r \in OfAll(todo'), user \in rest : <<user, r>> \notin Uses
    BY <1>5 DEF Plan
  <2> QED
    BY <1>9, <1>10, <2>1, <2>2 DEF Plan
<1>12. UsersStopFirst'
  <2> SUFFICES ASSUME NEW user, NEW r, <<user, r>> \in Uses, releases'[r] > 0
               PROVE  user \notin Held'
    BY DEF UsersStopFirst, Uses
  <2>1. CASE releases[r] > 0
    BY <1>8, <2>1 DEF UsersStopFirst
  <2>2. CASE ~(releases[r] > 0)
    <3>1. r \in gone
      BY <1>2, <2>2, WhoUses
    <3>2. user \notin rest
      BY <1>3, <3>1 DEF Plan
    <3>3. ASSUME NEW j \in 1 .. Len(todo), j > 1
          PROVE  user \notin Of(todo[j])
      BY <1>1, <3>1, <3>3 DEF Plan, Ordered
    <3> QED
      BY <1>4, <1>8, <3>2, <3>3 DEF Plan
  <2> QED
    BY <2>1, <2>2
<1>13. \A r \in Resources : releases'[r] <= 1
  BY <1>2, <1>3 DEF Plan, LifeTypes
<1> QED
  BY <1>1, <1>2, <1>11, <1>12, <1>13

\* A use is of a resource by a resource.
LEMMA UsesOfResources == \A use \in Uses : use[1] \in Resources /\ use[2] \in Resources
BY DEF Uses, Resources, HttpClients

\* While nothing has been stopped, no resource is closed or stopped twice.
LEMMA FreshIsSafe ==
    ASSUME NothingReleased
    PROVE  UsersStopFirst /\ \A r \in Resources : releases[r] <= 1
BY UsesOfResources DEF NothingReleased, UsersStopFirst

\* The owned resources are resources.
LEMMA OwnedResources ==
    /\ RuntimeOwns \subseteq Resources /\ ManagerOwns \subseteq Resources
    /\ "database" \in Resources
    /\ Resources = Kept(3)
    /\ \A n \in 0 .. 3 : Kept(n) \subseteq Resources
    /\ Kept(0) = {} /\ Kept(1) = {"database"}
BY DEF RuntimeOwns, ManagerOwns, Resources, HttpClients, Kept

\* When the lifespan begins, only the database is open.
LEMMA LifeInitInv == LifeInit => LifeInv
<1> SUFFICES ASSUME LifeInit
             PROVE  LifeInv
  OBVIOUS
<1>1. /\ app = "schema" /\ callbacks = <<"database">> /\ todo = <<>> /\ acquired = {"database"}
      /\ releases = [r \in Resources |-> 0]
  BY DEF LifeInit
<1>2. NothingReleased
  BY <1>1 DEF NothingReleased
<1>3. LifeTypes
  BY <1>1, OwnedResources DEF LifeTypes, Stacks
<1> QED
  BY <1>1, <1>2, <1>3, FreshIsSafe DEF LifeInv

\* Every step keeps the invariant.
LEMMA LifeStepInv == LifeInv /\ [LifeNext]_lifeVars => LifeInv'
<1> SUFFICES ASSUME LifeInv, [LifeNext]_lifeVars
             PROVE  LifeInv'
  OBVIOUS
<1>0. LifeTypes /\ \A r \in Resources : releases[r] <= 1
  BY DEF LifeInv
<1>1. ASSUME UNCHANGED <<callbacks, releases>>, NothingReleased, LifeTypes',
             app' \in {"schema", "http", "web", "providers", "plugins", "serving"},
             app' \in {"schema", "http", "web", "providers"} => callbacks = <<"database">>,
             app' = "http" => acquired' = {"database"},
             app' = "schema" => acquired' = {"database"},
             app' = "web" => acquired' = {"database", "http"},
             app' = "providers" => ProvidersLeft',
             app' = "plugins" => todo' \in Seq(ToSet(PluginOrder)),
             app' \in {"plugins", "serving"} => Len(callbacks) = 3
      PROVE  LifeInv'
  <2>1. NothingReleased'
    BY <1>1 DEF NothingReleased
  <2>2. UsersStopFirst' /\ \A r \in Resources : releases'[r] <= 1
    BY <2>1, UsesOfResources DEF NothingReleased, UsersStopFirst
  <2> QED
    BY <1>1, <2>1, <2>2 DEF LifeInv
<1>2. ASSUME UNCHANGED <<callbacks, releases>>, NothingReleased, LifeTypes', app' = "unwind",
             \/ callbacks = <<"database">> /\ acquired' \subseteq {"database"}
             \/ Len(callbacks) = 3
      PROVE  LifeInv'
  <2>1. NothingReleased'
    BY <1>2 DEF NothingReleased
  <2>2. UsersStopFirst' /\ \A r \in Resources : releases'[r] <= 1
    BY <2>1, UsesOfResources DEF NothingReleased, UsersStopFirst
  <2>3. \A n \in 0 .. 3 : Len(callbacks') = n =>
           Held' \subseteq Kept(n) /\ \A r \in Kept(n) : releases'[r] = 0
    <3> SUFFICES ASSUME NEW n \in 0 .. 3, Len(callbacks) = n
                 PROVE  Held' \subseteq Kept(n) /\ \A r \in Kept(n) : releases'[r] = 0
      BY <1>2
    <3>1. Held' \subseteq acquired' /\ \A r \in Kept(n) : releases'[r] = 0
      BY <2>1, OwnedResources DEF Held, NothingReleased
    <3>2. CASE callbacks = <<"database">> /\ acquired' \subseteq {"database"}
      BY <3>1, <3>2, OwnedResources
    <3>3. CASE Len(callbacks) = 3
      BY <1>2, <3>1, <3>3, OwnedResources DEF LifeTypes
    <3> QED
      BY <1>2, <3>2, <3>3
  <2> QED
    BY <1>2, <2>2, <2>3 DEF LifeInv
<1>3. CASE CreateSchema
  <2>1. /\ app = "schema" /\ app' \in {"http", "unwind"}
        /\ UNCHANGED <<state, callbacks, todo, errors, acquired, releases>>
    BY <1>3 DEF CreateSchema
  <2>2. LifeTypes' /\ NothingReleased /\ callbacks = <<"database">> /\ acquired = {"database"}
    BY <1>0, <2>1 DEF LifeInv, LifeTypes
  <2> QED
    BY <1>1, <1>2, <2>1, <2>2
<1>4. CASE OpenHttpClient
  <2>1. /\ app = "http" /\ UNCHANGED <<callbacks, todo, errors, releases>>
        /\ \/ app' = "web" /\ acquired' = acquired \cup {"http"}
           \/ app' = "unwind" /\ acquired' = acquired
    BY <1>4 DEF OpenHttpClient, Acquire
  <2>2. NothingReleased /\ callbacks = <<"database">> /\ acquired = {"database"}
    BY <1>0, <2>1 DEF LifeInv, LifeTypes
  <2>3. LifeTypes'
    BY <1>0, <2>1, <2>2, OwnedResources DEF LifeTypes, RuntimeOwns
  <2> QED
    BY <1>1, <1>2, <2>1, <2>2, <2>3
<1>5. CASE OpenWebClient
  <2>1. /\ app = "web" /\ UNCHANGED <<callbacks, errors, releases>>
        /\ \/ app' = "providers" /\ todo' = ProviderOrder /\ acquired' = acquired \cup {"web"}
           \/ app' = "rollback" /\ todo' = <<"http">> /\ acquired' = acquired
    BY <1>5 DEF OpenWebClient, Acquire
  <2>2. NothingReleased /\ callbacks = <<"database">> /\ acquired = {"database", "http"}
    BY <1>0, <2>1 DEF LifeInv, LifeTypes
  <2>3. CASE app' = "providers"
    <3>1. todo' = ProviderOrder /\ acquired' = {"database", "http", "web"}
      BY <2>1, <2>2, <2>3
    <3>2. ProvidersLeft'
      <4>1. SubSeq(ProviderOrder, 0 + 1, Len(ProviderOrder)) = ProviderOrder
        BY OrdersAssumption
      <4>2. {ProviderOrder[i] : i \in 1 .. 0} = {}
        OBVIOUS
      <4>3. Len(ProviderOrder) - Len(todo') = 0 /\ 0 \in 0 .. Len(ProviderOrder)
        BY <3>1, NamesApart
      <4> QED
        BY <3>1, <4>1, <4>2, <4>3 DEF ProvidersLeft
    <3>3. LifeTypes'
      <4>1. todo' \in Seq(Resources \cup {"plugins"})
        BY <3>1, OrdersAssumption DEF Resources
      <4> QED
        BY <1>0, <2>1, <2>3, <3>1, <4>1, OwnedResources DEF LifeTypes, RuntimeOwns
    <3> QED
      BY <1>1, <2>1, <2>2, <2>3, <3>2, <3>3
  <2>4. CASE app' = "rollback"
    <3>1. todo' = <<"http">> /\ acquired' = acquired /\ UNCHANGED <<callbacks, releases>>
      BY <2>1, <2>4
    <3>2. /\ Len(todo') = 1 /\ todo'[1] = "http" /\ OfAll(todo') = {"http"} /\ Ordered(todo')
      BY <3>1 DEF OfAll, Of, Ordered
    <3>3. "http" \in Resources /\ <<"database", "http">> \notin Uses
      BY OwnedResources, WhoUses, NamesApart DEF RuntimeOwns, OwnNames
    <3>4. Held' \subseteq {"database", "http"}
      BY <2>2, <3>1 DEF Held
    <3>5. \A r \in {"database", "http"} : releases'[r] = 0
      BY <2>2, <3>1, <3>3, OwnedResources DEF NothingReleased
    <3>6. Plan({"database"})'
      BY <3>2, <3>3, <3>4, <3>5 DEF Plan
    <3>7. LifeTypes'
      BY <1>0, <2>1, <2>4, <3>1, <3>3 DEF LifeTypes
    <3>8. UsersStopFirst' /\ \A r \in Resources : releases'[r] <= 1
      BY <2>2, <3>1, UsesOfResources DEF NothingReleased, UsersStopFirst
    <3> QED
      BY <2>2, <2>4, <3>1, <3>2, <3>6, <3>7, <3>8 DEF LifeInv
  <2> QED
    BY <2>1, <2>3, <2>4
<1>6. CASE StartProvider
  <2>1. /\ app = "providers" /\ todo # <<>> /\ UNCHANGED <<callbacks, errors, releases>>
        /\ \/ acquired' = acquired \cup {Head(todo)} /\ todo' = Tail(todo) /\ app' = app
           \/ app' = "rollback" /\ todo' = Undo /\ acquired' = acquired
    BY <1>6 DEF StartProvider, Acquire
  <2>2. NothingReleased /\ callbacks = <<"database">> /\ ProvidersLeft
    BY <1>0, <2>1 DEF LifeInv
  <2> DEFINE n == Len(ProviderOrder) - Len(todo)
  <2>3. /\ n \in Nat /\ n + 1 <= Len(ProviderOrder) /\ Len(ProviderOrder) \in Nat
        /\ todo = SubSeq(ProviderOrder, n + 1, Len(ProviderOrder))
        /\ acquired = {"database", "http", "web"} \cup {ProviderOrder[i] : i \in 1 .. n}
    BY <2>1, <2>2, NamesApart DEF ProvidersLeft, LifeInv, LifeTypes
  <2>4. CASE app' = app
    <3>1. acquired' = acquired \cup {Head(todo)} /\ todo' = Tail(todo)
      BY <2>1, <2>4
    <3>2. Head(todo) = ProviderOrder[n + 1]
      BY <2>3, OrdersAssumption
    <3>3. todo' = SubSeq(ProviderOrder, n + 2, Len(ProviderOrder))
      BY <2>3, <3>1, OrdersAssumption
    <3>4. Len(ProviderOrder) - Len(todo') = n + 1
      <4>1. Len(todo') = Len(todo) - 1 /\ Len(todo) \in Nat
        BY <1>0, <2>1, <3>1 DEF LifeTypes
      <4> QED
        BY <2>3, <4>1
    <3>5. {ProviderOrder[i] : i \in 1 .. n + 1}
            = {ProviderOrder[i] : i \in 1 .. n} \cup {ProviderOrder[n + 1]}
      BY <2>3
    <3> HIDE DEF n
    <3>6. ProvidersLeft'
      <4>1. n + 1 \in 0 .. Len(ProviderOrder) /\ n + 1 + 1 = n + 2
        BY <2>3
      <4>2. acquired' = {"database", "http", "web"} \cup {ProviderOrder[i] : i \in 1 .. n + 1}
        BY <2>3, <3>1, <3>2, <3>5
      <4> QED
        BY <3>3, <3>4, <4>1, <4>2 DEF ProvidersLeft
    <3>7. LifeTypes'
      <4>1. Head(todo) \in Resources
        BY <2>3, <3>2, NamesApart DEF Resources
      <4>2. todo' \in Seq(Resources \cup {"plugins"})
        BY <1>0, <2>1, <3>1 DEF LifeTypes
      <4> QED
        BY <1>0, <2>1, <2>4, <3>1, <4>1, <4>2 DEF LifeTypes
    <3> QED
      BY <1>1, <2>1, <2>2, <2>4, <3>6, <3>7
  <2>5. CASE app' = "rollback"
    <3>1. todo' = Reverse(SubSeq(ProviderOrder, 1, n)) \o <<"http", "web">>
      BY <2>1, <2>5 DEF Undo
    <3>2. UNCHANGED <<callbacks, acquired, releases>>
      BY <2>1, <2>5
    <3>3. n \in 0 .. Len(ProviderOrder)
      BY <2>3
    <3> HIDE DEF n
    <3>4. /\ todo' \in Seq(Resources \cup {"plugins"})
          /\ OfAll(todo') = {ProviderOrder[i] : i \in 1 .. n} \cup {"http", "web"}
          /\ Ordered(todo') /\ \A i \in 1 .. Len(todo') : todo'[i] # "plugins"
      BY <3>1, <3>3, StopOrder
    <3>5. acquired = {"database"} \cup OfAll(todo')
      BY <2>3, <3>4
    <3>6. \A r \in acquired : releases'[r] = 0
      BY <1>0, <2>2, <3>2 DEF NothingReleased, LifeTypes
    <3>7. "database" \notin OfAll(todo')
      <4>1. \A i \in 1 .. n : ProviderOrder[i] # "database"
        <5> TAKE i \in 1 .. n
        <5>1. i \in 1 .. Len(ProviderOrder)
          BY <3>3, NamesApart
        <5> QED
          BY <5>1, NamesApart DEF OwnNames
      <4> QED
        BY <3>4, <4>1
    <3>8. \A r \in OfAll(todo') : <<"database", r>> \notin Uses
      BY <3>7, WhoUses, NamesApart DEF OwnNames
    <3>9. Held' \subseteq {"database"} \cup OfAll(todo')
      BY <3>2, <3>5 DEF Held
    <3>10. Plan({"database"})'
      BY <3>4, <3>5, <3>6, <3>7, <3>8, <3>9 DEF Plan
    <3>11. LifeTypes'
      BY <1>0, <2>5, <3>2, <3>4 DEF LifeTypes
    <3>12. UsersStopFirst' /\ \A r \in Resources : releases'[r] <= 1
      BY <2>2, <3>2, UsesOfResources DEF NothingReleased, UsersStopFirst
    <3> QED
      BY <2>2, <2>5, <3>2, <3>4, <3>10, <3>11, <3>12 DEF LifeInv
  <2> QED
    BY <2>1, <2>4, <2>5
<1>7. CASE Started
  <2>1. /\ app = "providers" /\ app' = "plugins" /\ todo' = PluginOrder
        /\ callbacks' = callbacks \o <<"runtime", "manager">>
        /\ UNCHANGED <<errors, acquired, releases>>
    BY <1>7 DEF Started
  <2>2. NothingReleased /\ callbacks = <<"database">>
    BY <2>1 DEF LifeInv
  <2>3. callbacks' = <<"database", "runtime", "manager">>
    <3>1. callbacks' = <<"database">> \o <<"runtime", "manager">>
      BY <2>1, <2>2
    <3>2. /\ Len(callbacks') = 3 /\ callbacks'[1] = "database" /\ callbacks'[2] = "runtime"
          /\ callbacks'[3] = "manager"
          /\ callbacks' \in Seq({"database", "runtime", "manager"})
      BY <3>1
    <3>3. \A i \in 1 .. Len(callbacks') : callbacks'[i] = <<"database", "runtime", "manager">>[i]
      <4>1. \A i \in 1 .. 3 : i = 1 \/ i = 2 \/ i = 3
        OBVIOUS
      <4> QED
        BY <3>2, <4>1
    <3>4. <<"database", "runtime", "manager">> \in Seq({"database", "runtime", "manager"})
      OBVIOUS
    <3> QED
      BY <3>2, <3>3, <3>4, SeqEqual
  <2>4. todo' \in Seq(ToSet(PluginOrder)) /\ todo' \in Seq(Resources \cup {"plugins"})
    BY <2>1, OrdersAssumption DEF Resources
  <2>5. LifeTypes' /\ Len(callbacks') = 3
    BY <1>0, <2>1, <2>3, <2>4 DEF LifeTypes, Stacks
  <2>6. NothingReleased'
    BY <2>1, <2>2 DEF NothingReleased
  <2>7. UsersStopFirst' /\ \A r \in Resources : releases'[r] <= 1
    BY <2>6, UsesOfResources DEF NothingReleased, UsersStopFirst
  <2> QED
    BY <2>1, <2>4, <2>5, <2>6, <2>7 DEF LifeInv
<1>8. CASE RollbackOne
  <2>1. app = "rollback" /\ UNCHANGED <<callbacks, errors, acquired>>
    BY <1>8 DEF RollbackOne
  <2>2. /\ callbacks = <<"database">> /\ Plan({"database"}) /\ UsersStopFirst
        /\ \A i \in 1 .. Len(todo) : todo[i] # "plugins"
    BY <2>1 DEF LifeInv
  <2>3. CASE todo # <<>>
    <3>1. Release({Head(todo)}) /\ todo' = Tail(todo) /\ app' = app
      BY <1>8, <2>3 DEF RollbackOne
    <3>2. /\ Head(todo) = todo[1] /\ 1 \in 1 .. Len(todo) /\ Len(todo') = Len(todo) - 1
          /\ \A i \in 1 .. Len(todo') : todo'[i] = todo[i + 1]
      BY <1>0, <2>3, <3>1 DEF LifeTypes
    <3>3. Of(Head(todo)) = {Head(todo)}
      BY <2>2, <3>2 DEF Of
    <3>4. /\ Plan({"database"})' /\ UsersStopFirst' /\ \A r \in Resources : releases'[r] <= 1
          /\ releases' \in [Resources -> Nat] /\ todo' \in Seq(Resources \cup {"plugins"})
      <4>1. {"database"} \subseteq Resources
        BY OwnedResources
      <4> QED
        BY <1>0, <2>1, <2>2, <2>3, <3>1, <3>3, <4>1, StopFirst
    <3>5. \A i \in 1 .. Len(todo') : todo'[i] # "plugins"
      <4> TAKE i \in 1 .. Len(todo')
      <4>1. i + 1 \in 1 .. Len(todo)
        BY <1>0, <3>2 DEF LifeTypes
      <4> QED
        BY <2>2, <3>2, <4>1
    <3>6. LifeTypes'
      BY <1>0, <2>1, <3>1, <3>4 DEF LifeTypes
    <3> QED
      BY <2>1, <2>2, <3>1, <3>4, <3>5, <3>6 DEF LifeInv
  <2>4. CASE todo = <<>>
    <3>1. app' = "unwind" /\ UNCHANGED <<todo, releases>>
      BY <1>8, <2>4 DEF RollbackOne
    <3>2. OfAll(todo) = {}
      BY <2>4 DEF OfAll
    <3>3. Held' \subseteq {"database"} /\ releases'["database"] = 0
      BY <2>1, <2>2, <3>1, <3>2 DEF Plan, Held
    <3>4. Len(callbacks') = 1
      BY <2>1, <2>2
    <3>5. \A n \in 0 .. 3 : Len(callbacks') = n =>
             Held' \subseteq Kept(n) /\ \A r \in Kept(n) : releases'[r] = 0
      BY <3>3, <3>4, OwnedResources
    <3>6. LifeTypes' /\ UsersStopFirst' /\ \A r \in Resources : releases'[r] <= 1
      BY <1>0, <2>1, <2>2, <3>1 DEF LifeTypes, UsersStopFirst, Held
    <3> QED
      BY <3>1, <3>5, <3>6 DEF LifeInv
  <2> QED
    BY <2>3, <2>4
<1>9. CASE StartPlugin
  <2>1. /\ app = "plugins" /\ todo # <<>> /\ UNCHANGED <<callbacks, errors, releases>>
        /\ acquired' \in {acquired, acquired \cup {Head(todo)}}
        /\ \/ app' = app /\ todo' = Tail(todo)
           \/ app' = "unwind" /\ todo' = <<>>
    BY <1>9 DEF StartPlugin, Acquire
  <2>2. NothingReleased /\ Len(callbacks) = 3 /\ todo \in Seq(ToSet(PluginOrder))
    BY <2>1 DEF LifeInv
  <2>3. /\ Head(todo) \in Resources
        /\ todo' \in Seq(ToSet(PluginOrder)) /\ todo' \in Seq(Resources \cup {"plugins"})
    <3>1. Head(todo) \in ToSet(PluginOrder) /\ Tail(todo) \in Seq(ToSet(PluginOrder))
      BY <2>1, <2>2, HeadTailProperties
    <3>2. todo' \in Seq(ToSet(PluginOrder)) /\ Head(todo) \in Resources
      <4>1. ToSet(PluginOrder) \subseteq Resources
        BY DEF Resources
      <4>2. <<>> \in Seq(ToSet(PluginOrder))
        OBVIOUS
      <4>3. todo' = Tail(todo) \/ todo' = <<>>
        BY <2>1
      <4>4. todo' \in Seq(ToSet(PluginOrder))
        BY <3>1, <4>2, <4>3
      <4> QED
        BY <3>1, <4>1, <4>4
    <3>3. todo' \in Seq(Resources \cup {"plugins"})
      <4>1. Tail(todo) \in Seq(Resources \cup {"plugins"})
        BY <1>0, <2>1, HeadTailProperties DEF LifeTypes
      <4>2. <<>> \in Seq(Resources \cup {"plugins"}) /\ (todo' = Tail(todo) \/ todo' = <<>>)
        BY <2>1
      <4> QED
        BY <4>1, <4>2
    <3> QED
      BY <3>1, <3>2, <3>3
  <2>4. LifeTypes'
    BY <1>0, <2>1, <2>3 DEF LifeTypes
  <2> QED
    BY <1>1, <1>2, <2>1, <2>2, <2>3, <2>4
<1>10. CASE LoadProfiles \/ Shutdown
  <2>1. /\ app \in {"plugins", "serving"} /\ app' \in {"serving", "unwind"}
        /\ UNCHANGED <<state, callbacks, todo, errors, acquired, releases>>
    BY <1>10 DEF LoadProfiles, Shutdown
  <2>2. NothingReleased /\ Len(callbacks) = 3 /\ LifeTypes'
    BY <1>0, <2>1 DEF LifeInv, LifeTypes
  <2> QED
    BY <1>1, <1>2, <2>1, <2>2
<1>11. CASE AcceptTask
  <2>1. /\ app = "serving" /\ app' = "serving" /\ acquired' = acquired \cup {"jobs"}
        /\ UNCHANGED <<state, callbacks, todo, errors, releases>>
    BY <1>11 DEF AcceptTask, Acquire
  <2>2. NothingReleased /\ Len(callbacks) = 3
    BY <2>1 DEF LifeInv
  <2>3. LifeTypes'
    BY <1>0, <2>1, OwnedResources DEF LifeTypes, ManagerOwns
  <2> QED
    BY <1>1, <2>1, <2>2, <2>3
<1>12. CASE RunCallback
  <2>1. /\ app = "unwind" /\ callbacks # <<>> /\ app' = "stopping"
        /\ todo' = Stops(Last(callbacks)) /\ UNCHANGED <<callbacks, acquired, releases>>
    BY <1>12 DEF RunCallback
  <2>2. /\ \A n \in 0 .. 3 : Len(callbacks) = n =>
              Held \subseteq Kept(n) /\ \A r \in Kept(n) : releases[r] = 0
        /\ UsersStopFirst
    BY <2>1 DEF LifeInv
  <2>3. Len(callbacks) \in 1 .. 3
    BY <1>0, <2>1, StackTop DEF LifeTypes
  <2>4. ASSUME NEW n \in 0 .. 2, Len(callbacks) = n + 1
        PROVE  Plan(Kept(n))' /\ todo' \in Seq(Resources \cup {"plugins"})
    <3>1. Held \subseteq Kept(n + 1) /\ \A r \in Kept(n + 1) : releases[r] = 0
      BY <2>2, <2>4
    <3> QED
      BY <1>0, <2>1, <2>4, <3>1, CallbackPlan
  <2>5. todo' \in Seq(Resources \cup {"plugins"})
    <3>1. PICK n \in 0 .. 2 : Len(callbacks) = n + 1
      BY <2>3
    <3> QED
      BY <2>4, <3>1
  <2>6. LifeTypes' /\ UsersStopFirst' /\ \A r \in Resources : releases'[r] <= 1
    BY <1>0, <2>1, <2>2, <2>5 DEF LifeTypes, UsersStopFirst, Held
  <2>7. \A n \in 0 .. 2 : Len(callbacks') = n + 1 => Plan(Kept(n))'
    BY <2>1, <2>4
  <2> QED
    BY <2>1, <2>6, <2>7 DEF LifeInv
<1>13. CASE StopOne
  <2>1. /\ app = "stopping" /\ todo # <<>> /\ UNCHANGED <<app, callbacks, acquired>>
        /\ Release(Of(Head(todo))) /\ todo' = Tail(todo)
    BY <1>13 DEF StopOne, Of
  <2>2. /\ callbacks # <<>> /\ \A n \in 0 .. 2 : Len(callbacks) = n + 1 => Plan(Kept(n))
        /\ UsersStopFirst
    BY <2>1 DEF LifeInv
  <2>3. ASSUME NEW n \in 0 .. 2, Len(callbacks) = n + 1
        PROVE  /\ Plan(Kept(n))' /\ UsersStopFirst' /\ \A r \in Resources : releases'[r] <= 1
               /\ releases' \in [Resources -> Nat] /\ todo' \in Seq(Resources \cup {"plugins"})
    <3>1. Kept(n) \subseteq Resources /\ Plan(Kept(n))
      BY <2>2, <2>3, OwnedResources
    <3> QED
      BY <1>0, <2>1, <2>2, <3>1, StopFirst
  <2>4. PICK n \in 0 .. 2 : Len(callbacks) = n + 1
    BY <1>0, <2>2, StackTop DEF LifeTypes
  <2>5. LifeTypes' /\ UsersStopFirst' /\ \A r \in Resources : releases'[r] <= 1
    BY <1>0, <2>1, <2>3, <2>4 DEF LifeTypes
  <2>6. \A m \in 0 .. 2 : Len(callbacks') = m + 1 => Plan(Kept(m))'
    BY <2>1, <2>3
  <2> QED
    BY <2>1, <2>2, <2>5, <2>6 DEF LifeInv
<1>14. CASE CallbackDone
  <2>1. /\ app = "stopping" /\ todo = <<>> /\ app' = "unwind" /\ callbacks' = Front(callbacks)
        /\ UNCHANGED <<todo, errors, acquired, releases>>
    BY <1>14 DEF CallbackDone
  <2>2. /\ callbacks # <<>> /\ \A n \in 0 .. 2 : Len(callbacks) = n + 1 => Plan(Kept(n))
        /\ UsersStopFirst
    BY <2>1 DEF LifeInv
  <2>3. callbacks' \in Stacks /\ Len(callbacks') = Len(callbacks) - 1 /\ Len(callbacks) \in 1 .. 3
    BY <1>0, <2>1, <2>2, StackTop DEF LifeTypes
  <2>4. OfAll(todo) = {}
    BY <2>1 DEF OfAll
  <2>5. \A n \in 0 .. 3 : Len(callbacks') = n =>
           Held' \subseteq Kept(n) /\ \A r \in Kept(n) : releases'[r] = 0
    <3> SUFFICES ASSUME NEW n \in 0 .. 3, Len(callbacks') = n
                 PROVE  Held' \subseteq Kept(n) /\ \A r \in Kept(n) : releases'[r] = 0
      OBVIOUS
    <3>1. n \in 0 .. 2 /\ Len(callbacks) = n + 1
      BY <2>3
    <3>2. Plan(Kept(n))
      BY <2>2, <3>1
    <3> QED
      BY <2>1, <2>4, <3>2 DEF Plan, Held
  <2>6. LifeTypes' /\ UsersStopFirst' /\ \A r \in Resources : releases'[r] <= 1
    BY <1>0, <2>1, <2>2, <2>3 DEF LifeTypes, UsersStopFirst, Held
  <2> QED
    BY <2>1, <2>5, <2>6 DEF LifeInv
<1>15. CASE UNCHANGED lifeVars
  BY <1>15 DEF lifeVars, LifeInv, LifeTypes, UsersStopFirst, Held, NothingReleased, ProvidersLeft, Plan
<1> QED
  BY <1>3, <1>4, <1>5, <1>6, <1>7, <1>8, <1>9, <1>10, <1>11, <1>12, <1>13, <1>14, <1>15 DEF LifeNext

\* What a process has taken is given back once, wherever its start fails and
\* whatever raises when it stops, and nothing is closed under those who use it,
\* with any number of providers and plugins (runtime.py, app.py, manager.py).
THEOREM LifeSound == LifeSpec => []StopsInOrder
<1>1. LifeInv => StopsInOrder
  <2> SUFFICES ASSUME LifeInv, app = "unwind", callbacks = <<>>
               PROVE  Held = {}
    BY DEF LifeInv, StopsInOrder, ReleasedOnce
  <2>1. Len(callbacks) = 0
    OBVIOUS
  <2> QED
    BY <2>1, OwnedResources DEF LifeInv
<1> QED
  BY LifeInitInv, LifeStepInv, <1>1, PTL DEF LifeSpec
=============================================================================
