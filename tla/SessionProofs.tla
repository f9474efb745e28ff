--------------------------- MODULE SessionProofs ---------------------------
(***************************************************************************)
(* What is proved of the sessions, for every history that may be imported  *)
(* and every list of calls a provider may send: the history a turn works   *)
(* on is sound (TurnInv, with HistoryInv: each result it holds answers a   *)
(* call of the last assistant message before it), so that every call is    *)
(* replayed with its result, a repair drops no result a turn recorded, and *)
(* an answered turn is kept.                                               *)
(*                                                                         *)
(* The normaliser is a loop with an accumulator; its invariants are stated *)
(* of the accumulator (InOrder, Open: the calls answered so far, and those *)
(* that wait) and carried along the messages by the least counterexample.  *)
(* NoMadeIds: no id that comes from outside has the form the normaliser    *)
(* gives to a repaired one, `tool-<message>-<call>`, which the code does   *)
(* not compare with the ids used before (normalizer.py:40-42).             *)
(***************************************************************************)
EXTENDS TurnSessions, FiniteSetTheorems, SequenceTheorems, WellFoundedInduction, TLAPS

\* A set of numbers that is not empty has a least element.
LEMMA LeastNumber ==
    ASSUME NEW T \in SUBSET Nat, T # {}
    PROVE  \E n \in T : \A m \in T : n <= m
  <1> DEFINE less == {pair \in Nat \X Nat : pair[1] < pair[2]}
  <1>1. IsWellFoundedOn(less, Nat)
    BY NatLessThanWellFounded DEF OpToRel
  <1>2. PICK n \in T : \A m \in T : ~ (<<m, n>> \in less)
    <2> HIDE DEF less
    <2> QED BY <1>1, WFMin
  <1>3. \A m \in T : ~ (m < n)
    BY <1>2
  <1> QED BY <1>3

FirstAcc == [out |-> <<>>, pending |-> <<>>, aliases |-> {}, used |-> {}]

\* The loop's definition holds: each message is accepted after those before it.
LEMMA LoopSteps ==
    ASSUME NEW ms, Len(ms) \in Nat
    PROVE  /\ Loop(ms)[0] = FirstAcc
           /\ \A n \in 1 .. Len(ms) : Loop(ms)[n] = Accept(Loop(ms)[n - 1], ms[n], n)
  <1> DEFINE L == Len(ms)
             Unrolls(f, n) == f = [i \in 0 .. n |->
                 IF i = 0 THEN FirstAcc ELSE Accept(f[i - 1], ms[i], i)]
             T == {n \in 0 .. L : ~ \E f : Unrolls(f, n)}
  <1>1. ASSUME T # {} PROVE FALSE
    <2>1. PICK n \in T : \A m \in T : n <= m
      <3>1. T \in SUBSET Nat
        OBVIOUS
      <3> HIDE DEF T
      <3>2. QED BY <1>1, <3>1, LeastNumber
    <2>2. CASE n = 0
      <3> DEFINE f == [i \in 0 .. 0 |-> FirstAcc]
      <3>1. Unrolls(f, 0)
        OBVIOUS
      <3>2. QED BY <2>1, <2>2, <3>1
    <2>3. CASE n # 0
      <3>1. n - 1 \in 0 .. L /\ n - 1 \notin T /\ n \in 1 .. L
        <4>1. n \in 0 .. L
          OBVIOUS
        <4> HIDE DEF T
        <4>2. QED BY <2>1, <2>3, <4>1
      <3>2. PICK f : Unrolls(f, n - 1)
        BY <3>1
      <3> DEFINE g == [i \in 0 .. n |-> IF i < n THEN f[i] ELSE Accept(f[n - 1], ms[n], n)]
      <3>3. \A i \in 0 .. n : g[i] = IF i = 0 THEN FirstAcc ELSE Accept(g[i - 1], ms[i], i)
        <4> SUFFICES ASSUME NEW i \in 0 .. n
                     PROVE  g[i] = IF i = 0 THEN FirstAcc ELSE Accept(g[i - 1], ms[i], i)
          OBVIOUS
        <4>1. CASE i = n
          BY <3>1, <4>1
        <4>2. CASE i # n
          <5>1. i \in 0 .. n - 1 /\ g[i] = f[i]
            BY <3>1, <4>2
          <5>2. i # 0 => g[i - 1] = f[i - 1]
            BY <3>1, <4>2
          <5>3. f[i] = IF i = 0 THEN FirstAcc ELSE Accept(f[i - 1], ms[i], i)
            BY <3>2, <5>1
          <5>4. QED BY <5>1, <5>2, <5>3
        <4>3. QED BY <4>1, <4>2
      <3>4. Unrolls(g, n)
        BY <3>3
      <3>5. QED BY <2>1, <3>4
    <2>4. QED BY <2>2, <2>3
  <1>2. \E f : Unrolls(f, L)
    BY <1>1
  <1>3. Unrolls(Loop(ms), L)
    BY <1>2 DEF Loop, FirstAcc
  <1>4. QED BY <1>3

-----------------------------------------------------------------------------
(* Ids, names and messages. *)

Messages == MessagesWith(AllIds)


\* An id made of two positions tells them, and is not the missing one.
LEMMA MadeIds ==
    ASSUME NEW i \in Nat, NEW j \in Nat
    PROVE  /\ <<i, j>> \in AllIds /\ <<i, j>> # <<>>
           /\ \A k, l \in Nat : <<i, j>> = <<k, l>> => i = k /\ j = l
           /\ \A n \in Nat : /\ <<i, j, n>> \in AllIds /\ <<i, j, n>> # <<>>
                             /\ \A k, l \in Nat : <<i, j, n>> # <<k, l>>
                             /\ \A m \in Nat : <<i, j, n>> = <<i, j, m>> => n = m
  BY DEF AllIds

\* A made id stands at the place in its message that it names.
Placed(cs) == \A j \in DOMAIN cs, i \in Nat \ {0}, n \in Nat : cs[j] = <<i, n>> => n = j

\* The ids of one message, after a repair.
Named(cs) == IsInjective(cs) /\ (\A j \in DOMAIN cs : cs[j] # <<>>) /\ Placed(cs)

\* The repair goes on as it is defined.
LEMMA RenamedSteps ==
    ASSUME NEW cs, NEW L \in Nat, DOMAIN cs = 1 .. L, NEW used, NEW i
    PROVE  /\ DOMAIN Renamed(cs, used, i) = 1 .. L
           /\ Renamed(cs, used, i) = [j \in 1 .. L |-> Renamed(cs, used, i)[j]]
           /\ \A j \in 1 .. L : Renamed(cs, used, i)[j] =
                 IF \/ cs[j] = <<>> \/ cs[j] \in used
                    \/ \E k \in 1 .. j - 1 : Renamed(cs, used, i)[k] = cs[j]
                 THEN <<i, j>> ELSE cs[j]
  <1> DEFINE Body(f, j) ==
                 IF cs[j] = <<>> \/ cs[j] \in used \/ \E k \in 1 .. j - 1 : f[k] = cs[j]
                 THEN <<i, j>> ELSE cs[j]
             Unrolls(f, n) == f = [j \in 1 .. n |-> Body(f, j)]
             T == {n \in 0 .. L : ~ \E f : Unrolls(f, n)}
  <1>1. ASSUME T # {} PROVE FALSE
    <2>1. PICK n \in T : \A m \in T : n <= m
      <3>1. T \in SUBSET Nat
        OBVIOUS
      <3> HIDE DEF T
      <3>2. QED BY <1>1, <3>1, LeastNumber
    <2>2. n \in 0 .. L /\ ~ \E f : Unrolls(f, n)
      OBVIOUS
    <2>3. CASE n = 0
      <3> DEFINE f == [j \in 1 .. 0 |-> <<>>]
      <3>1. Unrolls(f, 0)
        OBVIOUS
      <3>2. QED BY <2>2, <2>3, <3>1
    <2>4. CASE n # 0
      <3>1. n - 1 \in 0 .. L /\ n - 1 \notin T /\ n \in 1 .. L
        <4> HIDE DEF T
        <4>1. QED BY <2>1, <2>2, <2>4
      <3>2. PICK f : Unrolls(f, n - 1)
        BY <3>1
      <3> DEFINE g == [j \in 1 .. n |-> IF j < n THEN f[j] ELSE Body(f, n)]
      <3>3. ASSUME NEW j \in 1 .. n PROVE g[j] = Body(g, j)
        <4>1. \A k \in 1 .. j - 1 : g[k] = f[k]
          BY <3>1
        <4>2. Body(g, j) = Body(f, j)
          BY <4>1
        <4>3. g[j] = Body(f, j)
          <5>1. CASE j = n
            BY <3>1, <5>1
          <5>2. CASE j # n
            <6>1. j \in 1 .. n - 1 /\ g[j] = f[j]
              BY <3>1, <5>2
            <6> HIDE DEF Body, g
            <6>2. QED BY <3>2, <6>1
          <5>3. QED BY <5>1, <5>2
        <4> HIDE DEF Body, g
        <4>4. QED BY <4>2, <4>3
      <3>4. Unrolls(g, n)
        <4> HIDE DEF Body
        <4>1. QED BY <3>3
      <3>5. QED BY <2>2, <3>4
    <2>5. QED BY <2>3, <2>4
  <1>2. \E f : Unrolls(f, L)
    BY <1>1
  <1>3. Unrolls(Renamed(cs, used, i), L)
    BY <1>2 DEF Renamed
  <1>4. QED BY <1>3

\* Every call has an id of its own afterwards, if no id given has the form of
\* one made here for another place.
LEMMA RenamedIsNamed ==
    ASSUME NEW cs \in Seq(AllIds), Placed(cs), NEW used, NEW i \in Nat \ {0}
    PROVE  /\ Renamed(cs, used, i) \in Seq(AllIds)
           /\ Len(Renamed(cs, used, i)) = Len(cs)
           /\ Named(Renamed(cs, used, i))
           /\ \A j \in 1 .. Len(cs) :
                 Renamed(cs, used, i)[j] = cs[j] \/ Renamed(cs, used, i)[j] = <<i, j>>
  <1> DEFINE ids == Renamed(cs, used, i)
  <1>1. Len(cs) \in Nat /\ DOMAIN cs = 1 .. Len(cs) /\ \A j \in 1 .. Len(cs) : cs[j] \in AllIds
    OBVIOUS
  <1>2. /\ DOMAIN ids = 1 .. Len(cs) /\ ids = [j \in 1 .. Len(cs) |-> ids[j]]
        /\ \A j \in 1 .. Len(cs) : ids[j] =
              IF cs[j] = <<>> \/ cs[j] \in used \/ \E k \in 1 .. j - 1 : ids[k] = cs[j]
              THEN <<i, j>> ELSE cs[j]
    <2> DEFINE L == Len(cs)
    <2>1. L \in Nat /\ DOMAIN cs = 1 .. L
      BY <1>1
    <2> HIDE DEF L
    <2>2. /\ DOMAIN ids = 1 .. L /\ ids = [j \in 1 .. L |-> ids[j]]
          /\ \A j \in 1 .. L : ids[j] =
                IF cs[j] = <<>> \/ cs[j] \in used \/ \E k \in 1 .. j - 1 : ids[k] = cs[j]
                THEN <<i, j>> ELSE cs[j]
      BY <2>1, RenamedSteps
    <2>3. QED BY <2>2 DEF L
  <1> HIDE DEF ids
  <1>3. \A j \in 1 .. Len(cs) : ids[j] \in AllIds /\ ids[j] # <<>>
    <2>1. \A j \in 1 .. Len(cs) : <<i, j>> \in AllIds /\ <<i, j>> # <<>>
      BY <1>1, MadeIds
    <2>2. QED BY <1>1, <1>2, <2>1
  <1>4. Placed(ids)
    <2> SUFFICES ASSUME NEW j \in 1 .. Len(cs), NEW k \in Nat \ {0}, NEW n \in Nat,
                        ids[j] = <<k, n>>
                 PROVE  n = j
      BY <1>2 DEF Placed
    <2>1. CASE ids[j] = cs[j]
      BY <1>1, <2>1 DEF Placed
    <2>2. CASE ids[j] = <<i, j>>
      BY <2>2
    <2>3. QED BY <1>2, <2>1, <2>2
  <1>5. ASSUME NEW j \in 1 .. Len(cs), NEW k \in 1 .. j - 1 PROVE ids[j] # ids[k]
    <2>1. CASE ids[j] = <<i, j>>
      BY <1>1, <1>2, <1>4, <2>1 DEF Placed
    <2>2. CASE ids[j] # <<i, j>>
      BY <1>2, <2>2
    <2>3. QED BY <2>1, <2>2
  <1>6. IsInjective(ids)
    <2> SUFFICES ASSUME NEW j \in 1 .. Len(cs), NEW k \in 1 .. Len(cs), ids[j] = ids[k]
                 PROVE  j = k
      BY <1>2 DEF IsInjective
    <2>1. ~ (k < j) /\ ~ (j < k)
      BY <1>1, <1>5
    <2>2. QED BY <2>1
  <1>7. ids \in Seq(AllIds) /\ Len(ids) = Len(cs)
    BY <1>1, <1>2, <1>3
  <1>8. QED BY <1>2, <1>3, <1>4, <1>6, <1>7 DEF Named, ids

\* What holds at 0 and goes from each number to the next holds up to the last.
LEMMA UpTo ==
    ASSUME NEW L \in Nat, NEW T, 0 \in T, \A n \in 1 .. L : n - 1 \in T => n \in T
    PROVE  \A n \in 0 .. L : n \in T
  <1> DEFINE U == {n \in 0 .. L : n \notin T}
  <1>1. ASSUME U # {} PROVE FALSE
    <2>1. PICK n \in U : \A m \in U : n <= m
      <3>1. U \in SUBSET Nat
        OBVIOUS
      <3> HIDE DEF U
      <3>2. QED BY <1>1, <3>1, LeastNumber
    <2>2. n \in 0 .. L /\ n # 0
      OBVIOUS
    <2>3. n - 1 \in T /\ n \in 1 .. L
      <3>1. n - 1 \notin U
        <4> HIDE DEF U
        <4>1. QED BY <2>1, <2>2
      <3>2. QED BY <2>2, <3>1
    <2>4. QED BY <2>3
  <1>2. QED BY <1>1

-----------------------------------------------------------------------------
(* How many of the first n messages are of a kind. *)

CountTo(h, n, P) == Cardinality({i \in 1 .. n : h[i] \in P})
Count(h, P) == CountTo(h, Len(h), P)

LEMMA CountSteps ==
    ASSUME NEW h, NEW P, NEW n \in Nat
    PROVE  /\ CountTo(h, n, P) \in Nat /\ CountTo(h, 0, P) = 0
           /\ n > 0 => CountTo(h, n, P) = CountTo(h, n - 1, P) + (IF h[n] \in P THEN 1 ELSE 0)
  <1> DEFINE S(m) == {i \in 1 .. m : h[i] \in P}
  <1>1. ASSUME NEW m \in Nat PROVE IsFiniteSet(S(m)) /\ Cardinality(S(m)) \in Nat
    <2>1. IsFiniteSet(1 .. m) /\ S(m) \subseteq 1 .. m
      BY FS_Interval
    <2> HIDE DEF S
    <2>2. QED BY <2>1, FS_Subset, FS_CardinalityType
  <1>2. S(0) = {}
    OBVIOUS
  <1>3. ASSUME n > 0
        PROVE  CountTo(h, n, P) = CountTo(h, n - 1, P) + (IF h[n] \in P THEN 1 ELSE 0)
    <2>1. n - 1 \in Nat /\ n \notin S(n - 1)
      BY <1>3
    <2>2. CASE h[n] \in P
      <3>1. S(n) = S(n - 1) \cup {n}
        BY <1>3, <2>2
      <3>2. Cardinality(S(n)) = Cardinality(S(n - 1)) + 1
        <4> HIDE DEF S
        <4>1. QED BY <1>1, <2>1, <3>1, FS_AddElement
      <3>3. QED BY <2>2, <3>2 DEF CountTo
    <2>3. CASE h[n] \notin P
      <3>1. S(n) = S(n - 1)
        BY <1>3, <2>3
      <3>2. Cardinality(S(n)) = Cardinality(S(n - 1)) /\ Cardinality(S(n - 1)) \in Nat
        <4> HIDE DEF S
        <4>1. QED BY <1>1, <2>1, <3>1
      <3>3. QED BY <2>3, <3>2 DEF CountTo
    <2>4. QED BY <2>2, <2>3
  <1>4. CountTo(h, 0, P) = 0
    BY <1>2, FS_EmptySet DEF CountTo
  <1>5. CountTo(h, n, P) \in Nat
    BY <1>1 DEF CountTo
  <1>6. QED BY <1>3, <1>4, <1>5

\* Only which of the messages are of the kind matters.
LEMMA CountSame ==
    ASSUME NEW h, NEW g, NEW P, NEW n \in Nat, \A i \in 1 .. n : h[i] \in P <=> g[i] \in P
    PROVE  CountTo(h, n, P) = CountTo(g, n, P)
  <1>1. {i \in 1 .. n : h[i] \in P} = {i \in 1 .. n : g[i] \in P}
    OBVIOUS
  <1>2. QED BY <1>1 DEF CountTo

LEMMA CountAppend ==
    ASSUME NEW S, NEW h \in Seq(S), NEW P, NEW x
    PROVE  Count(Append(h, x), P) = Count(h, P) + (IF x \in P THEN 1 ELSE 0)
  <1> DEFINE g == Append(h, x)
  <1>1. Len(h) \in Nat /\ Len(g) = Len(h) + 1 /\ g[Len(h) + 1] = x
        /\ \A i \in 1 .. Len(h) : g[i] = h[i]
    OBVIOUS
  <1>2. CountTo(g, Len(h), P) = CountTo(h, Len(h), P)
    <2> HIDE DEF g
    <2>1. QED BY <1>1, CountSame
  <1> HIDE DEF g
  <1>3. CountTo(g, Len(h) + 1, P) = CountTo(g, Len(h), P) + (IF x \in P THEN 1 ELSE 0)
    <2>1. Len(h) + 1 \in Nat /\ Len(h) + 1 > 0 /\ (Len(h) + 1) - 1 = Len(h)
      BY <1>1
    <2>2. QED BY <1>1, <2>1, CountSteps, SMTT(30)
  <1>4. QED BY <1>1, <1>2, <1>3 DEF Count, g

\* Messages of another kind at the end do not count.
LEMMA CountIgnores ==
    ASSUME NEW S, NEW h \in Seq(S), NEW g \in Seq(S), NEW P, \A i \in 1 .. Len(g) : g[i] \notin P
    PROVE  Count(h \o g, P) = Count(h, P)
  <1>1. Len(h) \in Nat /\ Len(g) \in Nat /\ Len(h \o g) = Len(h) + Len(g)
        /\ (\A i \in 1 .. Len(h) : (h \o g)[i] = h[i])
        /\ (\A i \in Len(h) + 1 .. Len(h) + Len(g) : (h \o g)[i] = g[i - Len(h)])
    OBVIOUS
  <1>2. {i \in 1 .. Len(h \o g) : (h \o g)[i] \in P} = {i \in 1 .. Len(h) : h[i] \in P}
    <2>1. \A i \in Len(h) + 1 .. Len(h) + Len(g) : (h \o g)[i] \notin P
      <3>1. \A i \in Len(h) + 1 .. Len(h) + Len(g) : i - Len(h) \in 1 .. Len(g)
        BY <1>1
      <3>2. QED BY <1>1, <3>1
    <2>2. \A i \in 1 .. Len(h \o g) : i \in 1 .. Len(h) \/ i \in Len(h) + 1 .. Len(h) + Len(g)
      BY <1>1
    <2>3. 1 .. Len(h) \subseteq 1 .. Len(h \o g)
      BY <1>1
    <2>4. QED BY <1>1, <2>1, <2>2, <2>3
  <1>3. QED BY <1>2 DEF Count, CountTo

\* Nor does one in front.
LEMMA CountPrepend ==
    ASSUME NEW S, NEW h \in Seq(S), NEW P, NEW x \in S, x \notin P
    PROVE  Count(<<x>> \o h, P) = Count(h, P)
  <1> DEFINE g == <<x>> \o h
             T == {n \in Nat : CountTo(g, n + 1, P) = CountTo(h, n, P)}
  <1>1. Len(h) \in Nat /\ Len(g) = Len(h) + 1 /\ g[1] = x
        /\ \A i \in 1 .. Len(h) : g[i + 1] = h[i]
    OBVIOUS
  <1> HIDE DEF g
  <1>2. 0 \in T
    <2>1. CountTo(g, 1, P) = CountTo(g, 0, P) + (IF g[1] \in P THEN 1 ELSE 0)
      BY CountSteps
    <2>2. CountTo(g, 0, P) = 0 /\ CountTo(h, 0, P) = 0
      BY CountSteps
    <2>3. QED BY <1>1, <2>1, <2>2
  <1>3. \A n \in 1 .. Len(h) : n - 1 \in T => n \in T
    <2> SUFFICES ASSUME NEW n \in 1 .. Len(h), CountTo(g, n, P) = CountTo(h, n - 1, P)
                 PROVE  CountTo(g, n + 1, P) = CountTo(h, n, P)
      BY <1>1
    <2>1. n \in Nat /\ n > 0 /\ n + 1 \in Nat /\ n + 1 > 0 /\ (n + 1) - 1 = n /\ g[n + 1] = h[n]
      BY <1>1
    <2>2. CountTo(g, n + 1, P) = CountTo(g, n, P) + (IF g[n + 1] \in P THEN 1 ELSE 0)
      <3>1. \A m \in Nat : m = n + 1 => m - 1 = n /\ m > 0
        BY <1>1
      <3>2. \A m \in Nat : m > 0 =>
                CountTo(g, m, P) = CountTo(g, m - 1, P) + (IF g[m] \in P THEN 1 ELSE 0)
        BY CountSteps
      <3>3. \A m \in Nat : m = n + 1 =>
                CountTo(g, m, P) = CountTo(g, n, P) + (IF g[m] \in P THEN 1 ELSE 0)
        BY <3>1, <3>2
      <3>4. QED BY <2>1, <3>3
    <2>3. CountTo(h, n, P) = CountTo(h, n - 1, P) + (IF h[n] \in P THEN 1 ELSE 0)
      BY <2>1, CountSteps
    <2>4. QED BY <2>1, <2>2, <2>3
  <1>4. Len(h) \in T
    <2> HIDE DEF T
    <2>1. \A n \in 0 .. Len(h) : n \in T
      BY <1>1, <1>2, <1>3, UpTo
    <2>2. QED BY <1>1, <2>1
  <1>5. QED BY <1>1, <1>4 DEF Count, g

-----------------------------------------------------------------------------
(* Histories. *)

\* The calls of an assistant message have ids of their own.
AreNamed(h) == \A i \in DOMAIN h : h[i].role = "assistant" => Named(h[i].calls)
ArePlaced(h) == \A i \in DOMAIN h : h[i].role = "assistant" => Placed(h[i].calls)

\* Message i answers a call of message k, which no message before it answers.
Answers(h, k, i) ==
    /\ k \in 1 .. i - 1 /\ h[k].role = "assistant"
    /\ i <= k + Len(h[k].calls)
    /\ \A l \in k + 1 .. i : h[l].role = "tool"
    /\ h[i].id \in ToSet(h[k].calls)
    /\ \A l \in k + 1 .. i - 1 : h[l].id # h[i].id

\* Every result answers a call.
Led(h) == \A i \in 1 .. Len(h) : h[i].role = "tool" => \E k \in 1 .. i - 1 : Answers(h, k, i)

\* Every call of message k has its result, right after it.
Complete(h, k) ==
    /\ k + Len(h[k].calls) <= Len(h)
    /\ \A i \in k + 1 .. k + Len(h[k].calls) : h[i].role = "tool"
    /\ \A j \in 1 .. Len(h[k].calls) :
          \E i \in k + 1 .. k + Len(h[k].calls) : h[i].id = h[k].calls[j]

\* All calls have their results but, of message a, the last one with calls,
\* those that wait.
Open(h, waiting, a) ==
    /\ a \in 0 .. Len(h)
    /\ a = 0 => waiting = <<>>
    /\ a > 0 =>
          /\ h[a].role = "assistant"
          /\ \A i \in a + 1 .. Len(h) : h[i].role = "tool"
          /\ Len(h) + Len(waiting) = a + Len(h[a].calls)
          /\ \A j \in 1 .. Len(h[a].calls) :
                \/ h[a].calls[j] \in ToSet(waiting)
                \/ \E i \in a + 1 .. Len(h) : h[i].id = h[a].calls[j]
          /\ ToSet(waiting) \subseteq ToSet(h[a].calls)
          /\ IsInjective(waiting)
          /\ \A i \in a + 1 .. Len(h) : h[i].id \notin ToSet(waiting)
    /\ \A k \in 1 .. Len(h) : k # a /\ h[k].role = "assistant" => Complete(h, k)
    /\ Led(h)

\* What holds of a history holds of a longer one.
LEMMA Longer ==
    ASSUME NEW h \in Seq(Messages), NEW g \in Seq(Messages), Len(h) <= Len(g),
           \A i \in 1 .. Len(h) : g[i] = h[i]
    PROVE  /\ \A k \in 1 .. Len(h) : Complete(h, k) => Complete(g, k)
           /\ \A i \in 1 .. Len(h), k \in Nat : Answers(h, k, i) => Answers(g, k, i)
  <1>1. Len(h) \in Nat /\ Len(g) \in Nat
    OBVIOUS
  <1>2. ASSUME NEW k \in 1 .. Len(h), Complete(h, k) PROVE Complete(g, k)
    <2> DEFINE n == Len(h[k].calls)
    <2>1. n \in Nat /\ g[k] = h[k] /\ k + n <= Len(h)
      BY <1>2 DEF Complete, Messages, MessagesWith
    <2>2. \A i \in k + 1 .. k + n : g[i] = h[i]
      BY <1>1, <2>1
    <2> HIDE DEF n
    <2>3. /\ \A i \in k + 1 .. k + n : h[i].role = "tool"
          /\ \A j \in 1 .. n : \E i \in k + 1 .. k + n : h[i].id = h[k].calls[j]
      BY <1>2 DEF Complete, n
    <2>4. /\ k + n <= Len(g)
          /\ \A i \in k + 1 .. k + n : g[i].role = "tool"
          /\ \A j \in 1 .. n : \E i \in k + 1 .. k + n : g[i].id = g[k].calls[j]
      <3>1. ASSUME NEW j \in 1 .. n PROVE \E i \in k + 1 .. k + n : g[i].id = g[k].calls[j]
        <4>1. PICK i \in k + 1 .. k + n : h[i].id = h[k].calls[j]
          BY <2>3
        <4>2. g[i] = h[i] /\ g[k] = h[k]
          BY <2>1, <2>2
        <4>3. QED BY <4>1, <4>2
      <3>2. QED BY <1>1, <2>1, <2>2, <2>3, <3>1
    <2>5. QED BY <2>1, <2>4 DEF Complete, n
  <1>3. ASSUME NEW i \in 1 .. Len(h), NEW k \in Nat, Answers(h, k, i) PROVE Answers(g, k, i)
    <2>1. \A l \in k .. i : g[l] = h[l]
      BY <1>1, <1>3 DEF Answers
    <2>2. k \in 1 .. i - 1 /\ i \in k .. i /\ k \in k .. i
      BY <1>3 DEF Answers
    <2>3. \A l \in k + 1 .. i : g[l] = h[l]
      BY <2>1, <2>2
    <2>4. QED BY <1>3, <2>1, <2>2, <2>3 DEF Answers
  <1>4. QED BY <1>2, <1>3

\* With nobody waiting all calls have their results.
LEMMA NobodyWaits ==
    ASSUME NEW h \in Seq(Messages), NEW a, Open(h, <<>>, a)
    PROVE  /\ \A k \in 1 .. Len(h) : h[k].role = "assistant" => Complete(h, k)
           /\ Led(h) /\ Open(h, <<>>, 0)
  <1>1. Len(h) \in Nat /\ Len(<<>>) = 0 /\ a \in 0 .. Len(h)
    BY DEF Open
  <1>2. ASSUME NEW k \in 1 .. Len(h), h[k].role = "assistant" PROVE Complete(h, k)
    <2>1. CASE k # a
      BY <1>2, <2>1 DEF Open
    <2>2. CASE k = a
      <3>1. a > 0 /\ Len(h[a].calls) \in Nat
        BY <1>1, <2>2 DEF Messages, MessagesWith
      <3> HIDE DEF Complete
      <3>2. /\ Len(h) = a + Len(h[a].calls)
            /\ \A i \in a + 1 .. Len(h) : h[i].role = "tool"
            /\ \A j \in 1 .. Len(h[a].calls) : \E i \in a + 1 .. Len(h) : h[i].id = h[a].calls[j]
        BY <1>1, <3>1 DEF Open, ToSet
      <3>3. QED BY <1>1, <2>2, <3>1, <3>2 DEF Complete
    <2>3. QED BY <2>1, <2>2
  <1>3. QED BY <1>1, <1>2 DEF Open

\* A new message that is no result begins after all calls have their results.
LEMMA OpenAppends ==
    ASSUME NEW h \in Seq(Messages), NEW a, Open(h, <<>>, a), NEW m \in Messages,
           m.role # "tool"
    PROVE  /\ Append(h, m) \in Seq(Messages)
           /\ m.role # "assistant" => Open(Append(h, m), <<>>, 0)
           /\ m.role = "assistant" /\ IsInjective(m.calls) =>
                 Open(Append(h, m), m.calls, Len(h) + 1)
  <1> DEFINE g == Append(h, m)
  <1>1. /\ g \in Seq(Messages) /\ Len(h) \in Nat /\ Len(g) = Len(h) + 1 /\ g[Len(h) + 1] = m
        /\ \A i \in 1 .. Len(h) : g[i] = h[i]
    OBVIOUS
  <1> HIDE DEF g
  <1>2. \A k \in 1 .. Len(h) : g[k].role = "assistant" => Complete(g, k)
    BY <1>1, NobodyWaits, Longer
  <1>3. Led(g)
    <2> SUFFICES ASSUME NEW i \in 1 .. Len(g), g[i].role = "tool"
                 PROVE  \E k \in 1 .. i - 1 : Answers(g, k, i)
      BY DEF Led
    <2>1. i \in 1 .. Len(h) /\ h[i].role = "tool"
      BY <1>1
    <2>2. PICK k \in 1 .. i - 1 : Answers(h, k, i)
      BY <2>1, NobodyWaits DEF Led
    <2>3. Answers(g, k, i)
      <3>1. k \in Nat
        BY <2>1
      <3>2. QED BY <1>1, <2>1, <2>2, <3>1, Longer
    <2>4. QED BY <2>3
  <1>4. ASSUME m.role # "assistant" PROVE Open(g, <<>>, 0)
    <2>1. \A k \in 1 .. Len(g) : g[k].role = "assistant" => Complete(g, k)
      BY <1>1, <1>2, <1>4
    <2>2. QED BY <1>1, <1>3, <2>1 DEF Open
  <1>5. ASSUME m.role = "assistant", IsInjective(m.calls) PROVE Open(g, m.calls, Len(h) + 1)
    <2>1. \A k \in 1 .. Len(g) : k # Len(h) + 1 /\ g[k].role = "assistant" => Complete(g, k)
      BY <1>1, <1>2
    <2>2. m.calls \in Seq(AllIds)
      BY DEF Messages, MessagesWith
    <2>3. \A j \in 1 .. Len(m.calls) : m.calls[j] \in ToSet(m.calls)
      BY <2>2 DEF ToSet
    <2>4. QED BY <1>1, <1>3, <1>5, <2>1, <2>2, <2>3 DEF Open
  <1>6. QED BY <1>1, <1>4, <1>5 DEF g

\* The messages that are made here.
LEMMA Forms ==
    /\ System \in Messages /\ User \in Messages /\ Text \in Messages
    /\ System.role = "system" /\ User.role = "user"
    /\ Text.role = "assistant" /\ Text.calls = <<>>
    /\ \A cs \in Seq(AllIds) :
          Assistant(cs) \in Messages /\ Assistant(cs).role = "assistant" /\ Assistant(cs).calls = cs
    /\ \A id \in AllIds, real \in BOOLEAN :
          /\ Tool(id, real) \in Messages /\ Tool(id, real).role = "tool"
          /\ Tool(id, real).id = id /\ Tool(id, real).real = real
  <1>1. <<>> \in AllIds /\ <<>> \in Seq(AllIds) /\ {} \in SUBSET Seq(AllIds)
    BY DEF AllIds
  <1>2. System \in Messages /\ System.role = "system" /\ System.calls = <<>>
    BY <1>1 DEF System, Messages, MessagesWith
  <1>3. User \in Messages /\ User.role = "user"
    <2> HIDE DEF System
    <2>1. QED BY <1>2 DEF User, Messages, MessagesWith
  <1>4. Text \in Messages /\ Text.role = "assistant" /\ Text.calls = <<>>
    <2> HIDE DEF System
    <2>1. QED BY <1>2 DEF Text, Messages, MessagesWith
  <1>5. ASSUME NEW cs \in Seq(AllIds)
        PROVE  /\ Assistant(cs) \in Messages /\ Assistant(cs).role = "assistant"
               /\ Assistant(cs).calls = cs
    <2> DEFINE m == [Text EXCEPT !.calls = cs]
    <2>1. m \in Messages /\ m.role = "assistant" /\ m.calls = cs
      BY <1>4 DEF Messages, MessagesWith
    <2>2. Assistant(cs) = [m EXCEPT !.raw = {cs}]
      BY Zenon DEF Assistant
    <2> HIDE DEF m
    <2>3. QED BY <2>1, <2>2 DEF Messages, MessagesWith
  <1>6. ASSUME NEW id \in AllIds, NEW real \in BOOLEAN
        PROVE  /\ Tool(id, real) \in Messages /\ Tool(id, real).role = "tool"
               /\ Tool(id, real).id = id /\ Tool(id, real).real = real
    <2> DEFINE m == [System EXCEPT !.role = "tool"]
               l == [m EXCEPT !.id = id]
    <2>1. m \in Messages /\ m.role = "tool"
      BY <1>2 DEF Messages, MessagesWith
    <2>2. Tool(id, real) = [l EXCEPT !.real = real]
      BY Zenon DEF Tool
    <2> HIDE DEF m
    <2>3. l \in Messages /\ l.role = "tool" /\ l.id = id
      BY <2>1 DEF Messages, MessagesWith
    <2> HIDE DEF l
    <2>4. QED BY <2>2, <2>3 DEF Messages, MessagesWith
  <1>7. QED BY <1>2, <1>3, <1>4, <1>5, <1>6

\* The results of the first n calls that wait.
Results(ids, n, real) == [j \in 1 .. n |-> Tool(ids[j], real)]

LEMMA ResultsAre ==
    ASSUME NEW ids \in Seq(AllIds), NEW n \in 0 .. Len(ids), NEW real \in BOOLEAN
    PROVE  /\ Results(ids, n, real) \in Seq(Messages) /\ Len(Results(ids, n, real)) = n
           /\ \A j \in 1 .. n : /\ Results(ids, n, real)[j].role = "tool"
                                /\ Results(ids, n, real)[j].id = ids[j]
                                /\ Results(ids, n, real)[j].real = real
  <1>1. \A j \in 1 .. n : ids[j] \in AllIds
    OBVIOUS
  <1>2. ASSUME NEW j \in 1 .. n
        PROVE  /\ Tool(ids[j], real) \in Messages /\ Tool(ids[j], real).role = "tool"
               /\ Tool(ids[j], real).id = ids[j] /\ Tool(ids[j], real).real = real
    BY <1>1, Forms
  <1>3. n \in Nat
    OBVIOUS
  <1> HIDE DEF Tool
  <1>4. QED BY <1>2, <1>3 DEF Results

\* They lead, and when nobody waits any more everything is complete.
LEMMA OpenFills ==
    ASSUME NEW h \in Seq(Messages), NEW ids \in Seq(AllIds), NEW a, Open(h, ids, a),
           NEW n \in 0 .. Len(ids), NEW real \in BOOLEAN
    PROVE  /\ h \o Results(ids, n, real) \in Seq(Messages)
           /\ Led(h \o Results(ids, n, real))
           /\ n = Len(ids) => Open(h \o Results(ids, n, real), <<>>, a)
  <1> DEFINE new == Results(ids, n, real)
             g == h \o new
  <1>1. /\ new \in Seq(Messages) /\ Len(new) = n
        /\ \A j \in 1 .. n : new[j].role = "tool" /\ new[j].id = ids[j]
    BY ResultsAre
  <1> HIDE DEF new
  <1>2. /\ g \in Seq(Messages) /\ Len(h) \in Nat /\ Len(g) = Len(h) + n /\ n \in Nat
        /\ Len(ids) \in Nat /\ n <= Len(ids)
        /\ \A i \in 1 .. Len(h) : g[i] = h[i]
        /\ \A i \in Len(h) + 1 .. Len(h) + n : g[i] = new[i - Len(h)]
    BY <1>1, SMTT(30)
  <1> HIDE DEF g
  <1>3. \A i \in Len(h) + 1 .. Len(h) + n :
            i - Len(h) \in 1 .. n /\ g[i].role = "tool" /\ g[i].id = ids[i - Len(h)]
    <2>1. \A i \in Len(h) + 1 .. Len(h) + n : i - Len(h) \in 1 .. n
      BY <1>2
    <2> SUFFICES ASSUME NEW i \in Len(h) + 1 .. Len(h) + n
                 PROVE  g[i].role = "tool" /\ g[i].id = ids[i - Len(h)]
      BY <2>1
    <2>2. g[i] = new[i - Len(h)] /\ i - Len(h) \in 1 .. n
      BY <1>2, <2>1
    <2>3. QED BY <1>1, <2>2
  <1>4. \A k \in 1 .. Len(h) : k # a /\ g[k].role = "assistant" => Complete(g, k)
    BY <1>2, Longer DEF Open
  <1>5. ASSUME n > 0
        PROVE  /\ a \in 1 .. Len(h) /\ h[a].role = "assistant" /\ g[a] = h[a]
               /\ Len(h[a].calls) \in Nat
               /\ \A i \in a + 1 .. Len(h) : h[i].role = "tool" /\ h[i].id \notin ToSet(ids)
               /\ Len(h) + Len(ids) = a + Len(h[a].calls)
               /\ ToSet(ids) \subseteq ToSet(h[a].calls) /\ IsInjective(ids)
    <2>1. a # 0 /\ a \in 0 .. Len(h)
      BY <1>2, <1>5 DEF Open
    <2>2. a \in 1 .. Len(h) /\ g[a] = h[a] /\ h[a] \in Messages
      BY <1>2, <2>1
    <2>3. Len(h[a].calls) \in Nat
      BY <2>2 DEF Messages, MessagesWith
    <2>4. QED BY <2>2, <2>3 DEF Open
  <1>6. Led(g)
    <2> SUFFICES ASSUME NEW i \in 1 .. Len(g), g[i].role = "tool"
                 PROVE  \E k \in 1 .. i - 1 : Answers(g, k, i)
      BY DEF Led
    <2>1. CASE i \in 1 .. Len(h)
      <3>1. PICK k \in 1 .. i - 1 : Answers(h, k, i)
        BY <1>2, <2>1 DEF Led, Open
      <3>2. k \in Nat
        BY <2>1
      <3>3. QED BY <1>2, <2>1, <3>1, <3>2, Longer, SMTT(30)
    <2>2. CASE i \in Len(h) + 1 .. Len(h) + n
      <3>1. n > 0 /\ a \in 1 .. i - 1 /\ i <= a + Len(g[a].calls)
        BY <1>2, <1>5, <2>2
      <3>2. \A l \in a + 1 .. i : g[l].role = "tool"
        <4>1. \A l \in a + 1 .. Len(h) : g[l].role = "tool"
          <5> SUFFICES ASSUME NEW l \in a + 1 .. Len(h) PROVE g[l].role = "tool"
            OBVIOUS
          <5>1. h[l].role = "tool"
            BY <1>5, <3>1
          <5>2. a \in Nat /\ l \in 1 .. Len(h)
            BY <1>2, <1>5, <3>1
          <5>3. g[l] = h[l]
            BY <1>2, <5>2
          <5> QED BY <5>1, <5>3
        <4>2. \A l \in a + 1 .. i : l \in a + 1 .. Len(h) \/ l \in Len(h) + 1 .. Len(h) + n
          BY <1>2, <2>2, <3>1
        <4>3. QED BY <1>3, <4>1, <4>2
      <3>3. g[i].id \in ToSet(ids) /\ i - Len(h) \in 1 .. Len(ids) /\ g[i].id = ids[i - Len(h)]
        BY <1>2, <1>3, <2>2 DEF ToSet
      <3>4. ASSUME NEW l \in a + 1 .. i - 1 PROVE g[l].id # g[i].id
        <4>1. CASE l \in a + 1 .. Len(h)
          BY <1>2, <1>5, <3>1, <3>3, <4>1, SMTT(30)
        <4>2. CASE l \in Len(h) + 1 .. i - 1
          <5>1. /\ l - Len(h) \in 1 .. Len(ids) /\ g[l].id = ids[l - Len(h)]
                /\ l - Len(h) # i - Len(h)
            BY <1>2, <1>3, <2>2, <4>2
          <5>2. \A x, y \in 1 .. Len(ids) : ids[x] = ids[y] => x = y
            BY <1>5, <3>1 DEF IsInjective
          <5>3. QED BY <3>3, <5>1, <5>2
        <4>3. QED BY <1>2, <2>2, <3>1, <4>1, <4>2
      <3>5. Answers(g, a, i)
        BY <1>5, <3>1, <3>2, <3>3, <3>4 DEF Answers
      <3>6. QED BY <3>1, <3>5
    <2>3. i \in 1 .. Len(h) \/ i \in Len(h) + 1 .. Len(h) + n
      BY <1>2
    <2>4. QED BY <2>1, <2>2, <2>3
  <1>7. ASSUME n = Len(ids) PROVE Open(g, <<>>, a)
    <2>1. a \in 0 .. Len(g) /\ Len(<<>>) = 0 /\ ToSet(<<>>) = {} /\ IsInjective(<<>>)
      BY <1>2 DEF Open, ToSet, IsInjective
    <2>2. \A k \in 1 .. Len(g) : k # a /\ g[k].role = "assistant" => Complete(g, k)
      BY <1>2, <1>3, <1>4
    <2>3. ASSUME a > 0
          PROVE  /\ g[a].role = "assistant" /\ \A i \in a + 1 .. Len(g) : g[i].role = "tool"
                 /\ Len(g) = a + Len(g[a].calls)
      <3>1. /\ h[a].role = "assistant" /\ (\A i \in a + 1 .. Len(h) : h[i].role = "tool")
            /\ Len(h) + Len(ids) = a + Len(h[a].calls) /\ a \in 1 .. Len(h)
        BY <1>2, <2>3 DEF Open
      <3>2. g[a] = h[a]
        BY <1>2, <3>1
      <3>3. QED BY <1>2, <1>3, <1>7, <3>1, <3>2, SMTT(30)
    <2>4. ASSUME a > 0, NEW j \in 1 .. Len(g[a].calls)
          PROVE  \E i \in a + 1 .. Len(g) : g[i].id = g[a].calls[j]
      <3>1. a \in 1 .. Len(h) /\ g[a] = h[a]
        BY <1>2, <2>4 DEF Open
      <3>2. CASE h[a].calls[j] \in ToSet(ids)
        <4>1. PICK k \in 1 .. n : ids[k] = h[a].calls[j]
          BY <1>7, <3>2 DEF ToSet
        <4>2. k + Len(h) \in Len(h) + 1 .. Len(h) + n /\ (k + Len(h)) - Len(h) = k
          BY <1>2
        <4>3. g[k + Len(h)].id = ids[k]
          BY <1>3, <4>2
        <4>4. k + Len(h) \in a + 1 .. Len(g)
          BY <1>2, <3>1
        <4>5. QED BY <3>1, <4>1, <4>3, <4>4
      <3>3. CASE h[a].calls[j] \notin ToSet(ids)
        <4>1. PICK i \in a + 1 .. Len(h) : h[i].id = h[a].calls[j]
          BY <2>4, <3>1, <3>3 DEF Open
        <4>2. i \in a + 1 .. Len(g) /\ i \in 1 .. Len(h)
          BY <1>2, <3>1
        <4>3. QED BY <1>2, <3>1, <4>1, <4>2
      <3>4. QED BY <3>2, <3>3
    <2>5. QED BY <1>6, <2>1, <2>2, <2>3, <2>4 DEF Open
  <1>8. QED BY <1>2, <1>6, <1>7 DEF g, new

-----------------------------------------------------------------------------
(* The normaliser's loop. *)

Accs == [out : Seq(Messages), pending : Seq(AllIds), aliases : SUBSET (AllIds \X AllIds),
         used : SUBSET AllIds]

Users == {m \in Messages : m.role = "user"}
Reals == {m \in Messages : m.role = "tool" /\ m.real}

\* Made results are none of a turn, and no messages of a user.
LEMMA ResultsCount ==
    ASSUME NEW h \in Seq(Messages), NEW ids \in Seq(AllIds), NEW n \in 0 .. Len(ids),
           NEW real \in BOOLEAN
    PROVE  /\ Count(h \o Results(ids, n, real), Users) = Count(h, Users)
           /\ ~ real => Count(h \o Results(ids, n, real), Reals) = Count(h, Reals)
           /\ AreNamed(h) => AreNamed(h \o Results(ids, n, real))
  <1> DEFINE new == Results(ids, n, real)
  <1>1. /\ new \in Seq(Messages) /\ Len(new) = n
        /\ \A j \in 1 .. n : new[j].role = "tool" /\ new[j].real = real
    BY ResultsAre
  <1> HIDE DEF new
  <1>2. Count(h \o new, Users) = Count(h, Users)
    <2>1. \A j \in 1 .. Len(new) : new[j] \notin Users
      BY <1>1 DEF Users
    <2>2. QED BY <1>1, <2>1, CountIgnores
  <1>3. ASSUME ~ real PROVE Count(h \o new, Reals) = Count(h, Reals)
    <2>1. \A j \in 1 .. Len(new) : new[j] \notin Reals
      BY <1>1, <1>3 DEF Reals
    <2>2. QED BY <1>1, <2>1, CountIgnores
  <1>4. ASSUME AreNamed(h) PROVE AreNamed(h \o new)
    <2> DEFINE g == h \o new
    <2>1. /\ Len(h) \in Nat /\ Len(new) \in Nat /\ DOMAIN g = 1 .. Len(h) + Len(new)
          /\ \A i \in 1 .. Len(h) : g[i] = h[i]
          /\ \A i \in Len(h) + 1 .. Len(h) + Len(new) : g[i] = new[i - Len(h)]
      BY <1>1, SMTT(30)
    <2> HIDE DEF g
    <2>2. \A i \in Len(h) + 1 .. Len(h) + Len(new) : g[i].role = "tool"
      <3>1. \A i \in Len(h) + 1 .. Len(h) + Len(new) : i - Len(h) \in 1 .. Len(new)
        BY <2>1
      <3>2. QED BY <1>1, <2>1, <3>1
    <2>3. \A i \in DOMAIN g : i \in 1 .. Len(h) \/ i \in Len(h) + 1 .. Len(h) + Len(new)
      BY <2>1
    <2>4. AreNamed(g)
      <3> SUFFICES ASSUME NEW i \in DOMAIN g, g[i].role = "assistant" PROVE Named(g[i].calls)
        BY DEF AreNamed
      <3>1. i \in DOMAIN h /\ g[i] = h[i]
        BY <2>1, <2>2, <2>3
      <3>2. QED BY <1>4, <3>1 DEF AreNamed
    <2>5. QED BY <2>4 DEF g
  <1>5. QED BY <1>2, <1>3, <1>4 DEF new

\* What the loop has put out is in order, after its message m and before it.
InOrder(acc) == acc \in Accs /\ AreNamed(acc.out) /\ \E a : Open(acc.out, acc.pending, a)

LEMMA FlushKeeps ==
    ASSUME NEW acc, InOrder(acc)
    PROVE  /\ InOrder(Flush(acc)) /\ Flush(acc).pending = <<>> /\ Flush(acc).aliases = {}
           /\ Flush(acc).used = acc.used
           /\ Count(Flush(acc).out, Users) = Count(acc.out, Users)
           /\ Count(Flush(acc).out, Reals) = Count(acc.out, Reals)
  <1> DEFINE new == Results(acc.pending, Len(acc.pending), FALSE)
  <1>1. /\ acc \in Accs /\ acc.out \in Seq(Messages) /\ acc.pending \in Seq(AllIds)
        /\ Len(acc.pending) \in 0 .. Len(acc.pending)
    BY DEF InOrder, Accs
  <1>2. PICK a : Open(acc.out, acc.pending, a)
    BY DEF InOrder
  <1>3. acc.out \o new \in Seq(Messages) /\ Open(acc.out \o new, <<>>, a)
    BY <1>1, <1>2, OpenFills
  <1>4. /\ Count(acc.out \o new, Users) = Count(acc.out, Users)
        /\ Count(acc.out \o new, Reals) = Count(acc.out, Reals)
        /\ AreNamed(acc.out \o new)
    BY <1>1, ResultsCount DEF InOrder
  <1>5. [k \in DOMAIN acc.pending |-> Tool(acc.pending[k], FALSE)] = new
    <2>1. DOMAIN acc.pending = 1 .. Len(acc.pending)
      BY <1>1
    <2>2. QED BY <2>1 DEF Results
  <1> HIDE DEF new
  <1>6. /\ Flush(acc) \in Accs /\ Flush(acc).out = acc.out \o new /\ Flush(acc).pending = <<>>
        /\ Flush(acc).aliases = {} /\ Flush(acc).used = acc.used
    <2> DEFINE g == acc.out \o new
    <2>1. Flush(acc) = [out |-> g, pending |-> <<>>, aliases |-> {}, used |-> acc.used]
      BY <1>5 DEF Flush
    <2>2. g \in Seq(Messages) /\ acc.used \in SUBSET AllIds /\ <<>> \in Seq(AllIds)
      BY <1>1, <1>3 DEF Accs
    <2> HIDE DEF g
    <2>3. [out |-> g, pending |-> <<>>, aliases |-> {}, used |-> acc.used] \in Accs
      BY <2>2 DEF Accs
    <2>4. QED BY <2>1, <2>3 DEF g
  <1>7. QED BY <1>3, <1>4, <1>6 DEF InOrder

LEMMA OtherKeeps ==
    ASSUME NEW acc, InOrder(acc), NEW m \in Messages, m.role \notin {"assistant", "tool"}
    PROVE  /\ InOrder(AcceptOther(acc, m))
           /\ AcceptOther(acc, m).pending = <<>> /\ AcceptOther(acc, m).used = acc.used
           /\ Count(AcceptOther(acc, m).out, Users) =
                 Count(acc.out, Users) + (IF m \in Users THEN 1 ELSE 0)
           /\ Count(AcceptOther(acc, m).out, Reals) = Count(acc.out, Reals)
  <1> DEFINE f == Flush(acc)
             g == Append(f.out, m)
  <1>1. /\ InOrder(f) /\ f.pending = <<>> /\ f.used = acc.used /\ f \in Accs
        /\ f.out \in Seq(Messages)
        /\ Count(f.out, Users) = Count(acc.out, Users)
        /\ Count(f.out, Reals) = Count(acc.out, Reals)
    BY FlushKeeps DEF InOrder, Accs
  <1>2. PICK a : Open(f.out, <<>>, a)
    BY <1>1 DEF InOrder
  <1>3. AcceptOther(acc, m) = [f EXCEPT !.out = g]
    BY DEF AcceptOther
  <1> HIDE DEF f
  <1>4. g \in Seq(Messages) /\ Open(g, <<>>, 0)
    BY <1>1, <1>2, OpenAppends
  <1>5. AreNamed(g)
    BY <1>1 DEF AreNamed, InOrder
  <1>6. /\ Count(g, Users) = Count(f.out, Users) + (IF m \in Users THEN 1 ELSE 0)
        /\ Count(g, Reals) = Count(f.out, Reals) + (IF m \in Reals THEN 1 ELSE 0)
    BY <1>1, CountAppend
  <1>7. m \notin Reals /\ Count(f.out, Reals) \in Nat
    BY <1>1, CountSteps DEF Reals, Count
  <1> HIDE DEF g
  <1>8. /\ [f EXCEPT !.out = g] \in Accs /\ [f EXCEPT !.out = g].out = g
        /\ [f EXCEPT !.out = g].pending = <<>> /\ [f EXCEPT !.out = g].used = acc.used
    BY <1>1, <1>4 DEF Accs
  <1>9. QED BY <1>1, <1>3, <1>4, <1>5, <1>6, <1>7, <1>8 DEF InOrder

\* The first call with an id hands it on to the id it has now.
AliasFirsts(aliases, cs, ids) ==
    \A c, d : <<c, d>> \in aliases <=>
       \E j \in 1 .. Len(cs) : /\ c = cs[j] /\ d = ids[j] /\ cs[j] # <<>>
                              /\ \A k \in 1 .. j - 1 : cs[k] # cs[j]

LEMMA CallsKeep ==
    ASSUME NEW acc, InOrder(acc), NEW m \in Messages, m.role = "assistant", Placed(m.calls),
           NEW i \in Nat \ {0}
    PROVE  /\ InOrder(AcceptCalls(acc, m, i))
           /\ AcceptCalls(acc, m, i).pending = Renamed(m.calls, acc.used, i)
           /\ Count(AcceptCalls(acc, m, i).out, Users) = Count(acc.out, Users)
           /\ Count(AcceptCalls(acc, m, i).out, Reals) = Count(acc.out, Reals)
           /\ AliasFirsts(AcceptCalls(acc, m, i).aliases, m.calls, Renamed(m.calls, acc.used, i))
  <1> DEFINE f == Flush(acc)
             ids == Renamed(m.calls, acc.used, i)
             first(j) == \A k \in 1 .. j - 1 : m.calls[k] # m.calls[j]
             pairs == {<<m.calls[j], ids[j]>> :
                          j \in {k \in DOMAIN ids : m.calls[k] # <<>> /\ first(k)}}
             x == [m EXCEPT !.calls = ids]
             g == Append(f.out, x)
  <1>1. /\ InOrder(f) /\ f.pending = <<>> /\ f.used = acc.used /\ f \in Accs
        /\ f.out \in Seq(Messages) /\ f.used \in SUBSET AllIds
        /\ Count(f.out, Users) = Count(acc.out, Users)
        /\ Count(f.out, Reals) = Count(acc.out, Reals)
    BY FlushKeeps DEF InOrder, Accs
  <1>2. PICK a : Open(f.out, <<>>, a)
    BY <1>1 DEF InOrder
  <1>4. m.calls \in Seq(AllIds)
    BY DEF Messages, MessagesWith
  <1>5. /\ ids \in Seq(AllIds) /\ Len(ids) = Len(m.calls) /\ Named(ids) /\ IsInjective(ids)
    BY <1>4, RenamedIsNamed DEF Named
  <1> HIDE DEF f, ids
  <1>6. /\ DOMAIN ids = 1 .. Len(m.calls)
        /\ \A j \in 1 .. Len(m.calls) : m.calls[j] \in AllIds /\ ids[j] \in AllIds
    BY <1>4, <1>5
  <1>7. pairs \in SUBSET (AllIds \X AllIds) /\ ToSet(ids) \in SUBSET AllIds
    BY <1>6 DEF ToSet
  <1>8. AliasFirsts(pairs, m.calls, ids)
    BY <1>6 DEF AliasFirsts
  <1> HIDE DEF pairs
  <1>9. x \in Messages /\ x.role = "assistant" /\ x.calls = ids
    BY <1>5 DEF Messages, MessagesWith
  <1> HIDE DEF x
  <1>10. g \in Seq(Messages) /\ Open(g, ids, Len(f.out) + 1)
    BY <1>1, <1>2, <1>5, <1>9, OpenAppends
  <1>11. AreNamed(g)
    BY <1>1, <1>5, <1>9 DEF AreNamed, InOrder
  <1>12. x \notin Users /\ x \notin Reals
    BY <1>9 DEF Users, Reals
  <1>13. Count(g, Users) = Count(f.out, Users) /\ Count(g, Reals) = Count(f.out, Reals)
    <2>1. Count(f.out, Users) \in Nat /\ Count(f.out, Reals) \in Nat
      BY <1>1, CountSteps DEF Count
    <2>2. QED BY <1>1, <1>12, <2>1, CountAppend
  <1> DEFINE used == acc.used \cup ToSet(ids)
             out == [out |-> g, pending |-> ids, aliases |-> pairs, used |-> used]
  <1>14. AcceptCalls(acc, m, i) = out
    BY Zenon DEF AcceptCalls, f, ids, pairs, x
  <1>15. used \in SUBSET AllIds
    BY <1>1, <1>7
  <1> HIDE DEF g, used
  <1>16. out \in Accs
    BY <1>5, <1>7, <1>10, <1>15 DEF Accs
  <1>17. InOrder(out)
    BY <1>10, <1>11, <1>16 DEF InOrder
  <1> QED BY <1>1, <1>8, <1>13, <1>14, <1>17 DEF ids

LEMMA InList ==
    ASSUME NEW S, NEW s \in Seq(S), NEW x
    PROVE  x \in ToSet(s) <=> \E n \in 1 .. Len(s) : s[n] = x
  BY DEF ToSet

\* A list without its element k.
LEMMA RemoveSteps ==
    ASSUME NEW S, NEW s \in Seq(S), NEW k \in 1 .. Len(s)
    PROVE  /\ RemoveAt(s, k) \in Seq(S) /\ Len(RemoveAt(s, k)) = Len(s) - 1
           /\ \A x : x \in ToSet(RemoveAt(s, k)) <=> \E j \in 1 .. Len(s) : j # k /\ s[j] = x
           /\ IsInjective(s) => IsInjective(RemoveAt(s, k))
  <1> DEFINE p == SubSeq(s, 1, k - 1)
             q == SubSeq(s, k + 1, Len(s))
             t == p \o q
  <1>1. Len(s) \in Nat /\ k - 1 \in 0 .. Len(s) /\ RemoveAt(s, k) = t
    BY DEF RemoveAt
  <1>2. /\ p \in Seq(S) /\ Len(p) = k - 1 /\ \A j \in 1 .. k - 1 : p[j] = s[j]
    BY <1>1
  <1>3. /\ q \in Seq(S) /\ Len(q) = Len(s) - k /\ \A j \in 1 .. Len(s) - k : q[j] = s[j + k]
    BY <1>1
  <1> HIDE DEF p, q
  <1>4. /\ t \in Seq(S) /\ Len(t) = Len(s) - 1
        /\ \A j \in 1 .. Len(s) - 1 : t[j] = IF j < k THEN s[j] ELSE s[j + 1]
    <2>1. t \in Seq(S) /\ Len(t) = Len(s) - 1
      <3>1. t \in Seq(S) /\ Len(t) = Len(p) + Len(q)
        BY <1>2, <1>3, ConcatProperties
      <3>2. k \in Nat
        BY <1>1
      <3>3. (k - 1) + (Len(s) - k) = Len(s) - 1
        BY <1>1, <3>2
      <3>4. QED BY <1>2, <1>3, <3>1, <3>3
    <2>2. ASSUME NEW j \in 1 .. Len(s) - 1 PROVE t[j] = IF j < k THEN s[j] ELSE s[j + 1]
      <3>1. CASE j < k
        BY <1>1, <1>2, <1>3, <3>1
      <3>2. CASE ~ (j < k)
        <4>1. t[j] = q[j - (k - 1)]
          BY <1>1, <1>2, <1>3, <3>2
        <4>2. j - (k - 1) \in 1 .. Len(s) - k /\ (j - (k - 1)) + k = j + 1
          BY <1>1, <3>2
        <4>3. QED BY <1>3, <3>2, <4>1, <4>2
      <3>3. QED BY <3>1, <3>2
    <2>3. QED BY <2>1, <2>2
  <1> HIDE DEF t
  <1>5. ASSUME NEW x
        PROVE  x \in ToSet(t) <=> \E j \in 1 .. Len(s) : j # k /\ s[j] = x
    <2>1. ToSet(t) = {t[j] : j \in 1 .. Len(t)}
      BY <1>4 DEF ToSet
    <2>2. ASSUME x \in ToSet(t) PROVE \E j \in 1 .. Len(s) : j # k /\ s[j] = x
      <3>1. PICK j \in 1 .. Len(s) - 1 : t[j] = x
        BY <1>1, <1>4, <2>1, <2>2
      <3>2. CASE j < k
        BY <1>1, <1>4, <3>1, <3>2
      <3>3. CASE ~ (j < k)
        <4>1. j + 1 \in 1 .. Len(s) /\ j + 1 # k /\ s[j + 1] = x
          BY <1>1, <1>4, <3>1, <3>3
        <4>2. QED BY <4>1
      <3>4. QED BY <3>2, <3>3
    <2>3. ASSUME NEW j \in 1 .. Len(s), j # k, s[j] = x PROVE x \in ToSet(t)
      <3>1. CASE j < k
        <4>1. j \in 1 .. Len(t) /\ t[j] = x
          BY <1>1, <1>4, <2>3, <3>1
        <4>2. QED BY <2>1, <4>1
      <3>2. CASE ~ (j < k)
        <4>1. j - 1 \in 1 .. Len(t) /\ (j - 1) + 1 = j /\ ~ (j - 1 < k)
          BY <1>1, <1>4, <2>3, <3>2
        <4>2. t[j - 1] = x
          BY <1>1, <1>4, <2>3, <4>1
        <4>3. QED BY <2>1, <4>1, <4>2
      <3>3. QED BY <3>1, <3>2
    <2>4. QED BY <2>2, <2>3
  <1>6. ASSUME IsInjective(s) PROVE IsInjective(t)
    <2> SUFFICES ASSUME NEW i \in 1 .. Len(s) - 1, NEW j \in 1 .. Len(s) - 1, t[i] = t[j]
                 PROVE  i = j
      BY <1>4, SMTT(30) DEF IsInjective
    <2>1. \A x, y \in 1 .. Len(s) : s[x] = s[y] => x = y
      BY <1>6 DEF IsInjective
    <2>2. (IF i < k THEN i ELSE i + 1) = (IF j < k THEN j ELSE j + 1)
      <3>1. /\ (IF i < k THEN i ELSE i + 1) \in 1 .. Len(s)
            /\ (IF j < k THEN j ELSE j + 1) \in 1 .. Len(s)
            /\ s[IF i < k THEN i ELSE i + 1] = t[i]
            /\ s[IF j < k THEN j ELSE j + 1] = t[j]
        BY <1>1, <1>4
      <3>2. QED BY <2>1, <3>1
    <2>3. QED BY <2>2
  <1>7. QED BY <1>1, <1>4, <1>5, <1>6

\* The elements of t are those of s but the one at place k.
Dropped(t, s, k) ==
    \A x : x \in ToSet(t) <=> \E j \in 1 .. Len(s) : j # k /\ s[j] = x

\* A result that is taken answers the call whose id it is given.
LEMMA ResultKeeps ==
    ASSUME NEW acc, InOrder(acc), NEW m \in Messages, m.role = "tool"
    PROVE  /\ InOrder(AcceptResult(acc, m))
           /\ AcceptResult(acc, m).aliases = acc.aliases
           /\ Count(AcceptResult(acc, m).out, Users) = Count(acc.out, Users)
           /\ Answered(acc, m.id) # {} =>
                 /\ Count(AcceptResult(acc, m).out, Reals) =
                       Count(acc.out, Reals) + (IF m.real THEN 1 ELSE 0)
                 /\ \E k \in Answered(acc, m.id) :
                       Dropped(AcceptResult(acc, m).pending, acc.pending, k)
  <1>1. /\ acc \in Accs /\ acc.out \in Seq(Messages) /\ acc.pending \in Seq(AllIds)
        /\ Len(acc.out) \in Nat /\ Len(acc.pending) \in Nat
    BY DEF InOrder, Accs
  <1>2. CASE Answered(acc, m.id) = {}
    BY <1>2 DEF AcceptResult
  <1>3. CASE Answered(acc, m.id) # {}
    <2> DEFINE k == CHOOSE k \in Answered(acc, m.id) : TRUE
               id == acc.pending[k]
               x == [m EXCEPT !.id = id]
               g == Append(acc.out, x)
               p == RemoveAt(acc.pending, k)
               out == [out |-> g, pending |-> p, aliases |-> acc.aliases, used |-> acc.used]
    <2>1. AcceptResult(acc, m) = out
      BY <1>3 DEF AcceptResult
    <2>2. k \in Answered(acc, m.id)
      BY <1>3
    <2>3. k \in 1 .. Len(acc.pending)
      BY <1>1, <2>2 DEF Answered
    <2> HIDE DEF k
    <2>4. id \in AllIds /\ id \in ToSet(acc.pending)
      BY <1>1, <2>3 DEF ToSet
    <2>5. /\ p \in Seq(AllIds) /\ Len(p) = Len(acc.pending) - 1
          /\ \A y : y \in ToSet(p) <=> \E j \in 1 .. Len(acc.pending) : j # k /\ acc.pending[j] = y
          /\ IsInjective(acc.pending) => IsInjective(p)
      BY <1>1, <2>3, RemoveSteps
    <2> HIDE DEF id, p
    <2>6. x \in Messages /\ x.role = "tool" /\ x.id = id /\ x.real = m.real
      BY <2>4 DEF Messages, MessagesWith
    <2> HIDE DEF x
    <2>7. /\ g \in Seq(Messages) /\ Len(g) = Len(acc.out) + 1 /\ g[Len(acc.out) + 1] = x
          /\ DOMAIN g = 1 .. Len(acc.out) + 1
          /\ \A i \in 1 .. Len(acc.out) : g[i] = acc.out[i]
      BY <1>1, <2>6
    <2>8. /\ Count(g, Users) = Count(acc.out, Users)
          /\ Count(g, Reals) = Count(acc.out, Reals) + (IF m.real THEN 1 ELSE 0)
      <3>1. Count(acc.out, Users) \in Nat
        BY <1>1, CountSteps DEF Count
      <3>2. x \notin Users /\ (x \in Reals <=> m.real)
        BY <2>6 DEF Users, Reals
      <3>3. /\ Count(g, Users) = Count(acc.out, Users) + (IF x \in Users THEN 1 ELSE 0)
            /\ Count(g, Reals) = Count(acc.out, Reals) + (IF x \in Reals THEN 1 ELSE 0)
        BY <1>1, CountAppend
      <3>4. QED BY <3>1, <3>2, <3>3
    <2> HIDE DEF g
    <2>9. AreNamed(g)
      <3> SUFFICES ASSUME NEW i \in DOMAIN g, g[i].role = "assistant" PROVE Named(g[i].calls)
        BY DEF AreNamed
      <3>1. i \in DOMAIN acc.out /\ g[i] = acc.out[i]
        BY <1>1, <2>6, <2>7
      <3>2. QED BY <3>1 DEF InOrder, AreNamed
    <2>10. PICK a : Open(acc.out, acc.pending, a)
      BY DEF InOrder
    <2>11. /\ a \in 1 .. Len(acc.out) /\ acc.out[a].role = "assistant" /\ g[a] = acc.out[a]
           /\ Len(acc.out[a].calls) \in Nat
           /\ \A i \in a + 1 .. Len(acc.out) :
                 acc.out[i].role = "tool" /\ acc.out[i].id \notin ToSet(acc.pending)
           /\ Len(acc.out) + Len(acc.pending) = a + Len(acc.out[a].calls)
           /\ ToSet(acc.pending) \subseteq ToSet(acc.out[a].calls) /\ IsInjective(acc.pending)
           /\ \A j \in 1 .. Len(acc.out[a].calls) :
                 \/ acc.out[a].calls[j] \in ToSet(acc.pending)
                 \/ \E i \in a + 1 .. Len(acc.out) : acc.out[i].id = acc.out[a].calls[j]
      <3>1. a # 0 /\ a \in 0 .. Len(acc.out)
        BY <1>1, <2>3, <2>10 DEF Open
      <3>2. a \in 1 .. Len(acc.out) /\ acc.out[a] \in Messages
        BY <1>1, <3>1
      <3>3. Len(acc.out[a].calls) \in Nat
        BY <3>2 DEF Messages, MessagesWith
      <3>4. a > 0
        BY <1>1, <3>1
      <3>5. QED BY <2>7, <2>10, <3>2, <3>3, <3>4 DEF Open
    <2>11a. a \in Nat
      BY <1>1, <2>11
    <2>12. id \notin ToSet(p) /\ ToSet(p) \subseteq ToSet(acc.pending)
      <3>1. \A j \in 1 .. Len(acc.pending) : j # k => acc.pending[j] # id
        BY <1>1, <2>3, <2>11 DEF IsInjective, id
      <3>2. \A j \in 1 .. Len(acc.pending) : acc.pending[j] \in ToSet(acc.pending)
        BY <1>1 DEF ToSet
      <3>3. QED BY <2>5, <3>1, <3>2
    <2>13. Led(g)
      <3> SUFFICES ASSUME NEW i \in 1 .. Len(g), g[i].role = "tool"
                   PROVE  \E l \in 1 .. i - 1 : Answers(g, l, i)
        BY DEF Led
      <3>1. CASE i \in 1 .. Len(acc.out)
        <4>1. PICK l \in 1 .. i - 1 : Answers(acc.out, l, i)
          BY <2>7, <2>10, <3>1 DEF Led, Open
        <4>2. l \in Nat /\ Len(acc.out) <= Len(g)
          BY <1>1, <2>7, <3>1
        <4>3. QED BY <1>1, <2>7, <3>1, <4>1, <4>2, Longer
      <3>2. CASE i = Len(acc.out) + 1
        <4>1. a \in 1 .. i - 1 /\ i <= a + Len(g[a].calls)
          <5>1. i <= a + Len(acc.out[a].calls)
            <6>1. /\ Len(acc.out) + Len(acc.pending) = a + Len(acc.out[a].calls) /\ a \in Nat
                  /\ Len(acc.out[a].calls) \in Nat
              BY <2>11, <2>11a, Zenon
            <6>2. Len(acc.pending) >= 1
              BY <1>1, <2>3
            <6>3. \A l, w, b, c \in Nat : l + w = b + c /\ w >= 1 => l + 1 <= b + c
              OBVIOUS
            <6>4. Len(acc.out) + 1 <= a + Len(acc.out[a].calls)
              BY <1>1, <6>1, <6>2, <6>3, Zenon
            <6>5. QED BY <3>2, <6>4
          <5>2. a \in 1 .. i - 1
            BY <1>1, <2>11, <3>2
          <5>3. QED BY <2>11, <5>1, <5>2
        <4>2. g[i].id = id /\ g[i].id \in ToSet(g[a].calls)
          BY <2>4, <2>6, <2>7, <2>11, <3>2
        <4>3. \A l \in a + 1 .. i - 1 : g[l].role = "tool" /\ g[l].id # g[i].id
          BY <1>1, <2>4, <2>7, <2>11, <3>2, <4>2, SMTT(30)
        <4>4. \A l \in a + 1 .. i : g[l].role = "tool"
          BY <1>1, <2>6, <2>7, <3>2, <4>3
        <4>5. Answers(g, a, i)
          BY <2>11, <4>1, <4>2, <4>3, <4>4 DEF Answers
        <4>6. QED BY <4>1, <4>5
      <3>3. QED BY <1>1, <2>7, <3>1, <3>2
    <2>14. \A l \in 1 .. Len(g) : l # a /\ g[l].role = "assistant" => Complete(g, l)
      <3>1. ASSUME NEW l \in 1 .. Len(g), l # a, g[l].role = "assistant" PROVE Complete(g, l)
        <4>1. l \in 1 .. Len(acc.out) /\ g[l] = acc.out[l] /\ Len(acc.out) <= Len(g)
          BY <1>1, <2>6, <2>7, <3>1
        <4>2. Complete(acc.out, l)
          BY <2>10, <3>1, <4>1 DEF Open
        <4>3. QED BY <1>1, <2>7, <4>1, <4>2, Longer
      <3>2. QED BY <3>1
    <2>15. ASSUME NEW j \in 1 .. Len(g[a].calls)
           PROVE  g[a].calls[j] \in ToSet(p) \/ \E i \in a + 1 .. Len(g) : g[i].id = g[a].calls[j]
      <3>1. CASE g[a].calls[j] = id
        <4>1. Len(g) \in a + 1 .. Len(g) /\ g[Len(g)].id = id
          BY <1>1, <2>6, <2>7, <2>11
        <4>2. QED BY <3>1, <4>1
      <3>2. CASE g[a].calls[j] \in ToSet(acc.pending) /\ g[a].calls[j] # id
        <4>1. PICK n \in 1 .. Len(acc.pending) : acc.pending[n] = g[a].calls[j]
          BY <1>1, <3>2, InList
        <4>2. n # k
          BY <3>2, <4>1 DEF id
        <4>3. QED BY <2>5, <4>1, <4>2
      <3>3. CASE \E i \in a + 1 .. Len(acc.out) : acc.out[i].id = g[a].calls[j]
        <4>1. PICK i \in a + 1 .. Len(acc.out) : acc.out[i].id = g[a].calls[j]
          BY <3>3
        <4>2. i \in a + 1 .. Len(g) /\ g[i] = acc.out[i]
          BY <1>1, <2>7, <2>11
        <4>3. QED BY <4>1, <4>2
      <3>4. \/ g[a].calls[j] \in ToSet(acc.pending)
            \/ \E i \in a + 1 .. Len(acc.out) : acc.out[i].id = g[a].calls[j]
        BY <2>11
      <3>5. QED BY <3>1, <3>2, <3>3, <3>4
    <2>16. \A i \in a + 1 .. Len(g) : g[i].role = "tool" /\ g[i].id \notin ToSet(p)
      <3>1. \A i \in a + 1 .. Len(acc.out) : g[i].role = "tool" /\ g[i].id \notin ToSet(p)
        BY <1>1, <2>7, <2>11, <2>12, SMTT(30)
      <3>2. \A i \in a + 1 .. Len(g) : i \in a + 1 .. Len(acc.out) \/ i = Len(acc.out) + 1
        BY <1>1, <2>7, <2>11, SMTT(30)
      <3>3. QED BY <2>6, <2>7, <2>12, <3>1, <3>2
    <2>17. /\ a \in 0 .. Len(g) /\ a # 0 /\ Len(g) + Len(p) = a + Len(g[a].calls)
           /\ ToSet(p) \subseteq ToSet(g[a].calls) /\ IsInjective(p) /\ g[a].role = "assistant"
      <3>1. a \in 0 .. Len(g) /\ a # 0
        BY <1>1, <2>7, <2>11
      <3>2. Len(g) + Len(p) = a + Len(g[a].calls)
        <4>1. /\ Len(acc.out) + Len(acc.pending) = a + Len(acc.out[a].calls) /\ a \in Nat
              /\ Len(acc.out[a].calls) \in Nat
          BY <2>11, <2>11a, Zenon
        <4>2. Len(g) = Len(acc.out) + 1 /\ Len(p) = Len(acc.pending) - 1 /\ g[a] = acc.out[a]
          BY <2>5, <2>7, <2>11
        <4>3. Len(g) + Len(p) = Len(acc.out) + Len(acc.pending)
          <5> DEFINE h == acc.out
                     w == acc.pending
          <5>1. /\ Len(h) \in Nat /\ Len(w) \in Nat
                /\ Len(g) = Len(h) + 1 /\ Len(p) = Len(w) - 1
            BY <1>1, <4>2
          <5> HIDE DEF h, w
          <5>2. Len(g) + Len(p) = Len(h) + Len(w)
            BY <5>1
          <5>3. QED BY <5>2 DEF h, w
        <4>4. QED BY <4>1, <4>2, <4>3, Zenon
      <3>3. ToSet(p) \subseteq ToSet(g[a].calls) /\ IsInjective(p) /\ g[a].role = "assistant"
        BY <2>5, <2>11, <2>12
      <3>4. QED BY <3>1, <3>2, <3>3
    <2>18. Open(g, p, a)
      BY <2>13, <2>14, <2>15, <2>16, <2>17 DEF Open
    <2>19. out \in Accs
      BY <1>1, <2>5, <2>7 DEF Accs
    <2>20. InOrder(out)
      BY <2>9, <2>18, <2>19 DEF InOrder
    <2>21. Dropped(p, acc.pending, k)
      BY <2>5 DEF Dropped
    <2>22. QED BY <2>1, <2>2, <2>8, <2>20, <2>21
  <1>4. QED BY <1>2, <1>3

\* The normaliser keeps what it puts out in order, and drops no user's message.
LEMMA LoopInOrder ==
    ASSUME NEW ms \in Seq(Messages), ArePlaced(ms)
    PROVE  \A n \in 0 .. Len(ms) :
              InOrder(Loop(ms)[n]) /\ Count(Loop(ms)[n].out, Users) = CountTo(ms, n, Users)
  <1> DEFINE Ok(n) == InOrder(Loop(ms)[n]) /\ Count(Loop(ms)[n].out, Users) = CountTo(ms, n, Users)
             T == {n \in Nat : Ok(n)}
  <1>1. Len(ms) \in Nat /\ \A n \in 1 .. Len(ms) : ms[n] \in Messages
    OBVIOUS
  <1>2. /\ Loop(ms)[0] = FirstAcc
        /\ \A n \in 1 .. Len(ms) : Loop(ms)[n] = Accept(Loop(ms)[n - 1], ms[n], n)
    BY <1>1, LoopSteps
  <1>3. Ok(0)
    <2>1. FirstAcc \in Accs /\ FirstAcc.out = <<>> /\ FirstAcc.pending = <<>>
      BY DEF FirstAcc, Accs
    <2>2. Open(<<>>, <<>>, 0) /\ AreNamed(<<>>)
      BY DEF Open, Led, AreNamed
    <2>3. Count(<<>>, Users) = 0 /\ CountTo(ms, 0, Users) = 0
      <3>1. Len(<<>>) = 0
        OBVIOUS
      <3>2. QED BY <3>1, CountSteps DEF Count
    <2>4. QED BY <1>2, <2>1, <2>2, <2>3 DEF InOrder
  <1>4. ASSUME NEW n \in 1 .. Len(ms), Ok(n - 1) PROVE Ok(n)
    <2> DEFINE acc == Loop(ms)[n - 1]
               m == ms[n]
               one == IF m \in Users THEN 1 ELSE 0
    <2>1. InOrder(acc) /\ Count(acc.out, Users) = CountTo(ms, n - 1, Users)
      BY <1>4
    <2>2. Loop(ms)[n] = Accept(acc, m, n) /\ m \in Messages
      BY <1>1, <1>2
    <2>3. /\ CountTo(ms, n, Users) = CountTo(ms, n - 1, Users) + one
          /\ CountTo(ms, n - 1, Users) \in Nat
      <3>1. n \in Nat /\ n > 0 /\ n - 1 \in Nat
        BY <1>1
      <3>2. QED BY <3>1, CountSteps
    <2>4. m.role = "assistant" => Placed(m.calls)
      BY <1>1 DEF ArePlaced
    <2>5. n \in Nat \ {0}
      BY <1>1
    <2> HIDE DEF acc, m
    <2>6. CASE m.role = "assistant"
      <3>1. Accept(acc, m, n) = AcceptCalls(acc, m, n)
        BY <2>6 DEF Accept
      <3>2. one = 0
        BY <2>6 DEF Users
      <3>3. QED BY <2>1, <2>2, <2>3, <2>4, <2>5, <2>6, <3>1, <3>2, CallsKeep
    <2>7. CASE m.role = "tool"
      <3>1. Accept(acc, m, n) = AcceptResult(acc, m)
        BY <2>7 DEF Accept
      <3>2. one = 0
        BY <2>7 DEF Users
      <3>3. QED BY <2>1, <2>2, <2>3, <2>7, <3>1, <3>2, ResultKeeps
    <2>8. CASE m.role \notin {"assistant", "tool"}
      <3>1. Accept(acc, m, n) = AcceptOther(acc, m)
        BY <2>8 DEF Accept
      <3>2. QED BY <2>1, <2>2, <2>3, <2>8, <3>1, OtherKeeps
    <2>9. QED BY <2>6, <2>7, <2>8
  <1> HIDE DEF Ok
  <1>5. 0 \in T /\ \A n \in 1 .. Len(ms) : n - 1 \in T => n \in T
    BY <1>1, <1>3, <1>4
  <1> HIDE DEF T
  <1>6. \A n \in 0 .. Len(ms) : n \in T
    BY <1>1, <1>5, UpTo
  <1>7. QED BY <1>6 DEF T, Ok

\* A normalised history: every call has an id of its own and its result.
LEMMA NormalizeIsComplete ==
    ASSUME NEW ms \in Seq(Messages), ArePlaced(ms)
    PROVE  /\ Normalize(ms) \in Seq(Messages) /\ AreNamed(Normalize(ms))
           /\ Open(Normalize(ms), <<>>, 0)
           /\ Count(Normalize(ms), Users) = Count(ms, Users)
           /\ Count(Normalize(ms), Reals) = Count(Loop(ms)[Len(ms)].out, Reals)
  <1> DEFINE acc == Loop(ms)[Len(ms)]
             f == Flush(acc)
  <1>1. Len(ms) \in 0 .. Len(ms)
    OBVIOUS
  <1>2. InOrder(acc) /\ Count(acc.out, Users) = CountTo(ms, Len(ms), Users)
    BY <1>1, LoopInOrder
  <1> HIDE DEF acc
  <1>3. /\ InOrder(f) /\ f.pending = <<>> /\ Count(f.out, Users) = Count(acc.out, Users)
        /\ Count(f.out, Reals) = Count(acc.out, Reals)
    BY <1>2, FlushKeeps
  <1> HIDE DEF f
  <1>4. f.out \in Seq(Messages) /\ AreNamed(f.out) /\ \E a : Open(f.out, <<>>, a)
    BY <1>3 DEF InOrder, Accs
  <1>5. Open(f.out, <<>>, 0)
    BY <1>4, NobodyWaits
  <1>6. Normalize(ms) = f.out
    BY DEF Normalize, f, acc
  <1>7. QED BY <1>2, <1>3, <1>4, <1>5, <1>6 DEF Count, acc

\* Each call hands its id on to the one it has now.
Handed(aliases, cs, ids) ==
    \A c, d : <<c, d>> \in aliases <=> \E j \in 1 .. Len(cs) : c = cs[j] /\ d = ids[j]

\* What waits: the calls of message k that no message up to n answers, under
\* their ids of now.
Left(waiting, h, k, n, ids) ==
    \A x : x \in ToSet(waiting) <=>
       \E j \in 1 .. Len(h[k].calls) :
          x = ids[j] /\ \A l \in k + 1 .. n : h[l].id # h[k].calls[j]

\* What the loop still owes to the last message with calls.
OwingBy(acc, h, n, k, ids) ==
    /\ \A j \in 1 .. Len(h[k].calls) : ids[j] = h[k].calls[j] \/ ids[j] = <<k, j>>
    /\ \A i, j \in 1 .. Len(h[k].calls) : ids[i] = ids[j] => i = j
    /\ Left(acc.pending, h, k, n, ids)
    /\ Handed(acc.aliases, h[k].calls, ids)

Owing(acc, h, n) ==
    \A k \in 1 .. n : h[k].role = "assistant" /\ (\A l \in k + 1 .. n : h[l].role = "tool") =>
        \E ids : OwingBy(acc, h, n, k, ids)

LEMMA NamedAliases ==
    ASSUME NEW aliases, NEW cs \in Seq(AllIds), Named(cs), NEW ids, AliasFirsts(aliases, cs, ids)
    PROVE  Handed(aliases, cs, ids)
  <1>1. ASSUME NEW j \in 1 .. Len(cs) PROVE cs[j] # <<>> /\ \A k \in 1 .. j - 1 : cs[k] # cs[j]
    <2>1. Len(cs) \in Nat /\ DOMAIN cs = 1 .. Len(cs)
      OBVIOUS
    <2>2. cs[j] # <<>>
      BY <2>1 DEF Named
    <2>3. ASSUME NEW k \in 1 .. j - 1 PROVE cs[k] # cs[j]
      <3>1. k \in 1 .. Len(cs) /\ k # j
        BY <2>1
      <3>2. QED BY <2>1, <3>1 DEF Named, IsInjective
    <2>4. QED BY <2>2, <2>3
  <1>2. ASSUME NEW c, NEW d
        PROVE  <<c, d>> \in aliases <=> \E j \in 1 .. Len(cs) : c = cs[j] /\ d = ids[j]
    <2>1. <<c, d>> \in aliases <=>
              \E j \in 1 .. Len(cs) : /\ c = cs[j] /\ d = ids[j] /\ cs[j] # <<>>
                                     /\ \A k \in 1 .. j - 1 : cs[k] # cs[j]
      BY DEF AliasFirsts
    <2>2. QED BY <1>1, <2>1, Zenon
  <1>3. QED BY <1>2 DEF Handed

LEMMA CallsOwe ==
    ASSUME NEW h \in Seq(Messages), AreNamed(h), NEW n \in 1 .. Len(h),
           h[n].role = "assistant", NEW acc, InOrder(acc)
    PROVE  Owing(AcceptCalls(acc, h[n], n), h, n)
  <1> DEFINE m == h[n]
             ids == Renamed(m.calls, acc.used, n)
             L == Len(m.calls)
             new == AcceptCalls(acc, m, n)
  <1>1. m \in Messages /\ n \in Nat \ {0} /\ n \in DOMAIN h
    OBVIOUS
  <1>2. m.calls \in Seq(AllIds) /\ Named(m.calls) /\ Placed(m.calls) /\ IsInjective(m.calls)
        /\ L \in Nat /\ DOMAIN m.calls = 1 .. L
    BY <1>1 DEF AreNamed, Named, Messages, MessagesWith
  <1>3. /\ ids \in Seq(AllIds) /\ Len(ids) = L /\ IsInjective(ids)
        /\ \A j \in 1 .. L : ids[j] = m.calls[j] \/ ids[j] = <<n, j>>
    BY <1>1, <1>2, RenamedIsNamed DEF Named
  <1>4. /\ new.pending = ids
        /\ AliasFirsts(new.aliases, m.calls, ids)
    <2>1. m.role = "assistant"
      OBVIOUS
    <2> HIDE DEF m
    <2>2. AcceptCalls(acc, m, n).pending = Renamed(m.calls, acc.used, n)
      BY <1>1, <1>2, <2>1, CallsKeep
    <2>3. AliasFirsts(AcceptCalls(acc, m, n).aliases, m.calls, Renamed(m.calls, acc.used, n))
      BY <1>1, <1>2, <2>1, CallsKeep
    <2>4. QED BY <2>2, <2>3, Zenon
  <1> HIDE DEF ids, new
  <1>6. Handed(new.aliases, m.calls, ids)
    <2> HIDE DEF m
    <2>1. QED BY <1>2, <1>4, NamedAliases
  <1>7. \A i, j \in 1 .. L : ids[i] = ids[j] => i = j
    BY <1>2, <1>3 DEF IsInjective
  <1>8. Left(new.pending, h, n, n, ids)
    <2>1. \A x : x \in ToSet(new.pending) <=> \E j \in 1 .. L : ids[j] = x
      BY <1>3, <1>4, InList
    <2>2. \A l \in n + 1 .. n : FALSE
      BY <1>1
    <2> HIDE DEF new
    <2>3. QED BY <2>1, <2>2 DEF Left
  <1>9. OwingBy(new, h, n, n, ids)
    BY <1>3, <1>6, <1>7, <1>8 DEF OwingBy
  <1> SUFFICES ASSUME NEW k \in 1 .. n, \A l \in k + 1 .. n : h[l].role = "tool"
               PROVE  \E f : OwingBy(new, h, n, k, f)
    BY DEF Owing, new
  <1>10. k = n
    BY <1>1
  <1>11. QED BY <1>9, <1>10

\* A result that answers a call the loop owes to is taken, and pays for it.
LEMMA ResultPays ==
    ASSUME NEW h \in Seq(Messages), AreNamed(h), Led(h), NEW n \in 1 .. Len(h),
           h[n].role = "tool", NEW acc, InOrder(acc), Owing(acc, h, n - 1)
    PROVE  /\ Answered(acc, h[n].id) # {}
           /\ Owing(AcceptResult(acc, h[n]), h, n)
  <1> DEFINE m == h[n]
             new == AcceptResult(acc, m)
  <1>1. m \in Messages /\ m.role = "tool" /\ n \in Nat /\ acc.pending \in Seq(AllIds)
    BY DEF InOrder, Accs
  <1>2. PICK k \in 1 .. n - 1 : Answers(h, k, n)
    BY DEF Led
  <1> DEFINE cs == h[k].calls
             L == Len(cs)
  <1>3. /\ h[k].role = "assistant" /\ k \in DOMAIN h /\ h[k] \in Messages /\ k \in Nat \ {0}
        /\ m.id \in ToSet(cs)
        /\ (\A l \in k + 1 .. n : h[l].role = "tool")
        /\ \A l \in k + 1 .. n - 1 : h[l].id # m.id
    BY <1>1, <1>2 DEF Answers
  <1>4. cs \in Seq(AllIds) /\ L \in Nat /\ Named(cs)
    <2>1. cs \in Seq(AllIds)
      BY <1>3 DEF Messages, MessagesWith
    <2>2. Named(cs)
      BY <1>3 DEF AreNamed
    <2>3. QED BY <2>1, <2>2
  <1>5. /\ \A i, j \in 1 .. L : cs[i] = cs[j] => i = j
        /\ \A j \in 1 .. L : cs[j] # <<>>
        /\ \A j \in 1 .. L : \A i \in Nat \ {0}, o \in Nat : cs[j] = <<i, o>> => o = j
    BY <1>4, SMTT(30) DEF Named, Placed, IsInjective
  <1>6. PICK ids : OwingBy(acc, h, n - 1, k, ids)
    <2>1. \A l \in k + 1 .. n - 1 : h[l].role = "tool"
      BY <1>1, <1>3, SMTT(30)
    <2>2. QED BY <1>2, <1>3, <2>1 DEF Owing
  <1>6a. /\ \A j \in 1 .. L : ids[j] = cs[j] \/ ids[j] = <<k, j>>
         /\ \A i, j \in 1 .. L : ids[i] = ids[j] => i = j
    BY <1>6 DEF OwingBy
  <1>6b. \A x : x \in ToSet(acc.pending) <=>
             \E j \in 1 .. L : x = ids[j] /\ \A l \in k + 1 .. n - 1 : h[l].id # cs[j]
    BY <1>6, Zenon DEF OwingBy, Left
  <1>6c. \A c, d : <<c, d>> \in acc.aliases <=> \E j \in 1 .. L : c = cs[j] /\ d = ids[j]
    BY <1>6, Zenon DEF OwingBy, Handed
  <1> HIDE DEF cs, L, new, m
  <1>7. PICK o \in 1 .. L : cs[o] = m.id
    <2>1. m.id \in ToSet(cs) /\ cs \in Seq(AllIds)
      BY <1>3, <1>4
    <2>2. \E o \in 1 .. Len(cs) : cs[o] = m.id
      BY <2>1, InList
    <2>3. QED BY <2>2 DEF L
  <1>8. ids[o] \in ToSet(acc.pending)
    BY <1>3, <1>6b, <1>7
  <1>9. ASSUME m.id \in ToSet(acc.pending) PROVE ids[o] = m.id
    <2>1. PICK j \in 1 .. L : m.id = ids[j]
      BY <1>6b, <1>9
    <2>2. j = o
      <3>1. CASE ids[j] = cs[j]
        BY <1>5, <1>7, <2>1, <3>1
      <3>2. CASE ids[j] = <<k, j>>
        <4>1. cs[o] = <<k, j>> /\ j \in Nat
          BY <1>4, <1>7, <2>1, <3>2
        <4>2. QED BY <1>3, <1>5, <1>7, <4>1
      <3>3. QED BY <1>6a, <3>1, <3>2
    <2>3. QED BY <2>1, <2>2
  <1>10. m.id # <<>>
    BY <1>5, <1>7
  <1>11. \A q \in 1 .. Len(acc.pending) : q \in Answered(acc, m.id) <=> acc.pending[q] = ids[o]
    <2> SUFFICES ASSUME NEW q \in 1 .. Len(acc.pending)
                 PROVE  q \in Answered(acc, m.id) <=> acc.pending[q] = ids[o]
      OBVIOUS
    <2>1. q \in DOMAIN acc.pending
      BY <1>1
    <2>2. CASE m.id \in ToSet(acc.pending)
      BY <1>9, <2>1, <2>2 DEF Answered
    <2>3. CASE m.id \notin ToSet(acc.pending)
      <3>1. q \in Answered(acc, m.id) <=> <<m.id, acc.pending[q]>> \in acc.aliases
        BY <1>10, <2>1, <2>3 DEF Answered
      <3>2. <<m.id, acc.pending[q]>> \in acc.aliases <=>
                \E j \in 1 .. L : m.id = cs[j] /\ acc.pending[q] = ids[j]
        BY <1>6c
      <3>3. \A j \in 1 .. L : m.id = cs[j] <=> j = o
        BY <1>5, <1>7
      <3>4. QED BY <1>7, <3>1, <3>2, <3>3, Zenon
    <2>4. QED BY <2>2, <2>3
  <1>12. Answered(acc, m.id) # {}
    BY <1>1, <1>8, <1>11, InList
  <1>13. /\ new.aliases = acc.aliases
         /\ \E q \in Answered(acc, m.id) : Dropped(new.pending, acc.pending, q)
    BY <1>1, <1>12, ResultKeeps DEF new
  <1>14. PICK q \in Answered(acc, m.id) : Dropped(new.pending, acc.pending, q)
    BY <1>13
  <1>15. q \in 1 .. Len(acc.pending) /\ acc.pending[q] = ids[o]
    BY <1>1, <1>11 DEF Answered
  <1>16. \A i, j \in 1 .. Len(acc.pending) : acc.pending[i] = acc.pending[j] => i = j
    <2>1. PICK a : Open(acc.out, acc.pending, a)
      BY DEF InOrder
    <2>2. acc.pending # <<>>
      BY <1>1, <1>15
    <2>3. a # 0 /\ a \in 0 .. Len(acc.out)
      BY <2>1, <2>2 DEF Open
    <2>4. acc.out \in Seq(Messages)
      BY DEF InOrder, Accs
    <2>5. IsInjective(acc.pending)
      <3>1. a > 0
        BY <2>3, <2>4
      <3>2. QED BY <2>1, <3>1 DEF Open
    <2>6. QED BY <1>1, <2>5 DEF IsInjective
  <1>17. \A x : x \in ToSet(new.pending) <=> x \in ToSet(acc.pending) /\ x # ids[o]
    <2> SUFFICES ASSUME NEW x
                 PROVE  x \in ToSet(new.pending) <=> x \in ToSet(acc.pending) /\ x # ids[o]
      OBVIOUS
    <2>1. x \in ToSet(acc.pending) <=> \E j \in 1 .. Len(acc.pending) : acc.pending[j] = x
      BY <1>1, InList
    <2>2. x \in ToSet(new.pending) <=>
              \E j \in 1 .. Len(acc.pending) : j # q /\ acc.pending[j] = x
      BY <1>14 DEF Dropped
    <2>3. \A j \in 1 .. Len(acc.pending) : j # q <=> acc.pending[j] # ids[o]
      BY <1>15, <1>16
    <2>4. QED BY <2>1, <2>2, <2>3, Zenon
  <1>18. \A x : x \in ToSet(new.pending) <=>
             \E j \in 1 .. L : x = ids[j] /\ \A l \in k + 1 .. n : h[l].id # cs[j]
    <2>1. \A j \in 1 .. L : (\A l \in k + 1 .. n : h[l].id # cs[j]) <=>
              (\A l \in k + 1 .. n - 1 : h[l].id # cs[j]) /\ j # o
      <3> SUFFICES ASSUME NEW j \in 1 .. L
                   PROVE  (\A l \in k + 1 .. n : h[l].id # cs[j]) <=>
                             (\A l \in k + 1 .. n - 1 : h[l].id # cs[j]) /\ j # o
        OBVIOUS
      <3>1. h[n].id = cs[o]
        BY <1>7 DEF m
      <3>2. n \in k + 1 .. n
        BY <1>1, <1>2
      <3>3. \A l : l \in k + 1 .. n <=> l \in k + 1 .. n - 1 \/ l = n
        BY <1>1, <1>2
      <3>4. cs[o] = cs[j] <=> j = o
        BY <1>5, <1>7
      <3>5. QED BY <3>1, <3>2, <3>3, <3>4, Zenon
    <2>2. ASSUME NEW x
          PROVE  x \in ToSet(new.pending) <=>
                     \E j \in 1 .. L : x = ids[j] /\ \A l \in k + 1 .. n : h[l].id # cs[j]
      <3>1. x \in ToSet(acc.pending) <=>
                \E j \in 1 .. L : x = ids[j] /\ \A l \in k + 1 .. n - 1 : h[l].id # cs[j]
        BY <1>6b
      <3>2. \A j \in 1 .. L : ids[j] = ids[o] <=> j = o
        BY <1>6a, <1>7
      <3>3. QED BY <1>17, <2>1, <3>1, <3>2, Zenon
    <2>3. QED BY <2>2
  <1>19. OwingBy(new, h, n, k, ids)
    <2>1. Left(new.pending, h, k, n, ids)
      BY <1>18, Zenon DEF Left, cs, L
    <2>2. QED BY <1>6, <1>13, <2>1 DEF OwingBy
  <1>20. ASSUME NEW b \in 1 .. n, h[b].role = "assistant",
                \A l \in b + 1 .. n : h[l].role = "tool"
         PROVE  b = k
    <2>1. ~ (b \in k + 1 .. n) /\ ~ (k \in b + 1 .. n)
      BY <1>3, <1>20
    <2>2. QED BY <1>1, <1>2, <2>1
  <1>21. QED BY <1>12, <1>19, <1>20 DEF Owing, new, m

\* What leads and is named is a history of turns: none of its results is
\* dropped.
LEMMA NormalizeKeepsResults ==
    ASSUME NEW h \in Seq(Messages), AreNamed(h), Led(h)
    PROVE  Count(Normalize(h), Reals) = Count(h, Reals)
  <1> DEFINE Ok(n) == Count(Loop(h)[n].out, Reals) = CountTo(h, n, Reals) /\ Owing(Loop(h)[n], h, n)
             T == {n \in Nat : Ok(n)}
  <1>1. Len(h) \in Nat /\ (\A n \in 1 .. Len(h) : h[n] \in Messages) /\ ArePlaced(h)
    BY DEF AreNamed, ArePlaced, Named
  <1>2. /\ Loop(h)[0] = FirstAcc
        /\ \A n \in 1 .. Len(h) : Loop(h)[n] = Accept(Loop(h)[n - 1], h[n], n)
    BY <1>1, LoopSteps
  <1>3. \A n \in 0 .. Len(h) : InOrder(Loop(h)[n])
    BY <1>1, LoopInOrder
  <1>4. Ok(0)
    <2>1. Len(<<>>) = 0 /\ FirstAcc.out = <<>>
      BY DEF FirstAcc
    <2>2. Count(<<>>, Reals) = 0 /\ CountTo(h, 0, Reals) = 0
      BY <2>1, CountSteps DEF Count
    <2>3. Owing(FirstAcc, h, 0)
      BY DEF Owing
    <2>4. QED BY <1>2, <2>1, <2>2, <2>3
  <1>5. ASSUME NEW n \in 1 .. Len(h), Ok(n - 1) PROVE Ok(n)
    <2> DEFINE acc == Loop(h)[n - 1]
               m == h[n]
               one == IF m \in Reals THEN 1 ELSE 0
    <2>1. /\ InOrder(acc) /\ Count(acc.out, Reals) = CountTo(h, n - 1, Reals)
          /\ Owing(acc, h, n - 1)
      <3>1. n - 1 \in 0 .. Len(h)
        BY <1>1
      <3>2. QED BY <1>3, <1>5, <3>1
    <2>2. Loop(h)[n] = Accept(acc, m, n) /\ m \in Messages /\ n \in Nat \ {0} /\ n \in DOMAIN h
      BY <1>1, <1>2
    <2>3. CountTo(h, n, Reals) = CountTo(h, n - 1, Reals) + one /\ CountTo(h, n - 1, Reals) \in Nat
      <3>1. n \in Nat /\ n > 0 /\ n - 1 \in Nat
        BY <1>1
      <3>2. QED BY <3>1, CountSteps
    <2> HIDE DEF acc
    <2>4. CASE m.role = "assistant"
      <3>1. Accept(acc, m, n) = AcceptCalls(acc, m, n) /\ Placed(m.calls)
        BY <1>1, <2>2, <2>4 DEF Accept, ArePlaced
      <3>2. Owing(AcceptCalls(acc, m, n), h, n)
        BY <2>1, <2>4, CallsOwe
      <3>3. one = 0
        BY <2>4 DEF Reals
      <3> HIDE DEF m
      <3>4. Count(AcceptCalls(acc, m, n).out, Reals) = Count(acc.out, Reals)
        BY <2>1, <2>2, <2>4, <3>1, CallsKeep
      <3>5. QED BY <2>1, <2>2, <2>3, <3>1, <3>2, <3>3, <3>4
    <2>5. CASE m.role = "tool"
      <3>1. Accept(acc, m, n) = AcceptResult(acc, m)
        BY <2>5 DEF Accept
      <3>2. Answered(acc, m.id) # {} /\ Owing(AcceptResult(acc, m), h, n)
        BY <2>1, <2>5, ResultPays
      <3> HIDE DEF m
      <3>3. one = IF m.real THEN 1 ELSE 0
        BY <2>2, <2>5 DEF Reals
      <3>4. Count(AcceptResult(acc, m).out, Reals) = Count(acc.out, Reals) + one
        BY <2>1, <2>2, <2>5, <3>2, <3>3, ResultKeeps
      <3>5. QED BY <2>1, <2>2, <2>3, <3>1, <3>2, <3>4
    <2>6. CASE m.role \notin {"assistant", "tool"}
      <3>1. Accept(acc, m, n) = AcceptOther(acc, m)
        BY <2>6 DEF Accept
      <3>2. Owing(AcceptOther(acc, m), h, n)
        <4> SUFFICES ASSUME NEW k \in 1 .. n, h[k].role = "assistant",
                            \A l \in k + 1 .. n : h[l].role = "tool"
                     PROVE  FALSE
          BY DEF Owing
        <4>1. k # n
          BY <2>6
        <4>2. n \in k + 1 .. n
          BY <2>2, <4>1
        <4>3. QED BY <2>6, <4>2
      <3>3. one = 0
        BY <2>6 DEF Reals
      <3> HIDE DEF m
      <3>4. Count(AcceptOther(acc, m).out, Reals) = Count(acc.out, Reals)
        BY <2>1, <2>2, <2>6, OtherKeeps
      <3>5. QED BY <2>1, <2>2, <2>3, <3>1, <3>2, <3>3, <3>4
    <2>7. QED BY <2>4, <2>5, <2>6
  <1> HIDE DEF Ok
  <1>6. 0 \in T /\ \A n \in 1 .. Len(h) : n - 1 \in T => n \in T
    BY <1>1, <1>4, <1>5
  <1> HIDE DEF T
  <1>7. Len(h) \in T
    <2>1. \A n \in 0 .. Len(h) : n \in T
      BY <1>1, <1>6, UpTo
    <2>2. QED BY <1>1, <2>1
  <1>8. Count(Loop(h)[Len(h)].out, Reals) = Count(h, Reals)
    BY <1>7 DEF T, Ok, Count
  <1>9. QED BY <1>1, <1>8, NormalizeIsComplete

-----------------------------------------------------------------------------
(* The ids of a provider's answer. *)

Made(j, n) == IF n = 0 THEN <<0, j>> ELSE <<0, j, n>>

\* So many ids are made for a call that one of them is not taken.
LEMMA OneIsFree ==
    ASSUME NEW j \in Nat \ {0}, NEW f
    PROVE  \E n \in 0 .. j : Made(j, n) \notin {f[k] : k \in 1 .. j - 1}
  <1> DEFINE taken == {f[k] : k \in 1 .. j - 1}
  <1> SUFFICES ASSUME \A n \in 0 .. j : Made(j, n) \in taken
               PROVE  FALSE
    OBVIOUS
  <1> DEFINE g == [k \in 1 .. j - 1 |-> f[k]]
             h == [n \in 0 .. j |-> Made(j, n)]
  <1>1. IsFiniteSet(1 .. j - 1) /\ Cardinality(1 .. j - 1) = j - 1
    BY FS_Interval
  <1>2. g \in Surjection(1 .. j - 1, taken)
    BY DEF Surjection
  <1>3. IsFiniteSet(taken) /\ Cardinality(taken) <= j - 1 /\ Cardinality(taken) \in Nat
    <2> HIDE DEF g, taken
    <2>1. QED BY <1>1, <1>2, FS_Surjection, FS_CardinalityType
  <1>4. h \in Injection(0 .. j, taken)
    <2>1. \A n, m \in 0 .. j : Made(j, n) = Made(j, m) => n = m
      BY DEF Made
    <2> HIDE DEF taken
    <2>2. QED BY <2>1 DEF Injection, IsInjective
  <1>5. Cardinality(0 .. j) = j + 1
    <2>1. 0 \in Int /\ j \in Int /\ ~ (0 > j) /\ j - 0 + 1 = j + 1
      OBVIOUS
    <2>2. Cardinality(0 .. j) = IF 0 > j THEN 0 ELSE j - 0 + 1
      BY <2>1, FS_Interval
    <2>3. QED BY <2>1, <2>2
  <1>6. Cardinality(0 .. j) <= Cardinality(taken)
    <2> HIDE DEF taken, h
    <2>1. QED BY <1>3, <1>4, FS_Injection
  <1>7. QED BY <1>3, <1>5, <1>6

LEMMA LocalSteps ==
    ASSUME NEW cs, NEW L \in Nat, DOMAIN cs = 1 .. L
    PROVE  /\ DOMAIN LocalIds(cs) = 1 .. L
           /\ LocalIds(cs) = [j \in 1 .. L |-> LocalIds(cs)[j]]
           /\ \A j \in 1 .. L : LocalIds(cs)[j] =
                 LET taken == {LocalIds(cs)[k] : k \in 1 .. j - 1} IN
                 IF cs[j] = <<>> \/ cs[j] \in taken
                 THEN Made(j, CHOOSE n \in 0 .. j : Made(j, n) \notin taken)
                 ELSE cs[j]
  <1> DEFINE Taken(f, j) == {f[k] : k \in 1 .. j - 1}
             Body(f, j) == IF cs[j] = <<>> \/ cs[j] \in Taken(f, j)
                           THEN Made(j, CHOOSE n \in 0 .. j : Made(j, n) \notin Taken(f, j))
                           ELSE cs[j]
             Unrolls(f, n) == f = [j \in 1 .. n |-> Body(f, j)]
             T == {n \in 0 .. L : ~ \E f : Unrolls(f, n)}
  <1>1. ASSUME T # {} PROVE FALSE
    <2>1. PICK n \in T : \A m \in T : n <= m
      <3>1. T \in SUBSET Nat
        OBVIOUS
      <3> HIDE DEF T
      <3>2. QED BY <1>1, <3>1, LeastNumber
    <2>2. n \in 0 .. L /\ ~ \E f : Unrolls(f, n)
      OBVIOUS
    <2>3. CASE n = 0
      <3> DEFINE f == [j \in 1 .. 0 |-> <<>>]
      <3>1. Unrolls(f, 0)
        OBVIOUS
      <3>2. QED BY <2>2, <2>3, <3>1
    <2>4. CASE n # 0
      <3>1. n - 1 \in 0 .. L /\ n - 1 \notin T /\ n \in 1 .. L
        <4> HIDE DEF T
        <4>1. QED BY <2>1, <2>2, <2>4
      <3>2. PICK f : Unrolls(f, n - 1)
        BY <3>1
      <3> DEFINE g == [j \in 1 .. n |-> IF j < n THEN f[j] ELSE Body(f, n)]
      <3>3. ASSUME NEW j \in 1 .. n PROVE g[j] = Body(g, j)
        <4>1. \A k \in 1 .. j - 1 : g[k] = f[k]
          BY <3>1
        <4>2. Body(g, j) = Body(f, j)
          <5>1. Taken(g, j) = Taken(f, j)
            BY <4>1
          <5> HIDE DEF Taken, g
          <5>2. QED BY <5>1
        <4>3. g[j] = Body(f, j)
          <5>1. CASE j = n
            <6> HIDE DEF Body
            <6>1. QED BY <3>1, <5>1
          <5>2. CASE j # n
            <6>1. j \in 1 .. n - 1 /\ g[j] = f[j]
              BY <3>1, <5>2
            <6> HIDE DEF Body, g
            <6>2. QED BY <3>2, <6>1
          <5>3. QED BY <5>1, <5>2
        <4> HIDE DEF Body, g
        <4>4. QED BY <4>2, <4>3
      <3>4. Unrolls(g, n)
        <4> HIDE DEF Body
        <4>1. QED BY <3>3
      <3>5. QED BY <2>2, <3>4
    <2>5. QED BY <2>3, <2>4
  <1>2. \E f : Unrolls(f, L)
    <2>1. L \notin T /\ L \in 0 .. L
      <3> HIDE DEF T
      <3>1. QED BY <1>1
    <2> HIDE DEF Unrolls
    <2>2. QED BY <2>1
  <1>3. Unrolls(LocalIds(cs), L)
    BY <1>2 DEF LocalIds, Made
  <1>4. QED BY <1>3

\* No id from outside has the form of those the normaliser makes.
NoMadeIds == \A i \in Nat \ {0}, j \in Nat : <<i, j>> \notin GivenIds

LEMMA LocalIsNamed ==
    ASSUME NoMadeIds, NEW cs \in Seq(GivenIds)
    PROVE  /\ LocalIds(cs) \in Seq(AllIds) /\ Len(LocalIds(cs)) = Len(cs)
           /\ Named(LocalIds(cs))
  <1> DEFINE ids == LocalIds(cs)
             L == Len(cs)
             Taken(j) == {ids[k] : k \in 1 .. j - 1}
             Free(j) == CHOOSE n \in 0 .. j : Made(j, n) \notin Taken(j)
  <1>1. L \in Nat /\ DOMAIN cs = 1 .. L /\ \A j \in 1 .. L : cs[j] \in GivenIds
    OBVIOUS
  <1>2. /\ DOMAIN ids = 1 .. L /\ ids = [j \in 1 .. L |-> ids[j]]
        /\ \A j \in 1 .. L : ids[j] =
              IF cs[j] = <<>> \/ cs[j] \in Taken(j) THEN Made(j, Free(j)) ELSE cs[j]
    <2> HIDE DEF L
    <2>1. QED BY <1>1, LocalSteps
  <1> HIDE DEF ids, L
  <1>3. ASSUME NEW j \in 1 .. L PROVE Free(j) \in 0 .. j /\ Made(j, Free(j)) \notin Taken(j)
    <2>1. j \in Nat \ {0}
      BY <1>1
    <2>2. QED BY <2>1, OneIsFree
  <1>4. ASSUME NEW j \in 1 .. L
        PROVE  /\ ids[j] \in AllIds /\ ids[j] # <<>> /\ ids[j] \notin Taken(j)
               /\ \A i \in Nat \ {0}, n \in Nat : ids[j] # <<i, n>>
    <2> HIDE DEF Taken
    <2>1. CASE cs[j] = <<>> \/ cs[j] \in Taken(j)
      <3> DEFINE n == Free(j)
      <3>1. n \in Nat /\ j \in Nat /\ ids[j] = Made(j, n) /\ ids[j] \notin Taken(j)
        BY <1>1, <1>2, <1>3, <2>1
      <3> HIDE DEF n
      <3>2. Made(j, n) \in AllIds /\ Made(j, n) # <<>>
        BY <3>1 DEF Made, AllIds
      <3>3. \A i \in Nat \ {0}, o \in Nat : Made(j, n) # <<i, o>>
        BY <3>1 DEF Made
      <3>4. QED BY <3>1, <3>2, <3>3
    <2>2. CASE ~ (cs[j] = <<>> \/ cs[j] \in Taken(j))
      <3>1. ids[j] = cs[j] /\ cs[j] \in GivenIds
        BY <1>1, <1>2, <2>2
      <3>2. QED BY <2>2, <3>1 DEF NoMadeIds, AllIds
    <2>3. QED BY <2>1, <2>2
  <1>5. ASSUME NEW j \in 1 .. L, NEW k \in 1 .. j - 1 PROVE ids[j] # ids[k]
    BY <1>4
  <1>6. IsInjective(ids)
    <2> SUFFICES ASSUME NEW j \in 1 .. L, NEW k \in 1 .. L, ids[j] = ids[k]
                 PROVE  j = k
      BY <1>2 DEF IsInjective
    <2>1. ~ (k < j) /\ ~ (j < k)
      BY <1>1, <1>5
    <2>2. QED BY <1>1, <2>1
  <1>7. Placed(ids)
    BY <1>2, <1>4 DEF Placed
  <1>8. ids \in Seq(AllIds) /\ Len(ids) = L
    BY <1>1, <1>2, <1>4
  <1>9. QED BY <1>2, <1>4, <1>6, <1>7, <1>8 DEF Named, ids, L

-----------------------------------------------------------------------------
(* What a turn starts from. *)

LEMMA LedAppends ==
    ASSUME NEW h \in Seq(Messages), Led(h), NEW m \in Messages, m.role # "tool"
    PROVE  Led(Append(h, m))
  <1> DEFINE g == Append(h, m)
  <1>1. /\ g \in Seq(Messages) /\ Len(h) \in Nat /\ Len(g) = Len(h) + 1 /\ g[Len(h) + 1] = m
        /\ \A i \in 1 .. Len(h) : g[i] = h[i]
    OBVIOUS
  <1> HIDE DEF g
  <1> SUFFICES ASSUME NEW i \in 1 .. Len(g), g[i].role = "tool"
               PROVE  \E k \in 1 .. i - 1 : Answers(g, k, i)
    BY DEF Led, g
  <1>2. i \in 1 .. Len(h) /\ h[i].role = "tool"
    BY <1>1
  <1>3. PICK k \in 1 .. i - 1 : Answers(h, k, i)
    BY <1>2 DEF Led
  <1>4. k \in Nat /\ Len(h) <= Len(g)
    BY <1>1, <1>2
  <1>5. Answers(g, k, i)
    BY <1>1, <1>2, <1>3, <1>4, Longer
  <1>6. QED BY <1>5

LEMMA NamedAppends ==
    ASSUME NEW h \in Seq(Messages), NEW m \in Messages
    PROVE  /\ AreNamed(h) /\ (m.role = "assistant" => Named(m.calls)) => AreNamed(Append(h, m))
           /\ ArePlaced(h) /\ (m.role = "assistant" => Placed(m.calls)) => ArePlaced(Append(h, m))
  <1>1. /\ DOMAIN Append(h, m) = 1 .. Len(h) + 1 /\ DOMAIN h = 1 .. Len(h) /\ Len(h) \in Nat
        /\ Append(h, m)[Len(h) + 1] = m /\ \A i \in 1 .. Len(h) : Append(h, m)[i] = h[i]
    OBVIOUS
  <1>2. \A i \in 1 .. Len(h) + 1 : i \in 1 .. Len(h) \/ i = Len(h) + 1
    BY <1>1
  <1>3. QED BY <1>1, <1>2, Zenon DEF AreNamed, ArePlaced

\* A system prompt in front changes nothing.
LEMMA PromptKeeps ==
    ASSUME NEW h \in Seq(Messages)
    PROVE  /\ <<System>> \o h \in Seq(Messages)
           /\ ArePlaced(h) => ArePlaced(<<System>> \o h)
           /\ AreNamed(h) => AreNamed(<<System>> \o h)
           /\ Led(h) => Led(<<System>> \o h)
           /\ Count(<<System>> \o h, Users) = Count(h, Users)
           /\ Count(<<System>> \o h, Reals) = Count(h, Reals)
  <1> DEFINE x == System
             g == <<x>> \o h
  <1>1. x \in Messages /\ x.role = "system"
    BY Forms
  <1> HIDE DEF x
  <1>2. /\ g \in Seq(Messages) /\ Len(h) \in Nat /\ Len(g) = Len(h) + 1
        /\ DOMAIN g = 1 .. Len(h) + 1
        /\ DOMAIN h = 1 .. Len(h)
        /\ g[1] = x /\ \A i \in 1 .. Len(h) : g[i + 1] = h[i]
    BY <1>1
  <1>3. Count(g, Users) = Count(h, Users) /\ Count(g, Reals) = Count(h, Reals)
    <2>1. x \notin Users /\ x \notin Reals
      BY <1>1 DEF Users, Reals
    <2>2. QED BY <1>1, <2>1, CountPrepend
  <1> HIDE DEF g
  <1>4. \A i \in 1 .. Len(h) + 1 : i = 1 \/ (i - 1 \in 1 .. Len(h) /\ g[i] = h[i - 1])
    <2> SUFFICES ASSUME NEW i \in 1 .. Len(h) + 1, i # 1
                 PROVE  i - 1 \in 1 .. Len(h) /\ g[i] = h[i - 1]
      OBVIOUS
    <2>1. i - 1 \in 1 .. Len(h) /\ (i - 1) + 1 = i
      BY <1>2
    <2>2. QED BY <1>2, <2>1
  <1>5. (ArePlaced(h) => ArePlaced(g)) /\ (AreNamed(h) => AreNamed(g))
    <2>1. \A i \in DOMAIN g : g[i].role = "assistant" =>
              i - 1 \in DOMAIN h /\ h[i - 1].role = "assistant" /\ g[i].calls = h[i - 1].calls
      BY <1>1, <1>2, <1>4
    <2>2. QED BY <2>1 DEF ArePlaced, AreNamed
  <1>6. ASSUME Led(h) PROVE Led(g)
    <2> SUFFICES ASSUME NEW i \in 1 .. Len(g), g[i].role = "tool"
                 PROVE  \E k \in 1 .. i - 1 : Answers(g, k, i)
      BY DEF Led
    <2>1. i - 1 \in 1 .. Len(h) /\ g[i] = h[i - 1]
      BY <1>1, <1>2, <1>4
    <2>2. PICK k \in 1 .. (i - 1) - 1 : Answers(h, k, i - 1)
      BY <1>6, <2>1 DEF Led
    <2>3. k \in 1 .. Len(h) /\ k + 1 \in 1 .. i - 1 /\ g[k + 1] = h[k]
      BY <1>2, <2>1
    <2>4. /\ h[k].role = "assistant" /\ i - 1 <= k + Len(h[k].calls)
          /\ \A l \in k + 1 .. i - 1 : h[l].role = "tool"
          /\ h[i - 1].id \in ToSet(h[k].calls)
          /\ \A l \in k + 1 .. (i - 1) - 1 : h[l].id # h[i - 1].id
      BY <2>2 DEF Answers
    <2>5. \A l \in (k + 1) + 1 .. i : g[l] = h[l - 1] /\ l - 1 \in k + 1 .. i - 1
      BY <1>2, <1>4, <2>1, <2>3
    <2>6. \A l \in (k + 1) + 1 .. i - 1 : g[l] = h[l - 1] /\ l - 1 \in k + 1 .. (i - 1) - 1
      BY <1>2, <1>4, <2>1, <2>3
    <2>7. i <= (k + 1) + Len(g[k + 1].calls)
      <3>1. h[k] \in Messages
        BY <2>3
      <3>2. Len(h[k].calls) \in Nat
        BY <3>1 DEF Messages, MessagesWith
      <3> DEFINE c == Len(h[k].calls)
      <3>3. c \in Nat /\ i - 1 <= k + c /\ k \in Nat /\ i \in Nat
        BY <1>2, <2>1, <2>3, <2>4, <3>2
      <3> HIDE DEF c
      <3>4. i <= (k + 1) + c
        BY <3>3
      <3>5. QED BY <2>3, <3>4 DEF c
    <2>8. Answers(g, k + 1, i)
      BY <2>1, <2>3, <2>4, <2>5, <2>6, <2>7 DEF Answers
    <2>9. QED BY <2>3, <2>8
  <1>7. QED BY <1>2, <1>3, <1>5, <1>6 DEF g, x

-----------------------------------------------------------------------------
(* The turns. *)

\* What is stored and loaded has its form, and no made id stands elsewhere
\* than it says.
FormInv ==
    /\ session \in Sessions \cup {NoSession}
    /\ turn \in [pc : {"idle", "ask", "tools", "save"}, stored : Sessions \cup {NoSession},
                 history : Seq(Messages), round : Nat, failed : Nat]
    /\ edit \in [pc : {"idle", "write"}, record : Sessions \cup {NoSession}]
    /\ edit.pc = "write" => edit.record # NoSession /\ ArePlaced(edit.record.messages)
    /\ kept \in Nat
    /\ session # NoSession => ArePlaced(session.messages)

\* A session that was not renamed has the turns answered since it was created,
\* and what turns leave is a history whose results all answer calls.
SessionInv ==
    /\ session = NoSession => kept = 0
    /\ session # NoSession /\ session.title = "first" =>
          /\ Count(session.messages, Users) >= kept
          /\ kept > 0 => AreNamed(session.messages) /\ Led(session.messages)

\* So does the history of a turn, which has one message more; the calls of its
\* last answer wait while they run, and none while the provider is asked.
HistoryInv ==
    /\ turn.pc # "idle" =>
          /\ AreNamed(turn.history) /\ Led(turn.history)
          /\ Title = "first" => Count(turn.history, Users) >= kept + 1
    /\ turn.pc = "ask" => Open(turn.history, <<>>, 0)
    /\ turn.pc = "tools" =>
          Len(turn.history) > 0 /\ Open(turn.history, Asked, Len(turn.history))
    /\ /\ turn.pc = "ask" /\ turn.round = 0 /\ kept > 0
       /\ turn.stored # NoSession /\ turn.stored.title = "first"
       => Count(turn.history, Reals) = Count(turn.stored.messages, Reals)

TurnInv == FormInv /\ SessionInv /\ HistoryInv

Headed(h, prompt) == IF prompt /\ System \notin ToSet(h) THEN <<System>> \o h ELSE h

LEMMA TurnBegins ==
    ASSUME NEW h \in Seq(Messages), ArePlaced(h), NEW prompt
    PROVE  LET history == Normalize(Append(Headed(h, prompt), User)) IN
           /\ history \in Seq(Messages) /\ AreNamed(history) /\ Open(history, <<>>, 0)
           /\ Count(history, Users) = Count(h, Users) + 1
           /\ AreNamed(h) /\ Led(h) => Count(history, Reals) = Count(h, Reals)
  <1> DEFINE g == Headed(h, prompt)
             ms == Append(g, User)
  <1>1. /\ g \in Seq(Messages) /\ ArePlaced(g) /\ Count(g, Users) = Count(h, Users)
        /\ Count(g, Reals) = Count(h, Reals)
        /\ AreNamed(h) /\ Led(h) => AreNamed(g) /\ Led(g)
    BY PromptKeeps DEF Headed
  <1>2. User \in Messages /\ User.role = "user" /\ User \in Users /\ User \notin Reals
    BY Forms DEF Users, Reals
  <1> HIDE DEF g
  <1>3. /\ ms \in Seq(Messages) /\ ArePlaced(ms)
        /\ Count(ms, Users) = Count(h, Users) + 1
        /\ AreNamed(h) /\ Led(h) => AreNamed(ms) /\ Led(ms)
    BY <1>1, <1>2, CountAppend, NamedAppends, LedAppends
  <1>4. Count(ms, Reals) = Count(h, Reals)
    <2>1. Count(g, Reals) \in Nat
      BY <1>1, CountSteps DEF Count
    <2>2. Count(ms, Reals) = Count(g, Reals) + 0
      BY <1>1, <1>2, CountAppend
    <2>3. QED BY <1>1, <2>1, <2>2
  <1> HIDE DEF ms
  <1>5. /\ Normalize(ms) \in Seq(Messages) /\ AreNamed(Normalize(ms))
        /\ Open(Normalize(ms), <<>>, 0) /\ Count(Normalize(ms), Users) = Count(ms, Users)
    BY <1>3, NormalizeIsComplete
  <1>6. AreNamed(ms) /\ Led(ms) => Count(Normalize(ms), Reals) = Count(ms, Reals)
    BY <1>3, NormalizeKeepsResults
  <1>7. QED BY <1>3, <1>4, <1>5, <1>6 DEF ms, g

\* An answer at the end of a history that leads.
LEMMA TextAppends ==
    ASSUME NEW h \in Seq(Messages), Led(h), AreNamed(h)
    PROVE  /\ Append(h, Text) \in Seq(Messages) /\ Led(Append(h, Text)) /\ AreNamed(Append(h, Text))
           /\ Count(Append(h, Text), Users) = Count(h, Users)
  <1>1. Text \in Messages /\ Text.role = "assistant" /\ Text.calls = <<>> /\ Text \notin Users
    BY Forms DEF Users
  <1>2. Named(<<>>)
    BY DEF Named, Placed, IsInjective
  <1>3. Count(h, Users) \in Nat /\ Append(h, Text) \in Seq(Messages)
    BY <1>1, CountSteps DEF Count
  <1>4. QED BY <1>1, <1>2, <1>3, CountAppend, LedAppends, NamedAppends

LEMMA TurnInvInit ==
    ASSUME NoMadeIds, TurnInit
    PROVE  TurnInv
  <1>1. ASSUME NEW h \in Imported PROVE h \in Seq(Messages) /\ ArePlaced(h)
    <2>1. h \in Seq(MessagesWith(GivenIds)) /\ GivenIds \subseteq AllIds
      BY MessagesAssumption DEF AllIds
    <2>2. Seq(GivenIds) \subseteq Seq(AllIds)
      BY <2>1
    <2>3. MessagesWith(GivenIds) \subseteq Messages
      BY <2>1, <2>2 DEF MessagesWith, Messages
    <2>4. h \in Seq(Messages)
      BY <2>1, <2>3
    <2>5. ASSUME NEW i \in DOMAIN h PROVE Placed(h[i].calls)
      <3>1. h[i].calls \in Seq(GivenIds)
        <4>1. h[i] \in MessagesWith(GivenIds)
          BY <2>1
        <4>2. QED BY <4>1 DEF MessagesWith
      <3> DEFINE cs == h[i].calls
      <3>2. \A j \in DOMAIN cs : cs[j] \in GivenIds
        BY <3>1
      <3> HIDE DEF cs
      <3>3. Placed(cs)
        BY <3>2 DEF NoMadeIds, Placed
      <3>4. QED BY <3>3 DEF cs
    <2>6. QED BY <2>4, <2>5 DEF ArePlaced
  <1>2. CASE session = NoSession
    <2>1. FormInv
      BY <1>2 DEF TurnInit, FormInv, NoTurn, NoEdit
    <2>2. SessionInv /\ HistoryInv
      BY <1>2 DEF TurnInit, SessionInv, HistoryInv, NoTurn
    <2>3. QED BY <2>1, <2>2 DEF TurnInv
  <1>3. ASSUME NEW h \in Imported, session = [title |-> "first", messages |-> h]
        PROVE  TurnInv
    <2>1. session \in Sessions /\ session # NoSession /\ session.messages = h /\ h \in Seq(Messages)
          /\ ArePlaced(h)
      BY <1>1, <1>3, MessagesAssumption DEF Sessions, Messages
    <2>2. FormInv
      BY <2>1 DEF TurnInit, FormInv, NoTurn, NoEdit
    <2>3. Count(h, Users) \in Nat
      BY <2>1, CountSteps DEF Count
    <2>4. SessionInv /\ HistoryInv
      BY <2>1, <2>3 DEF TurnInit, SessionInv, HistoryInv, NoTurn
    <2>5. QED BY <2>2, <2>4 DEF TurnInv
  <1>4. QED BY <1>2, <1>3 DEF TurnInit

LEMMA LoadKeeps ==
    ASSUME TurnInv, Load
    PROVE  TurnInv'
  <1> DEFINE stored == IF session = NoSession THEN <<>> ELSE session.messages
  <1>1. PICK prompt \in BOOLEAN, pc \in {"ask", "save"} :
            LET history == Normalize(Append(Headed(stored, prompt), User)) IN
            /\ turn.pc = "idle"
            /\ turn' = [NoTurn EXCEPT !.pc = pc, !.stored = session,
                  !.history = IF pc = "save" THEN Append(history, Text) ELSE history]
            /\ UNCHANGED <<session, edit, kept>>
    BY Zenon DEF Load, Headed
  <1> DEFINE history == Normalize(Append(Headed(stored, prompt), User))
             last == IF pc = "save" THEN Append(history, Text) ELSE history
  <1>2. stored \in Seq(Messages) /\ ArePlaced(stored)
    <2>1. CASE session = NoSession
      BY <2>1 DEF ArePlaced
    <2>2. CASE session # NoSession
      BY <2>2 DEF TurnInv, FormInv, Sessions, Messages
    <2>3. QED BY <2>1, <2>2
  <1>3. kept \in Nat /\ kept' = kept /\ session' = session /\ edit' = edit
    BY <1>1 DEF TurnInv, FormInv
  <1>4. /\ history \in Seq(Messages) /\ AreNamed(history) /\ Open(history, <<>>, 0)
        /\ Count(history, Users) = Count(stored, Users) + 1
        /\ AreNamed(stored) /\ Led(stored) => Count(history, Reals) = Count(stored, Reals)
    BY <1>2, TurnBegins
  <1>5. Led(history) /\ Count(stored, Users) \in Nat
    BY <1>2, <1>4, CountSteps DEF Open, Count
  <1> HIDE DEF history
  <1>6. /\ last \in Seq(Messages) /\ AreNamed(last) /\ Led(last)
        /\ Count(last, Users) = Count(stored, Users) + 1
        /\ pc = "ask" => last = history
    BY <1>4, <1>5, TextAppends
  <1>7. turn' = [pc |-> pc, stored |-> session, history |-> last, round |-> 0, failed |-> 0]
    <2>1. turn' = [NoTurn EXCEPT !.pc = pc, !.stored = session, !.history = last]
      BY <1>1 DEF history
    <2> HIDE DEF last
    <2>2. QED BY <2>1 DEF NoTurn
  <1> HIDE DEF last
  <1>8. FormInv'
    BY <1>3, <1>6, <1>7 DEF TurnInv, FormInv
  <1>9. SessionInv'
    BY <1>3 DEF TurnInv, SessionInv
  <1>10. Title' = "first" => Count(last, Users) >= kept + 1
    <2>1. Title' = IF session = NoSession THEN "first" ELSE session.title
      BY <1>7 DEF Title
    <2>2. CASE session = NoSession
      BY <1>3, <1>5, <1>6, <2>2 DEF TurnInv, SessionInv
    <2>3. CASE session # NoSession
      BY <1>3, <1>5, <1>6, <2>1, <2>3 DEF TurnInv, SessionInv
    <2>4. QED BY <2>2, <2>3
  <1>11. pc = "ask" /\ kept > 0 /\ session # NoSession /\ session.title = "first"
           => Count(last, Reals) = Count(session.messages, Reals)
    BY <1>4, <1>6 DEF TurnInv, SessionInv
  <1>12. HistoryInv'
    BY <1>3, <1>4, <1>6, <1>7, <1>10, <1>11 DEF HistoryInv
  <1>13. QED BY <1>8, <1>9, <1>12 DEF TurnInv

LEMMA AskKeeps ==
    ASSUME NoMadeIds, TurnInv, Ask
    PROVE  TurnInv'
  <1>1. PICK cs \in Calls :
            /\ turn.pc = "ask"
            /\ turn' = [turn EXCEPT !.pc = IF cs = <<>> THEN "save" ELSE "tools",
                                    !.history = Append(@, Assistant(LocalIds(cs)))]
            /\ UNCHANGED <<session, edit, kept>>
    BY DEF Ask
  <1> DEFINE h == turn.history
             ids == LocalIds(cs)
             m == Assistant(ids)
             g == Append(h, m)
             pc == IF cs = <<>> THEN "save" ELSE "tools"
  <1>2. /\ h \in Seq(Messages) /\ AreNamed(h) /\ Led(h) /\ Open(h, <<>>, 0)
        /\ Title = "first" => Count(h, Users) >= kept + 1
    BY <1>1 DEF TurnInv, FormInv, HistoryInv
  <1>3. /\ turn' \in [pc : {"save", "tools"}, stored : Sessions \cup {NoSession}, history : {g},
                      round : Nat, failed : Nat]
        /\ turn'.pc = pc /\ turn'.history = g /\ turn'.stored = turn.stored
    <2>1. turn' = [turn EXCEPT !.pc = pc, !.history = g]
      BY <1>1
    <2>2. pc \in {"save", "tools"}
      OBVIOUS
    <2> HIDE DEF g, pc
    <2>3. QED BY <2>1, <2>2 DEF TurnInv, FormInv
  <1>4. ids \in Seq(AllIds) /\ Named(ids)
    BY MessagesAssumption, LocalIsNamed
  <1> HIDE DEF ids
  <1>5. m \in Messages /\ m.role = "assistant" /\ m.calls = ids /\ m \notin Users
    BY <1>4, Forms DEF Users
  <1> HIDE DEF m, h
  <1>6. /\ g \in Seq(Messages) /\ AreNamed(g) /\ Led(g) /\ Open(g, ids, Len(g))
        /\ Len(g) = Len(h) + 1 /\ Len(h) \in Nat /\ g[Len(g)] = m
    <2>1. IsInjective(ids)
      BY <1>4 DEF Named
    <2>2. Len(g) = Len(h) + 1 /\ Len(h) \in Nat /\ g[Len(g)] = m
      BY <1>2
    <2>3. g \in Seq(Messages) /\ Open(g, m.calls, Len(h) + 1)
      BY <1>2, <1>5, <2>1, OpenAppends
    <2>4. AreNamed(g) /\ Led(g)
      BY <1>2, <1>4, <1>5, NamedAppends, LedAppends
    <2>5. QED BY <1>5, <2>2, <2>3, <2>4
  <1>7. Count(g, Users) = Count(h, Users)
    <2>1. Count(h, Users) \in Nat
      BY <1>2, CountSteps DEF Count
    <2>2. QED BY <1>2, <1>5, <2>1, CountAppend
  <1> HIDE DEF g
  <1>8. FormInv'
    <2>1. turn' \in [pc : {"idle", "ask", "tools", "save"}, stored : Sessions \cup {NoSession},
                     history : Seq(Messages), round : Nat, failed : Nat]
      BY <1>3, <1>6
    <2>2. session' = session /\ edit' = edit /\ kept' = kept
      BY <1>1
    <2>3. QED BY <2>1, <2>2 DEF TurnInv, FormInv
  <1>9. SessionInv'
    BY <1>1 DEF TurnInv, SessionInv
  <1>10. Title' = Title
    BY <1>3 DEF Title
  <1>11. pc = "tools" => Asked' = ids
    BY <1>3, <1>5, <1>6 DEF Asked, Last
  <1>12. HistoryInv'
    <2>1. kept' = kept /\ Len(g) > 0 /\ pc \in {"save", "tools"}
      BY <1>1, <1>6
    <2>2. Title' = "first" => Count(g, Users) >= kept + 1
      BY <1>2, <1>7, <1>10 DEF h
    <2>3. pc = "tools" => Open(g, Asked', Len(g))
      BY <1>6, <1>11
    <2> HIDE DEF pc
    <2>4. QED BY <1>3, <1>6, <2>1, <2>2, <2>3 DEF HistoryInv
  <1>13. QED BY <1>8, <1>9, <1>12 DEF TurnInv

\* The calls that wait, with so many of their results.
LEMMA ToolsAnswer ==
    ASSUME TurnInv, turn.pc = "tools", NEW n \in 0 .. Len(Asked)
    PROVE  /\ Asked \in Seq(AllIds)
           /\ WithResults(n) \in Seq(Messages) /\ Led(WithResults(n)) /\ AreNamed(WithResults(n))
           /\ Count(WithResults(n), Users) = Count(turn.history, Users)
           /\ n = Len(Asked) => Open(WithResults(n), <<>>, 0)
  <1> DEFINE h == turn.history
  <1>1. h \in Seq(Messages) /\ AreNamed(h) /\ Len(h) > 0 /\ Open(h, Asked, Len(h))
    BY DEF TurnInv, FormInv, HistoryInv
  <1>2. Asked \in Seq(AllIds)
    <2>1. Asked = h[Len(h)].calls
      BY DEF Asked, Last
    <2>2. h[Len(h)] \in Messages
      BY <1>1
    <2>3. QED BY <2>1, <2>2 DEF Messages, MessagesWith
  <1>3. WithResults(n) = h \o Results(Asked, n, TRUE)
    BY DEF WithResults, Results
  <1> HIDE DEF h
  <1>4. /\ WithResults(n) \in Seq(Messages) /\ Led(WithResults(n))
        /\ n = Len(Asked) => Open(WithResults(n), <<>>, Len(h))
    BY <1>1, <1>2, <1>3, OpenFills
  <1>5. AreNamed(WithResults(n)) /\ Count(WithResults(n), Users) = Count(h, Users)
    <2> DEFINE ids == Asked
    <2>1. ids \in Seq(AllIds) /\ n \in 0 .. Len(ids)
      BY <1>2
    <2> HIDE DEF ids
    <2>2. /\ AreNamed(h \o Results(ids, n, TRUE))
          /\ Count(h \o Results(ids, n, TRUE), Users) = Count(h, Users)
      BY <1>1, <2>1, ResultsCount
    <2>3. QED BY <1>3, <2>2 DEF ids
  <1>6. n = Len(Asked) => Open(WithResults(n), <<>>, 0)
    BY <1>4, NobodyWaits
  <1>7. QED BY <1>2, <1>4, <1>5, <1>6 DEF h

LEMMA RunToolsKeeps ==
    ASSUME TurnInv, RunTools
    PROVE  TurnInv'
  <1> DEFINE h == WithResults(Len(Asked))
  <1>1. PICK gated \in BOOLEAN, failures \in {0, turn.failed + 1} :
            /\ turn.pc = "tools"
            /\ turn' = [turn EXCEPT
                  !.pc = IF gated THEN "save" ELSE "ask",
                  !.history = IF gated THEN Append(h, Text) ELSE h,
                  !.round = @ + 1, !.failed = failures]
            /\ UNCHANGED <<session, edit, kept>>
    BY DEF RunTools
  <1> DEFINE g == IF gated THEN Append(h, Text) ELSE h
             pc == IF gated THEN "save" ELSE "ask"
  <1>2. turn \in [pc : {"idle", "ask", "tools", "save"}, stored : Sessions \cup {NoSession},
                  history : Seq(Messages), round : Nat, failed : Nat]
    BY DEF TurnInv, FormInv
  <1>3. /\ turn' \in [pc : {"save", "ask"}, stored : Sessions \cup {NoSession}, history : {g},
                      round : Nat, failed : Nat]
        /\ turn'.pc = pc /\ turn'.history = g /\ turn'.stored = turn.stored /\ turn'.round # 0
    <2>1. turn' = [turn EXCEPT !.pc = pc, !.history = g, !.round = turn.round + 1,
                               !.failed = failures]
      BY <1>1
    <2>2. failures \in Nat /\ turn.round + 1 \in Nat /\ turn.round + 1 # 0
      BY <1>1, <1>2
    <2> HIDE DEF g
    <2>3. QED BY <1>2, <2>1, <2>2
  <1>4. Asked \in Seq(AllIds)
    <2>1. 0 \in 0 .. Len(Asked)
      <3>1. turn.history # <<>> /\ turn.history \in Seq(Messages)
        BY <1>1 DEF TurnInv, FormInv, HistoryInv
      <3>2. turn.history[Len(turn.history)] \in Messages
        BY <3>1
      <3>3. Asked \in Seq(AllIds)
        BY <1>1, <3>2 DEF Asked, Last, Messages, MessagesWith
      <3>4. QED BY <3>3
    <2>2. QED BY <1>1, <2>1, ToolsAnswer
  <1>5. /\ h \in Seq(Messages) /\ Led(h) /\ AreNamed(h) /\ Open(h, <<>>, 0)
        /\ Count(h, Users) = Count(turn.history, Users)
    <2>1. Len(Asked) \in 0 .. Len(Asked)
      BY <1>4
    <2>2. QED BY <1>1, <2>1, ToolsAnswer
  <1> HIDE DEF h
  <1>6. /\ g \in Seq(Messages) /\ Led(g) /\ AreNamed(g)
        /\ pc = "ask" => Open(g, <<>>, 0)
        /\ Count(g, Users) = Count(turn.history, Users)
    BY <1>5, TextAppends
  <1> HIDE DEF g
  <1>7. FormInv'
    <2>1. turn' \in [pc : {"idle", "ask", "tools", "save"}, stored : Sessions \cup {NoSession},
                     history : Seq(Messages), round : Nat, failed : Nat]
      BY <1>3, <1>6
    <2>2. session' = session /\ edit' = edit /\ kept' = kept
      BY <1>1
    <2>3. QED BY <2>1, <2>2 DEF TurnInv, FormInv
  <1>8. SessionInv'
    BY <1>1 DEF TurnInv, SessionInv
  <1>9. Title' = Title
    BY <1>3 DEF Title
  <1>10. HistoryInv'
    BY <1>1, <1>3, <1>6, <1>9 DEF TurnInv, HistoryInv
  <1>11. QED BY <1>7, <1>8, <1>10 DEF TurnInv

LEMMA DirectReturnKeeps ==
    ASSUME TurnInv, DirectReturn
    PROVE  TurnInv'
  <1>1. PICK n \in DOMAIN Asked :
            /\ turn' = [turn EXCEPT !.pc = "save", !.history = Append(WithResults(n), Text)]
            /\ UNCHANGED <<session, edit, kept>>
    BY DEF DirectReturn
  <1> DEFINE g == Append(WithResults(n), Text)
  <1>2. turn.pc = "tools"
    BY <1>1 DEF Asked
  <1>3. n \in 0 .. Len(Asked)
    <2>1. turn.history # <<>> /\ turn.history \in Seq(Messages)
      BY <1>2 DEF TurnInv, FormInv, HistoryInv
    <2>2. turn.history[Len(turn.history)] \in Messages
      BY <2>1
    <2>3. Asked \in Seq(AllIds)
      BY <1>2, <2>2 DEF Asked, Last, Messages, MessagesWith
    <2>4. QED BY <1>1, <2>3
  <1>4. /\ WithResults(n) \in Seq(Messages) /\ Led(WithResults(n)) /\ AreNamed(WithResults(n))
        /\ Count(WithResults(n), Users) = Count(turn.history, Users)
    BY <1>2, <1>3, ToolsAnswer
  <1>5. /\ g \in Seq(Messages) /\ Led(g) /\ AreNamed(g)
        /\ Count(g, Users) = Count(turn.history, Users)
    BY <1>4, TextAppends
  <1> HIDE DEF g
  <1>6. /\ turn' \in [pc : {"save"}, stored : Sessions \cup {NoSession}, history : {g},
                      round : Nat, failed : Nat]
        /\ turn'.pc = "save" /\ turn'.history = g /\ turn'.stored = turn.stored
    BY <1>1 DEF TurnInv, FormInv, g
  <1>7. FormInv'
    <2>1. turn' \in [pc : {"idle", "ask", "tools", "save"}, stored : Sessions \cup {NoSession},
                     history : Seq(Messages), round : Nat, failed : Nat]
      BY <1>5, <1>6
    <2>2. session' = session /\ edit' = edit /\ kept' = kept
      BY <1>1
    <2>3. QED BY <2>1, <2>2 DEF TurnInv, FormInv
  <1>8. SessionInv'
    BY <1>1 DEF TurnInv, SessionInv
  <1>9. Title' = Title
    BY <1>6 DEF Title
  <1>10. HistoryInv'
    BY <1>1, <1>2, <1>5, <1>6, <1>9 DEF TurnInv, HistoryInv
  <1>11. QED BY <1>7, <1>8, <1>10 DEF TurnInv

LEMMA SaveKeeps ==
    ASSUME TurnInv, Save
    PROVE  TurnInv'
  <1>1. /\ turn.history \in Seq(Messages) /\ AreNamed(turn.history) /\ Led(turn.history)
        /\ Title = "first" => Count(turn.history, Users) >= kept + 1
        /\ kept \in Nat /\ turn.pc = "save"
    BY DEF TurnInv, FormInv, HistoryInv, Save
  <1>2. Title \in {"first", "renamed"}
    BY DEF TurnInv, FormInv, Title, Sessions
  <1>3. /\ session' = [title |-> Title, messages |-> turn.history] /\ kept' = kept + 1
        /\ turn' = NoTurn /\ edit' = edit
    BY DEF Save, Record
  <1>4. /\ session' \in Sessions /\ session' # NoSession /\ session'.title = Title
        /\ session'.messages = turn.history
    BY <1>1, <1>2, <1>3, MessagesAssumption DEF Sessions, Messages
  <1>5. ArePlaced(turn.history)
    BY <1>1 DEF AreNamed, ArePlaced, Named
  <1>6. FormInv'
    <2>1. NoTurn \in [pc : {"idle", "ask", "tools", "save"}, stored : Sessions \cup {NoSession},
                      history : Seq(Messages), round : Nat, failed : Nat]
      BY DEF NoTurn
    <2>2. QED BY <1>1, <1>3, <1>4, <1>5, <2>1 DEF TurnInv, FormInv
  <1>7. SessionInv'
    BY <1>1, <1>3, <1>4 DEF SessionInv
  <1>8. HistoryInv'
    BY <1>3 DEF HistoryInv, NoTurn
  <1>9. QED BY <1>6, <1>7, <1>8 DEF TurnInv

LEMMA AbandonKeeps ==
    ASSUME TurnInv, Abandon
    PROVE  TurnInv'
  <1>1. NoTurn \in [pc : {"idle", "ask", "tools", "save"}, stored : Sessions \cup {NoSession},
                    history : Seq(Messages), round : Nat, failed : Nat]
    BY DEF NoTurn
  <1>2. FormInv'
    BY <1>1 DEF TurnInv, FormInv, Abandon
  <1>3. SessionInv'
    BY DEF TurnInv, SessionInv, Abandon
  <1>4. HistoryInv'
    BY DEF HistoryInv, NoTurn, Abandon
  <1>5. QED BY <1>2, <1>3, <1>4 DEF TurnInv

\* What the owner does touches no turn; deleting a session starts its count
\* of answers again.
LEMMA OwnerKeeps ==
    ASSUME TurnInv, ReadToRename \/ WriteRenamed \/ Delete
    PROVE  TurnInv'
  <1>1. /\ turn' = turn /\ kept' \in {0, kept} /\ kept \in Nat
    BY DEF TurnInv, FormInv, ReadToRename, WriteRenamed, Delete
  <1>2. HistoryInv'
    <2>1. Title' = Title /\ Asked' = Asked /\ kept' \in Nat /\ kept' <= kept
      BY <1>1 DEF Title, Asked
    <2>2. Title = "first" /\ turn.pc # "idle" => Count(turn.history, Users) >= kept' + 1
      <3>1. turn.history \in Seq(Messages)
        BY DEF TurnInv, FormInv
      <3>2. Count(turn.history, Users) \in Nat
        BY <3>1, CountSteps DEF Count
      <3>3. QED BY <1>1, <2>1, <3>2 DEF TurnInv, HistoryInv
    <2>3. kept' > 0 => kept > 0
      BY <1>1
    <2>4. QED BY <1>1, <2>1, <2>2, <2>3 DEF TurnInv, HistoryInv
  <1>3. CASE ReadToRename
    <2>1. FormInv' /\ SessionInv'
      BY <1>3 DEF ReadToRename, TurnInv, FormInv, SessionInv
    <2>2. QED BY <1>2, <2>1 DEF TurnInv
  <1>4. CASE WriteRenamed
    <2>1. edit.record \in Sessions /\ ArePlaced(edit.record.messages)
      BY <1>4 DEF WriteRenamed, TurnInv, FormInv
    <2>2. /\ session' \in Sessions /\ session'.title = "renamed"
          /\ session'.messages = edit.record.messages
      BY <1>4, <2>1 DEF WriteRenamed, Sessions
    <2>3. session' # NoSession /\ edit' = NoEdit /\ kept' = kept
      BY <1>4, <2>2, MessagesAssumption DEF WriteRenamed
    <2>4. FormInv' /\ SessionInv'
      BY <1>1, <2>1, <2>2, <2>3 DEF NoEdit, TurnInv, FormInv, SessionInv
    <2>5. QED BY <1>2, <2>4 DEF TurnInv
  <1>5. CASE Delete
    <2>1. FormInv' /\ SessionInv'
      BY <1>5 DEF Delete, TurnInv, FormInv, SessionInv
    <2>2. QED BY <1>2, <2>1 DEF TurnInv
  <1>6. QED BY <1>3, <1>4, <1>5

\* agent/runner.py: the history a turn works on stays sound through its rounds
\* and is saved so, whatever an import left and whatever the owner does meanwhile.
THEOREM TurnsGoOnSound ==
    ASSUME NoMadeIds
    PROVE  TurnSpec => []TurnInv
  <1>1. TurnInit => TurnInv
    BY TurnInvInit
  <1>2. TurnInv /\ [TurnNext]_turnVars => TurnInv'
    <2> SUFFICES ASSUME TurnInv, [TurnNext]_turnVars
                 PROVE  TurnInv'
      OBVIOUS
    <2>1. CASE TurnNext
      BY <2>1, LoadKeeps, AskKeeps, RunToolsKeeps, DirectReturnKeeps, SaveKeeps, AbandonKeeps,
         OwnerKeeps DEF TurnNext
    <2>2. CASE UNCHANGED turnVars
      BY <2>2 DEF turnVars, TurnInv, FormInv, SessionInv, HistoryInv, Title, Asked
    <2>3. QED BY <2>1, <2>2
  <1>3. QED BY <1>1, <1>2, PTL DEF TurnSpec

LEMMA CountIs ==
    ASSUME NEW h \in Seq(Messages)
    PROVE  /\ RealResults(h) = Count(h, Reals)
           /\ Cardinality({i \in DOMAIN h : h[i].role = "user"}) = Count(h, Users)
  <1>1. DOMAIN h = 1 .. Len(h) /\ \A i \in 1 .. Len(h) : h[i] \in Messages
    OBVIOUS
  <1>2. {i \in DOMAIN h : h[i].role = "tool" /\ h[i].real} = {i \in 1 .. Len(h) : h[i] \in Reals}
    BY <1>1 DEF Reals
  <1>3. {i \in DOMAIN h : h[i].role = "user"} = {i \in 1 .. Len(h) : h[i] \in Users}
    BY <1>1 DEF Users
  <1>4. QED BY <1>2, <1>3 DEF RealResults, Count, CountTo

LEMMA OpenIsPaired ==
    ASSUME NEW h \in Seq(Messages), AreNamed(h), Open(h, <<>>, 0)
    PROVE  Paired(h, LAMBDA m : m.calls)
  <1>1. /\ Led(h) /\ Len(h) \in Nat /\ DOMAIN h = 1 .. Len(h)
        /\ \A i \in 1 .. Len(h) : h[i] \in Messages
        /\ \A i \in 1 .. Len(h) : h[i].role = "assistant" => Complete(h, i)
    BY DEF Open
  <1>2. ASSUME NEW i \in 1 .. Len(h), h[i].role = "assistant"
        PROVE  /\ i + Len(h[i].calls) <= Len(h)
               /\ \A j \in 1 .. Len(h[i].calls) : h[i + j].role = "tool"
               /\ {h[i + j].id : j \in 1 .. Len(h[i].calls)} = ToSet(h[i].calls)
               /\ Cardinality(ToSet(h[i].calls)) = Len(h[i].calls)
    <2> DEFINE cs == h[i].calls
               n == Len(cs)
    <2>1. cs \in Seq(AllIds) /\ n \in Nat /\ DOMAIN cs = 1 .. n /\ IsInjective(cs)
      <3>1. cs \in Seq(AllIds)
        BY <1>1 DEF Messages, MessagesWith
      <3>2. IsInjective(cs)
        BY <1>1, <1>2 DEF AreNamed, Named
      <3>3. QED BY <3>1, <3>2
    <2>2. /\ i + n <= Len(h)
          /\ \A l \in i + 1 .. i + n : h[l].role = "tool"
          /\ \A j \in 1 .. n : \E l \in i + 1 .. i + n : h[l].id = cs[j]
      BY <1>1, <1>2 DEF Complete
    <2> HIDE DEF cs, n
    <2>3. \A j \in 1 .. n : i + j \in i + 1 .. i + n /\ h[i + j].role = "tool"
      <3>1. \A j \in 1 .. n : i + j \in i + 1 .. i + n
        BY <2>1
      <3>2. QED BY <2>2, <3>1
    <2>4. ASSUME NEW l \in i + 1 .. i + n PROVE h[l].id \in ToSet(cs)
      <3>1. l \in 1 .. Len(h) /\ h[l].role = "tool" /\ l \in Nat
        BY <1>1, <2>1, <2>2
      <3>2. PICK k \in 1 .. l - 1 : Answers(h, k, l)
        BY <1>1, <3>1 DEF Led
      <3>3. k = i
        <4>1. ~ (i \in k + 1 .. l)
          BY <1>2, <3>2 DEF Answers
        <4>2. ~ (k \in i + 1 .. i + n)
          BY <2>2, <3>2 DEF Answers
        <4>3. QED BY <2>1, <3>1, <4>1, <4>2
      <3>4. QED BY <3>2, <3>3 DEF Answers, cs
    <2>5. {h[i + j].id : j \in 1 .. n} = ToSet(cs)
      <3>1. ASSUME NEW x \in ToSet(cs) PROVE x \in {h[i + j].id : j \in 1 .. n}
        <4>1. PICK j \in 1 .. n : cs[j] = x
          BY <2>1, InList DEF n
        <4>2. PICK l \in i + 1 .. i + n : h[l].id = x
          BY <2>2, <4>1
        <4>3. l - i \in 1 .. n /\ i + (l - i) = l
          BY <2>1
        <4>4. QED BY <4>2, <4>3
      <3>2. QED BY <2>3, <2>4, <3>1
    <2>6. Cardinality(ToSet(cs)) = n
      <3>1. cs \in Bijection(1 .. n, ToSet(cs))
        <4>1. ToSet(cs) = {cs[j] : j \in 1 .. n}
          BY <2>1 DEF ToSet
        <4>2. \A a, b \in 1 .. n : cs[a] = cs[b] => a = b
          BY <2>1 DEF IsInjective
        <4>3. cs = [j \in 1 .. n |-> cs[j]]
          BY <2>1
        <4>4. cs \in [1 .. n -> ToSet(cs)]
          BY <4>1, <4>3
        <4>5. QED BY <2>1, <4>1, <4>4 DEF Bijection, Injection, Surjection
      <3>2. IsFiniteSet(1 .. n) /\ Cardinality(1 .. n) = n
        BY <2>1, FS_Interval
      <3>3. ExistsBijection(1 .. n, ToSet(cs))
        BY <3>1 DEF ExistsBijection
      <3>4. QED BY <3>2, <3>3, FS_Bijection
    <2>7. QED BY <2>2, <2>3, <2>5, <2>6 DEF cs, n
  <1>3. ASSUME NEW i \in 1 .. Len(h), h[i].role = "tool"
        PROVE  \E k \in 1 .. i - 1 : h[k].role = "assistant" /\ i <= k + Len(h[k].calls)
    BY <1>1, <1>3 DEF Led, Answers
  <1>4. QED BY <1>1, <1>2, <1>3, Zenon DEF Paired

\* agent/normalizer.py repairs whatever the import and earlier turns left, and
\* drops no result a turn has recorded.
THEOREM ReplaysAreSound ==
    ASSUME NoMadeIds
    PROVE  TurnSpec => []ReplayIsSound
  <1>1. TurnInv => ReplayIsSound
    <2> SUFFICES ASSUME TurnInv
                 PROVE  ReplayIsSound
      OBVIOUS
    <2>1. ASSUME turn.pc = "ask" PROVE Paired(turn.history, LAMBDA m : m.calls)
      <3> DEFINE h == turn.history
      <3>1. h \in Seq(Messages) /\ AreNamed(h) /\ Open(h, <<>>, 0)
        BY <2>1 DEF TurnInv, FormInv, HistoryInv
      <3> HIDE DEF h
      <3>2. Paired(h, LAMBDA m : m.calls)
        BY <3>1, OpenIsPaired
      <3>3. QED BY <3>2 DEF h
    <2>2. HistoryIsPaired
      BY <2>1 DEF HistoryIsPaired
    <2>3. ReplayKeepsResults
      <3> SUFFICES ASSUME turn.pc = "ask", turn.round = 0, kept > 0,
                          turn.stored # NoSession, turn.stored.title = "first"
                   PROVE  RealResults(turn.history) = RealResults(turn.stored.messages)
        BY DEF ReplayKeepsResults
      <3>1. turn.history \in Seq(Messages) /\ turn.stored \in Sessions
        BY DEF TurnInv, FormInv
      <3>2. turn.stored.messages \in Seq(Messages)
        BY <3>1 DEF Sessions, Messages
      <3>3. Count(turn.history, Reals) = Count(turn.stored.messages, Reals)
        BY DEF TurnInv, HistoryInv
      <3>4. QED BY <3>1, <3>2, <3>3, CountIs
    <2>4. QED BY <2>2, <2>3 DEF ReplayIsSound
  <1>2. QED BY <1>1, TurnsGoOnSound, PTL

\* agent/runner.py saves a turn with its answer, and no later turn loses it.
THEOREM AnswersAreKept ==
    ASSUME NoMadeIds
    PROVE  TurnSpec => []AnsweredTurnsKept
  <1>1. TurnInv => AnsweredTurnsKept
    <2> SUFFICES ASSUME TurnInv, session # NoSession, session.title = "first"
                 PROVE  Cardinality({i \in DOMAIN session.messages :
                                        session.messages[i].role = "user"}) >= kept
      BY DEF AnsweredTurnsKept
    <2>1. session.messages \in Seq(Messages)
      BY DEF TurnInv, FormInv, Sessions, Messages
    <2>2. Count(session.messages, Users) >= kept
      BY DEF TurnInv, SessionInv
    <2>3. QED BY <2>1, <2>2, CountIs
  <1>2. QED BY <1>1, TurnsGoOnSound, PTL
=============================================================================
