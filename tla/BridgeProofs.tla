----------------------------- MODULE BridgeProofs -----------------------------
(***************************************************************************)
(* Proofs about Submission and about Bridge, its composition with the      *)
(* queue: for every set of routes and messages, and every number of tries, *)
(* failing statements and crashes.                                         *)
(***************************************************************************)
EXTENDS Bridge, NatLemmas, SequenceTheorems, FiniteSetTheorems

-----------------------------------------------------------------------------
(***************************************************************************)
(* The routes of a message. Order is a fold over the recipients, that is,  *)
(* a recursive function on sets of indices, which is well defined because  *)
(* each step removes the greatest one.                                     *)
(***************************************************************************)
\* One step of the fold: recipient r after those whose routes are seen.
See(seen, r) == IF r \in ToSet(seen) THEN seen ELSE Append(seen, r)

\* f folds the recipients rs over the sets of indices up to n.
IsFold(f, rs, n) ==
    f = [s \in SUBSET (1 .. n) |-> IF s = {} THEN <<>> ELSE See(f[s \ {Max(s)}], rs[Max(s)])]

LEMMA FoldExists ==
    ASSUME NEW rs
    PROVE  \A n \in Nat : \E f : IsFold(f, rs, n)
<1> DEFINE S == {n \in Nat : \E f : IsFold(f, rs, n)}
<1>1. 0 \in S
    <2> DEFINE f == [s \in SUBSET (1 .. 0) |-> <<>>]
    <2>1. IsFold(f, rs, 0)
        BY DEF IsFold
    <2> QED
        BY <2>1
<1>2. ASSUME NEW n \in Nat, n \in S PROVE n + 1 \in S
    <2>1. PICK f : IsFold(f, rs, n)
        BY <1>2
    <2> DEFINE step(s) == IF s = {} THEN <<>> ELSE See(f[s \ {Max(s)}], rs[Max(s)])
               g == [s \in SUBSET (1 .. n + 1) |-> step(s)]
    <2>2. \A s \in SUBSET (1 .. n + 1) : s # {} => s \ {Max(s)} \in SUBSET (1 .. n)
        BY RemoveMax
    <2>3. \A s \in SUBSET (1 .. n) : g[s] = f[s]
        <3> TAKE s \in SUBSET (1 .. n)
        <3>1. s \in SUBSET (1 .. n + 1)
            OBVIOUS
        <3>2. f[s] = step(s)
            BY <2>1 DEF IsFold
        <3> QED
            BY <3>1, <3>2
    <2>4. \A s \in SUBSET (1 .. n + 1) :
             g[s] = IF s = {} THEN <<>> ELSE See(g[s \ {Max(s)}], rs[Max(s)])
        <3> TAKE s \in SUBSET (1 .. n + 1)
        <3>1. g[s] = step(s)
            OBVIOUS
        <3>2. CASE s = {}
            BY <3>1, <3>2
        <3>3. CASE s # {}
            <4> HIDE DEF g
            <4>1. g[s \ {Max(s)}] = f[s \ {Max(s)}]
                BY <2>2, <2>3, <3>3
            <4> QED
                BY <3>1, <3>3, <4>1
        <3> QED
            BY <3>2, <3>3
    <2>5. IsFold(g, rs, n + 1)
        <3>1. g = [s \in SUBSET (1 .. n + 1) |-> g[s]]
            OBVIOUS
        <3> HIDE DEF g
        <3> QED
            BY <2>4, <3>1 DEF IsFold
    <2> QED
        BY <2>5
<1> QED
    <2> HIDE DEF S
    <2>1. Nat \subseteq S
        BY <1>1, <1>2, SetInduction
    <2> QED
        BY <2>1 DEF S

\* Distinct matched routes, in the order in which they come: Order names each of
\* the recipients' routes, once.
LEMMA OrderLemma ==
    ASSUME NEW R, NEW rs \in Seq(R)
    PROVE  /\ Order(rs) \in Seq(R) /\ IsInjective(Order(rs))
           /\ ToSet(Order(rs)) = ToSet(rs)
<1> DEFINE N == Len(rs)
           iter == CHOOSE f : IsFold(f, rs, N)
<1>1. N \in Nat /\ DOMAIN rs = 1 .. N /\ \A i \in 1 .. N : rs[i] \in R
    BY LenProperties, ElementOfSeq
<1>2. Order(rs) = iter[1 .. N]
    BY <1>1 DEF Order, FoldLeft, MapThenFoldSet, IsFold, See
<1>3. IsFold(iter, rs, N)
    BY <1>1, FoldExists
<1> HIDE DEF N, iter
<1> DEFINE Good(s, n) == /\ s \in Seq(R) /\ IsInjective(s)
                         /\ ToSet(s) = {rs[i] : i \in 1 .. n}
           S == {n \in Nat : n <= N => Good(iter[1 .. n], n)}
<1>4. 0 \in S
    <2>1. {} \in SUBSET (1 .. N) /\ 1 .. 0 = {}
        OBVIOUS
    <2>2. iter[1 .. 0] = <<>>
        BY <1>3, <2>1 DEF IsFold
    <2>3. Good(<<>>, 0)
        BY DEF IsInjective, ToSet
    <2> QED
        BY <2>2, <2>3
<1>5. ASSUME NEW n \in Nat, n \in S PROVE n + 1 \in S
    <2> SUFFICES ASSUME n + 1 <= N PROVE Good(iter[1 .. n + 1], n + 1)
        BY <1>5
    <2> DEFINE s == iter[1 .. n]
               r == rs[n + 1]
    <2>1. Good(s, n) /\ r \in R
        BY <1>1, <1>5
    <2>2. iter[1 .. n + 1] = See(s, r)
        <3>1. /\ n + 1 \in Nat \ {0} /\ 1 .. n + 1 \in SUBSET (1 .. N) /\ 1 .. n + 1 # {}
            BY <1>1
        <3>2. Max(1 .. n + 1) = n + 1 /\ (1 .. n + 1) \ {n + 1} = 1 .. n
            BY <3>1, MaxOfInterval
        <3> QED
            BY <1>3, <3>1, <3>2 DEF IsFold
    <2> HIDE DEF s, r
    <2>3. {rs[i] : i \in 1 .. n + 1} = {rs[i] : i \in 1 .. n} \cup {r}
        BY DEF r
    <2>4. CASE r \in ToSet(s)
        BY <2>1, <2>2, <2>3, <2>4 DEF See
    <2>5. CASE r \notin ToSet(s)
        <3>1. /\ Append(s, r) \in Seq(R) /\ Len(s) \in Nat
              /\ DOMAIN s = 1 .. Len(s) /\ DOMAIN Append(s, r) = 1 .. Len(s) + 1
              /\ \A i \in 1 .. Len(s) : Append(s, r)[i] = s[i]
              /\ Append(s, r)[Len(s) + 1] = r
            BY <2>1, AppendProperties, LenProperties
        <3>2. ToSet(Append(s, r)) = ToSet(s) \cup {r}
            BY <3>1 DEF ToSet
        <3>3. IsInjective(Append(s, r))
            BY <2>1, <2>5, <3>1 DEF IsInjective, ToSet
        <3> QED
            BY <2>1, <2>2, <2>3, <2>5, <3>1, <3>2, <3>3 DEF See
    <2> QED
        BY <2>4, <2>5
<1> HIDE DEF S
<1>6. Nat \subseteq S
    BY <1>4, <1>5, SetInduction
<1>7. Good(iter[1 .. N], N)
    BY <1>1, <1>6 DEF S
<1> QED
    BY <1>1, <1>2, <1>7 DEF ToSet

\* What taking the first route off a list without repetitions leaves.
LEMMA TailLemma ==
    ASSUME NEW R, NEW s \in Seq(R), s # <<>>, IsInjective(s)
    PROVE  /\ Head(s) \in ToSet(s) /\ Head(s) \in R
           /\ Tail(s) \in Seq(R) /\ IsInjective(Tail(s))
           /\ ToSet(Tail(s)) = ToSet(s) \ {Head(s)}
<1>1. /\ Len(s) \in Nat \ {0} /\ DOMAIN s = 1 .. Len(s) /\ Head(s) = s[1]
      /\ Tail(s) \in Seq(R) /\ Len(Tail(s)) = Len(s) - 1 /\ DOMAIN Tail(s) = 1 .. Len(s) - 1
      /\ \A i \in 1 .. Len(s) - 1 : Tail(s)[i] = s[i + 1]
    BY EmptySeq, LenProperties, HeadTailProperties
<1>2. Head(s) \in ToSet(s)
    BY <1>1 DEF ToSet
<1>3. \A i \in 1 .. Len(s) - 1 : i + 1 \in 1 .. Len(s) /\ i + 1 # 1
    BY <1>1
<1>4. IsInjective(Tail(s))
    BY <1>1, <1>3 DEF IsInjective
<1>5. ASSUME NEW i \in 1 .. Len(s), i # 1 PROVE s[i] \in ToSet(Tail(s))
    <2>1. i - 1 \in 1 .. Len(s) - 1 /\ i = (i - 1) + 1
        BY <1>1, <1>5
    <2>2. Tail(s)[i - 1] = s[i]
        BY <1>1, <2>1
    <2> QED
        BY <1>1, <2>1, <2>2 DEF ToSet
<1>6. ToSet(s) \ {Head(s)} \subseteq ToSet(Tail(s))
    BY <1>1, <1>5 DEF ToSet
<1>7. ToSet(Tail(s)) \subseteq ToSet(s) \ {Head(s)}
    BY <1>1, <1>3 DEF ToSet, IsInjective
<1> QED
    BY <1>1, <1>2, <1>4, <1>6, <1>7, HeadTailProperties

\* What appending a route to a list that does not name it gives.
LEMMA AppendLemma ==
    ASSUME NEW R, NEW s \in Seq(R), NEW r \in R, IsInjective(s), r \notin ToSet(s)
    PROVE  /\ Append(s, r) \in Seq(R) /\ IsInjective(Append(s, r))
           /\ ToSet(Append(s, r)) = ToSet(s) \cup {r}
<1>1. /\ Append(s, r) \in Seq(R) /\ Len(s) \in Nat
      /\ DOMAIN s = 1 .. Len(s) /\ DOMAIN Append(s, r) = 1 .. Len(s) + 1
      /\ \A i \in 1 .. Len(s) : Append(s, r)[i] = s[i]
      /\ Append(s, r)[Len(s) + 1] = r
    BY AppendProperties, LenProperties
<1>2. ToSet(Append(s, r)) = ToSet(s) \cup {r}
    BY <1>1 DEF ToSet
<1>3. IsInjective(Append(s, r))
    BY <1>1 DEF IsInjective, ToSet
<1> QED
    BY <1>1, <1>2, <1>3

\* A list without repetitions that names one route at most is empty after it.
LEMMA OneRouteLemma ==
    ASSUME NEW R, NEW s \in Seq(R), s # <<>>, IsInjective(s), NEW r, ToSet(s) \subseteq {r}
    PROVE  Tail(s) = <<>>
<1>1. Tail(s) \in Seq(R) /\ ToSet(Tail(s)) = {}
    BY TailLemma
<1> DEFINE u == Tail(s)
<1> SUFFICES ASSUME u # <<>> PROVE FALSE
    OBVIOUS
<1> HIDE DEF u
<1>2. Len(u) \in Nat \ {0} /\ DOMAIN u = 1 .. Len(u)
    BY <1>1, EmptySeq, LenProperties DEF u
<1>3. 1 \in DOMAIN u
    BY <1>2
<1> QED
    BY <1>1, <1>3 DEF u, ToSet

-----------------------------------------------------------------------------
(***************************************************************************)
(* The invariant of session.Data. What a handler has done is told by its   *)
(* control point and by what is left in its two lists: a route of the      *)
(* message that is in neither has been handed over.                        *)
(***************************************************************************)
\* The handler has not looked at a route yet; it is in the loop over them.
Early == {"none", "read", "log"}
Loop  == {"deliver", "posting", "answered", "refused"}

\* Try t has done for route r what a 250 promises.
HandedOver(t, r) ==
    /\ Mode[r] = "sync"  => <<t, r>> \in acked
    /\ Mode[r] = "async" => <<t, r>> \in queued

\* The lists of try t: they name no route twice, and no route is in both.
ListsOf(t) ==
    /\ IsInjective(todo[t]) /\ IsInjective(async[t])
    /\ ToSet(todo[t]) \subseteq ToSet(rcpts)
    /\ \A r \in ToSet(async[t]) :
          r \in ToSet(rcpts) \ ToSet(todo[t]) /\ Mode[r] = "async" /\ <<t, r>> \notin queued
    /\ pc[t] \in Early => todo[t] = <<>> /\ async[t] = <<>>
    /\ pc[t] \in {"posting", "answered", "refused"} =>
          todo[t] # <<>> /\ Mode[Head(todo[t])] = "sync"
    /\ pc[t] = "enqueue" => todo[t] = <<>>

\* Its effects: a webhook is called, or a row inserted, for a recipient's route of
\* the right mode only, and rows only once every sync webhook has answered.
EffectsOf(t) ==
    /\ \A r \in Routes :
          /\ <<t, r>> \in acked  => r \in Targets("sync")
          /\ <<t, r>> \in queued =>
                /\ r \in Targets("async") /\ pc[t] \notin Early \cup Loop
                /\ \A q \in Targets("sync") : <<t, q>> \in acked
    /\ pc[t] = "answered" => <<t, Head(todo[t])>> \in acked
    /\ pc[t] \in Early => \A r \in Routes : <<t, r>> \notin acked
    /\ pc[t] \in Loop \cup {"enqueue"} =>
          \A r \in ToSet(rcpts) : r \in ToSet(todo[t]) \cup ToSet(async[t]) \/ HandedOver(t, r)

\* Its reply.
VerdictOf(t) ==
    /\ verdict[t] # "none" => pc[t] \in {"reply", "ended"}
    /\ pc[t] = "reply" => verdict[t] # "none"
    /\ verdict[t] = "250" => \A r \in ToSet(rcpts) : HandedOver(t, r)
    /\ verdict[t] = "451" => (LogRejections /\ dbErrors = 0 => t \in rejections)
    /\ told[t] \in {"250", "451", "552"} => told[t] = verdict[t]

\* A message with one route: once it is handed over, nothing can refuse it.
SingleOf(t) ==
    Len(Order(rcpts)) = 1 /\ (\E r \in Routes : <<t, r>> \in acked \cup queued) =>
        /\ pc[t] \notin {"posting", "refused", "reject"} /\ verdict[t] # "451"
        /\ pc[t] = "deliver" => todo[t] = <<>>
        /\ pc[t] = "enqueue" => async[t] = <<>>

\* The tries up to the last have a handler, and all but the last ended without a
\* 250 as far as the sender knows.
SenderOf(t) ==
    /\ pc[t] = "none" <=> t > try
    /\ t > try => told[t] = "none"
    /\ t < try => told[t] \in {"lost", "451"}

\* The sender waits for an answer to its last try, or has had it.
SenderInv ==
    /\ client = "waiting" => try > 0 /\ told[try] = "none"
    /\ client = "ready" /\ try > 0 => told[try] \in {"lost", "451"}

\* Types of the lists, which TypeOK states try by try.
ListTypes == todo \in [Tries -> Seq(Routes)] /\ async \in [Tries -> Seq(Routes)]

DataInv ==
    /\ TypeOK /\ ListTypes /\ SenderInv
    /\ \A t \in Tries : /\ ListsOf(t) /\ EffectsOf(t) /\ VerdictOf(t) /\ SingleOf(t)
                        /\ SenderOf(t)

\* The tries refused after some of their rows were queued: as many statements
\* have failed.
Halved == {t \in Tries : /\ \E r \in Routes : <<t, r>> \in queued
                         /\ pc[t] = "reject" \/ verdict[t] = "451"}

FaultInv == Cardinality(Halved) <= dbErrors

-----------------------------------------------------------------------------
(***************************************************************************)
(* Steps. A step touches the variables of one try, so that the invariant of*)
(* the others holds by Frame, and of the tries whose connection ends too.  *)
(***************************************************************************)
LEMMA BoundLemma ==
    /\ MaxTries \in Nat /\ MaxTries > 0 /\ Tries \subseteq Nat
    /\ \A t \in Tries : t > 0 /\ t <= MaxTries
    /\ \A r \in Routes : Mode[r] \in {"sync", "async", "capture"}
    /\ \A m \in Messages : m \in Seq(Routes)
BY BoundAssumption, RouteAssumption DEF Tries

\* The recipients' routes are routes.
LEMMA RecipientsLemma ==
    ASSUME TypeOK
    PROVE  rcpts \in Seq(Routes) /\ ToSet(rcpts) \subseteq Routes
<1>1. rcpts \in Seq(Routes)
    BY BoundLemma DEF TypeOK
<1>2. DOMAIN rcpts = 1 .. Len(rcpts) /\ \A i \in 1 .. Len(rcpts) : rcpts[i] \in Routes
    BY <1>1, LenProperties, ElementOfSeq
<1> QED
    BY <1>1, <1>2 DEF ToSet

\* The lists of try u, and the reply, are what they were, and no webhook called and
\* no row inserted for it.
Leaves(u) ==
    /\ todo'[u] = todo[u] /\ async'[u] = async[u] /\ verdict'[u] = verdict[u]
    /\ \A r \in Routes : /\ <<u, r>> \in acked'  <=> <<u, r>> \in acked
                         /\ <<u, r>> \in queued' <=> <<u, r>> \in queued

\* The rows and faults only grow.
Grows == rejections \subseteq rejections' /\ dbErrors' \in {dbErrors, dbErrors + 1}

TryInv(t) == ListsOf(t) /\ EffectsOf(t) /\ VerdictOf(t) /\ SingleOf(t)

LEMMA Frame ==
    ASSUME DataInv, NEW u \in Tries, UNCHANGED message, Leaves(u), Grows,
           pc'[u] \in {pc[u], "ended"}, told'[u] \in {told[u], "lost", verdict[u]}
    PROVE  TryInv(u)'
<1> USE DEF message, Leaves
<1>1. TryInv(u) /\ TypeOK /\ ToSet(rcpts) \subseteq Routes /\ dbErrors \in Nat
    BY RecipientsLemma, BoundAssumption DEF DataInv, TryInv, TypeOK
<1>2. ToSet(rcpts)' = ToSet(rcpts) /\ Order(rcpts)' = Order(rcpts)
      /\ \A mode : Targets(mode)' = Targets(mode)
    BY DEF Targets
<1>3. ToSet(todo[u])' = ToSet(todo[u]) /\ ToSet(async[u])' = ToSet(async[u])
    OBVIOUS
<1>4. \A r \in Routes : HandedOver(u, r)' <=> HandedOver(u, r)
    BY DEF HandedOver
<1>5. ListsOf(u)'
    <2>1. ToSet(async[u]) \subseteq Routes
        BY <1>1 DEF TryInv, ListsOf
    <2> QED
        BY <1>1, <1>2, <1>3, <2>1 DEF TryInv, ListsOf, Early
<1>6. EffectsOf(u)'
    <2>1. Targets("sync") \subseteq Routes
        BY <1>1 DEF Targets
    <2>2. pc[u] = "answered" => Head(todo[u]) \in Routes
        <3>1. pc[u] = "answered" => todo[u] \in Seq(Routes) /\ todo[u] # <<>>
            BY <1>1 DEF DataInv, ListTypes, TryInv, ListsOf
        <3> QED
            BY <3>1, HeadTailProperties
    <2> QED
        BY <1>1, <1>2, <1>3, <1>4, <2>1, <2>2 DEF TryInv, EffectsOf, Early, Loop
<1>7. VerdictOf(u)'
    <2>1. dbErrors' = 0 => dbErrors = 0
        BY <1>1 DEF Grows
    <2> QED
        BY <1>1, <1>2, <1>4, <2>1 DEF TryInv, VerdictOf, Grows
<1>8. SingleOf(u)'
    BY <1>1, <1>2 DEF TryInv, SingleOf
<1> QED
    BY <1>5, <1>6, <1>7, <1>8 DEF TryInv

\* A step of handler t: its own part of the invariant is left to show.
LEMMA HandlerStep ==
    ASSUME DataInv, TypeOK', ListTypes', NEW t \in Tries, UNCHANGED <<message, sender>>, Grows,
           \A u \in Tries \ {t} : Leaves(u) /\ pc'[u] = pc[u],
           pc[t] # "none", pc'[t] # "none", TryInv(t)'
    PROVE  DataInv'
<1> USE DEF sender
<1>1. ASSUME NEW u \in Tries PROVE TryInv(u)' /\ SenderOf(u)'
    <2>1. TryInv(u)'
        <3>1. CASE u = t
            BY <3>1
        <3>2. CASE u # t
            BY <3>2, Frame
        <3> QED
            BY <3>1, <3>2
    <2>2. SenderOf(u)'
        BY DEF DataInv, SenderOf
    <2> QED
        BY <2>1, <2>2
<1>2. SenderInv'
    BY DEF DataInv, SenderInv
<1> QED
    BY <1>1, <1>2 DEF DataInv, TryInv

\* What the invariant says of a try, with the types of its variables.
LEMMA TryFacts ==
    ASSUME DataInv, NEW t \in Tries
    PROVE  /\ TryInv(t) /\ TypeOK /\ ListTypes
           /\ todo[t] \in Seq(Routes) /\ async[t] \in Seq(Routes)
           /\ IsInjective(todo[t]) /\ IsInjective(async[t])
           /\ rcpts \in Seq(Routes) /\ ToSet(rcpts) \subseteq Routes
           /\ ToSet(todo[t]) \subseteq ToSet(rcpts) /\ ToSet(async[t]) \subseteq ToSet(rcpts)
           /\ dbErrors \in Nat
           /\ pc \in [Tries -> PCs] /\ verdict \in [Tries -> Verdicts]
<1>1. TryInv(t) /\ TypeOK /\ ListTypes
    BY DEF DataInv, TryInv
<1>2. rcpts \in Seq(Routes) /\ ToSet(rcpts) \subseteq Routes
    BY <1>1, RecipientsLemma
<1>3. todo[t] \in Seq(Routes) /\ async[t] \in Seq(Routes)
    BY <1>1 DEF ListTypes
<1>4. /\ IsInjective(todo[t]) /\ IsInjective(async[t])
      /\ ToSet(todo[t]) \subseteq ToSet(rcpts) /\ ToSet(async[t]) \subseteq ToSet(rcpts)
    BY <1>1 DEF TryInv, ListsOf
<1>5. /\ dbErrors \in Nat /\ pc \in [Tries -> PCs] /\ verdict \in [Tries -> Verdicts]
    BY <1>1, BoundAssumption DEF TypeOK
<1> QED
    BY <1>1, <1>2, <1>3, <1>4, <1>5

\* A message that leaves its sets of recipients and routes as they are.
LEMMA SameMessage ==
    ASSUME UNCHANGED message
    PROVE  /\ ToSet(rcpts)' = ToSet(rcpts) /\ Order(rcpts)' = Order(rcpts)
           /\ \A mode : Targets(mode)' = Targets(mode)
BY DEF message, Targets

LEMMA ReadBodyStep ==
    ASSUME DataInv, NEW t \in Tries, ReadBody(t)
    PROVE  DataInv'
<1> USE DEF message, sender, store, webhook
<1>1. /\ TryInv(t) /\ TypeOK /\ ListTypes /\ dbErrors \in Nat /\ pc[t] = "read"
      /\ pc \in [Tries -> PCs] /\ verdict \in [Tries -> Verdicts]
    BY TryFacts DEF ReadBody
<1>2. PICK p \in {"log", "reply", "ended"} :
         /\ pc' = [pc EXCEPT ![t] = p]
         /\ p = "reply" => verdict' = [verdict EXCEPT ![t] = "552"]
         /\ p # "reply" => UNCHANGED verdict
    BY DEF ReadBody, Goto
<1>3. /\ UNCHANGED <<message, sender, todo, async, store, webhook, dbErrors, crashes>>
      /\ pc' \in [Tries -> PCs] /\ verdict' \in [Tries -> Verdicts]
      /\ pc'[t] = p /\ \A u \in Tries \ {t} : pc'[u] = pc[u] /\ verdict'[u] = verdict[u]
      /\ verdict'[t] = IF p = "reply" THEN "552" ELSE verdict[t]
    BY <1>1, <1>2 DEF ReadBody, PCs, Verdicts
<1>4. TypeOK' /\ ListTypes'
    BY <1>1, <1>3 DEF TypeOK, ListTypes
<1>5. TryInv(t)'
    <2>1. \A r : HandedOver(t, r)' <=> HandedOver(t, r)
        BY <1>3 DEF HandedOver
    <2>2. told[t] \in {"250", "451", "552"} => FALSE
        BY <1>1 DEF TryInv, VerdictOf
    <2> QED
        BY <1>1, <1>3, <2>1, <2>2, SameMessage
           DEF TryInv, ListsOf, EffectsOf, VerdictOf, SingleOf, Early, Loop
<1>6. \A u \in Tries \ {t} : Leaves(u)
    BY <1>3 DEF Leaves
<1> QED
    BY <1>1, <1>2, <1>3, <1>4, <1>5, <1>6, HandlerStep DEF Grows

\* One INSERT of row into table.
LEMMA InsertLemma ==
    ASSUME TypeOK, NEW enabled \in BOOLEAN, NEW table, NEW tableNew, NEW row, NEW ok \in BOOLEAN,
           IF enabled
           THEN DbStatement(ok) /\ tableNew = IF ok THEN table \cup {row} ELSE table
           ELSE ok /\ tableNew = table /\ UNCHANGED dbErrors
    PROVE  /\ tableNew \in {table, table \cup {row}}
           /\ ok /\ enabled => tableNew = table \cup {row}
           /\ ~ok => tableNew = table
           /\ dbErrors' = IF ok THEN dbErrors ELSE dbErrors + 1
           /\ dbErrors' \in 0 .. MaxDbErrors /\ dbErrors' \in {dbErrors, dbErrors + 1}
BY BoundAssumption DEF TypeOK, DbStatement

\* The lists of all tries are as TypeOK has them if those of the one that moved are.
LEMMA ListsKept ==
    ASSUME DataInv, NEW t \in Tries, ListTypes', IsInjective(todo'[t]), IsInjective(async'[t]),
           \A u \in Tries \ {t} : todo'[u] = todo[u] /\ async'[u] = async[u]
    PROVE  \A u \in Tries : /\ todo'[u] \in Seq(Routes) /\ IsInjective(todo'[u])
                            /\ async'[u] \in Seq(Routes) /\ IsInjective(async'[u])
<1> TAKE u \in Tries
<1>1. IsInjective(todo[u]) /\ IsInjective(async[u])
    BY TryFacts
<1> QED
    BY <1>1 DEF ListTypes

LEMMA LogMessageStep ==
    ASSUME DataInv, NEW t \in Tries, LogMessage(t)
    PROVE  DataInv'
<1> USE DEF message, sender, store, webhook
<1>1. /\ TryInv(t) /\ TypeOK /\ ListTypes /\ dbErrors \in Nat /\ pc[t] = "log"
      /\ rcpts \in Seq(Routes) /\ ToSet(rcpts) \subseteq Routes
      /\ pc \in [Tries -> PCs] /\ async[t] \in Seq(Routes) /\ async[t] = <<>> /\ verdict[t] = "none"
    <2>1. TryInv(t) /\ pc[t] = "log"
        BY TryFacts DEF LogMessage
    <2>2. async[t] = <<>> /\ verdict[t] = "none"
        BY <2>1 DEF TryInv, ListsOf, VerdictOf, Early
    <2> QED
        BY <2>1, <2>2, TryFacts
<1>2. PICK ok \in BOOLEAN : InsertIf(LogsMessage, messages, t, ok)
    BY DEF LogMessage
<1>3. messages' \in {messages, messages \cup {t}} /\ dbErrors' \in 0 .. MaxDbErrors /\ Grows
    BY <1>1, <1>2, InsertLemma, RouteAssumption DEF InsertIf, LogsMessage, Grows, LogMessage
<1>4. /\ Order(rcpts) \in Seq(Routes) /\ IsInjective(Order(rcpts))
      /\ ToSet(Order(rcpts)) = ToSet(rcpts)
    BY <1>1, OrderLemma
<1>5. /\ UNCHANGED <<message, sender, async, verdict, deliveries, queued, rejections, webhook, crashes>>
      /\ pc' \in [Tries -> PCs] /\ pc'[t] = "deliver"
      /\ todo' \in [Tries -> Seq(Routes)] /\ todo'[t] = Order(rcpts)
      /\ \A u \in Tries \ {t} : pc'[u] = pc[u] /\ todo'[u] = todo[u]
    BY <1>1, <1>4 DEF LogMessage, Goto, PCs, ListTypes
<1>6. IsInjective(todo'[t]) /\ ToSet(todo'[t]) = ToSet(rcpts)
    BY <1>4, <1>5
<1>7. ListTypes'
    BY <1>1, <1>5 DEF ListTypes
<1>8. \A u \in Tries : /\ todo'[u] \in Seq(Routes) /\ IsInjective(todo'[u])
                       /\ async'[u] \in Seq(Routes) /\ IsInjective(async'[u])
    <2>1. IsInjective(async'[t])
        BY <1>5, TryFacts
    <2> QED
        BY <1>5, <1>6, <1>7, <2>1, ListsKept
<1>9. TypeOK'
    BY <1>1, <1>3, <1>5, <1>8 DEF TypeOK
<1>10. TryInv(t)'
    <2>1. ToSet(async'[t]) = {} /\ IsInjective(async'[t])
        BY <1>1, <1>5, <1>8 DEF ToSet
    <2>2. ToSet(rcpts)' = ToSet(rcpts) /\ Targets("sync")' = Targets("sync")
          /\ Targets("async")' = Targets("async") /\ Order(rcpts)' = Order(rcpts)
        BY <1>5, SameMessage
    <2>3. \A r \in Routes : <<t, r>> \notin queued /\ <<t, r>> \notin acked
        BY <1>1 DEF TryInv, EffectsOf, Early
    <2>4. ListsOf(t)'
        BY <1>5, <1>6, <2>1, <2>2 DEF ListsOf, Early
    <2>5. EffectsOf(t)'
        BY <1>5, <1>6, <2>2, <2>3 DEF EffectsOf, Early, Loop
    <2>6. VerdictOf(t)'
        BY <1>1, <1>5 DEF TryInv, VerdictOf
    <2>7. SingleOf(t)'
        BY <1>5, <2>3 DEF SingleOf
    <2> QED
        BY <2>4, <2>5, <2>6, <2>7 DEF TryInv
<1>11. \A u \in Tries \ {t} : Leaves(u)
    BY <1>5 DEF Leaves
<1> QED
    BY <1>1, <1>3, <1>5, <1>7, <1>9, <1>10, <1>11, HandlerStep

LEMMA SkipRouteStep ==
    ASSUME DataInv, NEW t \in Tries, SkipRoute(t)
    PROVE  DataInv'
<1> USE DEF message, sender, store, webhook
<1> DEFINE h == Head(todo[t])
<1>1. /\ TryInv(t) /\ TypeOK /\ ListTypes /\ dbErrors \in Nat
      /\ pc[t] = "deliver" /\ todo[t] # <<>> /\ todo[t] \in Seq(Routes) /\ async[t] \in Seq(Routes)
      /\ IsInjective(todo[t]) /\ IsInjective(async[t])
      /\ ToSet(todo[t]) \subseteq ToSet(rcpts) /\ ToSet(rcpts) \subseteq Routes
      /\ Mode[h] # "sync"
    BY TryFacts DEF SkipRoute
<1>2. /\ h \in ToSet(todo[t]) /\ h \in Routes
      /\ Tail(todo[t]) \in Seq(Routes) /\ IsInjective(Tail(todo[t]))
      /\ ToSet(Tail(todo[t])) = ToSet(todo[t]) \ {h}
    BY <1>1, TailLemma
<1> HIDE DEF h
<1>3. h \notin ToSet(async[t]) /\ <<t, h>> \notin queued
    BY <1>1, <1>2 DEF TryInv, ListsOf, EffectsOf, Loop
<1>4. /\ Append(async[t], h) \in Seq(Routes) /\ IsInjective(Append(async[t], h))
      /\ ToSet(Append(async[t], h)) = ToSet(async[t]) \cup {h}
    BY <1>1, <1>2, <1>3, AppendLemma
<1>5. /\ UNCHANGED <<message, sender, pc, verdict, store, webhook, dbErrors, crashes>>
      /\ todo' \in [Tries -> Seq(Routes)] /\ todo'[t] = Tail(todo[t])
      /\ async' \in [Tries -> Seq(Routes)]
      /\ async'[t] = IF Mode[h] = "async" THEN Append(async[t], h) ELSE async[t]
      /\ \A u \in Tries \ {t} : todo'[u] = todo[u] /\ async'[u] = async[u]
    BY <1>1, <1>2, <1>4 DEF SkipRoute, ListTypes, h
<1>6. /\ IsInjective(todo'[t]) /\ ToSet(todo'[t]) = ToSet(todo[t]) \ {h}
      /\ IsInjective(async'[t])
      /\ ToSet(async'[t]) = IF Mode[h] = "async" THEN ToSet(async[t]) \cup {h} ELSE ToSet(async[t])
    BY <1>1, <1>2, <1>4, <1>5
<1>7. ListTypes' /\ TypeOK'
    <2>1. ListTypes'
        BY <1>5 DEF ListTypes
    <2> QED
        BY <1>1, <1>5, <1>6, <2>1, ListsKept DEF TypeOK
<1>8. TryInv(t)'
    <2>1. /\ ToSet(rcpts)' = ToSet(rcpts) /\ Targets("sync")' = Targets("sync")
          /\ Targets("async")' = Targets("async") /\ Order(rcpts)' = Order(rcpts)
        BY <1>5, SameMessage
    <2>2. \A r : HandedOver(t, r)' <=> HandedOver(t, r)
        BY <1>5 DEF HandedOver
    <2>3. Mode[h] \in {"async", "capture"}
        BY <1>1, <1>2, BoundLemma
    <2>4. ListsOf(t)'
        BY <1>1, <1>2, <1>3, <1>5, <1>6, <2>1 DEF TryInv, ListsOf, Early
    <2>5. EffectsOf(t)'
        <3>1. ASSUME NEW r \in ToSet(rcpts)
              PROVE  r \in ToSet(todo'[t]) \cup ToSet(async'[t]) \/ HandedOver(t, r)
            <4>1. r \in ToSet(todo[t]) \cup ToSet(async[t]) \/ HandedOver(t, r)
                BY <1>1 DEF TryInv, EffectsOf, Loop
            <4>2. Mode[h] = "capture" => HandedOver(t, h)
                BY DEF HandedOver
            <4> QED
                BY <1>6, <2>3, <4>1, <4>2
        <3> QED
            BY <1>1, <1>5, <2>1, <2>2, <3>1 DEF TryInv, EffectsOf, Early, Loop
    <2>6. VerdictOf(t)'
        BY <1>1, <1>5, <2>1, <2>2 DEF TryInv, VerdictOf
    <2>7. SingleOf(t)'
        BY <1>1, <1>5, <2>1 DEF TryInv, SingleOf
    <2> QED
        BY <2>4, <2>5, <2>6, <2>7 DEF TryInv
<1>9. \A u \in Tries \ {t} : Leaves(u)
    BY <1>5 DEF Leaves
<1> QED
    BY <1>1, <1>5, <1>7, <1>8, <1>9, HandlerStep DEF Grows

LEMMA PostSyncStep ==
    ASSUME DataInv, NEW t \in Tries, PostSync(t)
    PROVE  DataInv'
<1> USE DEF message, sender, store, webhook
<1>1. /\ TryInv(t) /\ TypeOK /\ ListTypes /\ dbErrors \in Nat
      /\ pc[t] = "deliver" /\ todo[t] # <<>> /\ Mode[Head(todo[t])] = "sync"
    BY TryFacts DEF PostSync
<1>2. /\ UNCHANGED <<message, sender, todo, async, verdict, store, webhook, dbErrors, crashes>>
      /\ pc' \in [Tries -> PCs] /\ pc'[t] = "posting"
      /\ \A u \in Tries \ {t} : pc'[u] = pc[u]
    BY <1>1 DEF PostSync, Goto, PCs, TypeOK
<1>3. TypeOK' /\ ListTypes'
    BY <1>1, <1>2 DEF TypeOK, ListTypes
<1>4. TryInv(t)'
    <2>1. \A r : HandedOver(t, r)' <=> HandedOver(t, r)
        BY <1>2 DEF HandedOver
    <2> QED
        BY <1>1, <1>2, <2>1, SameMessage
           DEF TryInv, ListsOf, EffectsOf, VerdictOf, SingleOf, Early, Loop
<1>5. \A u \in Tries \ {t} : Leaves(u)
    BY <1>2 DEF Leaves
<1> QED
    BY <1>1, <1>2, <1>3, <1>4, <1>5, HandlerStep DEF Grows

LEMMA AnswerSyncStep ==
    ASSUME DataInv, NEW t \in Tries, AnswerSync(t)
    PROVE  DataInv'
<1> USE DEF message, sender, store, webhook
<1> DEFINE h == Head(todo[t])
<1>1. /\ TryInv(t) /\ TypeOK /\ ListTypes /\ dbErrors \in Nat
      /\ pc[t] = "posting" /\ todo[t] # <<>> /\ todo[t] \in Seq(Routes)
      /\ ToSet(todo[t]) \subseteq ToSet(rcpts) /\ ToSet(rcpts) \subseteq Routes
      /\ IsInjective(todo[t])
    BY TryFacts DEF AnswerSync, TryInv, ListsOf
<1>2. Mode[h] = "sync"
    BY <1>1 DEF TryInv, ListsOf
<1>3. h \in ToSet(todo[t]) /\ h \in Routes
    BY <1>1, TailLemma
<1> HIDE DEF h
<1>4. /\ UNCHANGED <<message, sender, todo, async, verdict, store, dbErrors, crashes>>
      /\ processed' \in {processed, processed \cup {<<t, h>>}}
      /\ pc' \in [Tries -> PCs] /\ \A u \in Tries \ {t} : pc'[u] = pc[u]
      /\ \/ pc'[t] = "answered" /\ acked' = acked \cup {<<t, h>>}
         \/ pc'[t] = "refused" /\ acked' = acked
    BY <1>1 DEF AnswerSync, Goto, PCs, TypeOK, h
<1>5. TypeOK' /\ ListTypes'
    BY <1>1, <1>3, <1>4 DEF TypeOK, ListTypes
<1>6. TryInv(t)'
    <2>1. /\ ToSet(rcpts)' = ToSet(rcpts) /\ Targets("sync")' = Targets("sync")
          /\ Targets("async")' = Targets("async") /\ Order(rcpts)' = Order(rcpts)
        BY <1>4, SameMessage
    <2>2. \A r : HandedOver(t, r) => HandedOver(t, r)'
        BY <1>4 DEF HandedOver
    <2>3. h \in Targets("sync")
        BY <1>1, <1>2, <1>3 DEF Targets
    <2>4. ListsOf(t)'
        BY <1>1, <1>4, <2>1 DEF TryInv, ListsOf, Early
    <2>5. EffectsOf(t)'
        BY <1>1, <1>4, <2>1, <2>2, <2>3 DEF TryInv, EffectsOf, Early, Loop, h
    <2>6. VerdictOf(t)'
        BY <1>1, <1>4, <2>1, <2>2 DEF TryInv, VerdictOf
    <2>7. SingleOf(t)'
        <3>1. verdict[t] # "451"
            BY <1>1 DEF TryInv, VerdictOf
        <3> QED
            BY <1>1, <1>4, <2>1, <3>1 DEF TryInv, SingleOf
    <2> QED
        BY <2>4, <2>5, <2>6, <2>7 DEF TryInv
<1>7. \A u \in Tries \ {t} : Leaves(u)
    BY <1>4 DEF Leaves
<1> QED
    BY <1>1, <1>4, <1>5, <1>6, <1>7, HandlerStep DEF Grows

\* A message of one route has no other.
LEMMA OneRecipient ==
    ASSUME TypeOK, Len(Order(rcpts)) = 1, NEW h \in ToSet(rcpts)
    PROVE  ToSet(rcpts) = {h}
<1>1. rcpts \in Seq(Routes)
    BY RecipientsLemma
<1>2. Order(rcpts) \in Seq(Routes) /\ ToSet(Order(rcpts)) = ToSet(rcpts)
    BY <1>1, OrderLemma
<1>3. DOMAIN Order(rcpts) = 1 .. 1
    BY <1>2, LenProperties
<1> QED
    BY <1>2, <1>3 DEF ToSet

LEMMA LogSyncStep ==
    ASSUME DataInv, NEW t \in Tries, LogSync(t)
    PROVE  DataInv'
<1> USE DEF message, sender, store, webhook
<1> DEFINE h == Head(todo[t])
           row == [id |-> t, route |-> h, success |-> pc[t] = "answered"]
<1>1. /\ TryInv(t) /\ TypeOK /\ ListTypes /\ dbErrors \in Nat
      /\ pc[t] \in {"answered", "refused"} /\ todo[t] # <<>> /\ todo[t] \in Seq(Routes)
      /\ ToSet(todo[t]) \subseteq ToSet(rcpts) /\ ToSet(rcpts) \subseteq Routes
      /\ IsInjective(todo[t]) /\ IsInjective(async[t])
    BY TryFacts DEF LogSync, TryInv, ListsOf
<1>2. Mode[h] = "sync"
    BY <1>1 DEF TryInv, ListsOf
<1>3. /\ h \in ToSet(todo[t]) /\ h \in Routes
      /\ Tail(todo[t]) \in Seq(Routes) /\ IsInjective(Tail(todo[t]))
      /\ ToSet(Tail(todo[t])) = ToSet(todo[t]) \ {h}
    BY <1>1, TailLemma
<1>4. PICK ok \in BOOLEAN :
         /\ InsertIf(LogContent, deliveries, row, ok)
         /\ IF SyncFailed(t, ok)
            THEN Goto(t, "reject") /\ UNCHANGED todo
            ELSE Goto(t, "deliver") /\ todo' = [todo EXCEPT ![t] = Tail(@)]
    BY DEF LogSync
<1>5. /\ deliveries' \in {deliveries, deliveries \cup {row}}
      /\ dbErrors' \in 0 .. MaxDbErrors /\ dbErrors' \in {dbErrors, dbErrors + 1}
    BY <1>1, <1>4, InsertLemma, RouteAssumption DEF InsertIf
<1>6. row \in [id : Tries, route : Routes, success : BOOLEAN]
    BY <1>3
<1>7. /\ UNCHANGED <<message, sender, async, verdict, messages, queued, rejections, webhook, crashes>>
      /\ pc' \in [Tries -> PCs] /\ todo' \in [Tries -> Seq(Routes)]
      /\ \A u \in Tries \ {t} : pc'[u] = pc[u] /\ todo'[u] = todo[u]
      /\ \/ pc[t] = "answered" /\ pc'[t] = "deliver" /\ todo'[t] = Tail(todo[t])
         \/ pc[t] = "refused" /\ pc'[t] = "reject" /\ todo'[t] = todo[t]
    BY <1>1, <1>3, <1>4 DEF LogSync, SyncFailed, Goto, PCs, TypeOK, ListTypes
<1>8. IsInjective(todo'[t]) /\ IsInjective(async'[t])
    BY <1>1, <1>3, <1>7
<1>9. ListTypes' /\ TypeOK'
    <2>1. ListTypes'
        BY <1>1, <1>7 DEF ListTypes
    <2>2. deliveries' \subseteq [id : Tries, route : Routes, success : BOOLEAN]
        <3> HIDE DEF row
        <3> QED
            BY <1>1, <1>5, <1>6 DEF TypeOK
    <2>3. \A u \in Tries : /\ todo'[u] \in Seq(Routes) /\ IsInjective(todo'[u])
                           /\ async'[u] \in Seq(Routes) /\ IsInjective(async'[u])
        BY <1>7, <1>8, <2>1, ListsKept
    <2> QED
        BY <1>1, <1>5, <1>7, <2>1, <2>2, <2>3 DEF TypeOK
<1> HIDE DEF h, row
<1>10. TryInv(t)'
    <2>1. /\ ToSet(rcpts)' = ToSet(rcpts) /\ Targets("sync")' = Targets("sync")
          /\ Targets("async")' = Targets("async") /\ Order(rcpts)' = Order(rcpts)
        BY <1>7, SameMessage
    <2>2. \A r : HandedOver(t, r)' <=> HandedOver(t, r)
        BY <1>7 DEF HandedOver
    <2>3. pc[t] = "answered" => <<t, h>> \in acked /\ HandedOver(t, h)
        BY <1>1, <1>2 DEF TryInv, EffectsOf, HandedOver, h
    <2>4. ListsOf(t)'
        BY <1>1, <1>3, <1>7, <1>8, <2>1 DEF TryInv, ListsOf, Early
    <2>5. EffectsOf(t)'
        <3>1. ASSUME NEW r \in ToSet(rcpts), pc[t] = "answered"
              PROVE  r \in ToSet(todo'[t]) \cup ToSet(async'[t]) \/ HandedOver(t, r)
            <4>1. r \in ToSet(todo[t]) \cup ToSet(async[t]) \/ HandedOver(t, r)
                BY <1>1 DEF TryInv, EffectsOf, Loop
            <4>2. ToSet(todo'[t]) = ToSet(todo[t]) \ {h} /\ async'[t] = async[t]
                BY <1>3, <1>7, <3>1
            <4> QED
                BY <2>3, <3>1, <4>1, <4>2
        <3> QED
            BY <1>1, <1>7, <2>1, <2>2, <3>1 DEF TryInv, EffectsOf, Early, Loop
    <2>6. VerdictOf(t)'
        BY <1>1, <1>7, <2>1, <2>2 DEF TryInv, VerdictOf
    <2>7. SingleOf(t)'
        <3>1. verdict[t] # "451"
            BY <1>1 DEF TryInv, VerdictOf
        <3>2. Len(Order(rcpts)) = 1 => Tail(todo[t]) = <<>>
            <4>1. Len(Order(rcpts)) = 1 => ToSet(rcpts) = {h}
                BY <1>1, <1>3, OneRecipient
            <4> QED
                BY <1>1, <4>1, OneRouteLemma
        <3> QED
            BY <1>1, <1>7, <2>1, <3>1, <3>2 DEF TryInv, SingleOf
    <2> QED
        BY <2>4, <2>5, <2>6, <2>7 DEF TryInv
<1>11. \A u \in Tries \ {t} : Leaves(u)
    BY <1>7 DEF Leaves
<1> QED
    BY <1>1, <1>5, <1>7, <1>9, <1>10, <1>11, HandlerStep DEF Grows

LEMMA EndDeliverStep ==
    ASSUME DataInv, NEW t \in Tries, EndDeliver(t)
    PROVE  DataInv'
<1> USE DEF message, sender, store, webhook
<1>1. /\ TryInv(t) /\ TypeOK /\ ListTypes /\ dbErrors \in Nat
      /\ pc[t] = "deliver" /\ todo[t] = <<>> /\ async[t] \in Seq(Routes)
      /\ ToSet(async[t]) \subseteq ToSet(rcpts) /\ ToSet(rcpts) \subseteq Routes
    BY TryFacts DEF EndDeliver
<1>2. /\ UNCHANGED <<message, sender, todo, async, verdict, store, webhook, dbErrors, crashes>>
      /\ pc' \in [Tries -> PCs] /\ pc'[t] = "enqueue"
      /\ \A u \in Tries \ {t} : pc'[u] = pc[u]
    BY <1>1 DEF EndDeliver, Goto, PCs, TypeOK
<1>3. TypeOK' /\ ListTypes'
    BY <1>1, <1>2 DEF TypeOK, ListTypes
<1>4. TryInv(t)'
    <2>1. \A r : HandedOver(t, r)' <=> HandedOver(t, r)
        BY <1>2 DEF HandedOver
    <2>2. /\ ToSet(rcpts)' = ToSet(rcpts) /\ Targets("sync")' = Targets("sync")
          /\ Targets("async")' = Targets("async") /\ Order(rcpts)' = Order(rcpts)
        BY <1>2, SameMessage
    <2>3. ListsOf(t)' /\ EffectsOf(t)' /\ VerdictOf(t)'
        BY <1>1, <1>2, <2>1, <2>2 DEF TryInv, ListsOf, EffectsOf, VerdictOf, Early, Loop
    <2>4. ASSUME Len(Order(rcpts)) = 1, NEW r \in Routes, <<t, r>> \in acked
          PROVE  async[t] = <<>>
        <3>1. r \in ToSet(rcpts) /\ Mode[r] = "sync"
            BY <1>1, <2>4 DEF TryInv, EffectsOf, Targets
        <3>2. ToSet(rcpts) = {r}
            BY <1>1, <2>4, <3>1, OneRecipient
        <3>3. ToSet(async[t]) = {}
            BY <1>1, <3>1, <3>2 DEF TryInv, ListsOf
        <3>4. async[t] # <<>> => Head(async[t]) \in ToSet(async[t])
            BY <1>1, TryFacts, TailLemma
        <3> QED
            BY <3>3, <3>4
    <2>5. SingleOf(t)'
        <3>1. \A r \in Routes : <<t, r>> \notin queued
            BY <1>1 DEF TryInv, EffectsOf, Loop
        <3> QED
            BY <1>1, <1>2, <2>2, <2>4, <3>1 DEF TryInv, SingleOf
    <2> QED
        BY <2>3, <2>5 DEF TryInv
<1>5. \A u \in Tries \ {t} : Leaves(u)
    BY <1>2 DEF Leaves
<1> QED
    BY <1>1, <1>2, <1>3, <1>4, <1>5, HandlerStep DEF Grows

LEMMA EnqueueRouteStep ==
    ASSUME DataInv, NEW t \in Tries, EnqueueRoute(t)
    PROVE  DataInv'
<1> USE DEF message, sender, store, webhook
<1> DEFINE h == Head(async[t])
<1>1. /\ TryInv(t) /\ TypeOK /\ ListTypes /\ dbErrors \in Nat
      /\ pc[t] = "enqueue" /\ async[t] # <<>> /\ async[t] \in Seq(Routes) /\ todo[t] = <<>>
      /\ ToSet(async[t]) \subseteq ToSet(rcpts) /\ ToSet(rcpts) \subseteq Routes
      /\ IsInjective(todo[t]) /\ IsInjective(async[t])
    BY TryFacts DEF EnqueueRoute, TryInv, ListsOf
<1>2. /\ h \in ToSet(async[t]) /\ h \in Routes
      /\ Tail(async[t]) \in Seq(Routes) /\ IsInjective(Tail(async[t]))
      /\ ToSet(Tail(async[t])) = ToSet(async[t]) \ {h}
    BY <1>1, TailLemma
<1>3. Mode[h] = "async"
    BY <1>1, <1>2 DEF TryInv, ListsOf
<1>4. PICK ok \in BOOLEAN : /\ InsertIf(TRUE, queued, <<t, h>>, ok)
                            /\ Goto(t, IF ok THEN "enqueue" ELSE OnEnqueueError)
    BY DEF EnqueueRoute
<1>5. /\ queued' \in {queued, queued \cup {<<t, h>>}}
      /\ ok => queued' = queued \cup {<<t, h>>}
      /\ ~ok => queued' = queued
      /\ dbErrors' \in 0 .. MaxDbErrors /\ dbErrors' \in {dbErrors, dbErrors + 1}
    BY <1>1, <1>4, InsertLemma DEF InsertIf
<1>6. /\ UNCHANGED <<message, sender, todo, verdict, messages, deliveries, rejections, webhook, crashes>>
      /\ pc' \in [Tries -> PCs] /\ async' \in [Tries -> Seq(Routes)]
      /\ \A u \in Tries \ {t} : pc'[u] = pc[u] /\ async'[u] = async[u]
      /\ async'[t] = Tail(async[t])
      /\ pc'[t] = IF ok THEN "enqueue" ELSE "reject"
    BY <1>1, <1>2, <1>4 DEF EnqueueRoute, OnEnqueueError, Goto, PCs, TypeOK, ListTypes
<1>7. IsInjective(todo'[t]) /\ IsInjective(async'[t]) /\ ToSet(async'[t]) = ToSet(async[t]) \ {h}
    BY <1>1, <1>2, <1>6
<1>8. ListTypes' /\ TypeOK'
    <2>1. ListTypes'
        BY <1>1, <1>6 DEF ListTypes
    <2>2. queued' \subseteq Tries \X Routes
        BY <1>1, <1>2, <1>5 DEF TypeOK
    <2>3. \A u \in Tries : /\ todo'[u] \in Seq(Routes) /\ IsInjective(todo'[u])
                           /\ async'[u] \in Seq(Routes) /\ IsInjective(async'[u])
        BY <1>6, <1>7, <2>1, ListsKept
    <2> QED
        BY <1>1, <1>5, <1>6, <2>1, <2>2, <2>3 DEF TypeOK
<1> HIDE DEF h
<1>9. TryInv(t)'
    <2>1. /\ ToSet(rcpts)' = ToSet(rcpts) /\ Targets("sync")' = Targets("sync")
          /\ Targets("async")' = Targets("async") /\ Order(rcpts)' = Order(rcpts)
        BY <1>6, SameMessage
    <2>2. \A r : HandedOver(t, r) => HandedOver(t, r)'
        BY <1>5, <1>6 DEF HandedOver
    <2>3. \A r : ok /\ r = h => HandedOver(t, r)'
        BY <1>3, <1>5 DEF HandedOver
    <2>4. ListsOf(t)'
        BY <1>1, <1>5, <1>6, <1>7, <2>1 DEF TryInv, ListsOf, Early
    <2>5. EffectsOf(t)'
        <3>1. h \in Targets("async")
            BY <1>1, <1>2, <1>3 DEF Targets
        <3>2. \A q \in Targets("sync") : <<t, q>> \in acked
            <4> TAKE q \in Targets("sync")
            <4>1. q \in ToSet(rcpts) /\ Mode[q] = "sync" /\ q \notin ToSet(todo[t])
                BY <1>1 DEF Targets, ToSet
            <4>2. q \notin ToSet(async[t])
                BY <1>1, <4>1 DEF TryInv, ListsOf
            <4>3. HandedOver(t, q)
                BY <1>1, <4>1, <4>2 DEF TryInv, EffectsOf
            <4> QED
                BY <4>1, <4>3 DEF HandedOver
        <3>3. ASSUME NEW r \in ToSet(rcpts), ok
              PROVE  r \in ToSet(todo'[t]) \cup ToSet(async'[t]) \/ HandedOver(t, r)'
            <4>1. r \in ToSet(todo[t]) \cup ToSet(async[t]) \/ HandedOver(t, r)
                BY <1>1 DEF TryInv, EffectsOf, Loop
            <4> QED
                BY <1>6, <1>7, <2>2, <2>3, <3>3, <4>1
        <3>4. pc'[t] \notin Early \cup Loop
            BY <1>6 DEF Early, Loop
        <3> QED
            BY <1>1, <1>5, <1>6, <2>1, <3>1, <3>2, <3>3, <3>4 DEF TryInv, EffectsOf, Early, Loop
    <2>6. VerdictOf(t)'
        BY <1>1, <1>6, <2>1 DEF TryInv, VerdictOf
    <2>7. SingleOf(t)'
        <3>1. verdict[t] # "451"
            BY <1>1 DEF TryInv, VerdictOf
        <3>2. Len(Order(rcpts)) = 1 => Tail(async[t]) = <<>>
            <4>1. Len(Order(rcpts)) = 1 => ToSet(rcpts) = {h}
                BY <1>1, <1>2, OneRecipient
            <4> QED
                BY <1>1, <4>1, OneRouteLemma
        <3> QED
            BY <1>1, <1>5, <1>6, <2>1, <3>1, <3>2 DEF TryInv, SingleOf
    <2> QED
        BY <2>4, <2>5, <2>6, <2>7 DEF TryInv
<1>10. \A u \in Tries \ {t} : Leaves(u)
    BY <1>5, <1>6 DEF Leaves
<1> QED
    BY <1>1, <1>5, <1>6, <1>8, <1>9, <1>10, HandlerStep DEF Grows

LEMMA AcceptStep ==
    ASSUME DataInv, NEW t \in Tries, Accept(t)
    PROVE  DataInv'
<1> USE DEF message, sender, store, webhook
<1>1. /\ TryInv(t) /\ TypeOK /\ ListTypes /\ dbErrors \in Nat
      /\ pc[t] = "enqueue" /\ async[t] = <<>> /\ todo[t] = <<>>
    BY TryFacts DEF Accept, TryInv, ListsOf
<1>2. /\ UNCHANGED <<message, sender, todo, async, store, webhook, dbErrors, crashes>>
      /\ pc' \in [Tries -> PCs] /\ pc'[t] = "reply"
      /\ verdict' \in [Tries -> Verdicts] /\ verdict'[t] = "250"
      /\ \A u \in Tries \ {t} : pc'[u] = pc[u] /\ verdict'[u] = verdict[u]
    BY <1>1 DEF Accept, Goto, PCs, Verdicts, TypeOK
<1>3. TypeOK' /\ ListTypes'
    BY <1>1, <1>2 DEF TypeOK, ListTypes
<1>4. TryInv(t)'
    <2>1. \A r : HandedOver(t, r)' <=> HandedOver(t, r)
        BY <1>2 DEF HandedOver
    <2>2. /\ ToSet(rcpts)' = ToSet(rcpts) /\ Targets("sync")' = Targets("sync")
          /\ Targets("async")' = Targets("async") /\ Order(rcpts)' = Order(rcpts)
        BY <1>2, SameMessage
    <2>3. \A r \in ToSet(rcpts) : HandedOver(t, r)
        BY <1>1 DEF TryInv, EffectsOf, ToSet
    <2>4. told[t] \notin {"250", "451", "552"}
        BY <1>1 DEF TryInv, VerdictOf
    <2> QED
        BY <1>1, <1>2, <2>1, <2>2, <2>3, <2>4
           DEF TryInv, ListsOf, EffectsOf, VerdictOf, SingleOf, Early, Loop
<1>5. \A u \in Tries \ {t} : Leaves(u)
    BY <1>2 DEF Leaves
<1> QED
    BY <1>1, <1>2, <1>3, <1>4, <1>5, HandlerStep DEF Grows

LEMMA RejectStep ==
    ASSUME DataInv, NEW t \in Tries, Reject(t)
    PROVE  DataInv'
<1> USE DEF message, sender, store, webhook
<1>1. /\ TryInv(t) /\ TypeOK /\ ListTypes /\ dbErrors \in Nat /\ pc[t] = "reject"
    BY TryFacts DEF Reject
<1>2. PICK ok \in BOOLEAN : InsertIf(LogRejections, rejections, t, ok)
    BY DEF Reject
<1>3. /\ rejections' \in {rejections, rejections \cup {t}}
      /\ ok /\ LogRejections => t \in rejections'
      /\ dbErrors' \in 0 .. MaxDbErrors /\ dbErrors' \in {dbErrors, dbErrors + 1}
      /\ ~ok => dbErrors' = dbErrors + 1
    <2>1. LogRejections \in BOOLEAN
        BY RouteAssumption
    <2>2. IF LogRejections
          THEN DbStatement(ok) /\ rejections' = IF ok THEN rejections \cup {t} ELSE rejections
          ELSE ok /\ rejections' = rejections /\ UNCHANGED dbErrors
        BY <1>2 DEF InsertIf
    <2>3. /\ dbErrors \in 0 .. MaxDbErrors /\ MaxDbErrors \in Nat
          /\ \/ ok /\ dbErrors' = dbErrors
             \/ ~ok /\ dbErrors < MaxDbErrors /\ dbErrors' = dbErrors + 1
        BY <1>1, <2>1, <2>2, BoundAssumption DEF TypeOK, DbStatement
    <2>4. dbErrors' \in 0 .. MaxDbErrors /\ dbErrors' \in {dbErrors, dbErrors + 1}
        BY ONLY <2>3
    <2>5. /\ rejections' \in {rejections, rejections \cup {t}}
          /\ ok /\ LogRejections => t \in rejections'
        BY ONLY <2>1, <2>2
    <2> QED
        BY ONLY <2>3, <2>4, <2>5
<1>4. /\ UNCHANGED <<message, sender, todo, async, messages, deliveries, queued, webhook, crashes>>
      /\ pc' \in [Tries -> PCs] /\ pc'[t] = "reply"
      /\ verdict' \in [Tries -> Verdicts] /\ verdict'[t] = "451"
      /\ \A u \in Tries \ {t} : pc'[u] = pc[u] /\ verdict'[u] = verdict[u]
    BY <1>1 DEF Reject, Goto, PCs, Verdicts, TypeOK
<1>5. TypeOK' /\ ListTypes'
    BY <1>1, <1>3, <1>4 DEF TypeOK, ListTypes
<1>6. TryInv(t)'
    <2>1. \A r : HandedOver(t, r)' <=> HandedOver(t, r)
        BY <1>4 DEF HandedOver
    <2>2. /\ ToSet(rcpts)' = ToSet(rcpts) /\ Targets("sync")' = Targets("sync")
          /\ Targets("async")' = Targets("async") /\ Order(rcpts)' = Order(rcpts)
        BY <1>4, SameMessage
    <2>3. told[t] \notin {"250", "451", "552"}
        BY <1>1 DEF TryInv, VerdictOf
    <2>4. LogRejections /\ dbErrors' = 0 => t \in rejections'
        BY <1>1, <1>3
    <2>5. ListsOf(t)' /\ EffectsOf(t)'
        BY <1>1, <1>4, <2>1, <2>2 DEF TryInv, ListsOf, EffectsOf, Early, Loop
    <2>6. VerdictOf(t)'
        BY <1>4, <2>3, <2>4 DEF VerdictOf
    <2>7. SingleOf(t)'
        BY <1>1, <1>4, <2>2 DEF TryInv, SingleOf
    <2> QED
        BY <2>5, <2>6, <2>7 DEF TryInv
<1>7. \A u \in Tries \ {t} : Leaves(u)
    BY <1>4 DEF Leaves
<1>8. Grows
    BY <1>3 DEF Grows
<1> QED
    BY <1>1, <1>4, <1>5, <1>6, <1>7, <1>8, HandlerStep

\* The reply, which the sender learns if it still waits for it.
LEMMA ReplyStep ==
    ASSUME DataInv, NEW t \in Tries, Reply(t)
    PROVE  DataInv'
<1> USE DEF message, sender, store, webhook
<1>1. /\ TryInv(t) /\ TypeOK /\ ListTypes /\ pc[t] = "reply" /\ try \in 0 .. MaxTries
      /\ verdict[t] \in {"250", "451", "552"} /\ told \in [Tries -> Verdicts \cup {"lost"}]
    <2>1. TryInv(t) /\ TypeOK /\ ListTypes /\ pc[t] = "reply" /\ verdict[t] \in Verdicts
        BY TryFacts DEF Reply
    <2> QED
        BY <2>1 DEF TryInv, VerdictOf, Verdicts, TypeOK
<1>2. /\ UNCHANGED <<message, try, todo, async, verdict, store, webhook, dbErrors, crashes>>
      /\ pc' \in [Tries -> PCs] /\ pc'[t] = "ended"
      /\ \A u \in Tries \ {t} : pc'[u] = pc[u]
    BY <1>1 DEF Reply, Goto, PCs, TypeOK
<1>3. \/ /\ client = "waiting" /\ try = t
         /\ told' = [told EXCEPT ![t] = verdict[t]]
         /\ \/ verdict[t] = "250" /\ client' = "done"
            \/ verdict[t] = "451" /\ client' = "ready"
            \/ verdict[t] = "552" /\ client' = "gaveup"
      \/ UNCHANGED <<told, client>>
    BY <1>1 DEF Reply
<1>4. /\ told' \in [Tries -> Verdicts \cup {"lost"}]
      /\ \A u \in Tries : told'[u] \in {told[u], verdict[u]}
      /\ \A u \in Tries \ {t} : told'[u] = told[u]
      /\ client' \in {"ready", "waiting", "done", "gaveup"}
    <2>1. verdict[t] \in Verdicts \cup {"lost"} /\ client \in {"ready", "waiting", "done", "gaveup"}
        BY <1>1 DEF Verdicts, TypeOK
    <2> QED
        BY <1>1, <1>3, <2>1
<1>5. TypeOK' /\ ListTypes'
    BY <1>1, <1>2, <1>4 DEF TypeOK, ListTypes
<1>6. ASSUME NEW u \in Tries PROVE TryInv(u)' /\ SenderOf(u)'
    <2>1. Leaves(u) /\ Grows /\ pc'[u] \in {pc[u], "ended"}
        BY <1>2 DEF Leaves, Grows
    <2>2. TryInv(u)'
        BY <1>2, <1>4, <2>1, Frame
    <2>3. SenderOf(u)'
        <3>1. SenderOf(u) /\ SenderOf(t) /\ t \in Nat
            BY BoundLemma DEF DataInv
        <3>2. t <= try
            BY <1>1, <3>1, BoundLemma DEF SenderOf
        <3> QED
            BY <1>1, <1>2, <1>3, <1>4, <3>1, <3>2 DEF SenderOf
    <2> QED
        BY <2>2, <2>3
<1>7. SenderInv'
    BY <1>1, <1>2, <1>3 DEF DataInv, SenderInv
<1> QED
    BY <1>5, <1>6, <1>7 DEF DataInv, TryInv

\* The sender's own steps, and the crash.
LEMMA SubmitStep ==
    ASSUME DataInv, Submit
    PROVE  DataInv'
<1> USE DEF message, sender, store, webhook, handler
<1>1. /\ TypeOK /\ ListTypes /\ client = "ready" /\ try \in Nat /\ try < MaxTries
      /\ try + 1 \in Tries
    <2>1. TypeOK /\ ListTypes /\ client = "ready" /\ try \in 0 .. MaxTries /\ try < MaxTries
        BY DEF DataInv, TypeOK, Submit
    <2>2. try + 1 \in 1 .. MaxTries
        BY <2>1, BoundLemma
    <2> QED
        BY <2>1, <2>2 DEF Tries
<1>2. /\ UNCHANGED <<message, told, todo, async, verdict, store, webhook, dbErrors, crashes>>
      /\ pc' \in [Tries -> PCs] /\ pc'[try + 1] = "read"
      /\ \A u \in Tries \ {try + 1} : pc'[u] = pc[u]
      /\ try' = try + 1 /\ client' = "waiting"
    BY <1>1 DEF Submit, PCs, TypeOK
<1>3. TypeOK' /\ ListTypes'
    <2>1. try' \in 0 .. MaxTries
        BY <1>1, <1>2, BoundLemma
    <2> QED
        BY <1>1, <1>2, <2>1 DEF TypeOK, ListTypes
<1>4. ASSUME NEW u \in Tries PROVE TryInv(u)' /\ SenderOf(u)'
    <2>1. TryInv(u) /\ SenderOf(u) /\ u \in Nat
        BY BoundLemma DEF DataInv, TryInv
    <2>2. Leaves(u) /\ Grows
        BY <1>2 DEF Leaves, Grows
    <2>3. CASE u # try + 1
        <3>1. TryInv(u)'
            BY <1>2, <2>2, <2>3, Frame
        <3>2. SenderOf(u)'
            <4>1. u < try + 1 => u < try \/ u = try
                BY <1>1, <2>1
            <4>2. try > 0 => told[try] \in {"lost", "451"}
                BY <1>1 DEF DataInv, SenderInv
            <4>3. u > try <=> u > try + 1
                BY <1>1, <2>1, <2>3
            <4>4. u > 0
                BY BoundLemma
            <4> QED
                BY <1>1, <1>2, <2>1, <2>3, <4>1, <4>2, <4>3, <4>4 DEF SenderOf
        <3> QED
            BY <3>1, <3>2
    <2>4. CASE u = try + 1
        <3>1. pc[u] = "none" /\ pc'[u] = "read" /\ told[u] = "none" /\ ~(u > try + 1) /\ ~(u < try + 1)
            BY <1>1, <1>2, <2>1, <2>4 DEF SenderOf
        <3>2. verdict[u] = "none"
            BY <2>1, <3>1 DEF TryInv, VerdictOf
        <3>3. \A r : HandedOver(u, r)' <=> HandedOver(u, r)
            BY <1>2 DEF HandedOver
        <3>4. TryInv(u)'
            BY <1>2, <2>1, <3>1, <3>2, <3>3, SameMessage
               DEF TryInv, ListsOf, EffectsOf, VerdictOf, SingleOf, Early, Loop
        <3>5. SenderOf(u)'
            BY <1>2, <3>1 DEF SenderOf
        <3> QED
            BY <3>4, <3>5
    <2> QED
        BY <2>3, <2>4
<1>5. SenderInv'
    <2>1. told[try + 1] = "none"
        BY <1>1 DEF DataInv, SenderOf
    <2> QED
        BY <1>1, <1>2, <2>1 DEF SenderInv
<1> QED
    BY <1>3, <1>4, <1>5 DEF DataInv, TryInv

\* The connection of the last try ends.
Hangup == client' = "ready" /\ told' = [told EXCEPT ![try] = "lost"]

LEMMA HangupLemma ==
    ASSUME DataInv, client = "waiting", Hangup
    PROVE  /\ try \in Tries /\ told' \in [Tries -> Verdicts \cup {"lost"}]
           /\ \A u \in Tries : told'[u] = IF u = try THEN "lost" ELSE told[u]
<1>1. try \in 0 .. MaxTries /\ try > 0 /\ told \in [Tries -> Verdicts \cup {"lost"}]
    BY DEF DataInv, TypeOK, SenderInv
<1>2. try \in Tries
    BY <1>1, BoundLemma DEF Tries
<1> QED
    BY <1>1, <1>2 DEF Hangup

LEMMA DisconnectStep ==
    ASSUME DataInv, Disconnect
    PROVE  DataInv'
<1> USE DEF message, sender, store, webhook, handler
<1>1. /\ try \in Tries /\ told' \in [Tries -> Verdicts \cup {"lost"}]
      /\ \A u \in Tries : told'[u] = IF u = try THEN "lost" ELSE told[u]
      /\ UNCHANGED <<message, try, handler, store, webhook, dbErrors, crashes>>
      /\ client' = "ready"
    BY HangupLemma DEF Disconnect, Hangup
<1>2. TypeOK' /\ ListTypes'
    BY <1>1 DEF DataInv, TypeOK, ListTypes
<1>3. ASSUME NEW u \in Tries PROVE TryInv(u)' /\ SenderOf(u)'
    <2>1. Leaves(u) /\ Grows
        BY <1>1 DEF Leaves, Grows
    <2>2. TryInv(u)'
        BY <1>1, <2>1, Frame
    <2>3. try \in Nat
        BY <1>1, BoundLemma
    <2>4. SenderOf(u)'
        BY <1>1, <2>3 DEF DataInv, SenderOf
    <2> QED
        BY <2>2, <2>4
<1>4. SenderInv'
    BY <1>1 DEF SenderInv
<1> QED
    BY <1>2, <1>3, <1>4 DEF DataInv, TryInv

LEMMA CrashStep ==
    ASSUME DataInv, Crash
    PROVE  DataInv'
<1> USE DEF message, sender, store, webhook, handler
<1>1. /\ UNCHANGED <<message, try, todo, async, verdict, store, webhook, dbErrors>>
      /\ crashes' \in 0 .. MaxCrashes
      /\ pc' = [t \in Tries |-> IF pc[t] = "none" THEN "none" ELSE "ended"]
      /\ \/ client = "waiting" /\ Hangup
         \/ client # "waiting" /\ UNCHANGED <<client, told>>
    BY BoundAssumption DEF Crash, DataInv, TypeOK, Hangup
<1>2. /\ told' \in [Tries -> Verdicts \cup {"lost"}]
      /\ \A u \in Tries : told'[u] \in {told[u], "lost"}
      /\ \A u \in Tries : told'[u] # told[u] => u = try
      /\ client' \in {"ready", "waiting", "done", "gaveup"}
    BY <1>1, HangupLemma DEF DataInv, TypeOK, Hangup
<1>3. /\ pc' \in [Tries -> PCs] /\ \A u \in Tries : pc'[u] \in {pc[u], "ended"}
      /\ \A u \in Tries : pc'[u] = "none" <=> pc[u] = "none"
    BY <1>1 DEF PCs
<1>4. TypeOK' /\ ListTypes'
    BY <1>1, <1>2, <1>3 DEF DataInv, TypeOK, ListTypes
<1>5. ASSUME NEW u \in Tries PROVE TryInv(u)' /\ SenderOf(u)'
    <2>1. Leaves(u) /\ Grows
        BY <1>1 DEF Leaves, Grows
    <2>2. TryInv(u)'
        BY <1>1, <1>2, <1>3, <2>1, Frame
    <2>3. try \in Nat
        BY BoundLemma DEF DataInv, TypeOK
    <2>4. SenderOf(u)'
        BY <1>1, <1>2, <1>3, <2>3 DEF DataInv, SenderOf
    <2> QED
        BY <2>2, <2>4
<1>6. SenderInv'
    <2>1. CASE client = "waiting" /\ Hangup
        BY <1>1, <2>1, HangupLemma DEF SenderInv, Hangup
    <2>2. CASE client # "waiting" /\ UNCHANGED <<client, told>>
        BY <1>1, <2>2 DEF DataInv, SenderInv
    <2> QED
        BY <1>1, <2>1, <2>2
<1> QED
    BY <1>4, <1>5, <1>6 DEF DataInv, TryInv

LEMMA InitDataInv == Init => DataInv
<1> SUFFICES ASSUME Init PROVE DataInv
    OBVIOUS
<1>1. TypeOK
    <2>1. 0 \in 0 .. MaxTries /\ 0 \in 0 .. MaxDbErrors /\ 0 \in 0 .. MaxCrashes
        BY BoundAssumption
    <2>2. <<>> \in Seq(Routes) /\ IsInjective(<<>>)
        BY DEF IsInjective
    <2>3. \A t \in Tries : /\ todo[t] \in Seq(Routes) /\ IsInjective(todo[t])
                           /\ async[t] \in Seq(Routes) /\ IsInjective(async[t])
        BY <2>2 DEF Init
    <2>4. /\ told \in [Tries -> Verdicts \cup {"lost"}] /\ pc \in [Tries -> PCs]
          /\ verdict \in [Tries -> Verdicts]
        BY DEF Init, PCs, Verdicts
    <2> QED
        BY <2>1, <2>3, <2>4 DEF Init, TypeOK
<1>2. ListTypes /\ SenderInv
    BY DEF Init, ListTypes, SenderInv
<1>3. ASSUME NEW t \in Tries
      PROVE  ListsOf(t) /\ EffectsOf(t) /\ VerdictOf(t) /\ SingleOf(t) /\ SenderOf(t)
    <2>1. /\ todo[t] = <<>> /\ async[t] = <<>> /\ ToSet(<<>>) = {} /\ IsInjective(<<>>)
          /\ pc[t] = "none" /\ verdict[t] = "none" /\ told[t] = "none" /\ try = 0
          /\ acked = {} /\ queued = {}
        BY DEF Init, ToSet, IsInjective
    <2>2. t > 0 /\ ~(t < 0)
        BY BoundLemma
    <2>3. ToSet(todo[t]) = {} /\ ToSet(async[t]) = {}
        BY <2>1
    <2>4. ListsOf(t)
        BY <2>1, <2>3 DEF ListsOf
    <2> QED
        BY <2>1, <2>2, <2>4 DEF EffectsOf, VerdictOf, SingleOf, SenderOf, Early, Loop
<1> QED
    BY <1>1, <1>2, <1>3 DEF DataInv

LEMMA NextDataInv == DataInv /\ [Next]_vars => DataInv'
<1> SUFFICES ASSUME DataInv, [Next]_vars PROVE DataInv'
    OBVIOUS
<1>1. CASE Submit
    BY <1>1, SubmitStep
<1>2. CASE Disconnect
    BY <1>2, DisconnectStep
<1>3. ASSUME NEW t \in Tries, Data(t) PROVE DataInv'
    BY <1>3, ReadBodyStep, LogMessageStep, SkipRouteStep, PostSyncStep, AnswerSyncStep,
       LogSyncStep, EndDeliverStep, EnqueueRouteStep, AcceptStep, RejectStep, ReplyStep DEF Data
<1>4. CASE Crash
    BY <1>4, CrashStep
<1>5. CASE UNCHANGED vars
    <2> USE <1>5 DEF vars, message, sender, handler, store, webhook
    <2>1. TypeOK' /\ ListTypes' /\ SenderInv'
        BY DEF DataInv, TypeOK, ListTypes, SenderInv
    <2>2. ASSUME NEW u \in Tries PROVE TryInv(u)' /\ SenderOf(u)'
        <3>1. Leaves(u) /\ Grows
            BY DEF Leaves, Grows
        <3>2. TryInv(u)'
            BY <3>1, Frame
        <3> QED
            BY <3>2 DEF DataInv, SenderOf
    <2> QED
        BY <2>1, <2>2 DEF DataInv, TryInv
<1> QED
    BY <1>1, <1>2, <1>3, <1>4, <1>5 DEF Next

LEMMA DataInvariant == Spec => []DataInv
BY InitDataInv, NextDataInv, PTL DEF Spec

-----------------------------------------------------------------------------
(***************************************************************************)
(* What session.Data guarantees.                                           *)
(***************************************************************************)
\* The variables keep their types, and a handler's lists never name a route twice:
\* however many recipients share a route, it is served once per try (Order, Data).
THEOREM SubmissionTypeOK == Spec => []TypeOK
<1>1. DataInv => TypeOK
    BY DEF DataInv
<1> QED
    BY <1>1, DataInvariant, PTL

\* A sender that was told 250 need not submit again: in that very try every sync
\* webhook answered 2xx and every async delivery was inserted into the queue,
\* whatever crashes, lost connections and failed statements there were (Data).
THEOREM AcceptedMailIsHandedOver == Spec => []AcceptedIsHandedOver
<1>1. DataInv => AcceptedIsHandedOver
    <2> SUFFICES ASSUME DataInv, NEW t \in Tries, told[t] = "250"
                 PROVE  /\ \A r \in Targets("sync") : <<t, r>> \in acked
                        /\ \A r \in Targets("async") : <<t, r>> \in queued
        BY DEF AcceptedIsHandedOver
    <2>1. \A r \in ToSet(rcpts) : HandedOver(t, r)
        BY DEF DataInv, VerdictOf
    <2> QED
        BY <2>1 DEF HandedOver, Targets
<1> QED
    BY <1>1, DataInvariant, PTL

\* No row is in the queue for a try in which a sync webhook has not answered 2xx:
\* a message refused for its sync route is not delivered elsewhere (Data collects
\* the async routes and inserts them last).
THEOREM AsyncAfterSync == Spec => []NoAsyncBeforeSync
<1>1. DataInv => NoAsyncBeforeSync
    <2> SUFFICES ASSUME DataInv, NEW e \in queued, NEW q \in Targets("sync")
                 PROVE  <<e[1], q>> \in acked
        BY DEF NoAsyncBeforeSync
    <2>1. PICK t \in Tries, r \in Routes : e = <<t, r>>
        BY DEF DataInv, TypeOK
    <2> QED
        BY <2>1 DEF DataInv, EffectsOf
<1> QED
    BY <1>1, DataInvariant, PTL

\* A refusal the sender was told of is in the rejections table, if that is enabled
\* and no statement failed (session.reject comes before the reply).
THEOREM ToldRefusalsAreRecorded == Spec => []RefusalsRecorded
<1>1. DataInv => RefusalsRecorded
    BY DEF DataInv, VerdictOf, RefusalsRecorded
<1> QED
    BY <1>1, DataInvariant, PTL

\* A message with one route may be submitted again after every refusal without
\* its webhook getting it twice, while no answer is lost on the way to the sender
\* or to the server (DeliverSync, Enqueue and the order of Data's steps).
THEOREM SingleRouteRetries == Spec => []SingleRouteRetryIsSafe
<1>1. DataInv => SingleRouteRetryIsSafe
    <2> SUFFICES ASSUME DataInv, Len(Order(rcpts)) = 1, \A t \in Tries : told[t] # "lost",
                        processed = acked
                 PROVE  Cardinality(acked \cup queued) <= 1
        BY DEF SingleRouteRetryIsSafe
    <2>1. TypeOK
        BY DEF DataInv
    <2>2. ASSUME NEW e \in acked \cup queued
          PROVE  e[1] = try /\ e = <<e[1], e[2]>> /\ e[2] \in ToSet(rcpts)
        <3>1. PICK t \in Tries, r \in Routes : e = <<t, r>>
            BY <2>1, <2>2 DEF TypeOK
        <3>2. TryInv(t) /\ SenderOf(t) /\ t \in Nat /\ try \in Nat
            BY <2>1, BoundLemma DEF DataInv, TryInv, TypeOK
        <3>3. r \in ToSet(rcpts)
            BY <2>2, <3>1, <3>2 DEF TryInv, EffectsOf, Targets
        <3>4. verdict[t] # "451"
            BY <2>2, <3>1, <3>2 DEF TryInv, SingleOf
        <3>5. ~(t < try)
            BY <3>2, <3>4 DEF TryInv, VerdictOf, SenderOf
        <3>6. ~(t > try)
            BY <2>2, <3>1, <3>2 DEF TryInv, EffectsOf, SenderOf, Early
        <3> QED
            BY <3>1, <3>2, <3>3, <3>5, <3>6
    <2>3. \A e, f \in acked \cup queued : e = f
        <3> TAKE e, f \in acked \cup queued
        <3>1. ToSet(rcpts) = {e[2]} /\ ToSet(rcpts) = {f[2]}
            BY <2>1, <2>2, OneRecipient
        <3> QED
            BY <2>2, <3>1
    <2>4. acked \cup queued = {} \/ \E e : acked \cup queued = {e}
        BY <2>3
    <2>5. Cardinality(acked \cup queued) = 0 \/ Cardinality(acked \cup queued) = 1
        BY <2>4, FS_EmptySet, FS_Singleton
    <2> QED
        BY <2>5
<1> QED
    BY <1>1, DataInvariant, PTL

-----------------------------------------------------------------------------
(***************************************************************************)
(* The server over the queue.                                              *)
(***************************************************************************)
\* A step of the server inserts one row at most, which is not there yet.
LEMMA QueuedStep ==
    ASSUME DataInv, [Next]_vars
    PROVE  \/ queued' = queued
           \/ \E j \in Tries \X Routes : j \notin queued /\ queued' = queued \cup {j}
<1> USE DEF vars, message, sender, handler, store, webhook
<1>1. ASSUME NEW t \in Tries, EnqueueRoute(t)
      PROVE  \/ queued' = queued
             \/ \E j \in Tries \X Routes : j \notin queued /\ queued' = queued \cup {j}
    <2>1. async[t] \in Seq(Routes) /\ async[t] # <<>> /\ IsInjective(async[t]) /\ TryInv(t)
        BY <1>1, TryFacts DEF EnqueueRoute
    <2>2. Head(async[t]) \in ToSet(async[t]) /\ Head(async[t]) \in Routes
        BY <2>1, TailLemma
    <2>3. <<t, Head(async[t])>> \in (Tries \X Routes) \ queued
        BY <2>1, <2>2 DEF TryInv, ListsOf
    <2>4. queued' = queued \/ queued' = queued \cup {<<t, Head(async[t])>>}
        BY <1>1 DEF EnqueueRoute, InsertIf
    <2> QED
        BY <2>3, <2>4
<1>2. CASE \E t \in Tries : Data(t) /\ ~EnqueueRoute(t)
    BY <1>2 DEF Data, ReadBody, LogMessage, SkipRoute, PostSync, AnswerSync, LogSync, EndDeliver,
                Accept, Reject, Reply
<1> QED
    BY <1>1, <1>2 DEF Next, Submit, Disconnect, Crash

\* The server is the one of Submission: the queue takes whatever it inserts.
THEOREM BridgeImplementsSubmission == BridgeSpec => Spec
<1>1. BridgeInit => Init
    BY DEF BridgeInit
<1>2. [BridgeNext]_bridge => [Next]_vars
    BY DEF BridgeNext, ServerStep, WorkerFails, WorkerSettles, bridge, vars
<1> QED
    BY <1>1, <1>2, PTL DEF BridgeSpec, Spec

LEMMA BridgeInvariant == BridgeSpec => []DataInv
BY BridgeImplementsSubmission, DataInvariant, PTL

\* And the queue is the one that DeliveryWorker implements: nobody but the server
\* and the worker touches it, in no way it does not promise.
THEOREM BridgeUsesTheQueue == BridgeSpec => Queue!Spec
<1>1. BridgeInit => Queue!Init
    BY DEF BridgeInit
<1>2. DataInv /\ [BridgeNext]_bridge => [Queue!Next]_(Queue!queue)
    <2> SUFFICES ASSUME DataInv, [BridgeNext]_bridge
                 PROVE  (\E j \in Tries \X Routes : Queue!Submit(j) \/ Queue!Fail(j)
                            \/ Queue!Leave(j) \/ Queue!LateConfirm(j))
                        \/ UNCHANGED <<status, fruitless>>
        BY DEF Queue!Next, Queue!queue
    <2>1. CASE ServerStep
        <3>1. queued' \ queued \subseteq Tries \X Routes
            BY <2>1, QueuedStep DEF ServerStep
        <3> QED
            BY <2>1, <3>1 DEF ServerStep, QueueFollows
    <2>2. ASSUME NEW j \in Tries \X Routes, WorkerFails(j) \/ WorkerSettles(j)
          PROVE  Queue!Fail(j) \/ Queue!Leave(j) \/ Queue!LateConfirm(j)
        BY <2>2 DEF WorkerFails, WorkerSettles, Queue!Leave
    <2> QED
        BY <2>1, <2>2 DEF BridgeNext, bridge
<1> QED
    BY <1>1, <1>2, BridgeInvariant, PTL DEF BridgeSpec, Queue!Spec

\* What the queue holds is what the server inserted.
QueueInv ==
    /\ status \in [Tries \X Routes -> {"new", "pending", "delivered", "failed", "unrouted"}]
    /\ \A j \in Tries \X Routes : status[j] # "new" <=> j \in queued

LEMMA BridgeQueueInv == BridgeSpec => []QueueInv
<1>1. BridgeInit => QueueInv
    BY DEF BridgeInit, Init, Queue!Init, QueueInv
<1>2. DataInv /\ QueueInv /\ [BridgeNext]_bridge => QueueInv'
    <2> SUFFICES ASSUME DataInv, QueueInv, [BridgeNext]_bridge PROVE QueueInv'
        OBVIOUS
    <2>1. CASE ServerStep
        <3>1. CASE queued' = queued
            BY <2>1, <3>1 DEF ServerStep, QueueFollows, QueueInv
        <3>2. CASE queued' # queued
            <4>1. PICK j \in Tries \X Routes : j \notin queued /\ queued' = queued \cup {j}
                BY <2>1, <3>2, QueuedStep DEF ServerStep
            <4>2. Queue!Submit(j)
                BY <2>1, <3>2, <4>1 DEF ServerStep, QueueFollows
            <4> QED
                BY <4>1, <4>2 DEF Queue!Submit, Queue!Becomes, QueueInv
        <3> QED
            BY <3>1, <3>2
    <2>2. ASSUME NEW j \in Tries \X Routes, WorkerFails(j) \/ WorkerSettles(j) PROVE QueueInv'
        <3>1. UNCHANGED queued
            BY <2>2 DEF WorkerFails, WorkerSettles, vars, store
        <3>2. \/ UNCHANGED status
              \/ \E s \in {"delivered", "failed"} :
                    status[j] # "new" /\ status' = [status EXCEPT ![j] = s]
            BY <2>2 DEF WorkerFails, WorkerSettles, Queue!Fail, Queue!Deliver, Queue!GiveUp,
                        Queue!LateConfirm, Queue!Becomes
        <3> QED
            BY <3>1, <3>2 DEF QueueInv
    <2>3. CASE UNCHANGED bridge
        BY <2>3 DEF bridge, vars, store, QueueInv
    <2> QED
        BY <2>1, <2>2, <2>3 DEF BridgeNext
<1> QED
    BY <1>1, <1>2, BridgeInvariant, PTL DEF BridgeSpec

-----------------------------------------------------------------------------
(***************************************************************************)
(* How often an async webhook gets a message.                              *)
(***************************************************************************)
\* A set of tries is finite.
LEMMA TriesFinite ==
    ASSUME NEW S \in SUBSET Tries
    PROVE  IsFiniteSet(S) /\ Cardinality(S) \in Nat
<1>1. IsFiniteSet(Tries)
    BY BoundLemma, FS_Interval DEF Tries
<1>2. IsFiniteSet(S)
    BY <1>1, FS_Subset
<1> QED
    BY <1>2, FS_CardinalityType

\* A step makes a try one of Halved only by a failed statement.
LEMMA HalvedStep ==
    ASSUME DataInv, [Next]_vars
    PROVE  /\ dbErrors' \in {dbErrors, dbErrors + 1}
           /\ \/ Halved' \subseteq Halved
              \/ dbErrors' = dbErrors + 1 /\ \E t \in Tries : Halved' \subseteq Halved \cup {t}
<1> USE DEF vars, message, sender, handler, store, webhook
<1>1. ASSUME UNCHANGED queued,
             \A u \in Tries : /\ pc'[u] = "reject" => pc[u] \in {"reject", "refused"}
                              /\ verdict'[u] = "451" => verdict[u] = "451" \/ pc[u] = "reject"
      PROVE  Halved' \subseteq Halved
    <2>1. \A u \in Tries : pc[u] = "refused" => \A r \in Routes : <<u, r>> \notin queued
        BY DEF DataInv, EffectsOf, Loop
    <2> QED
        BY <1>1, <2>1 DEF Halved
<1>2. ASSUME NEW t \in Tries, Data(t)
      PROVE  /\ dbErrors' \in {dbErrors, dbErrors + 1}
             /\ \/ Halved' \subseteq Halved
                \/ dbErrors' = dbErrors + 1 /\ \E u \in Tries : Halved' \subseteq Halved \cup {u}
    <2>0. pc \in [Tries -> PCs] /\ verdict \in [Tries -> Verdicts] /\ VerdictOf(t)
        BY TryFacts DEF TryInv
    <2>1. CASE ReadBody(t) \/ SkipRoute(t) \/ PostSync(t) \/ AnswerSync(t) \/ EndDeliver(t)
               \/ Accept(t) \/ Reply(t)
        <3>1. UNCHANGED <<queued, dbErrors>>
            BY <2>1 DEF ReadBody, SkipRoute, PostSync, AnswerSync, EndDeliver, Accept, Reply
        <3>2. \A u \in Tries : /\ pc'[u] = "reject" => pc[u] = "reject"
                               /\ verdict'[u] = "451" => verdict[u] = "451"
            BY <2>0, <2>1 DEF ReadBody, SkipRoute, PostSync, AnswerSync, EndDeliver, Accept, Reply, Goto
        <3> QED
            BY <1>1, <3>1, <3>2
    <2>2. CASE LogMessage(t) \/ LogSync(t) \/ Reject(t)
        <3>1. UNCHANGED queued /\ dbErrors' \in {dbErrors, dbErrors + 1}
            BY <2>2 DEF LogMessage, LogSync, Reject, InsertIf, DbStatement
        <3>2. \A u \in Tries : /\ pc'[u] = "reject" => pc[u] \in {"reject", "refused"}
                               /\ verdict'[u] = "451" => verdict[u] = "451" \/ pc[u] = "reject"
            BY <2>0, <2>2 DEF LogMessage, LogSync, SyncFailed, Reject, Goto
        <3> QED
            BY <1>1, <3>1, <3>2
    <2>3. CASE EnqueueRoute(t)
        <3>1. /\ UNCHANGED verdict /\ pc[t] = "enqueue"
              /\ \A u \in Tries \ {t} : pc'[u] = pc[u]
            BY <2>0, <2>3 DEF EnqueueRoute, Goto
        <3>2. verdict[t] = "none"
            BY <2>0, <3>1 DEF VerdictOf, Verdicts
        <3>3. queued' \subseteq queued \cup {<<t, Head(async[t])>>}
            BY <2>3 DEF EnqueueRoute, InsertIf
        <3>4. Halved' \subseteq Halved \cup {t}
            BY <3>1, <3>3 DEF Halved
        <3>5. CASE pc'[t] = "enqueue" /\ UNCHANGED dbErrors
            <4>1. t \notin Halved'
                BY <3>1, <3>2, <3>5 DEF Halved
            <4> QED
                BY <3>4, <3>5, <4>1
        <3>6. CASE dbErrors' = dbErrors + 1
            BY <3>4, <3>6
        <3> QED
            BY <2>0, <2>3, <3>5, <3>6 DEF EnqueueRoute, InsertIf, DbStatement, Goto
    <2> QED
        BY <1>2, <2>1, <2>2, <2>3 DEF Data
<1>3. CASE Submit \/ Disconnect \/ Crash \/ UNCHANGED vars
    <2>1. UNCHANGED <<queued, dbErrors, verdict>>
        BY <1>3 DEF Submit, Disconnect, Crash
    <2>2. \A u \in Tries : pc'[u] = "reject" => pc[u] = "reject"
        BY <1>3, TryFacts DEF Submit, Disconnect, Crash
    <2> QED
        BY <1>1, <2>1, <2>2
<1> QED
    BY <1>2, <1>3 DEF Next

LEMMA FaultInvariant == Spec => []FaultInv
<1>1. Init => FaultInv
    <2>1. Init => Halved = {} /\ dbErrors = 0
        BY DEF Init, Halved
    <2> QED
        BY <2>1, FS_EmptySet DEF FaultInv
<1>2. DataInv /\ FaultInv /\ [Next]_vars => FaultInv'
    <2> SUFFICES ASSUME DataInv, FaultInv, [Next]_vars PROVE FaultInv'
        OBVIOUS
    <2>1. /\ Halved \in SUBSET Tries /\ Halved' \in SUBSET Tries /\ dbErrors \in Nat
        BY BoundAssumption DEF Halved, DataInv, TypeOK
    <2>2. /\ IsFiniteSet(Halved) /\ IsFiniteSet(Halved') /\ Cardinality(Halved) <= dbErrors
          /\ Cardinality(Halved) \in Nat /\ Cardinality(Halved') \in Nat
        BY <2>1, TriesFinite DEF FaultInv
    <2>3. CASE Halved' \subseteq Halved
        <3>1. Cardinality(Halved') <= Cardinality(Halved)
            BY <2>2, <2>3, FS_Subset
        <3>2. dbErrors' \in {dbErrors, dbErrors + 1}
            BY HalvedStep
        <3> QED
            BY <2>1, <2>2, <3>1, <3>2 DEF FaultInv
    <2>4. ASSUME NEW t \in Tries, Halved' \subseteq Halved \cup {t}, dbErrors' = dbErrors + 1
          PROVE  FaultInv'
        <3>1. /\ IsFiniteSet(Halved \cup {t})
              /\ Cardinality(Halved \cup {t}) \in {Cardinality(Halved), Cardinality(Halved) + 1}
            BY <2>2, FS_AddElement
        <3>2. Cardinality(Halved') <= Cardinality(Halved \cup {t})
            BY <2>4, <3>1, FS_Subset
        <3> QED
            BY <2>1, <2>2, <2>4, <3>1, <3>2 DEF FaultInv
    <2> QED
        BY <2>3, <2>4, HalvedStep
<1> QED
    BY <1>1, <1>2, DataInvariant, PTL DEF Spec

\* A message that is submitted again is queued again for the same webhook only
\* after a statement failed or an answer did not reach the sender: being refused
\* for another route's sake is neither (EnqueueRoute comes after every sync route).
THEOREM QueuedOnceUnlessFaults == BridgeSpec => []QueuedOncePerFault
<1>1. DataInv /\ FaultInv /\ QueueInv => QueuedOncePerFault
    <2> SUFFICES ASSUME DataInv, FaultInv, QueueInv, NEW r \in Routes
                 PROVE  Cardinality({t \in Tries : status[<<t, r>>] # "new"})
                            <= 1 + dbErrors + Cardinality({t \in Tries : told[t] = "lost"})
        BY DEF QueuedOncePerFault
    <2> DEFINE Q == {t \in Tries : status[<<t, r>>] # "new"}
               Lost == {t \in Tries : told[t] = "lost"}
               U == Halved \cup Lost
    <2>1. ASSUME NEW t \in Q PROVE t \in U \cup {try}
        <3>1. t \in Tries /\ <<t, r>> \in queued
            BY DEF QueueInv
        <3>2. TryInv(t) /\ SenderOf(t) /\ t \in Nat /\ try \in Nat
            BY <3>1, BoundLemma DEF DataInv, TryInv, TypeOK
        <3>3. ~(t > try)
            BY <3>1, <3>2 DEF TryInv, EffectsOf, SenderOf, Early
        <3>4. told[t] = "451" => t \in Halved
            BY <3>1, <3>2 DEF TryInv, VerdictOf, Halved
        <3>5. t < try => t \in U
            BY <3>1, <3>2, <3>4 DEF SenderOf
        <3> QED
            BY <3>2, <3>3, <3>5
    <2>2. Halved \in SUBSET Tries /\ Lost \in SUBSET Tries /\ Q \in SUBSET Tries
          /\ Halved \cap Lost \in SUBSET Tries
        BY DEF Halved
    <2>3. dbErrors \in Nat
        BY BoundAssumption DEF DataInv, TypeOK
    <2> HIDE DEF Q, Lost
    <2>4. /\ IsFiniteSet(Halved) /\ IsFiniteSet(Lost)
          /\ Cardinality(Halved) \in Nat /\ Cardinality(Lost) \in Nat /\ Cardinality(Q) \in Nat
          /\ Cardinality(Halved \cap Lost) \in Nat
        BY <2>2, TriesFinite
    <2>5. IsFiniteSet(U) /\ Cardinality(U) = Cardinality(Halved) + Cardinality(Lost)
                                               - Cardinality(Halved \cap Lost)
        BY <2>4, FS_Union
    <2>6. Cardinality(U) \in Nat
        BY <2>5, FS_CardinalityType
    <2> HIDE DEF U
    <2>7. /\ IsFiniteSet(U \cup {try})
          /\ Cardinality(U \cup {try}) \in {Cardinality(U), Cardinality(U) + 1}
        BY <2>5, FS_AddElement
    <2>8. Cardinality(Q) <= Cardinality(U \cup {try})
        BY <2>1, <2>7, FS_Subset
    <2>9. Cardinality(Halved) <= dbErrors
        BY DEF FaultInv
    <2>10. Cardinality(Q) <= 1 + dbErrors + Cardinality(Lost)
        BY <2>3, <2>4, <2>5, <2>6, <2>7, <2>8, <2>9
    <2> QED
        BY <2>10 DEF Q, Lost
<1> QED
    BY <1>1, BridgeInvariant, BridgeImplementsSubmission, FaultInvariant, BridgeQueueInv, PTL
=============================================================================
