---------------------------- MODULE MessageLogProofs ----------------------------
(***************************************************************************)
(* Proofs about MessageLog, for every page size, retention period and      *)
(* number of rows: which rows a deletion may take, however old the page it *)
(* was asked on and whatever is inserted meanwhile.                        *)
(***************************************************************************)
EXTENDS MessageLog, FiniteSetTheorems, TLAPS

-----------------------------------------------------------------------------
(***************************************************************************)
(* The invariant. An id is never given out twice: those of the table and of*)
(* the page lie below the counter, and a row of the page is the row of the *)
(* table that has its id, if there still is one. A cutoff only ages.       *)
(***************************************************************************)
IdsInv ==
    /\ sequence <= refused
    /\ \A r \in rejections \cup shownRejections : r.id <= sequence
    /\ \A r \in shownRejections, s \in rejections : r.id = s.id => r = s

CutoffInv == cutoff = NoCutoff \/ cutoff <= now - Days

LogInv ==
    /\ TypeOK /\ IdsInv /\ CutoffInv
    /\ IsFiniteSet(messages) /\ IsFiniteSet(rejections)

LEMMA BoundLemma ==
    /\ PageSize \in Nat /\ PageSize >= 1 /\ Days \in Nat /\ NoCutoff \in Int
    /\ MaxMessages \in Nat /\ MaxAttempts \in Nat /\ MaxRejections \in Nat
    /\ MaxDbErrors \in Nat /\ Horizon \in Nat
BY LogAssumption DEF NoCutoff

LEMMA InitLogInv == Init => LogInv
<1> SUFFICES ASSUME Init PROVE LogInv
    OBVIOUS
<1>1. IsFiniteSet({}) /\ Cardinality({}) = 0
    BY FS_EmptySet
<1>2. /\ 0 \in 0 .. Horizon /\ 0 \in 0 .. MaxMessages /\ 0 \in 0 .. MaxRejections
      /\ 0 \in 0 .. MaxDbErrors /\ 0 <= PageSize /\ NoCutoff \in NoCutoff .. Horizon
    BY BoundLemma DEF NoCutoff
<1>3. TypeOK
    BY <1>1, <1>2 DEF Init, TypeOK, NoOp
<1> QED
    BY <1>1, <1>3 DEF Init, LogInv, IdsInv, CutoffInv

\* A statement that fails counts.
LEMMA DbLemma ==
    ASSUME TypeOK, NEW ok, DbStatement(ok)
    PROVE  dbErrors' \in 0 .. MaxDbErrors
<1>1. dbErrors \in 0 .. MaxDbErrors
    BY DEF TypeOK
<1> QED
    BY <1>1, BoundLemma DEF DbStatement

\* A page has no more rows than fit on it.
LEMMA NewestLemma ==
    ASSUME NEW table, IsFiniteSet(table), NEW S \in Newest(table)
    PROVE  S \subseteq table /\ Cardinality(S) <= PageSize
<1>1. Cardinality(table) \in Nat
    BY FS_CardinalityType
<1> QED
    BY <1>1, BoundLemma DEF Newest

\* A step that only deletes rejections, or leaves them alone, keeps what is
\* said of them.
LEMMA FewerRejections ==
    ASSUME LogInv, rejections' \subseteq rejections, UNCHANGED <<sequence, refused, shownRejections>>
    PROVE  /\ IdsInv' /\ IsFiniteSet(rejections') /\ rejections' \subseteq RejectionRow
           /\ \A r, s \in rejections' : r.id = s.id => r = s
<1>1. IsFiniteSet(rejections')
    BY FS_Subset DEF LogInv
<1> QED
    BY <1>1 DEF LogInv, IdsInv, TypeOK

LEMMA NextLogInv == LogInv /\ [Next]_vars => LogInv'
<1> SUFFICES ASSUME LogInv, [Next]_vars PROVE LogInv'
    OBVIOUS
<1> USE DEF tables, counts, browser
<1>0. TypeOK /\ IdsInv /\ CutoffInv /\ IsFiniteSet(messages) /\ IsFiniteSet(rejections)
    BY DEF LogInv
<1>1. CASE LogMessage
    <2>1. PICK ok \in BOOLEAN :
             /\ DbStatement(ok)
             /\ messages' = IF ok THEN messages \cup {[id |-> logged + 1, at |-> now]} ELSE messages
        BY <1>1 DEF LogMessage
    <2>2. /\ logged' \in 0 .. MaxMessages /\ logged + 1 \in 1 .. MaxMessages /\ now \in 0 .. Horizon
        BY <1>0, <1>1, BoundLemma DEF LogMessage, TypeOK
    <2>3. [id |-> logged + 1, at |-> now] \in MessageRow
        BY <2>2 DEF MessageRow
    <2>4. messages' \subseteq MessageRow /\ IsFiniteSet(messages')
        BY <1>0, <2>1, <2>3, FS_AddElement DEF TypeOK
    <2>5. TypeOK'
        BY <1>0, <1>1, <2>1, <2>2, <2>4, DbLemma DEF LogMessage, TypeOK
    <2> QED
        BY <1>0, <1>1, <2>4, <2>5 DEF LogMessage, LogInv, IdsInv, CutoffInv
<1>2. ASSUME NEW i \in 1 .. MaxMessages, NEW n \in 1 .. MaxAttempts, LogDelivery(i, n)
      PROVE  LogInv'
    <2>1. deliveries' \subseteq DeliveryRow
        BY <1>0, <1>2 DEF LogDelivery, TypeOK, DeliveryRow
    <2>2. TypeOK'
        BY <1>0, <1>2, <2>1 DEF LogDelivery, TypeOK
    <2> QED
        BY <1>0, <1>2, <2>2 DEF LogDelivery, LogInv, IdsInv, CutoffInv
<1>3. CASE LogRejection
    <2> DEFINE row == [id |-> sequence + 1, at |-> now, what |-> refused + 1]
    <2>1. PICK ok \in BOOLEAN :
             /\ DbStatement(ok)
             /\ IF ok
                THEN rejections' = rejections \cup {row} /\ sequence' = sequence + 1
                ELSE UNCHANGED <<rejections, sequence>>
        BY <1>3 DEF LogRejection, NextId
    <2>2. /\ sequence \in Nat /\ refused \in Nat /\ sequence <= refused /\ refused < MaxRejections
          /\ now \in 0 .. Horizon /\ refused' = refused + 1
        BY <1>0, <1>3 DEF LogRejection, TypeOK, IdsInv
    <2>3. sequence + 1 \in 1 .. MaxRejections /\ refused + 1 \in 1 .. MaxRejections
        BY <2>2, BoundLemma
    <2>4. row \in RejectionRow
        BY <2>2, <2>3 DEF RejectionRow
    <2>5. \A r \in rejections \cup shownRejections : r.id \in Nat /\ r.id <= sequence
        BY <1>0 DEF TypeOK, IdsInv, RejectionRow
    <2>6. \A r \in rejections \cup shownRejections : r.id # sequence + 1
        BY <2>2, <2>5
    <2>7. row.id = sequence + 1
        OBVIOUS
    <2> HIDE DEF row
    <2>8. /\ rejections' \subseteq RejectionRow /\ IsFiniteSet(rejections')
          /\ \A r, s \in rejections' : r.id = s.id => r = s
        BY <1>0, <2>1, <2>4, <2>6, <2>7, FS_AddElement DEF TypeOK
    <2>9. sequence' \in 0 .. MaxRejections /\ refused' \in 0 .. MaxRejections
        BY <1>0, <2>1, <2>2, <2>3 DEF TypeOK
    <2>10. TypeOK'
        BY <1>0, <1>3, <2>1, <2>8, <2>9, DbLemma DEF LogRejection, TypeOK
    <2>11. UNCHANGED shownRejections
        BY <1>3 DEF LogRejection
    <2>12. IdsInv'
        <3>1. CASE ok
            <4>1. sequence' <= refused'
                BY <2>1, <2>2, <3>1
            <4>2. \A r \in rejections \cup shownRejections : r.id <= sequence + 1
                BY <2>2, <2>5
            <4>3. \A r \in rejections' \cup shownRejections : r.id <= sequence + 1
                BY <2>1, <2>2, <2>7, <3>1, <4>2
            <4>4. \A r \in shownRejections, s \in rejections' : r.id = s.id => r = s
                BY <1>0, <2>1, <2>6, <2>7, <3>1 DEF IdsInv
            <4> QED
                BY <2>1, <2>11, <3>1, <4>1, <4>3, <4>4 DEF IdsInv
        <3>2. CASE ~ok
            <4>1. sequence <= refused + 1
                BY <2>2
            <4> QED
                BY <1>0, <2>1, <2>2, <2>11, <3>2, <4>1 DEF IdsInv
        <3> QED
            BY <3>1, <3>2
    <2> QED
        BY <1>0, <1>3, <2>8, <2>10, <2>12 DEF LogRejection, LogInv, CutoffInv
<1>4. CASE ListMessages \/ OpenMessage
    <2>1. shownMessages' \subseteq messages /\ Cardinality(shownMessages') <= PageSize
        <3>1. CASE ListMessages
            BY <1>0, <3>1, NewestLemma DEF ListMessages
        <3>2. CASE OpenMessage
            <4>1. PICK m : shownMessages' = messages \cap {m}
                BY <3>2 DEF OpenMessage
            <4>2. shownMessages' = {} \/ shownMessages' = {m}
                BY <4>1
            <4>3. Cardinality(shownMessages') = 0 \/ Cardinality(shownMessages') = 1
                BY <4>2, FS_EmptySet, FS_Singleton
            <4> QED
                BY <4>1, <4>3, BoundLemma
        <3> QED
            BY <1>4, <3>1, <3>2
    <2>2. UNCHANGED <<now, tables, counts, shownRejections, op, cutoff, dbErrors>>
        BY <1>4 DEF ListMessages, OpenMessage
    <2>3. TypeOK'
        BY <1>0, <2>1, <2>2 DEF TypeOK
    <2> QED
        BY <1>0, <2>2, <2>3 DEF LogInv, IdsInv, CutoffInv
<1>5. CASE ListRejections
    <2>1. shownRejections' \subseteq rejections /\ Cardinality(shownRejections') <= PageSize
        BY <1>0, <1>5, NewestLemma DEF ListRejections
    <2>2. UNCHANGED <<now, tables, counts, shownMessages, op, cutoff, dbErrors>>
        BY <1>5 DEF ListRejections
    <2>3. TypeOK'
        BY <1>0, <2>1, <2>2 DEF TypeOK
    <2>4. IdsInv'
        BY <1>0, <2>1, <2>2 DEF IdsInv, TypeOK
    <2> QED
        BY <1>0, <2>2, <2>3, <2>4 DEF LogInv, CutoffInv
<1>6. CASE DeleteDeliveries
    <2>1. op'.kind \in {"selected", "all"} /\ op'.ids \subseteq 1 .. MaxMessages
        <3>1. \A m \in shownMessages : m.id \in 1 .. MaxMessages
            BY <1>0 DEF TypeOK, MessageRow
        <3>2. CASE op' = [kind |-> "all", ids |-> 1 .. MaxMessages]
            BY <3>2
        <3>3. ASSUME NEW S \in SUBSET shownMessages,
                     op' = [kind |-> "selected", ids |-> {m.id : m \in S}]
              PROVE  op'.kind \in {"selected", "all"} /\ op'.ids \subseteq 1 .. MaxMessages
            BY <3>1, <3>3
        <3> QED
            BY <1>6, <3>2, <3>3 DEF DeleteDeliveries
    <2>2. deliveries' \subseteq deliveries /\ dbErrors' \in 0 .. MaxDbErrors
        BY <1>0, <1>6, DbLemma DEF DeleteDeliveries
    <2>3. UNCHANGED <<now, messages, rejections, sequence, counts, shownMessages,
                      shownRejections, cutoff>>
        BY <1>6 DEF DeleteDeliveries
    <2>4. TypeOK'
        BY <1>0, <2>1, <2>2, <2>3 DEF TypeOK
    <2> QED
        BY <1>0, <2>3, <2>4 DEF LogInv, IdsInv, CutoffInv
<1>7. CASE DeleteMessages
    <2>1. messages' \subseteq messages /\ dbErrors' \in 0 .. MaxDbErrors
        BY <1>0, <1>7, DbLemma DEF DeleteMessages
    <2>2. /\ op' = NoOp
          /\ UNCHANGED <<now, deliveries, rejections, sequence, counts, shownMessages,
                         shownRejections, cutoff>>
        BY <1>7 DEF DeleteMessages
    <2>3. TypeOK'
        BY <1>0, <2>1, <2>2 DEF TypeOK, NoOp
    <2>4. IsFiniteSet(messages')
        BY <1>0, <2>1, FS_Subset
    <2> QED
        BY <1>0, <2>2, <2>3, <2>4 DEF LogInv, IdsInv, CutoffInv
<1>8. CASE DeleteRejections \/ DeleteAllRejections \/ RunPurge
    <2>1. rejections' \subseteq rejections /\ dbErrors' \in 0 .. MaxDbErrors
        BY <1>0, <1>8, DbLemma DEF DeleteRejections, DeleteAllRejections, RunPurge
    <2>2. /\ UNCHANGED <<now, messages, deliveries, sequence, counts, browser>>
          /\ cutoff' \in {cutoff, NoCutoff}
        BY <1>8 DEF DeleteRejections, DeleteAllRejections, RunPurge
    <2>3. cutoff' \in NoCutoff .. Horizon
        BY <1>0, <2>2, BoundLemma DEF TypeOK, NoCutoff
    <2>4. TypeOK'
        BY <1>0, <2>1, <2>2, <2>3, FewerRejections DEF TypeOK
    <2>5. CutoffInv'
        BY <1>0, <2>2 DEF CutoffInv
    <2> QED
        BY <1>0, <2>1, <2>2, <2>4, <2>5, FewerRejections DEF LogInv
<1>9. CASE StartPurge
    <2>1. UNCHANGED <<now, tables, counts, browser, dbErrors>> /\ cutoff' = now - Days
        BY <1>9 DEF StartPurge
    <2>2. cutoff' \in NoCutoff .. Horizon
        BY <1>0, <2>1, BoundLemma DEF TypeOK, NoCutoff
    <2>3. TypeOK'
        BY <1>0, <2>1, <2>2 DEF TypeOK
    <2>4. cutoff' <= now' - Days
        BY <1>0, <2>1, <2>2, BoundLemma
    <2> QED
        BY <1>0, <2>1, <2>3, <2>4 DEF LogInv, IdsInv, CutoffInv
<1>10. CASE NextDay
    <2>1. UNCHANGED <<tables, counts, browser, cutoff, dbErrors>> /\ now' = now + 1
          /\ now \in 0 .. Horizon /\ now < Horizon
        BY <1>0, <1>10 DEF NextDay, TypeOK
    <2>2. now' \in 0 .. Horizon
        BY <2>1, BoundLemma
    <2>3. TypeOK'
        BY <1>0, <2>1, <2>2 DEF TypeOK
    <2>4. CutoffInv'
        <3>1. cutoff \in Int
            BY <1>0, BoundLemma DEF TypeOK
        <3>2. cutoff' = cutoff /\ now' = now + 1
            BY <2>1
        <3>3. cutoff <= now - Days => cutoff' <= now' - Days
            BY <2>1, <3>1, <3>2, BoundLemma
        <3> QED
            BY <1>0, <3>2, <3>3 DEF CutoffInv
    <2> QED
        BY <1>0, <2>1, <2>3, <2>4 DEF LogInv, IdsInv
<1>11. CASE UNCHANGED vars
    BY <1>0, <1>11 DEF vars, LogInv, TypeOK, IdsInv, CutoffInv
<1> QED
    BY <1>1, <1>2, <1>3, <1>4, <1>5, <1>6, <1>7, <1>8, <1>9, <1>10, <1>11 DEF Next

LEMMA LogInvariant == Spec => []LogInv
BY InitLogInv, NextLogInv, PTL DEF Spec

-----------------------------------------------------------------------------
(***************************************************************************)
(* What the log guarantees.                                                *)
(***************************************************************************)
\* The tables keep their types and their keys: two rejections never share an id,
\* although rows are deleted while others are inserted (AUTOINCREMENT in migrate).
THEOREM MessageLogTypeOK == Spec => []TypeOK
<1>1. LogInv => TypeOK
    BY DEF LogInv
<1> QED
    BY <1>1, LogInvariant, PTL

\* Deleting rejections on a page, however old, removes none that the page did not
\* show (DeleteRejections of the store goes by id).
THEOREM DeletesWhatWasShown == Spec => OnlyShownRejectionsDeleted
<1>1. LogInv /\ [Next]_vars =>
         [DeleteRejections => rejections \ rejections' \subseteq shownRejections]_vars
    <2> SUFFICES ASSUME LogInv, DeleteRejections
                 PROVE  rejections \ rejections' \subseteq shownRejections
        OBVIOUS
    <2>1. PICK S \in SUBSET shownRejections :
             rejections \ rejections' \subseteq {r \in rejections : r.id \in {s.id : s \in S}}
        BY DEF DeleteRejections
    <2> QED
        BY <2>1 DEF LogInv, IdsInv
<1> QED
    BY <1>1, LogInvariant, PTL DEF Spec, OnlyShownRejectionsDeleted

\* A rejection stays for the configured number of days in full, however long the
\* purge takes between reading the clock and deleting (purge of runRejectionPurge).
THEOREM RetentionIsKept == Spec => KeptForRetention
<1>1. LogInv /\ [Next]_vars =>
         [\A r \in rejections \ rejections' :
             \/ r.at + Days < now
             \/ DeleteRejections \/ DeleteAllRejections]_vars
    <2> SUFFICES ASSUME LogInv, Next, NEW r \in rejections, r \notin rejections',
                        ~DeleteRejections, ~DeleteAllRejections
                 PROVE  r.at + Days < now
        OBVIOUS
    <2>1. RunPurge
        BY DEF Next, LogMessage, LogDelivery, LogRejection, ListMessages, OpenMessage,
               ListRejections, DeleteDeliveries, DeleteMessages, StartPurge, NextDay,
               tables, counts, browser
    <2>2. cutoff # NoCutoff /\ r.at < cutoff
        BY <2>1 DEF RunPurge, Expired
    <2>3. cutoff <= now - Days
        BY <2>2 DEF LogInv, CutoffInv
    <2>4. r.at \in Nat /\ cutoff \in Int /\ now \in Nat
        BY BoundLemma DEF LogInv, TypeOK, RejectionRow
    <2> QED
        BY <2>2, <2>3, <2>4, BoundLemma
<1> QED
    BY <1>1, LogInvariant, PTL DEF Spec, KeptForRetention

\* Unless everything is deleted, a message whose deletion was not asked for on its
\* page stays, and so do its delivery rows (the two statements of DeleteMessages).
THEOREM OnlySelectedDeleted == Spec => UnselectedKept
<1> DEFINE A == op.kind # "all" /\ op'.kind # "all" =>
                  /\ \A m \in messages \ messages' : m.id \in op.ids
                  /\ \A d \in deliveries \ deliveries' : d.id \in {m.id : m \in shownMessages}
<1>1. [Next]_vars => [A]_vars
    <2> SUFFICES ASSUME Next, op'.kind # "all"
                 PROVE  /\ \A m \in messages \ messages' : m.id \in op.ids
                        /\ \A d \in deliveries \ deliveries' : d.id \in {m.id : m \in shownMessages}
        OBVIOUS
    <2>1. CASE DeleteDeliveries
        <3>1. PICK S \in SUBSET shownMessages : op' = [kind |-> "selected", ids |-> {m.id : m \in S}]
            BY <2>1 DEF DeleteDeliveries
        <3>2. deliveries \ deliveries' \subseteq DeliveriesOf(op'.ids) /\ UNCHANGED messages
            BY <2>1 DEF DeleteDeliveries
        <3> QED
            BY <3>1, <3>2 DEF DeliveriesOf
    <2>2. CASE DeleteMessages
        BY <2>2 DEF DeleteMessages
    <2>3. CASE ~DeleteDeliveries /\ ~DeleteMessages
        <3>1. messages \subseteq messages' /\ deliveries \subseteq deliveries'
            BY <2>3 DEF Next, LogMessage, LogDelivery, LogRejection, ListMessages, OpenMessage,
                        ListRejections, DeleteRejections, DeleteAllRejections, StartPurge,
                        RunPurge, NextDay, tables, counts, browser
        <3> QED
            BY <3>1
    <2> QED
        BY <2>1, <2>2, <2>3
<1>2. UnselectedKept <=> [][A]_vars
    BY DEF UnselectedKept
<1> HIDE DEF A
<1> QED
    BY <1>1, <1>2, PTL DEF Spec
=============================================================================
