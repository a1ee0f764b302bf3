---------------------- MODULE PendingTransactionsProofs ----------------------
(***************************************************************************)
(* Proofs about PendingTransactions for any list limit, any ids and errors *)
(* and any number of pushes and verdicts.                                  *)
(*                                                                         *)
(* The inductive invariant says that the list is a window on the history:  *)
(* entry j shows the outcome of transaction Dropped + j.  Its heart is     *)
(* that the reverse search finds in the list the very transaction that is  *)
(* the newest with its id in the whole history, or nothing when that one   *)
(* has left the list or was lost with an earlier one.                      *)
(***************************************************************************)
EXTENDS PendingTransactions, SequenceTheorems, WellFoundedInduction, TLAPS

(* Every entry of the list is the outcome of the transaction it stands for. *)
Window ==
    /\ Len(mPendingTransactions) =
          IF Current < MAX_PENDING_TRANSACTIONS_IN_LIST
          THEN Current ELSE MAX_PENDING_TRANSACTIONS_IN_LIST
    /\ \A j \in 1 .. Len(mPendingTransactions) :
          mPendingTransactions[j] = Outcome(sent[Dropped + j])

(* The inductive invariant of the list and its history. *)
PtInv == PtTypeOK /\ Window

(* A non-empty set of numbers up to n has a largest element. *)
LEMMA LargestExists ==
    ASSUME NEW n \in Nat, NEW S \in SUBSET (1 .. n), S # {}
    PROVE  \E i \in S : \A j \in S : j <= i
<1> DEFINE T == {n - i : i \in S}
<1>0. PICK e \in S : TRUE
    OBVIOUS
<1>1. T \subseteq Nat /\ T # {}
    <2>1. \A i \in S : n - i \in Nat
        OBVIOUS
    <2>2. n - e \in T
        BY <1>0
    <2> QED BY <2>1, <2>2
<1>2. PICK x \in T : \A y \in T : ~(<<y, x>> \in OpToRel(<, Nat))
    BY <1>1, WFMin, NatLessThanWellFounded
<1>3. PICK i \in S : x = n - i
    OBVIOUS
<1>4. \A j \in S : ~(n - j < n - i)
    <2> SUFFICES ASSUME NEW j \in S PROVE ~(n - j < n - i)
        OBVIOUS
    <2>1. n - j \in T
        OBVIOUS
    <2>2. ~(<<n - j, n - i>> \in OpToRel(<, Nat))
        BY <1>2, <1>3, <2>1
    <2> QED BY <2>2, <1>1, <2>1, <1>3 DEF OpToRel
<1> QED BY <1>4

(* The reverse search stops at the last position of the id. *)
LEMMA FoundIsLast ==
    ASSUME NEW R, NEW s \in Seq(R), NEW id, Positions(s, id) # {}
    PROVE  /\ Found(s, id) \in Positions(s, id)
           /\ Found(s, id) \in 1 .. Len(s)
           /\ s[Found(s, id)].iotaMessageId = id
           /\ \A j \in Positions(s, id) : j <= Found(s, id)
<1>1. Positions(s, id) \in SUBSET (1 .. Len(s)) /\ Len(s) \in Nat
    BY LenProperties DEF Positions
<1>2. \E i \in Positions(s, id) : \A j \in Positions(s, id) : j <= i
    BY <1>1, LargestExists
<1>3. /\ Found(s, id) \in Positions(s, id)
      /\ \A j \in Positions(s, id) : j <= Found(s, id)
    BY <1>2 DEF Found
<1> QED BY <1>3 DEF Positions

(* An outcome is an entry of the list type, for the same message id. *)
LEMMA OutcomeType ==
    ASSUME NEW s \in Sent
    PROVE  /\ Outcome(s) \in Entry
           /\ Outcome(s).iotaMessageId = s.iotaMessageId
<1>1. s.iotaMessageId \in MessageIds /\ s.verdicts \in Seq(Verdicts)
    BY DEF Sent
<1>2. NoError \in Verdicts
    BY DEF Verdicts
<1>3. s.verdicts # << >> => s.verdicts[Len(s.verdicts)] \in Verdicts
    BY <1>1
<1> QED BY <1>1, <1>2, <1>3 DEF Outcome, Entry, NewEntry, States

(* Lines 62-64 compute the outcome incrementally: judging an entry by one  *)
(* more verdict is the outcome of the longer list of verdicts.             *)
LEMMA JudgedIsOutcome ==
    ASSUME NEW s \in Sent, NEW v \in Verdicts
    PROVE  Judged(Outcome(s), v) = Outcome(WithVerdict(s, v))
<1> DEFINE w == Append(s.verdicts, v)
           n == Len(s.verdicts)
           r == WithVerdict(s, v)
<1>1. s.verdicts \in Seq(Verdicts) /\ n \in Nat
    BY DEF Sent
<1>2. /\ w \in Seq(Verdicts)
      /\ w # << >>
      /\ Len(w) = n + 1
      /\ \A i \in 1 .. n : w[i] = s.verdicts[i]
      /\ w[n + 1] = v
    BY <1>1, AppendProperties
<1>3. r.verdicts = w /\ r.iotaMessageId = s.iotaMessageId
    BY DEF WithVerdict
<1>4. (\E i \in 1 .. n + 1 : w[i] = NoError)
          <=> (\E i \in 1 .. n : s.verdicts[i] = NoError) \/ v = NoError
    BY <1>1, <1>2
<1> HIDE DEF w, r
<1> DEFINE id == s.iotaMessageId
           confirmed == [iotaMessageId |-> id, state |-> "CONFIRMED",
                         errorMessage |-> NoError]
<1>5. CASE \E i \in 1 .. n : s.verdicts[i] = NoError
    <2>1. Outcome(s) = confirmed
        BY <1>5 DEF Outcome
    <2>2. Outcome(r) = confirmed
        BY <1>5, <1>2, <1>3, <1>4 DEF Outcome
    <2>3. Judged(confirmed, v) = confirmed
        BY DEF Judged
    <2> QED BY <2>1, <2>2, <2>3 DEF r
<1>6. CASE ~(\E i \in 1 .. n : s.verdicts[i] = NoError)
    <2>1. Outcome(s).state # "CONFIRMED" /\ Outcome(s).iotaMessageId = id
        BY <1>6 DEF Outcome, NewEntry
    <2>2. Judged(Outcome(s), v)
              = [iotaMessageId |-> id,
                 state |-> IF v = NoError THEN "CONFIRMED" ELSE "REJECTED",
                 errorMessage |-> v]
        BY <2>1 DEF Judged
    <2>3. CASE v = NoError
        <3>1. Outcome(r) = confirmed
            BY <2>3, <1>2, <1>3, <1>4 DEF Outcome
        <3> QED BY <3>1, <2>2, <2>3 DEF r
    <2>4. CASE v # NoError
        <3>1. Outcome(r) = [iotaMessageId |-> id, state |-> "REJECTED",
                            errorMessage |-> v]
            BY <2>4, <1>6, <1>2, <1>3, <1>4 DEF Outcome
        <3> QED BY <3>1, <2>2, <2>4 DEF r
    <2> QED BY <2>3, <2>4
<1> QED BY <1>5, <1>6 DEF r

(* The window keeps its shape while it covers the history. *)
LEMMA WindowBounds ==
    ASSUME PtInv
    PROVE  /\ Len(sent) \in Nat
           /\ Len(mPendingTransactions) \in Nat
           /\ earlier \in 0 .. Len(sent)
           /\ Dropped \in Nat /\ Dropped >= earlier
           /\ \A j \in 1 .. Len(mPendingTransactions) :
                 /\ Dropped + j \in 1 .. Len(sent)
                 /\ mPendingTransactions[j] = Outcome(sent[Dropped + j])
                 /\ sent[Dropped + j] \in Sent
                 /\ mPendingTransactions[j].iotaMessageId
                        = sent[Dropped + j].iotaMessageId
           /\ \A k \in Dropped + 1 .. Len(sent) :
                 k - Dropped \in 1 .. Len(mPendingTransactions)
<1>1. /\ Len(sent) \in Nat /\ Len(mPendingTransactions) \in Nat
      /\ earlier \in 0 .. Len(sent)
    BY DEF PtInv, PtTypeOK
<1>2. Dropped \in Nat /\ Dropped >= earlier
    BY <1>1, MaxListAssumption DEF PtInv, Window, Dropped, Current
<1>3. ASSUME NEW j \in 1 .. Len(mPendingTransactions)
      PROVE  /\ Dropped + j \in 1 .. Len(sent)
             /\ mPendingTransactions[j] = Outcome(sent[Dropped + j])
             /\ sent[Dropped + j] \in Sent
             /\ mPendingTransactions[j].iotaMessageId
                    = sent[Dropped + j].iotaMessageId
    <2>1. Dropped + j \in 1 .. Len(sent)
        BY <1>1, <1>2 DEF Dropped
    <2>2. sent[Dropped + j] \in Sent
        BY <2>1, ElementOfSeq DEF PtInv, PtTypeOK
    <2>3. mPendingTransactions[j] = Outcome(sent[Dropped + j])
        BY DEF PtInv, Window
    <2> QED BY <2>1, <2>2, <2>3, OutcomeType
<1>4. \A k \in Dropped + 1 .. Len(sent) :
          k - Dropped \in 1 .. Len(mPendingTransactions)
    BY <1>1, <1>2 DEF Dropped
<1> QED BY <1>1, <1>2, <1>3, <1>4

(* pushNewTransaction slides the window over the new transaction. *)
LEMMA PushPreserves ==
    ASSUME PtInv, NEW id \in MessageIds, pushNewTransaction(id)
    PROVE  PtInv'
<1> DEFINE max    == MAX_PENDING_TRANSACTIONS_IN_LIST
           new    == [iotaMessageId |-> id, verdicts |-> << >>]
           list   == mPendingTransactions
           longer == Append(list, NewEntry(id))
           n      == Len(list)
<1>1. /\ n \in Nat /\ Len(sent) \in Nat /\ Dropped \in Nat /\ n <= max
      /\ earlier \in 0 .. Len(sent) /\ earlier' = earlier
    BY WindowBounds, MaxListAssumption DEF PtInv, Window, Current, pushNewTransaction
<1>2. new \in Sent /\ Outcome(new) = NewEntry(id) /\ NewEntry(id) \in Entry
    BY EmptySeq DEF Sent, Outcome, NewEntry, Entry, States, Verdicts
<1>3. /\ sent' = Append(sent, new)
      /\ sent' \in Seq(Sent)
      /\ Len(sent') = Len(sent) + 1
      /\ \A i \in 1 .. Len(sent) : sent'[i] = sent[i]
      /\ sent'[Len(sent) + 1] = new
    BY <1>2, AppendProperties DEF PtInv, PtTypeOK, pushNewTransaction
<1>4. /\ longer \in Seq(Entry)
      /\ Len(longer) = n + 1
      /\ \A i \in 1 .. n : longer[i] = list[i]
      /\ longer[n + 1] = NewEntry(id)
    BY <1>2, AppendProperties DEF PtInv, PtTypeOK
<1>5. \A i \in 1 .. n + 1 : longer[i] = Outcome(sent'[Dropped + i])
    <2> SUFFICES ASSUME NEW i \in 1 .. n + 1
                 PROVE  longer[i] = Outcome(sent'[Dropped + i])
        OBVIOUS
    <2>1. CASE i \in 1 .. n
        BY <2>1, <1>3, <1>4, WindowBounds
    <2>2. CASE i = n + 1
        BY <2>2, <1>1, <1>2, <1>3, <1>4 DEF Dropped
    <2> QED BY <2>1, <2>2, <1>1
<1>p. list' = IF Len(longer) > max
              THEN SubSeq(longer, Len(longer) - max + 1, Len(longer))
              ELSE longer
    BY DEF pushNewTransaction, Pushed
<1> HIDE DEF longer
<1>6. CASE n + 1 > max
    <2>1. list' = SubSeq(longer, n + 1 - max + 1, n + 1)
        BY <1>6, <1>4, <1>p, <1>1, MaxListAssumption
    <2>2. n = max
        BY <1>1, <1>6, MaxListAssumption
    <2>3. /\ list' \in Seq(Entry)
          /\ Len(list') = max
          /\ \A i \in 1 .. max : list'[i] = longer[i + 1]
        <3>1. \A i \in 2 .. n + 1 : longer[i] \in Entry
            BY <1>1, <1>4, ElementOfSeq
        <3>2. list' = SubSeq(longer, 2, n + 1)
            BY <2>1, <2>2, <1>1
        <3>3. /\ SubSeq(longer, 2, n + 1) \in Seq(Entry)
              /\ Len(SubSeq(longer, 2, n + 1))
                     = IF 2 <= n + 1 THEN (n + 1) - 2 + 1 ELSE 0
              /\ \A i \in 1 .. (n + 1) - 2 + 1 :
                     SubSeq(longer, 2, n + 1)[i] = longer[2 + i - 1]
            BY <3>1, <1>1, SubSeqProperties
        <3> QED BY <3>2, <3>3, <2>2, <1>1, MaxListAssumption
    <2>4. Dropped' = Dropped + 1
        BY <1>1, <1>3, <2>2, <2>3 DEF Dropped
    <2>5. \A j \in 1 .. max : list'[j] = Outcome(sent'[Dropped' + j])
        <3> SUFFICES ASSUME NEW j \in 1 .. max
                     PROVE  list'[j] = Outcome(sent'[Dropped' + j])
            OBVIOUS
        <3>1. j + 1 \in 1 .. n + 1
            BY <2>2, MaxListAssumption
        <3>2. longer[j + 1] = Outcome(sent'[Dropped + (j + 1)])
            BY <3>1, <1>5
        <3>3. Dropped + (j + 1) = Dropped' + j
            BY <2>4, <1>1, MaxListAssumption
        <3> QED BY <3>2, <3>3, <2>3
    <2>6. ~(Current' < max) /\ earlier' \in 0 .. Len(sent')
        BY <1>1, <1>3, <2>2, WindowBounds, MaxListAssumption DEF Dropped, Current
    <2> QED BY <2>3, <2>5, <2>6, <1>3 DEF PtInv, PtTypeOK, Window
<1>7. CASE ~(n + 1 > max)
    <2>1. list' = longer
        BY <1>7, <1>4, <1>p
    <2>2. Current = n
        BY <1>1, <1>7, MaxListAssumption DEF PtInv, Window, Current
    <2>3. Dropped' = Dropped
        BY <2>1, <2>2, <1>3, <1>4, <1>1 DEF Dropped
    <2>4. /\ Len(list') = IF Current' < max THEN Current' ELSE max
          /\ earlier' \in 0 .. Len(sent')
        BY <2>1, <2>2, <1>3, <1>4, <1>1, <1>7, MaxListAssumption DEF Current
    <2> QED BY <2>1, <2>3, <2>4, <1>3, <1>4, <1>5 DEF PtInv, PtTypeOK, Window
<1> QED BY <1>6, <1>7

(* updateTransaction judges the entry of the newest transaction with this  *)
(* id when it is listed, and leaves the list alone when it is not.         *)
LEMMA UpdatePreserves ==
    ASSUME PtInv, NEW id, NEW v \in Verdicts, updateTransaction(id, v)
    PROVE  PtInv'
<1> DEFINE list == mPendingTransactions
           f    == Found(sent, id)
<1>1. /\ list \in Seq(Entry) /\ sent \in Seq(Sent)
      /\ Len(list) \in Nat /\ Len(sent) \in Nat /\ Dropped \in Nat
      /\ earlier \in 0 .. Len(sent) /\ earlier' = earlier
    BY WindowBounds DEF PtInv, PtTypeOK, updateTransaction
<1>2. \A j \in Positions(list, id) : Dropped + j \in Positions(sent, id)
    BY WindowBounds DEF Positions
<1>3. CASE Positions(sent, id) = {}
    <2>1. Positions(list, id) = {}
        BY <1>2, <1>3
    <2>2. list' = list /\ sent' = sent
        BY <1>3, <2>1 DEF updateTransaction, Updated, Recorded
    <2> QED BY <2>2, <1>1 DEF PtInv, PtTypeOK, Window, Dropped, Current
<1>4. CASE Positions(sent, id) # {}
    <2> DEFINE s == sent[f]
               t == WithVerdict(s, v)
    <2>1. /\ f \in Positions(sent, id) /\ f \in 1 .. Len(sent)
          /\ \A j \in Positions(sent, id) : j <= f
        BY <1>1, <1>4, FoundIsLast
    <2>2. s \in Sent /\ s.iotaMessageId = id
        BY <2>1, <1>1, ElementOfSeq DEF Positions
    <2>3. t \in Sent /\ t.iotaMessageId = id
        <3>1. Append(s.verdicts, v) \in Seq(Verdicts)
            BY <2>2, AppendProperties DEF Sent
        <3> QED BY <3>1, <2>2 DEF Sent, WithVerdict
    <2>4. sent' = [sent EXCEPT ![f] = t]
        BY <1>4 DEF updateTransaction, Recorded
    <2> HIDE DEF f, s, t
    <2>5. /\ sent' \in Seq(Sent) /\ Len(sent') = Len(sent)
          /\ sent'[f] = t
          /\ \A j \in 1 .. Len(sent) : j # f => sent'[j] = sent[j]
        BY <2>1, <2>3, <2>4, <1>1, ExceptSeq
    <2>6. CASE f > Dropped
        <3> DEFINE g == f - Dropped
        <3>1. g \in 1 .. Len(list) /\ Dropped + g = f
            BY <2>1, <2>6, <1>1, WindowBounds
        <3>2. g \in Positions(list, id)
            BY <3>1, <2>2, WindowBounds DEF Positions, s
        <3>3. Found(list, id) = g
            <4>1. /\ Found(list, id) \in Positions(list, id)
                  /\ Found(list, id) \in 1 .. Len(list)
                  /\ g <= Found(list, id)
                BY <3>2, <1>1, FoundIsLast
            <4>2. Dropped + Found(list, id) <= f
                BY <4>1, <1>2, <2>1
            <4> QED BY <4>1, <4>2, <3>1, <2>1, <1>1
        <3>4. list' = [list EXCEPT ![g] = Judged(list[g], v)]
            BY <3>2, <3>3 DEF updateTransaction, Updated
        <3>5. list[g] = Outcome(s)
            BY <3>1, WindowBounds DEF s
        <3>6. Judged(list[g], v) = Outcome(t)
            BY <3>5, <2>2, JudgedIsOutcome DEF t
        <3>7. Outcome(t) \in Entry
            BY <2>3, OutcomeType
        <3> HIDE DEF g
        <3>8. /\ list' \in Seq(Entry) /\ Len(list') = Len(list)
              /\ list'[g] = Outcome(t)
              /\ \A j \in 1 .. Len(list) : j # g => list'[j] = list[j]
            BY <3>1, <3>4, <3>6, <3>7, <1>1, ExceptSeq
        <3>9. Dropped' = Dropped
            BY <3>8, <2>5 DEF Dropped
        <3>10. \A j \in 1 .. Len(list) : list'[j] = Outcome(sent'[Dropped' + j])
            <4> SUFFICES ASSUME NEW j \in 1 .. Len(list)
                         PROVE  list'[j] = Outcome(sent'[Dropped' + j])
                OBVIOUS
            <4>1. CASE j = g
                BY <4>1, <3>8, <3>9, <3>1, <2>5
            <4>2. CASE j # g
                <5>1. Dropped + j # f /\ Dropped + j \in 1 .. Len(sent)
                    BY <4>2, <3>1, <1>1, WindowBounds
                <5>2. sent'[Dropped + j] = sent[Dropped + j]
                    BY <5>1, <2>5
                <5>3. list'[j] = list[j]
                    BY <4>2, <3>8
                <5> QED BY <5>2, <5>3, <3>9, WindowBounds
            <4> QED BY <4>1, <4>2
        <3> QED BY <3>8, <3>9, <3>10, <2>5, <1>1 DEF PtInv, PtTypeOK, Window, Current
    <2>7. CASE ~(f > Dropped)
        <3>1. Positions(list, id) = {}
            <4> SUFFICES ASSUME NEW j \in Positions(list, id) PROVE FALSE
                OBVIOUS
            <4>1. j \in 1 .. Len(list) /\ Dropped + j <= f
                BY <1>2, <2>1 DEF Positions
            <4> QED BY <4>1, <2>7, <2>1, <1>1
        <3>2. list' = list
            BY <3>1 DEF updateTransaction, Updated
        <3>3. Dropped' = Dropped
            BY <3>2, <2>5 DEF Dropped
        <3>4. \A j \in 1 .. Len(list) : sent'[Dropped + j] = sent[Dropped + j]
            BY <2>5, <2>7, <2>1, <1>1, WindowBounds
        <3> QED BY <3>2, <3>3, <3>4, <2>5, <1>1 DEF PtInv, PtTypeOK, Window, Current
    <2> QED BY <2>6, <2>7
<1> QED BY <1>3, <1>4

(* Every step of the list preserves the window. *)
LEMMA PtNextInv == PtInv /\ [PtNext]_ptVars => PtInv'
<1> SUFFICES ASSUME PtInv, [PtNext]_ptVars PROVE PtInv'
    OBVIOUS
<1>1. ASSUME NEW id \in MessageIds, pushNewTransaction(id) PROVE PtInv'
    BY <1>1, PushPreserves
<1>2. ASSUME NEW n \in Notifications, NotifyRejected(n) PROVE PtInv'
    <2>1. n.error \in Verdicts /\ updateTransaction(n.messageId, n.error)
        BY <1>2 DEF Notifications, NotifyRejected
    <2> QED BY <2>1, UpdatePreserves
<1>3. ASSUME NEW n \in Notifications, NotifyConfirmed(n) PROVE PtInv'
    <2>1. NoError \in Verdicts /\ updateTransaction(n.blockId, NoError)
        BY <1>3 DEF Verdicts, NotifyConfirmed
    <2> QED BY <2>1, UpdatePreserves
<1>4. ASSUME RestartList PROVE PtInv'
    <2>1. sent \in Seq(Sent) /\ Len(sent) \in Nat
        BY DEF PtInv, PtTypeOK
    <2>2. /\ mPendingTransactions' = << >> /\ sent' = sent /\ earlier' = Len(sent)
        BY <1>4 DEF RestartList
    <2> QED BY <2>1, <2>2, EmptySeq, MaxListAssumption
            DEF PtInv, PtTypeOK, Window, Dropped, Current
<1>5. ASSUME UNCHANGED ptVars PROVE PtInv'
    BY <1>5 DEF PtInv, PtTypeOK, Window, Dropped, Current, ptVars
<1> QED BY <1>1, <1>2, <1>3, <1>4, <1>5 DEF PtNext, NotifyIgnored

(* The window property holds in every reachable state. *)
LEMMA PtInvAlways == PtSpec => []PtInv
<1>1. PtInit => PtInv
    BY MaxListAssumption, EmptySeq
    DEF PtInit, PtInv, PtTypeOK, Window, Dropped, Current
<1> QED BY <1>1, PtNextInv, PTL DEF PtSpec

(* Type correctness of the list and its history. *)
THEOREM PtTypeCorrect == PtSpec => []PtTypeOK
<1>1. PtInv => PtTypeOK
    BY DEF PtInv
<1> QED BY <1>1, PtInvAlways, PTL

(* getPendingTransactions always answers with the outcomes of the most     *)
(* recent transactions, newest first, for every limit of the list.         *)
THEOREM ReplyCorrect == PtSpec => []ReplyIsRecentOutcomes
<1>1. PtInv => ReplyIsRecentOutcomes
    <2> SUFFICES ASSUME PtInv PROVE ReplyIsRecentOutcomes
        OBVIOUS
    <2> DEFINE n == Len(mPendingTransactions)
    <2>1. n \in Nat /\ Len(sent) \in Nat /\ Dropped \in Nat
        BY WindowBounds
    <2>2. Len(listAsJson) = n
        BY <2>1 DEF listAsJson
    <2>3. ASSUME NEW i \in 1 .. n
          PROVE  listAsJson[i] = Outcome(sent[Len(sent) + 1 - i])
        <3>1. n + 1 - i \in 1 .. n
            BY <2>1
        <3>2. listAsJson[i] = mPendingTransactions[n + 1 - i]
            BY <2>1 DEF listAsJson
        <3>3. mPendingTransactions[n + 1 - i]
                  = Outcome(sent[Dropped + (n + 1 - i)])
            BY <3>1, WindowBounds
        <3>4. Dropped + (n + 1 - i) = Len(sent) + 1 - i
            BY <2>1 DEF Dropped
        <3> QED BY <3>2, <3>3, <3>4
    <2> QED BY <2>2, <2>3 DEF ReplyIsRecentOutcomes, PtInv, Window
<1> QED BY <1>1, PtInvAlways, PTL

(* A step never shortens the history and changes a transaction in it only  *)
(* by adding a verdict.                                                    *)
SentGrows ==
    /\ Len(sent) <= Len(sent')
    /\ \A i \in 1 .. Len(sent) :
          \/ sent'[i] = sent[i]
          \/ \E v \in Verdicts : sent'[i] = WithVerdict(sent[i], v)

(* pushNewTransaction and both kinds of /notify only add to the history. *)
LEMMA HistoryGrows ==
    ASSUME PtInv, [PtNext]_ptVars
    PROVE  SentGrows
<1>1. sent \in Seq(Sent) /\ Len(sent) \in Nat
    BY DEF PtInv, PtTypeOK
<1>2. ASSUME NEW id \in MessageIds, pushNewTransaction(id) PROVE SentGrows
    <2> DEFINE new == [iotaMessageId |-> id, verdicts |-> << >>]
    <2>1. new \in Sent /\ sent' = Append(sent, new)
        BY <1>2, EmptySeq DEF Sent, pushNewTransaction
    <2> QED BY <2>1, <1>1, AppendProperties DEF SentGrows
<1>3. ASSUME NEW id, NEW v \in Verdicts, updateTransaction(id, v)
      PROVE  SentGrows
    <2>1. CASE Positions(sent, id) = {}
        BY <2>1, <1>1, <1>3 DEF updateTransaction, Recorded, SentGrows
    <2>2. CASE Positions(sent, id) # {}
        <3> DEFINE f == Found(sent, id)
        <3>1. f \in 1 .. Len(sent)
            BY <2>2, <1>1, FoundIsLast
        <3>2. sent' = [sent EXCEPT ![f] = WithVerdict(sent[f], v)]
            BY <2>2, <1>3 DEF updateTransaction, Recorded
        <3> HIDE DEF f
        <3>3. /\ Len(sent') = Len(sent)
              /\ sent'[f] = WithVerdict(sent[f], v)
              /\ \A i \in 1 .. Len(sent) : i # f => sent'[i] = sent[i]
            BY <3>1, <3>2, <1>1
        <3> QED BY <3>3, <1>1 DEF SentGrows
    <2> QED BY <2>1, <2>2
<1>4. ASSUME NEW n \in Notifications, NotifyRejected(n) PROVE SentGrows
    BY <1>3, <1>4 DEF Notifications, NotifyRejected
<1>5. ASSUME NEW n \in Notifications, NotifyConfirmed(n) PROVE SentGrows
    BY <1>3, <1>5 DEF Verdicts, NotifyConfirmed
<1>6. ASSUME UNCHANGED sent PROVE SentGrows
    BY <1>6, <1>1 DEF SentGrows
<1> QED BY <1>2, <1>4, <1>5, <1>6 DEF PtNext, NotifyIgnored, RestartList, ptVars

(* A confirmed transaction stays confirmed, whatever verdicts follow, for  *)
(* as long as it is listed (the early return of updateTransaction).        *)
THEOREM ConfirmedStays == PtSpec => ConfirmedIsFinal
<1> DEFINE kept ==
        \A j \in 1 .. Len(mPendingTransactions) :
          mPendingTransactions[j].state = "CONFIRMED" =>
             LET k == j - (Dropped' - Dropped)
             IN  k >= 1 => mPendingTransactions'[k] = mPendingTransactions[j]
<1>1. ASSUME PtInv, PtInv', [PtNext]_ptVars PROVE kept
    <2> SUFFICES ASSUME NEW j \in 1 .. Len(mPendingTransactions),
                        mPendingTransactions[j].state = "CONFIRMED",
                        j - (Dropped' - Dropped) >= 1
                 PROVE  mPendingTransactions'[j - (Dropped' - Dropped)]
                            = mPendingTransactions[j]
        OBVIOUS
    <2> DEFINE i == Dropped + j
               k == j - (Dropped' - Dropped)
    <2>1. /\ i \in 1 .. Len(sent) /\ sent[i] \in Sent
          /\ mPendingTransactions[j] = Outcome(sent[i])
          /\ Len(sent) \in Nat /\ Dropped \in Nat
        BY <1>1, WindowBounds
    <2>2. /\ Len(sent') \in Nat /\ Len(mPendingTransactions') \in Nat
          /\ Dropped' = Len(sent') - Len(mPendingTransactions')
          /\ Dropped' \in Nat
        <3>1. Len(sent') \in Nat /\ Len(mPendingTransactions') \in Nat
            BY <1>1 DEF PtInv, PtTypeOK
        <3>2. earlier' \in 0 .. Len(sent')
            BY <1>1 DEF PtInv, PtTypeOK
        <3> QED BY <3>1, <3>2, <1>1, MaxListAssumption
                DEF PtInv, Window, Dropped, Current
    <2>3. Len(sent) <= Len(sent')
        BY <1>1, HistoryGrows DEF SentGrows
    <2>4. k \in 1 .. Len(mPendingTransactions') /\ Dropped' + k = i
        BY <2>1, <2>2, <2>3
    <2>5. mPendingTransactions'[k] = Outcome(sent'[i])
        BY <2>4, <1>1 DEF PtInv, Window
    <2>6. Outcome(sent'[i]) = Outcome(sent[i])
        <3>1. CASE sent'[i] = sent[i]
            BY <3>1
        <3>2. ASSUME NEW v \in Verdicts, sent'[i] = WithVerdict(sent[i], v)
              PROVE  Outcome(sent'[i]) = Outcome(sent[i])
            <4>1. Judged(Outcome(sent[i]), v) = Outcome(sent'[i])
                BY <3>2, <2>1, JudgedIsOutcome
            <4>2. Judged(Outcome(sent[i]), v) = Outcome(sent[i])
                BY <2>1 DEF Judged
            <4> QED BY <4>1, <4>2
        <3> QED BY <3>1, <3>2, <2>1, <1>1, HistoryGrows DEF SentGrows
    <2> QED BY <2>1, <2>5, <2>6
<1>2. PtInv /\ PtInv' /\ [PtNext]_ptVars => [kept]_ptVars
    BY <1>1
<1> QED BY <1>2, PtInvAlways, PTL DEF PtSpec, ConfirmedIsFinal

-----------------------------------------------------------------------------
(* The log that the refinement mapping shows to the callers. *)
TrackerLog == [i \in 1 .. Current |-> Outcome(sent[earlier + i])]

(* The log is a sequence of outcomes, one for each transaction since the   *)
(* last restart.                                                           *)
LEMMA TrackerLogShape ==
    ASSUME PtInv
    PROVE  /\ Current \in Nat /\ Len(sent) \in Nat /\ earlier \in Nat
           /\ earlier + Current = Len(sent)
           /\ TrackerLog \in Seq(Entry)
           /\ Len(TrackerLog) = Current
           /\ \A i \in 1 .. Current :
                 /\ earlier + i \in 1 .. Len(sent)
                 /\ sent[earlier + i] \in Sent
                 /\ TrackerLog[i] = Outcome(sent[earlier + i])
                 /\ TrackerLog[i].iotaMessageId = sent[earlier + i].iotaMessageId
<1>1. /\ Len(sent) \in Nat /\ earlier \in Nat /\ Current \in Nat
      /\ earlier + Current = Len(sent)
    BY DEF PtInv, PtTypeOK, Current
<1>2. ASSUME NEW i \in 1 .. Current
      PROVE  /\ earlier + i \in 1 .. Len(sent)
             /\ sent[earlier + i] \in Sent
             /\ TrackerLog[i] = Outcome(sent[earlier + i])
             /\ TrackerLog[i] \in Entry
             /\ TrackerLog[i].iotaMessageId = sent[earlier + i].iotaMessageId
    <2>1. earlier + i \in 1 .. Len(sent)
        BY <1>1
    <2>2. sent[earlier + i] \in Sent
        BY <2>1, ElementOfSeq DEF PtInv, PtTypeOK
    <2>3. TrackerLog[i] = Outcome(sent[earlier + i])
        BY DEF TrackerLog
    <2> QED BY <2>1, <2>2, <2>3, OutcomeType
<1>3. TrackerLog = [i \in 1 .. Current |-> TrackerLog[i]]
    BY DEF TrackerLog
<1>4. TrackerLog \in Seq(Entry) /\ Len(TrackerLog) = Current
    <2>1. TrackerLog \in [1 .. Current -> Entry]
        BY <1>2, <1>3
    <2> QED BY <2>1, <1>1, SeqDef, LenProperties
<1> QED BY <1>1, <1>2, <1>4

(* What listAsJson shows of the log. *)
ReplyShowsLog == listAsJson = Tracker!Newest(TrackerLog)

(* listAsJson is the newest part of the log. *)
LEMMA ReplyIsNewest == PtInv => ReplyShowsLog
<1> SUFFICES ASSUME PtInv PROVE listAsJson = Tracker!Newest(TrackerLog)
    BY DEF ReplyShowsLog
<1> DEFINE n == Len(mPendingTransactions)
           k == Len(TrackerLog)
<1>1. /\ n \in Nat /\ k \in Nat /\ earlier \in Nat /\ Len(sent) \in Nat
      /\ k = Current /\ earlier + k = Len(sent)
      /\ Dropped \in Nat /\ Dropped + n = Len(sent)
    BY TrackerLogShape, WindowBounds DEF Dropped
<1>2. n = IF k < MAX_PENDING_TRANSACTIONS_IN_LIST
          THEN k ELSE MAX_PENDING_TRANSACTIONS_IN_LIST
    BY <1>1 DEF PtInv, Window
<1>3. ASSUME NEW i \in 1 .. n
      PROVE  mPendingTransactions[n + 1 - i] = TrackerLog[k + 1 - i]
    <2>1. n + 1 - i \in 1 .. n /\ k + 1 - i \in 1 .. k
        BY <1>1, <1>2, MaxListAssumption
    <2>2. mPendingTransactions[n + 1 - i] = Outcome(sent[Dropped + (n + 1 - i)])
        BY <2>1, WindowBounds
    <2>3. TrackerLog[k + 1 - i] = Outcome(sent[earlier + (k + 1 - i)])
        BY <2>1, <1>1, TrackerLogShape
    <2>4. Dropped + (n + 1 - i) = earlier + (k + 1 - i)
        BY <1>1
    <2> QED BY <2>2, <2>3, <2>4
<1> QED BY <1>2, <1>3 DEF listAsJson, Tracker!Newest

(* pushNewTransaction appends an open transaction to the log. *)
LEMMA PushIsSend ==
    ASSUME PtInv, PtInv', NEW id \in MessageIds, pushNewTransaction(id)
    PROVE  TrackerLog' = Append(TrackerLog, Tracker!Open(id))
<1> DEFINE new == [iotaMessageId |-> id, verdicts |-> << >>]
<1>1. new \in Sent /\ Outcome(new) = Tracker!Open(id)
    BY EmptySeq DEF Sent, Outcome, NewEntry, Tracker!Open
<1>2. /\ Len(sent') = Len(sent) + 1 /\ earlier' = earlier
      /\ \A i \in 1 .. Len(sent) : sent'[i] = sent[i]
      /\ sent'[Len(sent) + 1] = new
    BY <1>1, AppendProperties DEF PtInv, PtTypeOK, pushNewTransaction
<1> HIDE DEF new
<1>3. Current \in Nat /\ Current' = Current + 1
    BY <1>2, TrackerLogShape DEF Current
<1>4. ASSUME NEW i \in 1 .. Current + 1
      PROVE  Outcome(sent'[earlier' + i])
                 = IF i = Current + 1 THEN Tracker!Open(id) ELSE TrackerLog[i]
    <2>1. CASE i = Current + 1
        BY <2>1, <1>1, <1>2, <1>3, TrackerLogShape
    <2>2. CASE i # Current + 1
        BY <2>2, <1>2, <1>3, TrackerLogShape
    <2> QED BY <2>1, <2>2
<1>5. TrackerLog' = [i \in 1 .. Current + 1 |->
                        IF i = Current + 1 THEN Tracker!Open(id) ELSE TrackerLog[i]]
    BY <1>3, <1>4 DEF TrackerLog
<1>6. Append(TrackerLog, Tracker!Open(id))
          = [i \in 1 .. Current + 1 |->
                IF i = Current + 1 THEN Tracker!Open(id) ELSE TrackerLog[i]]
    <2> DEFINE a == Append(TrackerLog, Tracker!Open(id))
    <2>1. Tracker!Open(id) \in Entry
        BY DEF Tracker!Open, Entry, States, Verdicts
    <2>2. /\ a \in Seq(Entry) /\ Len(a) = Current + 1
          /\ a[Current + 1] = Tracker!Open(id)
          /\ \A i \in 1 .. Current : a[i] = TrackerLog[i]
        BY <2>1, TrackerLogShape, AppendProperties
    <2> HIDE DEF a
    <2>3. a = [i \in 1 .. Current + 1 |-> a[i]]
        BY <2>2, LenProperties
    <2>4. \A i \in 1 .. Current + 1 :
              a[i] = IF i = Current + 1 THEN Tracker!Open(id) ELSE TrackerLog[i]
        BY <2>2, TrackerLogShape
    <2> QED BY <2>3, <2>4 DEF a
<1> QED BY <1>5, <1>6

(* A verdict settles the newest transaction with its id, or changes        *)
(* nothing that a caller can see: the id is unknown, its transaction is    *)
(* older than this process, or it is confirmed.                            *)
LEMMA UpdateIsSettle ==
    ASSUME PtInv, PtInv', NEW id, NEW v \in Verdicts, updateTransaction(id, v)
    PROVE  \/ TrackerLog' = TrackerLog
           \/ \E i \in 1 .. Len(TrackerLog) :
                 /\ TrackerLog[i].state # "CONFIRMED"
                 /\ \A j \in i + 1 .. Len(TrackerLog) :
                       TrackerLog[j].iotaMessageId # TrackerLog[i].iotaMessageId
                 /\ TrackerLog' = [TrackerLog EXCEPT ![i] =
                       IF v = NoError
                       THEN Tracker!Confirmed(TrackerLog[i].iotaMessageId)
                       ELSE Tracker!Rejected(TrackerLog[i].iotaMessageId, v)]
<1> DEFINE f == Found(sent, id)
           i == f - earlier
           settled == [TrackerLog EXCEPT ![i] = Judged(TrackerLog[i], v)]
<1>1. CASE Positions(sent, id) = {}
    BY <1>1 DEF updateTransaction, Recorded, TrackerLog, Current
<1>2. CASE Positions(sent, id) # {}
    <2>1. /\ sent \in Seq(Sent) /\ earlier' = earlier
          /\ sent' = [sent EXCEPT ![f] = WithVerdict(sent[f], v)]
        BY <1>2 DEF PtInv, PtTypeOK, updateTransaction, Recorded
    <2>2. /\ f \in 1 .. Len(sent) /\ sent[f].iotaMessageId = id
          /\ \A j \in 1 .. Len(sent) : sent[j].iotaMessageId = id => j <= f
        BY <1>2, <2>1, FoundIsLast DEF Positions
    <2> HIDE DEF f
    <2>3. /\ Len(sent') = Len(sent) /\ sent'[f] = WithVerdict(sent[f], v)
          /\ \A j \in 1 .. Len(sent) : j # f => sent'[j] = sent[j]
        BY <2>1, <2>2, ExceptSeq
    <2>4. Current' = Current
        BY <2>1, <2>3 DEF Current
    <2>5. ASSUME NEW j \in 1 .. Current, j # i
          PROVE  Outcome(sent'[earlier' + j]) = TrackerLog[j]
        BY <2>5, <2>1, <2>2, <2>3, TrackerLogShape
    <2>6. CASE f <= earlier
        <3>1. \A j \in 1 .. Current : j # i
            BY <2>6, <2>2, TrackerLogShape
        <3>2. TrackerLog' = [j \in 1 .. Current |-> TrackerLog[j]]
            BY <3>1, <2>4, <2>5 DEF TrackerLog
        <3> QED BY <3>2 DEF TrackerLog
    <2>7. CASE ~(f <= earlier)
        <3>1. i \in 1 .. Current /\ earlier + i = f
            BY <2>7, <2>2, TrackerLogShape
        <3>2. Outcome(sent'[earlier' + i]) = Judged(TrackerLog[i], v)
            BY <3>1, <2>1, <2>3, TrackerLogShape, JudgedIsOutcome
        <3>3. TrackerLog' = settled
            <4>1. TrackerLog' = [j \in 1 .. Current |->
                     IF j = i THEN Judged(TrackerLog[i], v) ELSE TrackerLog[j]]
                BY <2>4, <2>5, <3>2 DEF TrackerLog
            <4> QED BY <4>1 DEF TrackerLog
        <3>4. \A j \in i + 1 .. Len(TrackerLog) :
                  TrackerLog[j].iotaMessageId # TrackerLog[i].iotaMessageId
            <4> SUFFICES ASSUME NEW j \in i + 1 .. Len(TrackerLog)
                         PROVE  TrackerLog[j].iotaMessageId
                                    # TrackerLog[i].iotaMessageId
                OBVIOUS
            <4>1. j \in 1 .. Current /\ earlier + j > f
                BY <3>1, <2>2, TrackerLogShape
            <4>2. sent[earlier + j].iotaMessageId # id
                BY <4>1, <2>2, TrackerLogShape
            <4> QED BY <4>1, <4>2, <3>1, <2>2, TrackerLogShape
        <3>5. CASE TrackerLog[i].state = "CONFIRMED"
            <4>1. Judged(TrackerLog[i], v) = TrackerLog[i]
                BY <3>5 DEF Judged
            <4>2. settled = TrackerLog
                BY <4>1 DEF TrackerLog
            <4> QED BY <4>2, <3>3
        <3>6. CASE TrackerLog[i].state # "CONFIRMED"
            <4>1. Judged(TrackerLog[i], v)
                      = IF v = NoError
                        THEN Tracker!Confirmed(TrackerLog[i].iotaMessageId)
                        ELSE Tracker!Rejected(TrackerLog[i].iotaMessageId, v)
                BY <3>6 DEF Judged, Tracker!Confirmed, Tracker!Rejected
            <4>2. i \in 1 .. Len(TrackerLog)
                BY <3>1, TrackerLogShape
            <4> QED BY <4>1, <4>2, <3>3, <3>4, <3>6
        <3> QED BY <3>5, <3>6
    <2> QED BY <2>6, <2>7
<1> QED BY <1>1, <1>2

(* The bounded list with its reverse search implements the unbounded log   *)
(* of TransactionTracker: no caller can tell that entries are evicted, for *)
(* every limit, every order of verdicts and every restart.                 *)
THEOREM TrackerImplemented == PtSpec => ImplementsTracker
<1>1. PtInit => Tracker!TrackerInit
    BY EmptySeq DEF PtInit, Tracker!TrackerInit, listAsJson, Current
<1>2. PtInv' => ReplyShowsLog'
    BY ReplyIsNewest, PTL
<1>3. PtInv /\ PtInv' /\ [PtNext]_ptVars
          => [Tracker!TrackerNext]_(Tracker!trackerVars)
    <2> SUFFICES ASSUME PtInv, PtInv', [PtNext]_ptVars
                 PROVE  [Tracker!TrackerNext]_(Tracker!trackerVars)
        OBVIOUS
    <2>1. /\ listAsJson = Tracker!Newest(TrackerLog)
          /\ listAsJson' = Tracker!Newest(TrackerLog')
        BY <1>2, ReplyIsNewest DEF ReplyShowsLog
    <2>2. ASSUME TrackerLog' = TrackerLog
          PROVE  UNCHANGED Tracker!trackerVars
        BY <2>1, <2>2 DEF Tracker!trackerVars, TrackerLog
    <2>3. ASSUME NEW id \in MessageIds, pushNewTransaction(id)
          PROVE  Tracker!TrackerNext
        <3>1. TrackerLog' = Append(TrackerLog, Tracker!Open(id))
            BY <2>3, PushIsSend
        <3> QED BY <3>1, <2>1 DEF Tracker!TrackerNext, Tracker!Send, TrackerLog
    <2>4. ASSUME NEW id, NEW v \in Verdicts, updateTransaction(id, v)
          PROVE  [Tracker!TrackerNext]_(Tracker!trackerVars)
        <3>1. ASSUME NEW i \in 1 .. Len(TrackerLog),
                     TrackerLog[i].state # "CONFIRMED",
                     \A j \in i + 1 .. Len(TrackerLog) :
                       TrackerLog[j].iotaMessageId # TrackerLog[i].iotaMessageId,
                     TrackerLog' = [TrackerLog EXCEPT ![i] =
                       IF v = NoError
                       THEN Tracker!Confirmed(TrackerLog[i].iotaMessageId)
                       ELSE Tracker!Rejected(TrackerLog[i].iotaMessageId, v)]
              PROVE  Tracker!TrackerNext
            <4>1. CASE v = NoError
                <5>1. Tracker!Settle(i, Tracker!Confirmed(TrackerLog[i].iotaMessageId))
                    BY <4>1, <3>1 DEF Tracker!Settle, TrackerLog
                <5> QED BY <5>1, <2>1 DEF Tracker!TrackerNext, TrackerLog
            <4>2. CASE v # NoError
                <5>1. v \in Errors
                    BY <4>2 DEF Verdicts
                <5>2. Tracker!Settle(i, Tracker!Rejected(TrackerLog[i].iotaMessageId, v))
                    BY <4>2, <3>1 DEF Tracker!Settle, TrackerLog
                <5> QED BY <5>1, <5>2, <2>1 DEF Tracker!TrackerNext, TrackerLog
            <4> QED BY <4>1, <4>2
        <3> QED BY <3>1, <2>2, <2>4, UpdateIsSettle
    <2>5. ASSUME NEW n \in Notifications, NotifyRejected(n)
          PROVE  [Tracker!TrackerNext]_(Tracker!trackerVars)
        BY <2>4, <2>5 DEF Notifications, NotifyRejected
    <2>6. ASSUME NEW n \in Notifications, NotifyConfirmed(n)
          PROVE  [Tracker!TrackerNext]_(Tracker!trackerVars)
        BY <2>4, <2>6 DEF Verdicts, NotifyConfirmed
    <2>7. ASSUME RestartList PROVE Tracker!TrackerNext
        <3>1. Current' = 0
            BY <2>7 DEF RestartList, Current, PtInv, PtTypeOK
        <3>2. TrackerLog' = << >>
            BY <3>1 DEF TrackerLog
        <3> QED BY <3>2, <2>1 DEF Tracker!TrackerNext, Tracker!StartAnew, TrackerLog
    <2>8. ASSUME UNCHANGED ptVars PROVE UNCHANGED Tracker!trackerVars
        <3>1. TrackerLog' = TrackerLog
            BY <2>8 DEF ptVars, TrackerLog, Current
        <3> QED BY <3>1, <2>2
    <2> QED BY <2>3, <2>5, <2>6, <2>7, <2>8 DEF PtNext, NotifyIgnored
<1> QED BY <1>1, <1>3, PtInvAlways, PTL
        DEF PtSpec, ImplementsTracker, Tracker!TrackerSpec
=============================================================================
