------------------------ MODULE TransactionSendProofs ------------------------
(***************************************************************************)
(* Proofs about TransactionSend for any number of concurrent handlers, any *)
(* requests, any list limit, balance and creation limit, and any chain at  *)
(* the start.                                                              *)
(*                                                                         *)
(* None of the properties is inductive by itself.  SendInv adds what each  *)
(* handler knows at each step (HandlerInv): which half it is sending, that *)
(* the outbound half it refers to was accepted and listed, and what the    *)
(* node had answered when it asked.  The node's answers stay meaningful    *)
(* because the transactions a handler has seen never change: equal ids     *)
(* have equal content, and what was confirmed stays confirmed.  The list   *)
(* itself is covered by PendingTransactionsProofs: every step here is a    *)
(* step of the list or leaves it alone.                                    *)
(***************************************************************************)
EXTENDS TransactionSend, PendingTransactionsProofs

TangleIds == {m.id : m \in tangle}

EarlySteps == {"idle", "read", "recipient", "address", "amount"}
SendSteps  == {"prepare", "decay", "submit"}

(* The questions to the node, answered on the transactions ids of msgs. *)
CheckedOn(j, msgs, ids) ==
    /\ j.kind = "transfer" =>
          j.amount <= StartBalance - AmountOn("transfer", j.sender, Ledger(msgs, ids))
    /\ j.kind = "creation" =>
          AmountOn("creation", j.recipient, Ledger(msgs, ids)) + j.amount <= CreationLimit
    /\ j.kind = "registerAddress" =>
          /\ Recipient(j) \notin HumanAddresses \cup OtherAddresses
          /\ \A c \in Ledger(msgs, ids) : Recipient(j) \notin Touched(c)

(* The outbound half of a job was accepted under this id and listed. *)
OutboundListed(j, id) ==
    /\ id \in SentIds
    /\ \E o \in tangle : o.id = id /\ o.part = "outbound" /\ o.job = j

(* The transaction a handler has just sent. *)
PartSent(r) ==
    /\ lastId[r] \in MessageIds
    /\ part[r] \in {"outbound", "inbound"} => PartsOf(job[r]) = <<"outbound", "inbound">>
    /\ part[r] = "single" => PartsOf(job[r]) = <<"single">>
    /\ \E m \in tangle :
          /\ m.id = lastId[r] /\ m.from = r /\ m.job = job[r] /\ m.part = part[r]
          /\ part[r] = "inbound" => OutboundListed(job[r], m.parent)

(* What SuccessMeansSent says of one handler. *)
SuccessOf(r) ==
    /\ lastId[r] \in SentIds
    /\ \E m \in tangle :
          /\ m.id = lastId[r] /\ m.from = r
          /\ job[r].cross =>
                /\ m.part = "inbound" /\ m.parent \in SentIds
                /\ \E o \in tangle : o.id = m.parent /\ o.part = "outbound"
                                     /\ o.job = job[r]

(* What a handler knows at each of its steps. *)
HandlerInv(r) ==
    /\ hpc[r] # "answered" => answer[r] = "none"
    /\ hpc[r] \in EarlySteps => lastId[r] = NoId
    /\ hpc[r] = "amount" => job[r].kind # "registerAddress"
    /\ hpc[r] \in SendSteps /\ lastId[r] # NoId =>
          /\ PartsOf(job[r]) = <<"outbound", "inbound">>
          /\ OutboundListed(job[r], lastId[r])
    /\ hpc[r] \in {"decay", "submit"} => part[r] = NextPart(r)
    /\ hpc[r] = "push" => PartSent(r)
    /\ hpc[r] \in SendSteps \cup {"push"} /\ IsYoung(job[r]) =>
          CheckedOn(job[r], tangle, seen[r])
    /\ answer[r] = "success" => SuccessOf(r)

(* Equal ids have equal content, and what was seen or confirmed was sent. *)
ContentInv ==
    /\ \A m, n \in tangle : m.id = n.id => m.job = n.job /\ m.part = n.part
    /\ Confirmed \subseteq TangleIds
    /\ \A r \in Requests : seen[r] \subseteq Confirmed
    /\ \A m \in tangle : m.seen \subseteq Confirmed
    /\ \A m \in tangle : m.part = "single" => PartsOf(m.job) = <<"single">>

(* A checked transaction was sent only if the node's answers allowed it. *)
ChecksInv ==
    \A m \in tangle : IsYoung(m.job) /\ m.part # "inbound" =>
        CheckedOn(m.job, tangle, m.seen)

(* Every verdict the list has recorded is one the node gave. *)
HistoryGenuine ==
    \A i \in 1 .. Len(sent) : \A k \in 1 .. Len(sent[i].verdicts) :
        [id |-> sent[i].iotaMessageId, verdict |-> sent[i].verdicts[k]] \in decided

(* The inductive invariant. *)
SendInv ==
    /\ SendTypeOK
    /\ PtInv
    /\ \A r \in Requests : HandlerInv(r)
    /\ ContentInv
    /\ ChecksInv
    /\ HistoryGenuine
    /\ AcceptedIsTracked
    /\ InboundFollowsOutbound

-----------------------------------------------------------------------------
LEMMA AnyJobType == AnyJob \in Jobs
BY JobsAssumption DEF AnyJob

(* A request is one transaction, or two if it crosses groups. *)
LEMMA PartsShape ==
    ASSUME NEW j \in Jobs
    PROVE  \/ j.cross /\ PartsOf(j) = <<"outbound", "inbound">>
           \/ ~j.cross /\ PartsOf(j) = <<"single">>
<1>1. IsJob(j)
    BY JobsAssumption
<1>2. j.cross \in BOOLEAN /\ (j.kind = "creation" => ~j.cross)
    BY <1>1, Zenon DEF IsJob
<1>3. PartsOf(j) = Halves(j) \/ (j.kind = "creation" /\ PartsOf(j) = <<"single">>)
    BY DEF PartsOf, TransferParts, CreationParts, RegisterAddressParts
<1>4. CASE j.kind = "creation" /\ PartsOf(j) = <<"single">>
    BY <1>2, <1>4, Zenon
<1>5. CASE PartsOf(j) = Halves(j)
    BY <1>2, <1>5, Zenon DEF Halves
<1> QED BY <1>3, <1>4, <1>5

(* A request that skips the questions to the node is not young. *)
LEMMA ArchivedIsNotYoung ==
    ASSUME NEW j \in Jobs PROVE ~(mArchiveTransaction(j) /\ IsYoung(j))
<1>1. IsJob(j)
    BY JobsAssumption
<1>2. j.age \in Nat
    BY <1>1, Zenon DEF IsJob
<1>3. ~(j.age > ArchiveAge /\ j.age <= OneHour)
    BY <1>2 DEF ArchiveAge, OneHour
<1> QED BY <1>3, Zenon DEF mArchiveTransaction, IsYoung

(* What a handler has seen does not change when more is sent. *)
LEMMA LedgerStable ==
    ASSUME NEW msgs, NEW more, msgs \subseteq more, NEW ids,
           \A m, n \in more : m.id = n.id => m.job = n.job /\ m.part = n.part,
           ids \subseteq {m.id : m \in msgs}
    PROVE  Ledger(more, ids) = Ledger(msgs, ids)
<1>1. Ledger(msgs, ids) \subseteq Ledger(more, ids)
    BY DEF Ledger
<1>2. Ledger(more, ids) \subseteq Ledger(msgs, ids)
    <2> SUFFICES ASSUME NEW m \in more, m.id \in ids
                 PROVE  [id |-> m.id, job |-> m.job, part |-> m.part] \in Ledger(msgs, ids)
        BY DEF Ledger
    <2>1. PICK n \in msgs : n.id = m.id
        OBVIOUS
    <2>2. n.job = m.job /\ n.part = m.part
        BY <2>1
    <2> QED BY <2>1, <2>2 DEF Ledger
<1> QED BY <1>1, <1>2

LEMMA ChecksStable ==
    ASSUME NEW msgs, NEW more, msgs \subseteq more, NEW ids, NEW j,
           \A m, n \in more : m.id = n.id => m.job = n.job /\ m.part = n.part,
           ids \subseteq {m.id : m \in msgs},
           CheckedOn(j, msgs, ids)
    PROVE  CheckedOn(j, more, ids)
<1>1. Ledger(more, ids) = Ledger(msgs, ids)
    BY LedgerStable
<1> QED BY <1>1 DEF CheckedOn

(* What the node allowed when it was asked it still allows, unless         *)
(* something with one of the addresses was confirmed since.                *)
LEMMA CheckedIsAllowed ==
    ASSUME SendTypeOK, ContentInv, NEW m \in tangle, m.part # "inbound",
           CheckedOn(m.job, tangle, m.seen),
           \A c \in Chain : Touched(c) \cap Touched(m) # {} => c.id \in m.seen
    PROVE  NodeAllows(m)
<1> DEFINE j == m.job
           old == Ledger(tangle, m.seen)
<1>0. m \in Messages /\ j \in Jobs /\ j.kind \in Kinds
    BY JobsAssumption, Zenon DEF SendTypeOK, Messages, IsJob
<1>1. old \subseteq Chain
    BY DEF ContentInv, Chain, Ledger
<1>2. \A c \in Chain : Touched(c) \cap Touched(m) # {} => c \in old
    BY DEF Chain, Ledger
<1>3. /\ Address(j.sender, FALSE) \in Touched(m)
      /\ Address(j.recipient, FALSE) \in Touched(m)
    BY DEF Touched, Address
<1>4. \A c \in Chain : c.part # "inbound" =>
          /\ Address(c.job.sender, FALSE) \in Touched(c)
          /\ Address(c.job.recipient, FALSE) \in Touched(c)
    BY DEF Touched, Address
<1>5. CASE j.kind = "transfer"
    <2>1. {c \in Chain : /\ c.job.kind = "transfer" /\ c.part # "inbound"
                         /\ j.sender = c.job.sender}
          = {c \in old : /\ c.job.kind = "transfer" /\ c.part # "inbound"
                         /\ j.sender = c.job.sender}
        BY <1>1, <1>2, <1>3, <1>4
    <2>2. AmountOn("transfer", j.sender, Chain) = AmountOn("transfer", j.sender, old)
        BY <2>1 DEF AmountOn
    <2> QED BY <2>2, <1>5 DEF CheckedOn, NodeAllows, getAddressBalance
<1>6. CASE j.kind = "creation"
    <2>1. {c \in Chain : /\ c.job.kind = "creation" /\ c.part # "inbound"
                         /\ j.recipient = c.job.recipient}
          = {c \in old : /\ c.job.kind = "creation" /\ c.part # "inbound"
                         /\ j.recipient = c.job.recipient}
        BY <1>1, <1>2, <1>3, <1>4
    <2>2. AmountOn("creation", j.recipient, Chain) = AmountOn("creation", j.recipient, old)
        BY <2>1 DEF AmountOn
    <2> QED BY <2>2, <1>6 DEF CheckedOn, NodeAllows, getCreationSumForMonth
<1>7. CASE j.kind = "registerAddress"
    <2>1. m.part = "outbound" \/ m.part = "single"
        BY <1>0 DEF Messages, Parts
    <2>2. CASE m.part = "outbound"
        BY <2>2, <1>7 DEF NodeAllows
    <2>3. CASE m.part = "single"
        <3>1. Recipient(j) = Address(j.recipient, FALSE)
            <4>1. ~j.cross
                BY <2>3, <1>0, PartsShape DEF ContentInv
            <4> QED BY <4>1, Zenon DEF Recipient, Address
        <3>2. ~getAddressTxids(Recipient(j))
            BY <3>1, <1>2, <1>3, <1>7 DEF CheckedOn, getAddressTxids
        <3> QED BY <3>2, <1>7, <2>3 DEF NodeAllows
    <2> QED BY <2>1, <2>2, <2>3
<1> QED BY <1>0, <1>5, <1>6, <1>7 DEF Kinds

-----------------------------------------------------------------------------
LocalsTyped ==
    /\ hpc \in [Requests -> Steps]
    /\ job \in [Requests -> Jobs]
    /\ part \in [Requests -> Parts]
    /\ lastId \in [Requests -> MessageIds \cup {NoId}]
    /\ answer \in [Requests -> Answers]
    /\ seen \in [Requests -> SUBSET MessageIds]

(* A handler keeps its place and its locals; all but r do. *)
Stays(q) ==
    /\ hpc'[q] = hpc[q] /\ job'[q] = job[q] /\ part'[q] = part[q]
    /\ lastId'[q] = lastId[q] /\ answer'[q] = answer[q] /\ seen'[q] = seen[q]
OthersStay(r) == \A q \in Requests \ {r} : Stays(q)

(* Nothing that was sent or listed is forgotten. *)
RecordsGrow ==
    /\ tangle \subseteq tangle'
    /\ SentIds \subseteq SentIds'
    /\ \A m, n \in tangle' : m.id = n.id => m.job = n.job /\ m.part = n.part

(* What a handler knows it keeps knowing while others are at work. *)
LEMMA HandlerKeeps ==
    ASSUME SendInv, RecordsGrow, NEW q \in Requests, Stays(q)
    PROVE  HandlerInv(q)'
<1>0. HandlerInv(q)
    BY DEF SendInv
<1>1. ASSUME NEW j, NEW id, OutboundListed(j, id)
      PROVE  id \in SentIds' /\ \E o \in tangle' : o.id = id /\ o.part = "outbound" /\ o.job = j
    BY <1>1 DEF OutboundListed, RecordsGrow
<1>2. PartSent(q) => PartSent(q)'
    BY <1>1 DEF PartSent, OutboundListed, RecordsGrow, Stays
<1>3. SuccessOf(q) => SuccessOf(q)'
    <2> SUFFICES ASSUME SuccessOf(q) PROVE SuccessOf(q)'
        OBVIOUS
    <2>1. tangle \subseteq tangle' /\ SentIds \subseteq SentIds'
          /\ lastId'[q] = lastId[q] /\ job'[q] = job[q]
        BY DEF RecordsGrow, Stays
    <2> QED BY <2>1, Zenon DEF SuccessOf
<1>4. CheckedOn(job[q], tangle, seen[q]) => CheckedOn(job[q], tangle', seen[q])
    <2>1. seen[q] \subseteq {m.id : m \in tangle}
        BY DEF SendInv, ContentInv, TangleIds
    <2> QED BY <2>1, ChecksStable DEF RecordsGrow
<1>5. hpc[q] \in SendSteps /\ lastId[q] # NoId => OutboundListed(job[q], lastId[q])'
    BY <1>0, <1>1 DEF HandlerInv, OutboundListed, Stays
<1> QED BY <1>0, <1>2, <1>3, <1>4, <1>5 DEF HandlerInv, Stays, NextPart

(* A step before or between sends: only the handler's own locals change. *)
LEMMA QuietStep ==
    ASSUME SendInv, NEW r \in Requests, NothingSent, OthersStay(r),
           LocalsTyped', HandlerInv(r)', seen'[r] \subseteq Confirmed, hpc[r] # "push"
    PROVE  SendInv'
<1>1. UNCHANGED <<tangle, decided, delivered, lost, mPendingTransactions, sent, earlier>>
    BY DEF NothingSent, world, ptVars
<1>2. PtInv'
    BY <1>1, PtNextInv DEF SendInv, ptVars
<1>3. SendTypeOK'
    BY <1>1, <1>2 DEF SendInv, SendTypeOK, LocalsTyped, PtInv
<1>4. RecordsGrow
    BY <1>1 DEF RecordsGrow, SentIds, SendInv, ContentInv
<1>5. \A q \in Requests : HandlerInv(q)'
    BY <1>4, HandlerKeeps DEF OthersStay
<1>6. ContentInv'
    <2>1. Confirmed' = Confirmed /\ TangleIds' = TangleIds
        BY <1>1 DEF Confirmed, TangleIds
    <2>2. \A q \in Requests : seen'[q] \subseteq Confirmed
        BY DEF OthersStay, Stays, SendInv, ContentInv
    <2> QED BY <1>1, <2>1, <2>2 DEF SendInv, ContentInv
<1>7. ChecksInv' /\ HistoryGenuine' /\ InboundFollowsOutbound'
    BY <1>1 DEF SendInv, ChecksInv, HistoryGenuine, InboundFollowsOutbound, SentIds
<1>8. AcceptedIsTracked'
    BY <1>1 DEF SendInv, AcceptedIsTracked, SentIds, OthersStay, Stays, SendTypeOK, Messages
<1> QED BY <1>2, <1>3, <1>5, <1>6, <1>7, <1>8 DEF SendInv

(* handle() ends without a transaction id. *)
LEMMA AnswerEnds ==
    ASSUME SendTypeOK, NEW r \in Requests, NEW a \in {"error", "exception", "crashed"},
           Answer(r, a)
    PROVE  /\ LocalsTyped' /\ OthersStay(r) /\ HandlerInv(r)'
           /\ hpc'[r] = "answered" /\ seen'[r] = {}
<1>1. LocalsTyped'
    BY AnyJobType DEF SendTypeOK, LocalsTyped, Answer, End, Steps, Parts, Answers
<1>2. OthersStay(r)
    BY DEF OthersStay, Stays, Answer, End
<1>3. hpc'[r] = "answered" /\ seen'[r] = {} /\ answer'[r] = a
    BY DEF Answer, End
<1>4. HandlerInv(r)'
    BY <1>3 DEF HandlerInv, EarlySteps, SendSteps
<1> QED BY <1>1, <1>2, <1>3, <1>4

LEMMA EndInv ==
    ASSUME SendInv, NEW r \in Requests, NEW a \in {"error", "exception", "crashed"},
           Answer(r, a), NothingSent, hpc[r] # "push"
    PROVE  SendInv'
BY AnswerEnds, QuietStep DEF SendInv

-----------------------------------------------------------------------------
(* A handler moves on before its first send, possibly after an answer of   *)
(* the node.                                                               *)
LEMMA MoveEarly ==
    ASSUME SendInv, NEW r \in Requests, hpc[r] \in EarlySteps,
           NEW step \in EarlySteps \cup {"prepare"},
           hpc' = [hpc EXCEPT ![r] = step],
           \/ seen' = seen
           \/ seen' = [seen EXCEPT ![r] = Confirmed],
           UNCHANGED <<job, part, lastId, answer>>, NothingSent,
           step = "amount" => job[r].kind # "registerAddress",
           step = "prepare" /\ IsYoung(job[r]) => CheckedOn(job[r], tangle, seen'[r])
    PROVE  SendInv'
<1>0. SendTypeOK /\ HandlerInv(r) /\ ContentInv
    BY DEF SendInv
<1>1. Confirmed \subseteq MessageIds
    BY <1>0 DEF SendTypeOK, Confirmed
<1>2. LocalsTyped' /\ OthersStay(r)
    BY <1>0, <1>1 DEF SendTypeOK, LocalsTyped, OthersStay, Stays, Steps, EarlySteps
<1>3. hpc'[r] = step /\ seen'[r] \subseteq Confirmed
    BY <1>0 DEF SendTypeOK, ContentInv
<1>4. lastId[r] = NoId /\ answer[r] = "none" /\ tangle' = tangle
    BY <1>0 DEF HandlerInv, EarlySteps, NothingSent, world
<1>5. HandlerInv(r)'
    BY <1>3, <1>4 DEF HandlerInv, EarlySteps, SendSteps
<1> QED BY <1>2, <1>3, <1>5, QuietStep DEF EarlySteps

LEMMA ReceiveInv ==
    ASSUME SendInv, NEW r \in Requests, NEW j \in Jobs, Receive(r, j) PROVE SendInv'
<1>0. SendTypeOK /\ HandlerInv(r) /\ ContentInv
    BY DEF SendInv
<1>1. Confirmed \subseteq MessageIds
    BY <1>0 DEF SendTypeOK, Confirmed
<1>2. LocalsTyped' /\ OthersStay(r) /\ hpc'[r] = "read" /\ seen'[r] \subseteq Confirmed
    BY <1>0, <1>1 DEF SendTypeOK, LocalsTyped, OthersStay, Stays, Steps, Receive
<1>3. lastId'[r] = NoId /\ answer'[r] = "none"
    BY <1>0 DEF HandlerInv, EarlySteps, Receive
<1>4. HandlerInv(r)'
    BY <1>2, <1>3 DEF HandlerInv, EarlySteps, SendSteps
<1> QED BY <1>2, <1>4, QuietStep DEF Receive

LEMMA ReadInv ==
    ASSUME SendInv, NEW r \in Requests, NEW next \in EarlySteps \cup {"prepare"},
           next # "amount", next = "prepare" => mArchiveTransaction(job[r]),
           ReadSharedParameter(r, next)
    PROVE  SendInv'
<1>1. ~(mArchiveTransaction(job[r]) /\ IsYoung(job[r]))
    BY ArchivedIsNotYoung DEF SendInv, SendTypeOK
<1>2. CASE Goto(r, next)
    BY <1>1, <1>2, MoveEarly DEF Goto, ReadSharedParameter, EarlySteps
<1>3. CASE Answer(r, "error") \/ Answer(r, "exception")
    BY <1>3, EndInv DEF ReadSharedParameter
<1> QED BY <1>2, <1>3 DEF ReadSharedParameter

LEMMA ReadStepsInv ==
    ASSUME SendInv, NEW r \in Requests,
           ReadTransfer(r) \/ ReadCreation(r) \/ ReadRegisterAddress(r)
    PROVE  SendInv'
<1>1. CASE ReadSharedParameter(r, "recipient")
    BY <1>1, ReadInv DEF EarlySteps
<1>2. CASE ReadRegisterAddress(r)
    BY <1>2, ReadInv DEF ReadRegisterAddress, EarlySteps
<1> QED BY <1>1, <1>2 DEF ReadTransfer, ReadCreation

LEMMA LookUpRecipientInv ==
    ASSUME SendInv, NEW r \in Requests, LookUpRecipient(r) PROVE SendInv'
<1>1. ~(mArchiveTransaction(job[r]) /\ IsYoung(job[r]))
    BY ArchivedIsNotYoung DEF SendInv, SendTypeOK
<1>2. CASE Answer(r, "exception")
    BY <1>2, EndInv DEF LookUpRecipient
<1>3. CASE Goto(r, IF mArchiveTransaction(job[r]) THEN "prepare" ELSE "address")
    <2> DEFINE step == IF mArchiveTransaction(job[r]) THEN "prepare" ELSE "address"
    <2>1. /\ step \in EarlySteps \cup {"prepare"} /\ step # "amount"
          /\ step = "prepare" => mArchiveTransaction(job[r])
        BY DEF EarlySteps
    <2>2. Goto(r, step)
        BY <1>3
    <2> HIDE DEF step
    <2> QED BY <1>1, <2>1, <2>2, MoveEarly DEF Goto, LookUpRecipient, EarlySteps
<1> QED BY <1>2, <1>3 DEF LookUpRecipient

(* The answers of the node are what CheckedOn says of the confirmed ones. *)
LEMMA CheckAddressInv ==
    ASSUME SendInv, NEW r \in Requests, CheckAddress(r) PROVE SendInv'
<1>0. hpc[r] = "address" /\ NothingSent /\ SendTypeOK
    BY DEF CheckAddress, SendInv
<1>1. CASE ~AddressAccepted(job[r])
    BY <1>0, <1>1, EndInv DEF CheckAddress
<1>2. CASE AddressAccepted(job[r])
    <2> DEFINE step == IF job[r].kind = "registerAddress" THEN "prepare" ELSE "amount"
    <2>1. GotoAfterAsking(r, step)
        BY <1>2 DEF CheckAddress
    <2>2. /\ step \in EarlySteps \cup {"prepare"}
          /\ step = "amount" => job[r].kind # "registerAddress"
          /\ step = "prepare" => job[r].kind = "registerAddress"
        BY DEF EarlySteps
    <2>3. step = "prepare" => CheckedOn(job[r], tangle, Confirmed)
        BY <1>2, <2>2 DEF AddressAccepted, RegisterAddressAccepted, getAddressTxids,
                          CheckedOn, Chain
    <2> HIDE DEF step
    <2>4. seen'[r] = Confirmed
        BY <1>0, <2>1 DEF GotoAfterAsking, SendTypeOK
    <2> QED BY <1>0, <2>1, <2>2, <2>3, <2>4, MoveEarly DEF GotoAfterAsking, EarlySteps
<1> QED BY <1>1, <1>2

LEMMA CheckAmountInv ==
    ASSUME SendInv, NEW r \in Requests, CheckAmount(r) PROVE SendInv'
<1>0. /\ hpc[r] = "amount" /\ NothingSent /\ SendTypeOK
      /\ job[r].kind # "registerAddress"
    BY DEF CheckAmount, SendInv, HandlerInv
<1>1. CASE ~AmountAccepted(job[r])
    BY <1>0, <1>1, EndInv DEF CheckAmount
<1>2. CASE AmountAccepted(job[r])
    <2>1. GotoAfterAsking(r, "prepare")
        BY <1>2 DEF CheckAmount
    <2>2. CheckedOn(job[r], tangle, Confirmed)
        BY <1>0, <1>2 DEF AmountAccepted, TransferAmountAccepted, CreationAmountAccepted,
                          getAddressBalance, getCreationSumForMonth, CheckedOn, Chain
    <2>3. seen'[r] = Confirmed
        BY <1>0, <2>1 DEF GotoAfterAsking, SendTypeOK
    <2> QED BY <1>0, <2>1, <2>2, <2>3, MoveEarly DEF GotoAfterAsking, EarlySteps
<1> QED BY <1>1, <1>2

LEMMA NodeCallFailsInv ==
    ASSUME SendInv, NEW r \in Requests, NodeCallFails(r) PROVE SendInv'
BY EndInv DEF NodeCallFails

-----------------------------------------------------------------------------
(* Which half comes next: the inbound one only after a first id. *)
LEMMA NextPartShape ==
    ASSUME NEW r \in Requests, job[r] \in Jobs,
           lastId[r] = NoId \/ PartsOf(job[r]) = <<"outbound", "inbound">>
    PROVE  /\ NextPart(r) \in Parts
           /\ NextPart(r) = "single" => PartsOf(job[r]) = <<"single">>
           /\ NextPart(r) \in {"outbound", "inbound"} =>
                 PartsOf(job[r]) = <<"outbound", "inbound">>
           /\ NextPart(r) = "inbound" => lastId[r] # NoId
<1>1. \/ PartsOf(job[r]) = <<"outbound", "inbound">>
      \/ PartsOf(job[r]) = <<"single">>
    BY PartsShape, Zenon
<1>2. CASE PartsOf(job[r]) = <<"outbound", "inbound">>
    <2>1. NextPart(r) = IF lastId[r] = NoId THEN "outbound" ELSE "inbound"
        BY <1>2 DEF NextPart
    <2> QED BY <2>1, <1>2 DEF Parts
<1>3. CASE PartsOf(job[r]) = <<"single">>
    <2>1. lastId[r] = NoId
        <3>1. <<"single">> # <<"outbound", "inbound">>
            OBVIOUS
        <3> QED BY <3>1, <1>3
    <2>2. NextPart(r) = "single"
        BY <1>3, <2>1 DEF NextPart
    <2> QED BY <2>2, <1>3 DEF Parts
<1> QED BY <1>1, <1>2, <1>3

LEMMA PrepareInv ==
    ASSUME SendInv, NEW r \in Requests, Prepare(r) PROVE SendInv'
<1>0. SendTypeOK /\ HandlerInv(r) /\ ContentInv /\ hpc[r] = "prepare" /\ NothingSent
    BY DEF SendInv, Prepare
<1>1. CASE SendFails(r)
    BY <1>0, <1>1, EndInv DEF SendFails
<1>2. CASE ~SendFails(r)
    <2> DEFINE step == IF job[r].decay THEN "decay" ELSE "submit"
    <2>1. /\ hpc' = [hpc EXCEPT ![r] = step]
          /\ part' = [part EXCEPT ![r] = NextPart(r)]
          /\ UNCHANGED <<job, lastId, answer, seen>>
        BY <1>2 DEF Prepare
    <2>2. step \in {"decay", "submit"}
        OBVIOUS
    <2> HIDE DEF step
    <2>3. job[r] \in Jobs /\ (lastId[r] = NoId \/ PartsOf(job[r]) = <<"outbound", "inbound">>)
        BY <1>0 DEF SendTypeOK, HandlerInv, SendSteps
    <2>4. NextPart(r) \in Parts
        BY <2>3, NextPartShape
    <2>5. LocalsTyped' /\ OthersStay(r)
        BY <1>0, <2>1, <2>2, <2>4 DEF SendTypeOK, LocalsTyped, OthersStay, Stays, Steps
    <2>6. /\ hpc'[r] = step /\ part'[r] = NextPart(r)
          /\ tangle' = tangle /\ SentIds' = SentIds
        BY <1>0, <2>1 DEF SendTypeOK, NothingSent, world, ptVars, SentIds
    <2>7. NextPart(r)' = NextPart(r)
        BY <2>1 DEF NextPart
    <2>8. lastId[r] # NoId => OutboundListed(job[r], lastId[r])'
        BY <1>0, <2>1, <2>6 DEF HandlerInv, SendSteps, OutboundListed
    <2>9. HandlerInv(r)'
        BY <1>0, <2>1, <2>2, <2>3, <2>6, <2>7, <2>8 DEF HandlerInv, EarlySteps, SendSteps
    <2>10. seen'[r] \subseteq Confirmed
        BY <1>0, <2>1 DEF ContentInv
    <2> QED BY <1>0, <2>5, <2>9, <2>10, QuietStep
<1> QED BY <1>1, <1>2

LEMMA ValidateApolloDecayInv ==
    ASSUME SendInv, NEW r \in Requests, ValidateApolloDecay(r) PROVE SendInv'
<1>0. SendTypeOK /\ HandlerInv(r) /\ ContentInv /\ hpc[r] = "decay" /\ NothingSent
    BY DEF SendInv, ValidateApolloDecay
<1>1. CASE SendFails(r)
    BY <1>0, <1>1, EndInv DEF SendFails
<1>2. CASE Goto(r, "submit")
    <2>1. /\ hpc' = [hpc EXCEPT ![r] = "submit"]
          /\ UNCHANGED <<job, part, lastId, answer, seen>>
        BY <1>2 DEF Goto
    <2>2. LocalsTyped' /\ OthersStay(r)
        BY <1>0, <2>1 DEF SendTypeOK, LocalsTyped, OthersStay, Stays, Steps
    <2>3. hpc'[r] = "submit" /\ tangle' = tangle /\ SentIds' = SentIds
        BY <1>0, <2>1 DEF SendTypeOK, NothingSent, world, ptVars, SentIds
    <2>4. lastId[r] # NoId => OutboundListed(job[r], lastId[r])'
        BY <1>0, <2>1, <2>3 DEF HandlerInv, SendSteps, OutboundListed
    <2>5. HandlerInv(r)'
        BY <1>0, <2>1, <2>3, <2>4 DEF HandlerInv, EarlySteps, SendSteps, NextPart
    <2>6. seen'[r] \subseteq Confirmed
        BY <1>0, <2>1 DEF ContentInv
    <2> QED BY <1>0, <2>2, <2>5, <2>6, QuietStep
<1> QED BY <1>1, <1>2 DEF ValidateApolloDecay

-----------------------------------------------------------------------------
(* A transaction reaches iota or the node: what is new about the tangle. *)
LEMMA NewMessage ==
    ASSUME SendInv, NEW r \in Requests, hpc[r] = "submit", NEW id \in NewIds(r),
           tangle' = tangle \cup {Message(r, id)}, UNCHANGED <<decided, ptVars>>
    PROVE  /\ id \in MessageIds
           /\ tangle' \subseteq Messages
           /\ RecordsGrow
           /\ ChecksInv'
           /\ InboundFollowsOutbound'
           /\ TangleIds \subseteq TangleIds'
           /\ Confirmed' = Confirmed
           /\ \A m \in tangle' : m.seen \subseteq Confirmed
           /\ \A m \in tangle' : m.part = "single" => PartsOf(m.job) = <<"single">>
<1> DEFINE new == Message(r, id)
<1>0. SendTypeOK /\ HandlerInv(r) /\ ContentInv
    BY DEF SendInv
<1>1. /\ new.id = id /\ new.from = r /\ new.job = job[r] /\ new.part = part[r]
      /\ new.seen = seen[r]
      /\ new.parent = IF part[r] = "inbound" THEN lastId[r] ELSE NoId
    BY DEF Message
<1>2. \/ id \in Unused
      \/ id \in SameContent(r)
    BY DEF NewIds, FreshIds
<1>3. id \in MessageIds
    BY <1>0, <1>2 DEF Unused, SameContent, SendTypeOK, Messages
<1>4. new \in Messages
    BY <1>0, <1>3 DEF Message, Messages, SendTypeOK
<1>5. \A n \in tangle : n.id = id => n.job = job[r] /\ n.part = part[r]
    <2>1. CASE id \in Unused
        BY <2>1 DEF Unused
    <2>2. CASE id \in SameContent(r)
        <3>1. PICK k \in tangle : k.id = id /\ k.job = job[r] /\ k.part = part[r]
            BY <2>2 DEF SameContent
        <3> QED BY <3>1, <1>0 DEF ContentInv
    <2> QED BY <1>2, <2>1, <2>2
<1> HIDE DEF new
<1>6. tangle' = tangle \cup {new}
    BY DEF new
<1>7. \A m, n \in tangle' : m.id = n.id => m.job = n.job /\ m.part = n.part
    BY <1>0, <1>1, <1>5, <1>6 DEF ContentInv
<1>8. RecordsGrow
    BY <1>6, <1>7 DEF RecordsGrow, SentIds, ptVars
<1>9. Confirmed' = Confirmed /\ TangleIds \subseteq TangleIds'
    BY <1>6 DEF Confirmed, TangleIds
<1>10. \A m \in tangle' : m.seen \subseteq Confirmed
    BY <1>0, <1>1, <1>6 DEF ContentInv
<1>11. /\ job[r] \in Jobs /\ part[r] = NextPart(r)
       /\ lastId[r] = NoId \/ PartsOf(job[r]) = <<"outbound", "inbound">>
    BY <1>0 DEF SendTypeOK, HandlerInv, SendSteps
<1>12. \A m \in tangle' : m.part = "single" => PartsOf(m.job) = <<"single">>
    BY <1>0, <1>1, <1>6, <1>11, NextPartShape DEF ContentInv
<1>13. ChecksInv'
    <2> SUFFICES ASSUME NEW m \in tangle', IsYoung(m.job), m.part # "inbound"
                 PROVE  CheckedOn(m.job, tangle', m.seen)
        BY DEF ChecksInv
    <2>1. CheckedOn(m.job, tangle, m.seen)
        BY <1>0, <1>1, <1>6 DEF SendInv, ChecksInv, HandlerInv, SendSteps
    <2>2. m.seen \subseteq {n.id : n \in tangle}
        BY <1>0, <1>10 DEF ContentInv, TangleIds
    <2> QED BY <1>6, <1>7, <2>1, <2>2, ChecksStable
<1>14. InboundFollowsOutbound'
    <2> SUFFICES ASSUME NEW m \in tangle', m.part = "inbound"
                 PROVE  \E o \in tangle' : /\ o.part = "outbound" /\ o.job = m.job
                                           /\ o.id = m.parent /\ o.id \in SentIds'
        BY DEF InboundFollowsOutbound
    <2>1. SentIds' = SentIds
        BY DEF SentIds, ptVars
    <2>2. CASE m \in tangle
        BY <1>6, <2>1, <2>2 DEF SendInv, InboundFollowsOutbound
    <2>3. CASE m = new
        <3>1. OutboundListed(job[r], lastId[r])
            BY <2>3, <1>0, <1>1, <1>11, NextPartShape DEF HandlerInv, SendSteps
        <3> QED BY <3>1, <2>1, <2>3, <1>1, <1>6 DEF OutboundListed
    <2> QED BY <1>6, <2>2, <2>3
<1> QED BY <1>3, <1>4, <1>6, <1>8, <1>9, <1>10, <1>12, <1>13, <1>14
        DEF SendTypeOK, SendInv

(* The call succeeds: the id is kept and the transaction is next to be     *)
(* listed.                                                                 *)
LEMMA SubmitInv ==
    ASSUME SendInv, NEW r \in Requests, Submit(r) PROVE SendInv'
<1>0. SendTypeOK /\ HandlerInv(r) /\ ContentInv /\ hpc[r] = "submit"
    BY DEF SendInv, Submit
<1>1. PICK id \in NewIds(r) : /\ tangle' = tangle \cup {Message(r, id)}
                              /\ lastId' = [lastId EXCEPT ![r] = id]
    BY DEF Submit
<1>2. /\ hpc' = [hpc EXCEPT ![r] = "push"]
      /\ UNCHANGED <<job, part, answer, seen, decided, delivered, lost, ptVars>>
    BY DEF Submit
<1>3. /\ id \in MessageIds
      /\ tangle' \subseteq Messages
      /\ RecordsGrow
      /\ ChecksInv'
      /\ InboundFollowsOutbound'
      /\ TangleIds \subseteq TangleIds'
      /\ Confirmed' = Confirmed
      /\ \A m \in tangle' : m.seen \subseteq Confirmed
      /\ \A m \in tangle' : m.part = "single" => PartsOf(m.job) = <<"single">>
    BY <1>0, <1>1, <1>2, NewMessage
<1>4. PtInv'
    BY <1>2, PtNextInv DEF SendInv
<1>5. SendTypeOK'
    BY <1>0, <1>1, <1>2, <1>3, <1>4 DEF SendTypeOK, PtInv, Steps
<1>6. OthersStay(r)
    BY <1>0, <1>1, <1>2 DEF SendTypeOK, OthersStay, Stays
<1>7. hpc'[r] = "push" /\ lastId'[r] = id
    BY <1>0, <1>1, <1>2 DEF SendTypeOK
<1>8. PartSent(r)'
    <2>1. /\ job[r] \in Jobs /\ part[r] = NextPart(r)
          /\ lastId[r] = NoId \/ PartsOf(job[r]) = <<"outbound", "inbound">>
        BY <1>0 DEF SendTypeOK, HandlerInv, SendSteps
    <2>2. /\ part[r] \in {"outbound", "inbound"} => PartsOf(job[r]) = <<"outbound", "inbound">>
          /\ part[r] = "single" => PartsOf(job[r]) = <<"single">>
        BY <2>1, NextPartShape
    <2>3. PICK m \in tangle' : m = Message(r, id)
        BY <1>1
    <2>4. /\ m.id = id /\ m.from = r /\ m.job = job[r] /\ m.part = part[r]
          /\ part[r] = "inbound" => m.parent = lastId[r]
        BY <2>3 DEF Message
    <2>5. part[r] = "inbound" => OutboundListed(job[r], lastId[r])
        BY <1>0, <2>1, NextPartShape DEF HandlerInv, SendSteps
    <2>6. part[r] = "inbound" => OutboundListed(job[r], m.parent)'
        BY <2>4, <2>5, <1>2, <1>3 DEF OutboundListed, RecordsGrow
    <2> QED BY <1>2, <1>3, <1>7, <2>2, <2>4, <2>6 DEF PartSent
<1>9. HandlerInv(r)'
    <2>1. answer[r] = "none" /\ (IsYoung(job[r]) => CheckedOn(job[r], tangle, seen[r]))
        BY <1>0 DEF HandlerInv, SendSteps
    <2>2. seen[r] \subseteq {n.id : n \in tangle}
        BY <1>0 DEF ContentInv, TangleIds
    <2>3. IsYoung(job[r]) => CheckedOn(job[r], tangle', seen[r])
        BY <2>1, <2>2, <1>3, ChecksStable DEF RecordsGrow
    <2> QED BY <1>2, <1>7, <1>8, <2>1, <2>3 DEF HandlerInv, EarlySteps, SendSteps
<1>10. \A q \in Requests : HandlerInv(q)'
    BY <1>3, <1>6, <1>9, HandlerKeeps DEF OthersStay
<1>11. ContentInv'
    BY <1>0, <1>2, <1>3 DEF ContentInv, RecordsGrow
<1>12. HistoryGenuine'
    BY <1>2 DEF SendInv, HistoryGenuine, ptVars
<1>13. AcceptedIsTracked'
    <2> SUFFICES ASSUME NEW m \in tangle'
                 PROVE  \/ m.id \in SentIds' \/ m.id \in lost'
                        \/ hpc'[m.from] = "push" /\ lastId'[m.from] = m.id
        BY DEF AcceptedIsTracked
    <2>1. CASE m = Message(r, id)
        BY <2>1, <1>7 DEF Message
    <2>2. CASE m \in tangle
        <3>1. m.from \in Requests
            BY <2>2, <1>0 DEF SendTypeOK, Messages
        <3>2. \/ m.id \in SentIds \/ m.id \in lost
              \/ hpc[m.from] = "push" /\ lastId[m.from] = m.id
            BY <2>2 DEF SendInv, AcceptedIsTracked
        <3> QED BY <3>1, <3>2, <1>0, <1>2, <1>3, <1>6
                DEF RecordsGrow, OthersStay, Stays
    <2> QED BY <1>1, <2>1, <2>2
<1> QED BY <1>3, <1>4, <1>5, <1>10, <1>11, <1>12, <1>13 DEF SendInv

(* The call fails: what was accepted all the same is on record as lost. *)
LEMMA SubmitFailsInv ==
    ASSUME SendInv, NEW r \in Requests, SubmitFails(r) PROVE SendInv'
<1>0. SendTypeOK /\ HandlerInv(r) /\ ContentInv /\ hpc[r] = "submit"
    BY DEF SendInv, SubmitFails
<1>1. UNCHANGED <<decided, delivered, ptVars>> /\ SendFails(r)
    BY DEF SubmitFails
<1>2. CASE UNCHANGED <<tangle, lost>>
    BY <1>0, <1>1, <1>2, EndInv DEF SendFails, NothingSent, world
<1>3. ASSUME NEW id \in NewIds(r), tangle' = tangle \cup {Message(r, id)},
             lost' = lost \cup {id}
      PROVE  SendInv'
    <2>1. LocalsTyped' /\ OthersStay(r) /\ HandlerInv(r)' /\ seen'[r] = {}
        BY <1>0, <1>1, AnswerEnds DEF SendFails
    <2>2. /\ id \in MessageIds
          /\ tangle' \subseteq Messages
          /\ RecordsGrow
          /\ ChecksInv'
          /\ InboundFollowsOutbound'
          /\ TangleIds \subseteq TangleIds'
          /\ Confirmed' = Confirmed
          /\ \A m \in tangle' : m.seen \subseteq Confirmed
          /\ \A m \in tangle' : m.part = "single" => PartsOf(m.job) = <<"single">>
        BY <1>0, <1>1, <1>3, NewMessage
    <2>3. PtInv'
        BY <1>1, PtNextInv DEF SendInv
    <2>4. SendTypeOK'
        BY <1>0, <1>1, <1>3, <2>1, <2>2, <2>3 DEF SendTypeOK, PtInv, LocalsTyped
    <2>5. \A q \in Requests : HandlerInv(q)'
        BY <2>1, <2>2, HandlerKeeps DEF OthersStay
    <2>6. ContentInv'
        <3>1. \A q \in Requests : seen'[q] \subseteq Confirmed
            BY <1>0, <2>1 DEF OthersStay, Stays, ContentInv
        <3> QED BY <1>0, <2>2, <3>1 DEF ContentInv, RecordsGrow
    <2>7. HistoryGenuine'
        BY <1>1 DEF SendInv, HistoryGenuine, ptVars
    <2>8. AcceptedIsTracked'
        <3> SUFFICES ASSUME NEW m \in tangle'
                     PROVE  \/ m.id \in SentIds' \/ m.id \in lost'
                            \/ hpc'[m.from] = "push" /\ lastId'[m.from] = m.id
            BY DEF AcceptedIsTracked
        <3>1. CASE m = Message(r, id)
            BY <3>1, <1>3 DEF Message
        <3>2. CASE m \in tangle
            <4>1. m.from \in Requests
                BY <3>2, <1>0 DEF SendTypeOK, Messages
            <4>2. \/ m.id \in SentIds \/ m.id \in lost
                  \/ hpc[m.from] = "push" /\ lastId[m.from] = m.id
                BY <3>2 DEF SendInv, AcceptedIsTracked
            <4> QED BY <4>1, <4>2, <1>0, <1>3, <2>1, <2>2
                    DEF RecordsGrow, OthersStay, Stays
        <3> QED BY <1>3, <3>1, <3>2
    <2> QED BY <2>2, <2>3, <2>4, <2>5, <2>6, <2>7, <2>8 DEF SendInv
<1> QED BY <1>2, <1>3 DEF SubmitFails

-----------------------------------------------------------------------------
(* The ids of the history only grow. *)
LEMMA SentIdsGrow ==
    ASSUME PtInv, [PtNext]_ptVars PROVE SentIds \subseteq SentIds'
<1>1. SentGrows /\ Len(sent) \in Nat
    BY HistoryGrows DEF PtInv, PtTypeOK
<1>2. PtInv'
    BY PtNextInv
<1>3. Len(sent') \in Nat
    BY <1>2 DEF PtInv, PtTypeOK
<1> SUFFICES ASSUME NEW i \in 1 .. Len(sent) PROVE sent[i].iotaMessageId \in SentIds'
    BY DEF SentIds
<1>4. sent'[i].iotaMessageId = sent[i].iotaMessageId
    <2>1. \A v : WithVerdict(sent[i], v).iotaMessageId = sent[i].iotaMessageId
        BY DEF WithVerdict
    <2> QED BY <2>1, <1>1 DEF SentGrows
<1>5. i \in 1 .. Len(sent')
    BY <1>1, <1>3 DEF SentGrows
<1> QED BY <1>4, <1>5 DEF SentIds

(* The handler lists the transaction it has sent. *)
LEMMA PushInv ==
    ASSUME SendInv, NEW r \in Requests, Push(r) PROVE SendInv'
<1>0. SendTypeOK /\ PtInv /\ HandlerInv(r) /\ ContentInv /\ hpc[r] = "push" /\ PartSent(r)
    BY DEF SendInv, Push, HandlerInv
<1>1. /\ pushNewTransaction(lastId[r]) /\ lastId[r] \in MessageIds
      /\ UNCHANGED <<tangle, decided, delivered, lost>>
    BY <1>0 DEF Push, PartSent, world
<1>2. PtNext
    BY <1>1 DEF PtNext
<1>3. PtInv' /\ SentIds \subseteq SentIds'
    BY <1>0, <1>2, PtNextInv, SentIdsGrow
<1> DEFINE new == [iotaMessageId |-> lastId[r], verdicts |-> << >>]
<1>4. /\ sent \in Seq(Sent) /\ Len(sent) \in Nat /\ sent' = Append(sent, new)
      /\ Len(sent') = Len(sent) + 1 /\ sent'[Len(sent) + 1] = new
      /\ \A i \in 1 .. Len(sent) : sent'[i] = sent[i]
    <2>1. new \in Sent
        BY <1>1, EmptySeq DEF Sent
    <2>2. sent \in Seq(Sent) /\ Len(sent) \in Nat /\ sent' = Append(sent, new)
        BY <1>0, <1>1 DEF PtInv, PtTypeOK, pushNewTransaction
    <2> HIDE DEF new
    <2> QED BY <2>1, <2>2, AppendProperties
<1>5. lastId[r] \in SentIds'
    <2>1. Len(sent) + 1 \in 1 .. Len(sent')
        BY <1>4
    <2>2. sent'[Len(sent) + 1].iotaMessageId = lastId[r]
        BY <1>4
    <2> QED BY <2>1, <2>2 DEF SentIds
<1>6. HistoryGenuine'
    <2> SUFFICES ASSUME NEW i \in 1 .. Len(sent'), NEW k \in 1 .. Len(sent'[i].verdicts)
                 PROVE  [id |-> sent'[i].iotaMessageId, verdict |-> sent'[i].verdicts[k]]
                            \in decided
        BY <1>1 DEF HistoryGenuine
    <2>1. CASE i = Len(sent) + 1
        <3>1. sent'[i].verdicts = << >>
            BY <2>1, <1>4
        <3> QED BY <3>1
    <2>2. CASE i # Len(sent) + 1
        <3>1. i \in 1 .. Len(sent) /\ sent'[i] = sent[i]
            BY <2>2, <1>4
        <3> QED BY <3>1 DEF SendInv, HistoryGenuine
    <2> QED BY <2>1, <2>2
<1>7. RecordsGrow
    BY <1>0, <1>1, <1>3 DEF RecordsGrow, ContentInv
<1>8. PICK m \in tangle :
          /\ m.id = lastId[r] /\ m.from = r /\ m.job = job[r] /\ m.part = part[r]
          /\ part[r] = "inbound" => OutboundListed(job[r], m.parent)
    BY <1>0 DEF PartSent
<1>9. /\ job[r] \in Jobs /\ part[r] \in Parts /\ lastId[r] # NoId /\ answer[r] = "none"
      /\ IsYoung(job[r]) => CheckedOn(job[r], tangle, seen[r])
    BY <1>0, <1>1, NoIdAssumption DEF SendTypeOK, HandlerInv
<1>10. LocalsTyped' /\ OthersStay(r) /\ HandlerInv(r)' /\ seen'[r] \subseteq Confirmed
    <2>1. CASE ~AllSent(r)
        <3>1. /\ hpc' = [hpc EXCEPT ![r] = "prepare"]
              /\ UNCHANGED <<job, part, lastId, answer, seen>>
            BY <2>1 DEF Push, Proceed, Goto
        <3>2. LocalsTyped' /\ OthersStay(r) /\ hpc'[r] = "prepare"
            BY <1>0, <3>1 DEF SendTypeOK, LocalsTyped, OthersStay, Stays, Steps
        <3>3. part[r] = "outbound" /\ PartsOf(job[r]) = <<"outbound", "inbound">>
            <4>1. CASE part[r] = "single"
                <5>1. PartsOf(job[r]) = <<"single">>
                    BY <4>1, <1>0 DEF PartSent
                <5> QED BY <5>1, <4>1, <2>1 DEF AllSent, Last
            <4>2. CASE part[r] # "single"
                <5>1. PartsOf(job[r]) = <<"outbound", "inbound">>
                    BY <4>2, <1>0, <1>9 DEF PartSent, Parts
                <5> QED BY <5>1, <4>2, <1>9, <2>1 DEF AllSent, Last, Parts
            <4> QED BY <4>1, <4>2
        <3>4. OutboundListed(job[r], lastId[r])'
            BY <1>1, <1>5, <1>8, <3>1, <3>3 DEF OutboundListed
        <3>5. HandlerInv(r)'
            BY <1>1, <1>9, <3>1, <3>2, <3>3, <3>4 DEF HandlerInv, EarlySteps, SendSteps
        <3> QED BY <1>0, <3>1, <3>2, <3>5 DEF ContentInv
    <2>2. CASE AllSent(r)
        <3>1. /\ hpc' = [hpc EXCEPT ![r] = "answered"]
              /\ answer' = [answer EXCEPT ![r] = "success"]
              /\ seen' = [seen EXCEPT ![r] = {}]
              /\ UNCHANGED <<job, part, lastId>>
            BY <2>2 DEF Push, Proceed
        <3>2. /\ LocalsTyped' /\ OthersStay(r)
              /\ hpc'[r] = "answered" /\ seen'[r] = {}
            BY <1>0, <3>1
            DEF SendTypeOK, LocalsTyped, OthersStay, Stays, Steps, Answers
        <3>3. job[r].cross => part[r] = "inbound"
            <4>1. CASE job[r].cross /\ PartsOf(job[r]) = <<"outbound", "inbound">>
                <5>1. part[r] = "inbound"
                    BY <4>1, <2>2 DEF AllSent, Last
                <5> QED BY <5>1
            <4>2. CASE ~job[r].cross
                BY <4>2, Zenon
            <4> QED BY <1>9, <4>1, <4>2, PartsShape
        <3>4. part[r] = "inbound" =>
                 /\ m.part = "inbound" /\ m.parent \in SentIds'
                 /\ \E o \in tangle' : o.id = m.parent /\ o.part = "outbound" /\ o.job = job'[r]
            BY <1>1, <1>3, <1>8, <3>1 DEF OutboundListed
        <3>5. SuccessOf(r)'
            <4>1. /\ lastId'[r] = lastId[r] /\ job'[r] = job[r] /\ m \in tangle'
                  /\ m.id = lastId[r] /\ m.from = r
                BY <1>1, <1>8, <3>1
            <4> QED BY <4>1, <3>3, <3>4, <1>5, Zenon DEF SuccessOf
        <3>6. HandlerInv(r)'
            BY <3>2, <3>5 DEF HandlerInv, EarlySteps, SendSteps
        <3> QED BY <3>2, <3>6
    <2> QED BY <2>1, <2>2
<1>11. SendTypeOK'
    BY <1>0, <1>1, <1>3, <1>10 DEF SendTypeOK, PtInv, LocalsTyped
<1>12. \A q \in Requests : HandlerInv(q)'
    BY <1>7, <1>10, HandlerKeeps DEF OthersStay
<1>13. ContentInv'
    <2>1. Confirmed' = Confirmed /\ TangleIds' = TangleIds
        BY <1>1 DEF Confirmed, TangleIds
    <2>2. \A q \in Requests : seen'[q] \subseteq Confirmed
        BY <1>0, <1>10 DEF OthersStay, Stays, ContentInv
    <2> QED BY <1>0, <1>1, <2>1, <2>2 DEF ContentInv
<1>14. ChecksInv' /\ InboundFollowsOutbound'
    BY <1>1, <1>3 DEF SendInv, ChecksInv, InboundFollowsOutbound
<1>15. AcceptedIsTracked'
    <2> SUFFICES ASSUME NEW n \in tangle
                 PROVE  \/ n.id \in SentIds' \/ n.id \in lost
                        \/ hpc'[n.from] = "push" /\ lastId'[n.from] = n.id
        BY <1>1 DEF AcceptedIsTracked
    <2>1. n.from \in Requests
        BY <1>0 DEF SendTypeOK, Messages
    <2>2. \/ n.id \in SentIds \/ n.id \in lost
          \/ hpc[n.from] = "push" /\ lastId[n.from] = n.id
        BY DEF SendInv, AcceptedIsTracked
    <2> QED BY <2>1, <2>2, <1>3, <1>5, <1>10 DEF OthersStay, Stays
<1> QED BY <1>3, <1>6, <1>11, <1>12, <1>13, <1>14, <1>15 DEF SendInv

-----------------------------------------------------------------------------
(* The node decides: nothing of what was confirmed is taken back. *)
LEMMA DecideInv ==
    ASSUME SendInv, NEW m \in tangle, Decide(m) PROVE SendInv'
<1>0. SendTypeOK /\ ContentInv /\ m \in Messages
    BY DEF SendInv, SendTypeOK
<1>1. PICK v \in Verdicts : decided' = decided \cup {[id |-> m.id, verdict |-> v]}
    BY DEF Decide
<1>2. UNCHANGED <<hpc, job, part, lastId, answer, seen, tangle, delivered, lost, ptVars>>
    BY DEF Decide, handlers
<1>3. PtInv'
    BY <1>2, PtNextInv DEF SendInv
<1>4. SendTypeOK'
    BY <1>0, <1>1, <1>2, <1>3 DEF SendTypeOK, PtInv, Messages
<1>5. RecordsGrow /\ SentIds' = SentIds
    BY <1>0, <1>2 DEF RecordsGrow, SentIds, ptVars, ContentInv
<1>6. \A q \in Requests : HandlerInv(q)'
    BY <1>2, <1>5, HandlerKeeps DEF Stays
<1>7. ContentInv'
    <2>1. Confirmed \subseteq Confirmed'
        BY <1>1 DEF Confirmed
    <2>2. Confirmed' \subseteq Confirmed \cup {m.id}
        BY <1>1 DEF Confirmed
    <2>3. TangleIds' = TangleIds /\ m.id \in TangleIds
        BY <1>2 DEF TangleIds
    <2> QED BY <1>0, <1>2, <2>1, <2>2, <2>3 DEF ContentInv
<1>8. ChecksInv' /\ InboundFollowsOutbound' /\ AcceptedIsTracked'
    BY <1>2, <1>5 DEF SendInv, ChecksInv, InboundFollowsOutbound, AcceptedIsTracked
<1>9. HistoryGenuine'
    BY <1>1, <1>2 DEF SendInv, HistoryGenuine, ptVars
<1> QED BY <1>3, <1>4, <1>6, <1>7, <1>8, <1>9 DEF SendInv

(* A verdict of the node as /notify presents it to the list. *)
LEMMA VerdictIsNotification ==
    ASSUME NEW id \in MessageIds, NEW v \in Verdicts, updateTransaction(id, v)
    PROVE  PtNext
<1> DEFINE n == [transaction |-> "block", error |-> v, messageId |-> id, blockId |-> id]
<1>1. n \in Notifications
    BY DEF Notifications
<1>2. NotifyRejected(n) \/ NotifyConfirmed(n)
    BY DEF NotifyRejected, NotifyConfirmed
<1> HIDE DEF n
<1> QED BY <1>1, <1>2 DEF PtNext

LEMMA NotifyInv ==
    ASSUME SendInv, NEW d \in decided, Notify(d) PROVE SendInv'
<1>0. /\ SendTypeOK /\ ContentInv /\ PtInv
      /\ d \in [id : MessageIds, verdict : Verdicts]
    BY DEF SendInv, SendTypeOK
<1>1. updateTransaction(d.id, d.verdict)
    BY DEF Notify
<1>2. /\ UNCHANGED <<hpc, job, part, lastId, answer, seen, tangle, decided, lost>>
      /\ delivered' = delivered \cup {d.id}
    BY DEF Notify, handlers
<1>3. PtInv' /\ SentIds \subseteq SentIds'
    BY <1>0, <1>1, VerdictIsNotification, PtNextInv, SentIdsGrow
<1>4. SendTypeOK'
    BY <1>0, <1>2, <1>3 DEF SendTypeOK, PtInv
<1>5. RecordsGrow
    BY <1>0, <1>2, <1>3 DEF RecordsGrow, ContentInv
<1>6. \A q \in Requests : HandlerInv(q)'
    BY <1>2, <1>5, HandlerKeeps DEF Stays
<1>7. ContentInv'
    BY <1>0, <1>2 DEF ContentInv, Confirmed, TangleIds
<1>8. ChecksInv' /\ InboundFollowsOutbound' /\ AcceptedIsTracked'
    BY <1>2, <1>3 DEF SendInv, ChecksInv, InboundFollowsOutbound, AcceptedIsTracked
<1>9. HistoryGenuine'
    <2>1. sent \in Seq(Sent) /\ Len(sent) \in Nat
        BY <1>0 DEF PtInv, PtTypeOK
    <2>2. CASE Positions(sent, d.id) = {}
        BY <2>2, <1>1, <1>2 DEF updateTransaction, Recorded, SendInv, HistoryGenuine
    <2>3. CASE Positions(sent, d.id) # {}
        <3> DEFINE f == Found(sent, d.id)
        <3>1. f \in 1 .. Len(sent) /\ sent[f].iotaMessageId = d.id
            BY <2>1, <2>3, FoundIsLast
        <3>2. sent' = [sent EXCEPT ![f] = WithVerdict(sent[f], d.verdict)]
            BY <2>3, <1>1 DEF updateTransaction, Recorded
        <3> HIDE DEF f
        <3>3. /\ Len(sent') = Len(sent)
              /\ sent'[f] = WithVerdict(sent[f], d.verdict)
              /\ \A i \in 1 .. Len(sent) : i # f => sent'[i] = sent[i]
            BY <2>1, <3>1, <3>2
        <3>4. sent[f] \in Sent
            BY <2>1, <3>1
        <3>5. /\ sent'[f].iotaMessageId = d.id
              /\ sent'[f].verdicts = Append(sent[f].verdicts, d.verdict)
            BY <3>1, <3>3 DEF WithVerdict
        <3>6. sent[f].verdicts \in Seq(Verdicts) /\ d.verdict \in Verdicts
            BY <1>0, <3>4 DEF Sent
        <3>7. /\ Len(sent'[f].verdicts) = Len(sent[f].verdicts) + 1
              /\ sent'[f].verdicts[Len(sent[f].verdicts) + 1] = d.verdict
              /\ \A k \in 1 .. Len(sent[f].verdicts) :
                    sent'[f].verdicts[k] = sent[f].verdicts[k]
              /\ Len(sent[f].verdicts) \in Nat
            BY <3>5, <3>6, AppendProperties
        <3>8. [id |-> d.id, verdict |-> d.verdict] \in decided
            <4>1. [id |-> d.id, verdict |-> d.verdict] = d
                BY <1>0
            <4> QED BY <4>1
        <3> SUFFICES ASSUME NEW i \in 1 .. Len(sent'),
                            NEW k \in 1 .. Len(sent'[i].verdicts)
                     PROVE  [id |-> sent'[i].iotaMessageId,
                             verdict |-> sent'[i].verdicts[k]] \in decided
            BY <1>2 DEF HistoryGenuine
        <3>9. CASE i # f
            BY <3>3, <3>9 DEF SendInv, HistoryGenuine
        <3>10. CASE i = f /\ k = Len(sent[f].verdicts) + 1
            BY <3>5, <3>7, <3>8, <3>10
        <3>11. CASE i = f /\ k # Len(sent[f].verdicts) + 1
            <4>1. /\ k \in 1 .. Len(sent[f].verdicts)
                  /\ sent'[i].verdicts[k] = sent[f].verdicts[k]
                  /\ sent'[i].iotaMessageId = sent[f].iotaMessageId
                BY <3>1, <3>5, <3>7, <3>11
            <4>2. [id |-> sent[f].iotaMessageId, verdict |-> sent[f].verdicts[k]] \in decided
                BY <3>1, <4>1 DEF SendInv, HistoryGenuine
            <4> QED BY <4>1, <4>2
        <3> QED BY <3>9, <3>10, <3>11
    <2> QED BY <2>2, <2>3
<1> QED BY <1>3, <1>4, <1>6, <1>7, <1>8, <1>9 DEF SendInv

(* The process is stopped: what was sent and not yet listed is lost. *)
LEMMA RestartInv ==
    ASSUME SendInv, Restart PROVE SendInv'
<1>0. SendTypeOK /\ ContentInv /\ PtInv
    BY DEF SendInv
<1>1. /\ RestartList
      /\ End(Running, "crashed")
      /\ lost' = lost \cup {lastId[r] : r \in {q \in Running : hpc[q] = "push"}}
      /\ UNCHANGED <<tangle, decided, delivered>>
    BY DEF Restart
<1>2. PtInv'
    BY <1>0, <1>1, PtNextInv DEF PtNext
<1>3. SentIds' = SentIds /\ sent' = sent
    BY <1>1 DEF RestartList, SentIds
<1>4. lost' \subseteq MessageIds
    <2>1. \A r \in Requests : hpc[r] = "push" => lastId[r] \in MessageIds
        BY DEF SendInv, HandlerInv, PartSent
    <2> QED BY <1>0, <1>1, <2>1 DEF SendTypeOK, Running
<1>5. LocalsTyped'
    BY <1>0, <1>1, AnyJobType
    DEF SendTypeOK, LocalsTyped, End, Steps, Parts, Answers
<1>6. SendTypeOK'
    BY <1>0, <1>1, <1>2, <1>4, <1>5 DEF SendTypeOK, PtInv, LocalsTyped
<1>7. RecordsGrow
    BY <1>0, <1>1, <1>3 DEF RecordsGrow, ContentInv
<1>8. \A q \in Requests : HandlerInv(q)'
    <2> TAKE q \in Requests
    <2>1. CASE q \in Running
        <3>1. hpc'[q] = "answered" /\ answer'[q] = "crashed"
            BY <2>1, <1>1 DEF End
        <3> QED BY <3>1 DEF HandlerInv, EarlySteps, SendSteps
    <2>2. CASE q \notin Running
        <3>1. Stays(q)
            BY <2>2, <1>1 DEF End, Stays
        <3> QED BY <3>1, <1>7, HandlerKeeps
    <2> QED BY <2>1, <2>2
<1>9. ContentInv'
    <2>1. Confirmed' = Confirmed /\ TangleIds' = TangleIds
        BY <1>1 DEF Confirmed, TangleIds
    <2>2. \A q \in Requests : seen'[q] \subseteq Confirmed
        BY <1>0, <1>1 DEF End, ContentInv
    <2> QED BY <1>0, <1>1, <2>1, <2>2 DEF ContentInv
<1>10. ChecksInv' /\ InboundFollowsOutbound' /\ HistoryGenuine'
    BY <1>1, <1>3 DEF SendInv, ChecksInv, InboundFollowsOutbound, HistoryGenuine
<1>11. AcceptedIsTracked'
    <2> SUFFICES ASSUME NEW n \in tangle PROVE n.id \in SentIds \/ n.id \in lost'
        BY <1>1, <1>3 DEF AcceptedIsTracked
    <2>1. n.from \in Requests
        BY <1>0 DEF SendTypeOK, Messages
    <2>2. \/ n.id \in SentIds \/ n.id \in lost
          \/ hpc[n.from] = "push" /\ lastId[n.from] = n.id
        BY DEF SendInv, AcceptedIsTracked
    <2>3. hpc[n.from] = "push" => n.from \in Running
        BY <2>1 DEF Running
    <2> QED BY <2>1, <2>2, <2>3, <1>1
<1> QED BY <1>2, <1>6, <1>8, <1>9, <1>10, <1>11 DEF SendInv

-----------------------------------------------------------------------------
LEMMA SendInitInv == Init => SendInv
<1> SUFFICES ASSUME Init PROVE SendInv
    OBVIOUS
<1>1. PtInv
    BY MaxListAssumption, EmptySeq
    DEF Init, PtInit, PtInv, PtTypeOK, Window, Dropped, Current
<1>2. SendTypeOK
    BY <1>1, AnyJobType DEF Init, SendTypeOK, PtInv, Steps, Parts, Answers
<1>3. \A r \in Requests : HandlerInv(r)
    BY DEF Init, HandlerInv, EarlySteps, SendSteps
<1>4. Confirmed = {} /\ TangleIds = {}
    BY DEF Init, Confirmed, TangleIds
<1>5. ContentInv
    BY <1>4 DEF Init, ContentInv
<1>6. ChecksInv /\ AcceptedIsTracked /\ InboundFollowsOutbound
    BY DEF Init, ChecksInv, AcceptedIsTracked, InboundFollowsOutbound
<1>7. HistoryGenuine
    BY DEF Init, PtInit, HistoryGenuine
<1> QED BY <1>1, <1>2, <1>3, <1>5, <1>6, <1>7 DEF SendInv

LEMMA SendNextInv == SendInv /\ [Next]_vars => SendInv'
<1> SUFFICES ASSUME SendInv, [Next]_vars PROVE SendInv'
    OBVIOUS
<1>1. ASSUME NEW r \in Requests, HandlerStep(r) PROVE SendInv'
    BY <1>1, ReadStepsInv, LookUpRecipientInv, CheckAddressInv, CheckAmountInv,
       NodeCallFailsInv, PrepareInv, ValidateApolloDecayInv, SubmitInv,
       SubmitFailsInv, PushInv
    DEF HandlerStep
<1>2. CASE UNCHANGED vars
    <2>1. UNCHANGED <<hpc, job, part, lastId, answer, seen, tangle, decided,
                      delivered, lost, ptVars>>
        BY <1>2 DEF vars, handlers, world
    <2>2. PtInv'
        BY <2>1, PtNextInv DEF SendInv
    <2>3. SendTypeOK'
        BY <2>1, <2>2 DEF SendInv, SendTypeOK, PtInv
    <2>4. RecordsGrow /\ SentIds' = SentIds
        BY <2>1 DEF RecordsGrow, SentIds, ptVars, SendInv, ContentInv
    <2>5. \A q \in Requests : HandlerInv(q)'
        BY <2>1, <2>4, HandlerKeeps DEF Stays
    <2>6. ContentInv'
        BY <2>1 DEF SendInv, ContentInv, Confirmed, TangleIds
    <2>7. ChecksInv' /\ InboundFollowsOutbound' /\ AcceptedIsTracked' /\ HistoryGenuine'
        BY <2>1, <2>4 DEF SendInv, ChecksInv, InboundFollowsOutbound,
                          AcceptedIsTracked, HistoryGenuine, ptVars
    <2> QED BY <2>2, <2>3, <2>5, <2>6, <2>7 DEF SendInv
<1> QED BY <1>1, <1>2, ReceiveInv, DecideInv, NotifyInv, RestartInv DEF Next

LEMMA SendInvAlways == Spec => []SendInv
BY SendInitInv, SendNextInv, PTL DEF Spec

-----------------------------------------------------------------------------
(* Type correctness: in particular only ids that came back from iota or    *)
(* the node are ever pushed to the list.                                   *)
THEOREM SendTypeCorrect == Spec => []SendTypeOK
<1>1. SendInv => SendTypeOK
    BY DEF SendInv
<1> QED BY <1>1, SendInvAlways, PTL

(* A success answer is the id of a transaction that was accepted and       *)
(* listed, with its outbound half where there is one.                      *)
THEOREM SuccessIsSent == Spec => []SuccessMeansSent
<1>1. SendInv => SuccessMeansSent
    <2>1. SendInv => \A r \in Requests : answer[r] = "success" => SuccessOf(r)
        BY DEF SendInv, HandlerInv
    <2> QED BY <2>1, Zenon DEF SuccessMeansSent, SuccessOf
<1> QED BY <1>1, SendInvAlways, PTL

(* No accepted transaction escapes the list unless its call failed or its  *)
(* handler was stopped (signAndSendTransaction lines 111-147).             *)
THEOREM AcceptedStaysTracked == Spec => []AcceptedIsTracked
<1>1. SendInv => AcceptedIsTracked
    BY DEF SendInv
<1> QED BY <1>1, SendInvAlways, PTL

(* The inbound half of a cross group transaction always refers to an       *)
(* outbound half of the same request that was accepted and listed.         *)
THEOREM HalvesAreOrdered == Spec => []InboundFollowsOutbound
<1>1. SendInv => InboundFollowsOutbound
    BY DEF SendInv
<1> QED BY <1>1, SendInvAlways, PTL

(* Each entry of the list shows nothing, or a verdict the node gave for    *)
(* its message id: the window on the history (PtInv) shows outcomes of     *)
(* recorded verdicts, and only verdicts of the node are recorded.          *)
THEOREM VerdictsAreGenuine == Spec => []VerdictIsGenuine
<1>1. SendInv => VerdictIsGenuine
    <2> SUFFICES ASSUME SendInv, NEW i \in 1 .. Len(mPendingTransactions),
                        mPendingTransactions[i].state # "SENDED"
                 PROVE  [id |-> mPendingTransactions[i].iotaMessageId,
                         verdict |-> mPendingTransactions[i].errorMessage] \in decided
        BY DEF VerdictIsGenuine
    <2> DEFINE s == sent[Dropped + i]
               e == mPendingTransactions[i]
    <2>1. Dropped + i \in 1 .. Len(sent) /\ e = Outcome(s)
        BY WindowBounds DEF SendInv
    <2>2. s \in Sent
        BY <2>1 DEF SendInv, PtInv, PtTypeOK
    <2>3. s.verdicts \in Seq(Verdicts) /\ Len(s.verdicts) \in Nat
        BY <2>2 DEF Sent
    <2>4. \A k \in 1 .. Len(s.verdicts) :
              [id |-> s.iotaMessageId, verdict |-> s.verdicts[k]] \in decided
        BY <2>1 DEF SendInv, HistoryGenuine
    <2>5. e.state # "SENDED"
        OBVIOUS
    <2> HIDE DEF s, e
    <2>6. CASE \E k \in 1 .. Len(s.verdicts) : s.verdicts[k] = NoError
        <3>1. e.iotaMessageId = s.iotaMessageId /\ e.errorMessage = NoError
            BY <2>1, <2>6 DEF Outcome
        <3> QED BY <3>1, <2>4, <2>6 DEF e
    <2>7. CASE ~\E k \in 1 .. Len(s.verdicts) : s.verdicts[k] = NoError
        <3>1. s.verdicts # << >>
            BY <2>1, <2>5, <2>7 DEF Outcome, NewEntry
        <3>2. /\ e.iotaMessageId = s.iotaMessageId
              /\ e.errorMessage = s.verdicts[Len(s.verdicts)]
            BY <2>1, <2>7, <3>1 DEF Outcome
        <3>3. Len(s.verdicts) \in 1 .. Len(s.verdicts)
            BY <2>3, <3>1, EmptySeq
        <3> QED BY <3>2, <3>3, <2>4 DEF e
    <2> QED BY <2>6, <2>7
<1> QED BY <1>1, SendInvAlways, PTL

(* The questions of the handlers let nothing pass that was hopeless when   *)
(* they were asked: the node refuses a checked transaction only if         *)
(* something with one of its addresses was confirmed after the asking.     *)
THEOREM ChecksAreMeaningful == Spec => []NodeRefusesOnlyOvertaken
<1>1. SendInv => NodeRefusesOnlyOvertaken
    <2> SUFFICES ASSUME SendInv, NEW m \in tangle, IsYoung(m.job), m.part # "inbound",
                        \A c \in Chain : c.id \in m.seen \/ Touched(c) \cap Touched(m) = {}
                 PROVE  NodeAllows(m)
        BY DEF NodeRefusesOnlyOvertaken, Undecided
    <2>1. CheckedOn(m.job, tangle, m.seen)
        BY DEF SendInv, ChecksInv
    <2> QED BY <2>1, CheckedIsAllowed DEF SendInv
<1> QED BY <1>1, SendInvAlways, PTL

(* The path of a transaction uses the list as PendingTransactions says:    *)
(* every step is a step of the list or leaves it alone, so that all that   *)
(* is proved about the list, its refinement of TransactionTracker          *)
(* included, holds while handlers, node and restarts interleave.           *)
THEOREM SendImplementsList == Spec => PtSpec
<1>1. Init => PtInit
    BY DEF Init
<1>2. SendInv /\ [Next]_vars => [PtNext]_ptVars
    <2> SUFFICES ASSUME SendInv, [Next]_vars PROVE [PtNext]_ptVars
        OBVIOUS
    <2>1. ASSUME NEW r \in Requests, Push(r) PROVE PtNext
        <3>1. lastId[r] \in MessageIds /\ pushNewTransaction(lastId[r])
            BY <2>1 DEF SendInv, HandlerInv, PartSent, Push
        <3> QED BY <3>1 DEF PtNext
    <2>2. ASSUME NEW d \in decided, Notify(d) PROVE PtNext
        <3>1. d.id \in MessageIds /\ d.verdict \in Verdicts
            BY DEF SendInv, SendTypeOK
        <3> QED BY <2>2, <3>1, VerdictIsNotification DEF Notify
    <2>3. CASE Restart
        BY <2>3 DEF Restart, PtNext
    <2>4. ASSUME NEW r \in Requests, HandlerStep(r) PROVE PtNext \/ UNCHANGED ptVars
        BY <2>1, <2>4
        DEF HandlerStep, ReadTransfer, ReadCreation, ReadRegisterAddress,
            ReadSharedParameter, LookUpRecipient, CheckAddress, CheckAmount,
            NodeCallFails, Prepare, ValidateApolloDecay, Submit, SubmitFails,
            NothingSent
    <2>5. ASSUME NEW r \in Requests, NEW j \in Jobs, Receive(r, j) PROVE UNCHANGED ptVars
        BY <2>5 DEF Receive, NothingSent
    <2>6. ASSUME NEW m \in tangle, Decide(m) PROVE UNCHANGED ptVars
        BY <2>6 DEF Decide
    <2>7. CASE UNCHANGED vars
        BY <2>7 DEF vars
    <2> QED BY <2>2, <2>3, <2>4, <2>5, <2>6, <2>7 DEF Next
<1> QED BY <1>1, <1>2, SendInvAlways, PTL DEF Spec, PtSpec

(* apollo's view of the list, in the whole system. *)
THEOREM ReplyCorrectInSystem == Spec => []ReplyIsRecentOutcomes /\ ImplementsTracker
BY SendImplementsList, ReplyCorrect, TrackerImplemented, PTL
=============================================================================
