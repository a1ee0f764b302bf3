--------------------------- MODULE TransactionSend ---------------------------
(***************************************************************************)
(* The path of a transaction (the handlers JsonTransferTransaction,        *)
(* JsonCreationTransaction and JsonRegisterAddressTransaction with their   *)
(* base class JsonTransaction, on top of PendingTransactions): read the    *)
(* request, look the recipient up, ask the Gradido Node, sign, hand the    *)
(* transaction to iota or (archived) to the node, put it on the list,      *)
(* answer.  Concurrently the node reads the tangle, decides and reports    *)
(* through /notify.                                                        *)
(*                                                                         *)
(* The handlers share nothing but the list.  What the node said a moment   *)
(* ago may no longer hold when the transaction is sent, and a verdict can  *)
(* arrive before the handler has put the transaction on the list.  Any     *)
(* call to another server can fail, and iota or the node can have accepted *)
(* a transaction although the call failed.  The process can be stopped and *)
(* started again at any moment: what was running is gone, and so is the    *)
(* list.                                                                   *)
(*                                                                         *)
(* iota and the Gradido Node are external: the node here confirms only     *)
(* what the confirmed transactions allow, and reports any number of times, *)
(* in any order, or never.                                                 *)
(***************************************************************************)
EXTENDS PendingTransactions, FiniteSetsExt, SequencesExt

CONSTANTS
    Requests,        \* the handlers that run concurrently
    Jobs,            \* the requests they may get, see Job
    KnownUsers,      \* table user: the users, each in its group
    HumanAddresses,  \* the addresses registered at the start, as HUMAN
    OtherAddresses,  \* the addresses registered at the start, as PROJECT
    StartBalance,    \* what every sender owns on the chain
    CreationLimit    \* 1000 GDD per month and user

ASSUME BalanceAssumption == StartBalance \in Nat /\ CreationLimit \in Nat

Kinds == {"transfer", "creation", "registerAddress"}
Parts == {"single", "outbound", "inbound"}
Answers == {"none", "success", "error", "exception", "crashed"}

(* A request: its kind; the signing user and the recipient; the amount;    *)
(* how many hours ago the transaction was created and whether it carries a *)
(* transactionNr; whether it crosses from the session's own group to the   *)
(* other one; whether it carries an apolloCreatedDecay.                    *)
IsJob(j) ==
    /\ j.kind \in Kinds /\ j.amount \in Nat /\ j.age \in Nat
    /\ j.nr \in BOOLEAN /\ j.cross \in BOOLEAN /\ j.decay \in BOOLEAN
    /\ j.kind = "creation" => ~j.cross
    /\ j.kind = "registerAddress" => j.recipient = j.sender
ASSUME JobsAssumption == Jobs # {} /\ \A j \in Jobs : IsJob(j)

VARIABLES
    hpc,        \* where each handler is
    job,        \* the request it works on
    part,       \* which transaction of the job it is sending
    lastId,     \* lastIotaMessageId (NoId before the first send)
    answer,     \* what handle() returned, or that it threw
    tangle,     \* what iota or the node accepted
    decided,    \* the node's verdicts, one per message id
    delivered,  \* history: ids of the verdicts /notify has handled
    lost,       \* history: ids accepted although the call failed, or whose
                \* handler was stopped before it could list them
    seen        \* history: what was confirmed when the request came, and
                \* then when its handler last asked the node

handlers == <<hpc, job, part, lastId, answer, seen>>
world == <<tangle, decided, delivered, lost>>
vars == <<handlers, world, ptVars>>

Steps == {"idle", "read", "recipient", "address", "amount", "prepare",
          "decay", "submit", "push", "answered"}

(* What iota or the node gets; seen is history. *)
Messages == [id : MessageIds, from : Requests, job : Jobs, part : Parts,
             seen : SUBSET MessageIds, parent : MessageIds \cup {NoId}]

SendTypeOK ==
    /\ PtTypeOK
    /\ hpc \in [Requests -> Steps]
    /\ job \in [Requests -> Jobs]
    /\ part \in [Requests -> Parts]
    /\ lastId \in [Requests -> MessageIds \cup {NoId}]
    /\ answer \in [Requests -> Answers]
    /\ tangle \subseteq Messages
    /\ decided \subseteq [id : MessageIds, verdict : Verdicts]
    /\ delivered \subseteq MessageIds /\ lost \subseteq MessageIds
    /\ seen \in [Requests -> SUBSET MessageIds]

(* The value of job[r] while the handler has no request. *)
AnyJob == CHOOSE j \in Jobs : TRUE

Init ==
    /\ PtInit
    /\ hpc = [r \in Requests |-> "idle"]
    /\ job = [r \in Requests |-> AnyJob]
    /\ part = [r \in Requests |-> "single"]
    /\ lastId = [r \in Requests |-> NoId]
    /\ answer = [r \in Requests |-> "none"]
    /\ tangle = {} /\ decided = {} /\ delivered = {} /\ lost = {}
    /\ seen = [r \in Requests |-> {}]

-----------------------------------------------------------------------------
(* readSharedParameter, line 63: older than 60 * 60 * 60 s, that is 60     *)
(* hours, and with a transaction nr.                                       *)
ArchiveAge == 60
mArchiveTransactionMutant_NrIgnored(j) == j.age > ArchiveAge
mArchiveTransaction(j) == j.age > ArchiveAge /\ j.nr

(* A user's address on the chain of its own or of the other group, and the *)
(* one a request pays to, creates for or registers.                        *)
Address(user, other) == <<user, IF other THEN "other" ELSE "own">>
Recipient(j) == Address(j.recipient, j.cross)

(* The node's chains and what its RPCs say about them. *)
Confirmed == {d.id : d \in {e \in decided : e.verdict = NoError}}
Ledger(msgs, ids) ==    \* the same bytes sent twice are one transaction
    {[id |-> m.id, job |-> m.job, part |-> m.part] :
        m \in {n \in msgs : n.id \in ids}}
Chain == Ledger(tangle, Confirmed)
Touched(m) == {Address(u, m.part = "inbound") : u \in {m.job.sender, m.job.recipient}}
Total(msgs) == MapThenSumSet(LAMBDA m : m.job.amount, msgs)
AmountOn(kind, user, msgs) ==
    Total({m \in msgs : /\ m.job.kind = kind /\ m.part # "inbound"
                        /\ user = IF kind = "transfer" THEN m.job.sender
                                  ELSE m.job.recipient})
RegisteredOn(a) ==
    \E m \in Chain : m.job.kind = "registerAddress" /\ a \in Touched(m)
getAddressTxids(a) ==
    a \in HumanAddresses \cup OtherAddresses \/ \E m \in Chain : a \in Touched(m)
getAddressType(a) ==
    CASE a \in OtherAddresses -> "PROJECT"
      [] a \notin OtherAddresses /\ (a \in HumanAddresses \/ RegisteredOn(a)) -> "HUMAN"
      [] OTHER -> "NONE"
getAddressBalance(u) == StartBalance - AmountOn("transfer", u, Chain)
getCreationSumForMonth(u) == AmountOn("creation", u, Chain)

-----------------------------------------------------------------------------
Goto(r, step) ==
    /\ hpc' = [hpc EXCEPT ![r] = step]
    /\ UNCHANGED <<job, part, lastId, answer, seen>>
GotoAfterAsking(r, step) ==
    /\ hpc' = [hpc EXCEPT ![r] = step]
    /\ seen' = [seen EXCEPT ![r] = Confirmed]
    /\ UNCHANGED <<job, part, lastId, answer>>

(* handle() ends without a transaction id, in some of the handlers: what   *)
(* they had read goes with them.                                           *)
End(rs, a) ==
    /\ hpc' = [r \in Requests |-> IF r \in rs THEN "answered" ELSE hpc[r]]
    /\ answer' = [r \in Requests |-> IF r \in rs THEN a ELSE answer[r]]
    /\ job' = [r \in Requests |-> IF r \in rs THEN AnyJob ELSE job[r]]
    /\ part' = [r \in Requests |-> IF r \in rs THEN "single" ELSE part[r]]
    /\ lastId' = [r \in Requests |-> IF r \in rs THEN NoId ELSE lastId[r]]
    /\ seen' = [r \in Requests |-> IF r \in rs THEN {} ELSE seen[r]]
Answer(r, a) == End({r}, a)

(* What the steps before a send leave alone. *)
NothingSent == UNCHANGED <<world, ptVars>>

(* A request arrives. *)
Receive(r, j) ==
    /\ hpc[r] = "idle"
    /\ hpc' = [hpc EXCEPT ![r] = "read"]
    /\ job' = [job EXCEPT ![r] = j]
    /\ seen' = [seen EXCEPT ![r] = Confirmed]
    /\ NothingSent /\ UNCHANGED <<part, lastId, answer>>

(* readSharedParameter: a bad parameter or no session is answered with an  *)
(* error; a token that cannot be parsed ends in an exception.              *)
ReadSharedParameter(r, next) ==
    /\ hpc[r] = "read"
    /\ \/ Answer(r, "error")
       \/ Answer(r, "exception")
       \/ Goto(r, next)
    /\ NothingSent

(* The handlers' own parameters fail in the same two ways: a missing one   *)
(* or an unknown group is an error; a failing database or an address type  *)
(* without a name is an exception nobody here catches.  An archived        *)
(* transaction skips the questions to the node.                            *)
ReadTransfer(r) ==
    job[r].kind = "transfer" /\ ReadSharedParameter(r, "recipient")
ReadCreation(r) ==
    job[r].kind = "creation" /\ ReadSharedParameter(r, "recipient")
ReadRegisterAddress(r) ==
    /\ job[r].kind = "registerAddress"
    /\ ReadSharedParameter(r, IF mArchiveTransaction(job[r]) THEN "prepare" ELSE "address")

(* User::load finds the row of a name in a group, or throws. *)
UserLoads(a) == a \in KnownUsers

(* User::load of the recipient, in the session's or the recipient's group, *)
(* outside of any try block: it throws RowNotFoundException, or whatever   *)
(* the database throws.  Then the memo is encrypted.                       *)
LookUpRecipient(r) ==
    /\ hpc[r] = "recipient"
    /\ \/ Answer(r, "exception")
       \/ /\ UserLoads(Recipient(job[r]))
          /\ Goto(r, IF mArchiveTransaction(job[r]) THEN "prepare" ELSE "address")
    /\ NothingSent

(* The first question to the node: the recipient of a transfer must be     *)
(* registered, the recipient of a creation as HUMAN, the address to        *)
(* register must be unknown to the chain it is to be registered on.        *)
TransferAddressAccepted(j) == getAddressType(Recipient(j)) # "NONE"
CreationAddressAccepted(j) == getAddressType(Recipient(j)) = "HUMAN"
RegisterAddressAccepted(j) == ~getAddressTxids(Recipient(j))
AddressAccepted(j) ==
    /\ j.kind = "transfer" => TransferAddressAccepted(j)
    /\ j.kind = "creation" => CreationAddressAccepted(j)
    /\ j.kind = "registerAddress" => RegisterAddressAccepted(j)
CheckAddress(r) ==
    /\ hpc[r] = "address"
    /\ IF AddressAccepted(job[r])
       THEN GotoAfterAsking(r, IF job[r].kind = "registerAddress" THEN "prepare" ELSE "amount")
       ELSE Answer(r, "error")
    /\ NothingSent

(* The second question: the sender's balance, or what was created for the  *)
(* recipient in the month.                                                 *)
TransferAmountAccepted(j) == j.amount <= getAddressBalance(j.sender)
CreationAmountAcceptedMutant_SumOnly(j) ==
    getCreationSumForMonth(j.recipient) <= CreationLimit
CreationAmountAccepted(j) ==
    getCreationSumForMonth(j.recipient) + j.amount <= CreationLimit
AmountAccepted(j) ==
    /\ j.kind = "transfer" => TransferAmountAccepted(j)
    /\ j.kind = "creation" => CreationAmountAccepted(j)
CheckAmount(r) ==
    /\ hpc[r] = "amount"
    /\ IF AmountAccepted(job[r]) THEN GotoAfterAsking(r, "prepare") ELSE Answer(r, "error")
    /\ NothingSent

(* A call to the node fails.  A creation maps every failure to an error;   *)
(* transfer and registerAddress catch GradidoNodeRPCException only, and a  *)
(* RequestResponseErrorException leaves their handle().                    *)
NodeCallFails(r) ==
    /\ hpc[r] \in {"address", "amount"}
    /\ \/ Answer(r, "error")
       \/ job[r].kind # "creation" /\ Answer(r, "exception")
    /\ NothingSent

-----------------------------------------------------------------------------
(* signAndSendTransaction.  A transfer lets an exception in it leave       *)
(* handle().  The other two turn the classes that                          *)
(* handleSignAndSendTransactionExceptions lists into an error; any other   *)
(* class leaves their handle() too, through the rethrow on its line 226.   *)
SendFails(r) ==
    \/ Answer(r, "exception")
    \/ job[r].kind # "transfer" /\ Answer(r, "error")

(* The transactions a request is made of: one that crosses groups sends    *)
(* the outbound and then the inbound half.                                 *)
Halves(j) == IF j.cross THEN <<"outbound", "inbound">> ELSE <<"single">>
TransferParts(j)        == Halves(j)
CreationParts(j)        == <<"single">>
RegisterAddressParts(j) == Halves(j)
PartsOf(j) ==
    CASE j.kind = "transfer" -> TransferParts(j)
      [] j.kind = "creation" -> CreationParts(j)
      [] OTHER -> RegisterAddressParts(j)
NextPart(r) == PartsOf(job[r])[IF lastId[r] = NoId THEN 1 ELSE 2]
AllSent(r)  == part[r] = Last(PartsOf(job[r]))

(* Lines 86-104: Session::signTransaction, the validation and the test of  *)
(* the group alias can each fail.                                          *)
Prepare(r) ==
    /\ hpc[r] = "prepare"
    /\ \/ SendFails(r)
       \/ /\ hpc' = [hpc EXCEPT ![r] = IF job[r].decay THEN "decay" ELSE "submit"]
          /\ part' = [part EXCEPT ![r] = NextPart(r)]
          /\ UNCHANGED <<job, lastId, answer, seen>>
    /\ NothingSent

(* validateApolloDecay, for a request that carries the decay apollo has    *)
(* computed: the node is asked for the balance at the start of the decay,  *)
(* for registerAddress it is not.  The call fails, its answer or apollo's  *)
(* value is no number, the two values deviate, or they agree.              *)
DecayCanFail(j) == j.kind \in {"transfer", "creation"}
ValidateApolloDecay(r) ==
    /\ hpc[r] = "decay"
    /\ \/ DecayCanFail(job[r]) /\ SendFails(r)
       \/ Goto(r, "submit")
    /\ NothingSent

(* The id a transaction gets: a new one from iota, a hash of the bytes for *)
(* an archived one.  The memo of transfers and creations is encrypted, so  *)
(* equal requests need not have equal bytes.  MessageIds bounds how many   *)
(* transactions can be sent.                                               *)
Unused   == MessageIds \ {m.id : m \in tangle}
FreshIds == {id \in Unused : id = CHOOSE i \in Unused : TRUE}
SameContent(r) ==
    {m.id : m \in {n \in tangle : /\ mArchiveTransaction(n.job)
                                  /\ n.job = job[r] /\ n.part = part[r]}}
NewIds(r) ==
    IF ~mArchiveTransaction(job[r]) \/ SameContent(r) = {} THEN FreshIds
    ELSE IF job[r].kind = "registerAddress" THEN SameContent(r)
    ELSE SameContent(r) \cup FreshIds

(* The transaction as iota or the node gets it; an inbound transaction     *)
(* refers to its outbound one.                                             *)
MessageMutant_NoParent(r, id) ==
    [id |-> id, from |-> r, job |-> job[r], part |-> part[r], seen |-> seen[r],
     parent |-> NoId]
Message(r, id) ==
    [id |-> id, from |-> r, job |-> job[r], part |-> part[r], seen |-> seen[r],
     parent |-> IF part[r] = "inbound" THEN lastId[r] ELSE NoId]

(* Lines 111-136, the call succeeds. *)
SubmitMutant_IdNotKept(r) ==
    /\ hpc[r] = "submit"
    /\ \E id \in NewIds(r) : tangle' = tangle \cup {Message(r, id)}
    /\ Goto(r, "push")
    /\ UNCHANGED <<decided, delivered, lost, ptVars>>
Submit(r) ==
    /\ hpc[r] = "submit"
    /\ \E id \in NewIds(r) :
          /\ tangle' = tangle \cup {Message(r, id)}
          /\ lastId' = [lastId EXCEPT ![r] = id]
    /\ hpc' = [hpc EXCEPT ![r] = "push"]
    /\ UNCHANGED <<job, part, answer, seen, decided, delivered, lost, ptVars>>

(* The call fails: nothing was accepted, or the answer did not come back.  *)
SubmitFails(r) ==
    /\ hpc[r] = "submit"
    /\ SendFails(r)
    /\ \/ UNCHANGED <<tangle, lost>>
       \/ \E id \in NewIds(r) :
             /\ tangle' = tangle \cup {Message(r, id)}
             /\ lost' = lost \cup {id}
    /\ UNCHANGED <<decided, delivered, ptVars>>

(* Lines 139-147: the transaction goes on the list; the handler continues  *)
(* with the next transaction or answers with the last id.                  *)
Proceed(r) ==
    IF ~AllSent(r) THEN Goto(r, "prepare")
    ELSE /\ hpc' = [hpc EXCEPT ![r] = "answered"]
         /\ answer' = [answer EXCEPT ![r] = "success"]
         /\ seen' = [seen EXCEPT ![r] = {}]
         /\ UNCHANGED <<job, part, lastId>>
PushMutant_InboundNotListed(r) ==
    /\ hpc[r] = "push"
    /\ IF part[r] = "inbound" THEN UNCHANGED ptVars ELSE pushNewTransaction(lastId[r])
    /\ Proceed(r)
    /\ UNCHANGED world
Push(r) ==
    /\ hpc[r] = "push"
    /\ pushNewTransaction(lastId[r])
    /\ Proceed(r)
    /\ UNCHANGED world

-----------------------------------------------------------------------------
(* The node's rules, as far as the handlers' questions mirror them. *)
NodeAllows(m) ==
    /\ m.part = "inbound" => m.parent \in Confirmed
    /\ m.part # "inbound" =>
          CASE m.job.kind = "transfer" -> m.job.amount <= getAddressBalance(m.job.sender)
            [] m.job.kind = "creation" ->
                  getCreationSumForMonth(m.job.recipient) + m.job.amount <= CreationLimit
            [] OTHER -> m.part = "outbound" \/ ~getAddressTxids(Recipient(m.job))

(* The node takes a transaction from the tangle and decides. *)
Decide(m) ==
    /\ \A d \in decided : d.id # m.id
    /\ \E v \in Verdicts :
          /\ v = NoError => NodeAllows(m)
          /\ decided' = decided \cup {[id |-> m.id, verdict |-> v]}
    /\ UNCHANGED <<handlers, tangle, delivered, lost, ptVars>>

(* /notify with a verdict of the node. *)
Notify(d) ==
    /\ updateTransaction(d.id, d.verdict)
    /\ delivered' = delivered \cup {d.id}
    /\ UNCHANGED <<handlers, tangle, decided, lost>>

(* The process is stopped or killed and started again. *)
Running == {r \in Requests : hpc[r] \notin {"idle", "answered"}}
Restart ==
    /\ Running # {} \/ mPendingTransactions # << >>
    /\ lost' = lost \cup {lastId[r] : r \in {q \in Running : hpc[q] = "push"}}
    /\ End(Running, "crashed")
    /\ RestartList
    /\ UNCHANGED <<tangle, decided, delivered>>

HandlerStep(r) ==
    \/ ReadTransfer(r) \/ ReadCreation(r) \/ ReadRegisterAddress(r)
    \/ LookUpRecipient(r) \/ CheckAddress(r)
    \/ CheckAmount(r) \/ NodeCallFails(r) \/ Prepare(r) \/ ValidateApolloDecay(r)
    \/ Submit(r) \/ SubmitFails(r) \/ Push(r)

Next ==
    \/ \E r \in Requests : (\E j \in Jobs : Receive(r, j)) \/ HandlerStep(r)
    \/ \E m \in tangle : Decide(m)
    \/ \E d \in decided : Notify(d)
    \/ Restart

Spec == Init /\ [][Next]_vars

-----------------------------------------------------------------------------
SentIds == {sent[i].iotaMessageId : i \in 1 .. Len(sent)}

(* A success answer carries the id of a transaction that was accepted and  *)
(* put on the list; for a cross group job it is the inbound one, and the   *)
(* outbound one it refers to was accepted and listed too                   *)
(* (JsonTransferTransaction lines 114-132, JsonRegisterAddress lines       *)
(* 88-106).                                                                *)
SuccessMeansSent ==
    \A r \in Requests : answer[r] = "success" =>
        /\ lastId[r] \in SentIds
        /\ \E m \in tangle :
              /\ m.id = lastId[r] /\ m.from = r
              /\ job[r].cross =>
                    /\ m.part = "inbound" /\ m.parent \in SentIds
                    /\ \E o \in tangle : o.id = m.parent /\ o.part = "outbound"
                                         /\ o.job = job[r]

(* Whatever the answer was, a transaction that iota or the node accepted   *)
(* is on record: it was put on the list, or its handler is about to do so, *)
(* or the call that sent it failed, or the process was stopped between the *)
(* two (signAndSendTransaction).  In particular the outbound half of a     *)
(* cross group job whose inbound half fails can still be followed.         *)
AcceptedIsTracked ==
    \A m \in tangle :
        \/ m.id \in SentIds
        \/ m.id \in lost
        \/ hpc[m.from] = "push" /\ lastId[m.from] = m.id

(* An inbound transaction is never sent unless its outbound one was        *)
(* accepted before and its id came back.                                   *)
InboundFollowsOutbound ==
    \A m \in tangle : m.part = "inbound" =>
        \E o \in tangle : /\ o.part = "outbound" /\ o.job = m.job
                          /\ o.id = m.parent /\ o.id \in SentIds

(* An entry that shows a verdict shows one the node really gave for that   *)
(* message id, and only after the node decided (Notify, updateTransaction):*)
(* no interleaving of sends and notifications mixes entries up.            *)
VerdictIsGenuine ==
    \A i \in 1 .. Len(mPendingTransactions) :
        LET e == mPendingTransactions[i] IN
        e.state # "SENDED" => [id |-> e.iotaMessageId, verdict |-> e.errorMessage]
                                  \in decided

(* What is archived may skip the questions to the node, in the words of    *)
(* the comment on JsonTransaction.cpp line 62: a transaction that is older *)
(* than 1 h and was given a transaction nr.  Every other one is young.     *)
OneHour == 1
IsYoung(j) == j.age <= OneHour \/ ~j.nr

(* The transaction of a young request, fresh or lost, that is still        *)
(* undecided is one the node would accept, unless something with the same  *)
(* address was confirmed after its handler had asked: no young request     *)
(* slips past the questions of transfer, creation and registerAddress      *)
(* (JsonTransferTransaction lines 71-103, JsonCreationTransaction lines    *)
(* 69-106, JsonRegisterAddressTransaction lines 64-82), and they let       *)
(* nothing pass that was hopeless when they were asked.                    *)
Undecided == {m \in tangle : \A d \in decided : d.id # m.id}
NodeRefusesOnlyOvertaken ==
    \A m \in Undecided :
        IsYoung(m.job) /\ m.part # "inbound" /\ ~NodeAllows(m) =>
            \E c \in Chain : /\ c.id \notin m.seen
                              /\ Touched(c) \cap Touched(m) # {}

-----------------------------------------------------------------------------
(* model/PendingTransactions.h:75 and 77: an entry is CONFIRMED "after     *)
(* gradido node confirm that the transaction with this iota message id was *)
(* valid" and REJECTED "after gradido node has rejected this transaction": *)
(* once /notify has handled the verdict, the entry shows it.               *)
NotifiedIsShown ==
    \A i \in 1 .. Len(mPendingTransactions) :
        mPendingTransactions[i].iotaMessageId \in delivered =>
            mPendingTransactions[i].state # "SENDED"
=============================================================================
