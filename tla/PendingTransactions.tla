------------------------- MODULE PendingTransactions -------------------------
(***************************************************************************)
(* The in-memory list of the transactions handed to iota or to a Gradido   *)
(* Node (src/model/PendingTransactions.cpp), as three parties use it at    *)
(* the same time: request handlers push, the Gradido Node reports its      *)
(* verdicts through /notify (JsonTransactionListener) in any order and     *)
(* possibly more than once, and apollo lists it (getPendingTransactions).  *)
(* Every operation holds mWorkMutex from start to end, so each is one      *)
(* action.  The list lives in memory: a restart of the process empties it, *)
(* while the node goes on reporting about what was sent before.            *)
(*                                                                         *)
(* A message id is compared by its 64 hex digits.  The same id can be      *)
(* pushed twice: an archived transaction's id is a hash of its bytes.      *)
(***************************************************************************)
EXTENDS Integers, Sequences

CONSTANTS
    MessageIds,   \* the ids of the transactions the connector sent
    NoId,         \* an id without 64 digits: equal to none of the above
    Errors,       \* the error messages of a Gradido Node
    NoError,      \* the empty error message
    MAX_PENDING_TRANSACTIONS_IN_LIST,
    MaxSent,      \* bound: transactions pushed
    MaxVerdicts   \* bound: verdicts delivered per transaction

ASSUME MaxListAssumption == MAX_PENDING_TRANSACTIONS_IN_LIST \in Nat \ {0}
ASSUME BoundsAssumption  == MaxSent \in Nat /\ MaxVerdicts \in Nat
ASSUME NoErrorAssumption == NoError \notin Errors
ASSUME NoIdAssumption    == NoId \notin MessageIds

VARIABLES
    mPendingTransactions,  \* the list, oldest first
    sent,                  \* history: every transaction ever pushed, with the
                           \* verdicts that arrived while it was the newest
                           \* one with its id (NoError stands for "confirmed")
    earlier                \* history: how many of them were pushed before the
                           \* last restart

ptVars == <<mPendingTransactions, sent, earlier>>

States   == {"SENDED", "CONFIRMED", "REJECTED"}
Verdicts == Errors \cup {NoError}
Entry    == [iotaMessageId : MessageIds, state : States, errorMessage : Verdicts]
Sent     == [iotaMessageId : MessageIds, verdicts : Seq(Verdicts)]

PtTypeOK ==
    /\ mPendingTransactions \in Seq(Entry)
    /\ sent \in Seq(Sent)
    /\ earlier \in 0 .. Len(sent)

PtInit ==
    /\ mPendingTransactions = << >>
    /\ sent = << >>
    /\ earlier = 0

-----------------------------------------------------------------------------
(* The constructor of PendingTransaction. *)
NewEntryMutant_StateUnset(id) ==
    [iotaMessageId |-> id, state |-> "unknown", errorMessage |-> NoError]
NewEntry(id) ==
    [iotaMessageId |-> id, state |-> "SENDED", errorMessage |-> NoError]

(* pushNewTransaction: append, then drop from the front down to the limit. *)
PushedMutant_DropsNewest(list, e) ==
    LET longer == Append(list, e)
        n      == Len(longer)
        max    == MAX_PENDING_TRANSACTIONS_IN_LIST
    IN  IF n > max THEN SubSeq(longer, 1, max) ELSE longer
Pushed(list, e) ==
    LET longer == Append(list, e)
        n      == Len(longer)
        max    == MAX_PENDING_TRANSACTIONS_IN_LIST
    IN  IF n > max THEN SubSeq(longer, n - max + 1, n) ELSE longer

(* The positions of an id in a sequence of records, and the last of them:  *)
(* the entry the reverse search of updateTransaction stops at.             *)
Positions(list, id) == {i \in 1 .. Len(list) : list[i].iotaMessageId = id}
FoundMutant_Oldest(list, id) ==
    CHOOSE i \in Positions(list, id) : \A j \in Positions(list, id) : j >= i
Found(list, id) ==
    CHOOSE i \in Positions(list, id) : \A j \in Positions(list, id) : j <= i

(* Lines 62-64: a confirmed entry keeps its state, any other takes the     *)
(* verdict.                                                                *)
JudgedMutant_Overwrites(e, verdict) ==
    [iotaMessageId |-> e.iotaMessageId,
     state |-> IF verdict = NoError THEN "CONFIRMED" ELSE "REJECTED",
     errorMessage |-> verdict]
Judged(e, verdict) ==
    IF e.state = "CONFIRMED" THEN e
    ELSE [iotaMessageId |-> e.iotaMessageId,
          state |-> IF verdict = NoError THEN "CONFIRMED" ELSE "REJECTED",
          errorMessage |-> verdict]

(* updateTransaction on the list; an unknown id changes nothing. *)
UpdatedMutant_NewestEntry(list, id, verdict) ==
    IF Positions(list, id) = {} THEN list
    ELSE [list EXCEPT ![Len(list)] = Judged(@, verdict)]
Updated(list, id, verdict) ==
    IF Positions(list, id) = {} THEN list
    ELSE [list EXCEPT ![Found(list, id)] = Judged(@, verdict)]

(* listAsJson: the reply of getPendingTransactions, newest first. *)
listAsJson ==
    [i \in 1 .. Len(mPendingTransactions) |->
        mPendingTransactions[Len(mPendingTransactions) + 1 - i]]

-----------------------------------------------------------------------------
(* The history of updateTransaction: the newest transaction with this id,  *)
(* listed or not, has received the verdict.                                *)
WithVerdict(s, verdict) ==
    [iotaMessageId |-> s.iotaMessageId, verdicts |-> Append(s.verdicts, verdict)]
Recorded(id, verdict) ==
    IF Positions(sent, id) = {} THEN sent
    ELSE [sent EXCEPT ![Found(sent, id)] = WithVerdict(@, verdict)]

RoomForVerdict(id) ==
    Positions(sent, id) # {} =>
        Len(sent[Found(sent, id)].verdicts) < MaxVerdicts

pushNewTransaction(id) ==
    /\ Len(sent) < MaxSent
    /\ mPendingTransactions' = Pushed(mPendingTransactions, NewEntry(id))
    /\ sent' = Append(sent, [iotaMessageId |-> id, verdicts |-> << >>])
    /\ UNCHANGED earlier

updateTransaction(id, verdict) ==
    /\ RoomForVerdict(id)
    /\ mPendingTransactions' = Updated(mPendingTransactions, id, verdict)
    /\ sent' = Recorded(id, verdict)
    /\ UNCHANGED earlier

(* The process is stopped or killed and started again: getInstance builds  *)
(* an empty list.                                                          *)
RestartList ==
    /\ mPendingTransactions' = << >>
    /\ earlier' = Len(sent)
    /\ UNCHANGED sent

(* JsonTransactionListener::handle.  A request without transactionBase64   *)
(* is ignored; one that cannot be decoded, or whose block cannot be parsed *)
(* when there is no error, ends in an exception before the list is         *)
(* touched.  A rejection names its transaction in the messageId parameter, *)
(* a confirmation by the id inside the block.                              *)
Notifications ==
    [transaction : {"empty", "undecodable", "noBlock", "block"},
     error : Verdicts,
     messageId : MessageIds \cup {NoId},
     blockId : MessageIds \cup {NoId}]

NotifyRejected(n) ==
    /\ n.transaction \in {"noBlock", "block"}
    /\ n.error # NoError
    /\ updateTransaction(n.messageId, n.error)

NotifyConfirmed(n) ==
    /\ n.transaction = "block"
    /\ n.error = NoError
    /\ updateTransaction(n.blockId, NoError)

NotifyIgnored(n) ==
    /\ \/ n.transaction \in {"empty", "undecodable"}
       \/ n.transaction = "noBlock" /\ n.error = NoError
    /\ UNCHANGED ptVars

PtNext ==
    \/ \E id \in MessageIds : pushNewTransaction(id)
    \/ \E n \in Notifications :
          NotifyRejected(n) \/ NotifyConfirmed(n) \/ NotifyIgnored(n)
    \/ RestartList

PtSpec == PtInit /\ [][PtNext]_ptVars

-----------------------------------------------------------------------------
(* What a transaction's verdicts amount to: one confirmation settles it    *)
(* for good, otherwise the last rejection counts.                          *)
Outcome(s) ==
    IF \E i \in 1 .. Len(s.verdicts) : s.verdicts[i] = NoError
    THEN [iotaMessageId |-> s.iotaMessageId, state |-> "CONFIRMED",
          errorMessage |-> NoError]
    ELSE IF s.verdicts = << >> THEN NewEntry(s.iotaMessageId)
    ELSE [iotaMessageId |-> s.iotaMessageId, state |-> "REJECTED",
          errorMessage |-> s.verdicts[Len(s.verdicts)]]

(* The number of transactions that have left the list at the front or were *)
(* lost with an earlier list.                                              *)
Dropped == Len(sent) - Len(mPendingTransactions)

(* The transactions of this life of the process. *)
Current == Len(sent) - earlier

(* getPendingTransactions answers with the most recent                     *)
(* MAX_PENDING_TRANSACTIONS_IN_LIST transactions sent since the last       *)
(* restart, newest first, and shows for each the outcome of all the        *)
(* verdicts it ever received, however they were ordered, repeated or       *)
(* interleaved with pushes, evictions and restarts; a late verdict for a   *)
(* transaction that is gone changes no other one (pushNewTransaction,      *)
(* updateTransaction and listAsJson together).                             *)
ReplyIsRecentOutcomes ==
    /\ Len(listAsJson) =
          IF Current < MAX_PENDING_TRANSACTIONS_IN_LIST
          THEN Current ELSE MAX_PENDING_TRANSACTIONS_IN_LIST
    /\ \A i \in 1 .. Len(listAsJson) :
          listAsJson[i] = Outcome(sent[Len(sent) + 1 - i])

(* A transaction listed as confirmed is never listed as anything else      *)
(* afterwards (the early return of updateTransaction): it stays confirmed  *)
(* until it leaves the list at the front or the process ends.              *)
ConfirmedIsFinal ==
    [][\A j \in 1 .. Len(mPendingTransactions) :
          mPendingTransactions[j].state = "CONFIRMED" =>
             LET k == j - (Dropped' - Dropped)
             IN  k >= 1 => mPendingTransactions'[k] = mPendingTransactions[j]]_ptVars

-----------------------------------------------------------------------------
(* What the callers are promised: an unbounded log of the transactions of  *)
(* this life of the process, of which the reply is the newest part.        *)
Tracker == INSTANCE TransactionTracker WITH
    Limit <- MAX_PENDING_TRANSACTIONS_IN_LIST,
    log   <- [i \in 1 .. Current |-> Outcome(sent[earlier + i])],
    reply <- listAsJson

(* The bounded list with its reverse search implements that log: no caller *)
(* can tell that entries are evicted, as long as it asks for the newest    *)
(* ones only (pushNewTransaction, updateTransaction, listAsJson).          *)
ImplementsTracker == Tracker!TrackerSpec
=============================================================================
