------------------------- MODULE TransactionTracker -------------------------
(***************************************************************************)
(* What model::PendingTransactions promises to the request handlers, to    *)
(* the Gradido Node and to apollo, without its bounded list and without    *)
(* the search in it: every transaction sent is entered in a log, a verdict *)
(* settles the newest transaction with its id, a confirmation is final,    *)
(* and apollo is shown the newest Limit transactions, newest first.  The   *)
(* log starts anew when the process does.                                  *)
(***************************************************************************)
EXTENDS Integers, Sequences

CONSTANTS MessageIds, Errors, NoError, Limit

VARIABLES
    log,    \* the transactions sent since the process started, oldest first
    reply   \* the answer getPendingTransactions gives now

trackerVars == <<log, reply>>

Open(id)      == [iotaMessageId |-> id, state |-> "SENDED", errorMessage |-> NoError]
Confirmed(id) == [iotaMessageId |-> id, state |-> "CONFIRMED", errorMessage |-> NoError]
Rejected(id, error) ==
    [iotaMessageId |-> id, state |-> "REJECTED", errorMessage |-> error]

(* The newest Limit transactions of a log, newest first. *)
Newest(l) ==
    [i \in 1 .. (IF Len(l) < Limit THEN Len(l) ELSE Limit) |-> l[Len(l) + 1 - i]]

TrackerInit == log = << >> /\ reply = << >>

Send(id) == log' = Append(log, Open(id))

(* A transaction is settled by a verdict unless it is confirmed already or *)
(* a newer one has its id.                                                 *)
Settle(i, outcome) ==
    /\ log[i].state # "CONFIRMED"
    /\ \A j \in i + 1 .. Len(log) : log[j].iotaMessageId # log[i].iotaMessageId
    /\ log' = [log EXCEPT ![i] = outcome]

StartAnew == log' = << >>

TrackerNext ==
    /\ \/ \E id \in MessageIds : Send(id)
       \/ \E i \in 1 .. Len(log) :
             \/ Settle(i, Confirmed(log[i].iotaMessageId))
             \/ \E error \in Errors : Settle(i, Rejected(log[i].iotaMessageId, error))
       \/ StartAnew
    /\ reply' = Newest(log')

TrackerSpec == TrackerInit /\ [][TrackerNext]_trackerVars
=============================================================================
