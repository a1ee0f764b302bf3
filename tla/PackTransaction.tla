--------------------------- MODULE PackTransaction ---------------------------
(***************************************************************************)
(* The old interface v1, for clients that keep their keys to themselves:   *)
(* /packTransaction (JsonPackTransaction) builds the unsigned transactions *)
(* of a request, the client signs them and hands each one to               *)
(* /sendTransactionIota (JsonSendTransactionIota) together with the group  *)
(* it belongs to.  Neither handler knows a session, and nothing connects   *)
(* the two but what the client carries from one to the other.              *)
(*                                                                         *)
(* The handlers of all clients take the buffers for the binary keys from   *)
(* one MemoryManager; a buffer that is not given back stays taken.         *)
(*                                                                         *)
(* The library that builds, loads and validates transactions is external:  *)
(* whether it accepts a request's transactions is part of the request, and *)
(* building them can throw.  The send to iota is commented out in          *)
(* JsonSendTransactionIota (line 87), so a send changes nothing anywhere   *)
(* and its answer has no message id.                                       *)
(***************************************************************************)
EXTENDS Integers, Sequences, FiniteSets

CONSTANTS
    Clients,
    PackRequests,    \* the requests to pack, see IsPackRequest
    Aliases,         \* well formed group aliases
    BadAlias,        \* one that isValidGroupAlias refuses: only a send asks
    NoAlias,         \* the empty string: the parameter was not given
    OwnAlias,        \* the alias of the client's own group
    MaxHeld          \* bound: no client packs with this many buffers lost

ASSUME AliasAssumption ==
    /\ OwnAlias \in Aliases /\ BadAlias \notin Aliases /\ NoAlias \notin Aliases
    /\ BadAlias # NoAlias
ASSUME MaxHeldAssumption == MaxHeld \in Nat

(* A request to pack.  complete: every mandatory parameter is there and    *)
(* the dates can be parsed; coin: coinGroupId is missing, a string, or     *)
(* something else; from and to: the two optional aliases (sender and       *)
(* recipient group, or current and new group), whose format nobody checks; *)
(* buffers: how many keys and hashes are decoded; valid: which of its      *)
(* transactions validate() accepts.                                        *)
Kinds == {"transfer", "creation", "registerAddress", "other"}
PackedParts == {"single", "outbound", "inbound"}
AnyAlias == Aliases \cup {BadAlias, NoAlias}
IsPackRequest(q) ==
    /\ q.kind \in Kinds /\ q.complete \in BOOLEAN /\ q.valid \subseteq PackedParts
    /\ q.coin \in {"missing", "string", "other"}
    /\ q.from \in AnyAlias /\ q.to \in AnyAlias
    /\ q.buffers \in 1 .. 3
ASSUME PackRequestsAssumption ==
    PackRequests # {} /\ \A q \in PackRequests : IsPackRequest(q)

VARIABLES
    pc,        \* where the pack handler of each client is
    request,   \* the request it works on, or has answered last
    built,     \* its vector of transactions with their group aliases
    held,      \* the buffers its requests have taken and not given back
    builds,    \* history: the kinds of transactions it has built, or failed to
    reply,     \* how the last pack request was answered
    packed,    \* the transactions that answer contained
    sendReply  \* the last request to send since then, and its answer

vars == <<pc, request, built, held, builds, reply, packed, sendReply>>

Replies == {"none", "success", "error", "exception"}
AnyRequest == CHOOSE q \in PackRequests : TRUE

(* A transaction of a request: what kind, and the group it names as the    *)
(* other one; in the vector it is paired with the group it is to be sent   *)
(* to.  Each is validated on its own.                                      *)
Body(q, part, other) ==
    [kind |-> q.kind, valid |-> part \in q.valid, part |-> part, other |-> other]
Packed(body, alias) == [body |-> body, groupAlias |-> alias]
Bodies(parts) ==
    [kind : Kinds, valid : BOOLEAN, part : parts, other : AnyAlias]
PackedTransactions == [body : Bodies(PackedParts), groupAlias : AnyAlias]

(* What can be sent: a transaction, or something that is none. *)
Sends ==
    [body : Bodies(PackedParts \cup {"missing", "garbage"}),
     pairs : SUBSET {"no array", "good", "bad", "incomplete"},
     groupAlias : AnyAlias]

PackTypeOK ==
    /\ pc \in [Clients -> {"idle", "read", "build", "result"}]
    /\ request \in [Clients -> PackRequests]
    /\ built \in [Clients -> Seq(PackedTransactions)]
    /\ packed \in [Clients -> Seq(PackedTransactions)]
    /\ held \in [Clients -> Nat]
    /\ builds \in [Clients -> SUBSET (Kinds \X {"built", "threw"})]
    /\ reply \in [Clients -> Replies]
    /\ sendReply \in [Clients -> {<< >>} \cup (Sends \X Replies)]

Init ==
    /\ pc = [c \in Clients |-> "idle"]
    /\ request = [c \in Clients |-> AnyRequest]
    /\ built = [c \in Clients |-> << >>]
    /\ held = [c \in Clients |-> 0]
    /\ builds = [c \in Clients |-> {}]
    /\ reply = [c \in Clients |-> "none"]
    /\ packed = [c \in Clients |-> << >>]
    /\ sendReply = [c \in Clients |-> << >>]

-----------------------------------------------------------------------------
(* /packTransaction.  The handler ends with an error, with an exception    *)
(* that the base class catches, or with the list of transactions.          *)
End(c, r, list) ==
    /\ pc' = [pc EXCEPT ![c] = "idle"]
    /\ reply' = [reply EXCEPT ![c] = r]
    /\ packed' = [packed EXCEPT ![c] = list]
    /\ built' = [built EXCEPT ![c] = << >>]
    /\ UNCHANGED request
Fail(c, r) == End(c, r, << >>)
Goto(c, step) ==
    /\ pc' = [pc EXCEPT ![c] = step]
    /\ UNCHANGED <<reply, packed, request>>

Receive(c, q) ==
    /\ pc[c] = "idle" /\ held[c] < MaxHeld
    /\ pc' = [pc EXCEPT ![c] = "read"]
    /\ request' = [request EXCEPT ![c] = q]
    /\ sendReply' = [sendReply EXCEPT ![c] = << >>]
    /\ UNCHANGED <<built, held, builds, reply, packed>>

(* The buffers are taken, and given back. *)
Take(c)    == held' = [held EXCEPT ![c] = @ + request[c].buffers]
ReleaseMutant_Twice(c) == held' = [held EXCEPT ![c] = @ - 2 * request[c].buffers]
Release(c) == held' = [held EXCEPT ![c] = @ - request[c].buffers]

(* The parameters; an unknown address type of a registration may throw.    *)
ReadParameters(c) ==
    /\ pc[c] = "read"
    /\ \/ /\ request[c].complete /\ request[c].kind # "other"
          /\ Goto(c, "build") /\ Take(c) /\ UNCHANGED <<built, builds>>
       \/ /\ ~request[c].complete \/ request[c].kind = "other"
          /\ Fail(c, "error") /\ UNCHANGED <<held, builds>>
       \/ /\ request[c].complete /\ request[c].kind = "registerAddress"
          /\ Fail(c, "exception") /\ UNCHANGED <<held, builds>>
    /\ UNCHANGED sendReply

(* The transactions of a transfer or a registration: a pair as soon as     *)
(* both aliases are given, each half with the other group in it, to be     *)
(* sent to its own group.                                                  *)
Pair(q) ==
    <<Packed(Body(q, "outbound", q.to), q.from), Packed(Body(q, "inbound", q.from), q.to)>>
Single(q) == <<Packed(Body(q, "single", NoAlias), NoAlias)>>
PairOrSingle(q) ==
    IF q.from # NoAlias /\ q.to # NoAlias THEN Pair(q) ELSE Single(q)

Built(c, list) ==
    /\ Goto(c, "result")
    /\ built' = [built EXCEPT ![c] = list]
    /\ builds' = [builds EXCEPT ![c] = @ \cup {<<request[c].kind, "built">>}]
Threw(c) ==
    /\ Fail(c, "exception")
    /\ builds' = [builds EXCEPT ![c] = @ \cup {<<request[c].kind, "threw">>}]

(* transfer(): readCoinGroupId or the library throws past the release of   *)
(* the buffers.                                                            *)
readCoinGroupIdThrows(q) == q.coin = "other"
TransferMutant_NotReleased(c) ==
    /\ pc[c] = "build" /\ request[c].kind = "transfer"
    /\ \/ Threw(c)
       \/ ~readCoinGroupIdThrows(request[c]) /\ Built(c, PairOrSingle(request[c]))
    /\ UNCHANGED <<held, sendReply>>
Transfer(c) ==
    /\ pc[c] = "build" /\ request[c].kind = "transfer"
    /\ \/ Threw(c) /\ UNCHANGED held
       \/ /\ ~readCoinGroupIdThrows(request[c])
          /\ Built(c, PairOrSingle(request[c])) /\ Release(c)
    /\ UNCHANGED sendReply

(* creation(): the buffer is given back if the library throws, and only    *)
(* then.                                                                   *)
Creation(c) ==
    /\ pc[c] = "build" /\ request[c].kind = "creation"
    /\ \/ Threw(c) /\ Release(c)
       \/ Built(c, Single(request[c])) /\ UNCHANGED held
    /\ UNCHANGED sendReply

(* registerAddress(), in the same way. *)
RegisterAddress(c) ==
    /\ pc[c] = "build" /\ request[c].kind = "registerAddress"
    /\ \/ Threw(c) /\ Release(c)
       \/ Built(c, PairOrSingle(request[c])) /\ UNCHANGED held
    /\ UNCHANGED sendReply

(* resultBase64Transactions: the first transaction that is not valid or    *)
(* cannot be serialised ends the answer, whatever was packed before it.    *)
ResultMutant_SkipsInvalid(c) ==
    /\ pc[c] = "result"
    /\ \/ Fail(c, "error")
       \/ End(c, "success", SelectSeq(built[c], LAMBDA p : p.body.valid))
    /\ UNCHANGED <<held, builds, sendReply>>
Result(c) ==
    /\ pc[c] = "result"
    /\ \/ /\ \E i \in 1 .. Len(built[c]) : ~built[c][i].body.valid
          /\ Fail(c, "error") \/ Fail(c, "exception")
       \/ Fail(c, "error")
       \/ /\ \A i \in 1 .. Len(built[c]) : built[c][i].body.valid
          /\ End(c, "success", built[c])
    /\ UNCHANGED <<held, builds, sendReply>>

-----------------------------------------------------------------------------
(* /sendTransactionIota.  The client sends a transaction it has got, or    *)
(* something that is none, with any kinds of signature pairs and any       *)
(* alias.                                                                  *)
NoBody(why) == [kind |-> "other", valid |-> FALSE, part |-> why, other |-> NoAlias]
SendRequests(c) ==
    [body : {packed[c][i].body : i \in 1 .. Len(packed[c])}
              \cup {NoBody("missing"), NoBody("garbage")},
     pairs : {{"no array"}} \cup SUBSET {"good", "bad", "incomplete"},
     groupAlias : {packed[c][i].groupAlias : i \in 1 .. Len(packed[c])}
                    \cup {OwnAlias, BadAlias, NoAlias}]

(* The parameters and every pair must be complete; the body must be one    *)
(* the library can load; it and the signatures are validated; then their   *)
(* number and the alias are looked at.                                     *)
Malformed(s) == s.body.part = "missing" \/ s.pairs = {"no array"}
Throws(s)    == s.body.part = "garbage" \/ ~s.body.valid \/ "bad" \in s.pairs
MinSignatureCount == 1
SendAnswersMutant_OneMoreSignature(s) ==
    IF Malformed(s) THEN {"error"}
    ELSE LET odd == (IF Throws(s) THEN {"exception"} ELSE {})
                      \cup (IF "incomplete" \in s.pairs THEN {"error"} ELSE {})
         IN  IF odd # {} THEN odd
             ELSE IF Cardinality(s.pairs) <= MinSignatureCount \/ s.groupAlias \notin Aliases
             THEN {"error"} ELSE {"success"}
SendAnswers(s) ==
    IF Malformed(s) THEN {"error"}
    ELSE LET odd == (IF Throws(s) THEN {"exception"} ELSE {})
                      \cup (IF "incomplete" \in s.pairs THEN {"error"} ELSE {})
         IN  IF odd # {} THEN odd
             ELSE IF Cardinality(s.pairs) < MinSignatureCount \/ s.groupAlias \notin Aliases
             THEN {"error"} ELSE {"success"}
Send(c) ==
    /\ pc[c] = "idle"
    /\ \E s \in SendRequests(c) : \E r \in SendAnswers(s) :
          sendReply' = [sendReply EXCEPT ![c] = <<s, r>>]
    /\ UNCHANGED <<pc, request, built, held, builds, reply, packed>>

Next ==
    \E c \in Clients :
        \/ \E q \in PackRequests : Receive(c, q)
        \/ ReadParameters(c) \/ Transfer(c) \/ Creation(c) \/ RegisterAddress(c)
        \/ Result(c) \/ Send(c)

Spec == Init /\ [][Next]_vars

-----------------------------------------------------------------------------
(* An answer of /packTransaction is all or nothing.  A success carries one *)
(* valid transaction for the client's own group, or two, outbound before   *)
(* inbound, that name each other's group; two if the request names two     *)
(* different groups, one if it does not name two.  Any other answer        *)
(* carries none, not even the half that was valid (transfer,               *)
(* registerAddress, resultBase64Transactions).                             *)
NamesTwo(q) == q.kind # "creation" /\ q.from # NoAlias /\ q.to # NoAlias
IsSingle(list) ==
    Len(list) = 1 /\ list[1].body.part = "single" /\ list[1].groupAlias = NoAlias
IsPair(list, from, to) ==
    /\ Len(list) = 2
    /\ list[1].body.part = "outbound" /\ list[1].groupAlias = from /\ list[1].body.other = to
    /\ list[2].body.part = "inbound" /\ list[2].groupAlias = to /\ list[2].body.other = from
PackIsWhole ==
    \A c \in Clients : pc[c] = "idle" =>
        LET list == packed[c]
            q    == request[c]
        IN
        /\ reply[c] # "success" => list = << >>
        /\ reply[c] = "success" =>
              /\ IsSingle(list) \/ IsPair(list, q.from, q.to)
              /\ NamesTwo(q) /\ q.from # q.to => Len(list) = 2
              /\ ~NamesTwo(q) => Len(list) = 1
              /\ \A i \in 1 .. Len(list) : list[i].body.valid

(* What /packTransaction hands out can be sent, but for the one thing it   *)
(* does not look at: a transaction of its last answer, signed by those who *)
(* have to and sent to the group named with it (or the client's own, where *)
(* none is named), is answered with success by /sendTransactionIota, and   *)
(* with an error exactly if that group was packed with an alias no group   *)
(* can have (JsonSendTransactionIota line 76).                             *)
AsDocumented(s, p) ==
    /\ s.body = p.body /\ s.pairs = {"good"}
    /\ s.groupAlias = IF p.groupAlias = NoAlias THEN OwnAlias ELSE p.groupAlias
PackedCanBeSent ==
    \A c \in Clients : sendReply[c] # << >> =>
        \A i \in 1 .. Len(packed[c]) :
            AsDocumented(sendReply[c][1], packed[c][i]) =>
                sendReply[c][2] =
                    IF packed[c][i].groupAlias = BadAlias THEN "error" ELSE "success"

(* Which requests cost the server memory for good: exactly the transfers   *)
(* whose building threw and the creations and registrations that were      *)
(* built.  A client without any of these has no buffer left at the server  *)
(* between its requests, however its other requests ended.                 *)
Losing == {<<"transfer", "threw">>, <<"creation", "built">>, <<"registerAddress", "built">>}
BuffersLostOnlySo ==
    \A c \in Clients : pc[c] = "idle" =>
        (held[c] = 0 <=> builds[c] \cap Losing = {})
=============================================================================
