------------------------ MODULE PackTransactionProofs ------------------------
(***************************************************************************)
(* Proofs about PackTransaction for any clients, any requests and aliases  *)
(* and any number of buffers lost.                                         *)
(*                                                                         *)
(* The clients share nothing, so the invariant speaks of each one alone.   *)
(* What it adds to the properties is the middle of a request: the vector   *)
(* of transactions between the building and the answer, and the buffers    *)
(* that are taken but not yet lost.                                        *)
(***************************************************************************)
EXTENDS PackTransaction, SequenceTheorems, FiniteSetTheorems, TLAPS

(* The vector transfer, creation or registerAddress builds of a request. *)
Vector(q) == IF q.kind = "creation" THEN Single(q) ELSE PairOrSingle(q)

(* The vector of transactions exists from the building to the answer. *)
BuiltIsWhole(c) ==
    /\ pc[c] = "result" => built[c] = Vector(request[c])
    /\ pc[c] # "result" => built[c] = << >>

(* An answer has only valid transactions, and all of its request, or it    *)
(* has none.                                                               *)
AnswerIsWhole(c) ==
    \/ /\ reply[c] = "success"
       /\ pc[c] = "idle" => packed[c] = Vector(request[c])
       /\ \A i \in 1 .. Len(packed[c]) : packed[c][i].body.valid
    \/ reply[c] # "success" /\ packed[c] = << >>

(* The buffers of the request at work come on top of the lost ones. *)
Lost(c) == IF pc[c] = "build" THEN held[c] - request[c].buffers ELSE held[c]
HeldIsLost(c) ==
    /\ pc[c] = "build" => request[c].kind # "other"
    /\ Lost(c) \in Nat
    /\ Lost(c) = 0 <=> builds[c] \cap Losing = {}

(* The answer to a send is the answer to this very request, and it is      *)
(* forgotten as soon as another packing begins.                            *)
SendIsAnswered(c) ==
    sendReply[c] # << >> =>
        pc[c] = "idle" /\ sendReply[c][2] \in SendAnswers(sendReply[c][1])

ClientInv(c) ==
    BuiltIsWhole(c) /\ AnswerIsWhole(c) /\ HeldIsLost(c) /\ SendIsAnswered(c)

(* The inductive invariant. *)
PackInv == PackTypeOK /\ \A c \in Clients : ClientInv(c)

(* The requests are well formed and there is one to stand for none. *)
LEMMA RequestFacts ==
    /\ AnyRequest \in PackRequests
    /\ \A q \in PackRequests :
          /\ q.kind \in Kinds /\ q.valid \subseteq PackedParts
          /\ q.from \in AnyAlias /\ q.to \in AnyAlias
          /\ q.buffers \in 1 .. 3
BY PackRequestsAssumption DEF AnyRequest, IsPackRequest

(* A vector holds one transaction, or two that name each other's group;    *)
(* two exactly if the request names two groups.                            *)
LEMMA VectorShape ==
    ASSUME NEW q \in PackRequests
    PROVE  /\ Vector(q) \in Seq(PackedTransactions)
           /\ NamesTwo(q) => IsPair(Vector(q), q.from, q.to)
           /\ ~NamesTwo(q) => IsSingle(Vector(q))
<1>1. q.kind \in Kinds /\ q.from \in AnyAlias /\ q.to \in AnyAlias
    BY RequestFacts
<1> DEFINE one == Packed(Body(q, "single", NoAlias), NoAlias)
           out == Packed(Body(q, "outbound", q.to), q.from)
           in  == Packed(Body(q, "inbound", q.from), q.to)
<1>2. {one, out, in} \subseteq PackedTransactions
    BY <1>1 DEF PackedTransactions, Bodies, PackedParts, Packed, Body, AnyAlias
<1>3. /\ one.body.part = "single" /\ one.groupAlias = NoAlias
      /\ out.body.part = "outbound" /\ out.body.other = q.to /\ out.groupAlias = q.from
      /\ in.body.part = "inbound" /\ in.body.other = q.from /\ in.groupAlias = q.to
    BY DEF Packed, Body
<1>4. /\ NamesTwo(q) => Vector(q) = <<out, in>>
      /\ ~NamesTwo(q) => Vector(q) = <<one>>
    BY DEF NamesTwo, Vector, PairOrSingle, Single, Pair
<1> HIDE DEF one, out, in
<1>5. CASE NamesTwo(q)
    <2>1. PICK list : list = Vector(q) /\ list = <<out, in>>
        BY <1>4, <1>5
    <2>2. /\ list \in Seq(PackedTransactions) /\ Len(list) = 2
          /\ list[1] = out /\ list[2] = in
        BY <1>2, <2>1
    <2>3. IsPair(list, q.from, q.to)
        BY <2>2, <1>3 DEF IsPair
    <2> QED BY <1>5, <2>1, <2>2, <2>3
<1>6. CASE ~NamesTwo(q)
    <2>1. PICK list : list = Vector(q) /\ list = <<one>>
        BY <1>4, <1>6
    <2>2. list \in Seq(PackedTransactions) /\ Len(list) = 1 /\ list[1] = one
        BY <1>2, <2>1
    <2>3. IsSingle(list)
        BY <2>2, <1>3 DEF IsSingle
    <2> QED BY <1>6, <2>1, <2>2, <2>3
<1> QED BY <1>5, <1>6

(* A transaction of an answer, sent as documented, is answered with        *)
(* success unless its alias is malformed.                                  *)
LEMMA DocumentedSendAnswer ==
    ASSUME NEW p \in PackedTransactions, p.body.valid, NEW s, AsDocumented(s, p)
    PROVE  SendAnswers(s) = {IF p.groupAlias = BadAlias THEN "error" ELSE "success"}
<1>1. s.body = p.body /\ s.pairs = {"good"} /\ s.body.part \in PackedParts
    BY DEF AsDocumented, PackedTransactions, Bodies
<1>2. s.groupAlias \notin Aliases <=> p.groupAlias = BadAlias
    BY AliasAssumption DEF AsDocumented, PackedTransactions, AnyAlias
<1>3. Cardinality(s.pairs) = 1
    BY <1>1, FS_Singleton
<1>4. ~Malformed(s)
    <2>1. "good" # "no array"
        OBVIOUS
    <2> QED BY <1>1, <2>1 DEF Malformed, PackedParts
<1>5. ~Throws(s) /\ "incomplete" \notin s.pairs
    BY <1>1 DEF Throws, PackedParts
<1> QED BY <1>2, <1>3, <1>4, <1>5 DEF SendAnswers, MinSignatureCount

(* Every answer to a send is an error, an exception or a success. *)
LEMMA SendAnswersAreReplies == \A s : SendAnswers(s) \subseteq Replies
BY DEF SendAnswers, Replies

(* What is sent has its type. *)
LEMMA SendRequestsType ==
    ASSUME PackTypeOK, NEW c \in Clients PROVE SendRequests(c) \subseteq Sends
<1>1. packed[c] \in Seq(PackedTransactions)
    BY DEF PackTypeOK
<1>2. \A i \in 1 .. Len(packed[c]) :
          /\ packed[c][i].body \in Bodies(PackedParts \cup {"missing", "garbage"})
          /\ packed[c][i].groupAlias \in AnyAlias
    <2> SUFFICES ASSUME NEW i \in 1 .. Len(packed[c])
                 PROVE  /\ packed[c][i].body \in Bodies(PackedParts \cup {"missing", "garbage"})
                        /\ packed[c][i].groupAlias \in AnyAlias
        OBVIOUS
    <2>1. packed[c][i] \in PackedTransactions
        BY <1>1, ElementOfSeq
    <2> QED BY <2>1 DEF PackedTransactions, Bodies
<1>3. {NoBody("missing"), NoBody("garbage")}
          \subseteq Bodies(PackedParts \cup {"missing", "garbage"})
    BY DEF NoBody, Bodies, Kinds, AnyAlias
<1>4. \A s \in SendRequests(c) :
          /\ s \in [body : {packed[c][i].body : i \in 1 .. Len(packed[c])}
                             \cup {NoBody("missing"), NoBody("garbage")},
                    pairs : {{"no array"}} \cup SUBSET {"good", "bad", "incomplete"},
                    groupAlias : {packed[c][i].groupAlias : i \in 1 .. Len(packed[c])}
                                   \cup {OwnAlias, BadAlias, NoAlias}]
    BY DEF SendRequests
<1> QED BY <1>2, <1>3, <1>4, AliasAssumption DEF Sends, AnyAlias

(* One client's step. *)
Step(c) ==
    \/ \E q \in PackRequests : Receive(c, q)
    \/ ReadParameters(c) \/ Transfer(c) \/ Creation(c) \/ RegisterAddress(c)
    \/ Result(c) \/ Send(c)

(* The other clients do not notice a client's step. *)
OthersUntouched(c) ==
    \A d \in Clients \ {c} :
        /\ pc'[d] = pc[d] /\ request'[d] = request[d] /\ built'[d] = built[d]
        /\ held'[d] = held[d] /\ builds'[d] = builds[d] /\ reply'[d] = reply[d]
        /\ packed'[d] = packed[d] /\ sendReply'[d] = sendReply[d]

(* How a handler's end, and its way from one step to the next, change the  *)
(* state of their client.                                                  *)
LEMMA EndEffect ==
    ASSUME PackTypeOK, NEW c \in Clients, NEW r \in Replies,
           NEW list \in Seq(PackedTransactions), End(c, r, list)
    PROVE  /\ pc' = [pc EXCEPT ![c] = "idle"] /\ pc'[c] = "idle"
           /\ reply'[c] = r /\ packed'[c] = list /\ built'[c] = << >>
           /\ pc' \in [Clients -> {"idle", "read", "build", "result"}]
           /\ request' \in [Clients -> PackRequests]
           /\ built' \in [Clients -> Seq(PackedTransactions)]
           /\ packed' \in [Clients -> Seq(PackedTransactions)]
           /\ reply' \in [Clients -> Replies]
           /\ \A d \in Clients \ {c} :
                 /\ pc'[d] = pc[d] /\ request'[d] = request[d] /\ built'[d] = built[d]
                 /\ reply'[d] = reply[d] /\ packed'[d] = packed[d]
<1>1. << >> \in Seq(PackedTransactions)
    BY EmptySeq
<1> QED BY <1>1, RequestFacts DEF PackTypeOK, End

(* Before the building the buffers are not lost, and the answers are the   *)
(* ones of the request before.                                             *)
LEMMA ReceiveKeeps ==
    ASSUME PackInv, NEW c \in Clients, NEW q \in PackRequests, Receive(c, q)
    PROVE  PackTypeOK' /\ OthersUntouched(c) /\ ClientInv(c)'
<1> USE DEF PackInv, PackTypeOK, Receive
<1>1. PackTypeOK'
    OBVIOUS
<1>2. OthersUntouched(c)
    BY DEF OthersUntouched
<1>3. pc[c] = "idle" /\ pc'[c] = "read" /\ sendReply'[c] = << >>
    OBVIOUS
<1>4. BuiltIsWhole(c)' /\ AnswerIsWhole(c)' /\ SendIsAnswered(c)'
    BY <1>3 DEF ClientInv, BuiltIsWhole, AnswerIsWhole, SendIsAnswered
<1>5. HeldIsLost(c)'
    BY <1>3 DEF ClientInv, HeldIsLost, Lost
<1> QED BY <1>1, <1>2, <1>4, <1>5 DEF ClientInv

(* A request whose parameters are refused takes no buffer; one that goes   *)
(* on has taken its buffers and lost none.                                 *)
LEMMA ReadParametersKeeps ==
    ASSUME PackInv, NEW c \in Clients, ReadParameters(c)
    PROVE  PackTypeOK' /\ OthersUntouched(c) /\ ClientInv(c)'
<1>0. /\ PackTypeOK /\ pc[c] = "read" /\ sendReply' = sendReply /\ builds' = builds
      /\ request[c].buffers \in 1 .. 3 /\ held[c] \in Nat
      /\ ClientInv(c) /\ sendReply[c] = << >>
    BY RequestFacts
    DEF PackInv, PackTypeOK, ReadParameters, ClientInv, SendIsAnswered
<1>1. CASE /\ request[c].complete /\ request[c].kind # "other"
           /\ Goto(c, "build") /\ Take(c) /\ UNCHANGED <<built, builds>>
    <2>1. PackTypeOK' /\ OthersUntouched(c)
        BY <1>0, <1>1 DEF PackTypeOK, OthersUntouched, Goto, Take
    <2>2. /\ pc'[c] = "build" /\ request'[c] = request[c]
          /\ held'[c] = held[c] + request[c].buffers
          /\ reply'[c] = reply[c] /\ packed'[c] = packed[c] /\ built'[c] = built[c]
        BY <1>0, <1>1 DEF PackTypeOK, Goto, Take
    <2>3. BuiltIsWhole(c)' /\ AnswerIsWhole(c)' /\ SendIsAnswered(c)'
        BY <1>0, <2>2 DEF ClientInv, BuiltIsWhole, AnswerIsWhole, SendIsAnswered
    <2>4. Lost(c)' = held[c] /\ Lost(c) = held[c]
        BY <1>0, <2>2 DEF Lost
    <2>5. HeldIsLost(c)'
        BY <1>0, <1>1, <2>2, <2>4 DEF ClientInv, HeldIsLost
    <2> QED BY <2>1, <2>3, <2>5 DEF ClientInv
<1>2. CASE (Fail(c, "error") \/ Fail(c, "exception")) /\ UNCHANGED <<held, builds>>
    <2>1. PICK r \in {"error", "exception"} : End(c, r, << >>)
        BY <1>2 DEF Fail
    <2>2. r \in Replies /\ << >> \in Seq(PackedTransactions)
        BY EmptySeq DEF Replies
    <2>3. PackTypeOK' /\ OthersUntouched(c)
        BY <1>0, <1>2, <2>1, <2>2, EndEffect DEF PackTypeOK, OthersUntouched
    <2>4. /\ pc'[c] = "idle" /\ reply'[c] = r /\ packed'[c] = << >> /\ built'[c] = << >>
          /\ held'[c] = held[c]
        BY <1>0, <1>2, <2>1, <2>2, EndEffect
    <2>5. BuiltIsWhole(c)' /\ AnswerIsWhole(c)' /\ SendIsAnswered(c)'
        BY <1>0, <2>4 DEF BuiltIsWhole, AnswerIsWhole, SendIsAnswered
    <2>6. HeldIsLost(c)'
        BY <1>0, <2>4 DEF ClientInv, HeldIsLost, Lost
    <2> QED BY <2>3, <2>5, <2>6 DEF ClientInv
<1> QED BY <1>1, <1>2 DEF ReadParameters

(* The building: whether the library throws or not, what is lost follows   *)
(* from the kind of the request and from the outcome alone.                *)
LEMMA BuildKeeps ==
    ASSUME PackInv, NEW c \in Clients, Transfer(c) \/ Creation(c) \/ RegisterAddress(c)
    PROVE  PackTypeOK' /\ OthersUntouched(c) /\ ClientInv(c)'
<1> DEFINE q == request[c]
           n == q.buffers
<1>0. /\ PackTypeOK /\ pc[c] = "build" /\ sendReply' = sendReply
      /\ n \in 1 .. 3 /\ held[c] \in Nat /\ q \in PackRequests
      /\ q.kind \in {"transfer", "creation", "registerAddress"}
      /\ ClientInv(c) /\ sendReply[c] = << >>
    BY RequestFacts
    DEF PackInv, PackTypeOK, Transfer, Creation, RegisterAddress, ClientInv, SendIsAnswered
<1>1. /\ held[c] - n \in Nat
      /\ held[c] - n = 0 <=> builds[c] \cap Losing = {}
      /\ builds[c] \in SUBSET (Kinds \X {"built", "threw"})
    BY <1>0 DEF ClientInv, HeldIsLost, Lost, PackTypeOK
<1>2. PICK how \in {"built", "threw"} :
        /\ builds' = [builds EXCEPT ![c] = @ \cup {<<q.kind, how>>}]
        /\ held' = IF <<q.kind, how>> \in Losing THEN held
                   ELSE [held EXCEPT ![c] = @ - n]
        /\ how = "threw" => Fail(c, "exception")
        /\ how = "built" => Goto(c, "result") /\ built' = [built EXCEPT ![c] = Vector(q)]
    <2>1. CASE Transfer(c)
        BY <2>1 DEF Transfer, Threw, Built, Release, Losing, Vector
    <2>2. CASE Creation(c)
        BY <2>2 DEF Creation, Threw, Built, Release, Losing, Vector
    <2>3. CASE RegisterAddress(c)
        BY <2>3 DEF RegisterAddress, Threw, Built, Release, Losing, Vector
    <2> QED BY <2>1, <2>2, <2>3
<1>3. /\ builds'[c] = builds[c] \cup {<<q.kind, how>>}
      /\ builds' \in [Clients -> SUBSET (Kinds \X {"built", "threw"})]
      /\ held' \in [Clients -> Nat]
      /\ held'[c] = IF <<q.kind, how>> \in Losing THEN held[c] ELSE held[c] - n
      /\ \A d \in Clients \ {c} : builds'[d] = builds[d] /\ held'[d] = held[d]
    <2>1. <<q.kind, how>> \in Kinds \X {"built", "threw"}
        BY <1>0, <1>2 DEF Kinds
    <2>2. /\ builds'[c] = builds[c] \cup {<<q.kind, how>>}
          /\ builds' \in [Clients -> SUBSET (Kinds \X {"built", "threw"})]
          /\ \A d \in Clients \ {c} : builds'[d] = builds[d]
        BY <1>0, <1>1, <1>2, <2>1 DEF PackTypeOK
    <2>3. CASE <<q.kind, how>> \in Losing
        BY <1>0, <1>2, <2>2, <2>3 DEF PackTypeOK
    <2>4. CASE <<q.kind, how>> \notin Losing
        <3>1. held' = [held EXCEPT ![c] = held[c] - n]
            BY <1>2, <2>4
        <3> QED BY <1>0, <1>1, <2>2, <2>4, <3>1 DEF PackTypeOK
    <2> QED BY <2>3, <2>4
<1>4. pc'[c] # "build" => HeldIsLost(c)'
    <2> HAVE pc'[c] # "build"
    <2>1. Lost(c)' = held'[c]
        BY DEF Lost
    <2>2. held'[c] \in Nat
        BY <1>3
    <2>3. held'[c] = 0 <=> builds'[c] \cap Losing = {}
        <3>1. CASE <<q.kind, how>> \in Losing
            <4>1. builds'[c] \cap Losing # {}
                BY <1>3, <3>1
            <4>2. held'[c] # 0
                BY <1>0, <1>1, <1>3, <3>1
            <4> QED BY <4>1, <4>2
        <3>2. CASE <<q.kind, how>> \notin Losing
            <4>1. builds'[c] \cap Losing = builds[c] \cap Losing
                BY <1>3, <3>2
            <4>2. held'[c] = held[c] - n
                BY <1>3, <3>2
            <4> QED BY <4>1, <4>2, <1>1
        <3> QED BY <3>1, <3>2
    <2> QED BY <2>1, <2>2, <2>3 DEF HeldIsLost
<1> HIDE DEF q, n
<1>5. CASE how = "threw"
    <2>1. End(c, "exception", << >>)
        BY <1>2, <1>5 DEF Fail
    <2>2. "exception" \in Replies /\ << >> \in Seq(PackedTransactions)
        BY EmptySeq DEF Replies
    <2>3. PackTypeOK' /\ OthersUntouched(c)
        BY <1>0, <1>3, <2>1, <2>2, EndEffect DEF PackTypeOK, OthersUntouched
    <2>4. /\ pc'[c] = "idle" /\ reply'[c] = "exception" /\ packed'[c] = << >>
          /\ built'[c] = << >>
        BY <1>0, <2>1, <2>2, EndEffect
    <2>5. BuiltIsWhole(c)' /\ AnswerIsWhole(c)' /\ SendIsAnswered(c)'
        BY <1>0, <2>4 DEF BuiltIsWhole, AnswerIsWhole, SendIsAnswered
    <2> QED BY <1>4, <2>3, <2>4, <2>5 DEF ClientInv
<1>6. CASE how = "built"
    <2>1. Goto(c, "result") /\ built' = [built EXCEPT ![c] = Vector(q)]
        BY <1>2, <1>6
    <2>2. Vector(q) \in Seq(PackedTransactions)
        BY <1>0, VectorShape
    <2>3. /\ pc'[c] = "result" /\ built'[c] = Vector(request'[c])
          /\ reply'[c] = reply[c] /\ packed'[c] = packed[c]
        BY <1>0, <2>1 DEF Goto, PackTypeOK, q
    <2>4. PackTypeOK' /\ OthersUntouched(c)
        BY <1>0, <1>3, <2>1, <2>2 DEF PackTypeOK, OthersUntouched, Goto
    <2>5. BuiltIsWhole(c)' /\ AnswerIsWhole(c)' /\ SendIsAnswered(c)'
        BY <1>0, <2>2, <2>3 DEF ClientInv, BuiltIsWhole, AnswerIsWhole, SendIsAnswered
    <2> QED BY <1>4, <2>3, <2>4, <2>5 DEF ClientInv
<1> QED BY <1>2, <1>5, <1>6

(* resultBase64Transactions hands out the whole vector, or nothing. *)
LEMMA ResultKeeps ==
    ASSUME PackInv, NEW c \in Clients, Result(c)
    PROVE  PackTypeOK' /\ OthersUntouched(c) /\ ClientInv(c)'
<1>0. /\ PackTypeOK /\ pc[c] = "result" /\ ClientInv(c) /\ sendReply[c] = << >>
      /\ sendReply' = sendReply /\ held' = held /\ builds' = builds
    BY DEF PackInv, Result, ClientInv, SendIsAnswered
<1>1. built[c] = Vector(request[c]) /\ built[c] \in Seq(PackedTransactions)
    BY <1>0, VectorShape DEF ClientInv, BuiltIsWhole, PackTypeOK
<1>2. PICK r \in Replies, list \in Seq(PackedTransactions) :
          /\ End(c, r, list)
          /\ \/ r # "success" /\ list = << >>
             \/ /\ r = "success" /\ list = built[c]
                /\ \A i \in 1 .. Len(list) : list[i].body.valid
    <2>1. << >> \in Seq(PackedTransactions)
        BY EmptySeq
    <2> QED BY <1>1, <2>1 DEF Result, Fail, Replies
<1>3. PackTypeOK' /\ OthersUntouched(c)
    BY <1>0, <1>2, EndEffect DEF PackTypeOK, OthersUntouched
<1>4. /\ pc'[c] = "idle" /\ reply'[c] = r /\ packed'[c] = list /\ built'[c] = << >>
      /\ request'[c] = request[c]
    BY <1>0, <1>2, EndEffect DEF End
<1>5. BuiltIsWhole(c)' /\ AnswerIsWhole(c)' /\ SendIsAnswered(c)'
    BY <1>0, <1>1, <1>2, <1>4 DEF BuiltIsWhole, AnswerIsWhole, SendIsAnswered
<1>6. HeldIsLost(c)'
    BY <1>0, <1>4 DEF ClientInv, HeldIsLost, Lost
<1> QED BY <1>3, <1>5, <1>6 DEF ClientInv

(* A send is answered and changes nothing else. *)
LEMMA SendKeeps ==
    ASSUME PackInv, NEW c \in Clients, Send(c)
    PROVE  PackTypeOK' /\ OthersUntouched(c) /\ ClientInv(c)'
<1>0. /\ PackTypeOK /\ pc[c] = "idle" /\ ClientInv(c)
      /\ UNCHANGED <<pc, request, built, held, builds, reply, packed>>
    BY DEF PackInv, Send
<1>1. PICK s \in SendRequests(c) : \E r \in SendAnswers(s) :
          sendReply' = [sendReply EXCEPT ![c] = <<s, r>>]
    BY DEF Send
<1>2. PICK r \in SendAnswers(s) : sendReply' = [sendReply EXCEPT ![c] = <<s, r>>]
    BY <1>1
<1>3. s \in Sends /\ r \in Replies
    BY <1>0, SendRequestsType, SendAnswersAreReplies
<1>4. sendReply'[c] = <<s, r>> /\ PackTypeOK' /\ OthersUntouched(c)
    BY <1>0, <1>2, <1>3 DEF PackTypeOK, OthersUntouched
<1>5. SendIsAnswered(c)'
    BY <1>0, <1>2, <1>4 DEF SendIsAnswered
<1>6. BuiltIsWhole(c)' /\ AnswerIsWhole(c)' /\ HeldIsLost(c)'
    BY <1>0 DEF ClientInv, BuiltIsWhole, AnswerIsWhole, HeldIsLost, Lost
<1> QED BY <1>4, <1>5, <1>6 DEF ClientInv

(* What holds of a client that is not touched still holds. *)
LEMMA UntouchedKeeps ==
    ASSUME NEW d \in Clients, ClientInv(d),
           /\ pc'[d] = pc[d] /\ request'[d] = request[d] /\ built'[d] = built[d]
           /\ held'[d] = held[d] /\ builds'[d] = builds[d] /\ reply'[d] = reply[d]
           /\ packed'[d] = packed[d] /\ sendReply'[d] = sendReply[d]
    PROVE  ClientInv(d)'
BY DEF ClientInv, BuiltIsWhole, AnswerIsWhole, HeldIsLost, Lost, SendIsAnswered

(* Every step of every client keeps the invariant. *)
LEMMA PackNextInv == PackInv /\ [Next]_vars => PackInv'
<1> SUFFICES ASSUME PackInv, [Next]_vars PROVE PackInv'
    OBVIOUS
<1>1. ASSUME NEW c \in Clients, Step(c) PROVE PackInv'
    <2>1. PackTypeOK' /\ OthersUntouched(c) /\ ClientInv(c)'
        BY <1>1, ReceiveKeeps, ReadParametersKeeps, BuildKeeps, ResultKeeps, SendKeeps
        DEF Step
    <2>2. \A d \in Clients \ {c} : ClientInv(d)'
        BY <2>1, UntouchedKeeps DEF OthersUntouched, PackInv
    <2> QED BY <2>1, <2>2 DEF PackInv
<1>2. ASSUME UNCHANGED vars PROVE PackInv'
    BY <1>2, UntouchedKeeps DEF vars, PackInv, PackTypeOK
<1> QED BY <1>1, <1>2 DEF Next, Step

(* The invariant holds in every reachable state. *)
LEMMA PackInvAlways == Spec => []PackInv
<1>1. Init => PackInv
    <2> SUFFICES ASSUME Init PROVE PackInv
        OBVIOUS
    <2>1. PackTypeOK
        BY RequestFacts, EmptySeq DEF Init, PackTypeOK, Replies
    <2>2. \A c \in Clients : ClientInv(c)
        BY DEF Init, ClientInv, BuiltIsWhole, AnswerIsWhole, HeldIsLost, Lost, SendIsAnswered
    <2> QED BY <2>1, <2>2 DEF PackInv
<1> QED BY <1>1, PackNextInv, PTL DEF Spec

-----------------------------------------------------------------------------
(* The handlers' state keeps its types; in particular no buffer is given   *)
(* back twice (held is never negative).                                    *)
THEOREM PackTypeCorrect == Spec => []PackTypeOK
<1>1. PackInv => PackTypeOK
    BY DEF PackInv
<1> QED BY <1>1, PackInvAlways, PTL

(* An answer of /packTransaction is all or nothing, for any request and    *)
(* whichever of its halves is invalid.                                     *)
THEOREM AnswersAreWhole == Spec => []PackIsWhole
<1>1. PackInv => PackIsWhole
    <2> SUFFICES ASSUME PackInv, NEW c \in Clients, pc[c] = "idle"
                 PROVE  LET list == packed[c]
                            q    == request[c]
                        IN
                        /\ reply[c] # "success" => list = << >>
                        /\ reply[c] = "success" =>
                              /\ IsSingle(list) \/ IsPair(list, q.from, q.to)
                              /\ NamesTwo(q) /\ q.from # q.to => Len(list) = 2
                              /\ ~NamesTwo(q) => Len(list) = 1
                              /\ \A i \in 1 .. Len(list) : list[i].body.valid
        BY DEF PackIsWhole
    <2>1. AnswerIsWhole(c) /\ request[c] \in PackRequests
        BY DEF PackInv, ClientInv, PackTypeOK
    <2>2. CASE reply[c] = "success"
        <3>1. /\ packed[c] = Vector(request[c])
              /\ \A i \in 1 .. Len(packed[c]) : packed[c][i].body.valid
            BY <2>1, <2>2 DEF AnswerIsWhole
        <3>2. /\ NamesTwo(request[c]) =>
                    IsPair(packed[c], request[c].from, request[c].to)
              /\ ~NamesTwo(request[c]) => IsSingle(packed[c])
            BY <2>1, <3>1, VectorShape
        <3> QED BY <2>2, <3>1, <3>2 DEF IsPair, IsSingle
    <2>3. CASE reply[c] # "success"
        BY <2>1, <2>3 DEF AnswerIsWhole
    <2> QED BY <2>2, <2>3
<1> QED BY <1>1, PackInvAlways, PTL

(* Whatever /packTransaction handed out last is accepted by                *)
(* /sendTransactionIota when it is signed and sent as documented, and a    *)
(* malformed alias, which requests may contain, is the only thing that can *)
(* stop it.                                                                *)
THEOREM PackedIsSendable == Spec => []PackedCanBeSent
<1>1. PackInv => PackedCanBeSent
    <2> SUFFICES ASSUME PackInv, NEW c \in Clients, sendReply[c] # << >>,
                        NEW i \in 1 .. Len(packed[c]),
                        AsDocumented(sendReply[c][1], packed[c][i])
                 PROVE  sendReply[c][2] =
                            IF packed[c][i].groupAlias = BadAlias THEN "error" ELSE "success"
        BY DEF PackedCanBeSent
    <2>1. packed[c][i] \in PackedTransactions
        BY ElementOfSeq DEF PackInv, PackTypeOK
    <2>2. packed[c][i].body.valid
        <3>1. CASE packed[c] = << >>
            <4>1. Len(packed[c]) = 0
                BY <3>1
            <4> QED BY <4>1
        <3>2. CASE packed[c] # << >>
            BY <3>2 DEF PackInv, ClientInv, AnswerIsWhole
        <3> QED BY <3>1, <3>2
    <2>3. SendAnswers(sendReply[c][1]) =
              {IF packed[c][i].groupAlias = BadAlias THEN "error" ELSE "success"}
        BY <2>1, <2>2, DocumentedSendAnswer
    <2> QED BY <2>3 DEF PackInv, ClientInv, SendIsAnswered
<1> QED BY <1>1, PackInvAlways, PTL

(* The server loses memory for exactly the transfers whose building threw  *)
(* and the creations and registrations that were built, whatever else a    *)
(* client asks for and in whatever order.                                  *)
THEOREM BuffersAreAccounted == Spec => []BuffersLostOnlySo
<1>1. PackInv => BuffersLostOnlySo
    BY DEF PackInv, ClientInv, HeldIsLost, Lost, BuffersLostOnlySo
<1> QED BY <1>1, PackInvAlways, PTL
=============================================================================
