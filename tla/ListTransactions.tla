--------------------------- MODULE ListTransactions ---------------------------
(***************************************************************************)
(* /listTransactions (JsonListTransactions::handle) with the encryption of *)
(* memos it has to undo (JsonTransaction::encryptMemo and decryptMemo):    *)
(* the node answers with the user's transactions, which name the other     *)
(* party by its public key and carry the memo as it was sent; the handler  *)
(* looks all the names up in one query and decrypts what looks encrypted.  *)
(* Meanwhile users log in for the first time and send transactions.        *)
(*                                                                         *)
(* A person stands for its key pair and its name.  A box that one person   *)
(* encrypts for another opens with either private key and the other's      *)
(* public key (external: AuthenticatedEncryption).  The node answers with  *)
(* the page it is asked for, in any order (external).                      *)
(***************************************************************************)
EXTENDS Integers, Sequences, FiniteSets, Functions

CONSTANTS
    People,
    Listers,      \* those of them who ask for their lists
    Texts,        \* the memos people write
    NoText,       \* the empty memo
    LookAlikes,   \* the texts that match g_base64RegExp
    Decodable,    \* the texts that base64ToBin decodes
    NoOne,        \* the empty public key or name
    Academy,      \* the first name the node puts into a creation
    Params,       \* what a client may ask for, see IsParams
    MaxLength     \* bound: transactions on the chain

ASSUME TextAssumption ==
    NoText \in LookAlikes /\ LookAlikes \subseteq Texts /\ Decodable \subseteq Texts
ASSUME PeopleAssumption ==
    Listers \subseteq People /\ NoOne \notin People /\ Academy \notin People \cup {NoOne}
ASSUME LengthAssumption == MaxLength \in Nat

(* The parameters of a request. *)
IsParams(q) ==
    q \in [currentPage : Nat \ {0}, pageSize : Nat \ {0},
           orderDESC : BOOLEAN, onlyCreations : BOOLEAN]
ASSUME ParamsAssumption == Params # {} /\ \A q \in Params : IsParams(q)

VARIABLES
    rows,      \* table user: the people with a row
    chain,     \* the confirmed transactions
    lpc,       \* where each person's handler is
    query,     \* jsonRpcParams: what the node is asked
    entries,   \* transactionList.transactions, as far as it is changed yet
    names,     \* mHexPubkeyUserNames: the people whose names were found
    reply,     \* how the last request was answered
    asked      \* history: the request, and rows and chain when it came

vars == <<rows, chain, lpc, query, entries, names, reply, asked>>

Memo == [text : Texts, box : SUBSET People]   \* box = {}: not encrypted
Transaction == [kind : {"transfer", "creation"}, from : People, to : People, memo : Memo]
Entry ==
    [id : 0 .. MaxLength, typeId : {"SEND", "RECEIVE", "CREATE", "DECAY", "none"},
     pubkey : People \cup {NoOne}, firstName : People \cup {NoOne, Academy}, memo : Memo]

(* The loop over the members of the request copies each one, then the      *)
(* session's public key is added (its group alias too: there is one here). *)
jsonRpcParamsMutant_FirstPage(p, params) ==
    [m \in DOMAIN params \cup {"pubkey"} |->
        CASE m = "pubkey" -> p [] m = "currentPage" -> 1 [] OTHER -> params[m]]
jsonRpcParams(p, params) ==
    [m \in DOMAIN params \cup {"pubkey"} |-> IF m = "pubkey" THEN p ELSE params[m]]

Queries == {jsonRpcParams(p, q) : p \in Listers, q \in Params}

ListTypeOK ==
    /\ rows \subseteq People
    /\ chain \in Seq(Transaction) /\ Len(chain) <= MaxLength
    /\ lpc \in [Listers -> {"idle", "asking", "found", "names"}]
    /\ query \in [Listers -> Queries]
    /\ entries \in [Listers -> Seq(Entry)]
    /\ names \in [Listers -> SUBSET People]
    /\ reply \in [Listers -> {"none", "success", "error", "exception", "undecodable"}]
    /\ asked \in [Listers -> [params : Params, rows : SUBSET People, length : 0 .. MaxLength]]

AnyParams == CHOOSE q \in Params : TRUE

Init ==
    /\ rows = {} /\ chain = << >>
    /\ lpc = [p \in Listers |-> "idle"]
    /\ query = [p \in Listers |-> jsonRpcParams(p, AnyParams)]
    /\ entries = [p \in Listers |-> << >>]
    /\ names = [p \in Listers |-> {}]
    /\ reply = [p \in Listers |-> "none"]
    /\ asked = [p \in Listers |-> [params |-> AnyParams, rows |-> {}, length |-> 0]]

-----------------------------------------------------------------------------
Plain(text) == [text |-> text, box |-> {}]

(* encryptMemo with the sender's private and the recipient's public key. *)
encryptMemoMutant_ForItself(text, p, q) == [text |-> text, box |-> {p}]
encryptMemo(text, p, q) == [text |-> text, box |-> {p, q}]

(* decryptMemo with somebody's public and the own private key; the empty   *)
(* string if it fails.                                                     *)
decryptMemo(memo, q, p) == IF memo.box = {p, q} THEN memo.text ELSE NoText

(* The first login of a person. *)
Register(p) ==
    /\ p \notin rows
    /\ rows' = rows \cup {p}
    /\ UNCHANGED <<chain, lpc, query, entries, names, reply, asked>>

Confirm(kind, p, q, memo) ==
    /\ p # q /\ Len(chain) < MaxLength
    /\ chain' = Append(chain, [kind |-> kind, from |-> p, to |-> q, memo |-> memo])
    /\ UNCHANGED <<rows, lpc, query, entries, names, reply, asked>>

(* A transfer or creation of this connector, between two people it has     *)
(* rows for, and one that was made elsewhere.                              *)
SendHere(kind, p, q, text) ==
    /\ {p, q} \subseteq rows
    /\ Confirm(kind, p, q, encryptMemo(text, p, q))
SendElsewhere(kind, p, q, text) ==
    Confirm(kind, p, q, Plain(text))

-----------------------------------------------------------------------------
(* A request comes.  getSession finds the session of the token, or throws. *)
List(p, params) ==
    /\ lpc[p] = "idle" /\ p \in rows
    /\ \/ /\ lpc' = [lpc EXCEPT ![p] = "asking"]
          /\ query' = [query EXCEPT ![p] = jsonRpcParams(p, params)]
          /\ asked' = [asked EXCEPT ![p] =
                          [params |-> params, rows |-> rows, length |-> Len(chain)]]
          /\ reply' = [reply EXCEPT ![p] = "none"]
       \/ /\ reply' = [reply EXCEPT ![p] = "exception"]
          /\ UNCHANGED <<lpc, query, asked>>
    /\ entries' = [entries EXCEPT ![p] = << >>]
    /\ UNCHANGED <<rows, chain, names>>

(* What the node puts on a page: of the first n transactions of the chain, *)
(* those that show in the person's list and are of the kind asked for,     *)
(* counted from the oldest or from the newest.                             *)
Shows(p, t) == t.to = p \/ (t.from = p /\ t.kind = "transfer")
MatchingIds(p, params, n) ==
    {i \in 1 .. n : /\ Shows(p, chain[i])
                    /\ params.onlyCreations => chain[i].kind = "creation"}
Rank(i, ids, desc) == Cardinality({j \in ids : IF desc THEN j >= i ELSE j <= i})
PageIds(p, params, n) ==
    LET ids == MatchingIds(p, params, n) IN
    {i \in ids : /\ Rank(i, ids, params.orderDESC) > (params.currentPage - 1) * params.pageSize
                 /\ Rank(i, ids, params.orderDESC) <= params.currentPage * params.pageSize}

(* The node's answer: the page, and the decay since the last transaction,  *)
(* which may be missing and whose typeId may be missing.                   *)
TypeIdFor(p, t) ==
    IF t.kind = "creation" THEN "CREATE" ELSE IF t.from = p THEN "SEND" ELSE "RECEIVE"
EntryFor(p, i) ==
    LET t == chain[i] IN
    [id |-> i, typeId |-> TypeIdFor(p, t), memo |-> t.memo,
     pubkey |-> IF t.from = p THEN t.to ELSE t.from,
     firstName |-> IF t.kind = "creation" THEN Academy ELSE NoOne]
DecayEntry(typeId) ==
    [id |-> 0, typeId |-> typeId, memo |-> Plain(NoText), pubkey |-> NoOne, firstName |-> NoOne]
Decays == {<< >>, <<DecayEntry("DECAY")>>, <<DecayEntry("none")>>}
Listings(ids, p) ==
    {[k \in DOMAIN order |-> EntryFor(p, order[k])] :
        order \in Bijection(1 .. Cardinality(ids), ids)}

Finish(p, r) ==
    /\ lpc' = [lpc EXCEPT ![p] = "idle"]
    /\ reply' = [reply EXCEPT ![p] = r]
    /\ names' = [names EXCEPT ![p] = {}]

NodeAnswers(p) ==
    /\ lpc[p] = "asking"
    /\ LET who == query[p].pubkey IN
       \E list \in Listings(PageIds(who, query[p], Len(chain)), who), decay \in Decays :
          entries' = [entries EXCEPT ![p] = list \o decay]
    /\ lpc' = [lpc EXCEPT ![p] = "found"]
    /\ UNCHANGED <<rows, chain, query, names, reply, asked>>
NodeFails(p) ==
    /\ lpc[p] = "asking"
    /\ Finish(p, "error")
    /\ UNCHANGED <<rows, chain, query, entries, asked>>

(* The public keys in the answer, each once, without the empty one; if     *)
(* there is none the answer goes out as it is.                             *)
Pubkeys(list) == {list[i].pubkey : i \in 1 .. Len(list)} \ {NoOne}

(* loadUserNamesForPubkeys: one query for all of them. *)
loadUserNamesForPubkeysMutant_AllOrNone(keys) ==
    IF keys \subseteq rows THEN keys ELSE {}
loadUserNamesForPubkeys(keys) == keys \cap rows
LoadNames(p) ==
    /\ lpc[p] = "found"
    /\ IF Pubkeys(entries[p]) = {}
       THEN Finish(p, "success") /\ UNCHANGED entries
       ELSE \/ /\ lpc' = [lpc EXCEPT ![p] = "names"]
               /\ names' = [names EXCEPT ![p] = loadUserNamesForPubkeys(Pubkeys(entries[p]))]
               /\ UNCHANGED <<entries, reply>>
            \/ Finish(p, "exception") /\ entries' = [entries EXCEPT ![p] = << >>]
    /\ UNCHANGED <<rows, chain, query, asked>>

(* The loop over the entries.  The memo of an entry with a typeId is       *)
(* decrypted if it looks encrypted and hexToBin gives a key, that is, if   *)
(* the key is not empty; an empty result leaves the memo as it was.  A     *)
(* text that looks like base64 and is none makes base64ToBin throw (line   *)
(* 280 of decryptMemo), which ends the whole request.                      *)
LooksEncryptedMutant_Always(memo) == TRUE
LooksEncrypted(memo) == memo.box # {} \/ memo.text \in LookAlikes
Decrypts(e) == e.typeId # "none" /\ LooksEncrypted(e.memo) /\ e.pubkey # NoOne
base64ToBinThrows(memo) == memo.box = {} /\ memo.text \notin Decodable
ShownName(e, found) ==
    IF e.pubkey \in found /\ e.typeId # "CREATE" THEN e.pubkey ELSE e.firstName
ShownMemo(e, p) ==
    IF Decrypts(e) /\ decryptMemo(e.memo, e.pubkey, p) # NoText
    THEN Plain(decryptMemo(e.memo, e.pubkey, p)) ELSE e.memo
FilledMutant_MemoRemoved(e, p) ==
    [id |-> e.id, typeId |-> e.typeId, pubkey |-> NoOne,
     firstName |-> ShownName(e, names[p])]
Filled(e, p) ==
    [e EXCEPT !.pubkey = NoOne, !.firstName = ShownName(e, names[p]), !.memo = ShownMemo(e, p)]
FillThrows(p) ==
    \E i \in 1 .. Len(entries[p]) :
        Decrypts(entries[p][i]) /\ base64ToBinThrows(entries[p][i].memo)
Fill(p) ==
    /\ lpc[p] = "names"
    /\ \/ /\ FillThrows(p)
          /\ Finish(p, "undecodable") /\ entries' = [entries EXCEPT ![p] = << >>]
       \/ /\ ~FillThrows(p)
          /\ entries' = [entries EXCEPT ![p] =
                            [i \in 1 .. Len(entries[p]) |-> Filled(entries[p][i], p)]]
          /\ Finish(p, "success")
    /\ UNCHANGED <<rows, chain, query, asked>>

Next ==
    \/ \E p, q \in People, text \in Texts, kind \in {"transfer", "creation"} :
          SendHere(kind, p, q, text) \/ SendElsewhere(kind, p, q, text)
    \/ \E p \in People : Register(p)
    \/ \E p \in Listers :
          (\E params \in Params : List(p, params)) \/ NodeAnswers(p) \/ NodeFails(p) \/ LoadNames(p) \/ Fill(p)

Spec == Init /\ [][Next]_vars

-----------------------------------------------------------------------------
Shown(p) == {entries[p][i] : i \in 1 .. Len(entries[p])}
Other(p, t) == IF t.from = p THEN t.to ELSE t.from

(* The pages the client may have meant: of the chain as it was at some     *)
(* moment since its request came.                                          *)
PagesAsked(p) ==
    {PageIds(p, asked[p].params, n) : n \in asked[p].length .. Len(chain)}

(* A list has exactly the transactions of the page that was asked for, as  *)
(* it was at one moment since the request came: the page, the page size,   *)
(* the order and the choice of creations reach the node (handle lines      *)
(* 30-38), and no entry is lost, added or merged on its way through the    *)
(* handler, although people register and transactions are confirmed        *)
(* meanwhile.                                                              *)
AskedPageIsShown ==
    \A p \in Listers : reply[p] = "success" =>
        {e.id : e \in Shown(p)} \ {0} \in PagesAsked(p)

(* Each transaction in a list has the memo its sender wrote, whichever of  *)
(* the two parties asks and whether the memo was encrypted here or sent    *)
(* plainly, even if a plain memo looks encrypted; only the empty memo is   *)
(* left out of this (handle lines 81-97, encryptMemo, decryptMemo).        *)
MemosReadable ==
    \A p \in Listers : reply[p] = "success" =>
        \A e \in Shown(p) : e.id # 0 /\ chain[e.id].memo.text # NoText =>
            e.memo = Plain(chain[e.id].memo.text)

(* When the decoding of a memo ends a request, then because the page that  *)
(* was asked for has a transaction made elsewhere whose plain memo matches *)
(* g_base64RegExp and still is no base64 (handle lines 86-89, decryptMemo  *)
(* line 280).  No memo that this connector has encrypted and no ordinary   *)
(* text takes the rest of a list with it.                                  *)
OnlyOddMemosEndTheList ==
    \A p \in Listers : reply[p] = "undecodable" =>
        \E ids \in PagesAsked(p) : \E i \in ids :
            /\ chain[i].memo.box = {}
            /\ chain[i].memo.text \in LookAlikes \ Decodable

(* No public key is left in the list.  A party of a transfer who had a row *)
(* when the request came is named, and nobody is named wrongly: a transfer *)
(* shows the other party or nobody, a creation its signer or the name the  *)
(* node has put there (handle lines 49-80, loadUserNamesForPubkeys),       *)
(* although people register and transactions are confirmed between the     *)
(* node's answer and the query.                                            *)
NamesShown ==
    \A p \in Listers : reply[p] = "success" =>
        \A e \in Shown(p) :
            /\ e.pubkey = NoOne
            /\ e.id # 0 =>
                  LET t == chain[e.id] IN
                  IF t.kind = "creation" THEN e.firstName \in {Academy, Other(p, t)}
                  ELSE /\ e.firstName \in {NoOne, Other(p, t)}
                       /\ Other(p, t) \in asked[p].rows => e.firstName = Other(p, t)

-----------------------------------------------------------------------------
(* API.md:457, list of transactions: "decrypt memos".  What this connector *)
(* has encrypted is not shown as it is stored.                             *)
EveryMemoDecrypted ==
    \A p \in Listers : reply[p] = "success" =>
        \A e \in Shown(p) : e.memo.box = {}
=============================================================================
