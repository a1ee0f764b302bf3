----------------------- MODULE ListTransactionsProofs -----------------------
(***************************************************************************)
(* Proofs about ListTransactions for any people, memos, requests and chain *)
(* length.                                                                 *)
(*                                                                         *)
(* The invariant follows one list from the node's answer to the client:    *)
(* the entries as the node sent them are one page of the chain, the names  *)
(* found are tied to the rows there were when the node was asked, and the  *)
(* chain and the rows only grow, whatever happens in between.              *)
(***************************************************************************)
EXTENDS ListTransactions, SequenceTheorems, FiniteSetTheorems, TLAPS

(* A memo is plain, or encrypted for the two parties of its transaction. *)
ChainIsSound ==
    \A i \in 1 .. Len(chain) :
        LET t == chain[i] IN t.from # t.to /\ t.memo.box \in {{}, {t.from, t.to}}

(* What was noted when the node was asked lies in the past. *)
AskedIsPast(p) == asked[p].rows \subseteq rows /\ asked[p].length <= Len(chain)

(* The list has the transactions of a page the client may have meant. *)
ListIsPage(p) == {e.id : e \in Shown(p)} \ {0} \in PagesAsked(p)

(* Such a page has a plain memo that base64ToBin refuses. *)
IsOdd(memo) == memo.box = {} /\ memo.text \in LookAlikes \ Decodable
PageIsOdd(p) == \E ids \in PagesAsked(p) : \E i \in ids : IsOdd(chain[i].memo)

(* The transactions of a person. *)
ShownIds(p) == {i \in 1 .. Len(chain) : Shows(p, chain[i])}

(* An entry as the node has sent it. *)
IsRaw(p, e) ==
    \/ e.id = 0 /\ e.pubkey = NoOne
    \/ e.id \in ShownIds(p) /\ e = EntryFor(p, e.id)

(* An entry as the client may see it. *)
IsReadable(p, e) ==
    /\ e.pubkey = NoOne
    /\ e.id # 0 =>
          LET t == chain[e.id] IN
          /\ e.id \in ShownIds(p)
          /\ t.memo.text # NoText => e.memo = Plain(t.memo.text)
          /\ IF t.kind = "creation" THEN e.firstName \in {Academy, Other(p, t)}
             ELSE /\ e.firstName \in {NoOne, Other(p, t)}
                  /\ Other(p, t) \in asked[p].rows => e.firstName = Other(p, t)

(* The list at each step of the handler. *)
ListerInv(p) ==
    /\ AskedIsPast(p)
    /\ lpc[p] # "idle" => reply[p] = "none"
    /\ lpc[p] = "asking" => query[p] = jsonRpcParams(p, asked[p].params)
    /\ lpc[p] \in {"found", "names"} =>
          ListIsPage(p) /\ \A e \in Shown(p) : IsRaw(p, e)
    /\ lpc[p] = "names" =>
          /\ names[p] \subseteq Pubkeys(entries[p])
          /\ Pubkeys(entries[p]) \cap asked[p].rows \subseteq names[p]
    /\ reply[p] = "success" =>
          ListIsPage(p) /\ \A e \in Shown(p) : IsReadable(p, e)
    /\ reply[p] = "undecodable" => PageIsOdd(p)

(* The inductive invariant. *)
ListInv == ListTypeOK /\ ChainIsSound /\ \A p \in Listers : ListerInv(p)

-----------------------------------------------------------------------------
(* The history of a request has its types. *)
LEMMA AskedFacts ==
    ASSUME ListTypeOK, NEW p \in Listers
    PROVE  /\ asked[p].params \in Params /\ asked[p].rows \subseteq People
           /\ asked[p].length \in Nat
<1>1. asked[p] \in [params : Params, rows : SUBSET People, length : 0 .. MaxLength]
    BY DEF ListTypeOK
<1> QED BY <1>1

LEMMA QueryType ==
    ASSUME NEW p \in Listers, NEW params \in Params
    PROVE  jsonRpcParams(p, params) \in Queries
BY DEF Queries

(* The node is asked for the page the client asks for, of the client's     *)
(* own transactions.                                                       *)
LEMMA QueryPage ==
    ASSUME NEW p, NEW params \in Params, NEW n
    PROVE  /\ jsonRpcParams(p, params).pubkey = p
           /\ PageIds(p, jsonRpcParams(p, params), n) = PageIds(p, params, n)
<1> DEFINE q == jsonRpcParams(p, params)
<1>1. params \in [currentPage : Nat \ {0}, pageSize : Nat \ {0},
                  orderDESC : BOOLEAN, onlyCreations : BOOLEAN]
    BY ParamsAssumption DEF IsParams
<1>2. DOMAIN params = {"currentPage", "pageSize", "orderDESC", "onlyCreations"}
    BY <1>1
<1>3. /\ q.currentPage = params.currentPage /\ q.pageSize = params.pageSize
      /\ q.orderDESC = params.orderDESC /\ q.onlyCreations = params.onlyCreations
      /\ q.pubkey = p
    BY <1>2 DEF jsonRpcParams
<1> HIDE DEF q
<1>4. MatchingIds(p, q, n) = MatchingIds(p, params, n)
    BY <1>3 DEF MatchingIds
<1>5. PageIds(p, q, n) = PageIds(p, params, n)
    BY <1>3, <1>4 DEF PageIds
<1> QED BY <1>3, <1>5 DEF q

(* A page of the chain has transactions of the person only. *)
LEMMA PageIsShown ==
    ASSUME ListTypeOK, NEW p \in Listers, NEW params, NEW n \in Nat, n <= Len(chain)
    PROVE  PageIds(p, params, n) \subseteq ShownIds(p)
BY DEF PageIds, MatchingIds, ShownIds, ListTypeOK

(* A transaction of the chain that shows in a list has an entry of the     *)
(* right type, with the other party's key in it.                           *)
LEMMA EntryForFacts ==
    ASSUME ListTypeOK, ChainIsSound, NEW p \in Listers, NEW i \in ShownIds(p)
    PROVE  /\ chain[i] \in Transaction
           /\ i \in 1 .. Len(chain) /\ i # 0 /\ Shows(p, chain[i])
           /\ Other(p, chain[i]) \in People /\ Other(p, chain[i]) # NoOne
           /\ EntryFor(p, i) \in Entry
           /\ EntryFor(p, i).id = i
           /\ EntryFor(p, i).pubkey = Other(p, chain[i])
           /\ EntryFor(p, i).memo = chain[i].memo
           /\ EntryFor(p, i).typeId # "none"
           /\ chain[i].memo.box \in {{}, {p, Other(p, chain[i])}}
<1> DEFINE t == chain[i]
<1>1. i \in 1 .. Len(chain) /\ Len(chain) \in Nat /\ Len(chain) <= MaxLength /\ Shows(p, t)
    BY DEF ListTypeOK, ShownIds
<1>2. t \in Transaction
    BY <1>1, ElementOfSeq DEF ListTypeOK
<1>3. i # 0 /\ i \in 0 .. MaxLength
    BY <1>1, LengthAssumption
<1>4. t.from \in People /\ t.to \in People /\ t.memo \in Memo /\ t.from # t.to
    BY <1>1, <1>2 DEF Transaction, ChainIsSound
<1>5. p \in {t.from, t.to}
    BY <1>1 DEF Shows
<1>6. Other(p, t) \in People /\ Other(p, t) # NoOne
    BY <1>4, PeopleAssumption DEF Other
<1>7. t.memo.box \in {{}, {p, Other(p, t)}}
    BY <1>1, <1>4, <1>5 DEF ChainIsSound, Other
<1>8. TypeIdFor(p, t) \in {"SEND", "RECEIVE", "CREATE"}
    BY DEF TypeIdFor
<1>9. EntryFor(p, i) = [id |-> i, typeId |-> TypeIdFor(p, t), memo |-> t.memo,
                        pubkey |-> Other(p, t),
                        firstName |-> IF t.kind = "creation" THEN Academy ELSE NoOne]
    BY DEF EntryFor, Other
<1> QED BY <1>1, <1>2, <1>3, <1>4, <1>6, <1>7, <1>8, <1>9 DEF Entry

(* The loop of the handler turns an entry of the node into one that the    *)
(* client may see: the key is gone, the name is the right one, and the     *)
(* memo is the one its sender wrote.                                       *)
LEMMA FilledIsReadable ==
    ASSUME ListTypeOK, ChainIsSound, NEW p \in Listers, NEW e \in Entry, IsRaw(p, e),
           names[p] \subseteq People,
           e.pubkey \in asked[p].rows => e.pubkey \in names[p]
    PROVE  /\ Filled(e, p) \in Entry /\ Filled(e, p).id = e.id
           /\ IsReadable(p, Filled(e, p))
<1> DEFINE f == Filled(e, p)
<1>1. /\ f.id = e.id /\ f.typeId = e.typeId /\ f.pubkey = NoOne
      /\ f.firstName = ShownName(e, names[p]) /\ f.memo = ShownMemo(e, p)
      /\ f = [id |-> e.id, typeId |-> e.typeId, pubkey |-> NoOne,
              firstName |-> ShownName(e, names[p]), memo |-> ShownMemo(e, p)]
    <2>1. f = [e EXCEPT !.pubkey = NoOne, !.firstName = ShownName(e, names[p]),
                        !.memo = ShownMemo(e, p)]
        BY DEF Filled
    <2>2. f = [id |-> e.id, typeId |-> e.typeId, pubkey |-> NoOne,
               firstName |-> ShownName(e, names[p]), memo |-> ShownMemo(e, p)]
        BY <2>1 DEF Entry
    <2> HIDE DEF f
    <2> QED BY <2>2
<1>2. e.memo \in Memo /\ e.memo.text \in Texts /\ e.memo.box \in SUBSET People
      /\ e.memo = [text |-> e.memo.text, box |-> e.memo.box]
    BY DEF Entry, Memo
<1>3. ShownMemo(e, p) \in Memo
    <2>1. decryptMemo(e.memo, e.pubkey, p) \in Texts
        BY <1>2, TextAssumption DEF decryptMemo
    <2> QED BY <1>2, <2>1 DEF ShownMemo, Plain, Memo
<1>4. ShownName(e, names[p]) \in People \cup {NoOne, Academy}
    BY DEF ShownName, Entry
<1>5. f \in Entry
    BY <1>1, <1>3, <1>4 DEF Entry
<1> HIDE DEF f
<1>6. CASE e.id = 0
    BY <1>1, <1>5, <1>6 DEF IsReadable, f
<1>7. CASE e.id # 0
    <2> DEFINE i == e.id
               t == chain[i]
               q == Other(p, t)
    <2>1. i \in ShownIds(p) /\ e = EntryFor(p, i)
        BY <1>7 DEF IsRaw
    <2>2. /\ e.pubkey = q /\ e.memo = t.memo /\ e.typeId # "none"
          /\ t.memo.box \in {{}, {p, q}} /\ q \in People /\ q # NoOne
        BY <2>1, EntryForFacts
    <2>3. t.memo.text # NoText => ShownMemo(e, p) = Plain(t.memo.text)
        <3> HAVE t.memo.text # NoText
        <3>1. CASE t.memo.box = {}
            <4>1. decryptMemo(e.memo, e.pubkey, p) = NoText
                BY <2>2, <3>1 DEF decryptMemo
            <4> QED BY <1>2, <2>2, <3>1, <4>1 DEF ShownMemo, Plain
        <3>2. CASE t.memo.box = {p, q}
            <4>1. decryptMemo(e.memo, e.pubkey, p) = t.memo.text
                BY <2>2, <3>2 DEF decryptMemo
            <4>2. Decrypts(e)
                BY <2>2, <3>2 DEF Decrypts, LooksEncrypted
            <4> QED BY <2>2, <4>1, <4>2 DEF ShownMemo
        <3> QED BY <2>2, <3>1, <3>2
    <2>4. CASE t.kind = "creation"
        <3>1. e.typeId = "CREATE" /\ e.firstName = Academy
            BY <2>1, <2>4 DEF EntryFor, TypeIdFor
        <3>2. ShownName(e, names[p]) = Academy
            BY <3>1 DEF ShownName
        <3> QED BY <1>1, <1>5, <2>1, <2>3, <2>4, <3>2 DEF IsReadable, f
    <2>5. CASE t.kind # "creation"
        <3>1. e.typeId # "CREATE" /\ e.firstName = NoOne
            BY <2>1, <2>5 DEF EntryFor, TypeIdFor
        <3>2. ShownName(e, names[p]) \in {NoOne, q}
            BY <3>1, <2>2 DEF ShownName
        <3>3. q \in asked[p].rows => ShownName(e, names[p]) = q
            BY <3>1, <2>2 DEF ShownName
        <3> QED BY <1>1, <1>5, <2>1, <2>3, <2>5, <3>2, <3>3 DEF IsReadable, f
    <2> QED BY <2>4, <2>5
<1> QED BY <1>6, <1>7

(* The other parties the loop knows: the entries that name nobody are the  *)
(* ones without a transaction.                                             *)
LEMMA NoKeysNoTransactions ==
    ASSUME ListTypeOK, ChainIsSound, NEW p \in Listers, NEW e \in Shown(p), IsRaw(p, e),
           Pubkeys(entries[p]) = {}
    PROVE  IsReadable(p, e)
<1>1. e.pubkey = NoOne
    BY DEF Shown, Pubkeys
<1>2. e.id = 0
    BY <1>1, EntryForFacts DEF IsRaw
<1> QED BY <1>1, <1>2 DEF IsReadable

-----------------------------------------------------------------------------
(* People register and transactions are confirmed: the rows and the chain  *)
(* grow, and no list changes.                                              *)
WorldGrows ==
    /\ rows \subseteq rows'
    /\ Len(chain) <= Len(chain')
    /\ \A i \in 1 .. Len(chain) : chain'[i] = chain[i]
    /\ UNCHANGED <<lpc, query, entries, names, reply, asked>>

(* The pages there were are still there. *)
LEMMA GrowthKeepsPages ==
    ASSUME ListInv, WorldGrows, NEW p \in Listers
    PROVE  PagesAsked(p) \subseteq PagesAsked(p)'
<1>1. /\ asked' = asked /\ asked[p].length \in Nat /\ asked[p].params \in Params
      /\ Len(chain) \in Nat /\ Len(chain') \in Nat /\ Len(chain) <= Len(chain')
    BY AskedFacts DEF ListInv, ListTypeOK, WorldGrows
<1>2. ASSUME NEW n \in asked[p].length .. Len(chain)
      PROVE  /\ n \in asked'[p].length .. Len(chain')
             /\ PageIds(p, asked[p].params, n)' = PageIds(p, asked[p].params, n)
    <2>1. \A i \in 1 .. n : chain'[i] = chain[i]
        BY <1>1 DEF WorldGrows
    <2>2. MatchingIds(p, asked[p].params, n)' = MatchingIds(p, asked[p].params, n)
        BY <1>1, <2>1 DEF MatchingIds
    <2>3. PageIds(p, asked[p].params, n)' = PageIds(p, asked[p].params, n)
        BY <1>1, <2>2 DEF PageIds
    <2> QED BY <1>1, <2>3
<1> QED BY <1>2 DEF PagesAsked

(* Then everything that was said of a list remains true. *)
LEMMA GrowthKeepsLists ==
    ASSUME ListInv, WorldGrows, NEW p \in Listers
    PROVE  ListerInv(p)'
<1>1. /\ Len(chain) \in Nat /\ asked[p].length \in Nat /\ asked[p].length <= Len(chain)
      /\ ListerInv(p) /\ Len(chain') \in Nat
    <2>2. asked[p].length \in Nat
        BY AskedFacts DEF ListInv
    <2> QED BY <2>2 DEF ListInv, ListTypeOK, ListerInv, AskedIsPast, WorldGrows
<1>2. ASSUME NEW i \in 1 .. Len(chain)
      PROVE  chain'[i] = chain[i] /\ EntryFor(p, i)' = EntryFor(p, i)
    BY DEF WorldGrows, EntryFor
<1>3. ASSUME NEW i \in ShownIds(p) PROVE i \in ShownIds(p)' /\ i \in 1 .. Len(chain)
    <2>1. i \in 1 .. Len(chain)
        BY DEF ShownIds
    <2> QED BY <1>1, <2>1 DEF ShownIds, WorldGrows
<1>4. AskedIsPast(p)'
    BY <1>1 DEF ListerInv, AskedIsPast, WorldGrows
<1>5. Shown(p)' = Shown(p) /\ asked' = asked
    BY DEF Shown, WorldGrows
<1>6. /\ ListIsPage(p) => ListIsPage(p)'
      /\ PageIsOdd(p) => PageIsOdd(p)'
    <2>1. PagesAsked(p) \subseteq PagesAsked(p)'
        BY GrowthKeepsPages
    <2>2. \A ids \in PagesAsked(p) : ids \subseteq 1 .. Len(chain)
        <3> SUFFICES ASSUME NEW n \in asked[p].length .. Len(chain),
                            NEW i \in PageIds(p, asked[p].params, n)
                     PROVE  i \in 1 .. Len(chain)
            BY DEF PagesAsked
        <3>1. i \in 1 .. n
            BY DEF PageIds, MatchingIds
        <3> QED BY <1>1, <3>1
    <2>3. ListIsPage(p) => ListIsPage(p)'
        BY <1>5, <2>1 DEF ListIsPage
    <2>4. PageIsOdd(p) => PageIsOdd(p)'
        <3> HAVE PageIsOdd(p)
        <3>1. PICK ids \in PagesAsked(p) : \E i \in ids : IsOdd(chain[i].memo)
            BY DEF PageIsOdd
        <3>2. PICK i \in ids : IsOdd(chain[i].memo)
            BY <3>1
        <3>3. chain'[i] = chain[i]
            BY <1>2, <2>2
        <3> QED BY <2>1, <3>2, <3>3 DEF PageIsOdd, IsOdd
    <2> QED BY <2>3, <2>4
<1>7. ASSUME NEW e, IsRaw(p, e) PROVE IsRaw(p, e)'
    <2>1. CASE e.id = 0
        BY <1>7, <2>1, EntryForFacts DEF IsRaw, ListInv
    <2>2. CASE e.id # 0
        <3>1. e.id \in ShownIds(p) /\ e = EntryFor(p, e.id)
            BY <1>7, <2>2 DEF IsRaw
        <3> DEFINE i == e.id
        <3>2. i \in ShownIds(p)' /\ i \in 1 .. Len(chain)
            BY <1>3, <3>1
        <3>3. EntryFor(p, i)' = EntryFor(p, i)
            BY <1>2, <3>2
        <3> QED BY <3>1, <3>2, <3>3 DEF IsRaw
    <2> QED BY <2>1, <2>2
<1>8. ASSUME NEW e, IsReadable(p, e) PROVE IsReadable(p, e)'
    <2>1. e.id # 0 => e.id \in ShownIds(p)
        BY <1>8 DEF IsReadable
    <2>2. e.id # 0 => e.id \in ShownIds(p)' /\ chain'[e.id] = chain[e.id]
        BY <1>2, <1>3, <2>1
    <2> QED BY <1>5, <1>8, <2>2 DEF IsReadable
<1>9. /\ lpc' = lpc /\ reply' = reply /\ names' = names /\ entries' = entries
      /\ query' = query /\ jsonRpcParams(p, asked[p].params)' = jsonRpcParams(p, asked[p].params)
    BY DEF WorldGrows, jsonRpcParams
<1> QED BY <1>1, <1>4, <1>5, <1>6, <1>7, <1>8, <1>9 DEF ListerInv

(* A person registers, or a transaction is confirmed. *)
LEMMA WorldKeepsInv ==
    ASSUME ListInv,
           \/ \E q \in People : Register(q)
           \/ \E p, q \in People, text \in Texts, kind \in {"transfer", "creation"} :
                 SendHere(kind, p, q, text) \/ SendElsewhere(kind, p, q, text)
    PROVE  ListInv'
<1>0. ListTypeOK /\ ChainIsSound /\ Len(chain) \in Nat
    BY DEF ListInv, ListTypeOK
<1>1. ASSUME NEW q \in People, Register(q) PROVE ListInv'
    <2>1. WorldGrows /\ ListTypeOK' /\ ChainIsSound'
        <3>1. rows' = rows \cup {q} /\ UNCHANGED <<chain, lpc, query, entries, names, reply, asked>>
            BY <1>1 DEF Register
        <3>2. WorldGrows
            BY <1>0, <3>1 DEF WorldGrows
        <3>3. ListTypeOK'
            BY <1>0, <3>1 DEF ListTypeOK
        <3> QED BY <1>0, <3>1, <3>2, <3>3 DEF ChainIsSound
    <2> QED BY <2>1, GrowthKeepsLists DEF ListInv
<1>2. ASSUME NEW p \in People, NEW q \in People, NEW kind \in {"transfer", "creation"},
             NEW memo \in Memo, memo.box \in {{}, {p, q}}, Confirm(kind, p, q, memo)
      PROVE  ListInv'
    <2> DEFINE t == [kind |-> kind, from |-> p, to |-> q, memo |-> memo]
    <2>1. t \in Transaction /\ p # q /\ chain' = Append(chain, t) /\ Len(chain) < MaxLength
        BY <1>2 DEF Transaction, Confirm
    <2>2. /\ chain' \in Seq(Transaction) /\ Len(chain') = Len(chain) + 1
          /\ \A i \in 1 .. Len(chain) : chain'[i] = chain[i]
          /\ chain'[Len(chain) + 1] = t
        BY <1>0, <2>1, AppendProperties DEF ListTypeOK
    <2>3. WorldGrows
        BY <1>0, <1>2, <2>2 DEF WorldGrows, Confirm
    <2>4. ListTypeOK'
        BY <1>0, <1>2, <2>1, <2>2, LengthAssumption DEF ListTypeOK, Confirm
    <2>5. ChainIsSound'
        <3> SUFFICES ASSUME NEW i \in 1 .. Len(chain')
                     PROVE  /\ chain'[i].from # chain'[i].to
                            /\ chain'[i].memo.box \in {{}, {chain'[i].from, chain'[i].to}}
            BY DEF ChainIsSound
        <3>1. CASE i \in 1 .. Len(chain)
            BY <1>0, <2>2, <3>1 DEF ChainIsSound
        <3>2. CASE i = Len(chain) + 1
            BY <1>2, <2>1, <2>2, <3>2
        <3> QED BY <1>0, <2>2, <3>1, <3>2
    <2> QED BY <2>3, <2>4, <2>5, GrowthKeepsLists DEF ListInv
<1>3. ASSUME NEW p \in People, NEW q \in People, NEW text \in Texts,
             NEW kind \in {"transfer", "creation"},
             SendHere(kind, p, q, text) \/ SendElsewhere(kind, p, q, text)
      PROVE  ListInv'
    <2>1. encryptMemo(text, p, q) \in Memo /\ encryptMemo(text, p, q).box = {p, q}
        BY DEF encryptMemo, Memo
    <2>2. Plain(text) \in Memo /\ Plain(text).box = {}
        BY DEF Plain, Memo
    <2> QED BY <1>2, <1>3, <2>1, <2>2 DEF SendHere, SendElsewhere
<1> QED BY <1>1, <1>3

-----------------------------------------------------------------------------
(* The handler of one person changes nothing of another's, and neither     *)
(* rows nor chain.                                                         *)
OwnStep(p) ==
    /\ rows' = rows /\ chain' = chain
    /\ \A q \in Listers \ {p} :
          /\ lpc'[q] = lpc[q] /\ entries'[q] = entries[q] /\ names'[q] = names[q]
          /\ reply'[q] = reply[q] /\ asked'[q] = asked[q] /\ query'[q] = query[q]

(* As long as neither the chain nor the request changes, the pages meant   *)
(* stay what they were.                                                    *)
LEMMA PagesStay ==
    ASSUME NEW p \in Listers, chain' = chain, asked'[p] = asked[p]
    PROVE  PagesAsked(p)' = PagesAsked(p) /\ (PageIsOdd(p) => PageIsOdd(p)')
<1>1. PagesAsked(p)' = PagesAsked(p)
    BY DEF PagesAsked, PageIds, MatchingIds
<1> QED BY <1>1 DEF PageIsOdd

(* So it is enough to look at the person's own list. *)
LEMMA OwnStepKeepsInv ==
    ASSUME ListInv, NEW p \in Listers, OwnStep(p), ListTypeOK', ListerInv(p)'
    PROVE  ListInv'
<1>1. ChainIsSound'
    BY DEF ListInv, ChainIsSound, OwnStep
<1>2. ASSUME NEW q \in Listers, q # p PROVE ListerInv(q)'
    <2>1. /\ lpc'[q] = lpc[q] /\ entries'[q] = entries[q] /\ names'[q] = names[q]
          /\ reply'[q] = reply[q] /\ asked'[q] = asked[q] /\ query'[q] = query[q]
          /\ rows' = rows /\ chain' = chain
        BY <1>2 DEF OwnStep
    <2>2. ListerInv(q)
        BY DEF ListInv
    <2>3. Shown(q)' = Shown(q) /\ Pubkeys(entries[q])' = Pubkeys(entries[q])
        BY <2>1 DEF Shown, Pubkeys
    <2>4. \A e : /\ IsRaw(q, e) => IsRaw(q, e)'
                 /\ IsReadable(q, e) => IsReadable(q, e)'
        BY <2>1 DEF IsRaw, IsReadable, ShownIds, EntryFor
    <2>5. /\ ListIsPage(q) => ListIsPage(q)'
          /\ PageIsOdd(q) => PageIsOdd(q)'
        BY <2>1, <2>3, PagesStay DEF ListIsPage
    <2>6. jsonRpcParams(q, asked[q].params)' = jsonRpcParams(q, asked[q].params)
        BY <2>1 DEF jsonRpcParams
    <2> QED BY <2>1, <2>2, <2>3, <2>4, <2>5, <2>6 DEF ListerInv, AskedIsPast
<1> QED BY <1>1, <1>2 DEF ListInv

(* The request goes out, or the session is not found. *)
LEMMA ListKeeps ==
    ASSUME ListInv, NEW p \in Listers, NEW params \in Params, List(p, params)
    PROVE  ListInv'
<1> DEFINE now == [params |-> params, rows |-> rows, length |-> Len(chain)]
           q   == jsonRpcParams(p, params)
<1>0. ListTypeOK /\ ListerInv(p) /\ Len(chain) \in 0 .. MaxLength /\ lpc[p] = "idle"
    BY LengthAssumption DEF ListInv, ListTypeOK, List
<1>1. /\ now \in [params : Params, rows : SUBSET People, length : 0 .. MaxLength]
      /\ now.params = params /\ now.rows = rows /\ now.length = Len(chain)
      /\ q \in Queries
    BY <1>0 DEF ListTypeOK, Queries
<1>2. /\ UNCHANGED <<rows, chain, names>>
      /\ entries' = [entries EXCEPT ![p] = << >>] /\ << >> \in Seq(Entry)
      /\ \/ /\ lpc' = [lpc EXCEPT ![p] = "asking"]
            /\ query' = [query EXCEPT ![p] = q]
            /\ asked' = [asked EXCEPT ![p] = now]
            /\ reply' = [reply EXCEPT ![p] = "none"]
         \/ reply' = [reply EXCEPT ![p] = "exception"] /\ UNCHANGED <<lpc, query, asked>>
    BY EmptySeq DEF List
<1> HIDE DEF now, q
<1>3. ListTypeOK' /\ OwnStep(p)
    <2>1. CASE reply' = [reply EXCEPT ![p] = "exception"] /\ UNCHANGED <<lpc, query, asked>>
        BY <1>0, <1>2, <2>1 DEF ListTypeOK, OwnStep
    <2>2. CASE /\ lpc' = [lpc EXCEPT ![p] = "asking"]
               /\ query' = [query EXCEPT ![p] = q]
               /\ asked' = [asked EXCEPT ![p] = now]
               /\ reply' = [reply EXCEPT ![p] = "none"]
        BY <1>0, <1>1, <1>2, <2>2 DEF ListTypeOK, OwnStep
    <2> QED BY <1>2, <2>1, <2>2
<1>4. /\ reply'[p] \in {"none", "exception"} /\ rows' = rows /\ chain' = chain
      /\ \/ lpc'[p] = "asking" /\ reply'[p] = "none" /\ asked'[p] = now /\ query'[p] = q
         \/ lpc'[p] = "idle" /\ asked'[p] = asked[p]
    BY <1>0, <1>2 DEF ListTypeOK
<1>5. AskedIsPast(p)'
    BY <1>0, <1>1, <1>4 DEF ListerInv, AskedIsPast
<1>6. lpc'[p] = "asking" => query'[p] = jsonRpcParams(p, asked'[p].params)
    BY <1>1, <1>4 DEF q
<1>7. jsonRpcParams(p, asked[p].params)' = jsonRpcParams(p, asked'[p].params)
    BY DEF jsonRpcParams
<1>8. ListerInv(p)'
    BY <1>4, <1>5, <1>6, <1>7 DEF ListerInv
<1> QED BY <1>3, <1>8, OwnStepKeepsInv

(* The node's answer is the page of the moment, and possibly the decay.    *)
LEMMA NodeAnswersKeeps ==
    ASSUME ListInv, NEW p \in Listers, NodeAnswers(p)
    PROVE  ListInv'
<1> DEFINE S == PageIds(p, asked[p].params, Len(chain))
           n == Cardinality(S)
<1>0. /\ ListTypeOK /\ ChainIsSound /\ ListerInv(p) /\ Len(chain) \in Nat
      /\ lpc[p] = "asking" /\ reply[p] = "none"
      /\ query[p] = jsonRpcParams(p, asked[p].params)
      /\ asked[p].params \in Params /\ asked[p].length \in Nat
    BY AskedFacts DEF ListInv, ListTypeOK, ListerInv, NodeAnswers
<1>1. S \subseteq ShownIds(p) /\ n \in Nat
    <2>1. S \subseteq ShownIds(p)
        BY <1>0, PageIsShown
    <2>2. 1 \in Int /\ Len(chain) \in Int
        BY <1>0
    <2>3. IsFiniteSet(1 .. Len(chain))
        BY <2>2, FS_Interval
    <2>4. IsFiniteSet(S)
        BY <2>1, <2>3, FS_Subset DEF ShownIds
    <2> QED BY <2>1, <2>4, FS_CardinalityType
<1>2. query[p].pubkey = p /\ PageIds(p, query[p], Len(chain)) = S
    BY <1>0, QueryPage
<1>3. PICK list \in Listings(S, p), decay \in Decays :
          entries' = [entries EXCEPT ![p] = list \o decay]
    BY <1>2 DEF NodeAnswers
<1>4. PICK order \in Bijection(1 .. n, S) :
          list = [k \in DOMAIN order |-> EntryFor(p, order[k])]
    BY <1>3 DEF Listings
<1> HIDE DEF S, n
<1>5. /\ order \in [1 .. n -> S] /\ DOMAIN order = 1 .. n
      /\ \A i \in S : \E k \in 1 .. n : order[k] = i
    BY <1>4 DEF Bijection, Injection, Surjection
<1>6. \A k \in 1 .. n : /\ list[k] = EntryFor(p, order[k]) /\ list[k] \in Entry
                        /\ list[k].id = order[k] /\ order[k] \in ShownIds(p)
    BY <1>0, <1>1, <1>4, <1>5, EntryForFacts
<1>7. list \in Seq(Entry) /\ Len(list) = n
    <2>1. list \in [1 .. n -> Entry]
        BY <1>4, <1>5, <1>6
    <2> QED BY <2>1, <1>1
<1>8. /\ decay \in Seq(Entry) /\ Len(decay) \in Nat
      /\ \A k \in 1 .. Len(decay) : decay[k].id = 0 /\ decay[k].pubkey = NoOne
    <2>1. ASSUME NEW typeId \in {"DECAY", "none"}
          PROVE  /\ DecayEntry(typeId) \in Entry
                 /\ DecayEntry(typeId).id = 0 /\ DecayEntry(typeId).pubkey = NoOne
        BY LengthAssumption, TextAssumption DEF DecayEntry, Entry, Plain, Memo
    <2>2. CASE decay = << >>
        BY <2>2, EmptySeq
    <2>3. ASSUME NEW typeId \in {"DECAY", "none"}, decay = <<DecayEntry(typeId)>>
          PROVE  /\ decay \in Seq(Entry) /\ Len(decay) \in Nat
                 /\ \A k \in 1 .. Len(decay) : decay[k].id = 0 /\ decay[k].pubkey = NoOne
        <3>1. PICK d : d = DecayEntry(typeId)
            OBVIOUS
        <3> QED BY <2>1, <2>3, <3>1
    <2> QED BY <2>2, <2>3 DEF Decays
<1> DEFINE all == list \o decay
<1>9. /\ all \in Seq(Entry) /\ Len(all) = n + Len(decay)
      /\ \A k \in 1 .. Len(all) :
            all[k] = IF k <= n THEN list[k] ELSE decay[k - n]
    BY <1>1, <1>7, <1>8, ConcatProperties
<1> HIDE DEF all
<1>10. entries' = [entries EXCEPT ![p] = all] /\ entries'[p] = all
    BY <1>0, <1>3 DEF ListTypeOK, all
<1>11. ListTypeOK' /\ OwnStep(p)
    BY <1>0, <1>9, <1>10 DEF NodeAnswers, ListTypeOK, OwnStep
<1>12. chain' = chain /\ rows' = rows /\ asked' = asked /\ reply'[p] = "none"
       /\ lpc'[p] = "found"
    BY <1>0 DEF NodeAnswers, ListTypeOK
<1>13. ASSUME NEW e \in Shown(p)'
       PROVE  \/ e.id = 0 /\ e.pubkey = NoOne
              \/ e.id \in S /\ e.id \in ShownIds(p) /\ e = EntryFor(p, e.id)
    <2>1. PICK k \in 1 .. Len(all) : e = all[k]
        BY <1>10 DEF Shown
    <2>2. CASE k <= n
        <3>1. k \in 1 .. n
            BY <1>1, <1>8, <1>9, <2>2
        <3> QED BY <1>5, <1>6, <1>9, <2>1, <2>2, <3>1
    <2>3. CASE ~(k <= n)
        <3>1. k - n \in 1 .. Len(decay)
            BY <1>1, <1>8, <1>9, <2>3
        <3> QED BY <1>8, <1>9, <2>1, <2>3, <3>1
    <2> QED BY <2>2, <2>3
<1>14. ASSUME NEW i \in S PROVE i # 0 /\ \E e \in Shown(p)' : e.id = i
    <2>1. PICK k \in 1 .. n : order[k] = i
        BY <1>5
    <2>2. k \in 1 .. Len(all) /\ k <= n
        BY <1>1, <1>8, <1>9
    <2>3. all[k] \in Shown(p)' /\ all[k].id = i
        BY <1>6, <1>9, <1>10, <2>1, <2>2 DEF Shown
    <2> QED BY <1>0, <1>1, <2>3, EntryForFacts
<1>15. ListIsPage(p)'
    <2>1. {e.id : e \in Shown(p)'} \ {0} = S
        <3>1. 0 \notin S
            BY <1>14
        <3> QED BY <1>13, <1>14, <3>1
    <2>2. PageIds(p, asked[p].params, Len(chain))' = S
        BY <1>12 DEF S, PageIds, MatchingIds
    <2>3. Len(chain') \in asked'[p].length .. Len(chain')
        BY <1>0, <1>12 DEF ListerInv, AskedIsPast
    <2>4. S \in PagesAsked(p)'
        BY <2>2, <2>3 DEF PagesAsked
    <2> QED BY <2>1, <2>4 DEF ListIsPage
<1>16. \A e \in Shown(p)' : IsRaw(p, e)'
    BY <1>12, <1>13 DEF IsRaw, ShownIds, EntryFor
<1>17. ListerInv(p)'
    BY <1>0, <1>12, <1>15, <1>16 DEF ListerInv, AskedIsPast
<1> QED BY <1>11, <1>17, OwnStepKeepsInv

(* A handler that ends without a list. *)
LEMMA NodeFailsKeeps ==
    ASSUME ListInv, NEW p \in Listers, NodeFails(p)
    PROVE  ListInv'
<1>0. ListTypeOK /\ ListerInv(p)
    BY DEF ListInv
<1>1. ListTypeOK' /\ OwnStep(p)
    BY <1>0 DEF NodeFails, Finish, ListTypeOK, OwnStep
<1>2. /\ lpc'[p] = "idle" /\ reply'[p] = "error" /\ rows' = rows /\ chain' = chain
      /\ asked' = asked
    BY <1>0 DEF NodeFails, Finish, ListTypeOK
<1>3. ListerInv(p)'
    BY <1>0, <1>2 DEF ListerInv, AskedIsPast
<1> QED BY <1>1, <1>3, OwnStepKeepsInv

(* The query finds everybody who has a row by now, so everybody who had    *)
(* one when the node was asked.                                            *)
LEMMA LoadNamesKeeps ==
    ASSUME ListInv, NEW p \in Listers, LoadNames(p)
    PROVE  ListInv'
<1>0. /\ ListTypeOK /\ ChainIsSound /\ ListerInv(p) /\ lpc[p] = "found"
      /\ rows' = rows /\ chain' = chain /\ asked' = asked /\ query' = query
      /\ reply[p] = "none"
      /\ ListIsPage(p) /\ \A e \in Shown(p) : IsRaw(p, e)
    BY DEF ListInv, LoadNames, ListerInv
<1>1. AskedIsPast(p)'
    BY <1>0 DEF ListerInv, AskedIsPast
<1>2. CASE Pubkeys(entries[p]) = {} /\ Finish(p, "success") /\ UNCHANGED entries
    <2>1. ListTypeOK' /\ OwnStep(p)
        BY <1>0, <1>2 DEF Finish, ListTypeOK, OwnStep
    <2>2. lpc'[p] = "idle" /\ reply'[p] = "success" /\ entries' = entries
        BY <1>0, <1>2 DEF Finish, ListTypeOK
    <2>3. \A e \in Shown(p) : IsReadable(p, e)
        BY <1>0, <1>2, NoKeysNoTransactions
    <2>4. ListIsPage(p)' /\ \A e \in Shown(p)' : IsReadable(p, e)'
        BY <1>0, <2>2, <2>3, PagesStay DEF ListIsPage, Shown, IsReadable, ShownIds
    <2>5. ListerInv(p)'
        BY <1>1, <2>2, <2>4 DEF ListerInv
    <2> QED BY <2>1, <2>5, OwnStepKeepsInv
<1>3. CASE /\ lpc' = [lpc EXCEPT ![p] = "names"]
           /\ names' = [names EXCEPT ![p] = loadUserNamesForPubkeys(Pubkeys(entries[p]))]
           /\ UNCHANGED <<entries, reply>>
    <2>1. Pubkeys(entries[p]) \cap rows \in SUBSET People
        BY <1>0 DEF ListTypeOK
    <2>2. ListTypeOK' /\ OwnStep(p)
        BY <1>0, <1>3, <2>1 DEF ListTypeOK, OwnStep, loadUserNamesForPubkeys
    <2>3. /\ lpc'[p] = "names" /\ names'[p] = Pubkeys(entries[p]) \cap rows
          /\ entries' = entries /\ reply' = reply
        BY <1>0, <1>3 DEF ListTypeOK, loadUserNamesForPubkeys
    <2>4. /\ names'[p] \subseteq Pubkeys(entries[p])
          /\ Pubkeys(entries[p]) \cap asked[p].rows \subseteq names'[p]
        BY <1>0, <2>3 DEF ListerInv, AskedIsPast
    <2>5. ListIsPage(p)' /\ \A e \in Shown(p)' : IsRaw(p, e)'
        BY <1>0, <2>3, PagesStay DEF ListIsPage, Shown, IsRaw, ShownIds, EntryFor
    <2>6. ListerInv(p)'
        BY <1>0, <1>1, <2>3, <2>4, <2>5 DEF ListerInv
    <2> QED BY <2>2, <2>6, OwnStepKeepsInv
<1>4. CASE Finish(p, "exception") /\ entries' = [entries EXCEPT ![p] = << >>]
    <2>1. ListTypeOK' /\ OwnStep(p)
        BY <1>0, <1>4, EmptySeq DEF Finish, ListTypeOK, OwnStep
    <2>2. lpc'[p] = "idle" /\ reply'[p] = "exception"
        BY <1>0, <1>4 DEF Finish, ListTypeOK
    <2>3. ListerInv(p)'
        BY <1>1, <2>2 DEF ListerInv
    <2> QED BY <2>1, <2>3, OwnStepKeepsInv
<1> QED BY <1>2, <1>3, <1>4 DEF LoadNames

(* A memo that cannot be decoded is a plain one of the page. *)
LEMMA FillThrowsForOdd ==
    ASSUME ListInv, NEW p \in Listers, lpc[p] = "names", FillThrows(p)
    PROVE  PageIsOdd(p)
<1>0. /\ ListTypeOK /\ ChainIsSound /\ ListIsPage(p)
      /\ \A e \in Shown(p) : IsRaw(p, e)
    BY DEF ListInv, ListerInv
<1>1. PICK k \in 1 .. Len(entries[p]) :
          Decrypts(entries[p][k]) /\ base64ToBinThrows(entries[p][k].memo)
    BY DEF FillThrows
<1> DEFINE e == entries[p][k]
<1>2. e \in Shown(p) /\ e.pubkey # NoOne
    BY <1>1 DEF Shown, Decrypts
<1>3. e.id \in ShownIds(p) /\ e = EntryFor(p, e.id)
    BY <1>0, <1>2 DEF IsRaw
<1>4. e.id # 0 /\ e.memo = chain[e.id].memo
    BY <1>0, <1>3, EntryForFacts
<1>5. IsOdd(e.memo)
    BY <1>0, <1>1, <1>3 DEF Decrypts, LooksEncrypted, base64ToBinThrows, IsOdd
<1>6. e.id \in {d.id : d \in Shown(p)} \ {0}
    BY <1>2, <1>4
<1> QED BY <1>0, <1>4, <1>5, <1>6 DEF ListIsPage, PageIsOdd

(* The loop over the entries makes each one readable, or ends at one that  *)
(* cannot be decoded.                                                      *)
LEMMA FillKeeps ==
    ASSUME ListInv, NEW p \in Listers, Fill(p)
    PROVE  ListInv'
<1> DEFINE old == entries[p]
           n   == Len(old)
<1>0. /\ ListTypeOK /\ ChainIsSound /\ ListerInv(p) /\ lpc[p] = "names"
      /\ rows' = rows /\ chain' = chain /\ asked' = asked /\ query' = query
      /\ old \in Seq(Entry) /\ n \in Nat /\ names[p] \subseteq People
      /\ ListIsPage(p) /\ \A e \in Shown(p) : IsRaw(p, e)
    BY DEF ListInv, Fill, ListerInv, ListTypeOK
<1>1. CASE /\ FillThrows(p) /\ Finish(p, "undecodable")
           /\ entries' = [entries EXCEPT ![p] = << >>]
    <2>1. PageIsOdd(p)'
        BY <1>0, <1>1, FillThrowsForOdd, PagesStay
    <2>2. ListTypeOK' /\ OwnStep(p)
        BY <1>0, <1>1, EmptySeq DEF Finish, ListTypeOK, OwnStep
    <2>3. lpc'[p] = "idle" /\ reply'[p] = "undecodable"
        BY <1>0, <1>1 DEF Finish, ListTypeOK
    <2>4. ListerInv(p)'
        BY <1>0, <2>1, <2>3 DEF ListerInv, AskedIsPast
    <2> QED BY <2>2, <2>4, OwnStepKeepsInv
<1>2. CASE /\ entries' = [entries EXCEPT ![p] = [i \in 1 .. n |-> Filled(old[i], p)]]
           /\ Finish(p, "success")
    <2>1. ASSUME NEW i \in 1 .. n
          PROVE  /\ Filled(old[i], p) \in Entry /\ Filled(old[i], p).id = old[i].id
                 /\ IsReadable(p, Filled(old[i], p))
        <3>1. old[i] \in Entry /\ old[i] \in Shown(p)
            BY <1>0, ElementOfSeq DEF Shown
        <3>2. asked[p].rows \subseteq People
            BY <1>0, AskedFacts
        <3>3. old[i].pubkey \in asked[p].rows => old[i].pubkey \in names[p]
            <4> HAVE old[i].pubkey \in asked[p].rows
            <4>1. old[i].pubkey \in Pubkeys(old)
                BY <3>2, PeopleAssumption DEF Pubkeys
            <4> QED BY <1>0, <4>1 DEF ListerInv
        <3> QED BY <1>0, <3>1, <3>3, FilledIsReadable
    <2> DEFINE new == [i \in 1 .. n |-> Filled(old[i], p)]
    <2>2. new \in Seq(Entry) /\ Len(new) = n /\ \A i \in 1 .. n : new[i] = Filled(old[i], p)
        <3>1. new \in [1 .. n -> Entry]
            BY <2>1
        <3> QED BY <1>0, <3>1
    <2> HIDE DEF new
    <2>3. entries' = [entries EXCEPT ![p] = new]
        BY <1>2 DEF new
    <2>4. ListTypeOK' /\ OwnStep(p)
        BY <1>0, <1>2, <2>2, <2>3 DEF Finish, ListTypeOK, OwnStep
    <2>5. entries'[p] = new /\ lpc'[p] = "idle" /\ reply'[p] = "success"
        BY <1>0, <1>2, <2>3 DEF Finish, ListTypeOK
    <2>6. Shown(p)' = {Filled(old[i], p) : i \in 1 .. n}
        BY <2>2, <2>5 DEF Shown
    <2>7. ListIsPage(p)'
        <3>1. {e.id : e \in Shown(p)'} = {e.id : e \in Shown(p)}
            <4>1. \A e \in Shown(p)' : \E d \in Shown(p) : d.id = e.id
                BY <2>1, <2>6 DEF Shown
            <4>2. \A d \in Shown(p) : \E e \in Shown(p)' : d.id = e.id
                <5> SUFFICES ASSUME NEW i \in 1 .. n
                             PROVE  \E e \in Shown(p)' : old[i].id = e.id
                    BY DEF Shown
                <5> QED BY <2>1, <2>6
            <4> QED BY <4>1, <4>2
        <3> QED BY <1>0, <3>1, PagesStay DEF ListIsPage
    <2>8. \A e \in Shown(p)' : IsReadable(p, e)'
        <3>1. \A e \in Shown(p)' : IsReadable(p, e)
            BY <2>1, <2>6
        <3> QED BY <1>0, <3>1 DEF IsReadable, ShownIds
    <2>9. ListerInv(p)'
        BY <1>0, <2>5, <2>7, <2>8 DEF ListerInv, AskedIsPast
    <2> QED BY <2>4, <2>9, OwnStepKeepsInv
<1> QED BY <1>1, <1>2 DEF Fill

(* Every step keeps the invariant. *)
LEMMA ListNextInv == ListInv /\ [Next]_vars => ListInv'
<1> SUFFICES ASSUME ListInv, [Next]_vars PROVE ListInv'
    OBVIOUS
<1>1. ASSUME UNCHANGED vars PROVE ListInv'
    <2>1. WorldGrows
        BY <1>1 DEF vars, WorldGrows, ListInv, ListTypeOK
    <2>2. ListTypeOK' /\ ChainIsSound'
        BY <1>1 DEF vars, ListInv, ListTypeOK, ChainIsSound
    <2> QED BY <2>1, <2>2, GrowthKeepsLists DEF ListInv
<1> QED BY <1>1, WorldKeepsInv, ListKeeps, NodeAnswersKeeps, NodeFailsKeeps, LoadNamesKeeps,
           FillKeeps DEF Next

(* The invariant holds in every reachable state. *)
LEMMA ListInvAlways == Spec => []ListInv
<1>1. Init => ListInv
    <2> SUFFICES ASSUME Init PROVE ListInv
        OBVIOUS
    <2>0. AnyParams \in Params /\ \A p \in Listers : jsonRpcParams(p, AnyParams) \in Queries
        <3>1. AnyParams \in Params
            BY ParamsAssumption DEF AnyParams
        <3> QED BY <3>1, QueryType
    <2>1. ListTypeOK
        BY <2>0, EmptySeq, LengthAssumption DEF Init, ListTypeOK
    <2>2. Len(chain) = 0
        BY DEF Init
    <2>3. ChainIsSound
        BY <2>2 DEF ChainIsSound
    <2>4. \A p \in Listers : ListerInv(p)
        BY <2>2 DEF Init, ListerInv, AskedIsPast
    <2> QED BY <2>1, <2>3, <2>4 DEF ListInv
<1> QED BY <1>1, ListNextInv, PTL DEF Spec

-----------------------------------------------------------------------------
(* The handler's state keeps its types: every entry of the list stays a    *)
(* whole entry on its way from the node to the client.                     *)
THEOREM ListTypeCorrect == Spec => []ListTypeOK
<1>1. ListInv => ListTypeOK
    BY DEF ListInv
<1> QED BY <1>1, ListInvAlways, PTL

(* The client gets the page it asked for, whatever it asks for and however *)
(* the chain grows meanwhile.                                              *)
THEOREM AskedPagesAreShown == Spec => []AskedPageIsShown
<1>1. ListInv => AskedPageIsShown
    BY DEF ListInv, ListerInv, ListIsPage, AskedPageIsShown
<1> QED BY <1>1, ListInvAlways, PTL

(* Both parties read the memo its sender wrote, for any people, memos and  *)
(* pages.                                                                  *)
THEOREM MemosAreReadable == Spec => []MemosReadable
<1>1. ListInv => MemosReadable
    BY DEF ListInv, ListerInv, IsReadable, MemosReadable
<1> QED BY <1>1, ListInvAlways, PTL

(* Only a plain memo on the asked page that looks like base64 and is none  *)
(* ends a request in the decoding.                                         *)
THEOREM OnlyOddMemosEnd == Spec => []OnlyOddMemosEndTheList
<1>1. ListInv => OnlyOddMemosEndTheList
    BY DEF ListInv, ListerInv, PageIsOdd, IsOdd, OnlyOddMemosEndTheList
<1> QED BY <1>1, ListInvAlways, PTL

(* No public key reaches the client, nobody is named wrongly, and a party  *)
(* who had a row when the node was asked is named.                         *)
THEOREM NamesAreShown == Spec => []NamesShown
<1>1. ListInv => NamesShown
    BY DEF ListInv, ListerInv, IsReadable, NamesShown
<1> QED BY <1>1, ListInvAlways, PTL
=============================================================================
