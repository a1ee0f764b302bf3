--------------------------- MODULE SessionsProofs ---------------------------
(***************************************************************************)
(* Proofs about Sessions for any finite sets of workers, user names and    *)
(* groups, any passwords and addresses, any pool and any number of logins, *)
(* ticks and restarts.                                                     *)
(*                                                                         *)
(* The properties of the tables and the tokens rest on what each worker    *)
(* knows at each step of its login (WorkerInv): until the user's row is    *)
(* found or inserted its session has no stored key pair, afterwards the    *)
(* row of exactly this session is in table user, and rows are never        *)
(* changed or deleted.  The invariant of the rate limiter carries over     *)
(* from RateLimiterProofs: a login step is a step of the limiter or leaves *)
(* it alone, and a restart puts it back into its initial state.            *)
(***************************************************************************)
EXTENDS Sessions, RateLimiterProofs

(* UNIQUE (name, group_id) of table user. *)
RowsUnique ==
    \A u, v \in userRows : u.name = v.name /\ u.group = v.group => u = v

BeforeKeyPair == {"encrypt", "connect", "groupConnect", "groupQuery",
                  "groupInsert", "userSelect"}
HasRow        == {"backup", "add", "issue"}

(* What a worker knows about its session while it is at work on it. *)
WorkerInv(t) ==
    /\ pc[t] \notin {"idle", "login"} => sess[t].name = req[t].name
    /\ pc[t] \in BeforeKeyPair => sess[t].key = NoKey
    /\ pc[t] = "userInsert" => sess[t].key \in Keys
    /\ pc[t] \in HasRow => RowOf(sess[t]) \in userRows

(* What the cache holds under a name is a session of that name whose row   *)
(* is stored.                                                              *)
EntryInv(n) ==
    cache[n] # NoSession =>
        /\ cache[n].session.name = n
        /\ RowOf(cache[n].session) \in userRows

(* The inductive invariant. *)
SessInv ==
    /\ TypeOK
    /\ LimInv
    /\ RowsUnique
    /\ \A t \in Threads : WorkerInv(t)
    /\ \A n \in Users : EntryInv(n)
    /\ TokenKeyIsStored
    /\ BackupMissingOnlyIfInterrupted

-----------------------------------------------------------------------------
(* An idle worker's locals are well typed. *)
LEMMA NoRequestType == /\ NoRequest \in Request
                       /\ NewSession(NoRequest) \in Session
<1>1. NoRequest \in Request
    BY RequestAssumption DEF NoRequest
<1>2. ASSUME NEW r \in Request PROVE NewSession(r) \in Session
    BY DEF NewSession, Request, Session, NoKey
<1> QED BY <1>1, <1>2

(* The key pairs of table user are at most as many as there are pairs of a *)
(* name and a group.                                                       *)
LEMMA StoredKeysBounded ==
    ASSUME userRows \subseteq UserRow, RowsUnique
    PROVE  LET stored == {u.key : u \in userRows}
           IN  /\ IsFiniteSet(stored)
               /\ Cardinality(stored) \in Nat
               /\ Cardinality(stored) <= Cardinality(Users) * Cardinality(Groups)
<1> DEFINE stored == {u.key : u \in userRows}
           f == [u \in userRows |-> <<u.name, u.group>>]
           g == [u \in userRows |-> u.key]
<1>1. /\ IsFiniteSet(Users \X Groups)
      /\ Cardinality(Users \X Groups) = Cardinality(Users) * Cardinality(Groups)
    BY FS_Product, UsersAssumption, GroupsAssumption
<1>2. f \in [userRows -> Users \X Groups]
    BY DEF UserRow
<1>3. f \in Injection(userRows, Users \X Groups)
    BY <1>2 DEF RowsUnique, Injection, IsInjective
<1>4. /\ IsFiniteSet(userRows)
      /\ Cardinality(userRows) <= Cardinality(Users \X Groups)
    BY <1>1, <1>3, FS_Injection
<1>5. g \in Surjection(userRows, stored)
    BY DEF Surjection
<1>6. /\ IsFiniteSet(stored)
      /\ Cardinality(stored) <= Cardinality(userRows)
    BY <1>4, <1>5, FS_Surjection
<1>7. /\ Cardinality(stored) \in Nat
      /\ Cardinality(userRows) \in Nat
      /\ Cardinality(Users \X Groups) \in Nat
    BY <1>1, <1>4, <1>6, FS_CardinalityType
<1> HIDE DEF stored
<1>8. Cardinality(stored) <= Cardinality(Users) * Cardinality(Groups)
    BY <1>1, <1>4, <1>6, <1>7
<1> QED BY <1>6, <1>7, <1>8 DEF stored

(* The bound of Keys is large enough: whoever generates a key pair finds   *)
(* one that no row and no other session has.                               *)
LEMMA FreshKeyIsNew ==
    ASSUME TypeOK, RowsUnique, NEW t \in Threads, sess[t].key = NoKey
    PROVE  FreshKey \in Keys \ UsedKeys
<1> DEFINE stored == {u.key : u \in userRows}
           others == {sess[s].key : s \in Threads \ {t}}
           g == [s \in Threads \ {t} |-> sess[s].key]
           n == Cardinality(Users) * Cardinality(Groups)
<1>1. /\ IsFiniteSet(stored)
      /\ Cardinality(stored) \in Nat
      /\ Cardinality(stored) <= n
    BY StoredKeysBounded DEF TypeOK
<1>2. /\ IsFiniteSet(Threads \ {t})
      /\ Cardinality(Threads \ {t}) = Cardinality(Threads) - 1
    BY ThreadsAssumption, FS_RemoveElement
<1>3. g \in Surjection(Threads \ {t}, others)
    BY DEF Surjection
<1>4. /\ IsFiniteSet(others)
      /\ Cardinality(others) <= Cardinality(Threads \ {t})
    BY <1>2, <1>3, FS_Surjection
<1>5. /\ Cardinality(others) \in Nat
      /\ Cardinality(Threads) \in Nat
      /\ Cardinality(Users) \in Nat
      /\ Cardinality(Groups) \in Nat
    BY <1>4, FS_CardinalityType, ThreadsAssumption, UsersAssumption, GroupsAssumption
<1>6. n \in Nat
    BY <1>5
<1>7. /\ IsFiniteSet(stored \cup others)
      /\ Cardinality(stored \cup others)
            = Cardinality(stored) + Cardinality(others) - Cardinality(stored \cap others)
      /\ IsFiniteSet(stored \cap others)
    BY <1>1, <1>4, FS_Union, FS_Intersection
<1>8. Cardinality(stored \cap others) \in Nat
    BY <1>7, FS_CardinalityType
<1>9. /\ IsFiniteSet(Keys)
      /\ Cardinality(Keys) = n + Cardinality(Threads)
    <2>1. 1 \in Int /\ n + Cardinality(Threads) \in Int
        BY <1>5, <1>6
    <2> HIDE DEF n
    <2>2. Cardinality(1 .. n + Cardinality(Threads)) = n + Cardinality(Threads)
        BY <2>1, <1>5, <1>6, FS_Interval
    <2> QED BY <2>1, <2>2, FS_Interval DEF Keys, n
<1>10. ~(Keys \subseteq stored \cup others)
    <2> SUFFICES ASSUME Keys \subseteq stored \cup others PROVE FALSE
        OBVIOUS
    <2>1. Cardinality(Keys) <= Cardinality(stored \cup others)
        BY <1>7, FS_Subset
    <2> HIDE DEF n, stored, others
    <2> QED BY <2>1, <1>1, <1>2, <1>4, <1>5, <1>6, <1>7, <1>8, <1>9
<1>11. NoKey \notin Keys
    BY DEF Keys, NoKey
<1>12. Keys \ UsedKeys # {}
    <2>1. PICK k \in Keys : k \notin stored \cup others
        BY <1>10
    <2>2. k \notin UsedKeys
        BY <2>1, <1>11 DEF UsedKeys
    <2> QED BY <2>1, <2>2
<1> QED BY <1>12 DEF FreshKey

-----------------------------------------------------------------------------
(* Every worker but t keeps its place and its locals. *)
OthersStay(t) ==
    \A s \in Threads \ {t} :
        pc'[s] = pc[s] /\ req'[s] = req[s] /\ sess'[s] = sess[s]

LocalsTyped ==
    /\ pc \in [Threads -> LoginSteps]
    /\ req \in [Threads -> Request]
    /\ sess \in [Threads -> Session]

(* The steps of a worker that only move it, and those that end its login. *)
LEMMA ProceedMoves ==
    ASSUME TypeOK, NEW t \in Threads, NEW step \in LoginSteps, Proceed(t, step)
    PROVE  /\ LocalsTyped' /\ OthersStay(t)
           /\ pc'[t] = step /\ req'[t] = req[t] /\ sess'[t] = sess[t]
BY DEF TypeOK, LocalsTyped, OthersStay, Proceed, Goto

LEMMA AnswerEnds ==
    ASSUME TypeOK, NEW t \in Threads, Answer(t)
    PROVE  LocalsTyped' /\ OthersStay(t) /\ pc'[t] = "idle" /\ WorkerInv(t)'
<1>1. LocalsTyped' /\ OthersStay(t) /\ pc'[t] = "idle"
    BY NoRequestType
    DEF TypeOK, LocalsTyped, OthersStay, Answer, Goto, LoginSteps
<1> QED BY <1>1 DEF WorkerInv, BeforeKeyPair, HasRow

(* What each conjunct of the invariant needs of a step. *)
LEMMA WorkersKeep ==
    ASSUME SessInv, NEW t \in Threads, OthersStay(t), WorkerInv(t)',
           userRows \subseteq userRows'
    PROVE  \A s \in Threads : WorkerInv(s)'
<1> SUFFICES ASSUME NEW s \in Threads, s # t PROVE WorkerInv(s)'
    OBVIOUS
<1>1. WorkerInv(s)
    BY DEF SessInv
<1> QED BY <1>1 DEF OthersStay, WorkerInv

LEMMA EntriesKeep ==
    ASSUME SessInv, UNCHANGED cache, userRows \subseteq userRows'
    PROVE  \A n \in Users : EntryInv(n)'
BY DEF SessInv, EntryInv

LEMMA TokensKeep ==
    ASSUME SessInv, UNCHANGED tokens, userRows \subseteq userRows'
    PROVE  TokenKeyIsStored'
BY DEF SessInv, TokenKeyIsStored

LEMMA BackupsKeep ==
    ASSUME SessInv, NEW t \in Threads, OthersStay(t), UNCHANGED userRows,
           backups \subseteq backups', interrupted \subseteq interrupted',
           pc[t] = "backup" => sess[t].key \in backups' \cup interrupted'
    PROVE  BackupMissingOnlyIfInterrupted'
<1> SUFFICES ASSUME NEW u \in userRows
             PROVE  \/ u.key \in backups' \cup interrupted'
                    \/ \E s \in Threads : pc'[s] = "backup" /\ sess'[s].key = u.key
    BY DEF BackupMissingOnlyIfInterrupted
<1>1. \/ u.key \in backups \/ u.key \in interrupted
      \/ \E s \in Threads : pc[s] = "backup" /\ sess[s].key = u.key
    BY DEF SessInv, BackupMissingOnlyIfInterrupted
<1>2. ASSUME NEW s \in Threads, pc[s] = "backup", sess[s].key = u.key
      PROVE  \/ u.key \in backups' \cup interrupted'
             \/ \E r \in Threads : pc'[r] = "backup" /\ sess'[r].key = u.key
    BY <1>2 DEF OthersStay
<1> QED BY <1>1, <1>2

(* A login step that leaves the cache, table user and the tokens alone. *)
LEMMA QuietStep ==
    ASSUME SessInv, NEW t \in Threads, TypeOK', LimInv', OthersStay(t),
           WorkerInv(t)', UNCHANGED <<cache, userRows, tokens>>,
           backups \subseteq backups', interrupted \subseteq interrupted',
           pc[t] = "backup" => sess[t].key \in backups' \cup interrupted'
    PROVE  SessInv'
<1>1. RowsUnique'
    BY DEF SessInv, RowsUnique
<1> QED
    BY <1>1, WorkersKeep, EntriesKeep, TokensKeep, BackupsKeep DEF SessInv

(* Looking a session up changes its access time and nothing else. *)
LEMMA AccessNoted ==
    ASSUME NEW e \in [session : Session, access : 0 .. MaxTime], NEW a
    PROVE  [e EXCEPT !.access = a] = [session |-> e.session, access |-> a]
OBVIOUS

(* A step that leaves the limiter alone keeps its invariant. *)
LEMMA LimiterIdle == ASSUME LimInv, UNCHANGED limVars PROVE LimInv'
BY LimNextInv

-----------------------------------------------------------------------------
(* The initial state satisfies the invariant. *)
LEMMA SessInitInv == Init => SessInv
<1> SUFFICES ASSUME Init PROVE SessInv
    OBVIOUS
<1>1. LimInv
    BY LimInitInv DEF Init
<1>2. TypeOK
    BY <1>1, NoRequestType, SessionBounds DEF Init, TypeOK, LimInv, LoginSteps
<1>3. \A t \in Threads : WorkerInv(t)
    BY DEF Init, WorkerInv, BeforeKeyPair, HasRow
<1>4. \A n \in Users : EntryInv(n)
    BY DEF Init, EntryInv
<1> QED
    BY <1>1, <1>2, <1>3, <1>4
    DEF SessInv, Init, RowsUnique, TokenKeyIsStored, BackupMissingOnlyIfInterrupted

(* Entering the login and its cache lookup. *)
LEMMA LoginRequestInv ==
    ASSUME SessInv, NEW t \in Threads, NEW r \in Request, LoginRequest(t, r)
    PROVE  SessInv'
<1>1. LimInv'
    BY LimiterIdle DEF SessInv, LoginRequest
<1>2. TypeOK' /\ OthersStay(t) /\ pc'[t] = "login"
    BY <1>1, SessionBounds
    DEF SessInv, TypeOK, LimInv, LoginRequest, Goto, LoginSteps, OthersStay
<1>3. WorkerInv(t)'
    BY <1>2 DEF WorkerInv, BeforeKeyPair, HasRow
<1> QED BY <1>1, <1>2, <1>3, QuietStep DEF LoginRequest

LEMMA LoginCachedInv ==
    ASSUME SessInv, NEW t \in Threads, LoginCached(t) PROVE SessInv'
<1> DEFINE n == req[t].name
<1>0. n \in Users /\ TypeOK
    BY DEF SessInv, TypeOK, Request
<1>1. LimInv'
    BY LimiterIdle DEF SessInv, LoginCached
<1>2. /\ cache[n] # NoSession
      /\ cache[n] \in [session : Session, access : 0 .. MaxTime]
    BY <1>0 DEF TypeOK, LoginCached, Live
<1>3. /\ cache[n].session.name = n
      /\ RowOf(cache[n].session) \in userRows
    BY <1>0, <1>2 DEF SessInv, EntryInv
<1>4. cache' = [cache EXCEPT ![n] = [session |-> cache[n].session, access |-> now]]
    <2>1. cache' = [cache EXCEPT ![n] = [cache[n] EXCEPT !.access = now]]
        BY DEF LoginCached
    <2> QED BY <2>1, <1>2, AccessNoted
<1>5. /\ pc' = [pc EXCEPT ![t] = "issue"]
      /\ sess' = [sess EXCEPT ![t] = cache[n].session]
      /\ UNCHANGED <<req, groupRows, userRows, backups, tokens, now, logins,
                     restarts, interrupted>>
    BY DEF LoginCached, Goto
<1>6. [session |-> cache[n].session, access |-> now]
            \in [session : Session, access : 0 .. MaxTime]
    BY <1>0, <1>2 DEF TypeOK
<1>7. LocalsTyped' /\ OthersStay(t)
    BY <1>0, <1>2, <1>5 DEF TypeOK, LocalsTyped, OthersStay, LoginSteps
<1>8. cache' \in [Users -> {NoSession} \cup [session : Session, access : 0 .. MaxTime]]
    BY <1>0, <1>4, <1>6 DEF TypeOK
<1>9. TypeOK'
    BY <1>0, <1>1, <1>5, <1>7, <1>8 DEF TypeOK, LimInv, LocalsTyped
<1>10. WorkerInv(t)'
    BY <1>0, <1>3, <1>5 DEF TypeOK, WorkerInv, BeforeKeyPair, HasRow
<1>11. \A m \in Users : EntryInv(m)'
    <2> TAKE m \in Users
    <2>1. EntryInv(m)
        BY DEF SessInv
    <2>2. CASE m = n
        BY <2>2, <1>0, <1>3, <1>4, <1>5 DEF TypeOK, EntryInv
    <2>3. CASE m # n
        BY <2>1, <2>3, <1>0, <1>4, <1>5 DEF TypeOK, EntryInv
    <2> QED BY <2>2, <2>3
<1>12. pc[t] # "backup" /\ RowsUnique'
    BY <1>5 DEF LoginCached, SessInv, RowsUnique
<1> QED
    BY <1>1, <1>5, <1>7, <1>9, <1>10, <1>11, <1>12,
       WorkersKeep, TokensKeep, BackupsKeep
    DEF SessInv

LEMMA LoginMissInv ==
    ASSUME SessInv, NEW t \in Threads, LoginMiss(t) PROVE SessInv'
<1> DEFINE n == req[t].name
<1>0. n \in Users /\ TypeOK /\ LimInv
    BY DEF SessInv, TypeOK, Request
<1>1. LimInv'
    <2>1. Call(t, n)
        BY DEF LoginMiss
    <2> QED BY <2>1, <1>0, LimNextInv DEF LimNext
<1>2. /\ pc' = [pc EXCEPT ![t] = "encrypt"]
      /\ sess' = [sess EXCEPT ![t] = NewSession(req[t])]
      /\ cache' = [cache EXCEPT ![n] = NoSession]
      /\ UNCHANGED <<req, groupRows, userRows, backups, tokens, now, logins,
                     restarts, interrupted>>
    BY DEF LoginMiss, Goto
<1>3. /\ NewSession(req[t]) \in Session
      /\ NewSession(req[t]).name = n
      /\ NewSession(req[t]).key = NoKey
    BY <1>0 DEF TypeOK, NewSession, Request, Session, NoKey
<1>4. LocalsTyped' /\ OthersStay(t)
    BY <1>0, <1>2, <1>3 DEF TypeOK, LocalsTyped, OthersStay, LoginSteps
<1>5. TypeOK'
    BY <1>0, <1>1, <1>2, <1>4 DEF TypeOK, LimInv, LocalsTyped
<1>6. WorkerInv(t)'
    BY <1>0, <1>2, <1>3 DEF TypeOK, WorkerInv, BeforeKeyPair, HasRow
<1>7. \A m \in Users : EntryInv(m)'
    BY <1>0, <1>2 DEF SessInv, TypeOK, EntryInv
<1>8. pc[t] # "backup" /\ RowsUnique'
    BY <1>2 DEF LoginMiss, SessInv, RowsUnique
<1> QED
    BY <1>1, <1>2, <1>4, <1>5, <1>6, <1>7, <1>8,
       WorkersKeep, TokensKeep, BackupsKeep
    DEF SessInv

-----------------------------------------------------------------------------
(* The limiter's steps of a login. *)
LEMMA EncryptInv ==
    ASSUME SessInv, NEW t \in Threads, Encrypt(t) PROVE SessInv'
<1>1. LimInv'
    BY LimNextInv DEF SessInv, Encrypt, LimNext
<1>2. UNCHANGED sessionVars
    BY DEF Encrypt
<1>3. TypeOK' /\ OthersStay(t)
    BY <1>1, <1>2 DEF SessInv, TypeOK, LimInv, sessionVars, OthersStay
<1>4. WorkerInv(t)'
    BY <1>2 DEF SessInv, WorkerInv, sessionVars
<1> QED BY <1>1, <1>2, <1>3, <1>4, QuietStep DEF sessionVars, Encrypt

LEMMA EncryptReturnsInv ==
    ASSUME SessInv, NEW t \in Threads, EncryptReturns(t) PROVE SessInv'
<1>0. TypeOK /\ WorkerInv(t) /\ pc[t] = "encrypt"
    BY DEF SessInv, EncryptReturns
<1>1. LimInv'
    BY LimNextInv DEF SessInv, EncryptReturns, LimNext
<1>2. LocalsTyped' /\ OthersStay(t) /\ WorkerInv(t)'
    <2>1. CASE Proceed(t, "connect")
        BY <2>1, <1>0, ProceedMoves DEF LoginSteps, WorkerInv, BeforeKeyPair, HasRow
    <2>2. CASE Fail(t)
        BY <2>2, <1>0, AnswerEnds DEF Fail
    <2> QED BY <2>1, <2>2 DEF EncryptReturns
<1>3. UNCHANGED <<cache, groupRows, userRows, backups, tokens, now, logins,
                  restarts, interrupted>>
    BY DEF EncryptReturns
<1>4. TypeOK'
    BY <1>0, <1>1, <1>2, <1>3 DEF TypeOK, LimInv, LocalsTyped
<1> QED BY <1>0, <1>1, <1>2, <1>3, <1>4, QuietStep

(* A database step that writes nothing but, at most, a group or a backup.  *)
(* It is enough to know where it leaves the worker.                        *)
LEMMA TableStep ==
    ASSUME SessInv, NEW t \in Threads, RestUnchanged, UNCHANGED userRows,
           LocalsTyped', OthersStay(t), WorkerInv(t)',
           groupRows' \subseteq Groups, backups' \subseteq Keys,
           interrupted' \subseteq Keys,
           backups \subseteq backups', interrupted \subseteq interrupted',
           pc[t] = "backup" => sess[t].key \in backups' \cup interrupted'
    PROVE  SessInv'
<1>1. LimInv'
    BY LimiterIdle DEF SessInv, RestUnchanged
<1>2. TypeOK'
    BY <1>1 DEF SessInv, TypeOK, LimInv, LocalsTyped, RestUnchanged
<1> QED BY <1>1, <1>2, QuietStep DEF RestUnchanged

(* A worker that moves between two steps before the row, or gives up. *)
LEMMA MoveOrFail ==
    ASSUME SessInv, NEW t \in Threads, pc[t] \in BeforeKeyPair,
           NEW step \in BeforeKeyPair, Proceed(t, step) \/ Fail(t)
    PROVE  LocalsTyped' /\ OthersStay(t) /\ (userRows' = userRows => WorkerInv(t)')
<1>0. TypeOK /\ WorkerInv(t)
    BY DEF SessInv
<1>1. CASE Proceed(t, step)
    BY <1>1, <1>0, ProceedMoves DEF LoginSteps, WorkerInv, BeforeKeyPair, HasRow
<1>2. CASE Fail(t)
    BY <1>2, <1>0, AnswerEnds DEF Fail
<1> QED BY <1>1, <1>2

LEMMA TablesTyped ==
    ASSUME SessInv
    PROVE  groupRows \subseteq Groups /\ backups \subseteq Keys /\ interrupted \subseteq Keys
BY DEF SessInv, TypeOK

LEMMA GroupStepsInv ==
    ASSUME SessInv, NEW t \in Threads,
           Connect(t) \/ GroupConnect(t) \/ GroupQuery(t) \/ GroupInsert(t)
    PROVE  SessInv'
<1>1. CASE Connect(t)
    BY <1>1, MoveOrFail, TablesTyped, TableStep
    DEF Connect, BeforeKeyPair, NoTableChange
<1>2. CASE GroupConnect(t)
    BY <1>2, MoveOrFail, TablesTyped, TableStep
    DEF GroupConnect, BeforeKeyPair, NoTableChange
<1>3. CASE GroupQuery(t)
    BY <1>3, MoveOrFail, TablesTyped, TableStep
    DEF GroupQuery, BeforeKeyPair, NoTableChange
<1>4. CASE GroupInsert(t)
    <2>1. Proceed(t, "userSelect") \/ Fail(t)
        BY <1>4 DEF GroupInsert
    <2>2. LocalsTyped' /\ OthersStay(t) /\ WorkerInv(t)'
        BY <1>4, <2>1, MoveOrFail DEF GroupInsert, BeforeKeyPair
    <2>3. groupRows' \subseteq Groups
        BY <1>4 DEF GroupInsert, SessInv, TypeOK, Session
    <2> QED BY <1>4, <2>2, <2>3, TablesTyped, TableStep DEF GroupInsert
<1> QED BY <1>1, <1>2, <1>3, <1>4

(* The user is looked up: its stored key pair is taken over, or one that   *)
(* nobody has is generated.                                                *)
LEMMA UserSelectInv ==
    ASSUME SessInv, NEW t \in Threads, UserSelect(t) PROVE SessInv'
<1>0. /\ TypeOK /\ RowsUnique /\ WorkerInv(t) /\ pc[t] = "userSelect"
      /\ sess[t].key = NoKey /\ sess[t].name = req[t].name
    BY DEF SessInv, UserSelect, WorkerInv, BeforeKeyPair
<1>1. userRows' = userRows
    BY DEF UserSelect, NoTableChange
<1>2. LocalsTyped' /\ OthersStay(t) /\ WorkerInv(t)'
    <2>1. CASE Fail(t)
        BY <2>1, <1>0, AnswerEnds DEF Fail
    <2>2. ASSUME NEW k \in Keys, NEW step \in {"add", "userInsert"}, Goto(t, step),
                 sess' = [sess EXCEPT ![t].key = k], UNCHANGED req,
                 step = "add" => RowOf([sess[t] EXCEPT !.key = k]) \in userRows
          PROVE  LocalsTyped' /\ OthersStay(t) /\ WorkerInv(t)'
        <3>1. sess[t] \in Session
            BY <1>0 DEF TypeOK
        <3>2. /\ [sess[t] EXCEPT !.key = k] \in Session
              /\ [sess[t] EXCEPT !.key = k].key = k
              /\ [sess[t] EXCEPT !.key = k].name = sess[t].name
            BY <3>1 DEF Session
        <3>3. sess' = [sess EXCEPT ![t] = [sess[t] EXCEPT !.key = k]]
            BY <2>2
        <3>4. /\ pc' = [pc EXCEPT ![t] = step]
              /\ req' = req
            BY <2>2 DEF Goto
        <3>5. LocalsTyped' /\ OthersStay(t)
            BY <1>0, <3>2, <3>3, <3>4 DEF TypeOK, LocalsTyped, OthersStay, LoginSteps
        <3>6. /\ pc'[t] = step /\ req'[t] = req[t]
              /\ sess'[t] = [sess[t] EXCEPT !.key = k]
            BY <1>0, <3>3, <3>4 DEF TypeOK
        <3>7. WorkerInv(t)'
            <4> DEFINE x == [sess[t] EXCEPT !.key = k]
            <4>1. x.key = k /\ x.name = sess[t].name /\ sess'[t] = x
                BY <3>2, <3>6
            <4>2. step = "add" => RowOf(x) \in userRows
                BY <2>2
            <4> HIDE DEF x
            <4> QED BY <1>0, <1>1, <3>6, <4>1, <4>2 DEF WorkerInv, BeforeKeyPair, HasRow
        <3> QED BY <3>5, <3>7
    <2>3. CASE UserFound(t)
        <3>1. PICK u \in Rows(sess[t].name, sess[t].group) :
                 IF u.password = sess[t].password
                 THEN /\ Goto(t, "add")
                      /\ sess' = [sess EXCEPT ![t].key = u.key]
                      /\ UNCHANGED req
                 ELSE Fail(t)
            BY <2>3 DEF UserFound
        <3>2. u \in UserRow /\ u \in userRows
              /\ u.name = sess[t].name /\ u.group = sess[t].group
            BY <1>0 DEF Rows, TypeOK
        <3>3. CASE u.password = sess[t].password
            <4>1. RowOf([sess[t] EXCEPT !.key = u.key]) = u
                BY <1>0, <3>2, <3>3 DEF RowOf, TypeOK, Session, UserRow
            <4>2. u.key \in Keys
                BY <3>2 DEF UserRow
            <4> QED BY <2>2, <3>1, <3>2, <3>3, <4>1, <4>2
        <3>4. CASE u.password # sess[t].password
            BY <2>1, <3>1, <3>4
        <3> QED BY <3>3, <3>4
    <2>4. CASE UserMissing(t)
        BY <2>2, <2>4, <1>0, FreshKeyIsNew DEF UserMissing
    <2> QED BY <2>3, <2>4 DEF UserSelect
<1> QED
    BY <1>0, <1>2, TablesTyped, TableStep DEF UserSelect, NoTableChange

(* User::save: the new row is that of the session, and its backup is the   *)
(* next thing the worker turns to.                                         *)
LEMMA UserInsertInv ==
    ASSUME SessInv, NEW t \in Threads, UserInsert(t) PROVE SessInv'
<1>0. /\ TypeOK /\ RowsUnique /\ WorkerInv(t) /\ pc[t] = "userInsert"
      /\ sess[t] \in Session /\ sess[t].key \in Keys
      /\ sess[t].name = req[t].name
    BY DEF SessInv, TypeOK, UserInsert, WorkerInv
<1>1. /\ UNCHANGED <<groupRows, backups, interrupted>>
      /\ RestUnchanged
    BY DEF UserInsert
<1>2. CASE Rows(sess[t].name, sess[t].group) # {}
    BY <1>0, <1>1, <1>2, AnswerEnds, TablesTyped, TableStep DEF UserInsert, Fail
<1>3. CASE Rows(sess[t].name, sess[t].group) = {}
    <2> DEFINE row == RowOf(sess[t])
    <2>1. /\ Proceed(t, "backup")
          /\ userRows' = userRows \cup {row}
        BY <1>3 DEF UserInsert
    <2>2. /\ row \in UserRow
          /\ row.name = sess[t].name /\ row.group = sess[t].group
          /\ row.key = sess[t].key
        BY <1>0 DEF RowOf, UserRow, Session
    <2>3. /\ LocalsTyped' /\ OthersStay(t)
          /\ pc'[t] = "backup" /\ req'[t] = req[t] /\ sess'[t] = sess[t]
        BY <1>0, <2>1, ProceedMoves DEF LoginSteps
    <2>4. WorkerInv(t)'
        BY <1>0, <2>1, <2>3 DEF WorkerInv, BeforeKeyPair, HasRow
    <2>5. LimInv'
        BY <1>1, LimiterIdle DEF SessInv, RestUnchanged
    <2>6. TypeOK'
        BY <1>0, <1>1, <2>1, <2>2, <2>3, <2>5
        DEF TypeOK, LimInv, LocalsTyped, RestUnchanged
    <2>7. RowsUnique'
        BY <1>0, <1>3, <2>1, <2>2 DEF RowsUnique, Rows
    <2>8. BackupMissingOnlyIfInterrupted'
        <3> SUFFICES ASSUME NEW u \in userRows'
                     PROVE  \/ u.key \in backups' \cup interrupted'
                            \/ \E s \in Threads : pc'[s] = "backup" /\ sess'[s].key = u.key
            BY DEF BackupMissingOnlyIfInterrupted
        <3>1. CASE u = row
            BY <3>1, <2>2, <2>3
        <3>2. CASE u \in userRows
            <4>1. \/ u.key \in backups \cup interrupted
                  \/ \E s \in Threads : pc[s] = "backup" /\ sess[s].key = u.key
                BY <3>2 DEF SessInv, BackupMissingOnlyIfInterrupted
            <4> QED BY <4>1, <1>0, <1>1, <2>3 DEF OthersStay
        <3> QED BY <2>1, <3>1, <3>2
    <2> QED
        BY <1>1, <2>1, <2>3, <2>4, <2>5, <2>6, <2>7, <2>8,
           WorkersKeep, EntriesKeep, TokensKeep
        DEF SessInv, RestUnchanged
<1> QED BY <1>2, <1>3

(* The backup is written, or the creation is cut short. *)
LEMMA BackupInv ==
    ASSUME SessInv, NEW t \in Threads, Backup(t) PROVE SessInv'
<1>0. /\ TypeOK /\ WorkerInv(t) /\ pc[t] = "backup"
      /\ RowOf(sess[t]) \in userRows /\ sess[t].name = req[t].name
    BY DEF SessInv, Backup, WorkerInv, HasRow
<1>1. sess[t].key \in Keys
    <2>1. RowOf(sess[t]) \in UserRow
        BY <1>0 DEF TypeOK
    <2>2. RowOf(sess[t]).key = sess[t].key
        BY DEF RowOf
    <2> QED BY <2>1, <2>2 DEF UserRow
<1>2. UNCHANGED <<groupRows, userRows>> /\ RestUnchanged
    BY DEF Backup
<1>3. CASE SupportKeyConfigured
    <2>1. /\ Proceed(t, "add")
          /\ backups' = backups \cup {sess[t].key}
          /\ interrupted' = interrupted
        BY <1>3 DEF Backup, WithBackup
    <2>2. LocalsTyped' /\ OthersStay(t) /\ WorkerInv(t)'
        BY <1>0, <1>2, <2>1, ProceedMoves DEF LoginSteps, WorkerInv, BeforeKeyPair, HasRow
    <2> QED BY <1>1, <1>2, <2>1, <2>2, TablesTyped, TableStep
<1>4. CASE ~SupportKeyConfigured
    <2>1. /\ Fail(t)
          /\ interrupted' = interrupted \cup {sess[t].key}
          /\ backups' = backups
        BY <1>4 DEF Backup
    <2>2. LocalsTyped' /\ OthersStay(t) /\ WorkerInv(t)'
        BY <1>0, <2>1, AnswerEnds DEF Fail
    <2> QED BY <1>1, <1>2, <2>1, <2>2, TablesTyped, TableStep
<1> QED BY <1>3, <1>4

LEMMA DbFailsInv ==
    ASSUME SessInv, NEW t \in Threads, DbFails(t) PROVE SessInv'
<1>0. TypeOK /\ WorkerInv(t)
    BY DEF SessInv
<1>1. pc[t] = "backup" => sess[t].key \in Keys
    <2> SUFFICES ASSUME pc[t] = "backup" PROVE sess[t].key \in Keys
        OBVIOUS
    <2>1. RowOf(sess[t]) \in UserRow
        BY <1>0 DEF TypeOK, WorkerInv, HasRow
    <2>2. RowOf(sess[t]).key = sess[t].key
        BY DEF RowOf
    <2> QED BY <2>1, <2>2 DEF UserRow
<1>2. LocalsTyped' /\ OthersStay(t) /\ WorkerInv(t)'
    BY <1>0, AnswerEnds DEF DbFails, Fail
<1>3. /\ interrupted' \subseteq Keys /\ interrupted \subseteq interrupted'
      /\ pc[t] = "backup" => sess[t].key \in interrupted'
    BY <1>1, TablesTyped DEF DbFails
<1> QED BY <1>2, <1>3, TablesTyped, TableStep DEF DbFails

-----------------------------------------------------------------------------
(* The session goes into the cache. *)
LEMMA AddInv ==
    ASSUME SessInv, NEW t \in Threads, Add(t) PROVE SessInv'
<1> DEFINE n == sess[t].name
           e == [session |-> sess[t], access |-> now]
<1>0. /\ TypeOK /\ WorkerInv(t) /\ pc[t] = "add"
      /\ RowOf(sess[t]) \in userRows /\ n = req[t].name /\ n \in Users
    BY DEF SessInv, TypeOK, Add, WorkerInv, HasRow, Session
<1>1. /\ pc' = [pc EXCEPT ![t] = "issue"]
      /\ cache' = [cache EXCEPT ![n] = e]
      /\ UNCHANGED <<req, sess, groupRows, userRows, backups, tokens, now, logins,
                     restarts, interrupted, limVars>>
    BY DEF Add, Goto
<1>2. LimInv'
    BY <1>1, LimiterIdle DEF SessInv
<1>3. LocalsTyped' /\ OthersStay(t)
    BY <1>0, <1>1 DEF TypeOK, LocalsTyped, OthersStay, LoginSteps
<1>4. e \in [session : Session, access : 0 .. MaxTime]
    BY <1>0 DEF TypeOK
<1>5. cache' \in [Users -> {NoSession} \cup [session : Session, access : 0 .. MaxTime]]
    <2> HIDE DEF e, n
    <2> QED BY <1>0, <1>1, <1>4 DEF TypeOK
<1>6. TypeOK'
    BY <1>0, <1>1, <1>2, <1>3, <1>5 DEF TypeOK, LimInv, LocalsTyped
<1>7. WorkerInv(t)'
    BY <1>0, <1>1 DEF TypeOK, WorkerInv, BeforeKeyPair, HasRow
<1>8. \A m \in Users : EntryInv(m)'
    <2> TAKE m \in Users
    <2>1. EntryInv(m)
        BY DEF SessInv
    <2>2. CASE m = n
        <3>1. cache'[m] = e
            BY <2>2, <1>0, <1>1 DEF TypeOK
        <3>2. e.session = sess[t]
            OBVIOUS
        <3> HIDE DEF e
        <3> QED BY <2>2, <3>1, <3>2, <1>0, <1>1 DEF EntryInv
    <2>3. CASE m # n
        BY <2>1, <2>3, <1>0, <1>1 DEF TypeOK, EntryInv
    <2> QED BY <2>2, <2>3
<1>9. RowsUnique'
    BY <1>1 DEF SessInv, RowsUnique
<1> QED
    BY <1>0, <1>1, <1>2, <1>3, <1>6, <1>7, <1>8, <1>9,
       WorkersKeep, TokensKeep, BackupsKeep
    DEF SessInv

(* The token is given out for the key pair of the session. *)
LEMMA IssueTokenInv ==
    ASSUME SessInv, NEW t \in Threads, IssueToken(t) PROVE SessInv'
<1> DEFINE tok == [name |-> req[t].name, key |-> sess[t].key,
                   ip |-> req[t].ip, group |-> req[t].group, at |-> now]
<1>0. /\ TypeOK /\ WorkerInv(t) /\ pc[t] = "issue"
      /\ RowOf(sess[t]) \in userRows /\ sess[t].name = req[t].name
    BY DEF SessInv, IssueToken, WorkerInv, HasRow
<1>1. /\ Answer(t)
      /\ tokens' \subseteq tokens \cup {tok}
      /\ UNCHANGED <<cache, groupRows, userRows, backups, now, logins, restarts,
                     interrupted, limVars>>
    BY DEF IssueToken
<1>2. LimInv'
    BY <1>1, LimiterIdle DEF SessInv
<1>3. LocalsTyped' /\ OthersStay(t) /\ WorkerInv(t)'
    BY <1>0, <1>1, AnswerEnds
<1>4. /\ RowOf(sess[t]).name = tok.name
      /\ RowOf(sess[t]).key = tok.key
    BY <1>0 DEF RowOf
<1>5. tok \in Token
    <2>1. RowOf(sess[t]) \in UserRow
        BY <1>0 DEF TypeOK
    <2>2. tok.key \in Keys
        BY <2>1, <1>4 DEF UserRow
    <2> QED BY <2>2, <1>0 DEF TypeOK, Request, Token
<1>6. TypeOK'
    BY <1>0, <1>1, <1>2, <1>3, <1>5 DEF TypeOK, LimInv, LocalsTyped
<1>7. TokenKeyIsStored'
    <2> HIDE DEF tok
    <2> QED BY <1>0, <1>1, <1>4 DEF SessInv, TokenKeyIsStored
<1>8. RowsUnique'
    BY <1>1 DEF SessInv, RowsUnique
<1> QED
    BY <1>0, <1>1, <1>2, <1>3, <1>6, <1>7, <1>8,
       WorkersKeep, EntriesKeep, BackupsKeep
    DEF SessInv

(* A presented token touches the cache only. *)
LEMMA getSessionInv ==
    ASSUME SessInv, NEW tok \in tokens, getSession(tok) PROVE SessInv'
<1> DEFINE n == tok.name
           E == [session : Session, access : 0 .. MaxTime]
<1>0. TypeOK /\ n \in Users
    BY DEF SessInv, TypeOK, Token
<1>1. /\ cache' = [cache EXCEPT ![n] =
                      IF Live(n) THEN [cache[n] EXCEPT !.access = now] ELSE NoSession]
      /\ UNCHANGED <<pc, req, sess, groupRows, userRows, backups, tokens, now,
                     logins, restarts, interrupted, limVars>>
    BY DEF getSession
<1>2. LimInv'
    BY <1>1, LimiterIdle DEF SessInv
<1>3. \A m \in Users : cache'[m] \in {NoSession} \cup E /\ EntryInv(m)'
    <2> TAKE m \in Users
    <2>1. EntryInv(m) /\ cache[m] \in {NoSession} \cup E
        BY <1>0 DEF SessInv, TypeOK
    <2>2. CASE m # n
        BY <2>1, <2>2, <1>0, <1>1 DEF TypeOK, EntryInv
    <2>3. CASE m = n /\ ~Live(n)
        BY <2>3, <1>0, <1>1 DEF TypeOK, EntryInv
    <2>4. CASE m = n /\ Live(n)
        <3>1. cache[m] # NoSession /\ cache[m] \in E
            BY <2>1, <2>4 DEF Live
        <3>2. cache'[m] = [cache[m] EXCEPT !.access = now]
            BY <2>4, <1>0, <1>1 DEF TypeOK
        <3>3. cache'[m] = [session |-> cache[m].session, access |-> now]
            BY <3>1, <3>2, AccessNoted
        <3>4. cache'[m] \in E
            BY <1>0, <3>1, <3>3 DEF TypeOK
        <3>5. cache'[m].session = cache[m].session
            BY <3>3
        <3>6. EntryInv(m)'
            BY <2>1, <3>1, <3>5, <1>1 DEF EntryInv
        <3> QED BY <3>4, <3>6
    <2> QED BY <2>2, <2>3, <2>4
<1>4. cache' \in [Users -> {NoSession} \cup E]
    <2>1. cache' = [m \in Users |-> cache'[m]]
        BY <1>0, <1>1 DEF TypeOK
    <2> HIDE DEF E
    <2> QED BY <2>1, <1>3
<1>5. TypeOK'
    BY <1>0, <1>1, <1>2, <1>4 DEF TypeOK, LimInv
<1>6. \A t \in Threads : WorkerInv(t)'
    BY <1>1 DEF SessInv, WorkerInv
<1>7. RowsUnique' /\ TokenKeyIsStored' /\ BackupMissingOnlyIfInterrupted'
    BY <1>1 DEF SessInv, RowsUnique, TokenKeyIsStored, BackupMissingOnlyIfInterrupted
<1> QED BY <1>2, <1>3, <1>5, <1>6, <1>7 DEF SessInv

LEMMA TickInv == ASSUME SessInv, Tick PROVE SessInv'
<1>1. LimInv'
    BY LimiterIdle DEF SessInv, Tick
<1>2. TypeOK'
    BY <1>1, SessionBounds DEF SessInv, TypeOK, LimInv, Tick
<1>3. \A t \in Threads : WorkerInv(t)'
    BY DEF SessInv, WorkerInv, Tick
<1>4. \A n \in Users : EntryInv(n)'
    BY DEF SessInv, EntryInv, Tick
<1>5. RowsUnique' /\ TokenKeyIsStored' /\ BackupMissingOnlyIfInterrupted'
    BY DEF SessInv, RowsUnique, TokenKeyIsStored, BackupMissingOnlyIfInterrupted, Tick
<1> QED BY <1>1, <1>2, <1>3, <1>4, <1>5 DEF SessInv

(* A restart empties the limiter and the cache and ends every login; the   *)
(* creations that had saved their user and not yet the backup are the      *)
(* interrupted ones.                                                       *)
LEMMA RestartInv == ASSUME SessInv, Restart PROVE SessInv'
<1>0. TypeOK
    BY DEF SessInv
<1>1. LimInv'
    <2>1. LimTypeOK'
        BY <1>0, MaxWaitAssumption DEF TypeOK, LimTypeOK, LimStates, Restart
    <2>2. Encrypting' = {}
        BY DEF Restart, Encrypting
    <2>3. SlotsExact' /\ OneEncryptionPerUser' /\ LeakedSlotIsFinal'
        BY <2>2 DEF SlotsExact, OneEncryptionPerUser, LeakedSlotIsFinal, Restart
    <2>4. Cardinality(mRunningEncryptions') <= CpuCount
        BY FS_EmptySet, CpuCountAssumption DEF Restart
    <2> QED BY <2>1, <2>3, <2>4 DEF LimInv
<1>2. interrupted' \subseteq Keys
    <2>1. ASSUME NEW t \in Threads, pc[t] = "backup" PROVE sess[t].key \in Keys
        <3>1. RowOf(sess[t]) \in UserRow
            BY <2>1, <1>0 DEF SessInv, TypeOK, WorkerInv, HasRow
        <3>2. RowOf(sess[t]).key = sess[t].key
            BY DEF RowOf
        <3> QED BY <3>1, <3>2 DEF UserRow
    <2> QED BY <2>1, TablesTyped DEF Restart
<1>3. /\ pc' = [t \in Threads |-> "idle"]
      /\ cache' = [n \in Users |-> NoSession]
      /\ UNCHANGED <<groupRows, userRows, backups, tokens, now, logins>>
    BY DEF Restart
<1>4. LocalsTyped'
    BY <1>3, NoRequestType DEF LocalsTyped, Restart, LoginSteps
<1>5. restarts' \in 0 .. MaxRestarts
    BY <1>0, SessionBounds DEF TypeOK, Restart
<1>6. TypeOK'
    BY <1>0, <1>1, <1>2, <1>3, <1>4, <1>5 DEF TypeOK, LimInv, LocalsTyped
<1>7. \A t \in Threads : WorkerInv(t)'
    BY <1>3 DEF WorkerInv, BeforeKeyPair, HasRow
<1>8. \A n \in Users : EntryInv(n)'
    BY <1>3 DEF EntryInv
<1>9. RowsUnique' /\ TokenKeyIsStored'
    BY <1>3 DEF SessInv, RowsUnique, TokenKeyIsStored
<1>10. BackupMissingOnlyIfInterrupted'
    BY <1>3 DEF SessInv, BackupMissingOnlyIfInterrupted, Restart
<1> QED BY <1>1, <1>6, <1>7, <1>8, <1>9, <1>10 DEF SessInv

-----------------------------------------------------------------------------
(* Every step preserves the invariant. *)
LEMMA SessNextInv == SessInv /\ [Next]_vars => SessInv'
<1> SUFFICES ASSUME SessInv, [Next]_vars PROVE SessInv'
    OBVIOUS
<1>1. ASSUME NEW t \in Threads, LoginStep(t) PROVE SessInv'
    BY <1>1, LoginCachedInv, LoginMissInv, EncryptInv, EncryptReturnsInv,
       GroupStepsInv, UserSelectInv, UserInsertInv, BackupInv, DbFailsInv,
       AddInv, IssueTokenInv
    DEF LoginStep
<1>2. CASE UNCHANGED vars
    <2>1. LimInv'
        BY <1>2, LimiterIdle DEF SessInv, vars
    <2>2. TypeOK'
        BY <1>2, <2>1 DEF SessInv, TypeOK, LimInv, vars, sessionVars
    <2>3. (\A t \in Threads : WorkerInv(t)') /\ (\A n \in Users : EntryInv(n)')
        BY <1>2 DEF SessInv, WorkerInv, EntryInv, vars, sessionVars
    <2>4. RowsUnique' /\ TokenKeyIsStored' /\ BackupMissingOnlyIfInterrupted'
        BY <1>2 DEF SessInv, RowsUnique, TokenKeyIsStored,
                    BackupMissingOnlyIfInterrupted, vars, sessionVars
    <2> QED BY <2>1, <2>2, <2>3, <2>4 DEF SessInv
<1> QED
    BY <1>1, <1>2, LoginRequestInv, getSessionInv, TickInv, RestartInv DEF Next

LEMMA SessInvAlways == Spec => []SessInv
BY SessInitInv, SessNextInv, PTL DEF Spec

(* Type correctness: in particular every key pair that a session, a row, a *)
(* backup or a token names was generated.                                  *)
THEOREM TypeCorrect == Spec => []TypeOK
<1>1. SessInv => TypeOK
    BY DEF SessInv
<1> QED BY <1>1, SessInvAlways, PTL

(* However many workers race for the first login of a user, and wherever   *)
(* the process is stopped: what is cached or about to be cached can only   *)
(* sign with the key pair that table user stores (Session.cpp 33-66).      *)
THEOREM SessionsMatchRows == Spec => []SessionMatchesRow
<1>1. SessInv => SessionMatchesRow
    <2> SUFFICES ASSUME SessInv, NEW s \in Usable PROVE RowOf(s) \in userRows
        BY DEF SessionMatchesRow
    <2>1. ASSUME NEW n \in Users, cache[n] # NoSession, s = cache[n].session
          PROVE  RowOf(s) \in userRows
        BY <2>1 DEF SessInv, EntryInv
    <2>2. ASSUME NEW t \in Threads, pc[t] \in {"add", "issue"}, s = sess[t]
          PROVE  RowOf(s) \in userRows
        BY <2>2 DEF SessInv, WorkerInv, HasRow
    <2> QED BY <2>1, <2>2 DEF Usable
<1> QED BY <1>1, SessInvAlways, PTL

(* No token outlives or precedes the row of the key pair it names          *)
(* (SessionManager::login lines 41-51).                                    *)
THEOREM TokenKeysAreStored == Spec => []TokenKeyIsStored
<1>1. SessInv => TokenKeyIsStored
    BY DEF SessInv
<1> QED BY <1>1, SessInvAlways, PTL

(* The session a token opens has the key pair the token names, as far as   *)
(* that is stored for the session's group: the row of a name and a group   *)
(* is unique, and a cached session holds what its row does                 *)
(* (SessionManager::getSession line 63).                                   *)
THEOREM TokensOpenTheirKeys == Spec => []TokenOpensItsKey
<1>1. SessInv => TokenOpensItsKey
    <2> SUFFICES ASSUME SessInv, NEW tok \in tokens, cache[tok.name] # NoSession,
                        NEW u \in userRows, u.name = tok.name, u.key = tok.key,
                        u.group = cache[tok.name].session.group
                 PROVE  cache[tok.name].session.key = tok.key
        BY DEF TokenOpensItsKey
    <2> DEFINE s == cache[tok.name].session
    <2>1. tok.name \in Users
        BY DEF SessInv, TypeOK, Token
    <2>2. RowOf(s) \in userRows /\ s.name = tok.name
        BY <2>1 DEF SessInv, EntryInv
    <2>3. RowOf(s) = u
        BY <2>2 DEF SessInv, RowsUnique, RowOf
    <2> QED BY <2>3 DEF RowOf
<1> QED BY <1>1, SessInvAlways, PTL

(* A user without a passphrase backup is one whose creation is under way   *)
(* or was cut short between User::save and UserBackup::save.               *)
THEOREM BackupsAreAccounted == Spec => []BackupMissingOnlyIfInterrupted
<1>1. SessInv => BackupMissingOnlyIfInterrupted
    BY DEF SessInv
<1> QED BY <1>1, SessInvAlways, PTL

(* The limiter keeps its promises inside the running system, where its     *)
(* callers are the logins and a restart may empty it at any moment.        *)
THEOREM LimiterHoldsInSessions ==
    Spec => [](SlotsExact /\ OneEncryptionPerUser /\ LeakedSlotIsFinal /\ EncryptionsBounded)
<1>1. SessInv =>
         SlotsExact /\ OneEncryptionPerUser /\ LeakedSlotIsFinal /\ EncryptionsBounded
    BY InvImpliesBounded DEF SessInv, LimInv
<1> QED BY <1>1, SessInvAlways, PTL
=============================================================================
