------------------------------ MODULE Sessions ------------------------------
(***************************************************************************)
(* Logging in (src/SessionManager.cpp, src/model/Session.cpp with the      *)
(* group, user and user_backup tables, and the /login handler).            *)
(*                                                                         *)
(* Worker threads run logins concurrently.  A login looks the name up in   *)
(* the session cache; when it is not there, it derives a key under the     *)
(* rate limiter, takes a database connection, finds or creates the group   *)
(* and the user, writes the passphrase backup, and puts the session into   *)
(* the cache.  No lock and no database transaction spans these steps: the  *)
(* unique keys of the tables decide races, and a failure or a crash leaves *)
(* the rows that were already written.  A token is good for whatever       *)
(* session the cache holds for its name when it is presented.              *)
(*                                                                         *)
(* Threads and Users of the limiter are the HTTP workers and the user      *)
(* names.  A group's id is identified with its alias, a user's row with    *)
(* its public key.                                                         *)
(***************************************************************************)
EXTENDS PasswordEncryptionRateLimiter, FiniteSetsExt

CONSTANTS
    Groups, Passwords, Ips,
    NoSession,               \* what the cache returns for a name it does not hold
    PoolMax,                 \* connections of the database pool
    SessionValidDuration,    \* ServerConfig::g_SessionValidDuration
    SupportKeyConfigured,    \* CryptoConfig::g_SupportPublicKey is set
    MaxTime, MaxLogins, MaxRestarts   \* bounds of the clock and the inputs

ASSUME PoolAssumption     == PoolMax \in Nat \ {0}
ASSUME DurationAssumption == SessionValidDuration \in Nat \ {0}
ASSUME SupportAssumption  == SupportKeyConfigured \in BOOLEAN
ASSUME SessionBounds      == /\ MaxTime \in Nat
                             /\ MaxLogins \in Nat
                             /\ MaxRestarts \in Nat
ASSUME GroupsAssumption   == IsFiniteSet(Groups)

VARIABLES
    pc,           \* where each worker is in its login
    req,          \* the login request it works on
    sess,         \* its model::Session
    cache,        \* mActiveSessions: by user name only
    groupRows,    \* the aliases in table group
    userRows,     \* table user, UNIQUE (name, group_id)
    backups,      \* table user_backup: the users that have a row
    tokens,       \* the JWTs given out; ip, group and at are history
    now,          \* the clock
    logins, restarts,   \* how many happened
    interrupted   \* history: users whose creation stopped before the backup

sessionVars == <<pc, req, sess, cache, groupRows, userRows, backups, tokens,
                 now, logins, restarts, interrupted>>
vars == <<sessionVars, limVars>>

NoKey == 0
(* Enough key pairs that a generated one is always new. *)
Keys == 1 .. Cardinality(Users) * Cardinality(Groups) + Cardinality(Threads)

Request == [name : Users, password : Passwords, group : Groups, ip : Ips]
Session == [name : Users, password : Passwords, group : Groups, ip : Ips,
            key : Keys \cup {NoKey}]
UserRow == [name : Users, group : Groups, password : Passwords, key : Keys]
Token   == [name : Users, key : Keys, ip : Ips, group : Groups, at : 0 .. MaxTime]

(* Somebody can log in. *)
ASSUME RequestAssumption == Request # {}

LoginSteps == {"idle", "login", "encrypt", "connect", "groupConnect",
               "groupQuery", "groupInsert", "userSelect", "userInsert",
               "backup", "add", "issue"}

TypeOK ==
    /\ LimTypeOK
    /\ pc \in [Threads -> LoginSteps]
    /\ req \in [Threads -> Request]
    /\ sess \in [Threads -> Session]
    /\ cache \in [Users -> {NoSession} \cup
                             [session : Session, access : 0 .. MaxTime]]
    /\ groupRows \subseteq Groups
    /\ userRows \subseteq UserRow
    /\ backups \subseteq Keys /\ interrupted \subseteq Keys
    /\ tokens \subseteq Token
    /\ now \in 0 .. MaxTime
    /\ logins \in 0 .. MaxLogins /\ restarts \in 0 .. MaxRestarts

(* What the locals of an idle worker hold: any value will do. *)
NoRequest == CHOOSE r \in Request : TRUE

(* The members loginOrCreate sets first (lines 33-34); no key pair yet. *)
NewSession(r) ==
    [name |-> r.name, password |-> r.password, group |-> r.group, ip |-> r.ip,
     key |-> NoKey]

Init ==
    /\ LimInit
    /\ limUser = [t \in Threads |-> CHOOSE u \in Users : TRUE]
    /\ pc = [t \in Threads |-> "idle"]
    /\ req = [t \in Threads |-> NoRequest]
    /\ sess = [t \in Threads |-> NewSession(NoRequest)]
    /\ cache = [n \in Users |-> NoSession]
    /\ groupRows = {} /\ userRows = {} /\ backups = {} /\ interrupted = {}
    /\ tokens = {}
    /\ now = 0 /\ logins = 0 /\ restarts = 0

-----------------------------------------------------------------------------
Goto(t, step)    == pc' = [pc EXCEPT ![t] = step]
Proceed(t, step) == Goto(t, step) /\ UNCHANGED <<req, sess>>

(* The login is answered, with a token or, after an exception, with an     *)
(* error; its locals are gone.                                             *)
Answer(t) ==
    /\ Goto(t, "idle")
    /\ req' = [req EXCEPT ![t] = NoRequest]
    /\ sess' = [sess EXCEPT ![t] = NewSession(NoRequest)]
Fail(t) == Answer(t)

(* Poco::AccessExpireCache: an entry lives SessionValidDuration after its  *)
(* last access.                                                            *)
Live(n) == /\ cache[n] # NoSession
           /\ now - cache[n].access < SessionValidDuration

Rows(n, g) == {u \in userRows : u.name = n /\ u.group = g}

(* The connections a worker holds: one from line 41 of loginOrCreate to    *)
(* its return, a second one inside Group::load.                            *)
Held(t) ==
    CASE pc[t] = "groupQuery" -> 2
      [] pc[t] \in {"groupConnect", "groupInsert", "userSelect", "userInsert",
                    "backup"} -> 1
      [] OTHER -> 0
PoolUsed == MapThenSumSet(Held, Threads)

(* KeyPairEd25519::create: a key pair nobody has. *)
UsedKeys == {u.key : u \in userRows} \cup {sess[t].key : t \in Threads}
FreshKey == CHOOSE k \in Keys \ UsedKeys : TRUE

-----------------------------------------------------------------------------
(* /login with all parameters present, a valid alias and a password that   *)
(* decrypts reaches SessionManager::login.                                 *)
LoginRequest(t, r) ==
    /\ pc[t] = "idle"
    /\ logins < MaxLogins
    /\ Goto(t, "login")
    /\ req' = [req EXCEPT ![t] = r]
    /\ logins' = logins + 1
    /\ UNCHANGED <<sess, cache, groupRows, userRows, backups, tokens, now,
                   restarts, interrupted, limVars>>

(* SessionManager::login, line 29: the cache has a live session for the    *)
(* name.  The access is noted; password and group of the request play no   *)
(* further role.                                                           *)
LoginCached(t) ==
    LET n == req[t].name IN
    /\ pc[t] = "login"
    /\ Live(n)
    /\ Goto(t, "issue")
    /\ sess' = [sess EXCEPT ![t] = cache[n].session]
    /\ cache' = [cache EXCEPT ![n].access = now]
    /\ UNCHANGED <<req, groupRows, userRows, backups, tokens, now, logins,
                   restarts, interrupted, limVars>>

(* Lines 30-32: an expired entry is dropped, a new Session is filled in    *)
(* and enters the rate limiter.                                            *)
LoginMiss(t) ==
    LET n == req[t].name IN
    /\ pc[t] = "login"
    /\ ~Live(n)
    /\ Goto(t, "encrypt")
    /\ sess' = [sess EXCEPT ![t] = NewSession(req[t])]
    /\ cache' = [cache EXCEPT ![n] = NoSession]
    /\ Call(t, n)
    /\ UNCHANGED <<req, groupRows, userRows, backups, tokens, now, logins,
                   restarts, interrupted>>

(* A step of the limiter while the login waits in it. *)
Encrypt(t) ==
    /\ pc[t] = "encrypt"
    /\ LimStep(t)
    /\ UNCHANGED sessionVars

EncryptReturns(t) ==
    /\ pc[t] = "encrypt"
    /\ Return(t)
    /\ IF limPc[t] = "done" THEN Proceed(t, "connect") ELSE Fail(t)
    /\ UNCHANGED <<cache, groupRows, userRows, backups, tokens, now, logins,
                   restarts, interrupted>>

(* What the database steps leave alone. *)
NoTableChange == UNCHANGED <<groupRows, userRows, backups, interrupted>>
RestUnchanged == UNCHANGED <<cache, tokens, now, logins, restarts, limVars>>

(* getConnection: a pool without a free connection throws. *)
Connect(t) ==
    /\ pc[t] = "connect"
    /\ IF PoolUsed < PoolMax THEN Proceed(t, "groupConnect") ELSE Fail(t)
    /\ NoTableChange /\ RestUnchanged

GroupConnectMutant_Waits(t) ==
    /\ pc[t] = "groupConnect"
    /\ PoolUsed < PoolMax
    /\ Proceed(t, "groupQuery")
    /\ NoTableChange /\ RestUnchanged
GroupConnect(t) ==
    /\ pc[t] = "groupConnect"
    /\ IF PoolUsed < PoolMax THEN Proceed(t, "groupQuery") ELSE Fail(t)
    /\ NoTableChange /\ RestUnchanged

(* Group::load finds the alias or throws RowNotFoundException, which makes *)
(* getGroupId create the group.                                            *)
GroupLoads(alias) == alias \in groupRows
GroupQuery(t) ==
    /\ pc[t] = "groupQuery"
    /\ Proceed(t, IF GroupLoads(sess[t].group) THEN "userSelect" ELSE "groupInsert")
    /\ NoTableChange /\ RestUnchanged

(* Group::save; the alias is unique, a second insert throws. *)
GroupInsert(t) ==
    /\ pc[t] = "groupInsert"
    /\ IF sess[t].group \in groupRows
       THEN Fail(t) /\ UNCHANGED groupRows
       ELSE Proceed(t, "userSelect") /\ groupRows' = groupRows \cup {sess[t].group}
    /\ UNCHANGED <<userRows, backups, interrupted>> /\ RestUnchanged

(* Lines 50-65: the user exists; the password must be the stored one, and  *)
(* the stored private key becomes the session's.                           *)
UserFound(t) ==
    \E u \in Rows(sess[t].name, sess[t].group) :
        IF u.password = sess[t].password
        THEN /\ Goto(t, "add")
             /\ sess' = [sess EXCEPT ![t].key = u.key]
             /\ UNCHANGED req
        ELSE Fail(t)

(* The user does not exist: createNewUser generates a key pair. *)
UserMissingMutant_NoKeyPair(t) ==
    /\ Rows(sess[t].name, sess[t].group) = {}
    /\ Goto(t, "userInsert")
    /\ UNCHANGED <<sess, req>>
UserMissing(t) ==
    /\ Rows(sess[t].name, sess[t].group) = {}
    /\ Goto(t, "userInsert")
    /\ sess' = [sess EXCEPT ![t].key = FreshKey]
    /\ UNCHANGED req

UserSelect(t) ==
    /\ pc[t] = "userSelect"
    /\ UserFound(t) \/ UserMissing(t)
    /\ NoTableChange /\ RestUnchanged

(* User::save; (name, group_id) is unique: the loser of a race throws. *)
RowOf(s) ==
    [name |-> s.name, group |-> s.group, password |-> s.password, key |-> s.key]
UserInsertMutant_IgnoresDuplicate(t) ==
    /\ pc[t] = "userInsert"
    /\ Proceed(t, "backup")
    /\ userRows' = IF Rows(sess[t].name, sess[t].group) # {} THEN userRows
                   ELSE userRows \cup {RowOf(sess[t])}
    /\ UNCHANGED <<groupRows, backups, interrupted>> /\ RestUnchanged
UserInsert(t) ==
    /\ pc[t] = "userInsert"
    /\ IF Rows(sess[t].name, sess[t].group) # {}
       THEN Fail(t) /\ UNCHANGED userRows
       ELSE Proceed(t, "backup") /\ userRows' = userRows \cup {RowOf(sess[t])}
    /\ UNCHANGED <<groupRows, backups, interrupted>> /\ RestUnchanged

(* UserBackup::save. *)
WithBackup(s) == backups \cup {s.key}

(* Lines 128-141: without the support key the creation stops with          *)
(* MissingKeyException, after the user has been saved.                     *)
BackupMutant_Skipped(t) ==
    /\ pc[t] = "backup"
    /\ Proceed(t, "add")
    /\ NoTableChange /\ RestUnchanged
Backup(t) ==
    /\ pc[t] = "backup"
    /\ IF SupportKeyConfigured
       THEN /\ Proceed(t, "add")
            /\ backups' = WithBackup(sess[t])
            /\ UNCHANGED interrupted
       ELSE /\ Fail(t)
            /\ interrupted' = interrupted \cup {sess[t].key}
            /\ UNCHANGED backups
    /\ UNCHANGED <<groupRows, userRows>> /\ RestUnchanged

(* A statement of the steps above fails (connection lost, server gone). *)
DbFails(t) ==
    /\ pc[t] \in {"groupQuery", "groupInsert", "userSelect", "userInsert", "backup"}
    /\ Fail(t)
    /\ interrupted' = IF pc[t] = "backup" THEN interrupted \cup {sess[t].key}
                      ELSE interrupted
    /\ UNCHANGED <<groupRows, userRows, backups>> /\ RestUnchanged

(* SessionManager::login, line 33: replaces whatever another login of the  *)
(* name has put there meanwhile.                                           *)
Add(t) ==
    /\ pc[t] = "add"
    /\ Goto(t, "issue")
    /\ cache' = [cache EXCEPT ![sess[t].name] = [session |-> sess[t], access |-> now]]
    /\ UNCHANGED <<req, sess, groupRows, userRows, backups, tokens, now, logins,
                   restarts, interrupted, limVars>>

(* Lines 35-51: the client's address must be the session's; then the token *)
(* for the session's public key is the answer.                             *)
IssueToken(t) ==
    /\ pc[t] = "issue"
    /\ Answer(t)
    /\ tokens' = IF sess[t].ip # req[t].ip \/ sess[t].key = NoKey THEN tokens
                 ELSE tokens \cup
                        {[name |-> req[t].name, key |-> sess[t].key,
                          ip |-> req[t].ip, group |-> req[t].group, at |-> now]}
    /\ UNCHANGED <<cache, groupRows, userRows, backups, now, logins, restarts,
                   interrupted, limVars>>

-----------------------------------------------------------------------------
(* SessionManager::getSession(token, ip) on a token whose signature is     *)
(* good: the outcome in the current state.                                 *)
getSessionOutcome(tok, ip) ==
    CASE ~Live(tok.name) -> "no session found"
      [] Live(tok.name) /\ cache[tok.name].session.ip # ip -> "invalid ip"
      [] OTHER -> "ok"

(* Its effect: looking the name up notes the access, or drops an expired   *)
(* entry, before the ip is compared.                                       *)
getSession(tok) ==
    /\ cache' = [cache EXCEPT ![tok.name] =
                    IF Live(tok.name) THEN [@ EXCEPT !.access = now] ELSE NoSession]
    /\ UNCHANGED <<pc, req, sess, groupRows, userRows, backups, tokens, now,
                   logins, restarts, interrupted, limVars>>

(* Time passes. *)
Tick ==
    /\ now < MaxTime
    /\ now' = now + 1
    /\ UNCHANGED <<pc, req, sess, cache, groupRows, userRows, backups, tokens,
                   logins, restarts, interrupted, limVars>>

(* The process stops at any point and is started again: memory is lost,    *)
(* the tables and the tokens in the clients' hands are not.                *)
Restart ==
    /\ restarts < MaxRestarts
    /\ restarts' = restarts + 1
    /\ pc' = [t \in Threads |-> "idle"]
    /\ cache' = [n \in Users |-> NoSession]
    /\ interrupted' = interrupted \cup
                         {sess[t].key : t \in {s \in Threads : pc[s] = "backup"}}
    /\ mRunningEncryptions' = {} /\ leaked' = {}
    /\ limPc' = [t \in Threads |-> "idle"]
    /\ req' = [t \in Threads |-> NoRequest]
    /\ sess' = [t \in Threads |-> NewSession(NoRequest)]
    /\ waited' = [t \in Threads |-> 0]
    /\ UNCHANGED <<groupRows, userRows, backups, tokens, now, logins, limUser>>

(* The next step of the login a worker is busy with. *)
LoginStep(t) ==
    \/ LoginCached(t) \/ LoginMiss(t) \/ Encrypt(t) \/ EncryptReturns(t)
    \/ Connect(t) \/ GroupConnect(t) \/ GroupQuery(t) \/ GroupInsert(t)
    \/ UserSelect(t) \/ UserInsert(t) \/ Backup(t) \/ DbFails(t)
    \/ Add(t) \/ IssueToken(t)

Next ==
    \/ \E t \in Threads : (\E r \in Request : LoginRequest(t, r)) \/ LoginStep(t)
    \/ \E tok \in tokens : getSession(tok)
    \/ Tick
    \/ Restart

Spec == Init /\ [][Next]_vars

(* The server keeps scheduling a worker that has a request. *)
FairSpec == Spec /\ \A t \in Threads : WF_vars(LoginStep(t))

-----------------------------------------------------------------------------
(* The sessions that can sign: cached ones, and those a login is about to  *)
(* cache or to issue a token for.                                          *)
Usable ==
    {cache[n].session : n \in {m \in Users : cache[m] # NoSession}} \cup
    {sess[t] : t \in {s \in Threads : pc[s] \in {"add", "issue"}}}

(* Whatever order concurrent first logins, failures and restarts come in,  *)
(* a usable session holds exactly the key pair and the password that table *)
(* user stores for its name and group: a login that lost the race for the  *)
(* user's row never signs with the key pair it generated (createNewUser,   *)
(* loginOrCreate lines 48-66).                                             *)
SessionMatchesRow == \A s \in Usable : RowOf(s) \in userRows

(* Every token names a key pair that is stored for its user name, in this  *)
(* life of the process or in an earlier one (login lines 41-51).           *)
TokenKeyIsStored ==
    \A tok \in tokens : \E u \in userRows : u.name = tok.name /\ u.key = tok.key

(* A later request signs with the cached session of the token's name,      *)
(* whichever login put it there (getSession line 63).  It holds the key    *)
(* pair the token names, or the name is one of another group: neither      *)
(* races and failed logins nor a restart make a token open another key     *)
(* pair of its own user.                                                   *)
TokenOpensItsKey ==
    \A tok \in tokens : cache[tok.name] # NoSession =>
        LET s == cache[tok.name].session IN
        \A u \in userRows :
            u.name = tok.name /\ u.key = tok.key /\ u.group = s.group => s.key = tok.key

(* The passphrase backup of a user is missing only while its creation is   *)
(* at work or when that creation was cut short after User::save (line 125) *)
(* by a failure, a crash or the missing support key.                       *)
BackupMissingOnlyIfInterrupted ==
    \A u \in userRows :
        \/ u.key \in backups
        \/ u.key \in interrupted
        \/ \E t \in Threads : pc[t] = "backup" /\ sess[t].key = u.key

(* Every login is answered, whatever the limiter, the pool and the         *)
(* database do: nothing in it waits for another login without a timeout.   *)
EveryLoginIsAnswered == \A t \in Threads : (pc[t] = "login") ~> (pc[t] = "idle")

-----------------------------------------------------------------------------
(* API.md:34: "If user with name and groupAlias not exist, he will         *)
(* generate a public-private key pair for this user and save it into db":  *)
(* after a successful login the user exists in the group it asked for.     *)
LoginCreatesUser == \A tok \in tokens : Rows(tok.name, tok.group) # {}

(* API.md:120, "invalid jwt token: ... or was timed out": a token past its *)
(* expiration is not accepted.                                             *)
TimedOutTokenRefused ==
    \A tok \in tokens, ip \in Ips :
        now >= tok.at + SessionValidDuration => getSessionOutcome(tok, ip) # "ok"

(* config/blockchain_connector.properties:31, "public and private key of   *)
(* user can be recovered with passphrase": a user somebody logged in as    *)
(* has its passphrase saved, or its creation is still about to save it.    *)
LoggedInUserHasBackup ==
    \A tok \in tokens :
        \/ tok.key \in backups
        \/ \E t \in Threads : pc[t] = "backup" /\ sess[t].key = tok.key
=============================================================================
