------------------------------- MODULE Serving -------------------------------
(***************************************************************************)
(* An instance from its start to its end: Startup, composed with what the  *)
(* request handlers need of it while it serves and is shut down.           *)
(*                                                                         *)
(* JsonRequestHandlerFactory makes a handler for each request by its path. *)
(* JsonLogin and JsonOpenConnection read the server's private key          *)
(* g_JwtPrivateKey, which initServerCrypto loads and unload() frees.       *)
(* json_srv.stop() accepts no new connection but lets the handlers at work *)
(* go on (external: Poco's TCPServer), and main does not wait for them.    *)
(***************************************************************************)
EXTENDS Startup

VARIABLES
    key,     \* g_JwtPrivateKey of each instance
    stage,   \* how far main has got with the shutdown
    handler, \* a handler at work, and which step it is at
    answer   \* what the last one answered

svOwnVars == <<key, stage, handler, answer>>
svVars == <<stVars, svOwnVars>>

Keys     == {"none", "short", "good"}
Paths    == {"/packTransaction", "/sendTransactionIota", "/creation", "/transfer",
             "/registerAddress", "/login", "/openCommunication", "/notify",
             "/listTransactions", "/listPending", "/something"}
Handlers == {"none", "JsonLogin", "JsonOpenConnection", "JsonUnknown", "another"}

SvTypeOK ==
    /\ key \in [Instances -> Keys]
    /\ stage \in [Instances -> {"up", "stopped", "unloaded"}]
    /\ handler \in [Instances -> Handlers]
    /\ answer \in [Instances -> {"none", "success", "error"}]

SvInit ==
    /\ StInit
    /\ key = [i \in Instances |-> "none"]
    /\ stage = [i \in Instances |-> "up"]
    /\ handler = [i \in Instances |-> "none"]
    /\ answer = [i \in Instances |-> "none"]

-----------------------------------------------------------------------------
(* The process is gone, and with it all of its memory. *)
Gone(i) ==
    /\ key' = [key EXCEPT ![i] = "none"]
    /\ stage' = [stage EXCEPT ![i] = "up"]
    /\ handler' = [handler EXCEPT ![i] = "none"]
    /\ answer' = [answer EXCEPT ![i] = "none"]

(* Lines 90-104 of initServerCrypto: without a private key of the right    *)
(* size the start ends here.                                               *)
KeyAcceptedMutant_SizeUnchecked(k) == k # "none"
KeyAccepted(k) == k = "good"
LoadKeys(i) ==
    /\ InitServerCrypto(i)
    /\ \/ /\ ipc'[i] = "down"
          /\ Gone(i)
       \/ /\ ipc'[i] # "down"
          /\ \E k \in {k \in Keys : KeyAccepted(k)} : key' = [key EXCEPT ![i] = k]
          /\ UNCHANGED <<stage, handler, answer>>

(* Every other way a process goes on, or ends. *)
StartupStep(i) ==
    /\ \/ \E version \in Releases : Start(i, version)
       \/ InitSSLClientContext(i) \/ InitMysql(i) \/ CreateMigrationTable(i)
       \/ LoadAll(i) \/ SkipTable(i) \/ CreateTable(i) \/ Record(i)
       \/ Serve(i) \/ Fail(i)
    /\ IF ipc'[i] = "down" THEN Gone(i) ELSE UNCHANGED svOwnVars

-----------------------------------------------------------------------------
(* createRequestHandler. *)
HandlerForMutant_NoUnknown(path) ==
    CASE path = "/login" -> "JsonLogin"
      [] path = "/openCommunication" -> "JsonOpenConnection"
      [] path = "/something" -> "nullptr"
      [] OTHER -> "another"
HandlerFor(path) ==
    CASE path = "/login" -> "JsonLogin"
      [] path = "/openCommunication" -> "JsonOpenConnection"
      [] path = "/something" -> "JsonUnknown"
      [] OTHER -> "another"

(* Requests are accepted until json_srv.stop(). *)
Accepts(i) == ipc[i] = "serving" /\ stage[i] = "up"
Request(i, path) ==
    /\ Accepts(i) /\ handler[i] = "none"
    /\ handler' = [handler EXCEPT ![i] = HandlerFor(path)]
    /\ answer' = [answer EXCEPT ![i] = "none"]
    /\ UNCHANGED <<stVars, key, stage>>

Reply(i, a) ==
    /\ handler' = [handler EXCEPT ![i] = "none"]
    /\ answer' = [answer EXCEPT ![i] = a]
    /\ UNCHANGED <<stVars, key, stage>>

(* JsonUnknown, and the handlers that the other modules are about. *)
Unknown(i) == handler[i] = "JsonUnknown" /\ Reply(i, "error")
Another(i) == handler[i] = "another" /\ (Reply(i, "success") \/ Reply(i, "error"))

(* JsonLogin decrypts the password with the key, JsonOpenConnection checks *)
(* the caller's signature of the public key that belongs to it: wrong or   *)
(* missing parameters are an error before that, a password or signature    *)
(* that does not fit one after it.  Otherwise the answer is a token.       *)
KeyReaders == {"JsonLogin", "JsonOpenConnection"}
RefuseParameters(i) ==
    handler[i] \in KeyReaders /\ Reply(i, "error")
ReadKey(i) ==
    /\ handler[i] \in KeyReaders /\ key[i] = "good"
    /\ Reply(i, "success") \/ Reply(i, "error")

(* The key is not there: a null pointer, freed memory or, for a key that   *)
(* is too short, whatever lies behind it; the handler may end the process. *)
ReadMissingKey(i) ==
    /\ handler[i] \in KeyReaders /\ key[i] # "good"
    /\ \/ Reply(i, "success") \/ Reply(i, "error")
       \/ Fail(i) /\ Gone(i)

(* The end of main: stop, unload, and the way out. *)
StopServer(i) ==
    /\ ipc[i] = "serving" /\ stage[i] = "up"
    /\ stage' = [stage EXCEPT ![i] = "stopped"]
    /\ UNCHANGED <<stVars, key, handler, answer>>
unload(i) ==
    /\ stage[i] = "stopped"
    /\ stage' = [stage EXCEPT ![i] = "unloaded"]
    /\ key' = [key EXCEPT ![i] = "none"]
    /\ UNCHANGED <<stVars, handler, answer>>
Exit(i) == stage[i] = "unloaded" /\ Stop(i) /\ Gone(i)

SvNext ==
    \E i \in Instances :
        \/ LoadKeys(i) \/ StartupStep(i)
        \/ \E path \in Paths : Request(i, path)
        \/ Unknown(i) \/ Another(i) \/ RefuseParameters(i) \/ ReadKey(i) \/ ReadMissingKey(i)
        \/ StopServer(i) \/ unload(i) \/ Exit(i)

SvSpec == SvInit /\ [][SvNext]_svVars

-----------------------------------------------------------------------------
(* A handler is at work only on a complete schema and, if it needs the     *)
(* private key, with the key in place, except in one window: main has gone *)
(* past unload() while the handler was still running (initServerCrypto     *)
(* lines 90-104, main lines 167-206).                                      *)
HandlersFindTheKey ==
    \A i \in Instances : handler[i] # "none" =>
        /\ \A t \in TableNames : tables[t] # None /\ migrations[t] >= build[i]
        /\ handler[i] \in KeyReaders => key[i] = "good" \/ stage[i] = "unloaded"
=============================================================================
