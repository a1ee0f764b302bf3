---------------------------- MODULE ServingProofs ----------------------------
(***************************************************************************)
(* Proofs about Serving for any number of instances and releases.          *)
(*                                                                         *)
(* Serving's steps are Startup's steps, or leave Startup's state alone, so *)
(* everything proved of StSpec holds while requests are served.  On top of *)
(* it the invariant says that handlers and the shutdown exist only in a    *)
(* process that serves, and that such a process has its key until          *)
(* unload().                                                               *)
(***************************************************************************)
EXTENDS Serving, StartupProofs

(* Handlers exist only in a process that got as far as serving. *)
HandlerIsServing == \A i \in Instances : handler[i] # "none" => ipc[i] = "serving"

(* Only such a process is shut down. *)
ShutdownIsServing == \A i \in Instances : stage[i] # "up" => ipc[i] = "serving"

(* Past initServerCrypto the key is there, until unload(). *)
KeyIsLoaded ==
    \A i \in Instances :
        ipc[i] \notin {"down", "crypto"} => key[i] = "good" \/ stage[i] = "unloaded"

(* The inductive invariant of an instance that serves. *)
SvInv == SvTypeOK /\ HandlerIsServing /\ ShutdownIsServing /\ KeyIsLoaded

(* One instance's step in Serving. *)
SvMove(i) ==
    \/ LoadKeys(i) \/ StartupStep(i)
    \/ \E path \in Paths : Request(i, path)
    \/ Unknown(i) \/ Another(i) \/ RefuseParameters(i) \/ ReadKey(i) \/ ReadMissingKey(i)
    \/ StopServer(i) \/ unload(i) \/ Exit(i)

(* Whatever a handler or the shutdown does, Startup sees one of its own    *)
(* steps or nothing.                                                       *)
LEMMA ServingStepIsStartupStep == [SvNext]_svVars => [StNext]_stVars
<1> SUFFICES ASSUME [SvNext]_svVars PROVE [StNext]_stVars
    OBVIOUS
<1>1. ASSUME NEW i \in Instances, SvMove(i) PROVE [StNext]_stVars
    <2>1. CASE LoadKeys(i) \/ StartupStep(i) \/ Exit(i)
        BY <2>1 DEF LoadKeys, StartupStep, Exit, StNext
    <2>2. CASE \E path \in Paths : Request(i, path)
        BY <2>2 DEF Request
    <2>3. CASE Unknown(i) \/ Another(i) \/ RefuseParameters(i) \/ ReadKey(i)
        BY <2>3 DEF Unknown, Another, RefuseParameters, ReadKey, Reply
    <2>4. CASE ReadMissingKey(i)
        BY <2>4 DEF ReadMissingKey, Reply, StNext
    <2>5. CASE StopServer(i) \/ unload(i)
        BY <2>5 DEF StopServer, unload
    <2> QED BY <1>1, <2>1, <2>2, <2>3, <2>4, <2>5 DEF SvMove
<1>2. ASSUME UNCHANGED svVars PROVE UNCHANGED stVars
    BY <1>2 DEF svVars
<1> QED BY <1>1, <1>2 DEF SvNext, SvMove

(* Composed with its handlers, an instance still behaves as Startup says:  *)
(* every theorem about StSpec holds of SvSpec.                             *)
THEOREM ServingImplementsStartup == SvSpec => StSpec
<1>1. SvInit => StInit
    BY DEF SvInit
<1> QED BY <1>1, ServingStepIsStartupStep, PTL DEF SvSpec, StSpec

(* A handler's answer, or the end of the process, keeps the invariant. *)
LEMMA ReplyOrGoneKeeps ==
    ASSUME SvInv, StTypeOK, NEW i \in Instances,
           \/ \E a \in {"success", "error"} : Reply(i, a)
           \/ ipc' = [ipc EXCEPT ![i] = "down"] /\ Gone(i)
    PROVE  SvInv'
<1>1. CASE \E a \in {"success", "error"} : Reply(i, a)
    BY <1>1 DEF Reply, stVars, SvInv, SvTypeOK, HandlerIsServing, ShutdownIsServing,
                KeyIsLoaded, Handlers
<1>2. CASE ipc' = [ipc EXCEPT ![i] = "down"] /\ Gone(i)
    <2>1. \A j \in Instances : ipc'[j] = IF j = i THEN "down" ELSE ipc[j]
        BY <1>2 DEF StTypeOK
    <2> QED BY <1>2, <2>1 DEF Gone, SvInv, SvTypeOK, HandlerIsServing,
                ShutdownIsServing, KeyIsLoaded, Handlers, Keys
<1> QED BY <1>1, <1>2

(* Every step keeps handlers and shutdowns inside a serving process, and   *)
(* the key in place.                                                       *)
LEMMA SvNextInv == StTypeOK /\ SvInv /\ [SvNext]_svVars => SvInv'
<1> SUFFICES ASSUME StTypeOK, SvInv, [SvNext]_svVars PROVE SvInv'
    OBVIOUS
<1>1. ASSUME NEW i \in Instances, LoadKeys(i) PROVE SvInv'
    <2>1. ipc[i] = "crypto"
        BY <1>1 DEF LoadKeys, InitServerCrypto
    <2>2. CASE ipc'[i] = "down" /\ Gone(i)
        <3>1. ipc' = [ipc EXCEPT ![i] = "down"]
            BY <1>1, <2>2 DEF LoadKeys, InitServerCrypto, Proceed, GoDown, StTypeOK
        <3> QED BY <3>1, <2>2, ReplyOrGoneKeeps
    <2>3. CASE /\ ipc'[i] # "down"
               /\ \E k \in {k \in Keys : KeyAccepted(k)} : key' = [key EXCEPT ![i] = k]
               /\ UNCHANGED <<stage, handler, answer>>
        <3>1. ipc' = [ipc EXCEPT ![i] = "ssl"]
            BY <1>1, <2>3 DEF LoadKeys, InitServerCrypto, Proceed, GoDown, StTypeOK
        <3>2. key' = [key EXCEPT ![i] = "good"]
            BY <2>3 DEF KeyAccepted
        <3>3. handler[i] = "none" /\ stage[i] = "up"
            BY <2>1 DEF SvInv, HandlerIsServing, ShutdownIsServing
        <3>4. SvTypeOK'
            BY <2>3, <3>2 DEF SvInv, SvTypeOK, Keys
        <3> QED BY <2>3, <3>1, <3>2, <3>3, <3>4 DEF StTypeOK, SvInv, SvTypeOK, HandlerIsServing,
                ShutdownIsServing, KeyIsLoaded
    <2> QED BY <1>1, <2>2, <2>3 DEF LoadKeys
<1>2. ASSUME NEW i \in Instances, StartupStep(i) PROVE SvInv'
    <2>1. CASE ipc'[i] = "down"
        <3>1. ipc' = [ipc EXCEPT ![i] = "down"] /\ Gone(i)
            BY <1>2, <2>1 DEF StartupStep, Start, InitSSLClientContext, InitMysql,
               CreateMigrationTable, LoadAll, SkipTable, CreateTable, Record, Serve, Fail,
               Proceed, GoDown, StTypeOK
        <3> QED BY <3>1, ReplyOrGoneKeeps
    <2>2. CASE ipc'[i] # "down"
        <3>1. UNCHANGED svOwnVars
            BY <1>2, <2>2 DEF StartupStep
        <3>2. \A j \in Instances \ {i} : ipc'[j] = ipc[j]
            BY <1>2 DEF StartupStep, Start, InitSSLClientContext, InitMysql,
               CreateMigrationTable, LoadAll, SkipTable, CreateTable, Record, Serve, Fail,
               Proceed, GoDown, StTypeOK
        <3>3. /\ ipc[i] # "serving"
              /\ ipc'[i] \notin {"down", "crypto"} => ipc[i] \notin {"down", "crypto"}
            BY <1>2, <2>2 DEF StartupStep, Start, InitSSLClientContext, InitMysql,
               CreateMigrationTable, LoadAll, SkipTable, CreateTable, Record, Serve, Fail,
               Proceed, GoDown, StTypeOK
        <3> QED BY <3>1, <3>2, <3>3 DEF svOwnVars, SvInv, SvTypeOK, HandlerIsServing,
                ShutdownIsServing, KeyIsLoaded
    <2> QED BY <2>1, <2>2
<1>3. ASSUME NEW i \in Instances, NEW path \in Paths, Request(i, path) PROVE SvInv'
    <2>1. HandlerFor(path) \in Handlers
        BY DEF HandlerFor, Handlers, Paths
    <2> QED BY <1>3, <2>1 DEF Request, Accepts, stVars, SvInv, SvTypeOK, HandlerIsServing,
            ShutdownIsServing, KeyIsLoaded
<1>4. ASSUME NEW i \in Instances,
             Unknown(i) \/ Another(i) \/ RefuseParameters(i) \/ ReadKey(i) \/ ReadMissingKey(i)
      PROVE  SvInv'
    <2>1. \/ \E a \in {"success", "error"} : Reply(i, a)
          \/ ipc' = [ipc EXCEPT ![i] = "down"] /\ Gone(i)
        BY <1>4 DEF Unknown, Another, RefuseParameters, ReadKey, ReadMissingKey, Fail, GoDown
    <2> QED BY <2>1, ReplyOrGoneKeeps
<1>5. ASSUME NEW i \in Instances, StopServer(i) \/ unload(i) PROVE SvInv'
    <2>1. ipc[i] = "serving" /\ ipc' = ipc /\ handler' = handler
        BY <1>5 DEF StopServer, unload, stVars, SvInv, ShutdownIsServing
    <2> QED BY <1>5, <2>1 DEF StopServer, unload, SvInv, SvTypeOK, Keys, HandlerIsServing,
            ShutdownIsServing, KeyIsLoaded
<1>6. ASSUME NEW i \in Instances, Exit(i) PROVE SvInv'
    <2>1. ipc' = [ipc EXCEPT ![i] = "down"] /\ Gone(i)
        BY <1>6 DEF Exit, Stop, GoDown
    <2> QED BY <2>1, ReplyOrGoneKeeps
<1>7. ASSUME UNCHANGED svVars PROVE SvInv'
    BY <1>7 DEF svVars, svOwnVars, stVars, SvInv, SvTypeOK, HandlerIsServing,
       ShutdownIsServing, KeyIsLoaded
<1> QED BY <1>1, <1>2, <1>3, <1>4, <1>5, <1>6, <1>7 DEF SvNext

(* The invariant holds in every reachable state. *)
LEMMA SvInvAlways == SvSpec => []SvInv
<1>1. SvInit => SvInv
    BY DEF SvInit, StInit, SvInv, SvTypeOK, Keys, Handlers, HandlerIsServing,
       ShutdownIsServing, KeyIsLoaded
<1> QED BY <1>1, SvNextInv, ServingImplementsStartup, StTypeCorrect, PTL DEF SvSpec

(* The handlers' state keeps its types: createRequestHandler makes a       *)
(* handler for every path.                                                 *)
THEOREM SvTypeCorrect == SvSpec => []SvTypeOK
<1>1. SvInv => SvTypeOK
    BY DEF SvInv
<1> QED BY <1>1, SvInvAlways, PTL

(* However many instances start, crash and shut down on one database: a    *)
(* handler at work finds a complete schema that is new enough, and the     *)
(* private key, unless main has gone past unload() (main lines 167-206).   *)
THEOREM HandlersAreServed == SvSpec => []HandlersFindTheKey
<1>1. SvInv /\ ServingIsMigrated => HandlersFindTheKey
    BY DEF SvInv, HandlerIsServing, KeyIsLoaded, ServingIsMigrated, HandlersFindTheKey
<1> QED BY <1>1, SvInvAlways, ServingImplementsStartup, MigratedBeforeServing, PTL
=============================================================================
